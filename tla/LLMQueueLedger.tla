--------------------------- MODULE LLMQueueLedger ---------------------------
(* The queue seen as a JobLedger: which promise each table state stands for. *)
EXTENDS LLMQueue

LedgerPhase(a) ==
  IF a \in analysed
  THEN IF job[a] = "done" THEN "closed"
       ELSE IF job[a] = "running" THEN "recorded" ELSE "broken"
  ELSE IF job[a] = "none" THEN "absent"
       ELSE IF job[a] = "pending" THEN "queued"
       ELSE IF job[a] = "running" THEN "claimed"
       ELSE IF job[a] = "failed" THEN "given up" ELSE "broken"

LedgerOwner(a) ==
  IF \E w \in Workers : Owns(w, a) THEN CHOOSE w \in Workers : Owns(w, a) ELSE None

Ledger == INSTANCE JobLedger WITH
  Limit <- EffectiveMax,
  phase <- [a \in Articles |-> LedgerPhase(a)],
  owner <- [a \in Articles |-> LedgerOwner(a)],
  tries <- attempts

\* The queue keeps every promise of the ledger: a job's claim, its answer and
\* its tries move only as JobLedger allows, through every interleaving of
\* statements, store errors, shutdowns and administrator retries.
ImplementsLedger == Ledger!Spec
=============================================================================

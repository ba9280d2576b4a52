----------------------------- MODULE JobLedger ------------------------------
(***************************************************************************)
(* What the queue promises to the rest of the system, with no tables,      *)
(* statements, clocks or processes: a job is claimed by one worker, only   *)
(* its claimant records its answer or returns it, an answer is recorded    *)
(* once and never lost, a job is given up only after its tries are used up *)
(* and a claim that is abandoned is never taken over.                      *)
(***************************************************************************)
EXTENDS Integers

CONSTANTS Articles, Workers, None, Limit

VARIABLES phase, owner, tries

ledger == <<phase, owner, tries>>

Init ==
  /\ phase = [a \in Articles |-> "absent"]
  /\ owner = [a \in Articles |-> None]
  /\ tries = [a \in Articles |-> 0]

Move(a, to) == phase' = [phase EXCEPT ![a] = to]
Assign(a, w) == owner' = [owner EXCEPT ![a] = w]

Submit(a) ==
  /\ phase[a] = "absent"
  /\ Move(a, "queued")
  /\ UNCHANGED <<owner, tries>>

Claim(a, w) ==
  /\ phase[a] = "queued"
  /\ \A b \in Articles : owner[b] # w
  /\ Move(a, "claimed") /\ Assign(a, w)
  /\ UNCHANGED tries

Record(a, w) ==
  /\ phase[a] = "claimed" /\ owner[a] = w
  /\ Move(a, "recorded")
  /\ UNCHANGED <<owner, tries>>

Close(a, w) ==
  /\ phase[a] = "recorded" /\ owner[a] = w
  /\ Move(a, "closed") /\ Assign(a, None)
  /\ UNCHANGED tries

\* An unsuccessful try goes back to the queue or ends the job.
Return(a, w) ==
  /\ phase[a] = "claimed" /\ owner[a] = w
  /\ tries' = [tries EXCEPT ![a] = @ + 1]
  /\ Move(a, IF tries[a] + 1 < Limit THEN "queued" ELSE "given up")
  /\ Assign(a, None)

\* Workers may vanish with what they claimed.
Abandon(gone) ==
  /\ owner' = [a \in Articles |-> IF owner[a] \in gone THEN None ELSE owner[a]]
  /\ UNCHANGED <<phase, tries>>

ReviveAll ==
  /\ phase' = [a \in Articles |-> IF phase[a] = "given up" THEN "queued" ELSE phase[a]]
  /\ UNCHANGED <<owner, tries>>

Next ==
  \/ \E a \in Articles : Submit(a)
  \/ \E a \in Articles, w \in Workers :
       Claim(a, w) \/ Record(a, w) \/ Close(a, w) \/ Return(a, w)
  \/ \E gone \in SUBSET Workers : Abandon(gone)
  \/ ReviveAll

Spec == Init /\ [][Next]_ledger
=============================================================================

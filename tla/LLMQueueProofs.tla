--------------------------- MODULE LLMQueueProofs ---------------------------
(***************************************************************************)
(* Safety of the LLM queue for any number of articles, processes, worker   *)
(* goroutines, attempts, store errors, shutdowns and retries, and its      *)
(* refinement of JobLedger.                                                *)
(***************************************************************************)
EXTENDS LLMQueueLedger, FiniteSetTheorems, WellFoundedInduction, TLAPS

\* Where the analysis of a held article stands is known from the program
\* counter: nobody else can store it while the job is held.
BeforeSave == {"check", "load", "call", "save", "fail", "expire"}
AfterSave  == {"mark", "cluster", "complete"}

HeldIsArticle == \A w \in Workers : pc[w] # "idle" => held[w] \in Articles

AnalysisByCounter ==
  \A w \in Workers : /\ pc[w] \in BeforeSave => held[w] \notin analysed
                     /\ pc[w] \in AfterSave => held[w] \in analysed

OwnershipInv ==
  /\ TypeOK
  /\ HeldIsArticle
  /\ SoleOwner
  /\ AnalysisByCounter
  /\ AnalysisAndJobAgree

LEMMA EffectiveMaxIsPositive ==
  EffectiveMax \in Nat /\ EffectiveMax >= 1
BY QueueAssumption DEF EffectiveMax

LEMMA BackoffIsNat ==
  ASSUME NEW n \in Nat
  PROVE  Backoff(n) \in Nat
<1>1. Len(Backoffs) \in Nat /\ Len(Backoffs) >= 1
  BY QueueAssumption
<1>2. \A i \in 1..Len(Backoffs) : Backoffs[i] \in Nat
  BY QueueAssumption
<1>3. CASE n >= Len(Backoffs)
  BY <1>1, <1>2, <1>3 DEF Backoff
<1>4. CASE ~(n >= Len(Backoffs))
  <2>1. n + 1 \in 1..Len(Backoffs)
    BY <1>1, <1>4
  <2> QED BY <1>2, <1>4, <2>1 DEF Backoff
<1> QED BY <1>3, <1>4

LEMMA NextRunIsNat ==
  ASSUME NEW n \in Nat
  PROVE  NextRun(n) \in Nat
BY QueueAssumption DEF NextRun, MaxOf

LEMMA InitEstablishes == Init => OwnershipInv
<1> SUFFICES ASSUME Init PROVE OwnershipInv
  OBVIOUS
<1>1. TypeOK
  BY QueueAssumption DEF Init, TypeOK, PCs, Owning
<1>2. HeldIsArticle /\ SoleOwner /\ AnalysisByCounter /\ AnalysisAndJobAgree
  BY DEF Init, HeldIsArticle, SoleOwner, AnalysisByCounter, AnalysisAndJobAgree,
         Owning, BeforeSave, AfterSave
<1> QED BY <1>1, <1>2 DEF OwnershipInv

-----------------------------------------------------------------------------
(* Every step keeps OwnershipInv: one lemma per conjunct, one step per     *)
(* action.                                                                 *)

LEMMA TypeStep ==
  ASSUME TypeOK, HeldIsArticle, [Next]_vars
  PROVE  TypeOK'
<1> USE DEF TypeOK
<1>1. ASSUME NEW a \in Articles, NEW kind \in {"fresh", "outdated"}, InsertArticle(a, kind)
      PROVE  TypeOK'
  BY <1>1 DEF InsertArticle, budgets
<1>2. ASSUME NEW a \in Articles, EnqueueLLMJob(a)
      PROVE  TypeOK'
  <2>1. Ranks \in SUBSET Nat
    BY DEF Ranks
  <2>2. born' \in [Articles -> Nat]
    BY <1>2, <2>1 DEF EnqueueLLMJob
  <2> QED BY <1>2, <2>2 DEF EnqueueLLMJob, budgets
<1>3. ASSUME NEW w \in Workers, Pick(w)
      PROVE  TypeOK'
  BY <1>3 DEF Pick, Due, Steady, budgets, PCs, Owning
<1>4. ASSUME NEW w \in Workers, CheckAnalysis(w)
      PROVE  TypeOK'
  BY <1>4 DEF CheckAnalysis, Goto, Steady, budgets, table, PCs, Owning
<1>5. ASSUME NEW w \in Workers, LoadArticle(w)
      PROVE  TypeOK'
  <2>1. held[w] \in Articles
    BY <1>5 DEF LoadArticle, At, HeldIsArticle
  <2>2. row[held[w]] \in {"none", "fresh", "outdated"}
    BY <2>1
  <2> QED BY <1>5, <2>2 DEF LoadArticle, Goto, Steady, budgets, table, PCs, Owning
<1>6. ASSUME NEW w \in Workers, CallAnswers(w)
      PROVE  TypeOK'
  <2>1. answers' \in [Articles -> Nat]
    <3>1. held[w] \in Articles /\ answers[held[w]] + 1 \in Nat
      BY <1>6 DEF CallAnswers, At, HeldIsArticle
    <3> QED BY <1>6, <3>1 DEF CallAnswers
  <2> QED BY <1>6, <2>1 DEF CallAnswers, Goto, budgets, table, PCs, Owning
<1>7. ASSUME NEW w \in Workers, CallFails(w)
      PROVE  TypeOK'
  BY <1>7 DEF CallFails, Goto, Steady, budgets, table, PCs, Owning
<1>8. ASSUME NEW w \in Workers, SaveAnalysis(w)
      PROVE  TypeOK'
  <2>1. held[w] \in Articles
    BY <1>8 DEF SaveAnalysis, At, HeldIsArticle
  <2> QED BY <1>8, <2>1 DEF SaveAnalysis, Goto, Steady, budgets, PCs, Owning
<1>9. ASSUME NEW w \in Workers, MarkDone(w) \/ Cluster(w)
      PROVE  TypeOK'
  BY <1>9 DEF MarkDone, Cluster, Goto, Steady, budgets, table, PCs, Owning
<1>10. ASSUME NEW w \in Workers, CompleteLLMJob(w)
       PROVE  TypeOK'
  BY <1>10 DEF CompleteLLMJob, LetGo, Steady, budgets, PCs
<1>11. ASSUME NEW a \in Articles, NEW delay \in Nat, FailRow(a, delay)
       PROVE  /\ row' \in [Articles -> {"none", "fresh", "outdated"}]
              /\ job' \in [Articles -> {"none", "pending", "running", "done", "failed"}]
              /\ attempts' \in [Articles -> Nat]
              /\ wait' \in [Articles -> Nat]
              /\ rested' \in [Articles -> Nat]
              /\ UNCHANGED <<row, born, analysed, up, dbErrors, stops, retries, answers>>
  BY <1>11, NextRunIsNat DEF FailRow, budgets
<1>12. ASSUME NEW w \in Workers, FailLLMJob(w)
       PROVE  TypeOK'
  <2>1. held[w] \in Articles /\ attempts[held[w]] \in Nat
    BY <1>12 DEF FailLLMJob, At, HeldIsArticle
  <2>2. Backoff(attempts[held[w]]) \in Nat
    BY <2>1, BackoffIsNat
  <2>3. FailRow(held[w], Backoff(attempts[held[w]]))
    BY <1>12 DEF FailLLMJob
  <2> QED BY <1>11, <1>12, <2>1, <2>2, <2>3 DEF FailLLMJob, LetGo, PCs
<1>13. ASSUME NEW w \in Workers, ExpireLLMJob(w)
       PROVE  TypeOK'
  <2>1. held[w] \in Articles
    BY <1>13 DEF ExpireLLMJob, At, HeldIsArticle
  <2> QED BY <1>11, <1>13, <2>1 DEF ExpireLLMJob, Goto, PCs
<1>14. ASSUME NEW w \in Workers, MarkOutdated(w)
       PROVE  TypeOK'
  BY <1>14 DEF MarkOutdated, LetGo, Steady, budgets, table, PCs
<1>15. ASSUME NEW w \in Workers, StoreError(w) \/ GiveBackError(w) \/ ExpireError(w)
       PROVE  TypeOK'
  <2>1. dbErrors' \in 0..MaxDbErrors
    BY <1>15, QueueAssumption DEF StoreError, GiveBackError, ExpireError, SpendDbError
  <2>2. UNCHANGED <<row, job, attempts, born, wait, analysed, up, stops, retries, answers, rested>>
    BY <1>15 DEF StoreError, GiveBackError, ExpireError, SpendDbError, table
  <2>3. pc' \in [Workers -> PCs] /\ held' \in [Workers -> Articles \cup {None}]
    BY <1>15 DEF StoreError, GiveBackError, ExpireError, Goto, LetGo, PCs, Owning
  <2> QED BY <2>1, <2>2, <2>3
<1>16. ASSUME NEW p \in Procs, Stop(p) \/ Start(p)
       PROVE  TypeOK'
  <2>1. stops' \in 0..MaxStops
    BY <1>16, QueueAssumption DEF Stop, Start, budgets
  <2>2. pc' \in [Workers -> PCs] /\ held' \in [Workers -> Articles \cup {None}]
    BY <1>16 DEF Stop, Start, PCs
  <2>3. up' \in SUBSET Procs
    BY <1>16 DEF Stop, Start
  <2> QED BY <1>16, <2>1, <2>2, <2>3 DEF Stop, Start, table, budgets
<1>17. CASE RetryFailedLLM
  BY <1>17, QueueAssumption DEF RetryFailedLLM
<1>18. CASE Tick
  <2>1. wait' \in [Articles -> Nat]
    BY <1>18 DEF Tick, MaxOf
  <2>2. rested' \in [Articles -> Nat]
    <3>1. rested' = [a \in Articles |-> IF rested[a] < LongRest THEN rested[a] + 1 ELSE rested[a]]
      BY <1>18 DEF Tick
    <3>2. \A a \in Articles : rested[a] \in Nat
      OBVIOUS
    <3> QED BY <3>1, <3>2
  <2> QED BY <1>18, <2>1, <2>2 DEF Tick, budgets
<1>19. CASE UNCHANGED vars
  BY <1>19 DEF vars, table, budgets
<1> QED
  BY <1>1, <1>2, <1>3, <1>4, <1>5, <1>6, <1>7, <1>8, <1>9, <1>10, <1>12, <1>13, <1>14,
     <1>15, <1>16, <1>17, <1>18, <1>19 DEF Next, Work

\* The four conjuncts that speak of holders and analyses.
Holding == HeldIsArticle /\ SoleOwner /\ AnalysisByCounter /\ AnalysisAndJobAgree

LEMMA HoldingStep ==
  ASSUME OwnershipInv, [Next]_vars
  PROVE  Holding'
<1> USE DEF OwnershipInv, Holding, HeldIsArticle, SoleOwner, AnalysisByCounter,
            AnalysisAndJobAgree
<1>t. TypeOK
  OBVIOUS
\* Steps that touch neither a job's status, an analysis nor a worker.
<1>0. ASSUME UNCHANGED <<job, analysed, pc, held>>
      PROVE  Holding'
  BY <1>0
\* Steps of one worker that keep its job and change only its program counter.
<1>g. ASSUME NEW w \in Workers, NEW to \in PCs, Goto(w, to), UNCHANGED <<job, analysed>>,
             pc[w] # "idle",
             to \in Owning => pc[w] \in Owning,
             to \in BeforeSave => held[w] \notin analysed,
             to \in AfterSave => held[w] \in analysed
      PROVE  Holding'
  BY <1>g, <1>t DEF Goto, TypeOK
\* Steps that end with the worker idle and leave the tables alone.
<1>l. ASSUME NEW w \in Workers, LetGo(w), UNCHANGED <<job, analysed>>
      PROVE  Holding'
  BY <1>l, <1>t DEF LetGo, TypeOK, Owning, BeforeSave, AfterSave
<1>1. ASSUME NEW a \in Articles, NEW kind \in {"fresh", "outdated"}, InsertArticle(a, kind)
      PROVE  Holding'
  BY <1>0, <1>1 DEF InsertArticle
<1>2. ASSUME NEW a \in Articles, EnqueueLLMJob(a)
      PROVE  Holding'
  <2>1. UNCHANGED <<analysed, pc, held>> /\ a \notin analysed /\ job[a] = "none"
        /\ job' = [job EXCEPT ![a] = "pending"]
    BY <1>2 DEF EnqueueLLMJob
  <2> QED BY <2>1, <1>t DEF TypeOK, Owning
<1>3. ASSUME NEW w \in Workers, Pick(w)
      PROVE  Holding'
  <2>1. PICK a \in Articles : /\ job[a] = "pending"
                              /\ job' = [job EXCEPT ![a] = "running"]
                              /\ held' = [held EXCEPT ![w] = a]
    BY <1>3 DEF Pick, Due
  <2>2. pc[w] = "idle" /\ pc' = [pc EXCEPT ![w] = "check"] /\ UNCHANGED analysed
    BY <1>3 DEF Pick, At
  <2>3. a \notin analysed
    BY <2>1
  <2>4. \A v \in Workers : pc[v] \in Owning => held[v] # a
    BY <2>1
  <2> QED BY <2>1, <2>2, <2>3, <2>4, <1>t DEF TypeOK, Owning, BeforeSave, AfterSave
<1>4. ASSUME NEW w \in Workers, CheckAnalysis(w)
      PROVE  Holding'
  BY <1>4, <1>g DEF CheckAnalysis, At, table, PCs, Owning, BeforeSave, AfterSave
<1>5. ASSUME NEW w \in Workers, LoadArticle(w)
      PROVE  Holding'
  BY <1>5, <1>g DEF LoadArticle, At, table, PCs, Owning, BeforeSave, AfterSave
<1>6. ASSUME NEW w \in Workers, CallAnswers(w) \/ CallFails(w)
      PROVE  Holding'
  BY <1>6, <1>g DEF CallAnswers, CallFails, At, table, PCs, Owning, BeforeSave, AfterSave
<1>8. ASSUME NEW w \in Workers, SaveAnalysis(w)
      PROVE  Holding'
  <2>1. /\ pc[w] = "save" /\ analysed' = analysed \cup {held[w]}
        /\ pc' = [pc EXCEPT ![w] = "mark"] /\ UNCHANGED <<job, held>>
    BY <1>8 DEF SaveAnalysis, At, Goto
  <2>2. job[held[w]] = "running" /\ held[w] \in Articles
    BY <2>1 DEF Owning
  <2>3. \A v \in Workers : v # w /\ pc[v] \in Owning => held[v] # held[w]
    BY <2>1 DEF Owning
  <2> QED BY <2>1, <2>2, <2>3, <1>t DEF TypeOK, Owning, BeforeSave, AfterSave
<1>9. ASSUME NEW w \in Workers, MarkDone(w) \/ Cluster(w)
      PROVE  Holding'
  BY <1>9, <1>g DEF MarkDone, Cluster, At, table, PCs, Owning, BeforeSave, AfterSave
<1>10. ASSUME NEW w \in Workers, CompleteLLMJob(w)
       PROVE  Holding'
  <2>1. /\ pc[w] = "complete" /\ job' = [job EXCEPT ![held[w]] = "done"]
        /\ pc' = [pc EXCEPT ![w] = "idle"] /\ held' = [held EXCEPT ![w] = None]
        /\ UNCHANGED analysed
    BY <1>10 DEF CompleteLLMJob, At, LetGo
  <2>2. held[w] \in analysed /\ held[w] \in Articles
    BY <2>1 DEF AfterSave
  <2>3. \A v \in Workers : v # w /\ pc[v] \in Owning => held[v] # held[w]
    BY <2>1 DEF Owning
  <2> QED BY <2>1, <2>2, <2>3, <1>t DEF TypeOK, Owning, BeforeSave, AfterSave
\* FailLLMJob, whatever the worker does next.
<1>11. ASSUME NEW w \in Workers, NEW delay, pc[w] \in {"fail", "expire"}, FailRow(held[w], delay),
              LetGo(w) \/ Goto(w, "stale")
       PROVE  Holding'
  <2>1. /\ \E s \in {"failed", "pending"} : job' = [job EXCEPT ![held[w]] = s]
        /\ UNCHANGED analysed
    BY <1>11 DEF FailRow
  <2>2. held[w] \notin analysed /\ held[w] \in Articles
    BY <1>11 DEF BeforeSave
  <2>3. \A v \in Workers : v # w /\ pc[v] \in Owning => held[v] # held[w]
    BY <1>11 DEF Owning
  <2>4. /\ \E here \in {"idle", "stale"} : pc' = [pc EXCEPT ![w] = here]
        /\ \A v \in Workers : v # w => held'[v] = held[v]
        /\ pc'[w] # "idle" => held'[w] = held[w]
    BY <1>11, <1>t DEF LetGo, Goto, TypeOK
  <2>5. pc'[w] \notin Owning /\ pc'[w] \notin BeforeSave /\ pc'[w] \notin AfterSave
    BY <2>4, <1>t DEF TypeOK, Owning, BeforeSave, AfterSave
  <2>6. \A v \in Workers : v # w => pc'[v] = pc[v]
    BY <2>4, <1>t DEF TypeOK
  <2>7. HeldIsArticle'
    BY <2>2, <2>4, <2>6
  <2>8. SoleOwner'
    BY <2>1, <2>2, <2>3, <2>4, <2>5, <2>6, <1>t DEF TypeOK
  <2>9. AnalysisByCounter'
    BY <2>1, <2>4, <2>5, <2>6
  <2>10. AnalysisAndJobAgree'
    BY <2>1, <2>2, <1>t DEF TypeOK
  <2> QED BY <2>7, <2>8, <2>9, <2>10
<1>12. ASSUME NEW w \in Workers, FailLLMJob(w) \/ ExpireLLMJob(w)
       PROVE  Holding'
  BY <1>11, <1>12 DEF FailLLMJob, ExpireLLMJob, At
<1>14. ASSUME NEW w \in Workers, MarkOutdated(w)
       PROVE  Holding'
  BY <1>14, <1>l DEF MarkOutdated, table
<1>15. ASSUME NEW w \in Workers, StoreError(w) \/ ExpireError(w)
       PROVE  Holding'
  BY <1>15, <1>g DEF StoreError, ExpireError, At, SpendDbError, table, PCs, Owning,
                     BeforeSave, AfterSave
<1>16. ASSUME NEW w \in Workers, GiveBackError(w)
       PROVE  Holding'
  BY <1>16, <1>l DEF GiveBackError, SpendDbError, table
<1>17. ASSUME NEW p \in Procs, Stop(p)
       PROVE  Holding'
  <2>1. /\ UNCHANGED <<job, analysed>>
        /\ pc' = [w \in Workers |-> IF w[1] = p THEN "idle" ELSE pc[w]]
        /\ held' = [w \in Workers |-> IF w[1] = p THEN None ELSE held[w]]
    BY <1>17 DEF Stop, table
  <2> QED BY <2>1 DEF Owning, BeforeSave, AfterSave
<1>18. ASSUME NEW p \in Procs, Start(p)
       PROVE  Holding'
  BY <1>0, <1>18 DEF Start, table
<1>19. CASE RetryFailedLLM
  <2>1. /\ UNCHANGED <<analysed, pc, held>>
        /\ job' = [a \in Articles |-> IF job[a] = "failed" THEN "pending" ELSE job[a]]
    BY <1>19 DEF RetryFailedLLM
  <2>2. \A a \in Articles : job[a] \in {"running", "done"} => job'[a] = job[a]
    BY <2>1
  <2>3. \A a \in Articles : job'[a] = "done" => job[a] = "done"
    BY <2>1
  <2> QED BY <2>1, <2>2, <2>3 DEF Owning
<1>20. CASE Tick
  BY <1>0, <1>20 DEF Tick
<1>21. CASE UNCHANGED vars
  BY <1>0, <1>21 DEF vars, table
<1> QED
  BY <1>1, <1>2, <1>3, <1>4, <1>5, <1>6, <1>8, <1>9, <1>10, <1>12, <1>14, <1>15, <1>16,
     <1>17, <1>18, <1>19, <1>20, <1>21 DEF Next, Work

\* OwnershipInv is an invariant: initially nobody holds anything, and every
\* step of a worker, the crawler, the administrator or a failure keeps it.
THEOREM OwnershipInvariant == Spec => []OwnershipInv
<1>1. OwnershipInv /\ [Next]_vars => OwnershipInv'
  <2> SUFFICES ASSUME OwnershipInv, [Next]_vars PROVE OwnershipInv'
    OBVIOUS
  <2>1. TypeOK'
    BY TypeStep DEF OwnershipInv
  <2>2. Holding'
    BY HoldingStep
  <2> QED BY <2>1, <2>2 DEF OwnershipInv, Holding
<1> QED BY InitEstablishes, <1>1, PTL DEF Spec

\* Every reachable state of the queue is well typed.
THEOREM TypeCorrect == Spec => []TypeOK
<1>1. OwnershipInv => TypeOK
  BY DEF OwnershipInv
<1> QED BY OwnershipInvariant, <1>1, PTL

\* A job is worked on by at most one worker of all processes, and nobody
\* changes its status meanwhile.
THEOREM JobsHaveOneOwner == Spec => []SoleOwner
<1>1. OwnershipInv => SoleOwner
  BY DEF OwnershipInv
<1> QED BY OwnershipInvariant, <1>1, PTL

\* The one-call rule: no worker goes to the LLM for an analysed article.
THEOREM OneCallRule == Spec => []NoCallAfterAnalysis
<1>1. OwnershipInv => NoCallAfterAnalysis
  BY DEF OwnershipInv, AnalysisByCounter, BeforeSave, NoCallAfterAnalysis
<1> QED BY OwnershipInvariant, <1>1, PTL

\* done means analysed, and an analysed article's job never waits or fails.
THEOREM AnalysisClosesJob == Spec => []AnalysisAndJobAgree
<1>1. OwnershipInv => AnalysisAndJobAgree
  BY DEF OwnershipInv
<1> QED BY OwnershipInvariant, <1>1, PTL

DoneStays == [][/\ analysed \subseteq analysed'
                /\ \A a \in Articles : job[a] = "done" => job'[a] = "done"]_vars

\* CompleteLLMJob and FailLLMJob update the row whatever its status is; still no
\* late worker and no retry ever opens a job that is done, or loses an analysis.
THEOREM DoneIsForGood == Spec => DoneStays
<1> DEFINE Stays == /\ analysed \subseteq analysed'
                    /\ \A a \in Articles : job[a] = "done" => job'[a] = "done"
<1>1. ASSUME OwnershipInv, [Next]_vars PROVE Stays
  <2>t. /\ job \in [Articles -> {"none", "pending", "running", "done", "failed"}]
        /\ \A w \in Workers : pc[w] \in Owning => job[held[w]] = "running"
    BY <1>1 DEF OwnershipInv, TypeOK, SoleOwner
  <2>1. ASSUME NEW a \in Articles, EnqueueLLMJob(a) PROVE Stays
    BY <2>t, <2>1 DEF EnqueueLLMJob
  <2>2. ASSUME NEW w \in Workers, Pick(w) PROVE Stays
    BY <2>t, <2>2 DEF Pick, Due
  <2>3. ASSUME NEW w \in Workers, CompleteLLMJob(w) PROVE Stays
    BY <2>t, <2>3 DEF CompleteLLMJob
  <2>4. ASSUME NEW w \in Workers, FailLLMJob(w) \/ ExpireLLMJob(w) PROVE Stays
    <3>1. job[held[w]] = "running" /\ UNCHANGED analysed
      BY <2>t, <2>4 DEF FailLLMJob, ExpireLLMJob, FailRow, At, Owning
    <3>2. \A a \in Articles : a # held[w] => job'[a] = job[a]
      BY <2>t, <2>4 DEF FailLLMJob, ExpireLLMJob, FailRow
    <3> QED BY <3>1, <3>2
  <2>5. ASSUME NEW w \in Workers, SaveAnalysis(w) PROVE Stays
    BY <2>5 DEF SaveAnalysis
  <2>6. ASSUME NEW w \in Workers,
               \/ CheckAnalysis(w) \/ LoadArticle(w) \/ CallAnswers(w) \/ CallFails(w)
               \/ MarkDone(w) \/ Cluster(w) \/ MarkOutdated(w)
               \/ StoreError(w) \/ GiveBackError(w) \/ ExpireError(w)
        PROVE  Stays
    BY <2>6 DEF CheckAnalysis, LoadArticle, CallAnswers, CallFails, MarkDone, Cluster,
       MarkOutdated, StoreError, GiveBackError, ExpireError, SpendDbError, table
  <2>7. CASE RetryFailedLLM
    BY <2>t, <2>7 DEF RetryFailedLLM
  <2>8. ASSUME NEW a \in Articles, NEW kind \in {"fresh", "outdated"}, InsertArticle(a, kind)
        PROVE  Stays
    BY <2>8 DEF InsertArticle
  <2>9. ASSUME NEW p \in Procs, Stop(p) \/ Start(p) PROVE Stays
    BY <2>9 DEF Stop, Start, table
  <2>10. CASE Tick \/ UNCHANGED vars
    BY <2>10 DEF Tick, vars, table
  <2> QED BY <1>1, <2>1, <2>2, <2>3, <2>4, <2>5, <2>6, <2>7, <2>8, <2>9, <2>10 DEF Next, Work
<1>2. OwnershipInv /\ [Next]_vars => [Stays]_vars
  BY <1>1
<1> QED BY <1>2, OwnershipInvariant, PTL DEF Spec, DoneStays

-----------------------------------------------------------------------------
(* Attempts and answers.                                                   *)

AttemptsInv ==
  \A a \in Articles :
    /\ job[a] = "failed" => attempts[a] >= EffectiveMax
    /\ job[a] \in {"none", "pending", "running"} => attempts[a] < EffectiveMax + retries
    /\ attempts[a] <= EffectiveMax + retries

\* A job in the queue has had a useful answer only if a store error ate it,
\* and so has a job whose worker is not about to save.
AnswersInv ==
  /\ \A a \in Articles : /\ answers[a] <= 1 + dbErrors
                         /\ job[a] \in {"none", "pending", "failed"} => answers[a] <= dbErrors
  /\ \A w \in Workers : pc[w] \in {"check", "load", "call", "expire", "fail"}
                          => answers[held[w]] <= dbErrors

LEMMA AttemptsStep ==
  ASSUME OwnershipInv, AttemptsInv, [Next]_vars
  PROVE  AttemptsInv'
<1> USE DEF AttemptsInv
<1>t. TypeOK /\ HeldIsArticle /\ SoleOwner /\ EffectiveMax \in Nat
      /\ attempts \in [Articles -> Nat] /\ retries \in Nat
      /\ job \in [Articles -> {"none", "pending", "running", "done", "failed"}]
  BY EffectiveMaxIsPositive, QueueAssumption DEF OwnershipInv, TypeOK
<1>0. ASSUME UNCHANGED <<job, attempts, retries>>
      PROVE  AttemptsInv'
  BY <1>0 DEF EffectiveMax
<1>1. ASSUME NEW a \in Articles, EnqueueLLMJob(a)
      PROVE  AttemptsInv'
  <2>1. job' = [job EXCEPT ![a] = "pending"] /\ job[a] = "none" /\ UNCHANGED <<attempts, retries>>
    BY <1>1 DEF EnqueueLLMJob, budgets
  <2> QED BY <2>1, <1>t DEF EffectiveMax
<1>2. ASSUME NEW w \in Workers, Pick(w)
      PROVE  AttemptsInv'
  <2>1. PICK a \in Articles : job[a] = "pending" /\ job' = [job EXCEPT ![a] = "running"]
    BY <1>2 DEF Pick, Due
  <2>2. UNCHANGED <<attempts, retries>>
    BY <1>2 DEF Pick, Steady, budgets
  <2> QED BY <2>1, <2>2, <1>t DEF EffectiveMax
<1>3. ASSUME NEW w \in Workers, CompleteLLMJob(w)
      PROVE  AttemptsInv'
  <2>1. held[w] \in Articles /\ job' = [job EXCEPT ![held[w]] = "done"]
        /\ UNCHANGED <<attempts, retries>>
    BY <1>3, <1>t DEF CompleteLLMJob, At, HeldIsArticle, Steady, budgets
  <2> QED BY <2>1, <1>t DEF EffectiveMax
<1>4. ASSUME NEW w \in Workers, FailLLMJob(w) \/ ExpireLLMJob(w)
      PROVE  AttemptsInv'
  <2>1. held[w] \in Articles /\ job[held[w]] = "running"
    BY <1>4, <1>t DEF FailLLMJob, ExpireLLMJob, At, HeldIsArticle, SoleOwner, Owning
  <2>2. /\ attempts' = [attempts EXCEPT ![held[w]] = @ + 1]
        /\ job' = [job EXCEPT ![held[w]] = IF attempts[held[w]] + 1 >= EffectiveMax
                                           THEN "failed" ELSE "pending"]
        /\ UNCHANGED retries
    BY <1>4 DEF FailLLMJob, ExpireLLMJob, FailRow, budgets
  <2> QED BY <2>1, <2>2, <1>t DEF EffectiveMax
<1>5. CASE RetryFailedLLM
  <2>1. /\ retries' = retries + 1 /\ UNCHANGED attempts
        /\ job' = [a \in Articles |-> IF job[a] = "failed" THEN "pending" ELSE job[a]]
    BY <1>5 DEF RetryFailedLLM
  <2> QED BY <2>1, <1>t DEF EffectiveMax
<1>6. ASSUME NEW a \in Articles, NEW kind \in {"fresh", "outdated"}, InsertArticle(a, kind)
      PROVE  AttemptsInv'
  BY <1>0, <1>6 DEF InsertArticle, budgets
<1>7. ASSUME NEW w \in Workers,
             \/ CheckAnalysis(w) \/ LoadArticle(w) \/ CallAnswers(w) \/ CallFails(w)
             \/ SaveAnalysis(w) \/ MarkDone(w) \/ Cluster(w) \/ MarkOutdated(w)
             \/ StoreError(w) \/ GiveBackError(w) \/ ExpireError(w)
      PROVE  AttemptsInv'
  BY <1>0, <1>7 DEF CheckAnalysis, LoadArticle, CallAnswers, CallFails, SaveAnalysis, MarkDone,
     Cluster, MarkOutdated, StoreError, GiveBackError, ExpireError, SpendDbError, Steady, table,
     budgets
<1>8. ASSUME NEW p \in Procs, Stop(p) \/ Start(p)
      PROVE  AttemptsInv'
  BY <1>0, <1>8 DEF Stop, Start, table, budgets
<1>9. CASE Tick \/ UNCHANGED vars
  BY <1>0, <1>9 DEF Tick, vars, table, budgets
<1> QED
  BY <1>1, <1>2, <1>3, <1>4, <1>5, <1>6, <1>7, <1>8, <1>9 DEF Next, Work

\* Nothing but the limit ends a job in failure, and every further attempt is
\* one an administrator asked for.
THEOREM AttemptsAreBounded == Spec => []AttemptsBounded
<1>1. Init => AttemptsInv
  BY EffectiveMaxIsPositive DEF Init, AttemptsInv
<1>2. OwnershipInv /\ AttemptsInv /\ [Next]_vars => AttemptsInv'
  BY AttemptsStep
<1>3. AttemptsInv => AttemptsBounded
  BY DEF AttemptsInv, AttemptsBounded
<1> QED BY <1>1, <1>2, <1>3, OwnershipInvariant, PTL DEF Spec

LEMMA AnswersStep ==
  ASSUME OwnershipInv, AnswersInv, [Next]_vars
  PROVE  AnswersInv'
<1> USE DEF AnswersInv
<1>t. /\ HeldIsArticle /\ SoleOwner /\ answers \in [Articles -> Nat] /\ dbErrors \in Nat
      /\ job \in [Articles -> {"none", "pending", "running", "done", "failed"}]
      /\ pc \in [Workers -> PCs] /\ held \in [Workers -> Articles \cup {None}]
  BY QueueAssumption DEF OwnershipInv, TypeOK
<1>0. ASSUME UNCHANGED <<job, answers, dbErrors, pc, held>>
      PROVE  AnswersInv'
  BY <1>0
\* One worker moves on with its job; nothing was answered.
<1>g. ASSUME NEW w \in Workers, NEW to \in PCs, Goto(w, to), UNCHANGED <<job, answers, dbErrors>>,
             to \in {"check", "load", "call", "expire", "fail"} =>
               pc[w] \in {"check", "load", "call", "expire", "fail"}
      PROVE  AnswersInv'
  BY <1>g, <1>t DEF Goto
<1>l. ASSUME NEW w \in Workers, LetGo(w), UNCHANGED <<job, answers>>, dbErrors' \in Nat,
             dbErrors' >= dbErrors
      PROVE  AnswersInv'
  <2>1. \A v \in Workers : pc'[v] \in {"check", "load", "call", "expire", "fail"} =>
          v # w /\ pc'[v] = pc[v] /\ held'[v] = held[v] /\ held[v] \in Articles
    BY <1>l, <1>t DEF LetGo, HeldIsArticle
  <2> QED BY <1>l, <1>t, <2>1
<1>1. ASSUME NEW a \in Articles, EnqueueLLMJob(a)
      PROVE  AnswersInv'
  <2>1. job' = [job EXCEPT ![a] = "pending"] /\ job[a] = "none"
        /\ UNCHANGED <<answers, dbErrors, pc, held>>
    BY <1>1 DEF EnqueueLLMJob, budgets
  <2> QED BY <2>1, <1>t
<1>2. ASSUME NEW w \in Workers, Pick(w)
      PROVE  AnswersInv'
  <2>1. PICK a \in Articles : /\ job[a] = "pending" /\ job' = [job EXCEPT ![a] = "running"]
                              /\ held' = [held EXCEPT ![w] = a]
    BY <1>2 DEF Pick, Due
  <2>2. pc' = [pc EXCEPT ![w] = "check"] /\ UNCHANGED <<answers, dbErrors>>
    BY <1>2 DEF Pick, Steady, budgets
  <2> QED BY <2>1, <2>2, <1>t
<1>3. ASSUME NEW w \in Workers, CheckAnalysis(w) \/ LoadArticle(w)
      PROVE  AnswersInv'
  BY <1>3, <1>g DEF CheckAnalysis, LoadArticle, At, table, budgets, Steady, PCs, Owning
<1>4. ASSUME NEW w \in Workers, CallAnswers(w)
      PROVE  AnswersInv'
  <2>1. /\ pc[w] = "call" /\ held[w] \in Articles /\ job[held[w]] = "running"
        /\ answers' = [answers EXCEPT ![held[w]] = @ + 1]
        /\ pc' = [pc EXCEPT ![w] = "save"] /\ UNCHANGED <<job, dbErrors, held>>
    BY <1>4, <1>t DEF CallAnswers, At, Goto, table, budgets, HeldIsArticle, SoleOwner, Owning
  <2>2. \A v \in Workers : pc'[v] \in {"check", "load", "call", "expire", "fail"} =>
          v # w /\ pc'[v] = pc[v] /\ held[v] # held[w] /\ held[v] \in Articles
    BY <2>1, <1>t DEF SoleOwner, HeldIsArticle, Owning
  <2>3. \A a \in Articles : a # held[w] => answers'[a] = answers[a]
    BY <2>1, <1>t
  <2>4. answers'[held[w]] <= 1 + dbErrors
    BY <2>1, <1>t
  <2> QED BY <2>1, <2>2, <2>3, <2>4, <1>t
<1>5. ASSUME NEW w \in Workers, CallFails(w) \/ MarkDone(w) \/ Cluster(w)
      PROVE  AnswersInv'
  BY <1>5, <1>g DEF CallFails, MarkDone, Cluster, At, table, budgets, Steady, PCs, Owning
<1>6. ASSUME NEW w \in Workers, SaveAnalysis(w)
      PROVE  AnswersInv'
  BY <1>6, <1>g DEF SaveAnalysis, At, budgets, Steady, PCs, Owning
<1>7. ASSUME NEW w \in Workers, CompleteLLMJob(w)
      PROVE  AnswersInv'
  <2>1. held[w] \in Articles /\ job' = [job EXCEPT ![held[w]] = "done"]
        /\ UNCHANGED <<answers, dbErrors>> /\ LetGo(w)
    BY <1>7, <1>t DEF CompleteLLMJob, At, HeldIsArticle, Steady, budgets
  <2>2. \A v \in Workers : pc'[v] \in {"check", "load", "call", "expire", "fail"} =>
          v # w /\ pc'[v] = pc[v] /\ held'[v] = held[v]
    BY <2>1, <1>t DEF LetGo
  <2> QED BY <2>1, <2>2, <1>t
<1>8. ASSUME NEW w \in Workers, FailLLMJob(w) \/ ExpireLLMJob(w)
      PROVE  AnswersInv'
  <2>1. pc[w] \in {"fail", "expire"} /\ held[w] \in Articles /\ answers[held[w]] <= dbErrors
    BY <1>8, <1>t DEF FailLLMJob, ExpireLLMJob, At, HeldIsArticle
  <2>2. /\ \E s \in {"failed", "pending"} : job' = [job EXCEPT ![held[w]] = s]
        /\ UNCHANGED <<answers, dbErrors>>
    BY <1>8 DEF FailLLMJob, ExpireLLMJob, FailRow, budgets
  <2>3. \A v \in Workers : pc'[v] \in {"check", "load", "call", "expire", "fail"} =>
          v # w /\ pc'[v] = pc[v] /\ held'[v] = held[v]
    BY <1>8, <1>t DEF FailLLMJob, ExpireLLMJob, LetGo, Goto
  <2> QED BY <2>1, <2>2, <2>3, <1>t
<1>9. ASSUME NEW w \in Workers, MarkOutdated(w)
      PROVE  AnswersInv'
  BY <1>9, <1>l, <1>t DEF MarkOutdated, table, budgets, Steady
<1>10. ASSUME NEW w \in Workers, GiveBackError(w)
       PROVE  AnswersInv'
  BY <1>10, <1>l, <1>t DEF GiveBackError, SpendDbError, table
<1>11. ASSUME NEW w \in Workers, StoreError(w) \/ ExpireError(w)
       PROVE  AnswersInv'
  <2>1. /\ dbErrors' = dbErrors + 1 /\ UNCHANGED <<job, answers, held>>
        /\ held[w] \in Articles
        /\ \E here \in PCs : pc' = [pc EXCEPT ![w] = here]
    BY <1>11, <1>t DEF StoreError, ExpireError, SpendDbError, Goto, table, At, HeldIsArticle,
                       PCs, Owning
  <2>2. answers[held[w]] <= dbErrors'
    BY <2>1, <1>t
  <2>3. \A v \in Workers : v # w => pc'[v] = pc[v]
    BY <2>1, <1>t
  <2>4. \A v \in Workers : pc'[v] \in {"check", "load", "call", "expire", "fail"} =>
          answers[held[v]] <= dbErrors'
    <3> SUFFICES ASSUME NEW v \in Workers, pc'[v] \in {"check", "load", "call", "expire", "fail"}
                 PROVE  answers[held[v]] <= dbErrors'
      OBVIOUS
    <3>1. CASE v = w
      BY <2>2, <3>1
    <3>2. CASE v # w
      <4>1. held[v] \in Articles /\ answers[held[v]] <= dbErrors
        BY <2>3, <3>2, <1>t DEF HeldIsArticle
      <4> QED BY <2>1, <4>1, <1>t
    <3> QED BY <3>1, <3>2
  <2> QED BY <2>1, <2>4, <1>t
<1>12. ASSUME NEW p \in Procs, Stop(p)
       PROVE  AnswersInv'
  <2>1. /\ UNCHANGED <<job, answers, dbErrors>>
        /\ pc' = [w \in Workers |-> IF w[1] = p THEN "idle" ELSE pc[w]]
        /\ held' = [w \in Workers |-> IF w[1] = p THEN None ELSE held[w]]
    BY <1>12 DEF Stop, table
  <2> QED BY <2>1
<1>13. ASSUME NEW p \in Procs, Start(p)
       PROVE  AnswersInv'
  BY <1>0, <1>13 DEF Start, table, budgets
<1>14. CASE RetryFailedLLM
  <2>1. /\ UNCHANGED <<answers, dbErrors, pc, held>>
        /\ job' = [a \in Articles |-> IF job[a] = "failed" THEN "pending" ELSE job[a]]
    BY <1>14 DEF RetryFailedLLM
  <2> QED BY <2>1, <1>t
<1>15. ASSUME NEW a \in Articles, NEW kind \in {"fresh", "outdated"}, InsertArticle(a, kind)
       PROVE  AnswersInv'
  BY <1>0, <1>15 DEF InsertArticle, budgets
<1>16. CASE Tick \/ UNCHANGED vars
  BY <1>0, <1>16 DEF Tick, vars, table, budgets
<1> QED
  BY <1>1, <1>2, <1>3, <1>4, <1>5, <1>6, <1>7, <1>8, <1>9, <1>10, <1>11, <1>12, <1>13,
     <1>14, <1>15, <1>16 DEF Next, Work

\* A second useful answer for an article is always the price of a store error
\* between the answer and its row: no race and no restart asks the LLM twice.
THEOREM AnswersArePaid == Spec => []RepeatedAnswersPaid
<1>1. Init => AnswersInv
  BY QueueAssumption DEF Init, AnswersInv
<1>2. OwnershipInv /\ AnswersInv /\ [Next]_vars => AnswersInv'
  BY AnswersStep
<1>3. AnswersInv => RepeatedAnswersPaid
  BY DEF AnswersInv, RepeatedAnswersPaid
<1> QED BY <1>1, <1>2, <1>3, OwnershipInvariant, PTL DEF Spec

-----------------------------------------------------------------------------
(* Backoff.                                                                *)

Resting(a) == job[a] = "pending" /\ row[a] = "fresh" /\ attempts[a] > 0

\* What a failed job of a fresh article still has to wait, and what it has
\* waited, make up its backoff.
RestInv ==
  /\ \A a \in Articles : /\ job[a] # "none" => row[a] # "none"
                         /\ job[a] = "none" => attempts[a] = 0
  /\ \A w \in Workers : pc[w] = "expire" => row[held[w]] = "outdated"
  /\ \A a \in Articles : Resting(a) => rested[a] + wait[a] >= Backoff(attempts[a] - 1)

LEMMA BackoffAtMostLongRest ==
  ASSUME NEW n \in Nat
  PROVE  Backoff(n) \in Nat /\ Backoff(n) <= LongRest
<1>1. Len(Backoffs) \in Nat /\ Len(Backoffs) >= 1 /\ DOMAIN Backoffs = 1..Len(Backoffs)
  BY QueueAssumption
<1>2. \A i \in 1..Len(Backoffs) : Backoffs[i] <= LongRest
  BY <1>1, QueueAssumption
<1>3. CASE n >= Len(Backoffs)
  BY <1>1, <1>2, <1>3, BackoffIsNat DEF Backoff
<1>4. CASE ~(n >= Len(Backoffs))
  <2>1. n + 1 \in 1..Len(Backoffs)
    BY <1>1, <1>4
  <2> QED BY <1>2, <1>4, <2>1, BackoffIsNat DEF Backoff
<1> QED BY <1>3, <1>4

LEMMA RestStep ==
  ASSUME ZoneOffset >= 0, OwnershipInv, RestInv, [Next]_vars
  PROVE  RestInv'
<1> USE DEF RestInv
<1>t. /\ HeldIsArticle /\ SoleOwner
      /\ row \in [Articles -> {"none", "fresh", "outdated"}]
      /\ job \in [Articles -> {"none", "pending", "running", "done", "failed"}]
      /\ attempts \in [Articles -> Nat] /\ wait \in [Articles -> Nat]
      /\ rested \in [Articles -> Nat] /\ LongRest \in Nat
      /\ pc \in [Workers -> PCs] /\ held \in [Workers -> Articles \cup {None}]
  BY QueueAssumption DEF OwnershipInv, TypeOK
<1>b. \A n \in Nat : Backoff(n) \in Nat /\ Backoff(n) <= LongRest
  BY BackoffAtMostLongRest
\* The tables and the rests stay, and no worker turns to an article it should
\* not expire.
<1>0. ASSUME UNCHANGED <<row, job, attempts, wait, rested>>,
             \A w \in Workers : pc'[w] = "expire" => row[held'[w]] = "outdated"
      PROVE  RestInv'
  BY <1>0 DEF Resting, Backoff
\* Workers and rests stay, and no job starts waiting.
<1>j. ASSUME UNCHANGED <<row, attempts, wait, rested>>,
             \A w \in Workers : pc'[w] = "expire" => pc[w] = "expire" /\ held'[w] = held[w],
             \A a \in Articles : /\ job'[a] # "none" => row[a] # "none"
                                 /\ job'[a] = "none" => job[a] = "none"
                                 /\ job'[a] = "pending" => job[a] = "pending" \/ attempts[a] = 0
      PROVE  RestInv'
  BY <1>j, <1>t DEF Resting, Backoff
<1>1. ASSUME NEW a \in Articles, NEW kind \in {"fresh", "outdated"}, InsertArticle(a, kind)
      PROVE  RestInv'
  <2>1. row[a] = "none" /\ row' = [row EXCEPT ![a] = kind]
        /\ UNCHANGED <<job, attempts, wait, rested, pc, held>>
    BY <1>1 DEF InsertArticle
  <2>2. job[a] = "none"
    BY <2>1
  <2>3. \A w \in Workers : pc[w] = "expire" => row'[held[w]] = "outdated"
    BY <2>1, <1>t DEF HeldIsArticle
  <2> QED BY <2>1, <2>2, <2>3, <1>t DEF Resting, Backoff
<1>2. ASSUME NEW a \in Articles, EnqueueLLMJob(a)
      PROVE  RestInv'
  <2>1. job' = [job EXCEPT ![a] = "pending"] /\ row[a] # "none" /\ attempts[a] = 0
        /\ UNCHANGED <<row, attempts, wait, rested, pc, held>>
    BY <1>2 DEF EnqueueLLMJob
  <2> QED BY <2>1, <1>j, <1>t
<1>3. ASSUME NEW w \in Workers, Pick(w)
      PROVE  RestInv'
  <2>1. PICK a \in Articles : /\ job[a] = "pending" /\ job' = [job EXCEPT ![a] = "running"]
                              /\ held' = [held EXCEPT ![w] = a]
    BY <1>3 DEF Pick, Due
  <2>2. pc' = [pc EXCEPT ![w] = "check"] /\ UNCHANGED <<row, attempts, wait, rested>>
    BY <1>3 DEF Pick, Steady
  <2> QED BY <2>1, <2>2, <1>j, <1>t
<1>4. ASSUME NEW w \in Workers, LoadArticle(w)
      PROVE  RestInv'
  <2>1. /\ held[w] \in Articles /\ UNCHANGED <<row, job, attempts, wait, rested, held>>
        /\ pc' = [pc EXCEPT ![w] = IF row[held[w]] = "fresh" THEN "call"
                                   ELSE IF row[held[w]] = "outdated" THEN "expire" ELSE "fail"]
    BY <1>4, <1>t DEF LoadArticle, At, Goto, HeldIsArticle, table, Steady
  <2>2. \A v \in Workers : pc'[v] = "expire" => row[held[v]] = "outdated"
    BY <2>1, <1>t
  <2> QED BY <1>0, <2>1, <2>2
\* A worker statement that is neither the load nor gives the job back.
<1>g. ASSUME NEW w \in Workers, NEW to \in PCs, Goto(w, to), to # "expire",
             UNCHANGED <<row, job, attempts, wait, rested>>
      PROVE  RestInv'
  <2>1. \A v \in Workers : pc'[v] = "expire" => row[held'[v]] = "outdated"
    BY <1>g, <1>t DEF Goto
  <2> QED BY <1>0, <1>g, <2>1
<1>l. ASSUME NEW w \in Workers, LetGo(w), UNCHANGED <<row, job, attempts, wait, rested>>
      PROVE  RestInv'
  <2>1. \A v \in Workers : pc'[v] = "expire" => row[held'[v]] = "outdated"
    BY <1>l, <1>t DEF LetGo
  <2> QED BY <1>0, <1>l, <2>1
<1>5. ASSUME NEW w \in Workers,
             \/ CheckAnalysis(w) \/ CallAnswers(w) \/ CallFails(w) \/ SaveAnalysis(w)
             \/ MarkDone(w) \/ Cluster(w) \/ StoreError(w) \/ ExpireError(w)
      PROVE  RestInv'
  BY <1>5, <1>g DEF CheckAnalysis, CallAnswers, CallFails, SaveAnalysis, MarkDone, Cluster,
     StoreError, ExpireError, SpendDbError, Steady, table, PCs, Owning
<1>6. ASSUME NEW w \in Workers, MarkOutdated(w) \/ GiveBackError(w)
      PROVE  RestInv'
  BY <1>6, <1>l DEF MarkOutdated, GiveBackError, SpendDbError, Steady, table
<1>7. ASSUME NEW w \in Workers, CompleteLLMJob(w)
      PROVE  RestInv'
  <2>1. /\ held[w] \in Articles /\ job[held[w]] = "running"
        /\ job' = [job EXCEPT ![held[w]] = "done"]
        /\ pc' = [pc EXCEPT ![w] = "idle"] /\ held' = [held EXCEPT ![w] = None]
        /\ UNCHANGED <<row, attempts, wait, rested>>
    BY <1>7, <1>t DEF CompleteLLMJob, At, LetGo, HeldIsArticle, SoleOwner, Owning, Steady
  <2> QED BY <2>1, <1>j, <1>t
\* The row after FailLLMJob.
<1>8. ASSUME NEW a \in Articles, NEW delay \in Nat, FailRow(a, delay), job[a] = "running",
             row[a] = "fresh" => delay = Backoff(attempts[a])
      PROVE  /\ \A b \in Articles : /\ job'[b] # "none" => row'[b] # "none"
                                    /\ job'[b] = "none" => attempts'[b] = 0
             /\ \A b \in Articles : Resting(b)' => rested'[b] + wait'[b] >= Backoff(attempts'[b] - 1)
  <2>1. /\ attempts' = [attempts EXCEPT ![a] = @ + 1]
        /\ \E s \in {"failed", "pending"} : job' = [job EXCEPT ![a] = s]
        /\ wait' = [wait EXCEPT ![a] = NextRun(delay)]
        /\ rested' = [rested EXCEPT ![a] = 0]
        /\ UNCHANGED row
    BY <1>8 DEF FailRow
  <2>2. NextRun(delay) \in Nat /\ NextRun(delay) >= delay
    BY QueueAssumption DEF NextRun, MaxOf
  <2>3. \A b \in Articles : b # a => /\ attempts'[b] = attempts[b] /\ job'[b] = job[b]
                                     /\ wait'[b] = wait[b] /\ rested'[b] = rested[b]
    BY <2>1, <1>t
  <2>4. /\ attempts'[a] = attempts[a] + 1 /\ job'[a] # "none"
        /\ wait'[a] = NextRun(delay) /\ rested'[a] = 0
    BY <2>1, <1>t
  <2>5. row[a] # "none"
    BY <1>8
  <2>6. attempts[a] \in Nat /\ attempts'[a] - 1 = attempts[a]
    BY <2>4, <1>t
  <2>7. Resting(a)' => rested'[a] + wait'[a] >= Backoff(attempts'[a] - 1)
    BY <2>1, <2>2, <2>4, <2>6, <1>8, <1>b DEF Resting
  <2> QED BY <2>1, <2>3, <2>4, <2>5, <2>7, <1>t DEF Resting
<1>9. ASSUME NEW w \in Workers, FailLLMJob(w)
      PROVE  RestInv'
  <2>1. /\ held[w] \in Articles /\ job[held[w]] = "running" /\ attempts[held[w]] \in Nat
        /\ FailRow(held[w], Backoff(attempts[held[w]]))
    BY <1>9, <1>t DEF FailLLMJob, At, HeldIsArticle, SoleOwner, Owning
  <2>2. Backoff(attempts[held[w]]) \in Nat
    BY <2>1, <1>b
  <2>3. \A v \in Workers : pc'[v] = "expire" => row'[held'[v]] = "outdated"
    BY <1>9, <1>t DEF FailLLMJob, FailRow, LetGo
  <2> QED BY <1>8, <2>1, <2>2, <2>3
<1>10. ASSUME NEW w \in Workers, ExpireLLMJob(w)
       PROVE  RestInv'
  <2>1. /\ held[w] \in Articles /\ job[held[w]] = "running" /\ row[held[w]] = "outdated"
        /\ FailRow(held[w], 0)
    BY <1>10, <1>t DEF ExpireLLMJob, At, HeldIsArticle, SoleOwner, Owning
  <2>2. \A v \in Workers : pc'[v] = "expire" => row'[held'[v]] = "outdated"
    BY <1>10, <1>t DEF ExpireLLMJob, FailRow, Goto
  <2> QED BY <1>8, <2>1, <2>2
<1>11. ASSUME NEW p \in Procs, Stop(p) \/ Start(p)
       PROVE  RestInv'
  <2>1. UNCHANGED <<row, job, attempts, wait, rested>>
    BY <1>11 DEF Stop, Start, table
  <2>2. \A w \in Workers : pc'[w] = "expire" => row[held'[w]] = "outdated"
    BY <1>11, <1>t DEF Stop, Start
  <2> QED BY <1>0, <2>1, <2>2
<1>12. CASE RetryFailedLLM
  <2>1. /\ UNCHANGED <<row, attempts, pc, held>>
        /\ job' = [a \in Articles |-> IF job[a] = "failed" THEN "pending" ELSE job[a]]
        /\ wait' = [a \in Articles |-> IF job[a] = "failed" THEN 0 ELSE wait[a]]
        /\ rested' = [a \in Articles |-> IF job[a] = "failed" THEN LongRest ELSE rested[a]]
    BY <1>12 DEF RetryFailedLLM
  <2>2. \A a \in Articles : Resting(a)' => rested'[a] + wait'[a] >= Backoff(attempts'[a] - 1)
    <3> SUFFICES ASSUME NEW a \in Articles, Resting(a)'
                 PROVE  rested'[a] + wait'[a] >= Backoff(attempts[a] - 1)
      BY <2>1
    <3>1. attempts[a] - 1 \in Nat
      BY <2>1, <1>t DEF Resting
    <3>2. CASE job[a] = "failed"
      BY <2>1, <3>1, <3>2, <1>t, <1>b
    <3>3. CASE job[a] # "failed"
      BY <2>1, <3>3, <1>t DEF Resting
    <3> QED BY <3>2, <3>3
  <2> QED BY <2>1, <2>2
<1>13. CASE Tick
  <2>1. /\ UNCHANGED <<row, job, attempts, pc, held>>
        /\ wait' = [a \in Articles |-> MaxOf(0, wait[a] - 1)]
        /\ rested' = [a \in Articles |-> IF rested[a] < LongRest THEN rested[a] + 1
                                         ELSE rested[a]]
    BY <1>13 DEF Tick
  <2>2. \A a \in Articles : Resting(a)' => rested'[a] + wait'[a] >= Backoff(attempts'[a] - 1)
    <3> SUFFICES ASSUME NEW a \in Articles, Resting(a)'
                 PROVE  rested'[a] + wait'[a] >= Backoff(attempts[a] - 1)
      BY <2>1
    <3>1. Resting(a) /\ attempts[a] - 1 \in Nat /\ rested[a] \in Nat /\ wait[a] \in Nat
      BY <2>1, <1>t DEF Resting
    <3>2. Backoff(attempts[a] - 1) \in Nat /\ Backoff(attempts[a] - 1) <= LongRest
      BY <3>1, <1>b
    <3> QED BY <2>1, <3>1, <3>2, <1>t DEF MaxOf
  <2> QED BY <2>1, <2>2
<1>14. CASE UNCHANGED vars
  BY <1>0, <1>14 DEF vars, table
<1> QED
  BY <1>1, <1>2, <1>3, <1>4, <1>5, <1>6, <1>7, <1>9, <1>10, <1>11, <1>12, <1>13, <1>14
     DEF Next, Work

LEMMA PickRespectsBackoff ==
  ASSUME OwnershipInv, RestInv, [Next]_vars,
         NEW a \in Articles, job[a] = "pending", job'[a] = "running",
         row[a] = "fresh", attempts[a] > 0
  PROVE  rested[a] >= Backoff(attempts[a] - 1)
<1>t. /\ job \in [Articles -> {"none", "pending", "running", "done", "failed"}]
      /\ attempts \in [Articles -> Nat] /\ rested \in [Articles -> Nat] /\ HeldIsArticle
  BY DEF OwnershipInv, TypeOK
<1>1. wait[a] = 0
  <2>1. \E w \in Workers : Pick(w)
    BY <1>t DEF Next, Work, vars, table, budgets, Steady, InsertArticle, EnqueueLLMJob,
       CheckAnalysis, LoadArticle, CallAnswers, CallFails, SaveAnalysis, MarkDone, Cluster,
       CompleteLLMJob, FailLLMJob, ExpireLLMJob, FailRow, MarkOutdated, StoreError,
       GiveBackError, ExpireError, SpendDbError, Stop, Start, RetryFailedLLM, Tick
  <2>2. PICK b \in Due : job' = [job EXCEPT ![b] = "running"]
    BY <2>1 DEF Pick, Due
  <2>3. a = b
    BY <2>2, <1>t DEF Due
  <2> QED BY <2>2, <2>3 DEF Due
<1> QED BY <1>1, <1>t, BackoffAtMostLongRest DEF RestInv, Resting

\* East of Greenwich and on it, no job of a fresh article is tried again
\* before the backoff of its last failure is over.
THEOREM BackoffHolds ==
  ASSUME ZoneOffset >= 0
  PROVE  Spec => BackoffRespected
<1>1. Init => RestInv
  BY DEF Init, RestInv, Resting
<1>2. OwnershipInv /\ RestInv /\ [Next]_vars => RestInv'
  BY RestStep
<1>3. OwnershipInv /\ RestInv /\ [Next]_vars =>
        [\A a \in Articles :
           job[a] = "pending" /\ job'[a] = "running" /\ row[a] = "fresh" /\ attempts[a] > 0
             => rested[a] >= Backoff(attempts[a] - 1)]_vars
  BY PickRespectsBackoff
<1> QED BY <1>1, <1>2, <1>3, OwnershipInvariant, PTL DEF Spec, BackoffRespected

-----------------------------------------------------------------------------
(* Jobs nobody works on.                                                   *)

Orphans == {a \in Articles : Orphan(a)}

OrphansInv ==
  IsFiniteSet(Orphans) /\ Cardinality(Orphans) <= dbErrors + stops * Cardinality(Slots)

\* What every step but a failure does: a job that comes to run has an owner,
\* and an owner stays one while its job runs.
OwnersStay ==
  \A a \in Articles :
    job'[a] = "running" =>
      \/ \E w \in Workers : Owns(w, a)'
      \/ job[a] = "running" /\ \A w \in Workers : ~Owns(w, a)

LEMMA OwnersStayMeansNoMore ==
  ASSUME OwnersStay
  PROVE  Orphans' \subseteq Orphans
BY DEF OwnersStay, Orphans, Orphan

LEMMA KeptOwners ==
  ASSUME \A a \in Articles : job'[a] = "running" => job[a] = "running",
         \A v \in Workers : pc[v] \in Owning /\ held[v] \in Articles /\ job'[held[v]] = "running"
                             => pc'[v] \in Owning /\ held'[v] = held[v]
  PROVE  OwnersStay
<1> SUFFICES ASSUME NEW a \in Articles, job'[a] = "running", NEW v \in Workers, Owns(v, a)
             PROVE  Owns(v, a)'
  BY DEF OwnersStay, Owns
<1>1. pc[v] \in Owning /\ held[v] = a
  BY DEF Owns
<1>2. pc'[v] \in Owning /\ held'[v] = a
  BY <1>1
<1> QED BY <1>2 DEF Owns

LEMMA WorkKeepsOwners ==
  ASSUME OwnershipInv, NEW w \in Workers, Work(w) \/ StoreError(w)
  PROVE  OwnersStay
<1>t. /\ pc \in [Workers -> PCs] /\ held \in [Workers -> Articles \cup {None}]
      /\ job \in [Articles -> {"none", "pending", "running", "done", "failed"}]
      /\ HeldIsArticle
  BY DEF OwnershipInv, TypeOK
\* The worker keeps its job and moves on.
<1>g. ASSUME NEW to \in PCs, Goto(w, to), UNCHANGED job, pc[w] \in Owning => to \in Owning
      PROVE  OwnersStay
  BY <1>t, <1>g, KeptOwners DEF Goto
\* The worker gives its job back with a status other than running.
<1>b. ASSUME NEW s, s # "running", job' = [job EXCEPT ![held[w]] = s], held[w] \in Articles,
             \A v \in Workers : v # w => pc'[v] = pc[v] /\ held'[v] = held[v]
      PROVE  OwnersStay
  <2>1. \A a \in Articles : job'[a] = "running" => a # held[w] /\ job[a] = "running"
    BY <1>t, <1>b
  <2>2. ASSUME NEW v \in Workers, pc[v] \in Owning, held[v] \in Articles, job'[held[v]] = "running"
        PROVE  pc'[v] \in Owning /\ held'[v] = held[v]
    BY <2>1, <2>2, <1>b
  <2> QED BY <2>1, <2>2, KeptOwners
<1>1. CASE Pick(w)
  <2>1. PICK a \in Articles : /\ job' = [job EXCEPT ![a] = "running"]
                              /\ held' = [held EXCEPT ![w] = a]
    BY <1>1 DEF Pick, Due
  <2>2. pc[w] = "idle" /\ pc' = [pc EXCEPT ![w] = "check"]
    BY <1>1 DEF Pick, At
  <2>3. pc'[w] \in Owning /\ held'[w] = a
    BY <1>t, <2>1, <2>2 DEF Owning
  <2>4. ASSUME NEW b \in Articles, b # a, job'[b] = "running", NEW v \in Workers, Owns(v, b)
        PROVE  Owns(v, b)'
    <3>1. pc[v] \in Owning /\ held[v] = b
      BY <2>4 DEF Owns
    <3>2. v # w
      BY <2>2, <3>1 DEF Owning
    <3>3. pc'[v] = pc[v] /\ held'[v] = held[v]
      BY <1>t, <2>1, <2>2, <3>2
    <3> QED BY <3>1, <3>3 DEF Owns
  <2>5. \A b \in Articles : b # a /\ job'[b] = "running" => job[b] = "running"
    BY <1>t, <2>1
  <2>6. Owns(w, a)'
    BY <2>3 DEF Owns
  <2> QED BY <2>4, <2>5, <2>6 DEF OwnersStay, Owns
<1>2. CASE CheckAnalysis(w) \/ LoadArticle(w) \/ CallAnswers(w) \/ CallFails(w) \/ StoreError(w)
  BY <1>2, <1>g DEF CheckAnalysis, LoadArticle, CallAnswers, CallFails, StoreError, SpendDbError,
                    At, table, PCs, Owning
<1>3. CASE SaveAnalysis(w) \/ MarkDone(w) \/ Cluster(w)
  BY <1>3, <1>g DEF SaveAnalysis, MarkDone, Cluster, At, table, PCs, Owning
<1>4. CASE CompleteLLMJob(w)
  BY <1>4, <1>b, <1>t DEF CompleteLLMJob, At, LetGo, HeldIsArticle
<1>5. CASE FailLLMJob(w) \/ ExpireLLMJob(w)
  <2>1. /\ \E s \in {"failed", "pending"} : job' = [job EXCEPT ![held[w]] = s]
        /\ held[w] \in Articles
    BY <1>5, <1>t DEF FailLLMJob, ExpireLLMJob, FailRow, At, HeldIsArticle
  <2>2. \A v \in Workers : v # w => pc'[v] = pc[v] /\ held'[v] = held[v]
    BY <1>5, <1>t DEF FailLLMJob, ExpireLLMJob, LetGo, Goto
  <2> QED BY <2>1, <2>2, <1>b
<1>6. CASE MarkOutdated(w)
  <2>1. pc[w] = "stale" /\ UNCHANGED job /\ LetGo(w)
    BY <1>6 DEF MarkOutdated, At, table
  <2>2. ASSUME NEW v \in Workers, pc[v] \in Owning PROVE pc'[v] \in Owning /\ held'[v] = held[v]
    <3>1. v # w
      BY <2>1, <2>2 DEF Owning
    <3> QED BY <1>t, <2>1, <2>2, <3>1 DEF LetGo
  <2> QED BY <2>1, <2>2, KeptOwners
<1> QED BY <1>1, <1>2, <1>3, <1>4, <1>5, <1>6 DEF Work

\* A store call that fails while a job is given back orphans that job only.
LEMMA ErrorOrphansOne ==
  ASSUME OwnershipInv, NEW w \in Workers, GiveBackError(w) \/ ExpireError(w)
  PROVE  Orphans' \subseteq Orphans \cup {held[w]}
<1>t. pc \in [Workers -> PCs] /\ held \in [Workers -> Articles \cup {None}]
  BY DEF OwnershipInv, TypeOK
<1>1. UNCHANGED job /\ \A v \in Workers : v # w => pc'[v] = pc[v] /\ held'[v] = held[v]
  BY <1>t DEF GiveBackError, ExpireError, SpendDbError, LetGo, Goto, table
<1> QED BY <1>1 DEF Orphans, Orphan, Owns

\* A process that stops orphans the jobs of its own workers only.
LEMMA StopOrphansItsOwn ==
  ASSUME OwnershipInv, NEW p \in Procs, Stop(p)
  PROVE  Orphans' \subseteq Orphans \cup {held[w] : w \in {p} \X Slots}
<1>1. /\ UNCHANGED job
      /\ \A w \in Workers : w[1] # p => pc'[w] = pc[w] /\ held'[w] = held[w]
  BY DEF Stop, table
<1>2. \A w \in Workers : w[1] = p => w \in {p} \X Slots
  BY DEF Workers
<1> QED BY <1>1, <1>2 DEF Orphans, Orphan, Owns

\* What the workers of one process have: a value each.
LEMMA AtMostSlots ==
  ASSUME NEW p, NEW g, NEW H, \A x \in H : \E s \in Slots : x = g[<<p, s>>]
  PROVE  IsFiniteSet(H) /\ Cardinality(H) <= Cardinality(Slots)
<1> DEFINE S == {s \in Slots : g[<<p, s>>] \in H}
           f == [s \in S |-> g[<<p, s>>]]
<1>1. f \in Surjection(S, H)
  <2>1. f \in [S -> H]
    OBVIOUS
  <2>2. \A x \in H : \E s \in S : f[s] = x
    OBVIOUS
  <2> QED BY <2>1, <2>2 DEF Surjection
<1>2. S \subseteq Slots
  OBVIOUS
<1> HIDE DEF f, S
<1>3. IsFiniteSet(S) /\ Cardinality(S) <= Cardinality(Slots)
  BY <1>2, FS_Subset, QueueAssumption
<1>4. IsFiniteSet(H) /\ Cardinality(H) <= Cardinality(S)
  BY <1>1, <1>3, FS_Surjection
<1>5. Cardinality(S) \in Nat /\ Cardinality(H) \in Nat /\ Cardinality(Slots) \in Nat
  BY <1>3, <1>4, FS_CardinalityType, QueueAssumption
<1> QED BY <1>3, <1>4, <1>5

LEMMA UnionBound ==
  ASSUME NEW S, IsFiniteSet(S), NEW T, IsFiniteSet(T), NEW U, U \subseteq S \cup T
  PROVE  /\ IsFiniteSet(U)
         /\ Cardinality(U) \in Nat
         /\ Cardinality(U) <= Cardinality(S) + Cardinality(T)
<1>1. /\ IsFiniteSet(S \cup T)
      /\ Cardinality(S \cup T) = Cardinality(S) + Cardinality(T) - Cardinality(S \cap T)
  BY FS_Union
<1>2. IsFiniteSet(S \cap T)
  BY FS_Subset
<1>3. IsFiniteSet(U) /\ Cardinality(U) <= Cardinality(S \cup T)
  BY <1>1, FS_Subset
<1>4. /\ Cardinality(S) \in Nat /\ Cardinality(T) \in Nat /\ Cardinality(S \cap T) \in Nat
      /\ Cardinality(U) \in Nat /\ Cardinality(S \cup T) \in Nat
  BY <1>1, <1>2, <1>3, FS_CardinalityType
<1> QED BY <1>1, <1>3, <1>4

LEMMA OneMoreStop ==
  ASSUME NEW k \in Nat, NEW n \in Nat
  PROVE  k * n \in Nat /\ (k + 1) * n = k * n + n
OBVIOUS

LEMMA OrphansStep ==
  ASSUME OwnershipInv, OrphansInv, [Next]_vars
  PROVE  OrphansInv'
<1> DEFINE n == Cardinality(Slots)
<1>0. /\ dbErrors \in Nat /\ stops \in Nat /\ n \in Nat
      /\ IsFiniteSet(Orphans) /\ Cardinality(Orphans) \in Nat
      /\ Cardinality(Orphans) <= dbErrors + stops * n
      /\ job \in [Articles -> {"none", "pending", "running", "done", "failed"}]
  BY QueueAssumption, FS_CardinalityType DEF OrphansInv, OwnershipInv, TypeOK
<1> HIDE DEF n
<1>s. stops * n \in Nat /\ (stops + 1) * n = stops * n + n
  BY <1>0, OneMoreStop
<1>k. ASSUME Orphans' \subseteq Orphans, UNCHANGED <<dbErrors, stops>>
      PROVE  OrphansInv'
  <2>1. IsFiniteSet(Orphans') /\ Cardinality(Orphans') <= Cardinality(Orphans)
    BY <1>0, <1>k, FS_Subset
  <2>2. Cardinality(Orphans') \in Nat
    BY <2>1, FS_CardinalityType
  <2>3. Cardinality(Orphans') <= dbErrors + stops * n
    BY <1>0, <1>s, <2>1, <2>2
  <2> QED BY <1>k, <2>1, <2>3 DEF OrphansInv, n
<1>e. ASSUME NEW x, Orphans' \subseteq Orphans \cup {x}, dbErrors' = dbErrors + 1, UNCHANGED stops
      PROVE  OrphansInv'
  <2>1. IsFiniteSet({x}) /\ Cardinality({x}) = 1
    BY FS_Singleton
  <2>2. /\ IsFiniteSet(Orphans') /\ Cardinality(Orphans') \in Nat
        /\ Cardinality(Orphans') <= Cardinality(Orphans) + 1
    BY <1>0, <1>e, <2>1, UnionBound
  <2>3. Cardinality(Orphans') <= dbErrors' + stops' * n
    BY <1>0, <1>s, <1>e, <2>2
  <2> QED BY <2>2, <2>3 DEF OrphansInv, n
<1>1. ASSUME NEW w \in Workers, Work(w) \/ StoreError(w) PROVE OrphansInv'
  <2>1. Orphans' \subseteq Orphans
    BY <1>1, WorkKeepsOwners, OwnersStayMeansNoMore
  <2>2. CASE Work(w)
    <3>1. UNCHANGED <<dbErrors, stops>>
      BY <2>2 DEF Work, Pick, CheckAnalysis, LoadArticle, CallAnswers, CallFails, SaveAnalysis,
                  MarkDone, Cluster, CompleteLLMJob, FailLLMJob, ExpireLLMJob, FailRow,
                  MarkOutdated, Steady, budgets
    <3> QED BY <1>k, <2>1, <3>1
  <2>3. CASE StoreError(w)
    <3>1. Orphans' \subseteq Orphans \cup {w} /\ dbErrors' = dbErrors + 1 /\ UNCHANGED stops
      BY <2>1, <2>3 DEF StoreError, SpendDbError
    <3> QED BY <1>e, <3>1
  <2> QED BY <1>1, <2>2, <2>3
<1>2. ASSUME NEW w \in Workers, GiveBackError(w) \/ ExpireError(w) PROVE OrphansInv'
  <2>1. dbErrors' = dbErrors + 1 /\ UNCHANGED stops
    BY <1>2 DEF GiveBackError, ExpireError, SpendDbError
  <2> QED BY <1>2, <1>e, <2>1, ErrorOrphansOne
<1>3. ASSUME NEW p \in Procs, Stop(p) PROVE OrphansInv'
  <2> DEFINE H == {held[w] : w \in {p} \X Slots}
  <2>1. stops' = stops + 1 /\ UNCHANGED dbErrors
    BY <1>3 DEF Stop
  <2>0. \A x \in H : \E s \in Slots : x = held[<<p, s>>]
    OBVIOUS
  <2>2. IsFiniteSet(H) /\ Cardinality(H) <= n /\ Cardinality(H) \in Nat
    <3> HIDE DEF H
    <3> QED BY <2>0, AtMostSlots, FS_CardinalityType DEF n
  <2>3. Orphans' \subseteq Orphans \cup H
    BY <1>3, StopOrphansItsOwn
  <2> HIDE DEF H
  <2>4. /\ IsFiniteSet(Orphans') /\ Cardinality(Orphans') \in Nat
        /\ Cardinality(Orphans') <= Cardinality(Orphans) + Cardinality(H)
    BY <1>0, <2>2, <2>3, UnionBound
  <2>5. Cardinality(Orphans') <= dbErrors + (stops * n + n)
    BY <1>0, <1>s, <2>2, <2>4
  <2>6. Cardinality(Orphans') <= dbErrors' + stops' * n
    BY <1>s, <2>1, <2>5
  <2> QED BY <2>4, <2>6 DEF OrphansInv, n
<1>4. ASSUME \/ \E a \in Articles : \/ \E kind \in {"fresh", "outdated"} : InsertArticle(a, kind)
                                    \/ EnqueueLLMJob(a)
             \/ \E p \in Procs : Start(p)
             \/ RetryFailedLLM \/ Tick \/ UNCHANGED vars
      PROVE  OrphansInv'
  <2>1. /\ UNCHANGED <<pc, held, dbErrors, stops>>
        /\ \A a \in Articles : job'[a] = "running" => job[a] = "running"
    BY <1>0, <1>4 DEF InsertArticle, EnqueueLLMJob, Start, RetryFailedLLM, Tick, vars, table, budgets
  <2>2. Orphans' \subseteq Orphans
    BY <2>1 DEF Orphans, Orphan, Owns
  <2> QED BY <1>k, <2>1, <2>2
<1> QED BY <1>1, <1>2, <1>3, <1>4 DEF Next

\* Every job left running with no worker has a failed store call or a stopped
\* process behind it, however many workers, stops and articles there are.
THEOREM OrphansAreAccounted == Spec => []OrphansAccounted
<1>1. Init => OrphansInv
  <2> SUFFICES ASSUME Init PROVE OrphansInv
    OBVIOUS
  <2>1. Orphans = {}
    BY DEF Init, Orphans, Orphan
  <2>2. IsFiniteSet({}) /\ Cardinality({}) = 0
    BY FS_EmptySet
  <2>3. Cardinality(Slots) \in Nat
    BY QueueAssumption, FS_CardinalityType
  <2>4. dbErrors + stops * Cardinality(Slots) >= 0
    BY <2>3 DEF Init
  <2> QED BY <2>1, <2>2, <2>4 DEF OrphansInv
<1>2. OwnershipInv /\ OrphansInv /\ [Next]_vars => OrphansInv'
  BY OrphansStep
<1>3. OrphansInv => OrphansAccounted
  BY DEF OrphansInv, OrphansAccounted, Orphans
<1> QED BY <1>1, <1>2, <1>3, OwnershipInvariant, PTL DEF Spec

-----------------------------------------------------------------------------
(* The queue implements JobLedger.                                         *)

\* The mapped variables, as JobLedger is given them.
Phase == [a \in Articles |-> LedgerPhase(a)]
Owner == [a \in Articles |-> LedgerOwner(a)]

LEMMA OwnerOfHeld ==
  ASSUME SoleOwner, NEW w \in Workers, NEW a \in Articles, Owns(w, a)
  PROVE  LedgerOwner(a) = w
BY DEF SoleOwner, Owns, LedgerOwner

LEMMA OwnerOfFree ==
  ASSUME NEW a \in Articles, \A w \in Workers : ~Owns(w, a)
  PROVE  LedgerOwner(a) = None
BY DEF LedgerOwner

\* A step that moves no holder moves no ledger owner.
LEMMA OwnerKept ==
  ASSUME \A w \in Workers, a \in Articles : Owns(w, a)' <=> Owns(w, a)
  PROVE  Owner' = Owner
<1> SUFFICES ASSUME NEW a \in Articles PROVE LedgerOwner(a)' = LedgerOwner(a)
  BY DEF Owner
<1>1. (CHOOSE w \in Workers : Owns(w, a))' = (CHOOSE w \in Workers : Owns(w, a))
  OBVIOUS
<1> QED BY <1>1 DEF LedgerOwner

\* The workers in gone lose what they hold, the others keep theirs.
LEMMA OwnerAbandoned ==
  ASSUME SoleOwner, SoleOwner', NEW gone \in SUBSET Workers,
         \A w \in gone, a \in Articles : ~Owns(w, a)',
         \A w \in Workers \ gone, a \in Articles : Owns(w, a)' <=> Owns(w, a)
  PROVE  Owner' = [a \in Articles |-> IF Owner[a] \in gone THEN None ELSE Owner[a]]
<1> SUFFICES ASSUME NEW a \in Articles
             PROVE  LedgerOwner(a)' = IF LedgerOwner(a) \in gone THEN None ELSE LedgerOwner(a)
  BY DEF Owner
<1>1. CASE \E w \in Workers \ gone : Owns(w, a)
  <2>1. PICK w \in Workers \ gone : Owns(w, a)
    BY <1>1
  <2>2. LedgerOwner(a) = w
    BY <2>1, OwnerOfHeld
  <2>3. LedgerOwner(a)' = w
    BY <2>1 DEF SoleOwner, Owns, LedgerOwner
  <2> QED BY <2>1, <2>2, <2>3
<1>2. CASE ~\E w \in Workers \ gone : Owns(w, a)
  <2>1. LedgerOwner(a)' = None
    BY <1>2 DEF LedgerOwner
  <2>2. LedgerOwner(a) \in gone \/ LedgerOwner(a) = None
    <3>1. CASE \E w \in gone : Owns(w, a)
      BY <3>1, OwnerOfHeld
    <3>2. CASE ~\E w \in gone : Owns(w, a)
      BY <1>2, <3>2, OwnerOfFree
    <3> QED BY <3>1, <3>2
  <2>3. None \notin gone
    BY QueueAssumption DEF Workers
  <2> QED BY <2>1, <2>2, <2>3
<1> QED BY <1>1, <1>2

\* Worker w takes article b, or gives it back; nobody else moves.
LEMMA OwnerTaken ==
  ASSUME SoleOwner', NEW w \in Workers, NEW b \in Articles, Owns(w, b)',
         \A a \in Articles : ~Owns(w, a),
         \A v \in Workers, a \in Articles : v # w => (Owns(v, a)' <=> Owns(v, a))
  PROVE  Owner' = [Owner EXCEPT ![b] = w]
<1> SUFFICES ASSUME NEW a \in Articles
             PROVE  LedgerOwner(a)' = IF a = b THEN w ELSE LedgerOwner(a)
  BY DEF Owner
<1>1. CASE a = b
  BY <1>1 DEF SoleOwner, Owns, LedgerOwner
<1>2. CASE a # b
  <2>1. \A v \in Workers : Owns(v, a)' <=> Owns(v, a)
    BY <1>2 DEF Owns
  <2> QED BY <1>2, <2>1 DEF LedgerOwner
<1> QED BY <1>1, <1>2

LEMMA OwnerReturned ==
  ASSUME SoleOwner, NEW w \in Workers, NEW b \in Articles, Owns(w, b),
         \A a \in Articles : ~Owns(w, a)',
         \A v \in Workers, a \in Articles : v # w => (Owns(v, a)' <=> Owns(v, a))
  PROVE  Owner' = [Owner EXCEPT ![b] = None]
<1> SUFFICES ASSUME NEW a \in Articles
             PROVE  LedgerOwner(a)' = IF a = b THEN None ELSE LedgerOwner(a)
  BY DEF Owner
<1>1. CASE a = b
  <2>1. \A v \in Workers : ~Owns(v, a)'
    BY <1>1 DEF SoleOwner, Owns
  <2> QED BY <1>1, <2>1 DEF LedgerOwner
<1>2. CASE a # b
  <2>1. \A v \in Workers : Owns(v, a)' <=> Owns(v, a)
    BY <1>2 DEF Owns
  <2> QED BY <1>2, <2>1 DEF LedgerOwner
<1> QED BY <1>1, <1>2

LEMMA LedgerInit == Init => Ledger!Init
<1> SUFFICES ASSUME Init PROVE Ledger!Init
  OBVIOUS
<1>1. \A a \in Articles : LedgerPhase(a) = "absent"
  BY DEF Init, LedgerPhase
<1>2. \A a \in Articles : LedgerOwner(a) = None
  BY DEF Init, LedgerOwner, Owns, Owning
<1>3. attempts = [a \in Articles |-> 0]
  BY DEF Init
<1> QED BY <1>1, <1>2, <1>3 DEF Ledger!Init

LEMMA LedgerStep ==
  ASSUME OwnershipInv, OwnershipInv', [Next]_vars
  PROVE  [Ledger!Next]_(Ledger!ledger)
<1>t. /\ SoleOwner /\ SoleOwner' /\ HeldIsArticle /\ AnalysisByCounter /\ AnalysisAndJobAgree
      /\ job \in [Articles -> {"none", "pending", "running", "done", "failed"}]
      /\ analysed \in SUBSET Articles /\ attempts \in [Articles -> Nat]
      /\ pc \in [Workers -> PCs] /\ held \in [Workers -> Articles \cup {None}]
  BY DEF OwnershipInv, TypeOK
<1>p. UNCHANGED <<job, analysed>> => Phase' = Phase
  BY DEF Phase, LedgerPhase
<1>m. /\ Phase = [a \in Articles |-> LedgerPhase(a)] /\ Owner = [a \in Articles |-> LedgerOwner(a)]
      /\ DOMAIN Phase = Articles /\ DOMAIN Owner = Articles
  BY DEF Phase, Owner
\* Nothing the ledger sees moves.
<1>0. ASSUME UNCHANGED <<job, analysed, attempts>>,
             \A w \in Workers, a \in Articles : Owns(w, a)' <=> Owns(w, a)
      PROVE  UNCHANGED Ledger!ledger
  BY <1>0, <1>p, OwnerKept DEF Ledger!ledger, Phase, Owner
<1>g. ASSUME NEW w \in Workers, NEW to \in PCs, Goto(w, to), pc[w] \in Owning <=> to \in Owning
      PROVE  \A v \in Workers, a \in Articles : Owns(v, a)' <=> Owns(v, a)
  BY <1>g, <1>t DEF Goto, Owns
\* Holders in gone vanish.
<1>a. ASSUME NEW gone \in SUBSET Workers, UNCHANGED <<job, analysed, attempts>>,
             \A w \in gone, a \in Articles : ~Owns(w, a)',
             \A w \in Workers \ gone, a \in Articles : Owns(w, a)' <=> Owns(w, a)
      PROVE  Ledger!Abandon(gone)
  BY <1>a, <1>p, <1>t, OwnerAbandoned DEF Ledger!Abandon, Phase, Owner
<1>1. ASSUME NEW a \in Articles, NEW kind \in {"fresh", "outdated"}, InsertArticle(a, kind)
      PROVE  UNCHANGED Ledger!ledger
  BY <1>0, <1>1 DEF InsertArticle, Owns
<1>2. ASSUME NEW a \in Articles, EnqueueLLMJob(a)
      PROVE  Ledger!Submit(a)
  <2>1. /\ job[a] = "none" /\ a \notin analysed /\ job' = [job EXCEPT ![a] = "pending"]
        /\ UNCHANGED <<analysed, attempts, pc, held>>
    BY <1>2 DEF EnqueueLLMJob
  <2>2. Phase' = [Phase EXCEPT ![a] = "queued"] /\ LedgerPhase(a) = "absent"
    BY <2>1, <1>t DEF Phase, LedgerPhase
  <2>3. Owner' = Owner
    BY <2>1, OwnerKept DEF Owns
  <2> QED BY <2>1, <2>2, <2>3 DEF Ledger!Submit, Ledger!Move, Phase, Owner
<1>3. ASSUME NEW w \in Workers, Pick(w)
      PROVE  \E a \in Articles : Ledger!Claim(a, w)
  <2>1. PICK a \in Articles : /\ job[a] = "pending" /\ job' = [job EXCEPT ![a] = "running"]
                              /\ held' = [held EXCEPT ![w] = a]
    BY <1>3 DEF Pick, Due
  <2>2. pc[w] = "idle" /\ pc' = [pc EXCEPT ![w] = "check"] /\ UNCHANGED <<analysed, attempts>>
    BY <1>3 DEF Pick, At
  <2>3. Phase' = [Phase EXCEPT ![a] = "claimed"] /\ LedgerPhase(a) = "queued"
    BY <2>1, <2>2, <1>t DEF Phase, LedgerPhase, AnalysisAndJobAgree
  <2>4. Owner' = [Owner EXCEPT ![a] = w]
    <3>1. Owns(w, a)' /\ \A b \in Articles : ~Owns(w, b)
      BY <2>1, <2>2, <1>t DEF Owns, Owning
    <3>2. \A v \in Workers, b \in Articles : v # w => (Owns(v, b)' <=> Owns(v, b))
      BY <2>1, <2>2, <1>t DEF Owns
    <3> QED BY <3>1, <3>2, <1>t, OwnerTaken
  <2>5. \A b \in Articles : LedgerOwner(b) # w
    <3> SUFFICES ASSUME NEW b \in Articles, LedgerOwner(b) = w PROVE FALSE
      OBVIOUS
    <3>1. CASE \E v \in Workers : Owns(v, b)
      <4>1. PICK v \in Workers : Owns(v, b)
        BY <3>1
      <4>2. v = w
        BY <4>1, OwnerOfHeld, <1>t
      <4> QED BY <2>2, <4>1, <4>2 DEF Owns, Owning
    <3>2. CASE ~\E v \in Workers : Owns(v, b)
      BY <3>2, OwnerOfFree, QueueAssumption DEF Workers
    <3> QED BY <3>1, <3>2
  <2> QED BY <2>2, <2>3, <2>4, <2>5 DEF Ledger!Claim, Ledger!Move, Ledger!Assign, Phase, Owner
<1>4. ASSUME NEW w \in Workers,
             \/ CheckAnalysis(w) \/ LoadArticle(w) \/ CallAnswers(w) \/ CallFails(w)
             \/ MarkDone(w) \/ Cluster(w) \/ StoreError(w)
      PROVE  UNCHANGED Ledger!ledger
  <2>1. UNCHANGED <<job, analysed, attempts>>
    BY <1>4 DEF CheckAnalysis, LoadArticle, CallAnswers, CallFails, MarkDone, Cluster,
       StoreError, SpendDbError, table
  <2>2. \E to \in PCs : Goto(w, to) /\ (pc[w] \in Owning <=> to \in Owning)
    BY <1>4 DEF CheckAnalysis, LoadArticle, CallAnswers, CallFails, MarkDone, Cluster,
       StoreError, At, PCs, Owning
  <2> QED BY <2>1, <2>2, <1>g, <1>0
<1>5. ASSUME NEW w \in Workers, SaveAnalysis(w)
      PROVE  Ledger!Record(held[w], w)
  <2>1. /\ pc[w] = "save" /\ held[w] \in Articles /\ job[held[w]] = "running"
        /\ held[w] \notin analysed /\ analysed' = analysed \cup {held[w]}
        /\ UNCHANGED <<job, attempts>> /\ Goto(w, "mark")
    BY <1>5, <1>t DEF SaveAnalysis, At, HeldIsArticle, SoleOwner, Owning, AnalysisByCounter,
       BeforeSave
  <2>2. Phase' = [Phase EXCEPT ![held[w]] = "recorded"] /\ LedgerPhase(held[w]) = "claimed"
    BY <2>1, <1>t DEF Phase, LedgerPhase
  <2>3. Owner' = Owner
    BY <2>1, <1>g, OwnerKept DEF PCs, Owning
  <2>4. LedgerOwner(held[w]) = w
    BY <2>1, <1>t, OwnerOfHeld DEF Owns, Owning
  <2> QED BY <2>1, <2>2, <2>3, <2>4 DEF Ledger!Record, Ledger!Move, Phase, Owner
<1>6. ASSUME NEW w \in Workers, CompleteLLMJob(w)
      PROVE  Ledger!Close(held[w], w)
  <2>1. /\ pc[w] = "complete" /\ held[w] \in Articles /\ held[w] \in analysed
        /\ job[held[w]] = "running" /\ job' = [job EXCEPT ![held[w]] = "done"]
        /\ UNCHANGED <<analysed, attempts>>
        /\ pc' = [pc EXCEPT ![w] = "idle"] /\ held' = [held EXCEPT ![w] = None]
    BY <1>6, <1>t DEF CompleteLLMJob, At, LetGo, HeldIsArticle, SoleOwner, Owning,
       AnalysisByCounter, AfterSave
  <2>2. Phase' = [Phase EXCEPT ![held[w]] = "closed"] /\ LedgerPhase(held[w]) = "recorded"
    BY <2>1, <1>t DEF Phase, LedgerPhase
  <2>3. Owns(w, held[w]) /\ LedgerOwner(held[w]) = w
    BY <2>1, <1>t, OwnerOfHeld DEF Owns, Owning
  <2>4. Owner' = [Owner EXCEPT ![held[w]] = None]
    <3>1. \A a \in Articles : ~Owns(w, a)'
      BY <2>1, <1>t DEF Owns, Owning
    <3>2. \A v \in Workers, a \in Articles : v # w => (Owns(v, a)' <=> Owns(v, a))
      BY <2>1, <1>t DEF Owns
    <3> QED BY <2>1, <2>3, <3>1, <3>2, <1>t, OwnerReturned
  <2> QED BY <2>1, <2>2, <2>3, <2>4 DEF Ledger!Close, Ledger!Move, Ledger!Assign, Phase, Owner
<1>7. ASSUME NEW w \in Workers, FailLLMJob(w) \/ ExpireLLMJob(w)
      PROVE  Ledger!Return(held[w], w)
  <2>1. /\ pc[w] \in {"fail", "expire"} /\ held[w] \in Articles /\ held[w] \notin analysed
        /\ job[held[w]] = "running" /\ UNCHANGED analysed
        /\ attempts' = [attempts EXCEPT ![held[w]] = @ + 1]
        /\ job' = [job EXCEPT ![held[w]] = IF attempts[held[w]] + 1 >= EffectiveMax
                                           THEN "failed" ELSE "pending"]
    BY <1>7, <1>t DEF FailLLMJob, ExpireLLMJob, FailRow, At, HeldIsArticle, SoleOwner, Owning,
       AnalysisByCounter, BeforeSave
  <2>2. /\ LedgerPhase(held[w]) = "claimed"
        /\ Phase' = [Phase EXCEPT ![held[w]] = IF attempts[held[w]] + 1 < EffectiveMax
                                               THEN "queued" ELSE "given up"]
    <3>1. attempts[held[w]] \in Nat /\ EffectiveMax \in Nat
      BY <2>1, <1>t, EffectiveMaxIsPositive
    <3>2. LedgerPhase(held[w]) = "claimed"
      BY <2>1 DEF LedgerPhase
    <3>3. CASE attempts[held[w]] + 1 >= EffectiveMax
      <4>1. job' = [job EXCEPT ![held[w]] = "failed"]
        BY <2>1, <3>3
      <4>2. Phase' = [Phase EXCEPT ![held[w]] = "given up"]
        BY <2>1, <4>1, <1>t DEF Phase, LedgerPhase
      <4>3. ~(attempts[held[w]] + 1 < EffectiveMax)
        BY <3>1, <3>3
      <4> QED BY <3>2, <4>2, <4>3
    <3>4. CASE ~(attempts[held[w]] + 1 >= EffectiveMax)
      <4>1. job' = [job EXCEPT ![held[w]] = "pending"]
        BY <2>1, <3>4
      <4>2. Phase' = [Phase EXCEPT ![held[w]] = "queued"]
        BY <2>1, <4>1, <1>t DEF Phase, LedgerPhase
      <4>3. attempts[held[w]] + 1 < EffectiveMax
        BY <3>1, <3>4
      <4> QED BY <3>2, <4>2, <4>3
    <3> QED BY <3>3, <3>4
  <2>3. Owns(w, held[w]) /\ LedgerOwner(held[w]) = w
    BY <2>1, <1>t, OwnerOfHeld DEF Owns, Owning
  <2>4. Owner' = [Owner EXCEPT ![held[w]] = None]
    <3>1. /\ \E here \in {"idle", "stale"} : pc' = [pc EXCEPT ![w] = here]
          /\ \A v \in Workers : v # w => held'[v] = held[v]
      BY <1>7, <1>t DEF FailLLMJob, ExpireLLMJob, LetGo, Goto
    <3>2. \A a \in Articles : ~Owns(w, a)'
      BY <3>1, <1>t DEF Owns, Owning
    <3>3. \A v \in Workers, a \in Articles : v # w => (Owns(v, a)' <=> Owns(v, a))
      BY <3>1, <1>t DEF Owns
    <3> QED BY <2>1, <2>3, <3>2, <3>3, <1>t, OwnerReturned
  <2> QED BY <2>1, <2>2, <2>3, <2>4 DEF Ledger!Return, Ledger!Move, Ledger!Assign, Phase, Owner
<1>8. ASSUME NEW w \in Workers, MarkOutdated(w) \/ GiveBackError(w) \/ ExpireError(w)
      PROVE  Ledger!Abandon({w})
  <2>1. /\ UNCHANGED <<job, analysed, attempts>>
        /\ \E here \in {"idle", "stale"} : pc' = [pc EXCEPT ![w] = here]
        /\ \A v \in Workers : v # w => held'[v] = held[v]
    BY <1>8, <1>t DEF MarkOutdated, GiveBackError, ExpireError, LetGo, Goto, SpendDbError, table
  <2>2. \A a \in Articles : ~Owns(w, a)'
    BY <2>1, <1>t DEF Owns, Owning
  <2>3. \A v \in Workers \ {w}, a \in Articles : Owns(v, a)' <=> Owns(v, a)
    BY <2>1, <1>t DEF Owns
  <2> QED BY <2>1, <2>2, <2>3, <1>a
<1>9. ASSUME NEW p \in Procs, Stop(p)
      PROVE  Ledger!Abandon({w \in Workers : w[1] = p})
  <2> DEFINE gone == {w \in Workers : w[1] = p}
  <2>1. /\ UNCHANGED <<job, analysed, attempts>>
        /\ pc' = [w \in Workers |-> IF w[1] = p THEN "idle" ELSE pc[w]]
        /\ held' = [w \in Workers |-> IF w[1] = p THEN None ELSE held[w]]
    BY <1>9 DEF Stop, table
  <2>2. \A w \in gone, a \in Articles : ~Owns(w, a)'
    BY <2>1 DEF Owns, Owning
  <2>3. \A w \in Workers \ gone, a \in Articles : Owns(w, a)' <=> Owns(w, a)
    BY <2>1 DEF Owns
  <2> QED BY <2>1, <2>2, <2>3, <1>a
<1>10. ASSUME RetryFailedLLM
       PROVE  Ledger!ReviveAll
  <2>1. /\ UNCHANGED <<analysed, attempts, pc, held>>
        /\ job' = [a \in Articles |-> IF job[a] = "failed" THEN "pending" ELSE job[a]]
    BY <1>10 DEF RetryFailedLLM
  <2>2. Phase' = [a \in Articles |-> IF LedgerPhase(a) = "given up" THEN "queued"
                                     ELSE LedgerPhase(a)]
    BY <2>1, <1>t DEF Phase, LedgerPhase, AnalysisAndJobAgree
  <2>3. Owner' = Owner
    BY <2>1, OwnerKept DEF Owns
  <2>4. Phase' = [a \in Articles |-> IF Phase[a] = "given up" THEN "queued" ELSE Phase[a]]
    BY <2>2, Zenon DEF Phase
  <2>5. UNCHANGED <<Owner, attempts>>
    BY <2>1, <2>3
  <2> QED BY <2>4, <2>5 DEF Ledger!ReviveAll, Phase, Owner
<1>11. ASSUME (\E p \in Procs : Start(p)) \/ Tick \/ UNCHANGED vars
       PROVE  UNCHANGED Ledger!ledger
  BY <1>0, <1>11 DEF Start, Tick, vars, table, Owns
<1>12. \A w \in Workers : pc[w] \in Owning => held[w] \in Articles
  BY <1>t DEF HeldIsArticle, Owning
<1>13. CASE \E w \in Workers : SaveAnalysis(w) \/ CompleteLLMJob(w) \/ FailLLMJob(w) \/ ExpireLLMJob(w)
  <2>1. PICK w \in Workers : SaveAnalysis(w) \/ CompleteLLMJob(w) \/ FailLLMJob(w) \/ ExpireLLMJob(w)
    BY <1>13
  <2>2. held[w] \in Articles
    BY <2>1, <1>12 DEF SaveAnalysis, CompleteLLMJob, FailLLMJob, ExpireLLMJob, At, Owning
  <2> QED BY <2>1, <2>2, <1>5, <1>6, <1>7 DEF Ledger!Next
<1>14. CASE \E w \in Workers : MarkOutdated(w) \/ GiveBackError(w) \/ ExpireError(w)
  BY <1>8, <1>14 DEF Ledger!Next
<1>15. CASE \E p \in Procs : Stop(p)
  BY <1>9, <1>15 DEF Ledger!Next
<1>16. CASE \E a \in Articles : EnqueueLLMJob(a)
  BY <1>2, <1>16 DEF Ledger!Next
<1>17. CASE \E w \in Workers : Pick(w)
  BY <1>3, <1>17 DEF Ledger!Next
<1>18. CASE RetryFailedLLM
  BY <1>10, <1>18 DEF Ledger!Next
<1> QED
  BY <1>1, <1>4, <1>11, <1>13, <1>14, <1>15, <1>16, <1>17, <1>18 DEF Next, Work

\* The queue implements the ledger: every execution of the workers, with all
\* its failures, is one in which a job is claimed by one worker, answered at
\* most once for good, and never taken over from a worker that vanished.
THEOREM QueueImplementsLedger == Spec => ImplementsLedger
<1>1. Init => Ledger!Init
  BY LedgerInit
<1>2. OwnershipInv /\ OwnershipInv' /\ [Next]_vars => [Ledger!Next]_(Ledger!ledger)
  BY LedgerStep
<1> QED BY <1>1, <1>2, OwnershipInvariant, PTL DEF Spec, Ledger!Spec, ImplementsLedger

-----------------------------------------------------------------------------
(* Jobs come to an end. Liveness is beyond the provers; these are the two  *)
(* facts of safety it rests on: every step of a job uses up a part of its  *)
(* life, and a queue that rests has settled.                               *)

\* Statements before a worker that holds a job gives it back, the last one included.
StatementsLeft == [check |-> 7, load |-> 6, call |-> 5, save |-> 4, mark |-> 3, cluster |-> 2,
                   complete |-> 1, fail |-> 1, expire |-> 1]

Owned(a) == \E w \in Workers : Owns(w, a)

AttemptLeft(a) ==
  IF job[a] = "none" THEN 9 ELSE IF job[a] = "pending" THEN 8
  ELSE IF job[a] = "running" /\ Owned(a) THEN StatementsLeft[pc[LedgerOwner(a)]] ELSE 0

LifeLeft(a) == 8 * (EffectiveMax + MaxRetries - attempts[a]) + 9 * (MaxRetries - retries)
               + AttemptLeft(a)

WholeLife == 8 * (EffectiveMax + MaxRetries) + 9 * MaxRetries + 9

\* A job moves: its row changes, or its worker goes on to the next statement.
Moved(a) == \/ job'[a] # job[a] \/ attempts'[a] # attempts[a]
            \/ \E w \in Workers : Owns(w, a) /\ pc'[w] # pc[w]

UsesLife(a) == LifeLeft(a)' <= LifeLeft(a) /\ (Moved(a) => LifeLeft(a)' < LifeLeft(a))

JobsUseUpLife == [][\A a \in Articles : UsesLife(a)]_vars

\* The guards of a worker's next statement, of a process that is started again
\* and of time.
WorkerMoves(w) == w[1] \in up /\ (pc[w] = "idle" => \E a \in Due : \A b \in Due : born[a] <= born[b])
TimeMoves      == \E a \in Articles : job[a] = "pending" /\ wait[a] > 0
AtRest        == (\A w \in Workers : ~WorkerMoves(w)) /\ up = Procs /\ ~TimeMoves

RestMeansSettled ==
  Workers # {} /\ AtRest
    => \A a \in Articles : job[a] \in {"none", "done", "failed"} \/ Orphan(a)

LEMMA LeftIsSmall ==
  ASSUME OwnershipInv, NEW a \in Articles
  PROVE  /\ AttemptLeft(a) \in 0..9
         /\ \A w \in Workers : Owns(w, a) => AttemptLeft(a) = StatementsLeft[pc[w]]
<1>1. ASSUME NEW w \in Workers, Owns(w, a)
      PROVE  /\ AttemptLeft(a) = StatementsLeft[pc[w]] /\ StatementsLeft[pc[w]] \in 1..7
  <2>1. LedgerOwner(a) = w /\ job[a] = "running" /\ Owned(a)
    BY <1>1, OwnerOfHeld DEF OwnershipInv, SoleOwner, Owns, Owned
  <2>2. pc[w] \in Owning
    BY <1>1 DEF Owns
  <2> QED BY <2>1, <2>2 DEF AttemptLeft, StatementsLeft, Owning
<1>2. CASE Owned(a)
  BY <1>1, <1>2 DEF Owned
<1>3. CASE ~Owned(a)
  BY <1>3 DEF Owned, AttemptLeft
<1> QED BY <1>1, <1>2, <1>3

\* The same of the state after a step.
LEMMA LeftAfter ==
  ASSUME OwnershipInv', NEW a \in Articles
  PROVE  /\ AttemptLeft(a)' \in 0..9
         /\ \A w \in Workers : Owns(w, a)' => AttemptLeft(a)' = StatementsLeft[pc'[w]]
<1>1. ASSUME NEW w \in Workers, Owns(w, a)'
      PROVE  /\ AttemptLeft(a)' = StatementsLeft[pc'[w]] /\ StatementsLeft[pc'[w]] \in 1..7
  <2>1. LedgerOwner(a)' = w /\ job'[a] = "running" /\ Owned(a)'
    BY <1>1 DEF OwnershipInv, SoleOwner, Owns, Owned, LedgerOwner
  <2>2. pc'[w] \in Owning
    BY <1>1 DEF Owns
  <2> QED BY <2>1, <2>2 DEF AttemptLeft, StatementsLeft, Owning
<1>2. CASE Owned(a)'
  BY <1>1, <1>2 DEF Owned, Workers
<1>3. CASE ~Owned(a)'
  BY <1>3 DEF Owned, AttemptLeft
<1> QED BY <1>1, <1>2, <1>3

LEMMA LifeIsNat ==
  ASSUME OwnershipInv, AttemptsInv, NEW a \in Articles
  PROVE  /\ LifeLeft(a) \in 0..WholeLife
         /\ attempts[a] \in Nat /\ retries \in Nat /\ MaxRetries \in Nat /\ EffectiveMax \in Nat
<1>1. /\ attempts[a] \in Nat /\ retries \in 0..MaxRetries /\ MaxRetries \in Nat
      /\ EffectiveMax \in Nat /\ attempts[a] <= EffectiveMax + retries
  BY EffectiveMaxIsPositive, QueueAssumption DEF OwnershipInv, TypeOK, AttemptsInv
<1>2. AttemptLeft(a) \in 0..9
  BY LeftIsSmall
<1> QED BY <1>1, <1>2 DEF LifeLeft, WholeLife

\* What is left of a life, in its parts.
LEMMA LifeLess ==
  ASSUME OwnershipInv, AttemptsInv, OwnershipInv', AttemptsInv', NEW a \in Articles,
         \/ /\ attempts'[a] = attempts[a] /\ retries' = retries
            /\ AttemptLeft(a)' < AttemptLeft(a)
         \/ /\ attempts'[a] = attempts[a] + 1 /\ retries' = retries
            /\ AttemptLeft(a) >= 1 /\ AttemptLeft(a)' <= 8
         \/ /\ attempts'[a] = attempts[a] /\ retries' = retries + 1
            /\ AttemptLeft(a)' <= 8
  PROVE  UsesLife(a)
<1>1. /\ attempts[a] \in Nat /\ retries \in Nat /\ MaxRetries \in Nat /\ EffectiveMax \in Nat
      /\ attempts'[a] \in Nat /\ retries' \in Nat /\ EffectiveMax' = EffectiveMax
  BY LifeIsNat DEF OwnershipInv, TypeOK, EffectiveMax
<1>2. AttemptLeft(a) \in 0..9 /\ AttemptLeft(a)' \in 0..9
  BY LeftIsSmall, LeftAfter
<1> QED BY <1>1, <1>2 DEF LifeLeft, UsesLife

LEMMA LifeStill ==
  ASSUME OwnershipInv, AttemptsInv, OwnershipInv', AttemptsInv', NEW a \in Articles,
         job'[a] = job[a], attempts'[a] = attempts[a], retries' = retries,
         \A w \in Workers : /\ Owns(w, a)' <=> Owns(w, a)
                            /\ Owns(w, a) => pc'[w] = pc[w]
  PROVE  UsesLife(a)
<1>1. AttemptLeft(a)' = AttemptLeft(a)
  <2>1. CASE Owned(a)
    <3>1. PICK w \in Workers : Owns(w, a)
      BY <2>1 DEF Owned
    <3>2. Owns(w, a)' /\ pc'[w] = pc[w]
      BY <3>1
    <3>3. AttemptLeft(a) = StatementsLeft[pc[w]]
      BY <3>1, LeftIsSmall
    <3>4. AttemptLeft(a)' = StatementsLeft[pc'[w]]
      BY <3>2, LeftAfter
    <3> QED BY <3>2, <3>3, <3>4
  <2>2. CASE ~Owned(a)
    <3>1. Owned(a)' <=> Owned(a)
      BY DEF Owned
    <3> QED BY <2>2, <3>1 DEF AttemptLeft
  <2> QED BY <2>1, <2>2
<1>2. AttemptLeft(a) \in 0..9
  BY LeftIsSmall
<1> QED BY <1>1, <1>2, LifeIsNat DEF LifeLeft, UsesLife, Moved, EffectiveMax

\* Worker w goes on with its job.
LEMMA LifeForward ==
  ASSUME OwnershipInv, AttemptsInv, OwnershipInv', AttemptsInv', NEW a \in Articles,
         NEW w \in Workers, NEW to \in Owning, Goto(w, to), pc[w] \in Owning,
         StatementsLeft[to] < StatementsLeft[pc[w]],
         UNCHANGED <<job, attempts, retries>>
  PROVE  UsesLife(a)
<1>1. /\ pc' = [pc EXCEPT ![w] = to] /\ UNCHANGED held /\ pc \in [Workers -> PCs]
  BY DEF Goto, OwnershipInv, TypeOK
<1>2. CASE Owns(w, a)
  <2>1. Owns(w, a)' /\ pc'[w] = to
    BY <1>1, <1>2 DEF Owns
  <2>2. AttemptLeft(a) = StatementsLeft[pc[w]]
    BY <1>2, LeftIsSmall
  <2>3. AttemptLeft(a)' = StatementsLeft[pc'[w]]
    BY <2>1, LeftAfter
  <2> QED BY <2>1, <2>2, <2>3, LifeLess
<1>3. CASE ~Owns(w, a)
  <2>1. \A v \in Workers : (Owns(v, a)' <=> Owns(v, a)) /\ (Owns(v, a) => pc'[v] = pc[v])
    BY <1>1, <1>3 DEF Owns
  <2> QED BY <2>1, LifeStill
<1> QED BY <1>2, <1>3

\* The workers in gone drop what they hold: an orphan moves no more.
LEMMA LifeDropped ==
  ASSUME OwnershipInv, AttemptsInv, OwnershipInv', AttemptsInv', NEW a \in Articles,
         NEW gone \in SUBSET Workers, UNCHANGED <<job, attempts, retries>>,
         \A w \in gone : ~Owns(w, a)',
         \A w \in Workers \ gone : /\ Owns(w, a)' <=> Owns(w, a)
                                   /\ Owns(w, a) => pc'[w] = pc[w]
  PROVE  UsesLife(a)
<1>1. CASE \E w \in gone : Owns(w, a)
  <2>1. PICK w \in gone : Owns(w, a)
    BY <1>1
  <2>2. job[a] = "running" /\ pc[w] \in Owning
    BY <2>1 DEF OwnershipInv, SoleOwner, Owns
  <2>3. AttemptLeft(a) = StatementsLeft[pc[w]]
    BY <2>1, LeftIsSmall
  <2>4. AttemptLeft(a) \in 1..9
    BY <2>2, <2>3 DEF StatementsLeft, Owning
  <2>5. \A v \in Workers : Owns(v, a) => v = w
    BY <2>1 DEF OwnershipInv, SoleOwner, Owns
  <2>6. ~Owned(a)'
    <3> SUFFICES ASSUME NEW v \in Workers, Owns(v, a)' PROVE FALSE
      BY DEF Owned, Workers
    <3>1. v \notin gone /\ Owns(v, a)
      OBVIOUS
    <3> QED BY <2>1, <2>5, <3>1
  <2>7. AttemptLeft(a)' = 0
    BY <2>2, <2>6 DEF AttemptLeft
  <2>8. attempts'[a] = attempts[a] /\ retries' = retries /\ AttemptLeft(a)' < AttemptLeft(a)
    BY <2>4, <2>7
  <2> QED BY <2>8, LifeLess
<1>2. CASE ~\E w \in gone : Owns(w, a)
  BY <1>2, LifeStill
<1> QED BY <1>1, <1>2

LEMMA WorkerUsesLife ==
  ASSUME OwnershipInv, AttemptsInv, OwnershipInv', AttemptsInv', NEW a \in Articles,
         NEW w \in Workers,
         Work(w) \/ StoreError(w) \/ GiveBackError(w) \/ ExpireError(w)
  PROVE  UsesLife(a)
<1>t. /\ job \in [Articles -> {"none", "pending", "running", "done", "failed"}]
      /\ attempts \in [Articles -> Nat]
      /\ pc \in [Workers -> PCs] /\ held \in [Workers -> Articles \cup {None}]
  BY DEF OwnershipInv, TypeOK
<1>1. CASE Pick(w)
  <2>1. PICK b \in Articles : /\ job[b] = "pending" /\ job' = [job EXCEPT ![b] = "running"]
                              /\ held' = [held EXCEPT ![w] = b]
    BY <1>1 DEF Pick, Due
  <2>2. /\ pc[w] = "idle" /\ pc' = [pc EXCEPT ![w] = "check"]
        /\ UNCHANGED <<attempts, retries>>
    BY <1>1 DEF Pick, At, Steady, budgets
  <2>3. CASE a = b
    <3>1. Owns(w, a)' /\ pc'[w] = "check"
      BY <1>t, <2>1, <2>2, <2>3 DEF Owns, Owning
    <3>2. AttemptLeft(a)' = 7
      BY <3>1, LeftAfter DEF StatementsLeft
    <3>3. AttemptLeft(a) = 8
      BY <2>1, <2>3 DEF AttemptLeft
    <3> QED BY <2>2, <3>2, <3>3, LifeLess
  <2>4. CASE a # b
    <3>1. \A v \in Workers : (Owns(v, a)' <=> Owns(v, a)) /\ (Owns(v, a) => pc'[v] = pc[v])
      BY <1>t, <2>1, <2>2, <2>4 DEF Owns, Owning
    <3> QED BY <1>t, <2>1, <2>2, <2>4, <3>1, LifeStill
  <2> QED BY <2>3, <2>4
<1>2. CASE \/ CheckAnalysis(w) \/ LoadArticle(w) \/ CallAnswers(w) \/ CallFails(w)
           \/ SaveAnalysis(w) \/ MarkDone(w) \/ Cluster(w) \/ StoreError(w)
  <2>1. UNCHANGED <<job, attempts, retries>>
    BY <1>2 DEF CheckAnalysis, LoadArticle, CallAnswers, CallFails, SaveAnalysis, MarkDone,
       Cluster, StoreError, SpendDbError, Steady, table, budgets
  <2>2. \E to \in Owning : /\ Goto(w, to) /\ pc[w] \in Owning
                           /\ StatementsLeft[to] < StatementsLeft[pc[w]]
    BY <1>2 DEF CheckAnalysis, LoadArticle, CallAnswers, CallFails, SaveAnalysis, MarkDone,
       Cluster, StoreError, At, Owning, StatementsLeft
  <2> QED BY <2>1, <2>2, LifeForward
<1>3. CASE CompleteLLMJob(w)
  <2>1. /\ pc[w] = "complete" /\ held[w] \in Articles /\ Owns(w, held[w])
        /\ job' = [job EXCEPT ![held[w]] = "done"]
        /\ pc' = [pc EXCEPT ![w] = "idle"] /\ held' = [held EXCEPT ![w] = None]
        /\ UNCHANGED <<attempts, retries>>
    BY <1>3 DEF CompleteLLMJob, At, LetGo, Steady, budgets, OwnershipInv, HeldIsArticle,
       Owns, Owning
  <2>2. CASE a = held[w]
    <3>1. AttemptLeft(a) = 1
      BY <2>1, <2>2, LeftIsSmall DEF StatementsLeft
    <3>2. AttemptLeft(a)' = 0
      BY <1>t, <2>1, <2>2 DEF AttemptLeft
    <3> QED BY <2>1, <3>1, <3>2, LifeLess
  <2>3. CASE a # held[w]
    <3>1. \A v \in Workers : (Owns(v, a)' <=> Owns(v, a)) /\ (Owns(v, a) => pc'[v] = pc[v])
      BY <1>t, <2>1, <2>3 DEF Owns, Owning
    <3> QED BY <1>t, <2>1, <2>3, <3>1, LifeStill
  <2> QED BY <2>2, <2>3
<1>4. CASE FailLLMJob(w) \/ ExpireLLMJob(w)
  <2>1. /\ pc[w] \in {"fail", "expire"} /\ held[w] \in Articles /\ Owns(w, held[w])
        /\ job' = [job EXCEPT ![held[w]] = IF attempts[held[w]] + 1 >= EffectiveMax
                                           THEN "failed" ELSE "pending"]
        /\ attempts' = [attempts EXCEPT ![held[w]] = @ + 1]
        /\ UNCHANGED retries
    BY <1>4 DEF FailLLMJob, ExpireLLMJob, FailRow, At, budgets, OwnershipInv, HeldIsArticle,
       Owns, Owning
  <2>2. CASE a = held[w]
    <3>1. AttemptLeft(a) = 1
      BY <2>1, <2>2, LeftIsSmall DEF StatementsLeft
    <3>2. AttemptLeft(a)' <= 8
      BY <1>t, <2>1, <2>2 DEF AttemptLeft
    <3>3. attempts'[a] = attempts[a] + 1
      BY <1>t, <2>1, <2>2
    <3> QED BY <2>1, <3>1, <3>2, <3>3, LifeLess
  <2>3. CASE a # held[w]
    <3>1. \A v \in Workers : v # w => pc'[v] = pc[v] /\ held'[v] = held[v]
      BY <1>4, <1>t DEF FailLLMJob, ExpireLLMJob, Goto, LetGo
    <3>2. pc'[w] \notin Owning
      BY <1>4, <1>t DEF FailLLMJob, ExpireLLMJob, Goto, LetGo, Owning
    <3>3. \A v \in Workers : (Owns(v, a)' <=> Owns(v, a)) /\ (Owns(v, a) => pc'[v] = pc[v])
      BY <2>1, <2>3, <3>1, <3>2 DEF Owns
    <3> QED BY <1>t, <2>1, <2>3, <3>3, LifeStill
  <2> QED BY <2>2, <2>3
<1>5. CASE MarkOutdated(w) \/ GiveBackError(w) \/ ExpireError(w)
  <2>1. UNCHANGED <<job, attempts, retries>>
    BY <1>5 DEF MarkOutdated, GiveBackError, ExpireError, SpendDbError, Steady, table, budgets
  <2>2. \A v \in Workers : v # w => pc'[v] = pc[v] /\ held'[v] = held[v]
    BY <1>5, <1>t DEF MarkOutdated, GiveBackError, ExpireError, Goto, LetGo
  <2>3. pc'[w] \notin Owning
    BY <1>5, <1>t DEF MarkOutdated, GiveBackError, ExpireError, Goto, LetGo, Owning
  <2>4. /\ ~Owns(w, a)'
        /\ \A v \in Workers \ {w} : (Owns(v, a)' <=> Owns(v, a)) /\ (Owns(v, a) => pc'[v] = pc[v])
    BY <2>2, <2>3 DEF Owns
  <2>5. {w} \in SUBSET Workers /\ \A v \in {w} : ~Owns(v, a)'
    BY <2>4
  <2> QED BY <2>1, <2>4, <2>5, LifeDropped
<1> QED BY <1>1, <1>2, <1>3, <1>4, <1>5 DEF Work

LEMMA LifeStep ==
  ASSUME OwnershipInv, AttemptsInv, OwnershipInv', AttemptsInv', NEW a \in Articles,
         [Next]_vars
  PROVE  UsesLife(a)
<1>t. /\ job \in [Articles -> {"none", "pending", "running", "done", "failed"}]
      /\ pc \in [Workers -> PCs]
  BY DEF OwnershipInv, TypeOK
\* Steps that move neither a job nor a worker.
<1>0. ASSUME UNCHANGED <<job, attempts, retries, pc, held>> PROVE UsesLife(a)
  <2>1. \A w \in Workers : (Owns(w, a)' <=> Owns(w, a)) /\ (Owns(w, a) => pc'[w] = pc[w])
    BY <1>0 DEF Owns
  <2> QED BY <1>0, <2>1, LifeStill
<1>1. ASSUME NEW b \in Articles, EnqueueLLMJob(b) PROVE UsesLife(a)
  <2>1. /\ job[b] = "none" /\ job' = [job EXCEPT ![b] = "pending"]
        /\ UNCHANGED <<attempts, retries, pc, held>>
    BY <1>1 DEF EnqueueLLMJob, budgets
  <2>2. CASE a = b
    <3>1. AttemptLeft(a) = 9 /\ AttemptLeft(a)' = 8
      BY <1>t, <2>1, <2>2 DEF AttemptLeft
    <3> QED BY <2>1, <3>1, LifeLess
  <2>3. CASE a # b
    <3>1. \A w \in Workers : (Owns(w, a)' <=> Owns(w, a)) /\ (Owns(w, a) => pc'[w] = pc[w])
      BY <2>1 DEF Owns
    <3> QED BY <1>t, <2>1, <2>3, <3>1, LifeStill
  <2> QED BY <2>2, <2>3
<1>2. ASSUME NEW w \in Workers,
             Work(w) \/ StoreError(w) \/ GiveBackError(w) \/ ExpireError(w)
      PROVE  UsesLife(a)
  BY <1>2, WorkerUsesLife
<1>3. ASSUME NEW p \in Procs, Stop(p) PROVE UsesLife(a)
  <2> DEFINE gone == {w \in Workers : w[1] = p}
  <2>1. /\ UNCHANGED <<job, attempts, retries>>
        /\ pc' = [w \in Workers |-> IF w[1] = p THEN "idle" ELSE pc[w]]
        /\ held' = [w \in Workers |-> IF w[1] = p THEN None ELSE held[w]]
    BY <1>3 DEF Stop, table
  <2>2. \A w \in gone : ~Owns(w, a)'
    BY <2>1 DEF Owns, Owning
  <2>3. \A w \in Workers \ gone : (Owns(w, a)' <=> Owns(w, a)) /\ (Owns(w, a) => pc'[w] = pc[w])
    BY <2>1 DEF Owns
  <2> HIDE DEF gone
  <2>4. gone \in SUBSET Workers
    BY DEF gone
  <2> QED BY <2>1, <2>2, <2>3, <2>4, LifeDropped
<1>4. CASE RetryFailedLLM
  <2>1. /\ retries' = retries + 1 /\ UNCHANGED <<attempts, pc, held>>
        /\ job' = [b \in Articles |-> IF job[b] = "failed" THEN "pending" ELSE job[b]]
    BY <1>4 DEF RetryFailedLLM
  <2>2. CASE job[a] = "failed"
    <3>1. AttemptLeft(a)' = 8
      BY <2>1, <2>2 DEF AttemptLeft
    <3> QED BY <2>1, <3>1, LifeLess
  <2>3. CASE job[a] # "failed"
    <3>1. job'[a] = job[a] /\ \A w \in Workers : Owns(w, a)' <=> Owns(w, a)
      BY <2>1, <2>3 DEF Owns
    <3>2. AttemptLeft(a)' = AttemptLeft(a)
      <4>1. CASE Owned(a)
        <5>1. PICK w \in Workers : Owns(w, a)
          BY <4>1 DEF Owned
        <5> QED BY <2>1, <3>1, <5>1, LeftIsSmall, LeftAfter
      <4>2. CASE ~Owned(a)
        <5>1. ~Owned(a)'
          BY <3>1, <4>2 DEF Owned, Workers
        <5> QED BY <3>1, <4>2, <5>1 DEF AttemptLeft
      <4> QED BY <4>1, <4>2
    <3>3. ~Moved(a)
      BY <2>1, <3>1 DEF Moved
    <3>4. AttemptLeft(a) \in 0..9
      BY LeftIsSmall
    <3> QED BY <2>1, <3>2, <3>3, <3>4, LifeIsNat DEF LifeLeft, UsesLife, EffectiveMax
  <2> QED BY <2>2, <2>3
<1>5. ASSUME NEW b \in Articles, NEW kind \in {"fresh", "outdated"}, InsertArticle(b, kind)
      PROVE  UsesLife(a)
  BY <1>0, <1>5 DEF InsertArticle, budgets
<1>6. ASSUME NEW p \in Procs, Start(p) PROVE UsesLife(a)
  BY <1>0, <1>6 DEF Start, table, budgets
<1>7. CASE Tick \/ UNCHANGED vars
  BY <1>0, <1>7 DEF Tick, vars, table, budgets
<1> QED BY <1>1, <1>2, <1>3, <1>4, <1>5, <1>6, <1>7 DEF Next

\* Every step of a job uses up a part of its life, which is eight steps for each
\* attempt and nine more for each retry an administrator asks for: whatever
\* fails or stops, no job goes round for ever, and its worker least of all.
THEOREM JobsAreFinite ==
  Spec => JobsUseUpLife /\ [](\A a \in Articles : LifeLeft(a) \in 0..WholeLife)
<1> DEFINE I == OwnershipInv /\ AttemptsInv
           Steps == \A a \in Articles : UsesLife(a)
           Within == \A a \in Articles : LifeLeft(a) \in 0..WholeLife
<1>1. Init => AttemptsInv
  BY EffectiveMaxIsPositive DEF Init, AttemptsInv
<1>2. OwnershipInv /\ AttemptsInv /\ [Next]_vars => AttemptsInv'
  BY AttemptsStep
<1>3. Spec => []I
  BY <1>1, <1>2, OwnershipInvariant, PTL DEF Spec
<1>4. I /\ I' /\ [Next]_vars => [Steps]_vars
  BY LifeStep
<1>5. I => Within
  BY LifeIsNat
<1> HIDE DEF I
<1> QED BY <1>3, <1>4, <1>5, PTL DEF Spec, JobsUseUpLife

LEMMA LeastExists ==
  ASSUME NEW T, T \subseteq Nat, T # {}
  PROVE  \E x \in T : \A y \in T : x <= y
<1> DEFINE R == OpToRel(<, Nat)
<1>1. IsWellFoundedOn(R, Nat)
  BY NatLessThanWellFounded, Zenon
<1>2. R = {p \in Nat \X Nat : p[1] < p[2]}
  BY DEF OpToRel
<1> HIDE DEF R
<1>3. \E x \in T : \A y \in T : ~ (<<y, x>> \in R)
  BY <1>1, WFMin
<1>4. ASSUME NEW x \in T, NEW y \in T, ~(<<y, x>> \in R) PROVE x <= y
  <2>1. x \in Nat /\ y \in Nat /\ <<y, x>> \in Nat \X Nat
    BY Zenon
  <2>2. <<y, x>>[1] = y /\ <<y, x>>[2] = x
    OBVIOUS
  <2>3. ~(y < x)
    BY <1>2, <1>4, <2>1, <2>2
  <2> QED BY <2>1, <2>3
<1> QED BY <1>3, <1>4

\* Among due jobs there is an oldest.
LEMMA OldestExists ==
  ASSUME TypeOK, Due # {}
  PROVE  \E a \in Due : \A b \in Due : born[a] <= born[b]
<1> DEFINE T == {born[a] : a \in Due}
<1>1. T \subseteq Nat /\ T # {}
  BY DEF Due, TypeOK
<1>2. \E x \in T : \A y \in T : x <= y
  <2> HIDE DEF T
  <2> QED BY <1>1, LeastExists
<1> QED BY <1>2

\* When no worker, process or clock has anything left to do, every job is done,
\* has failed for good, or was left running by a failed statement or a stop: no
\* job waits unseen and no worker keeps one.
THEOREM RestingQueueIsSettled == Spec => []RestMeansSettled
<1>1. OwnershipInv => RestMeansSettled
  <2> SUFFICES ASSUME OwnershipInv, Workers # {}, AtRest, NEW a \in Articles,
                      job[a] \notin {"none", "done", "failed"}
               PROVE  Orphan(a)
    BY DEF RestMeansSettled
  <2>1. \A w \in Workers : /\ pc[w] = "idle"
                           /\ ~\E b \in Due : \A c \in Due : born[b] <= born[c]
    BY DEF AtRest, WorkerMoves, Workers
  <2>2. Due = {}
    BY <2>1, OldestExists DEF OwnershipInv
  <2>3. job[a] \in {"pending", "running"} /\ wait[a] \in Nat
    BY DEF OwnershipInv, TypeOK
  <2>4. job[a] = "running"
    BY <2>2, <2>3 DEF Due, AtRest, TimeMoves
  <2> QED BY <2>1, <2>4 DEF Orphan, Owns, Owning
<1> QED BY <1>1, OwnershipInvariant, PTL
=============================================================================

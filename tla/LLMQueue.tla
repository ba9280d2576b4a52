------------------------------ MODULE LLMQueue ------------------------------
(***************************************************************************)
(* The durable LLM queue: table llm_jobs (one row per article), table      *)
(* article_llm_analysis, and the worker goroutines of every process that   *)
(* runs them (finnews server, finnews worker).                             *)
(*                                                                         *)
(* Every SQL statement is one step: the worker keeps what it read in local *)
(* variables between two statements, and other workers, the crawler, the   *)
(* retry handler and a shutdown act in between.                            *)
(***************************************************************************)
EXTENDS Integers, Sequences, FiniteSets

CONSTANTS
  Articles,     \* article ids; llm_jobs.article_id is UNIQUE, so also job ids
  Procs,        \* operating-system processes that start a worker pool
  Slots,        \* the worker goroutines of one process
  MaxAttempts,  \* cfg.LLM.MaxAttempts
  Backoffs,     \* cfg.BackoffDurations(), in ticks
  ZoneOffset,   \* local time minus UTC, in ticks
  MaxDbErrors,  \* bound: store calls that fail
  MaxStops,     \* bound: shutdowns and crashes
  MaxRetries,   \* bound: POST /api/admin/retry-failed-llm
  LongRest,     \* bound: a rest no backoff exceeds, counted no further
  None          \* no article

ASSUME QueueAssumption ==
  /\ None \notin Articles /\ None \notin Procs \X Slots
  /\ IsFiniteSet(Slots)
  /\ MaxAttempts \in Int
  /\ Backoffs \in Seq(Nat) /\ Backoffs # << >>
  /\ ZoneOffset \in Int
  /\ LongRest \in Nat /\ \A i \in DOMAIN Backoffs : Backoffs[i] <= LongRest
  /\ MaxDbErrors \in Nat /\ MaxStops \in Nat /\ MaxRetries \in Nat

VARIABLES
  row,       \* articles: "none", or the is_outdated flag the row was stored with
  job,       \* llm_jobs.status, "none" without a row
  attempts,  \* llm_jobs.attempts
  born,      \* llm_jobs.created_at as a rank: equal within one second
  wait,      \* ticks until next_run_at <= CURRENT_TIMESTAMP holds
  analysed,  \* articles with a row in article_llm_analysis
  pc,        \* next statement of each worker
  held,      \* the article of the job a worker picked
  up,        \* running processes
  dbErrors, stops, retries,  \* how much of each bound is spent
  answers,   \* history: parsed LLM answers per article
  rested     \* history: ticks since the last failed attempt

table   == <<row, job, attempts, born, wait, analysed>>
budgets == <<dbErrors, stops, retries>>
vars    == <<table, pc, held, up, budgets, answers, rested>>

Workers == Procs \X Slots

\* The program counters between PickLLMJob and the statement that gives the
\* job back; "stale" runs after FailLLMJob and owns nothing.
Owning == {"check", "load", "call", "save", "mark", "cluster", "complete",
           "fail", "expire"}
PCs    == Owning \cup {"idle", "stale"}

MaxOf(m, n) == IF m >= n THEN m ELSE n

\* EnqueueLLMJob: a configured maximum of zero or less means five.
EffectiveMax == IF MaxAttempts <= 0 THEN 5 ELSE MaxAttempts

\* Worker.backoff: the last entry serves every later attempt.
Backoff(n) == IF n >= Len(Backoffs) THEN Backoffs[Len(Backoffs)] ELSE Backoffs[n + 1]

\* Mutant of NextRun: the backoff is not added.
NoBackoffAdded(delay) == 0

\* FailLLMJob stores time.Now().Add(backoff) as local-time text, PickLLMJob
\* compares it with the UTC text CURRENT_TIMESTAMP.
NextRun(delay) == MaxOf(0, delay + ZoneOffset)

TypeOK ==
  /\ row \in [Articles -> {"none", "fresh", "outdated"}]
  /\ job \in [Articles -> {"none", "pending", "running", "done", "failed"}]
  /\ attempts \in [Articles -> Nat]
  /\ born \in [Articles -> Nat]
  /\ wait \in [Articles -> Nat]
  /\ analysed \in SUBSET Articles
  /\ pc \in [Workers -> PCs]
  /\ held \in [Workers -> Articles \cup {None}]
  /\ up \in SUBSET Procs
  /\ dbErrors \in 0..MaxDbErrors /\ stops \in 0..MaxStops /\ retries \in 0..MaxRetries
  /\ answers \in [Articles -> Nat]
  /\ rested \in [Articles -> Nat]

Init ==
  /\ row = [a \in Articles |-> "none"]
  /\ job = [a \in Articles |-> "none"]
  /\ attempts = [a \in Articles |-> 0]
  /\ born = [a \in Articles |-> 0]
  /\ wait = [a \in Articles |-> 0]
  /\ analysed = {}
  /\ pc = [w \in Workers |-> "idle"]
  /\ held = [w \in Workers |-> None]
  /\ up = Procs
  /\ dbErrors = 0 /\ stops = 0 /\ retries = 0
  /\ answers = [a \in Articles |-> 0]
  /\ rested = [a \in Articles |-> 0]

-----------------------------------------------------------------------------
(* The crawler's side of the tables.                                       *)

\* InsertArticle: INSERT OR IGNORE, so the first writer decides is_outdated.
InsertArticle(a, kind) ==
  /\ row[a] = "none"
  /\ row' = [row EXCEPT ![a] = kind]
  /\ UNCHANGED <<job, attempts, born, wait, analysed, pc, held, up, budgets, answers, rested>>

Ranks == {born[a] : a \in {b \in Articles : job[b] # "none"}} \cup {0}

\* EnqueueLLMJob: ignored when the article has a job or an analysis. A job is of
\* the second of the latest one or of a later second; the first has rank 0.
EnqueueLLMJob(a) ==
  /\ row[a] # "none"
  /\ job[a] = "none"
  /\ a \notin analysed
  /\ job' = [job EXCEPT ![a] = "pending"]
  /\ \E r \in Ranks, second \in {0, 1} :
       /\ \A q \in Ranks : q <= r
       /\ second = 1 => \E b \in Articles : job[b] # "none"
       /\ born' = [born EXCEPT ![a] = r + second]
  /\ UNCHANGED <<row, attempts, wait, analysed, pc, held, up, budgets, answers, rested>>

-----------------------------------------------------------------------------
(* One worker: ProcessOne.                                                 *)

Goto(w, to)    == pc' = [pc EXCEPT ![w] = to] /\ UNCHANGED held
LetGo(w)       == /\ pc' = [pc EXCEPT ![w] = "idle"]
                  /\ held' = [held EXCEPT ![w] = None]
At(w, here)    == w[1] \in up /\ pc[w] = here
Steady         == UNCHANGED <<up, budgets, answers, rested>>

Due == {a \in Articles : job[a] = "pending" /\ wait[a] = 0}

\* Mutant of Pick: the job is read but not locked.
PickUnlocked(w) ==
  /\ At(w, "idle")
  /\ \E a \in Due : held' = [held EXCEPT ![w] = a]
  /\ pc' = [pc EXCEPT ![w] = "check"]
  /\ UNCHANGED table /\ Steady

\* PickLLMJob: one transaction, the oldest due job (priorities are all zero).
Pick(w) ==
  /\ At(w, "idle")
  /\ \E a \in Due :
       /\ \A b \in Due : born[a] <= born[b]
       /\ job' = [job EXCEPT ![a] = "running"]
       /\ held' = [held EXCEPT ![w] = a]
  /\ pc' = [pc EXCEPT ![w] = "check"]
  /\ UNCHANGED <<row, attempts, born, wait, analysed>> /\ Steady

\* HasAnalysis: an article that has its analysis goes straight to done.
CheckAnalysis(w) ==
  /\ At(w, "check")
  /\ Goto(w, IF held[w] \in analysed THEN "complete" ELSE "load")
  /\ UNCHANGED table /\ Steady

\* GetArticle, then the IsOutdated test.
LoadArticle(w) ==
  /\ At(w, "load")
  /\ Goto(w, IF row[held[w]] = "fresh" THEN "call"
             ELSE IF row[held[w]] = "outdated" THEN "expire" ELSE "fail")
  /\ UNCHANGED table /\ Steady

\* Mutant of CallAnswers: a valid answer is treated as a failed call.
CallAnswersDropped(w) ==
  /\ At(w, "call")
  /\ answers' = [answers EXCEPT ![held[w]] = @ + 1]
  /\ Goto(w, "fail")
  /\ UNCHANGED <<table, up, budgets, rested>>

\* AnalyzeArticle returns a validated answer ...
CallAnswers(w) ==
  /\ At(w, "call")
  /\ answers' = [answers EXCEPT ![held[w]] = @ + 1]
  /\ Goto(w, "save")
  /\ UNCHANGED <<table, up, budgets, rested>>

\* ... or a network, HTTP or JSON error.
CallFails(w) ==
  /\ At(w, "call")
  /\ Goto(w, "fail")
  /\ UNCHANGED table /\ Steady

\* Mutant of SaveAnalysis: the worker goes on although nothing was stored.
SaveSkipped(w) ==
  /\ At(w, "save")
  /\ Goto(w, "mark")
  /\ UNCHANGED table /\ Steady

\* SaveAnalysis: INSERT OR IGNORE on the primary key article_id.
SaveAnalysis(w) ==
  /\ At(w, "save")
  /\ analysed' = analysed \cup {held[w]}
  /\ Goto(w, "mark")
  /\ UNCHANGED <<row, job, attempts, born, wait>> /\ Steady

\* UpdateArticleStatus "llm_done", its error ignored.
MarkDone(w) ==
  /\ At(w, "mark")
  /\ Goto(w, "cluster")
  /\ UNCHANGED table /\ Steady

\* ClusterArticle, its error ignored.
Cluster(w) ==
  /\ At(w, "cluster")
  /\ Goto(w, "complete")
  /\ UNCHANGED table /\ Steady

\* CompleteLLMJob: unconditional UPDATE.
CompleteLLMJob(w) ==
  /\ At(w, "complete")
  /\ job' = [job EXCEPT ![held[w]] = "done"]
  /\ LetGo(w)
  /\ UNCHANGED <<row, attempts, born, wait, analysed>> /\ Steady

\* Mutants of FailRow: one attempt too many, no attempt counted, and a status
\* PickLLMJob and RetryFailedLLM do not know.
FailRowAs(a, delay, count, status) ==
  /\ attempts' = [attempts EXCEPT ![a] = @ + count]
  /\ job' = [job EXCEPT ![a] = status]
  /\ wait' = [wait EXCEPT ![a] = NextRun(delay)]
  /\ rested' = [rested EXCEPT ![a] = 0]
  /\ UNCHANGED <<row, born, analysed, up, budgets, answers>>

FailRowLate(a, delay) ==
  FailRowAs(a, delay, 1, IF attempts[a] > EffectiveMax THEN "failed" ELSE "pending")
FailRowUncounted(a, delay) == FailRowAs(a, delay, 0, "pending")
FailRowUnknown(a, delay)   == FailRowAs(a, delay, 1, "error")

\* FailLLMJob: one UPDATE counts the attempt, decides between failed and
\* pending, and moves next_run_at.
FailRow(a, delay) ==
  /\ attempts' = [attempts EXCEPT ![a] = @ + 1]
  /\ job' = [job EXCEPT ![a] = IF attempts[a] + 1 >= EffectiveMax
                               THEN "failed" ELSE "pending"]
  /\ wait' = [wait EXCEPT ![a] = NextRun(delay)]
  /\ rested' = [rested EXCEPT ![a] = 0]
  /\ UNCHANGED <<row, born, analysed, up, budgets, answers>>

FailLLMJob(w) ==
  /\ At(w, "fail")
  /\ FailRow(held[w], Backoff(attempts[held[w]]))
  /\ LetGo(w)

\* Mutant of ExpireLLMJob: the status is updated, the job is forgotten.
ExpireForgotten(w) ==
  /\ At(w, "expire")
  /\ Goto(w, "stale")
  /\ UNCHANGED table /\ Steady

\* An outdated article fails with backoff 0 ...
ExpireLLMJob(w) ==
  /\ At(w, "expire")
  /\ FailRow(held[w], 0)
  /\ Goto(w, "stale")

\* ... and then has its status set to "outdated", the job no longer its own.
MarkOutdated(w) ==
  /\ At(w, "stale")
  /\ LetGo(w)
  /\ UNCHANGED table /\ Steady

Work(w) ==
  \/ Pick(w) \/ CheckAnalysis(w) \/ LoadArticle(w)
  \/ CallAnswers(w) \/ CallFails(w) \/ SaveAnalysis(w)
  \/ MarkDone(w) \/ Cluster(w) \/ CompleteLLMJob(w)
  \/ FailLLMJob(w) \/ ExpireLLMJob(w) \/ MarkOutdated(w)

-----------------------------------------------------------------------------
(* What goes wrong around the workers.                                     *)

SpendDbError ==
  /\ dbErrors < MaxDbErrors
  /\ dbErrors' = dbErrors + 1
  /\ UNCHANGED <<table, up, stops, retries, answers, rested>>

\* HasAnalysis, GetArticle or SaveAnalysis fails: the job is failed instead.
StoreError(w) ==
  /\ pc[w] \in {"check", "load", "save"} /\ w[1] \in up
  /\ Goto(w, "fail")
  /\ SpendDbError

\* CompleteLLMJob or FailLLMJob fails: the worker drops the job as it is.
GiveBackError(w) ==
  /\ pc[w] \in {"complete", "fail"} /\ w[1] \in up
  /\ LetGo(w)
  /\ SpendDbError

\* FailLLMJob fails for an outdated article: the status is updated anyway.
ExpireError(w) ==
  /\ At(w, "expire")
  /\ Goto(w, "stale")
  /\ SpendDbError

\* SIGTERM or a crash. Once the context is cancelled every store call of the
\* process returns an error that ProcessOne ignores, so both end the same way.
Stop(p) ==
  /\ p \in up
  /\ stops < MaxStops
  /\ stops' = stops + 1
  /\ up' = up \ {p}
  /\ pc' = [w \in Workers |-> IF w[1] = p THEN "idle" ELSE pc[w]]
  /\ held' = [w \in Workers |-> IF w[1] = p THEN None ELSE held[w]]
  /\ UNCHANGED <<table, dbErrors, retries, answers, rested>>

\* Mutant of Start: every running job is queued again, whoever runs it.
StartRequeues(p) ==
  /\ p \notin up
  /\ up' = up \cup {p}
  /\ job' = [a \in Articles |-> IF job[a] = "running" THEN "pending" ELSE job[a]]
  /\ UNCHANGED <<row, attempts, born, wait, analysed, pc, held, budgets, answers, rested>>

\* Start does not look at the jobs a former process left running.
Start(p) ==
  /\ p \notin up
  /\ up' = up \cup {p}
  /\ UNCHANGED <<table, pc, held, budgets, answers, rested>>

\* Mutant of RetryFailedLLM: jobs that run are reset too.
RetryUnfinished ==
  /\ retries < MaxRetries
  /\ retries' = retries + 1
  /\ job' = [a \in Articles |-> IF job[a] \in {"failed", "running"} THEN "pending" ELSE job[a]]
  /\ UNCHANGED <<row, attempts, born, wait, analysed, pc, held, up, dbErrors, stops, answers,
                 rested>>

\* RetryFailedLLM: every failed job becomes due; attempts keep their count.
RetryFailedLLM ==
  /\ retries < MaxRetries
  /\ \E a \in Articles : job[a] = "failed"
  /\ retries' = retries + 1
  /\ job' = [a \in Articles |-> IF job[a] = "failed" THEN "pending" ELSE job[a]]
  /\ wait' = [a \in Articles |-> IF job[a] = "failed" THEN 0 ELSE wait[a]]
  /\ rested' = [a \in Articles |-> IF job[a] = "failed" THEN LongRest ELSE rested[a]]
  /\ UNCHANGED <<row, attempts, born, analysed, pc, held, up, dbErrors, stops, answers>>

\* Time passes while some job waits for its next_run_at.
Tick ==
  /\ \E a \in Articles : job[a] = "pending" /\ wait[a] > 0
  /\ wait' = [a \in Articles |-> MaxOf(0, wait[a] - 1)]
  /\ rested' = [a \in Articles |-> IF rested[a] < LongRest THEN rested[a] + 1 ELSE rested[a]]
  /\ UNCHANGED <<row, job, attempts, born, analysed, pc, held, up, budgets, answers>>

-----------------------------------------------------------------------------
Next ==
  \/ \E a \in Articles, kind \in {"fresh", "outdated"} : InsertArticle(a, kind)
  \/ \E a \in Articles : EnqueueLLMJob(a)
  \/ \E w \in Workers : Work(w) \/ StoreError(w) \/ GiveBackError(w) \/ ExpireError(w)
  \/ \E p \in Procs : Stop(p) \/ Start(p)
  \/ RetryFailedLLM
  \/ Tick

Spec == Init /\ [][Next]_vars

\* Each worker goroutine keeps looping while its process runs, a stopped
\* process is started again, and time passes. Nothing obliges the crawler,
\* the administrator, an error or a shutdown to happen.
Fairness ==
  /\ \A w \in Workers : WF_vars(Work(w))
  /\ \A p \in Procs : WF_vars(Start(p))
  /\ WF_vars(Tick)

FairSpec == Spec /\ Fairness

-----------------------------------------------------------------------------
(* What the queue promises.                                                *)

Owns(w, a)  == pc[w] \in Owning /\ held[w] = a
Orphan(a)   == job[a] = "running" /\ \A w \in Workers : ~Owns(w, a)

\* A worker that holds a job is the only one that holds it, and the table says
\* the job is running: PickLLMJob hands a job to one worker at a time, and no
\* unguarded CompleteLLMJob, FailLLMJob or RetryFailedLLM of another actor ever
\* changes a job under the worker that works on it.
SoleOwner ==
  /\ \A w \in Workers : pc[w] \in Owning => job[held[w]] = "running"
  /\ \A v, w \in Workers : v # w /\ pc[v] \in Owning /\ pc[w] \in Owning => held[v] # held[w]

\* The one-call rule: no worker is on its way to the LLM with an article whose
\* analysis is stored. HasAnalysis is read two statements before the call, so
\* this rests on nobody saving an analysis for a job somebody else holds.
NoCallAfterAnalysis ==
  \A w \in Workers : pc[w] \in {"load", "call", "save"} => held[w] \notin analysed

\* A job is done only when its analysis is stored, and the job of an analysed
\* article is never pending or failed again, whatever errors, shutdowns and
\* administrator retries come between SaveAnalysis and CompleteLLMJob.
AnalysisAndJobAgree ==
  \A a \in Articles :
    /\ job[a] = "done" => a \in analysed
    /\ a \in analysed => job[a] \in {"running", "done"}

\* A job fails for good only with its attempts used up, and an administrator's
\* RetryFailedLLM, which leaves attempts alone, buys a single further attempt.
AttemptsBounded ==
  \A a \in Articles :
    /\ job[a] = "failed" => attempts[a] >= EffectiveMax
    /\ attempts[a] <= EffectiveMax + retries

\* The LLM answers an article usefully once; a second answer is paid for only
\* when the answer was in hand and the store call that should keep it failed.
RepeatedAnswersPaid == \A a \in Articles : answers[a] <= 1 + dbErrors

\* Jobs stay running with no worker only because a store call failed or
\* because their process stopped, at most one job for each worker it had.
OrphansAccounted ==
  Cardinality({a \in Articles : Orphan(a)}) <= dbErrors + stops * Cardinality(Slots)

\* A failed call is retried after its backoff and not before. next_run_at is
\* local-time text compared with UTC text, so this depends on the time zone.
BackoffRespected ==
  [][\A a \in Articles :
       job[a] = "pending" /\ job'[a] = "running" /\ row[a] = "fresh" /\ attempts[a] > 0
         => rested[a] >= Backoff(attempts[a] - 1)]_vars

\* Every job that waits or runs is done or failed in the end.
JobsSettle ==
  \A a \in Articles : job[a] \in {"pending", "running"} ~> job[a] \in {"done", "failed"}

\* The same under failures: the only other end is a job left running.
JobsSettleOrOrphan ==
  \A a \in Articles : job[a] = "pending" ~> (job[a] \in {"done", "failed"} \/ Orphan(a))
=============================================================================

----------------------------- MODULE CrawlPool ------------------------------
(***************************************************************************)
(* One call of CrawlOnce: a loop that starts one goroutine per selected    *)
(* source under the counting semaphore sem, collects the goroutines'       *)
(* results in the buffered channel errCh, fills the semaphore to wait for  *)
(* the last of them, closes the channel and reads it out. Each goroutine   *)
(* runs crawlSource, which keeps the source's row in source_runs.          *)
(***************************************************************************)
EXTENDS Integers, FiniteSets

CONSTANTS
  Sources,     \* ListEnabledSources
  Selected,    \* the sources onlySource lets through
  Supported,   \* the sources whose type has an adapter
  MaxParallel  \* cfg.Crawler.MaxParallelSources

ASSUME PoolAssumption ==
  /\ IsFiniteSet(Sources)
  /\ Selected \subseteq Sources
  /\ Supported \subseteq Sources
  /\ MaxParallel \in Int

VARIABLES
  phase,    \* of CrawlOnce: "spawn", "drain", "report", "returned"
  todo,     \* selected sources the loop has not reached
  sem,      \* tokens in the semaphore
  drained,  \* tokens the drain loop has put in
  routine,  \* per source: next step of its goroutine
  result,   \* per source: does crawlSource return an error
  errCh,    \* sources whose result is in the channel
  closed,   \* errCh is closed
  logged,   \* sources whose error CrawlOnce logged
  run       \* source_runs.status of this call's row

vars == <<phase, todo, sem, drained, routine, result, errCh, closed, logged, run>>

Cap   == IF MaxParallel >= 1 THEN MaxParallel ELSE 1
\* Mutant of ErrCap: room for the running goroutines only.
ErrCapSmall == Cap

ErrCap == Cardinality(Sources)

Crawling == {"create", "fetch", "finish", "send", "release"}
Alive    == {s \in Sources : routine[s] \in Crawling}

TypeOK ==
  /\ phase \in {"spawn", "drain", "report", "returned"}
  /\ todo \in SUBSET Selected
  /\ sem \in 0..Cap
  /\ drained \in 0..Cap
  /\ routine \in [Sources -> Crawling \cup {"unborn", "gone"}]
  /\ result \in [Sources -> {"nil", "err"}]
  /\ errCh \in SUBSET Sources
  /\ closed \in BOOLEAN
  /\ logged \in SUBSET Sources
  /\ run \in [Sources -> {"none", "running", "success", "failed"}]

Init ==
  /\ phase = "spawn"
  /\ todo = Selected
  /\ sem = 0 /\ drained = 0
  /\ routine = [s \in Sources |-> "unborn"]
  /\ result = [s \in Sources |-> "nil"]
  /\ errCh = {} /\ closed = FALSE /\ logged = {}
  /\ run = [s \in Sources |-> "none"]

-----------------------------------------------------------------------------
(* The caller.                                                             *)

Caller == <<phase, todo, drained, closed, logged>>

\* Mutant of Spawn: the semaphore is taken inside the goroutine, too late.
SpawnAtOnce(s) ==
  /\ phase = "spawn" /\ s \in todo
  /\ sem' = sem + 1
  /\ todo' = todo \ {s}
  /\ routine' = [routine EXCEPT ![s] = "create"]
  /\ UNCHANGED <<phase, drained, result, errCh, closed, logged, run>>

\* sem <- struct{}{} blocks while the semaphore is full.
Spawn(s) ==
  /\ phase = "spawn" /\ s \in todo
  /\ sem < Cap
  /\ sem' = sem + 1
  /\ todo' = todo \ {s}
  /\ routine' = [routine EXCEPT ![s] = "create"]
  /\ UNCHANGED <<phase, drained, result, errCh, closed, logged, run>>

StopSpawning ==
  /\ phase = "spawn" /\ todo = {}
  /\ phase' = "drain"
  /\ UNCHANGED <<todo, sem, drained, routine, result, errCh, closed, logged, run>>

\* The drain loop takes every token there is.
Drain ==
  /\ phase = "drain" /\ drained < Cap
  /\ sem < Cap
  /\ sem' = sem + 1
  /\ drained' = drained + 1
  /\ UNCHANGED <<phase, todo, routine, result, errCh, closed, logged, run>>

\* Mutant of Close: the channel is closed without the drain.
CloseEarly ==
  /\ phase = "drain"
  /\ closed' = TRUE
  /\ phase' = "report"
  /\ UNCHANGED <<todo, sem, drained, routine, result, errCh, logged, run>>

Close ==
  /\ phase = "drain" /\ drained = Cap
  /\ closed' = TRUE
  /\ phase' = "report"
  /\ UNCHANGED <<todo, sem, drained, routine, result, errCh, logged, run>>

\* for e := range errCh: errors are logged, results are not otherwise used.
Report(s) ==
  /\ phase = "report" /\ s \in errCh
  /\ errCh' = errCh \ {s}
  /\ logged' = IF result[s] = "err" THEN logged \cup {s} ELSE logged
  /\ UNCHANGED <<phase, todo, sem, drained, routine, result, closed, run>>

Return ==
  /\ phase = "report" /\ errCh = {}
  /\ phase' = "returned"
  /\ UNCHANGED <<todo, sem, drained, routine, result, errCh, closed, logged, run>>

-----------------------------------------------------------------------------
(* A goroutine: crawlSource, then errCh <- error, then the deferred <-sem.  *)

Step(s, from, to) ==
  /\ routine[s] = from
  /\ routine' = [routine EXCEPT ![s] = to]
  /\ UNCHANGED Caller

\* CreateSourceRun; its error ends crawlSource.
CreateSourceRun(s) ==
  /\ Step(s, "create", "fetch")
  /\ run' = [run EXCEPT ![s] = "running"]
  /\ UNCHANGED <<sem, result, errCh>>

\* Mutant of CreateError: the goroutine returns without a result.
CreateErrorLost(s) ==
  /\ Step(s, "create", "release")
  /\ result' = [result EXCEPT ![s] = "err"]
  /\ UNCHANGED <<sem, errCh, run>>

CreateError(s) ==
  /\ Step(s, "create", "send")
  /\ result' = [result EXCEPT ![s] = "err"]
  /\ UNCHANGED <<sem, errCh, run>>

\* The fetch and the items behind it; an unsupported type has nothing to fetch.
Fetch(s) ==
  /\ Step(s, "fetch", "finish")
  /\ UNCHANGED <<sem, result, errCh, run>>

\* FinishSourceRun: "failed" without an adapter or after a fetch error, which
\* crawlSource does not return.
FinishSourceRun(s, status) ==
  /\ s \notin Supported => status = "failed"
  /\ Step(s, "finish", "send")
  /\ run' = [run EXCEPT ![s] = status]
  /\ UNCHANGED <<sem, result, errCh>>

FinishError(s) ==
  /\ Step(s, "finish", "send")
  /\ result' = [result EXCEPT ![s] = "err"]
  /\ UNCHANGED <<sem, errCh, run>>

\* A send on the buffered channel blocks when the buffer is full.
Send(s) ==
  /\ Step(s, "send", "release")
  /\ Cardinality(errCh) < ErrCap
  /\ errCh' = errCh \cup {s}
  /\ UNCHANGED <<sem, result, run>>

Release(s) ==
  /\ sem > 0
  /\ Step(s, "release", "gone")
  /\ sem' = sem - 1
  /\ UNCHANGED <<result, errCh, run>>

Goroutine(s) ==
  \/ CreateSourceRun(s) \/ CreateError(s) \/ Fetch(s)
  \/ \E status \in {"success", "failed"} : FinishSourceRun(s, status)
  \/ FinishError(s) \/ Send(s) \/ Release(s)

CrawlOnce ==
  \/ \E s \in Sources : Spawn(s) \/ Report(s)
  \/ StopSpawning \/ Drain \/ Close \/ Return

Done == phase = "returned" /\ UNCHANGED vars

Next == CrawlOnce \/ (\E s \in Sources : Goroutine(s)) \/ Done

Spec == Init /\ [][Next]_vars

\* The Go scheduler runs every goroutine that can run; fetches end by the HTTP
\* client's timeout.
FairSpec == Spec /\ WF_vars(CrawlOnce) /\ \A s \in Sources : WF_vars(Goroutine(s))

-----------------------------------------------------------------------------
(* What CrawlOnce promises.                                                *)

\* At most MaxParallel sources are crawled at a time, and while the last of
\* them run the tokens of the drain loop stand in for finished ones.
ParallelBounded == Cardinality(Alive) <= Cap - drained

\* No goroutine can meet a closed channel: a send would panic and end the
\* process. errCh is closed after the drain only, and a goroutine's token is
\* released after its send.
NoSendAfterClose ==
  closed => \A s \in Sources : routine[s] \in {"unborn", "gone"}

\* A result never waits for room in errCh, which nobody reads before all of
\* them are in; if it did, the drain would wait for it for ever.
SendHasRoom ==
  (\E s \in Sources : routine[s] = "send") => Cardinality(errCh) < ErrCap

\* When CrawlOnce returns every selected source has been crawled, whatever
\* happened to the others: its run is closed as success or failed unless its
\* own store call failed, and exactly those failures were logged.
NoSourceLeftBehind ==
  phase = "returned" =>
    /\ \A s \in Selected :
         /\ routine[s] = "gone"
         /\ run[s] \in {"success", "failed"} \/ (result[s] = "err" /\ s \in logged)
    /\ logged = {s \in Selected : result[s] = "err"}

\* CrawlOnce returns: neither the full semaphore nor a failing source stops it.
CrawlReturns == <>(phase = "returned")
=============================================================================

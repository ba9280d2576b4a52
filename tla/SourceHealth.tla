---------------------------- MODULE SourceHealth ----------------------------
(***************************************************************************)
(* Calls of CrawlOnce side by side: a server starts one when it comes up,  *)
(* one for each tick of its scheduler and one for each POST crawl-once, and*)
(* finnews crawl once is a process with a single call. They share the      *)
(* table source_runs and nothing else. ListSourceHealth shows of each      *)
(* source the row that was started last.                                   *)
(*                                                                         *)
(* Rows are never deleted and started_at never falls, so a row below the   *)
(* shown one is not shown again: kept of the table are the shown row of    *)
(* each source and the rows that goroutines are still to close. What a     *)
(* single call does inside is in CrawlPool.                                *)
(***************************************************************************)
EXTENDS Integers, FiniteSets

CONSTANTS
  Sources,      \* the sources ListEnabledSources returns
  Servers,      \* finnews server processes
  Requests,     \* POST crawl-once requests a server works on at a time
  Commands,     \* finnews crawl once processes
  MaxParallel,  \* cfg.Crawler.MaxParallelSources
  RunOnStartup, \* cfg.Crawler.RunOnStartup
  None,
  MaxTroubles   \* bound: processes that stop and store calls that fail

Calls == (Servers \X ({"startup", "ticker"} \cup Requests)) \cup (Commands \X {"command"})

ASSUME HealthAssumption ==
  /\ IsFiniteSet(Sources) /\ IsFiniteSet(Calls)
  /\ Servers \cap Commands = {}
  /\ None \notin Calls
  /\ MaxParallel \in Int
  /\ RunOnStartup \in BOOLEAN
  /\ MaxTroubles \in Nat

VARIABLES
  up,      \* processes that run
  due,     \* per server: a tick waits in the ticker's channel
  todo,    \* per call: selected sources whose run is not created yet
  open,    \* per call: sources whose run its goroutines will close
  status,  \* per source: source_runs.status of the row shown
  writer,  \* per source: the call whose goroutine will close that row
  recent,  \* sources whose shown row was started in this second
  orphans, \* rows left "running" that no goroutine will close
  cut,     \* calls that ended with their process
  stops, faults

table == <<status, writer, recent, orphans>>
vars  == <<up, due, todo, open, table, cut, stops, faults>>

Procs == Servers \cup Commands
Limit == IF MaxParallel >= 1 THEN MaxParallel ELSE 1

HealthTypeOK ==
  /\ up \in SUBSET Procs
  /\ due \in [Servers -> BOOLEAN]
  /\ todo \in [Calls -> SUBSET Sources]
  /\ open \in [Calls -> SUBSET Sources]
  /\ status \in [Sources -> {"none", "running", "success", "failed"}]
  /\ writer \in [Sources -> Calls \cup {None}]
  /\ recent \in SUBSET Sources
  /\ orphans \in Nat /\ cut \in Nat
  /\ stops \in Nat /\ faults \in Nat /\ stops + faults <= MaxTroubles

Init ==
  /\ up = {}
  /\ due = [p \in Servers |-> FALSE]
  /\ todo = [c \in Calls |-> {}]
  /\ open = [c \in Calls |-> {}]
  /\ status = [s \in Sources |-> "none"]
  /\ writer = [s \in Sources |-> None]
  /\ recent = {}
  /\ orphans = 0 /\ cut = 0 /\ stops = 0 /\ faults = 0

Over(c) == todo[c] = {} /\ open[c] = {}
Of(p)   == {c \in Calls : c[1] = p}

Fault == stops + faults < MaxTroubles /\ faults' = faults + 1

-----------------------------------------------------------------------------
(* Calls begin.                                                            *)

\* CrawlOnce reads the enabled sources; its error is dropped by every caller
\* but the command, which ends either way.
Begin(c, selected) ==
  /\ Over(c)
  /\ \/ todo' = [todo EXCEPT ![c] = selected] /\ UNCHANGED faults
     \/ Fault /\ UNCHANGED todo
  /\ UNCHANGED <<open, table, cut, stops>>

\* StartScheduler; NewTicker starts with an empty channel.
Start(p) ==
  /\ p \notin up
  /\ up' = up \cup {p}
  /\ due' = [due EXCEPT ![p] = FALSE]
  /\ IF RunOnStartup THEN Begin(<<p, "startup">>, Sources)
     ELSE UNCHANGED <<todo, open, table, cut, stops, faults>>

\* The channel holds one tick, further ones are dropped. A tick is minutes
\* after the one before, so no row of theirs is from the same second.
Tick(p) ==
  /\ p \in up
  /\ due' = [due EXCEPT ![p] = TRUE]
  /\ recent' = {}
  /\ UNCHANGED <<up, todo, open, status, writer, orphans, cut, stops, faults>>

\* The scheduler's goroutine takes a tick when the call before has returned.
TickerCrawl(p) ==
  /\ p \in up /\ due[p]
  /\ due' = [due EXCEPT ![p] = FALSE]
  /\ Begin(<<p, "ticker">>, Sources)
  /\ UNCHANGED up

\* onlySource is a source key, or empty for all.
Selections == {Sources} \cup {{s} : s \in Sources}

CrawlRequest(p, r) ==
  /\ p \in up
  /\ \E selected \in Selections : Begin(<<p, r>>, selected)
  /\ UNCHANGED <<up, due>>

Command(p) ==
  /\ p \notin up
  /\ up' = up \cup {p}
  /\ \E selected \in Selections : Begin(<<p, "command">>, selected)
  /\ UNCHANGED due

Exit(p) ==
  /\ p \in up /\ Over(<<p, "command">>)
  /\ up' = up \ {p}
  /\ UNCHANGED <<due, todo, open, table, cut, stops, faults>>

-----------------------------------------------------------------------------
(* The goroutines of a call. The loop's step that starts one under the     *)
(* semaphore and its CreateSourceRun are one step here, as are its          *)
(* FinishSourceRun and the release: nobody sees the store in between.       *)

Closes(c, s) == s \in open[c] /\ open' = [open EXCEPT ![c] = @ \ {s}]

\* Mutant of Spawn: the semaphore is taken inside the goroutine.
SpawnAtOnce(c, s) ==
  /\ s \in todo[c]
  /\ todo' = [todo EXCEPT ![c] = @ \ {s}]

Spawn(c, s) ==
  /\ s \in todo[c]
  /\ Cardinality(open[c]) < Limit
  /\ todo' = [todo EXCEPT ![c] = @ \ {s}]

\* Mutant of CreateSourceRun: a source whose last run is open is left alone.
CreateUnlessRunning(c, s) ==
  /\ Spawn(c, s)
  /\ IF status[s] = "running"
     THEN UNCHANGED <<open, status, writer, recent>>
     ELSE /\ open' = [open EXCEPT ![c] = @ \cup {s}]
          /\ status' = [status EXCEPT ![s] = "running"]
          /\ writer' = [writer EXCEPT ![s] = c]
          /\ recent' = recent \cup {s}
  /\ UNCHANGED <<up, due, orphans, cut, stops, faults>>

\* started_at is CURRENT_TIMESTAMP, of one second: among rows of one second
\* either may be the one ListSourceHealth finds.
CreateSourceRun(c, s) ==
  /\ Spawn(c, s)
  /\ open' = [open EXCEPT ![c] = @ \cup {s}]
  /\ \/ /\ status' = [status EXCEPT ![s] = "running"]
        /\ writer' = [writer EXCEPT ![s] = c]
        /\ recent' = recent \cup {s}
     \/ s \in recent /\ UNCHANGED <<status, writer, recent>>
  /\ UNCHANGED <<up, due, orphans, cut, stops, faults>>

CreateError(c, s) ==
  /\ Spawn(c, s)
  /\ Fault
  /\ UNCHANGED <<up, due, open, table, cut, stops>>

\* Mutant of FinishSourceRun: the row is addressed by its source.
FinishBySource(c, s, result) ==
  /\ Closes(c, s)
  /\ status' = [status EXCEPT ![s] = result]
  /\ writer' = [writer EXCEPT ![s] = IF @ = c THEN None ELSE @]
  /\ UNCHANGED <<up, due, todo, recent, orphans, cut, stops, faults>>

\* Mutant of FinishSourceRun: a failed run gets the status of a warning.
FinishPartial(c, s, result) ==
  /\ Closes(c, s)
  /\ status' = [status EXCEPT ![s] = IF result = "failed" THEN "partial" ELSE result]
  /\ writer' = [writer EXCEPT ![s] = IF @ = c THEN None ELSE @]
  /\ UNCHANGED <<up, due, todo, recent, orphans, cut, stops, faults>>

\* The row is addressed by its id, shown or not.
FinishSourceRun(c, s, result) ==
  /\ Closes(c, s)
  /\ status' = [status EXCEPT ![s] = IF writer[s] = c THEN result ELSE @]
  /\ writer' = [writer EXCEPT ![s] = IF @ = c THEN None ELSE @]
  /\ UNCHANGED <<up, due, todo, recent, orphans, cut, stops, faults>>

FinishError(c, s) ==
  /\ Closes(c, s)
  /\ Fault
  /\ writer' = [writer EXCEPT ![s] = IF @ = c THEN None ELSE @]
  /\ orphans' = orphans + 1
  /\ UNCHANGED <<up, due, todo, status, recent, cut, stops>>

Work(c) ==
  \E s \in Sources :
    \/ CreateSourceRun(c, s) \/ CreateError(c, s)
    \/ \E result \in {"success", "failed"} : FinishSourceRun(c, s, result)
    \/ FinishError(c, s)

-----------------------------------------------------------------------------
(* A process ends with all its calls. On a signal the store calls of the   *)
(* scheduler fail a little earlier, by its context, than those of requests,*)
(* whose context is not cancelled; what these still do comes first here.   *)

Stop(p) ==
  /\ p \in up
  /\ stops + faults < MaxTroubles /\ stops' = stops + 1
  /\ up' = up \ {p}
  /\ todo' = [c \in Calls |-> IF c \in Of(p) THEN {} ELSE todo[c]]
  /\ open' = [c \in Calls |-> IF c \in Of(p) THEN {} ELSE open[c]]
  /\ writer' = [s \in Sources |-> IF writer[s] \in Of(p) THEN None ELSE writer[s]]
  /\ orphans' = orphans + Cardinality({cs \in Of(p) \X Sources : cs[2] \in open[cs[1]]})
  /\ cut' = cut + Cardinality({c \in Of(p) : ~Over(c)})
  /\ UNCHANGED <<due, status, recent, faults>>

Serve(p) == Tick(p) \/ TickerCrawl(p) \/ \E r \in Requests : CrawlRequest(p, r)

Next ==
  \/ \E p \in Servers : Start(p) \/ Serve(p)
  \/ \E p \in Commands : Command(p) \/ Exit(p)
  \/ \E c \in Calls : Work(c)
  \/ \E p \in Procs : Stop(p)

Spec == Init /\ [][Next]_vars

\* A supervisor starts a server again, ticks come while it is up, its loop
\* takes them, and goroutines run on: a fetch ends by the HTTP client's timeout.
Fairness ==
  /\ \A p \in Servers : WF_vars(Start(p)) /\ WF_vars(Tick(p)) /\ WF_vars(TickerCrawl(p))
  /\ \A c \in Calls : WF_vars(Work(c))

FairSpec == Spec /\ Fairness

-----------------------------------------------------------------------------
(* What the health of a source can be trusted for.                         *)

\* ListSourceHealth; no code writes the status "partial".
Health(s) ==
  [none |-> "unknown", success |-> "ok", running |-> "running",
   failed |-> "error"][status[s]]

Starts(s) == \E c \in Calls : s \in open'[c] \ open[c]

\* A result that is shown stays until a run that started later takes its place:
\* a call that was overtaken by another closes its own row and does not bring
\* its older result back.
ResultStays ==
  [][\A s \in Sources :
       Health(s) \in {"ok", "error"} => Health(s)' = Health(s) \/ Starts(s)]_vars

\* Rows that stay "running" for ever are few: one for each failed store call,
\* and for each call a stopped process was in, at most as many as it crawls
\* sources in parallel.
OrphansBounded == orphans <= faults + Limit * cut

\* The row shown says "running" and nobody runs.
Stranded(s) == status[s] = "running" /\ writer[s] = None

\* Nothing repairs such a row, but it does not stay on display: while a server
\* is started again whenever it stops, a later run takes its place.
StrandedSuperseded == \A s \in Sources : Stranded(s) ~> ~Stranded(s)
=============================================================================

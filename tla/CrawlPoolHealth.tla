-------------------------- MODULE CrawlPoolHealth ---------------------------
(***************************************************************************)
(* The call of CrawlOnce in CrawlPool seen from the table source_runs: it  *)
(* is the command's call of SourceHealth. A goroutine counts there from    *)
(* its CreateSourceRun to its FinishSourceRun, a failed store call as a    *)
(* fault; semaphore, drain and error channel are hidden.                   *)
(***************************************************************************)
EXTENDS CrawlPool

CONSTANTS
  Process \* that makes the call

Call     == <<Process, "command">>
Waiting  == todo \cup {s \in Sources : routine[s] = "create"}
InRun    == {s \in Sources : routine[s] \in {"fetch", "finish"}}
Failing  == {s \in Sources : result[s] = "err"}
LeftOpen == {s \in Sources : result[s] = "err" /\ run[s] = "running"}

Writers  == [s \in Sources |-> IF s \in InRun THEN Call ELSE "none"]
HaveRun  == {s \in Sources : run[s] # "none"}

Health == INSTANCE SourceHealth WITH
  Servers <- {}, Requests <- {}, Commands <- {Process},
  RunOnStartup <- FALSE, None <- "none", MaxTroubles <- Cardinality(Sources),
  up      <- {Process},
  due     <- [p \in {} |-> FALSE],
  todo    <- [c \in {Call} |-> Waiting],
  open    <- [c \in {Call} |-> InRun],
  status  <- run,
  writer  <- Writers,
  recent  <- HaveRun,
  orphans <- Cardinality(LeftOpen),
  faults  <- Cardinality(Failing),
  cut <- 0, stops <- 0

\* Each step of the pool is a step of SourceHealth or none at all: a run is
\* created while fewer than MaxParallelSources are open, whatever tokens the
\* drain loop holds, and closed by its own goroutine, once or by an error.
KeepsHealth == [][Health!Next]_Health!vars
=============================================================================

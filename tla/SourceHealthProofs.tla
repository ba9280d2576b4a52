------------------------- MODULE SourceHealthProofs -------------------------
(***************************************************************************)
(* What the health of sources can be trusted for, with any number of       *)
(* servers, commands, requests and sources. The argument is who closes a   *)
(* row: the row shown is running as long as its call has it open, no call  *)
(* opens a source it has open, and none has more open than its limit.      *)
(***************************************************************************)
EXTENDS SourceHealth, FiniteSetTheorems, TLAPS

\* The goroutine that will close a shown row belongs to the call that has the
\* source open, and until then the row says "running".
WriterRuns ==
  \A s \in Sources :
    writer[s] # None => status[s] = "running" /\ s \in open[writer[s]]

\* A call takes each source once, and leaves room in its semaphore.
OpenedOnce ==
  \A c \in Calls : todo[c] \cap open[c] = {} /\ Cardinality(open[c]) <= Limit

HealthInv == HealthTypeOK /\ WriterRuns /\ OpenedOnce

-----------------------------------------------------------------------------
LEMMA LimitIsPositive == Limit \in Nat /\ Limit >= 1
BY HealthAssumption DEF Limit

LEMMA CallsOfProcesses ==
  /\ \A p \in Servers : <<p, "startup">> \in Calls /\ <<p, "ticker">> \in Calls
  /\ \A p \in Servers, r \in Requests : <<p, r>> \in Calls
  /\ \A p \in Commands : <<p, "command">> \in Calls
BY DEF Calls

LEMMA OpenIsFinite ==
  ASSUME HealthTypeOK, NEW c \in Calls
  PROVE  IsFiniteSet(open[c]) /\ Cardinality(open[c]) \in Nat
<1>1. open[c] \in SUBSET Sources
  BY DEF HealthTypeOK
<1> QED BY <1>1, HealthAssumption, FS_Subset, FS_CardinalityType

\* The rows a stop leaves open, and the calls it cuts.
Cut(p)  == {c \in Of(p) : ~Over(c)}
Left(p) == {cs \in Of(p) \X Sources : cs[2] \in open[cs[1]]}

LEMMA CutIsFinite ==
  ASSUME NEW p
  PROVE  IsFiniteSet(Cut(p)) /\ Cardinality(Cut(p)) \in Nat
<1>1. Cut(p) \in SUBSET Calls
  BY DEF Cut, Of
<1> QED BY <1>1, HealthAssumption, FS_Subset, FS_CardinalityType

\* Each call that is cut leaves at most Limit rows: numbering the rows of each
\* call maps them one to one into Cut(p) \X 1..Limit.
LEMMA FewLeft ==
  ASSUME HealthInv, NEW p
  PROVE  /\ Cardinality(Left(p)) \in Nat
         /\ Cardinality(Left(p)) <= Limit * Cardinality(Cut(p))
<1> DEFINE Places == Cut(p) \X (1..Limit)
           Number(c) == CHOOSE g \in [open[c] -> 1..Limit] :
                          \A s, t \in open[c] : g[s] = g[t] => s = t
           f == [cs \in Left(p) |-> <<cs[1], Number(cs[1])[cs[2]]>>]
<1>1. ASSUME NEW c \in Calls
      PROVE  \E g \in [open[c] -> 1..Limit] : \A s, t \in open[c] : g[s] = g[t] => s = t
  <2> DEFINE n == Cardinality(open[c])
  <2>1. n \in Nat /\ n <= Limit /\ IsFiniteSet(1..n) /\ Cardinality(1..n) = n
    BY OpenIsFinite, FS_Interval DEF HealthInv, OpenedOnce
  <2>2. ExistsBijection(open[c], 1..n)
    BY <2>1, OpenIsFinite, FS_SameCardinalityBij DEF HealthInv
  <2>3. PICK g : g \in Bijection(open[c], 1..n)
    BY <2>2 DEF ExistsBijection
  <2>4. g \in [open[c] -> 1..n] /\ \A s, t \in open[c] : g[s] = g[t] => s = t
    BY <2>3 DEF Bijection, Injection, IsInjective
  <2>5. 1..n \subseteq 1..Limit
    BY <2>1, LimitIsPositive
  <2> QED BY <2>4, <2>5
<1>2. \A c \in Calls : /\ Number(c) \in [open[c] -> 1..Limit]
                       /\ \A s, t \in open[c] : Number(c)[s] = Number(c)[t] => s = t
  BY <1>1
<1>3. \A cs \in Left(p) : /\ cs[1] \in Cut(p) /\ cs[1] \in Calls /\ cs[2] \in open[cs[1]]
                          /\ cs = <<cs[1], cs[2]>>
  BY DEF Left, Cut, Of, Over
<1> HIDE DEF Number
<1>4. f \in [Left(p) -> Places]
  <2>1. \A cs \in Left(p) : <<cs[1], Number(cs[1])[cs[2]]>> \in Places
    BY <1>2, <1>3
  <2> QED BY <2>1
<1>5. \A x, y \in Left(p) : f[x] = f[y] => x = y
  <2> SUFFICES ASSUME NEW x \in Left(p), NEW y \in Left(p), f[x] = f[y] PROVE x = y
    OBVIOUS
  <2>1. x[1] = y[1] /\ Number(x[1])[x[2]] = Number(y[1])[y[2]]
    OBVIOUS
  <2>2. x[2] = y[2]
    BY <1>2, <1>3, <2>1
  <2> QED BY <1>3, <2>1, <2>2
<1>6. f \in Injection(Left(p), Places)
  BY <1>4, <1>5 DEF Injection, IsInjective
<1>7. /\ IsFiniteSet(1..Limit) /\ Cardinality(1..Limit) = Limit
      /\ IsFiniteSet(Places) /\ Cardinality(Places) = Cardinality(Cut(p)) * Limit
  <2>1. IsFiniteSet(1..Limit) /\ Cardinality(1..Limit) = Limit
    BY LimitIsPositive, FS_Interval
  <2> QED BY <2>1, CutIsFinite, FS_Product
<1>8. IsFiniteSet(Left(p)) /\ Cardinality(Left(p)) <= Cardinality(Places)
  BY <1>6, <1>7, FS_Injection
<1> QED BY <1>7, <1>8, FS_CardinalityType, CutIsFinite, LimitIsPositive

-----------------------------------------------------------------------------
LEMMA InitEstablishes == Init => HealthInv
<1> SUFFICES ASSUME Init PROVE HealthInv
  OBVIOUS
<1>1. HealthTypeOK
  BY HealthAssumption DEF Init, HealthTypeOK
<1>2. WriterRuns
  BY DEF Init, WriterRuns
<1>3. OpenedOnce
  BY FS_EmptySet, LimitIsPositive DEF Init, OpenedOnce
<1> QED BY <1>1, <1>2, <1>3 DEF HealthInv

\* A new call starts with nothing open.
LEMMA BeginStep ==
  ASSUME HealthInv, NEW c \in Calls, NEW selected \in SUBSET Sources, Begin(c, selected)
  PROVE  /\ todo' \in [Calls -> SUBSET Sources]
         /\ faults' \in Nat /\ stops' \in Nat /\ stops' + faults' <= MaxTroubles
         /\ faults' >= faults
         /\ UNCHANGED <<open, table, cut>>
         /\ OpenedOnce'
<1> USE DEF HealthInv, HealthTypeOK
<1>1. /\ todo' \in [Calls -> SUBSET Sources] /\ UNCHANGED <<open, table, cut>>
      /\ faults' \in Nat /\ stops' \in Nat /\ stops' + faults' <= MaxTroubles
      /\ faults' >= faults
  BY HealthAssumption DEF Begin, Fault
<1>2. \A d \in Calls : todo'[d] = todo[d] \/ open[d] = {}
  BY DEF Begin, Over
<1>3. OpenedOnce'
  BY <1>1, <1>2 DEF OpenedOnce
<1> QED BY <1>1, <1>3

LEMMA ProcessStep ==
  ASSUME HealthInv,
         \/ \E p \in Servers : Start(p) \/ Serve(p)
         \/ \E p \in Commands : Command(p) \/ Exit(p)
  PROVE  HealthInv' /\ cut' = cut /\ orphans' = orphans /\ faults' >= faults
<1> USE DEF HealthInv, HealthTypeOK
<1> USE CallsOfProcesses DEF Procs
<1>1. ASSUME NEW p \in Servers, Start(p)
      PROVE  HealthInv' /\ cut' = cut /\ orphans' = orphans /\ faults' >= faults
  <2>1. up' \in SUBSET Procs /\ due' \in [Servers -> BOOLEAN]
    BY <1>1 DEF Start
  <2>2. CASE RunOnStartup
    BY <1>1, <2>1, <2>2, BeginStep DEF Start, table, WriterRuns
  <2>3. CASE ~RunOnStartup
    BY <1>1, <2>1, <2>3 DEF Start, table, WriterRuns, OpenedOnce
  <2> QED BY <2>2, <2>3
<1>2. ASSUME NEW p \in Servers, Tick(p)
      PROVE  HealthInv' /\ cut' = cut /\ orphans' = orphans /\ faults' >= faults
  BY <1>2 DEF Tick, WriterRuns, OpenedOnce
<1>3. ASSUME NEW p \in Servers, TickerCrawl(p)
      PROVE  HealthInv' /\ cut' = cut /\ orphans' = orphans /\ faults' >= faults
  <2>1. due' \in [Servers -> BOOLEAN] /\ up' = up /\ Begin(<<p, "ticker">>, Sources)
    BY <1>3 DEF TickerCrawl
  <2> QED BY <2>1, BeginStep DEF table, WriterRuns
<1>4. ASSUME NEW p \in Servers, NEW r \in Requests, CrawlRequest(p, r)
      PROVE  HealthInv' /\ cut' = cut /\ orphans' = orphans /\ faults' >= faults
  <2>1. PICK selected \in SUBSET Sources : Begin(<<p, r>>, selected)
    BY <1>4 DEF CrawlRequest, Selections
  <2>2. up' = up /\ due' = due
    BY <1>4 DEF CrawlRequest
  <2> QED BY <2>1, <2>2, BeginStep DEF table, WriterRuns
<1>5. ASSUME NEW p \in Commands, Command(p)
      PROVE  HealthInv' /\ cut' = cut /\ orphans' = orphans /\ faults' >= faults
  <2>1. PICK selected \in SUBSET Sources : Begin(<<p, "command">>, selected)
    BY <1>5 DEF Command, Selections
  <2>2. up' \in SUBSET Procs /\ due' = due
    BY <1>5 DEF Command
  <2> QED BY <2>1, <2>2, BeginStep DEF table, WriterRuns
<1>6. ASSUME NEW p \in Commands, Exit(p)
      PROVE  HealthInv' /\ cut' = cut /\ orphans' = orphans /\ faults' >= faults
  BY <1>6 DEF Exit, table, WriterRuns, OpenedOnce
<1> QED BY <1>1, <1>2, <1>3, <1>4, <1>5, <1>6 DEF Serve

LEMMA OpenShrinks ==
  ASSUME HealthInv, NEW c \in Calls, NEW s \in Sources,
         open' = [open EXCEPT ![c] = @ \ {s}], todo' = todo
  PROVE  OpenedOnce'
<1>1. Cardinality(open[c] \ {s}) <= Limit
  <2>1. IsFiniteSet(open[c]) /\ Cardinality(open[c]) \in Nat
    BY OpenIsFinite DEF HealthInv
  <2>2. Cardinality(open[c] \ {s}) <= Cardinality(open[c]) /\ Cardinality(open[c] \ {s}) \in Nat
    BY <2>1, FS_Subset, FS_CardinalityType
  <2> QED BY <2>1, <2>2, LimitIsPositive DEF HealthInv, OpenedOnce
<1>2. \A d \in Calls : /\ todo'[d] \cap open'[d] = {}
                       /\ open'[d] = open[d] \/ (d = c /\ open'[d] = open[c] \ {s})
  BY DEF HealthInv, HealthTypeOK, OpenedOnce
<1>3. Limit' = Limit
  BY DEF Limit
<1> QED BY <1>1, <1>2, <1>3 DEF HealthInv, OpenedOnce

\* What a goroutine's step keeps, and what it shows of an earlier result.
LEMMA GoroutineStep ==
  ASSUME HealthInv, NEW c \in Calls, Work(c)
  PROVE  /\ HealthInv'
         /\ cut' = cut /\ faults' >= faults
         /\ orphans' = orphans \/ (orphans' = orphans + 1 /\ faults' = faults + 1)
         /\ \A s \in Sources :
              Health(s) \in {"ok", "error"} => Health(s)' = Health(s) \/ Starts(s)
<1> USE DEF HealthInv, HealthTypeOK
<1> DEFINE Goal == /\ HealthInv'
                   /\ cut' = cut /\ faults' >= faults
                   /\ orphans' = orphans \/ (orphans' = orphans + 1 /\ faults' = faults + 1)
                   /\ \A s \in Sources :
                        Health(s) \in {"ok", "error"} => Health(s)' = Health(s) \/ Starts(s)
<1>1. ASSUME NEW s \in Sources, CreateSourceRun(c, s)
      PROVE  Goal
  <2>1. /\ todo' \in [Calls -> SUBSET Sources] /\ open' \in [Calls -> SUBSET Sources]
        /\ status' \in [Sources -> {"none", "running", "success", "failed"}]
        /\ writer' \in [Sources -> Calls \cup {None}] /\ recent' \in SUBSET Sources
        /\ UNCHANGED <<up, due, orphans, cut, stops, faults>>
    BY <1>1 DEF CreateSourceRun, Spawn
  <2>2. WriterRuns'
    BY <1>1, HealthAssumption DEF CreateSourceRun, WriterRuns
  <2>3. OpenedOnce'
    <3>1. s \notin open[c] /\ s \in todo[c] /\ Cardinality(open[c]) < Limit
      BY <1>1 DEF CreateSourceRun, Spawn, OpenedOnce
    <3>2. Cardinality(open[c] \cup {s}) <= Limit
      <4>1. IsFiniteSet(open[c]) /\ Cardinality(open[c]) \in Nat
        BY OpenIsFinite
      <4>2. Cardinality(open[c] \cup {s}) = Cardinality(open[c]) + 1
        BY <3>1, <4>1, FS_AddElement
      <4> QED BY <3>1, <4>1, <4>2, LimitIsPositive
    <3>3. /\ todo' = [todo EXCEPT ![c] = @ \ {s}]
          /\ open' = [open EXCEPT ![c] = @ \cup {s}]
      BY <1>1 DEF CreateSourceRun, Spawn
    <3> QED BY <3>1, <3>2, <3>3 DEF OpenedOnce
  <2>4. \A t \in Sources : status'[t] = status[t] \/ Starts(t)
    <3>1. s \in open'[c] \ open[c]
      BY <1>1 DEF CreateSourceRun, Spawn, OpenedOnce
    <3>2. \A t \in Sources : t # s => status'[t] = status[t]
      BY <1>1 DEF CreateSourceRun
    <3> QED BY <3>1, <3>2 DEF Starts
  <2> QED BY <2>1, <2>2, <2>3, <2>4 DEF Health
<1>2. ASSUME NEW s \in Sources, CreateError(c, s)
      PROVE  Goal
  <2>1. /\ todo' \in [Calls -> SUBSET Sources]
        /\ todo' = [todo EXCEPT ![c] = @ \ {s}]
        /\ faults' = faults + 1 /\ stops' + faults' <= MaxTroubles
        /\ UNCHANGED <<up, due, open, table, cut, stops>>
    BY <1>2, HealthAssumption DEF CreateError, Spawn, Fault
  <2>2. OpenedOnce' /\ WriterRuns'
    BY <2>1 DEF OpenedOnce, WriterRuns, table
  <2> QED BY <2>1, <2>2 DEF table, Health
<1>3. ASSUME NEW s \in Sources, NEW result \in {"success", "failed"},
             FinishSourceRun(c, s, result)
      PROVE  Goal
  <2>1. /\ s \in open[c] /\ open' = [open EXCEPT ![c] = @ \ {s}]
        /\ status' = [status EXCEPT ![s] = IF writer[s] = c THEN result ELSE @]
        /\ writer' = [writer EXCEPT ![s] = IF @ = c THEN None ELSE @]
        /\ UNCHANGED <<up, due, todo, recent, orphans, cut, stops, faults>>
    BY <1>3 DEF FinishSourceRun, Closes
  <2>2. WriterRuns'
    BY <2>1, HealthAssumption DEF WriterRuns
  <2>3. OpenedOnce'
    BY <2>1, OpenShrinks
  <2>4. \A t \in Sources : status[t] \in {"success", "failed"} => status'[t] = status[t]
    BY <2>1, HealthAssumption DEF WriterRuns
  <2>5. \A t \in Sources : Health(t) \in {"ok", "error"} => status[t] \in {"success", "failed"}
    BY DEF Health
  <2> QED BY <2>1, <2>2, <2>3, <2>4, <2>5 DEF Health
<1>4. ASSUME NEW s \in Sources, FinishError(c, s)
      PROVE  Goal
  <2>1. /\ s \in open[c] /\ open' = [open EXCEPT ![c] = @ \ {s}]
        /\ writer' = [writer EXCEPT ![s] = IF @ = c THEN None ELSE @]
        /\ orphans' = orphans + 1 /\ faults' = faults + 1 /\ stops' + faults' <= MaxTroubles
        /\ UNCHANGED <<up, due, todo, status, recent, cut, stops>>
    BY <1>4, HealthAssumption DEF FinishError, Closes, Fault
  <2>2. WriterRuns'
    BY <2>1, HealthAssumption DEF WriterRuns
  <2>3. OpenedOnce'
    BY <2>1, OpenShrinks
  <2> QED BY <2>1, <2>2, <2>3 DEF Health
<1> QED BY <1>1, <1>2, <1>3, <1>4 DEF Work

LEMMA StopStep ==
  ASSUME HealthInv, NEW p \in Procs, Stop(p)
  PROVE  /\ HealthInv' /\ status' = status
         /\ faults' = faults /\ cut' = cut + Cardinality(Cut(p))
         /\ orphans' = orphans + Cardinality(Left(p))
<1> USE DEF HealthInv, HealthTypeOK
<1>1. /\ orphans' = orphans + Cardinality(Left(p)) /\ orphans' \in Nat
      /\ cut' = cut + Cardinality(Cut(p)) /\ cut' \in Nat
  BY FewLeft, CutIsFinite DEF Stop, Left, Cut
<1>2. /\ todo' \in [Calls -> SUBSET Sources] /\ open' \in [Calls -> SUBSET Sources]
      /\ writer' \in [Sources -> Calls \cup {None}] /\ up' \in SUBSET Procs
      /\ stops' \in Nat /\ stops' + faults <= MaxTroubles
      /\ UNCHANGED <<due, status, recent, faults>>
  BY HealthAssumption DEF Stop
<1>3. WriterRuns'
  BY HealthAssumption DEF Stop, WriterRuns, Of
<1>4. OpenedOnce'
  <2>1. \A c \in Calls : \/ todo'[c] = {} /\ open'[c] = {}
                         \/ todo'[c] = todo[c] /\ open'[c] = open[c]
    BY DEF Stop
  <2>2. Limit' = Limit /\ Limit >= 1 /\ Limit \in Nat /\ Cardinality({}) = 0
    BY FS_EmptySet, LimitIsPositive DEF Limit
  <2>3. \A c \in Calls : todo'[c] \cap open'[c] = {} /\ Cardinality(open'[c]) <= Limit
    <3> SUFFICES ASSUME NEW c \in Calls
                 PROVE  todo'[c] \cap open'[c] = {} /\ Cardinality(open'[c]) <= Limit
      OBVIOUS
    <3>1. CASE todo'[c] = {} /\ open'[c] = {}
      BY <2>2, <3>1
    <3>2. CASE todo'[c] = todo[c] /\ open'[c] = open[c]
      BY <3>2 DEF OpenedOnce
    <3> QED BY <2>1, <3>1, <3>2
  <2> QED BY <2>2, <2>3 DEF OpenedOnce
<1> QED BY <1>1, <1>2, <1>3, <1>4

-----------------------------------------------------------------------------
\* The invariant, with the bound on rows that stay running.
Bounded == orphans <= faults + Limit * cut

LEMMA Room ==
  ASSUME NEW m \in Nat, NEW n \in Nat, NEW i \in Nat, NEW j \in Nat, NEW k \in Nat,
         m <= i + k, j >= i, n = m \/ (n = m + 1 /\ j = i + 1)
  PROVE  n <= j + k
OBVIOUS

LEMMA BoundStep ==
  ASSUME HealthTypeOK, Bounded, HealthTypeOK', cut' = cut, faults' >= faults,
         orphans' = orphans \/ (orphans' = orphans + 1 /\ faults' = faults + 1)
  PROVE  Bounded'
<1> DEFINE k == Limit * cut
<1>1. /\ k \in Nat /\ orphans \in Nat /\ faults \in Nat
      /\ orphans' \in Nat /\ faults' \in Nat
  BY LimitIsPositive DEF HealthTypeOK
<1>2. Limit' * cut' = k
  BY DEF Limit
<1>3. orphans <= faults + k
  BY DEF Bounded
<1>4. orphans' <= faults' + k
  BY <1>1, <1>3, Room
<1> QED BY <1>2, <1>4 DEF Bounded

LEMMA Step ==
  ASSUME HealthInv, Bounded, [Next]_vars
  PROVE  HealthInv' /\ Bounded'
<1> USE DEF HealthInv, HealthTypeOK
<1>0. Limit' = Limit /\ Limit \in Nat /\ Limit * cut \in Nat
  BY LimitIsPositive DEF Limit
<1>1. CASE \/ \E p \in Servers : Start(p) \/ Serve(p)
           \/ \E p \in Commands : Command(p) \/ Exit(p)
  <2>1. HealthInv' /\ cut' = cut /\ orphans' = orphans /\ faults' >= faults
    BY <1>1, ProcessStep
  <2> QED BY <2>1, BoundStep
<1>2. ASSUME NEW c \in Calls, Work(c) PROVE HealthInv' /\ Bounded'
  <2>1. /\ HealthInv' /\ cut' = cut /\ faults' >= faults
        /\ orphans' = orphans \/ (orphans' = orphans + 1 /\ faults' = faults + 1)
    BY <1>2, GoroutineStep
  <2> QED BY <2>1, BoundStep
<1>3. ASSUME NEW p \in Procs, Stop(p) PROVE HealthInv' /\ Bounded'
  <2> DEFINE n == Cardinality(Cut(p))
             m == Cardinality(Left(p))
  <2>1. HealthInv' /\ faults' = faults /\ cut' = cut + n /\ orphans' = orphans + m
    BY <1>3, StopStep
  <2>2. n \in Nat /\ m \in Nat /\ m <= Limit * n
    BY CutIsFinite, FewLeft
  <2>3. Limit * (cut + n) = Limit * cut + Limit * n
    BY <1>0, <2>2
  <2> HIDE DEF n, m
  <2>4. Limit * n \in Nat
    BY <1>0, <2>2
  <2>5. orphans + m <= faults + (Limit * cut + Limit * n)
    BY <1>0, <2>2, <2>4 DEF Bounded
  <2> QED BY <1>0, <2>1, <2>3, <2>5 DEF Bounded
<1>4. CASE UNCHANGED vars
  BY <1>0, <1>4 DEF vars, table, WriterRuns, OpenedOnce, Bounded
<1> QED BY <1>1, <1>2, <1>3, <1>4 DEF Next

\* The inductive invariant: who closes the row shown, and how much a call has open.
THEOREM HealthInvariant == Spec => [](HealthInv /\ Bounded)
<1>1. Init => HealthInv /\ Bounded
  BY InitEstablishes, LimitIsPositive DEF Init, Bounded
<1>2. HealthInv /\ Bounded /\ [Next]_vars => (HealthInv /\ Bounded)'
  BY Step
<1> QED BY <1>1, <1>2, PTL DEF Spec

\* Types, for any servers, commands, requests and sources.
THEOREM HealthTypeCorrect == Spec => []HealthTypeOK
<1>1. HealthInv => HealthTypeOK
  BY DEF HealthInv
<1> QED BY <1>1, HealthInvariant, PTL

\* Failed store calls and stopped calls are all that leaves rows running, at
\* most MaxParallelSources for each call.
THEOREM OrphansAreBounded == Spec => []OrphansBounded
<1>1. Bounded => OrphansBounded
  BY DEF Bounded, OrphansBounded
<1> QED BY <1>1, HealthInvariant, PTL

\* Overlapping calls, stops and errors never bring an older result back.
THEOREM ResultsStay == Spec => ResultStays
<1> DEFINE Stays == \A s \in Sources :
                      Health(s) \in {"ok", "error"} => Health(s)' = Health(s) \/ Starts(s)
<1>1. HealthInv /\ [Next]_vars => [Stays]_vars
  <2> SUFFICES ASSUME HealthInv, [Next]_vars PROVE Stays
    OBVIOUS
  <2>1. ASSUME NEW c \in Calls, Work(c) PROVE Stays
    BY <2>1, GoroutineStep
  <2>2. ASSUME status' = status PROVE Stays
    BY <2>2 DEF Health
  <2>3. CASE UNCHANGED vars
    BY <2>2, <2>3 DEF vars, table
  <2>4. CASE \E p \in Procs : Stop(p)
    BY <2>2, <2>4, StopStep
  <2>5. CASE \/ \E p \in Servers : Start(p) \/ Serve(p)
             \/ \E p \in Commands : Command(p) \/ Exit(p)
    <3>1. status' = status
      BY <2>5 DEF Start, Serve, Tick, TickerCrawl, CrawlRequest, Command, Exit, Begin, table
    <3> QED BY <2>2, <3>1
  <2> QED BY <2>1, <2>3, <2>4, <2>5 DEF Next
<1> QED BY <1>1, HealthInvariant, PTL DEF Spec, ResultStays
=============================================================================

-------------------------- MODULE CrawlPoolProofs ---------------------------
(***************************************************************************)
(* Safety of CrawlOnce for any set of sources and any limit. The argument  *)
(* is the count of tokens: the semaphore holds one for every goroutine     *)
(* that runs and one for every turn of the drain loop, so a drain that has *)
(* put in all of them leaves no goroutine running.                         *)
(***************************************************************************)
EXTENDS CrawlPoolHealth, FiniteSetTheorems, TLAPS

TokensHeld == sem = Cardinality(Alive) + drained

BornOnce ==
  \A s \in Sources : routine[s] = "unborn" <=> (s \in todo \/ s \notin Selected)

PhaseOrder ==
  /\ phase = "spawn" => drained = 0
  /\ phase # "spawn" => todo = {}
  /\ closed <=> phase \in {"report", "returned"}
  /\ closed => drained = Cap
  /\ phase = "returned" => errCh = {}

\* Where the result of a source is: with its goroutine, in the channel, or read.
ResultKept ==
  \A s \in Sources :
    /\ s \in errCh => routine[s] \in {"release", "gone"}
    /\ routine[s] \in {"release", "gone"} /\ s \notin errCh
         => closed /\ (result[s] = "err" => s \in logged)
    /\ s \in logged => closed /\ result[s] = "err" /\ s \in Selected
    /\ routine[s] \in {"unborn", "create", "fetch", "finish"} => result[s] = "nil"
    /\ routine[s] \in {"send", "release", "gone"}
         => run[s] \in {"success", "failed"} \/ result[s] = "err"

PoolInv == TypeOK /\ TokensHeld /\ BornOnce /\ PhaseOrder /\ ResultKept

LEMMA CapIsPositive == Cap \in Nat /\ Cap >= 1
BY PoolAssumption DEF Cap

LEMMA AliveIsFinite ==
  /\ IsFiniteSet(Alive)
  /\ Cardinality(Alive) \in Nat
<1>1. Alive \in SUBSET Sources
  BY DEF Alive
<1> QED BY <1>1, PoolAssumption, FS_Subset, FS_CardinalityType

LEMMA InitEstablishes == Init => PoolInv
<1> SUFFICES ASSUME Init PROVE PoolInv
  OBVIOUS
<1>1. Alive = {}
  BY DEF Init, Alive, Crawling
<1>2. TypeOK
  <2>1. 0 \in 0..Cap
    BY CapIsPositive
  <2>2. closed \in BOOLEAN
    BY DEF Init
  <2> QED BY <2>1, <2>2 DEF Init, TypeOK, Crawling
<1>3. TokensHeld
  BY <1>1, FS_EmptySet DEF Init, TokensHeld
<1>4. BornOnce /\ PhaseOrder /\ ResultKept
  BY DEF Init, BornOnce, PhaseOrder, ResultKept
<1> QED BY <1>2, <1>3, <1>4 DEF PoolInv

\* A step of a goroutine inside crawlSource or before its release keeps the
\* count of running goroutines.
LEMMA StaysAlive ==
  ASSUME TypeOK, NEW s \in Sources,
         NEW from \in Crawling, NEW to \in Crawling, Step(s, from, to)
  PROVE  Alive' = Alive
<1>1. routine' = [routine EXCEPT ![s] = to] /\ routine[s] = from
  BY DEF Step
<1>2. \A t \in Sources : routine'[t] \in Crawling <=> routine[t] \in Crawling
  BY <1>1 DEF TypeOK
<1> QED BY <1>2 DEF Alive

\* Every goroutine is gone once the drain loop holds all tokens.
LEMMA DrainedMeansGone ==
  ASSUME PoolInv, drained = Cap
  PROVE  Alive = {}
<1>1. Cardinality(Alive) = 0
  <2>1. sem \in 0..Cap /\ sem = Cardinality(Alive) + Cap
    BY DEF PoolInv, TypeOK, TokensHeld
  <2> QED BY <2>1, CapIsPositive, AliveIsFinite
<1> QED BY <1>1, AliveIsFinite, FS_EmptySet

-----------------------------------------------------------------------------
LEMMA TokenStep ==
  ASSUME PoolInv, [Next]_vars
  PROVE  TokensHeld'
<1> USE DEF PoolInv, TokensHeld
<1>1. ASSUME NEW s \in Sources, Spawn(s)
      PROVE  TokensHeld'
  <2>1. Alive' = Alive \cup {s}
    BY <1>1 DEF Spawn, Alive, TypeOK, Crawling
  <2>2. s \notin Alive
    BY <1>1 DEF Spawn, Alive, BornOnce, Crawling
  <2>3. Cardinality(Alive') = Cardinality(Alive) + 1
    BY <2>1, <2>2, AliveIsFinite, FS_AddElement
  <2> QED BY <1>1, <2>3, AliveIsFinite DEF Spawn, TypeOK
<1>2. ASSUME NEW s \in Sources, Release(s)
      PROVE  TokensHeld'
  <2>1. Alive' = Alive \ {s} /\ s \in Alive
    BY <1>2 DEF Release, Step, Alive, TypeOK, Crawling
  <2>2. Cardinality(Alive') = Cardinality(Alive) - 1
    BY <2>1, AliveIsFinite, FS_RemoveElement
  <2> QED BY <1>2, <2>2, AliveIsFinite DEF Release, Step, Caller, TypeOK
<1>3. ASSUME NEW s \in Sources,
             \/ CreateSourceRun(s) \/ CreateError(s) \/ Fetch(s) \/ FinishError(s) \/ Send(s)
             \/ \E status \in {"success", "failed"} : FinishSourceRun(s, status)
      PROVE  TokensHeld'
  <2>1. \E from, to \in Crawling : Step(s, from, to)
    BY <1>3 DEF CreateSourceRun, CreateError, Fetch, FinishError, Send, FinishSourceRun, Crawling
  <2>2. Alive' = Alive
    BY <2>1, StaysAlive
  <2>3. UNCHANGED <<sem, drained>>
    BY <1>3 DEF CreateSourceRun, CreateError, Fetch, FinishError, Send, FinishSourceRun, Step, Caller
  <2> QED BY <2>2, <2>3
<1>4. ASSUME Drain
      PROVE  TokensHeld'
  <2>1. Alive' = Alive
    BY <1>4 DEF Drain, Alive
  <2> QED BY <1>4, <2>1, AliveIsFinite DEF Drain, TypeOK
<1>5. ASSUME UNCHANGED <<sem, drained, routine>>
      PROVE  TokensHeld'
  <2>1. Alive' = Alive
    BY <1>5 DEF Alive
  <2> QED BY <1>5, <2>1
<1>6. ASSUME (\E s \in Sources : Report(s)) \/ StopSpawning \/ Close \/ Return \/ Done
             \/ UNCHANGED vars
      PROVE  TokensHeld'
  BY <1>5, <1>6 DEF Report, StopSpawning, Close, Return, Done, vars
<1> QED BY <1>1, <1>2, <1>3, <1>4, <1>6 DEF Next, CrawlOnce, Goroutine

LEMMA CallerStep ==
  ASSUME PoolInv, CrawlOnce
  PROVE  TypeOK' /\ BornOnce' /\ PhaseOrder' /\ ResultKept'
<1> USE DEF PoolInv, TypeOK
<1>1. ASSUME NEW s \in Sources, Spawn(s)
      PROVE  TypeOK' /\ BornOnce' /\ PhaseOrder' /\ ResultKept'
  <2>1. TypeOK' /\ PhaseOrder'
    BY <1>1, CapIsPositive DEF Spawn, Crawling, PhaseOrder
  <2>2. routine[s] = "unborn"
    BY <1>1 DEF Spawn, BornOnce
  <2>3. BornOnce'
    BY <1>1 DEF Spawn, BornOnce
  <2>4. ResultKept'
    BY <1>1, <2>2 DEF Spawn, ResultKept
  <2> QED BY <2>1, <2>3, <2>4
<1>2. ASSUME NEW s \in Sources, Report(s)
      PROVE  TypeOK' /\ BornOnce' /\ PhaseOrder' /\ ResultKept'
  <2>1. TypeOK' /\ BornOnce' /\ PhaseOrder'
    BY <1>2 DEF Report, BornOnce, PhaseOrder
  <2>2. closed /\ s \in Selected
    BY <1>2 DEF Report, PhaseOrder, BornOnce, ResultKept
  <2>3. ResultKept'
    BY <1>2, <2>2 DEF Report, ResultKept
  <2> QED BY <2>1, <2>3
<1>3. ASSUME StopSpawning \/ Close \/ Return
      PROVE  TypeOK' /\ BornOnce' /\ PhaseOrder' /\ ResultKept'
  <2>1. TypeOK' /\ BornOnce'
    BY <1>3 DEF StopSpawning, Close, Return, BornOnce
  <2>2. PhaseOrder'
    BY <1>3 DEF StopSpawning, Close, Return, PhaseOrder
  <2>3. ResultKept'
    BY <1>3 DEF StopSpawning, Close, Return, ResultKept
  <2> QED BY <2>1, <2>2, <2>3
<1>4. ASSUME Drain
      PROVE  TypeOK' /\ BornOnce' /\ PhaseOrder' /\ ResultKept'
  <2>1. TypeOK'
    BY <1>4, CapIsPositive DEF Drain
  <2>2. BornOnce' /\ PhaseOrder' /\ ResultKept'
    BY <1>4 DEF Drain, BornOnce, PhaseOrder, ResultKept
  <2> QED BY <2>1, <2>2
<1> QED BY <1>1, <1>2, <1>3, <1>4 DEF CrawlOnce

LEMMA GoroutineStep ==
  ASSUME PoolInv, NEW s \in Sources, Goroutine(s)
  PROVE  TypeOK' /\ BornOnce' /\ PhaseOrder' /\ ResultKept'
<1> USE DEF PoolInv
<1>1. ASSUME NEW from \in Crawling, NEW to \in Crawling \cup {"gone"}, Step(s, from, to)
      PROVE  /\ BornOnce'
             /\ routine' \in [Sources -> Crawling \cup {"unborn", "gone"}]
             /\ UNCHANGED <<phase, todo, drained, closed, logged>>
             /\ \A t \in Sources : routine'[t] = IF t = s THEN to ELSE routine[t]
  BY <1>1 DEF Step, Caller, BornOnce, TypeOK, Crawling
<1>2. ~closed
  <2>1. s \in Alive
    BY DEF Goroutine, CreateSourceRun, CreateError, Fetch, FinishSourceRun, FinishError, Send,
           Release, Step, Alive, Crawling
  <2> QED BY <2>1, DrainedMeansGone DEF PhaseOrder
<1>3. CASE CreateSourceRun(s) \/ CreateError(s) \/ Fetch(s)
           \/ (\E status \in {"success", "failed"} : FinishSourceRun(s, status)) \/ FinishError(s)
  <2>1. PICK from \in {"create", "fetch", "finish"}, to \in {"fetch", "finish", "send"} :
          /\ Step(s, from, to)
          /\ UNCHANGED <<sem, errCh>>
          /\ run' \in [Sources -> {"none", "running", "success", "failed"}]
          /\ result' \in [Sources -> {"nil", "err"}]
          /\ \A t \in Sources \ {s} : run'[t] = run[t] /\ result'[t] = result[t]
          /\ to # "send" => result' = result
          /\ to = "send" => run'[s] \in {"success", "failed"} \/ result'[s] = "err"
    BY <1>3 DEF CreateSourceRun, CreateError, Fetch, FinishSourceRun, FinishError, TypeOK
  <2>2. /\ BornOnce'
        /\ routine' \in [Sources -> Crawling \cup {"unborn", "gone"}]
        /\ UNCHANGED <<phase, todo, drained, closed, logged>>
        /\ \A t \in Sources : routine'[t] = IF t = s THEN to ELSE routine[t]
    BY <1>1, <2>1 DEF Crawling
  <2>3. routine[s] = from
    BY <2>1 DEF Step
  <2>4. TypeOK' /\ PhaseOrder'
    BY <2>1, <2>2 DEF TypeOK, PhaseOrder
  <2>5. ResultKept'
    BY <1>2, <2>1, <2>2, <2>3 DEF ResultKept
  <2> QED BY <2>2, <2>4, <2>5
<1>4. CASE Send(s)
  <2>1. BornOnce' /\ TypeOK' /\ PhaseOrder'
    BY <1>1, <1>2, <1>4 DEF Send, TypeOK, PhaseOrder, Crawling
  <2>2. routine[s] = "send" /\ UNCHANGED <<closed, logged>>
    BY <1>4 DEF Send, Step, Caller
  <2>3. ResultKept'
    BY <1>1, <1>4, <2>2 DEF Send, ResultKept, Crawling
  <2> QED BY <2>1, <2>3
<1>5. CASE Release(s)
  <2>1. sem' \in 0..Cap
    BY <1>5, CapIsPositive DEF Release, TypeOK
  <2>2. BornOnce' /\ TypeOK' /\ PhaseOrder'
    BY <1>1, <1>5, <2>1 DEF Release, TypeOK, PhaseOrder, Crawling
  <2>3. routine[s] = "release" /\ UNCHANGED <<closed, logged>>
    BY <1>5 DEF Release, Step, Caller
  <2>4. ResultKept'
    BY <1>1, <1>5, <2>3 DEF Release, ResultKept, Crawling
  <2> QED BY <2>2, <2>4
<1> QED BY <1>3, <1>4, <1>5 DEF Goroutine

LEMMA PoolStep ==
  ASSUME PoolInv, [Next]_vars
  PROVE  PoolInv'
<1>1. CASE CrawlOnce
  BY <1>1, TokenStep, CallerStep DEF PoolInv
<1>2. CASE \E s \in Sources : Goroutine(s)
  BY <1>2, TokenStep, GoroutineStep DEF PoolInv
<1>3. CASE Done \/ UNCHANGED vars
  BY <1>3, TokenStep DEF Done, vars, PoolInv, TypeOK, BornOnce, PhaseOrder, ResultKept
<1> QED BY <1>1, <1>2, <1>3 DEF Next

\* The invariant the properties follow from.
THEOREM PoolInvariant == Spec => []PoolInv
<1>1. Init => PoolInv
  BY InitEstablishes
<1>2. PoolInv /\ [Next]_vars => PoolInv'
  BY PoolStep
<1> QED BY <1>1, <1>2, PTL DEF Spec

-----------------------------------------------------------------------------
\* Every variable of CrawlOnce keeps its type; the semaphore and the drain loop
\* never count past the capacity.
THEOREM PoolTypeCorrect == Spec => []TypeOK
<1>1. PoolInv => TypeOK
  BY DEF PoolInv
<1> QED BY <1>1, PoolInvariant, PTL

\* However many sources there are, no more than the limit run at once.
THEOREM PoolIsBounded == Spec => []ParallelBounded
<1>1. PoolInv => ParallelBounded
  BY CapIsPositive, AliveIsFinite DEF PoolInv, TypeOK, TokensHeld, ParallelBounded
<1> QED BY <1>1, PoolInvariant, PTL

\* errCh is closed only when no goroutine is left to send on it.
THEOREM ChannelClosedLast == Spec => []NoSendAfterClose
<1>1. PoolInv => NoSendAfterClose
  <2> SUFFICES ASSUME PoolInv, closed, NEW s \in Sources
               PROVE  routine[s] \in {"unborn", "gone"}
    BY DEF NoSendAfterClose
  <2>1. s \notin Alive
    BY DrainedMeansGone DEF PoolInv, PhaseOrder
  <2> QED BY <2>1 DEF Alive, PoolInv, TypeOK
<1> QED BY <1>1, PoolInvariant, PTL

LEMMA RoomToSend ==
  ASSUME PoolInv
  PROVE  SendHasRoom
<1> SUFFICES ASSUME NEW s \in Sources, routine[s] = "send"
             PROVE  Cardinality(errCh) < ErrCap
  BY DEF SendHasRoom
<1>1. errCh \in SUBSET Sources /\ s \notin errCh
  BY DEF PoolInv, TypeOK, ResultKept
<1>2. Cardinality(errCh) <= Cardinality(Sources) /\ Cardinality(errCh) # Cardinality(Sources)
  BY <1>1, PoolAssumption, FS_Subset
<1>3. Cardinality(errCh) \in Nat /\ Cardinality(Sources) \in Nat
  BY <1>1, PoolAssumption, FS_Subset, FS_CardinalityType
<1> QED BY <1>2, <1>3 DEF ErrCap

\* A buffer of one place for each enabled source never fills before the last send.
THEOREM SendNeverBlocks == Spec => []SendHasRoom
<1>1. PoolInv => SendHasRoom
  BY RoomToSend
<1> QED BY <1>1, PoolInvariant, PTL

\* When CrawlOnce returns, every selected source was crawled to its end and
\* exactly the store failures were logged.
THEOREM EverySourceCrawled == Spec => []NoSourceLeftBehind
<1>1. PoolInv => NoSourceLeftBehind
  <2> SUFFICES ASSUME PoolInv, phase = "returned"
               PROVE  NoSourceLeftBehind
    BY DEF NoSourceLeftBehind
  <2>1. Alive = {} /\ errCh = {} /\ todo = {}
    BY DrainedMeansGone DEF PoolInv, PhaseOrder
  <2>2. \A s \in Selected : routine[s] = "gone"
    BY <2>1, PoolAssumption DEF Alive, PoolInv, TypeOK, BornOnce
  <2>3. \A s \in Selected : /\ result[s] = "err" => s \in logged
                            /\ run[s] \in {"success", "failed"} \/ result[s] = "err"
    BY <2>1, <2>2, PoolAssumption DEF PoolInv, ResultKept
  <2>4. logged = {s \in Selected : result[s] = "err"}
    BY <2>3 DEF PoolInv, TypeOK, ResultKept
  <2> QED BY <2>2, <2>3, <2>4 DEF NoSourceLeftBehind
<1> QED BY <1>1, PoolInvariant, PTL

-----------------------------------------------------------------------------
(* CrawlOnce ends. Liveness is beyond the provers; these are the two facts *)
(* of safety it rests on: something can always move, and every move leaves *)
(* less to do.                                                             *)

\* Steps a goroutine has before it, from the one that starts it.
Ahead == [unborn |-> 6, create |-> 5, fetch |-> 4, finish |-> 3, send |-> 2,
          release |-> 1, gone |-> 0]

Chores == {c \in Selected \X (1..6) : c[2] <= Ahead[routine[c[1]]]}
Unread == {s \in Selected : routine[s] \in {"release", "gone"} => s \in errCh}
Turns  == [spawn |-> 3, drain |-> 2, report |-> 1, returned |-> 0][phase]

StepsLeft == Cardinality(Chores) + Cardinality(Unread) + (Cap - drained) + Turns

\* The guards of the caller's and of the goroutines' next steps.
CallerMoves ==
  \/ phase = "spawn" /\ (todo = {} \/ sem < Cap)
  \/ phase = "drain" /\ (drained = Cap \/ sem < Cap)
  \/ phase = "report"
RoutineMoves(s) ==
  \/ routine[s] \in {"create", "fetch", "finish"}
  \/ routine[s] = "send" /\ Cardinality(errCh) < ErrCap
  \/ routine[s] = "release" /\ sem > 0

\* Until CrawlOnce returns, its caller or one of its goroutines can move.
GoesOn == phase # "returned" => CallerMoves \/ \E s \in Sources : RoutineMoves(s)

CountsDown == [][StepsLeft' < StepsLeft]_vars

LEMMA LeftIsNat ==
  ASSUME TypeOK
  PROVE  /\ IsFiniteSet(Chores) /\ Cardinality(Chores) \in Nat
         /\ IsFiniteSet(Unread) /\ Cardinality(Unread) \in Nat
         /\ Cap - drained \in Nat /\ Turns \in Nat
         /\ StepsLeft \in Nat
<1>1. IsFiniteSet(Selected) /\ IsFiniteSet(1..6)
  <2>1. 1 \in Int /\ 6 \in Int /\ Selected \in SUBSET Sources
    BY PoolAssumption
  <2>2. IsFiniteSet(1..6)
    BY <2>1, FS_Interval
  <2> QED BY <2>1, <2>2, PoolAssumption, FS_Subset
<1>2. Chores \in SUBSET (Selected \X (1..6)) /\ Unread \in SUBSET Selected
  BY DEF Chores, Unread
<1>3. /\ IsFiniteSet(Chores) /\ Cardinality(Chores) \in Nat
      /\ IsFiniteSet(Unread) /\ Cardinality(Unread) \in Nat
  BY <1>1, <1>2, FS_Product, FS_Subset, FS_CardinalityType
<1>4. Cap - drained \in Nat /\ Turns \in Nat
  BY CapIsPositive DEF TypeOK, Turns
<1> QED BY <1>3, <1>4 DEF StepsLeft

\* A step that takes something away and adds nothing.
LEMMA LessLeft ==
  ASSUME TypeOK, TypeOK', Chores' \subseteq Chores, Unread' \subseteq Unread,
         drained' >= drained, Turns' <= Turns,
         Chores' # Chores \/ Unread' # Unread \/ drained' # drained \/ Turns' # Turns
  PROVE  StepsLeft' < StepsLeft
<1>1. /\ Cardinality(Chores') \in Nat /\ Cardinality(Chores') <= Cardinality(Chores)
      /\ Cardinality(Chores') = Cardinality(Chores) => Chores' = Chores
  BY LeftIsNat, FS_Subset, FS_CardinalityType
<1>2. /\ Cardinality(Unread') \in Nat /\ Cardinality(Unread') <= Cardinality(Unread)
      /\ Cardinality(Unread') = Cardinality(Unread) => Unread' = Unread
  BY LeftIsNat, FS_Subset, FS_CardinalityType
<1>3. Cap \in Nat /\ drained \in Int /\ drained' \in Int /\ Turns \in Int /\ Turns' \in Int
  BY CapIsPositive DEF TypeOK, Turns
<1> QED BY <1>1, <1>2, <1>3, LeftIsNat DEF StepsLeft, Cap

\* A goroutine of a selected source that goes on has one chore less at least.
LEMMA ChoreDone ==
  ASSUME TypeOK, NEW s \in Selected, NEW to \in Crawling \cup {"gone"},
         routine' = [routine EXCEPT ![s] = to], Ahead[to] < Ahead[routine[s]]
  PROVE  Chores' \subseteq Chores /\ Chores' # Chores
<1>1. /\ \A t \in Sources : routine[t] \in Crawling \cup {"unborn", "gone"}
      /\ s \in Sources
      /\ \A t \in Selected \ {s} : routine'[t] = routine[t]
      /\ routine'[s] = to
  BY PoolAssumption DEF TypeOK
<1>2. Ahead[routine[s]] \in 1..6 /\ Ahead[to] \in 0..5
  BY <1>1 DEF Ahead, Crawling
<1>3. <<s, Ahead[routine[s]]>> \in Chores /\ <<s, Ahead[routine[s]]>> \notin Chores'
  BY <1>1, <1>2 DEF Chores
<1>4. Chores' \subseteq Chores
  <2> SUFFICES ASSUME NEW t \in Selected, NEW k \in 1..6, k <= Ahead[routine'[t]]
               PROVE  k <= Ahead[routine[t]]
    BY DEF Chores
  <2>1. CASE t = s
    BY <1>1, <1>2, <2>1
  <2>2. CASE t # s
    BY <1>1, <2>2
  <2> QED BY <2>1, <2>2
<1> QED BY <1>3, <1>4

LEMMA CountStep ==
  ASSUME PoolInv, PoolInv', Next, vars' # vars
  PROVE  StepsLeft' < StepsLeft
<1> USE DEF PoolInv
<1>t. TypeOK /\ TypeOK' /\ drained \in Nat
  BY CapIsPositive DEF TypeOK
<1>1. ASSUME NEW s \in Sources, Spawn(s) PROVE StepsLeft' < StepsLeft
  <2>1. /\ routine[s] = "unborn" /\ s \in Selected
        /\ routine' = [routine EXCEPT ![s] = "create"]
        /\ UNCHANGED <<phase, drained, errCh>>
    BY <1>1 DEF Spawn, BornOnce, TypeOK
  <2>2. Chores' \subseteq Chores /\ Chores' # Chores
    <3>1. Ahead["create"] < Ahead["unborn"] /\ "create" \in Crawling \cup {"gone"}
      BY DEF Ahead, Crawling
    <3> QED BY <2>1, <3>1, <1>t, ChoreDone
  <2>3. Unread' = Unread
    BY <2>1, <1>t DEF Unread, TypeOK
  <2>4. Turns' = Turns /\ Turns \in Nat
    BY <2>1, LeftIsNat DEF Turns
  <2> QED BY <1>t, <2>1, <2>2, <2>3, <2>4, LessLeft
<1>2. ASSUME NEW s \in Sources, Goroutine(s) PROVE StepsLeft' < StepsLeft
  <2>1. PICK to \in Crawling \cup {"gone"} :
          /\ routine' = [routine EXCEPT ![s] = to] /\ Ahead[to] < Ahead[routine[s]]
          /\ routine[s] \in Crawling
          /\ to = "release" => errCh' = errCh \cup {s}
          /\ to # "release" => errCh' = errCh
          /\ routine[s] = "release" => to = "gone"
          /\ to = "gone" => routine[s] = "release"
          /\ UNCHANGED <<phase, drained>>
    BY <1>2 DEF Goroutine, CreateSourceRun, CreateError, Fetch, FinishSourceRun, FinishError,
       Send, Release, Step, Caller, Ahead, Crawling
  <2>2. s \in Selected
    BY <2>1 DEF BornOnce, Crawling
  <2>3. Chores' \subseteq Chores /\ Chores' # Chores
    BY <1>t, <2>1, <2>2, ChoreDone
  <2>4. Unread' \subseteq Unread
    <3> SUFFICES ASSUME NEW t \in Selected, t \in Unread', t \notin Unread PROVE FALSE
      BY DEF Unread
    <3>1. routine[t] \in {"release", "gone"} /\ t \notin errCh
      BY DEF Unread
    <3>2. t = s \/ routine'[t] = routine[t]
      BY <1>t, <2>1, PoolAssumption DEF TypeOK
    <3>3. routine'[s] = to
      BY <1>t, <2>1 DEF TypeOK
    <3> QED BY <2>1, <3>1, <3>2, <3>3 DEF Unread, Crawling
  <2>5. Turns' = Turns /\ Turns \in Nat
    BY <1>t, <2>1, LeftIsNat DEF Turns
  <2> QED BY <1>t, <2>1, <2>3, <2>4, <2>5, LessLeft
<1>3. ASSUME NEW s \in Sources, Report(s) PROVE StepsLeft' < StepsLeft
  <2>1. /\ s \in errCh /\ errCh' = errCh \ {s} /\ routine[s] \in {"release", "gone"}
        /\ UNCHANGED <<routine, phase, drained>>
    BY <1>3 DEF Report, ResultKept
  <2>2. s \in Selected
    BY <2>1 DEF BornOnce
  <2>3. Unread' \subseteq Unread /\ Unread' # Unread
    BY <2>1, <2>2 DEF Unread
  <2>4. Chores' = Chores
    BY <2>1 DEF Chores
  <2>5. Turns' = Turns /\ Turns \in Nat
    BY <1>t, <2>1, LeftIsNat DEF Turns
  <2> QED BY <1>t, <2>1, <2>3, <2>4, <2>5, LessLeft
<1>4. ASSUME StopSpawning \/ Close \/ Return PROVE StepsLeft' < StepsLeft
  <2>1. UNCHANGED <<routine, errCh, drained>> /\ Turns' < Turns /\ Turns' \in Nat /\ Turns \in Nat
    BY <1>4 DEF StopSpawning, Close, Return, Turns
  <2>2. Chores' = Chores /\ Unread' = Unread
    BY <2>1 DEF Chores, Unread
  <2> QED BY <1>t, <2>1, <2>2, LessLeft
<1>5. ASSUME Drain PROVE StepsLeft' < StepsLeft
  <2>1. UNCHANGED <<routine, errCh, phase>> /\ drained' = drained + 1
    BY <1>5 DEF Drain
  <2>2. Chores' = Chores /\ Unread' = Unread /\ Turns' = Turns /\ Turns \in Nat
    BY <1>t, <2>1, LeftIsNat DEF Chores, Unread, Turns
  <2> QED BY <1>t, <2>1, <2>2, LessLeft
<1> QED BY <1>1, <1>2, <1>3, <1>4, <1>5 DEF Next, CrawlOnce, Done

LEMMA AtFirst ==
  ASSUME Init
  PROVE  StepsLeft = 7 * Cardinality(Selected) + Cap + 3
<1>1. IsFiniteSet(Selected) /\ Cardinality(Selected) \in Nat
  BY PoolAssumption, FS_Subset, FS_CardinalityType
<1>2. IsFiniteSet(1..6) /\ Cardinality(1..6) = 6
  <2>1. 1 \in Int /\ 6 \in Int /\ 6 - 1 + 1 = 6 /\ ~(1 > 6)
    OBVIOUS
  <2> QED BY <2>1, FS_Interval
<1>3. Chores = Selected \X (1..6)
  BY PoolAssumption DEF Init, Chores, Ahead
<1>4. Cardinality(Chores) = Cardinality(Selected) * 6
  BY <1>1, <1>2, <1>3, FS_Product
<1>5. Unread = Selected
  BY PoolAssumption DEF Init, Unread
<1>6. Cap \in Nat /\ drained = 0 /\ Turns = 3
  BY CapIsPositive DEF Init, Turns
<1> QED BY <1>1, <1>4, <1>5, <1>6 DEF StepsLeft

\* Every step of CrawlOnce, its failures included, leaves it less to do. It takes
\* at most seven for each selected source, one for each token of the drain loop
\* and three of its own: neither the caller nor a goroutine can loop for ever.
THEOREM CrawlCountsDown ==
  Spec => CountsDown /\ [](StepsLeft \in 0..(7 * Cardinality(Selected) + Cap + 3))
<1> DEFINE Most  == 7 * Cardinality(Selected) + Cap + 3
           Below == StepsLeft <= Most
           IsCount == StepsLeft \in Nat
<1>0. Most \in Nat
  BY CapIsPositive, PoolAssumption, FS_Subset, FS_CardinalityType
<1>1. Init => Below
  BY <1>0, AtFirst
<1>2. PoolInv /\ PoolInv' /\ [Next]_vars => [StepsLeft' < StepsLeft]_vars
  BY CountStep
<1>3. IsCount /\ IsCount' /\ Below /\ [StepsLeft' < StepsLeft]_vars => Below'
  <2> SUFFICES ASSUME IsCount, IsCount', Below, [StepsLeft' < StepsLeft]_vars PROVE Below'
    OBVIOUS
  <2>1. CASE StepsLeft' < StepsLeft
    BY <1>0, <2>1
  <2>2. CASE UNCHANGED vars
    BY <2>2 DEF vars, StepsLeft, Chores, Unread, Turns, Cap
  <2> QED BY <2>1, <2>2
<1>4. IsCount /\ Below => StepsLeft \in 0..Most
  BY <1>0
<1>5. PoolInv => IsCount
  BY LeftIsNat DEF PoolInv
<1> QED BY <1>1, <1>2, <1>3, <1>4, <1>5, PoolInvariant, PTL DEF Spec, CountsDown

\* The full semaphore, the drain loop that fills it and the channel never wait
\* for each other: as long as CrawlOnce has not returned, it or one of its
\* goroutines can take its next step.
THEOREM CrawlNeverStuck == Spec => []GoesOn
<1>1. PoolInv => GoesOn
  <2> SUFFICES ASSUME PoolInv, phase # "returned", ~CallerMoves
               PROVE  \E s \in Sources : RoutineMoves(s)
    BY DEF GoesOn
  <2>1. sem >= Cap /\ drained < Cap
    BY CapIsPositive DEF CallerMoves, PoolInv, TypeOK, PhaseOrder
  <2>2. sem = Cardinality(Alive) + drained /\ sem > 0
    BY <2>1, CapIsPositive DEF PoolInv, TypeOK, TokensHeld
  <2>3. Alive # {}
    <3>1. Cardinality(Alive) > 0
      BY <2>1, <2>2, AliveIsFinite, CapIsPositive DEF PoolInv, TypeOK
    <3> QED BY <3>1, FS_EmptySet
  <2>4. PICK s \in Sources : routine[s] \in Crawling
    BY <2>3 DEF Alive
  <2>5. routine[s] = "send" => Cardinality(errCh) < ErrCap
    BY RoomToSend DEF SendHasRoom
  <2> QED BY <2>2, <2>4, <2>5 DEF RoutineMoves, Crawling
<1> QED BY <1>1, PoolInvariant, PTL

-----------------------------------------------------------------------------
(* The pool as a call of SourceHealth.                                     *)

\* A source's row follows its goroutine.
RunFollows ==
  \A s \in Sources :
    /\ routine[s] \in {"unborn", "create"} => run[s] = "none"
    /\ routine[s] \in {"fetch", "finish"} => run[s] = "running"

HealthInv == PoolInv /\ RunFollows

LEMMA RunStep ==
  ASSUME HealthInv, [Next]_vars
  PROVE  RunFollows'
<1> USE DEF HealthInv, PoolInv, TypeOK, RunFollows
<1>1. CASE \E s \in Sources : Goroutine(s)
  BY <1>1 DEF Goroutine, CreateSourceRun, CreateError, Fetch, FinishSourceRun, FinishError,
     Send, Release, Step
<1>2. CASE \E s \in Sources : Spawn(s)
  BY <1>2 DEF Spawn, BornOnce
<1>3. CASE (\E s \in Sources : Report(s)) \/ StopSpawning \/ Drain \/ Close \/ Return \/ Done
           \/ UNCHANGED vars
  BY <1>3 DEF Report, StopSpawning, Drain, Close, Return, Done, vars
<1> QED BY <1>1, <1>2, <1>3 DEF Next, CrawlOnce

LEMMA SetsAreFinite ==
  /\ IsFiniteSet(InRun) /\ Cardinality(InRun) \in Nat
  /\ IsFiniteSet(Failing) /\ Cardinality(Failing) \in Nat
  /\ IsFiniteSet(LeftOpen) /\ Cardinality(LeftOpen) \in Nat
  /\ IsFiniteSet(Sources) /\ Cardinality(Sources) \in Nat
<1>1. InRun \in SUBSET Sources /\ Failing \in SUBSET Sources /\ LeftOpen \in SUBSET Sources
  BY DEF InRun, Failing, LeftOpen
<1> QED BY <1>1, PoolAssumption, FS_Subset, FS_CardinalityType

\* A goroutine that creates its run is not counted among the open ones yet, but
\* holds a token.
LEMMA RoomForRun ==
  ASSUME HealthInv, NEW s \in Sources, routine[s] = "create"
  PROVE  Cardinality(InRun) < Cap
<1>1. InRun \subseteq Alive /\ s \in Alive /\ s \notin InRun
  BY DEF InRun, Alive, Crawling
<1>2. InRun \cup {s} \in SUBSET Alive
  BY <1>1
<1>3. Cardinality(InRun \cup {s}) = Cardinality(InRun) + 1
  BY <1>1, SetsAreFinite, FS_AddElement
<1>4. Cardinality(InRun \cup {s}) <= Cardinality(Alive)
  BY <1>2, AliveIsFinite, FS_Subset
<1>5. Cardinality(Alive) <= Cap
  BY AliveIsFinite, CapIsPositive DEF HealthInv, PoolInv, TypeOK, TokensHeld
<1> QED BY <1>3, <1>4, <1>5, SetsAreFinite, AliveIsFinite, CapIsPositive

\* An error that is new is one more, and there are no more than sources.
LEMMA OneMoreError ==
  ASSUME HealthInv, NEW s \in Sources, result[s] = "nil",
         result' = [result EXCEPT ![s] = "err"]
  PROVE  /\ Cardinality(Failing') = Cardinality(Failing) + 1
         /\ Cardinality(Failing) < Cardinality(Sources)
<1>1. Failing' = Failing \cup {s} /\ s \notin Failing
  BY DEF Failing, HealthInv, PoolInv, TypeOK
<1>2. Cardinality(Failing \cup {s}) = Cardinality(Failing) + 1
  BY <1>1, SetsAreFinite, FS_AddElement
<1>3. Failing \cup {s} \in SUBSET Sources
  BY DEF Failing
<1>4. Cardinality(Failing \cup {s}) <= Cardinality(Sources)
  BY <1>3, SetsAreFinite, FS_Subset
<1> QED BY <1>1, <1>2, <1>4, SetsAreFinite

\* The instance has its own name for the operator of FiniteSets.
LEMMA SameCardinality == \A S : Health!Cardinality(S) = Cardinality(S)
BY Zenon DEF Health!Cardinality, Cardinality

LEMMA FaultMaps ==
  ASSUME HealthInv, NEW s \in Sources, result[s] = "nil",
         result' = [result EXCEPT ![s] = "err"]
  PROVE  Health!Fault
<1>1. /\ Cardinality(Failing') = Cardinality(Failing) + 1
      /\ Cardinality(Failing) < Cardinality(Sources)
  BY OneMoreError
<1>2. 0 + Cardinality(Failing) < Cardinality(Sources)
  BY <1>1, SetsAreFinite
<1> QED BY <1>1, <1>2 DEF Health!Fault

\* The variables of SourceHealth that a step leaves alone.
LEMMA Hidden ==
  ASSUME Waiting' = Waiting, InRun' = InRun, run' = run, result' = result
  PROVE  UNCHANGED Health!vars
<1>1. Writers' = Writers /\ HaveRun' = HaveRun /\ LeftOpen' = LeftOpen /\ Failing' = Failing
  BY DEF Writers, HaveRun, LeftOpen, Failing
<1> QED BY <1>1 DEF Health!vars, Health!table

LEMMA WorkIsNext ==
  ASSUME NEW s \in Sources,
         \/ Health!CreateSourceRun(Call, s) \/ Health!CreateError(Call, s)
         \/ \E status \in {"success", "failed"} : Health!FinishSourceRun(Call, s, status)
         \/ Health!FinishError(Call, s)
  PROVE  Health!Next
<1>1. Call \in Health!Calls
  BY DEF Call, Health!Calls
<1>2. Health!Work(Call)
  BY DEF Health!Work
<1> QED BY <1>1, <1>2 DEF Health!Next

LEMMA CreateMaps ==
  ASSUME HealthInv, NEW s \in Sources, CreateSourceRun(s) \/ CreateError(s)
  PROVE  Health!Next
<1> USE DEF HealthInv, PoolInv, TypeOK
<1>1. routine[s] = "create" /\ run[s] = "none" /\ result[s] = "nil" /\ s \notin todo
  BY DEF CreateSourceRun, CreateError, Step, RunFollows, ResultKept, BornOnce
<1>2. s \in Waiting /\ Waiting' = Waiting \ {s}
  BY <1>1 DEF Waiting, CreateSourceRun, CreateError, Step, Caller
<1>3. Health!Spawn(Call, s)
  <2>1. Cardinality(InRun) < Health!Limit
    BY <1>1, RoomForRun DEF Health!Limit, Cap
  <2>2. [c \in {Call} |-> Waiting'] = [[c \in {Call} |-> Waiting] EXCEPT ![Call] = @ \ {s}]
    BY <1>2, Zenon
  <2>3. /\ s \in [c \in {Call} |-> Waiting][Call]
        /\ Health!Cardinality([c \in {Call} |-> InRun][Call]) < Health!Limit
    BY <1>2, <2>1, SameCardinality, Zenon
  <2> QED BY <2>2, <2>3, Zenon DEF Health!Spawn
<1>4. CASE CreateSourceRun(s)
  <2>1. InRun' = InRun \cup {s}
    BY <1>4 DEF CreateSourceRun, Step, InRun
  <2>2. Writers' = [Writers EXCEPT ![s] = Call]
    BY <2>1 DEF Writers
  <2>3. HaveRun' = HaveRun \cup {s} /\ run' = [run EXCEPT ![s] = "running"]
    BY <1>4 DEF CreateSourceRun, HaveRun
  <2>4. LeftOpen' = LeftOpen /\ Failing' = Failing
    BY <1>1, <1>4 DEF CreateSourceRun, LeftOpen, Failing
  <2>5. Health!CreateSourceRun(Call, s)
    BY <1>3, <2>1, <2>2, <2>3, <2>4 DEF Health!CreateSourceRun
  <2> QED BY <2>5, WorkIsNext
<1>5. CASE CreateError(s)
  <2>1. InRun' = InRun /\ run' = run
    BY <1>1, <1>5 DEF CreateError, Step, InRun
  <2>2. Writers' = Writers /\ HaveRun' = HaveRun
    BY <2>1 DEF Writers, HaveRun
  <2>3. LeftOpen' = LeftOpen
    BY <1>1, <1>5 DEF CreateError, LeftOpen
  <2>4. Health!Fault
    BY <1>1, <1>5, FaultMaps DEF CreateError
  <2>5. Health!CreateError(Call, s)
    BY <1>3, <2>1, <2>2, <2>3, <2>4 DEF Health!CreateError, Health!table
  <2> QED BY <2>5, WorkIsNext
<1> QED BY <1>4, <1>5

LEMMA FinishMaps ==
  ASSUME HealthInv, NEW s \in Sources,
         FinishError(s) \/ \E status \in {"success", "failed"} : FinishSourceRun(s, status)
  PROVE  Health!Next
<1> USE DEF HealthInv, PoolInv, TypeOK
<1>1. /\ routine[s] = "finish" /\ run[s] = "running" /\ result[s] = "nil"
      /\ routine' = [routine EXCEPT ![s] = "send"] /\ todo' = todo
  BY DEF FinishSourceRun, FinishError, Step, RunFollows, ResultKept, Caller
<1>2. Waiting' = Waiting /\ s \in InRun /\ InRun' = InRun \ {s}
  BY <1>1 DEF Waiting, InRun
<1>3. Health!Closes(Call, s)
  BY <1>2 DEF Health!Closes
<1>4. Writers[s] = Call /\ Writers' = [Writers EXCEPT ![s] = IF @ = Call THEN "none" ELSE @]
  BY <1>2 DEF Writers
<1>5. ASSUME NEW status \in {"success", "failed"}, FinishSourceRun(s, status)
      PROVE  Health!Next
  <2>1. run' = [run EXCEPT ![s] = IF Writers[s] = Call THEN status ELSE @]
    BY <1>4, <1>5 DEF FinishSourceRun
  <2>2. HaveRun' = HaveRun /\ LeftOpen' = LeftOpen /\ Failing' = Failing
    BY <1>1, <1>5 DEF FinishSourceRun, HaveRun, LeftOpen, Failing
  <2>3. Health!FinishSourceRun(Call, s, status)
    BY <1>2, <1>3, <1>4, <2>1, <2>2 DEF Health!FinishSourceRun
  <2> QED BY <2>3, WorkIsNext
<1>6. CASE FinishError(s)
  <2>1. run' = run /\ HaveRun' = HaveRun
    BY <1>6 DEF FinishError, HaveRun
  <2>2. LeftOpen' = LeftOpen \cup {s} /\ s \notin LeftOpen
    BY <1>1, <1>6 DEF FinishError, LeftOpen
  <2>3. Cardinality(LeftOpen') = Cardinality(LeftOpen) + 1
    BY <2>2, SetsAreFinite, FS_AddElement
  <2>4. Health!Fault
    BY <1>1, <1>6, FaultMaps DEF FinishError
  <2>5. Health!FinishError(Call, s)
    BY <1>2, <1>3, <1>4, <2>1, <2>3, <2>4 DEF Health!FinishError
  <2> QED BY <2>5, WorkIsNext
<1> QED BY <1>5, <1>6

LEMMA HealthStep ==
  ASSUME HealthInv, [Next]_vars
  PROVE  [Health!Next]_(Health!vars)
<1> USE DEF HealthInv, PoolInv, TypeOK
<1>1. ASSUME NEW s \in Sources, Spawn(s)
      PROVE  UNCHANGED Health!vars
  <2>1. routine[s] = "unborn"
    BY <1>1 DEF Spawn, BornOnce
  <2>2. Waiting' = Waiting /\ InRun' = InRun
    BY <1>1, <2>1, PoolAssumption DEF Spawn, Waiting, InRun
  <2> QED BY <1>1, <2>2, Hidden DEF Spawn
<1>2. ASSUME NEW s \in Sources, Fetch(s) \/ Send(s) \/ Release(s)
      PROVE  UNCHANGED Health!vars
  <2>1. Waiting' = Waiting /\ InRun' = InRun
    BY <1>2 DEF Fetch, Send, Release, Step, Caller, Waiting, InRun
  <2> QED BY <1>2, <2>1, Hidden DEF Fetch, Send, Release
<1>3. ASSUME (\E s \in Sources : Report(s)) \/ StopSpawning \/ Drain \/ Close \/ Return \/ Done
             \/ UNCHANGED vars
      PROVE  UNCHANGED Health!vars
  <2>1. UNCHANGED <<todo, routine, run, result>>
    BY <1>3 DEF Report, StopSpawning, Drain, Close, Return, Done, vars
  <2>2. Waiting' = Waiting /\ InRun' = InRun
    BY <2>1 DEF Waiting, InRun
  <2> QED BY <2>1, <2>2, Hidden
<1>4. CASE \E s \in Sources : Goroutine(s)
  BY <1>2, <1>4, CreateMaps, FinishMaps DEF Goroutine
<1> QED BY <1>1, <1>3, <1>4 DEF Next, CrawlOnce

\* Whatever its schedule, one CrawlOnce does to source_runs only what a call of
\* SourceHealth may do, so what is proved there of calls side by side covers it.
THEOREM PoolKeepsHealth == Spec => KeepsHealth
<1>1. Init => HealthInv
  BY InitEstablishes DEF Init, HealthInv, RunFollows
<1>2. HealthInv /\ [Next]_vars => HealthInv'
  BY PoolStep, RunStep DEF HealthInv
<1>3. HealthInv /\ [Next]_vars => [Health!Next]_(Health!vars)
  BY HealthStep
<1> QED BY <1>1, <1>2, <1>3, PTL DEF Spec, KeepsHealth
=============================================================================

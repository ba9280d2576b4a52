---------------------------- MODULE IntakeProofs ----------------------------
(***************************************************************************)
(* The intake for any items, articles, crawl goroutines and processes. It  *)
(* drives the queue by the queue's own operations, and every status it and *)
(* the workers write is backed by other rows.                              *)
(***************************************************************************)
EXTENDS Intake, LLMQueueProofs, FiniteSetTheorems

-----------------------------------------------------------------------------
(* What a goroutine carries from one statement to the next.                *)

Locals ==
  /\ at \in [Handlers -> Steps]
  /\ item \in [Handlers -> Items \cup {None}]
  /\ origin \in [Handlers -> Articles \cup {None}]
  /\ raw \in SUBSET Items

\* A goroutine at work has an item, beyond InsertRawItem a stored one, and
\* links only to an article it has found.
Carried ==
  \A h \in Handlers : /\ at[h] # "idle" => item[h] \in Items
                      /\ at[h] \notin {"idle", "raw"} => item[h] \in raw
                      /\ at[h] = "link" => origin[h] # None

LocalInv == Locals /\ Carried

LEMMA InitLocal ==
  ASSUME IntakeInit
  PROVE  LocalInv
BY DEF IntakeInit, LocalInv, Locals, Carried, Steps

LEMMA MatchesAreArticles ==
  ASSUME NEW i
  PROVE  SameContent(i) \subseteq Articles /\ SameTitle(i) \subseteq Articles
BY DEF SameContent, SameTitle

LEMMA ProcessLocal ==
  ASSUME LocalInv, NEW h \in Handlers, Process(h)
  PROVE  LocalInv'
<1> USE DEF LocalInv, Locals, Carried, Steps
<1>0. at[h] # "idle" => item[h] \in Items /\ item[h].url \in Articles
  BY IntakeAssumption
<1>1. CASE InsertRawItem(h)
  BY <1>1 DEF InsertRawItem, Now, Turn, Finish
<1>2. CASE FindByUrl(h)
  <2>1. CASE stored[item[h].url] # None
    BY <1>0, <1>2, <2>1 DEF FindByUrl, Now, Decided, Tables
  <2>2. CASE stored[item[h].url] = None
    BY <1>2, <2>2 DEF FindByUrl, Now, Turn, Tables
  <2> QED BY <2>1, <2>2
<1>3. CASE FindByContent(h)
  <2>1. ASSUME NEW a \in Articles, Decided(h, a) PROVE LocalInv'
    BY <1>3, <2>1 DEF FindByContent, Now, Decided, Tables
  <2>2. CASE Turn(h, "title")
    BY <1>3, <2>2 DEF FindByContent, Now, Turn, Tables
  <2> QED BY <1>3, <2>1, <2>2, MatchesAreArticles DEF FindByContent
<1>4. CASE FindByTitle(h)
  <2>1. ASSUME NEW a \in Articles \cup {None}, Decided(h, a) PROVE LocalInv'
    BY <1>4, <2>1 DEF FindByTitle, Now, Decided, Tables
  <2>2. \E a \in Articles \cup {None} : Decided(h, a)
    BY <1>4, MatchesAreArticles DEF FindByTitle
  <2> QED BY <2>1, <2>2
<1>5. CASE StoreArticle(h)
  BY <1>5 DEF StoreArticle, Now, AfterInsert, Turn, Finish
<1>6. CASE InsertDuplicate(h) \/ MarkDuplicate(h)
  BY <1>6 DEF InsertDuplicate, MarkDuplicate, Now, Turn, Finish
<1>7. CASE Enqueue(h)
  BY <1>7 DEF Enqueue, Now, Turn, Tables
<1>8. CASE MarkPending(h)
  BY <1>8 DEF MarkPending, Now, Finish
<1>9. CASE IntakeError(h)
  <2>1. CASE Finish(h)
    BY <1>9, <2>1 DEF IntakeError, Finish, Tables
  <2>2. CASE at[h] \in {"url", "content", "title"} /\ Decided(h, None)
    BY <1>9, <2>2 DEF IntakeError, Decided, Tables
  <2>3. CASE at[h] = "link" /\ Turn(h, "mark")
    BY <1>9, <2>3 DEF IntakeError, Turn, Tables
  <2>4. CASE at[h] = "enqueue" /\ Turn(h, "pend")
    BY <1>9, <2>4 DEF IntakeError, Turn, Tables
  <2> QED BY <1>9, <2>1, <2>2, <2>3, <2>4 DEF IntakeError
<1> QED BY <1>1, <1>2, <1>3, <1>4, <1>5, <1>6, <1>7, <1>8, <1>9 DEF Process

LEMMA LocalStep ==
  ASSUME LocalInv, [IntakeNext]_intakeVars
  PROVE  LocalInv'
<1>1. ASSUME NEW h \in Handlers, Process(h) PROVE LocalInv'
  BY <1>1, ProcessLocal
<1>2. ASSUME NEW h \in Handlers, NEW i \in Items, Fetch(h, i) PROVE LocalInv'
  BY <1>2 DEF Fetch, Now, Tables, LocalInv, Locals, Carried, Steps
<1>3. ASSUME NEW w \in Workers, WorkerStep(w) PROVE LocalInv'
  BY <1>3 DEF WorkerStep, intake, LocalInv, Locals, Carried
<1>4. ASSUME NEW p \in Procs, StopProcess(p) PROVE LocalInv'
  BY <1>4 DEF StopProcess, Tables, LocalInv, Locals, Carried, Steps
<1>5. CASE UNCHANGED intake
  BY <1>5 DEF intake, LocalInv, Locals, Carried
<1> QED BY <1>1, <1>2, <1>3, <1>4, <1>5 DEF IntakeNext, intakeVars

-----------------------------------------------------------------------------
(* The queue below.                                                        *)

LEMMA KindIsFlag ==
  ASSUME NEW i
  PROVE  Kind(i) \in {"fresh", "outdated"}
BY DEF Kind

LEMMA ProcessDrives ==
  ASSUME LocalInv, NEW h \in Handlers, Process(h)
  PROVE  \/ \E kind \in {"fresh", "outdated"} : InsertArticle(item[h].url, kind)
         \/ at[h] = "enqueue" /\ EnqueueLLMJob(item[h].url)
         \/ UNCHANGED vars
<1>1. CASE StoreArticle(h)
  BY <1>1, KindIsFlag DEF StoreArticle, NewRow
<1>2. CASE Enqueue(h)
  BY <1>2 DEF Enqueue, Now
<1>3. CASE InsertRawItem(h) \/ FindByUrl(h) \/ FindByContent(h) \/ FindByTitle(h)
  BY <1>3 DEF InsertRawItem, FindByUrl, FindByContent, FindByTitle
<1>4. CASE InsertDuplicate(h) \/ MarkDuplicate(h) \/ MarkPending(h) \/ IntakeError(h)
  BY <1>4 DEF InsertDuplicate, MarkDuplicate, MarkPending, IntakeError
<1> QED BY <1>1, <1>2, <1>3, <1>4 DEF Process

LEMMA WorkerDrives ==
  ASSUME NEW w \in Workers, WorkerStep(w)
  PROVE  Work(w)
BY DEF WorkerStep, Writes, Silent, Work

LEMMA IntakeStepDrives ==
  ASSUME LocalInv, [IntakeNext]_intakeVars
  PROVE  [Next]_vars
<1>1. ASSUME NEW h \in Handlers, Process(h) PROVE [Next]_vars
  <2>1. CASE UNCHANGED vars
    BY <2>1
  <2>2. CASE at[h] # "idle"
    <3>1. item[h].url \in Articles
      BY <2>2, IntakeAssumption DEF LocalInv, Carried
    <3> QED BY <1>1, <3>1, ProcessDrives DEF Next
  <2>3. at[h] # "idle"
    BY <1>1 DEF Process, InsertRawItem, FindByUrl, FindByContent, FindByTitle, StoreArticle,
                InsertDuplicate, MarkDuplicate, Enqueue, MarkPending, IntakeError, Now
  <2> QED BY <2>2, <2>3
<1>2. ASSUME NEW h \in Handlers, NEW i \in Items, Fetch(h, i) PROVE [Next]_vars
  BY <1>2 DEF Fetch
<1>3. ASSUME NEW w \in Workers, WorkerStep(w) PROVE [Next]_vars
  BY <1>3, WorkerDrives DEF Next
<1>4. ASSUME NEW p \in Procs, StopProcess(p) \/ Start(p) PROVE [Next]_vars
  BY <1>4 DEF StopProcess, Next
<1>5. CASE Tick
  BY <1>5 DEF Next
<1>6. CASE UNCHANGED intakeVars
  BY <1>6 DEF intakeVars
<1> QED BY <1>1, <1>2, <1>3, <1>4, <1>5, <1>6 DEF IntakeNext

\* The crawlers use the queue by its own operations: what is proved of LLMQueue
\* holds of every behaviour of crawlers and workers together.
THEOREM IntakeDrivesQueue == IntakeSpec => DrivesQueue
<1>1. IntakeInit => Init /\ LocalInv
  BY InitLocal DEF IntakeInit
<1>2. LocalInv /\ [IntakeNext]_intakeVars => LocalInv' /\ [Next]_vars
  BY LocalStep, IntakeStepDrives
<1> QED BY <1>1, <1>2, PTL DEF IntakeSpec, DrivesQueue, Spec

\* The crawler that stores and enqueues articles keeps every promise of the job
\* ledger too: a job's claim, its answer and its tries move as JobLedger allows.
THEOREM IntakeImplementsLedger == IntakeSpec => ImplementsLedger
BY IntakeDrivesQueue, QueueImplementsLedger, PTL DEF DrivesQueue

-----------------------------------------------------------------------------
(* What no step of the queue takes back.                                   *)

\* A worker that gives an article up as outdated has read the flag.
Expiring == \A w \in Workers : pc[w] \in {"expire", "stale"} => row[held[w]] = "outdated"

Lasting ==
  /\ analysed \subseteq analysed'
  /\ \A a \in Articles : /\ job[a] # "none" => job'[a] # "none"
                         /\ row[a] # "none" => row'[a] = row[a]

LEMMA WorkLasts ==
  ASSUME OwnershipInv, Expiring, NEW w \in Workers, Work(w)
  PROVE  Lasting /\ Expiring'
<1> USE DEF Lasting, Expiring, At, Goto, LetGo, table
<1>0. /\ pc \in [Workers -> PCs] /\ held \in [Workers -> Articles \cup {None}]
      /\ job \in [Articles -> {"none", "pending", "running", "done", "failed"}]
      /\ HeldIsArticle
  BY DEF OwnershipInv, TypeOK
<1>1. CASE Pick(w)
  BY <1>0, <1>1 DEF Pick
<1>2. CASE CheckAnalysis(w)
  BY <1>0, <1>2 DEF CheckAnalysis
<1>3. CASE LoadArticle(w)
  BY <1>0, <1>3 DEF LoadArticle
<1>4. CASE CallAnswers(w) \/ CallFails(w) \/ MarkDone(w) \/ Cluster(w)
  BY <1>0, <1>4 DEF CallAnswers, CallFails, MarkDone, Cluster
<1>5. CASE SaveAnalysis(w)
  BY <1>0, <1>5 DEF SaveAnalysis
<1>6. CASE CompleteLLMJob(w)
  BY <1>0, <1>6 DEF CompleteLLMJob
<1>7. CASE FailLLMJob(w)
  BY <1>0, <1>7 DEF FailLLMJob, FailRow
<1>8. CASE ExpireLLMJob(w)
  BY <1>0, <1>8 DEF ExpireLLMJob, FailRow
<1>9. CASE MarkOutdated(w)
  BY <1>0, <1>9 DEF MarkOutdated
<1> QED BY <1>1, <1>2, <1>3, <1>4, <1>5, <1>6, <1>7, <1>8, <1>9 DEF Work

LEMMA StopLasts ==
  ASSUME OwnershipInv, Expiring, NEW p \in Procs, Stop(p) \/ Start(p)
  PROVE  Lasting /\ Expiring'
BY DEF Stop, Start, table, Lasting, Expiring

LEMMA InsertLasts ==
  ASSUME OwnershipInv, Expiring, NEW a \in Articles, NEW kind, InsertArticle(a, kind)
  PROVE  Lasting /\ Expiring'
<1>1. row \in [Articles -> {"none", "fresh", "outdated"}]
  BY DEF OwnershipInv, TypeOK
<1>2. /\ row[a] = "none" /\ row' = [row EXCEPT ![a] = kind]
      /\ UNCHANGED <<job, analysed, pc, held>>
  BY DEF InsertArticle
<1>3. Lasting
  BY <1>1, <1>2 DEF Lasting
<1>4. \A w \in Workers : pc[w] \in {"expire", "stale"} => held[w] \in Articles
  BY DEF OwnershipInv, HeldIsArticle
<1> QED BY <1>1, <1>2, <1>3, <1>4 DEF Expiring

LEMMA EnqueueLasts ==
  ASSUME OwnershipInv, Expiring, NEW a \in Articles, EnqueueLLMJob(a)
  PROVE  /\ Lasting /\ Expiring'
         /\ job'[a] = "pending"
<1>1. job \in [Articles -> {"none", "pending", "running", "done", "failed"}]
  BY DEF OwnershipInv, TypeOK
<1> QED BY <1>1 DEF EnqueueLLMJob, Lasting, Expiring

-----------------------------------------------------------------------------
(* Types of the tables.                                                    *)

Rows == {a \in Articles : stored[a] # None}

TableTypes ==
  /\ stored \in [Articles -> Items \cup {None}]
  /\ rank \in [Articles -> Nat]
  /\ status \in [Articles -> Statuses]
  /\ links \in SUBSET (Articles \X Articles)
  /\ fetches \in 0..MaxFetches /\ faults \in 0..MaxFaults
  /\ IsFiniteSet(Rows)

LEMMA InitTables ==
  ASSUME IntakeInit
  PROVE  TableTypes
<1>1. Rows = {}
  BY DEF IntakeInit, Rows
<1> QED BY <1>1, FS_EmptySet, IntakeAssumption DEF IntakeInit, TableTypes, Statuses

LEMMA StatusUpdated ==
  ASSUME TableTypes, NEW a \in Articles, NEW to \in Statuses, UpdateArticleStatus(a, to)
  PROVE  status' \in [Articles -> Statuses] /\ faults' \in 0..MaxFaults
BY IntakeAssumption DEF TableTypes, UpdateArticleStatus, SpendFault

LEMMA NewRowTypes ==
  ASSUME TableTypes, NEW i \in Items, NewRow(i)
  PROVE  /\ stored' \in [Articles -> Items \cup {None}]
         /\ rank' \in [Articles -> Nat]
         /\ status' \in [Articles -> Statuses]
         /\ IsFiniteSet(Rows')
<1>1. 1 + Cardinality({b \in Articles : stored[b] # None}) \in Nat
  BY FS_CardinalityType DEF TableTypes, Rows
<1>2. Rows' \subseteq Rows \cup {i.url}
  BY DEF NewRow, Rows, TableTypes
<1>3. IsFiniteSet(Rows \cup {i.url})
  BY FS_AddElement DEF TableTypes
<1>4. IsFiniteSet(Rows')
  BY <1>2, <1>3, FS_Subset
<1> QED BY <1>1, <1>4 DEF NewRow, TableTypes, Statuses

LEMMA ProcessTables ==
  ASSUME LocalInv, TableTypes, NEW h \in Handlers, Process(h)
  PROVE  TableTypes'
<1>0. /\ at[h] # "idle" => item[h] \in Items /\ item[h].url \in Articles
      /\ at[h] = "link" => origin[h] \in Articles
      /\ "duplicate" \in Statuses /\ "llm_pending" \in Statuses
  BY IntakeAssumption DEF LocalInv, Carried, Locals, Statuses
<1>1. CASE StoreArticle(h)
  <2>1. item[h] \in Items /\ UNCHANGED <<links, faults>> /\ UNCHANGED fetches
    BY <1>0, <1>1 DEF StoreArticle, Now, AfterInsert, Turn, Finish
  <2>2. CASE NewRow(item[h])
    BY <2>1, <2>2, NewRowTypes DEF TableTypes
  <2>3. CASE UNCHANGED <<stored, rank, status>>
    BY <2>1, <2>3 DEF TableTypes, Rows
  <2> QED BY <1>1, <2>2, <2>3 DEF StoreArticle
<1>2. CASE InsertDuplicate(h)
  BY <1>0, <1>2 DEF InsertDuplicate, Now, Turn, TableTypes, Rows
<1>3. CASE MarkDuplicate(h) \/ MarkPending(h)
  <2>1. /\ UNCHANGED <<stored, rank, links, fetches>>
        /\ item[h].url \in Articles
        /\ \E to \in Statuses : UpdateArticleStatus(item[h].url, to)
    BY <1>0, <1>3 DEF MarkDuplicate, MarkPending, Now, Finish
  <2> QED BY <2>1, StatusUpdated DEF TableTypes, Rows
<1>4. CASE IntakeError(h)
  BY <1>4, IntakeAssumption DEF IntakeError, SpendFault, Tables, Turn, Finish, Decided, TableTypes, Rows
<1>5. CASE InsertRawItem(h) \/ FindByUrl(h) \/ FindByContent(h) \/ FindByTitle(h) \/ Enqueue(h)
  BY <1>5 DEF InsertRawItem, FindByUrl, FindByContent, FindByTitle, Enqueue, Tables, Turn,
              Finish, Decided, TableTypes, Rows
<1> QED BY <1>1, <1>2, <1>3, <1>4, <1>5 DEF Process

LEMMA WorkerTables ==
  ASSUME OwnershipInv, TableTypes, NEW w \in Workers, WorkerStep(w)
  PROVE  TableTypes'
<1>1. CASE UNCHANGED intake
  BY <1>1 DEF intake, TableTypes, Rows
<1>2. CASE Writes(w) /\ UNCHANGED <<raw, stored, rank, links, at, item, origin, fetches>>
  <2>1. held[w] \in Articles
    BY <1>2 DEF OwnershipInv, HeldIsArticle, Writes, MarkDone, Cluster, MarkOutdated, At
  <2>2. \E to \in Statuses : UpdateArticleStatus(held[w], to)
    BY <1>2 DEF Writes, Statuses
  <2> QED BY <1>2, <2>1, <2>2, StatusUpdated DEF TableTypes, Rows
<1> QED BY <1>1, <1>2 DEF WorkerStep

LEMMA TablesStep ==
  ASSUME OwnershipInv, LocalInv, TableTypes, [IntakeNext]_intakeVars
  PROVE  TableTypes'
<1>1. ASSUME NEW h \in Handlers, Process(h) PROVE TableTypes'
  BY <1>1, ProcessTables
<1>2. ASSUME NEW h \in Handlers, NEW i \in Items, Fetch(h, i) PROVE TableTypes'
  BY <1>2, IntakeAssumption DEF Fetch, Tables, TableTypes, Rows
<1>3. ASSUME NEW w \in Workers, WorkerStep(w) PROVE TableTypes'
  BY <1>3, WorkerTables
<1>4. ASSUME NEW p \in Procs, StopProcess(p) PROVE TableTypes'
  BY <1>4 DEF StopProcess, Tables, TableTypes, Rows
<1>5. CASE UNCHANGED intake
  BY <1>5 DEF intake, TableTypes, Rows
<1> QED BY <1>1, <1>2, <1>3, <1>4, <1>5 DEF IntakeNext, intakeVars

-----------------------------------------------------------------------------
(* Rows that stand on others.                                              *)

Supported ==
  \A a \in Articles :
    /\ status[a] \in {"llm_done", "clustered"} => a \in analysed
    /\ status[a] = "outdated" => row[a] = "outdated"
    /\ stored[a] # None => stored[a] \in raw

Unclaimed(a) ==
  /\ job[a] = "none"
  /\ status[a] = "llm_pending" \/ \E h \in Handlers : at[h] = "pend" /\ item[h].url = a

Unlinked(a) ==
  /\ ~Linked(a)
  /\ status[a] = "duplicate" \/ \E h \in Handlers : at[h] = "mark" /\ item[h].url = a

\* The articles whose status, or the status about to be written, lacks its job
\* or link: each has a failed store call of its own.
Pledges == {a \in Articles : Unclaimed(a) \/ Unlinked(a)}

Counted == IsFiniteSet(Pledges) /\ Cardinality(Pledges) <= faults

BackingInv == Expiring /\ Supported /\ Counted

LEMMA InitBacking ==
  ASSUME IntakeInit
  PROVE  BackingInv
<1>1. Pledges = {}
  BY DEF IntakeInit, Pledges, Unclaimed, Unlinked
<1>2. Supported
  BY DEF IntakeInit, Supported
<1>3. Expiring
  BY DEF IntakeInit, Init, Expiring
<1>4. faults = 0 /\ IsFiniteSet({}) /\ Cardinality({}) = 0
  BY FS_EmptySet DEF IntakeInit
<1> QED BY <1>1, <1>2, <1>3, <1>4 DEF BackingInv, Counted

LEMMA FewerPledges ==
  ASSUME TableTypes, Counted, Pledges' \subseteq Pledges, faults' \in Nat, faults' >= faults
  PROVE  Counted'
<1>1. IsFiniteSet(Pledges') /\ Cardinality(Pledges') <= Cardinality(Pledges)
  BY FS_Subset DEF Counted
<1>2. Cardinality(Pledges) \in Nat /\ Cardinality(Pledges') \in Nat
  BY <1>1, FS_CardinalityType DEF Counted
<1>3. faults \in Nat
  BY IntakeAssumption DEF TableTypes
<1> QED BY <1>1, <1>2, <1>3 DEF Counted

LEMMA AddingOne ==
  ASSUME NEW S, IsFiniteSet(S), NEW a
  PROVE  IsFiniteSet(S \cup {a}) /\ Cardinality(S \cup {a}) <= Cardinality(S) + 1
<1>1. Cardinality(S) \in Nat
  BY FS_CardinalityType
<1>2. IsFiniteSet(S \cup {a}) /\ (a \notin S => Cardinality(S \cup {a}) = Cardinality(S) + 1)
  BY FS_AddElement
<1>3. a \in S => S \cup {a} = S
  OBVIOUS
<1>4. Cardinality(S \cup {a}) \in {Cardinality(S), Cardinality(S) + 1}
  BY <1>2, <1>3
<1> QED BY <1>1, <1>2, <1>4

LEMMA OneMorePledge ==
  ASSUME TableTypes, Counted, NEW a, Pledges' \subseteq Pledges \cup {a}, faults' = faults + 1
  PROVE  Counted'
<1>1. /\ IsFiniteSet(Pledges \cup {a})
      /\ Cardinality(Pledges \cup {a}) <= Cardinality(Pledges) + 1
  BY AddingOne DEF Counted
<1>2. IsFiniteSet(Pledges') /\ Cardinality(Pledges') <= Cardinality(Pledges \cup {a})
  BY <1>1, FS_Subset
<1>3. /\ Cardinality(Pledges) \in Nat /\ Cardinality(Pledges') \in Nat
      /\ Cardinality(Pledges \cup {a}) \in Nat
  BY <1>1, <1>2, FS_CardinalityType DEF Counted
<1>4. faults \in Nat
  BY IntakeAssumption DEF TableTypes
<1> QED BY <1>1, <1>2, <1>3, <1>4 DEF Counted

LEMMA ProcessLasts ==
  ASSUME OwnershipInv, LocalInv, Expiring, NEW h \in Handlers, Process(h)
  PROVE  Lasting /\ Expiring'
<1>1. CASE UNCHANGED vars
  BY <1>1 DEF vars, table, Lasting, Expiring
<1>2. at[h] # "idle" => item[h].url \in Articles
  BY IntakeAssumption DEF LocalInv, Carried
<1>3. at[h] # "idle"
  BY DEF Process, InsertRawItem, FindByUrl, FindByContent, FindByTitle, StoreArticle,
         InsertDuplicate, MarkDuplicate, Enqueue, MarkPending, IntakeError, Now
<1> QED BY <1>1, <1>2, <1>3, ProcessDrives, InsertLasts, EnqueueLasts

LEMMA ProcessSupports ==
  ASSUME OwnershipInv, LocalInv, TableTypes, BackingInv, NEW h \in Handlers, Process(h)
  PROVE  Supported'
<1>0. /\ Lasting
      /\ at[h] # "idle" => item[h].url \in Articles
      /\ at[h] \notin {"idle", "raw"} => item[h] \in raw
      /\ row \in [Articles -> {"none", "fresh", "outdated"}]
  BY ProcessLasts, IntakeAssumption DEF BackingInv, LocalInv, Carried, OwnershipInv, TypeOK
<1>1. \A a \in Articles : row[a] = "outdated" => row'[a] = "outdated"
  BY <1>0 DEF Lasting
<1>2. CASE UNCHANGED <<stored, status>> /\ raw \subseteq raw'
  BY <1>0, <1>1, <1>2 DEF BackingInv, Supported, Lasting
<1>3. CASE StoreArticle(h) /\ NewRow(item[h])
  <2>1. /\ row' = [row EXCEPT ![item[h].url] = Kind(item[h])]
        /\ stored' = [stored EXCEPT ![item[h].url] = item[h]]
        /\ status' = [status EXCEPT ![item[h].url] =
                        IF Kind(item[h]) = "fresh" THEN "normalized" ELSE "outdated"]
        /\ UNCHANGED raw
        /\ item[h] \in raw /\ item[h].url \in Articles
    BY <1>0, <1>3 DEF NewRow, InsertArticle, StoreArticle, Now
  <2> QED BY <1>0, <1>1, <2>1, KindIsFlag DEF BackingInv, Supported, Lasting, TableTypes
<1>4. CASE MarkDuplicate(h) \/ MarkPending(h)
  <2>1. /\ UNCHANGED <<stored, raw>> /\ item[h].url \in Articles
        /\ \/ UNCHANGED status
           \/ \E to \in {"duplicate", "llm_pending"} : status' = [status EXCEPT ![item[h].url] = to]
    BY <1>0, <1>4 DEF MarkDuplicate, MarkPending, Now, UpdateArticleStatus
  <2> QED BY <1>0, <1>1, <2>1 DEF BackingInv, Supported, Lasting, TableTypes
<1>5. CASE StoreArticle(h) /\ UNCHANGED <<stored, rank, status, vars>>
  BY <1>2, <1>5 DEF StoreArticle
<1>6. CASE InsertRawItem(h) \/ FindByUrl(h) \/ FindByContent(h) \/ FindByTitle(h)
           \/ InsertDuplicate(h) \/ Enqueue(h) \/ IntakeError(h)
  BY <1>2, <1>6 DEF InsertRawItem, FindByUrl, FindByContent, FindByTitle, InsertDuplicate,
                    Enqueue, IntakeError, Tables
<1> QED BY <1>3, <1>4, <1>5, <1>6 DEF Process, StoreArticle

\* Who comes to owe something: a goroutine whose statement failed.
LEMMA ProcessPledges ==
  ASSUME OwnershipInv, LocalInv, TableTypes, BackingInv, NEW h \in Handlers, Process(h)
  PROVE  Counted'
<1>0. /\ Lasting
      /\ at \in [Handlers -> Steps]
      /\ item \in [Handlers -> Items \cup {None}]
      /\ at[h] # "idle" => item[h].url \in Articles
      /\ at[h] = "link" => origin[h] \in Articles
      /\ job \in [Articles -> {"none", "pending", "running", "done", "failed"}]
      /\ faults \in Nat
      /\ Counted
  BY ProcessLasts, IntakeAssumption
     DEF BackingInv, LocalInv, Locals, Carried, OwnershipInv, TypeOK, TableTypes
<1>1. \A a \in Articles : job'[a] = "none" => job[a] = "none"
  BY <1>0 DEF Lasting
<1>2. CASE /\ UNCHANGED <<status, links, item, faults>>
           /\ \E to \in Steps \ {"mark", "pend"} : at' = [at EXCEPT ![h] = to]
  <2>1. Pledges' \subseteq Pledges
    BY <1>0, <1>1, <1>2 DEF Pledges, Unclaimed, Unlinked, Linked
  <2> QED BY <1>0, <1>2, <2>1, FewerPledges
<1>3. CASE Finish(h) /\ UNCHANGED <<status, links>> /\ faults' \in {faults, faults + 1}
  <2>1. Pledges' \subseteq Pledges
    BY <1>0, <1>1, <1>3 DEF Pledges, Unclaimed, Unlinked, Linked, Finish
  <2> QED BY <1>0, <1>3, <2>1, FewerPledges
<1>4. CASE InsertRawItem(h) \/ FindByUrl(h) \/ FindByContent(h) \/ FindByTitle(h)
  BY <1>2, <1>3, <1>4
     DEF InsertRawItem, FindByUrl, FindByContent, FindByTitle, Tables, Turn, Decided, Steps
<1>5. CASE StoreArticle(h)
  <2>1. /\ UNCHANGED <<links, faults>>
        /\ \/ \E to \in {"link", "enqueue"} : at' = [at EXCEPT ![h] = to] /\ UNCHANGED item
           \/ Finish(h)
    BY <1>5 DEF StoreArticle, AfterInsert, Turn
  <2>2. \A a \in Articles : \/ status'[a] = status[a]
                            \/ status'[a] \in {"normalized", "outdated"}
    BY <1>5 DEF StoreArticle, NewRow, TableTypes
  <2>3. Pledges' \subseteq Pledges
    BY <1>0, <1>1, <2>1, <2>2 DEF Pledges, Unclaimed, Unlinked, Linked, Finish
  <2> QED BY <1>0, <2>1, <2>3, FewerPledges
<1>6. CASE InsertDuplicate(h)
  <2>1. /\ links' = links \cup {<<item[h].url, origin[h]>>}
        /\ at' = [at EXCEPT ![h] = "mark"] /\ UNCHANGED <<item, status, faults>>
        /\ origin[h] \in Articles
    BY <1>0, <1>6 DEF InsertDuplicate, Now, Turn
  <2>2. Pledges' \subseteq Pledges
    BY <1>0, <1>1, <2>1 DEF Pledges, Unclaimed, Unlinked, Linked
  <2> QED BY <1>0, <2>1, <2>2, FewerPledges
<1>7. CASE MarkDuplicate(h) \/ MarkPending(h)
  <2>1. /\ UNCHANGED links /\ Finish(h) /\ faults' \in {faults, faults + 1}
        /\ \/ UNCHANGED status
           \/ at[h] = "mark" /\ status' = [status EXCEPT ![item[h].url] = "duplicate"]
           \/ at[h] = "pend" /\ status' = [status EXCEPT ![item[h].url] = "llm_pending"]
    BY <1>7 DEF MarkDuplicate, MarkPending, Now, UpdateArticleStatus, SpendFault
  <2>2. Pledges' \subseteq Pledges
    BY <1>0, <1>1, <2>1 DEF Pledges, Unclaimed, Unlinked, Linked, Finish, TableTypes
  <2> QED BY <1>0, <2>1, <2>2, FewerPledges
<1>8. CASE Enqueue(h)
  <2>1. /\ at[h] = "enqueue" /\ item[h].url \in Articles
        /\ at' = [at EXCEPT ![h] = "pend"] /\ UNCHANGED <<item, status, links, faults>>
    BY <1>0, <1>8 DEF Enqueue, Now, Turn, Tables
  <2>2. job'[item[h].url] # "none"
    <3>1. CASE EnqueueLLMJob(item[h].url)
      BY <2>1, <3>1, EnqueueLasts DEF BackingInv
    <3>2. CASE (job[item[h].url] # "none" \/ item[h].url \in analysed) /\ UNCHANGED vars
      BY <2>1, <3>2 DEF OwnershipInv, AnalysisAndJobAgree, vars, table
    <3> QED BY <1>8, <3>1, <3>2 DEF Enqueue
  <2>3. Pledges' \subseteq Pledges
    BY <1>0, <1>1, <2>1, <2>2 DEF Pledges, Unclaimed, Unlinked, Linked
  <2> QED BY <1>0, <2>1, <2>3, FewerPledges
<1>9. CASE IntakeError(h)
  <2>1. UNCHANGED <<status, links>> /\ faults' = faults + 1
    BY <1>9 DEF IntakeError, Tables, SpendFault
  <2>2. CASE Finish(h)
    BY <1>3, <2>1, <2>2
  <2>3. CASE \E to \in Steps : at' = [at EXCEPT ![h] = to] /\ UNCHANGED item
    <3>1. Pledges' \subseteq Pledges \cup {item[h].url}
      BY <1>0, <1>1, <2>1, <2>3 DEF Pledges, Unclaimed, Unlinked, Linked
    <3> QED BY <1>0, <2>1, <3>1, OneMorePledge
  <2> QED BY <1>9, <2>2, <2>3 DEF IntakeError, Turn, Decided, Steps
<1> QED BY <1>4, <1>5, <1>6, <1>7, <1>8, <1>9 DEF Process

LEMMA WorkerBacking ==
  ASSUME OwnershipInv, LocalInv, TableTypes, BackingInv, NEW w \in Workers, WorkerStep(w)
  PROVE  BackingInv'
<1>0. /\ Lasting /\ Expiring'
      /\ row \in [Articles -> {"none", "fresh", "outdated"}]
      /\ faults \in Nat
  BY WorkerDrives, WorkLasts, IntakeAssumption DEF BackingInv, OwnershipInv, TypeOK, TableTypes
<1>1. /\ \A a \in Articles : row[a] = "outdated" => row'[a] = "outdated"
      /\ \A a \in Articles : job'[a] = "none" => job[a] = "none"
      /\ analysed \subseteq analysed'
  BY <1>0 DEF Lasting
<1>2. /\ UNCHANGED <<stored, raw, links, at, item>> /\ faults' \in {faults, faults + 1}
      /\ \/ UNCHANGED status
         \/ /\ held[w] \in analysed
            /\ \E to \in {"llm_done", "clustered"} : status' = [status EXCEPT ![held[w]] = to]
         \/ /\ row[held[w]] = "outdated"
            /\ status' = [status EXCEPT ![held[w]] = "outdated"]
  <2>1. CASE UNCHANGED intake
    BY <2>1 DEF intake
  <2>2. CASE Writes(w) /\ UNCHANGED <<raw, stored, rank, links, at, item, origin, fetches>>
    <3>1. \A to : UpdateArticleStatus(held[w], to) =>
            /\ faults' \in {faults, faults + 1}
            /\ UNCHANGED status \/ status' = [status EXCEPT ![held[w]] = to]
      BY DEF UpdateArticleStatus, SpendFault
    <3>2. CASE MarkDone(w) \/ Cluster(w)
      <4>1. held[w] \in analysed
        BY <3>2 DEF MarkDone, Cluster, At, OwnershipInv, AnalysisByCounter, AfterSave
      <4>2. \E to \in {"llm_done", "clustered", "outdated"} : UpdateArticleStatus(held[w], to)
        BY <2>2 DEF Writes
      <4>3. pc[w] \in {"mark", "cluster"}
        BY <3>2 DEF MarkDone, Cluster, At
      <4>4. \E to \in {"llm_done", "clustered"} : UpdateArticleStatus(held[w], to)
        BY <2>2, <4>3 DEF Writes, MarkOutdated, At
      <4> QED BY <2>2, <3>1, <4>1, <4>4
    <3>3. CASE MarkOutdated(w)
      <4>1. pc[w] = "stale" /\ row[held[w]] = "outdated"
        BY <3>3 DEF MarkOutdated, At, BackingInv, Expiring
      <4>2. UpdateArticleStatus(held[w], "outdated")
        BY <2>2, <4>1 DEF Writes, MarkDone, Cluster, At
      <4> QED BY <2>2, <3>1, <4>1, <4>2
    <3> QED BY <2>2, <3>2, <3>3 DEF Writes
  <2> QED BY <2>1, <2>2 DEF WorkerStep
<1>3. Supported'
  BY <1>1, <1>2 DEF BackingInv, Supported, TableTypes
<1>4. Pledges' \subseteq Pledges
  BY <1>1, <1>2 DEF Pledges, Unclaimed, Unlinked, Linked, TableTypes
<1>5. Counted'
  BY <1>0, <1>2, <1>4, FewerPledges DEF BackingInv
<1> QED BY <1>0, <1>3, <1>5 DEF BackingInv

\* Steps that write no status: a fetch, the clock, a start and a stop.
LEMMA QuietBacking ==
  ASSUME LocalInv, TableTypes, BackingInv, Lasting, Expiring', UNCHANGED <<Tables, faults>>,
         \A h \in Handlers : \/ at'[h] = at[h] /\ item'[h] = item[h]
                             \/ at'[h] \notin {"mark", "pend"}
  PROVE  BackingInv'
<1>0. faults \in Nat
  BY IntakeAssumption DEF TableTypes
<1>1. Supported'
  <2>1. \A a \in Articles : row[a] = "outdated" => row'[a] = "outdated"
    BY DEF Lasting
  <2> QED BY <2>1 DEF BackingInv, Supported, Lasting, Tables
<1>2. Pledges' \subseteq Pledges
  <2>1. \A a \in Articles : job'[a] = "none" => job[a] = "none"
    BY DEF Lasting
  <2> QED BY <2>1 DEF Pledges, Unclaimed, Unlinked, Linked, Tables
<1> QED BY <1>0, <1>1, <1>2, FewerPledges DEF BackingInv

LEMMA BackingStep ==
  ASSUME OwnershipInv, LocalInv, TableTypes, BackingInv, [IntakeNext]_intakeVars
  PROVE  BackingInv'
<1>0. at \in [Handlers -> Steps] /\ item \in [Handlers -> Items \cup {None}] /\ Expiring
  BY DEF LocalInv, Locals, BackingInv
<1>1. ASSUME NEW h \in Handlers, Process(h) PROVE BackingInv'
  BY <1>0, <1>1, ProcessLasts, ProcessSupports, ProcessPledges DEF BackingInv
<1>2. ASSUME NEW h \in Handlers, NEW i \in Items, Fetch(h, i) PROVE BackingInv'
  <2>1. /\ UNCHANGED <<Tables, faults>> /\ Lasting /\ Expiring'
        /\ at' = [at EXCEPT ![h] = "raw"] /\ item' = [item EXCEPT ![h] = i]
    BY <1>0, <1>2 DEF Fetch, vars, table, Lasting, Expiring
  <2> QED BY <1>0, <2>1, QuietBacking
<1>3. ASSUME NEW w \in Workers, WorkerStep(w) PROVE BackingInv'
  BY <1>3, WorkerBacking
<1>4. ASSUME NEW p \in Procs, StopProcess(p) PROVE BackingInv'
  <2>1. Lasting /\ Expiring'
    BY <1>0, <1>4, StopLasts DEF StopProcess
  <2>2. /\ UNCHANGED <<Tables, faults>>
        /\ \A h \in Handlers : at'[h] = "idle" \/ (at'[h] = at[h] /\ item'[h] = item[h])
    BY <1>4 DEF StopProcess
  <2> QED BY <2>1, <2>2, QuietBacking
<1>5. ASSUME NEW p \in Procs, Start(p), UNCHANGED intake PROVE BackingInv'
  <2>1. Lasting /\ Expiring'
    BY <1>0, <1>5, StopLasts
  <2> QED BY <1>5, <2>1, QuietBacking DEF intake, Tables
<1>6. CASE Tick /\ UNCHANGED intake
  <2>1. Lasting /\ Expiring'
    BY <1>0, <1>6 DEF Tick, Lasting, Expiring
  <2> QED BY <1>6, <2>1, QuietBacking DEF intake, Tables
<1>7. CASE UNCHANGED intakeVars
  <2>1. Lasting /\ Expiring'
    BY <1>0, <1>7 DEF intakeVars, vars, table, Lasting, Expiring
  <2> QED BY <1>7, <2>1, QuietBacking DEF intakeVars, intake, Tables
<1> QED BY <1>1, <1>2, <1>3, <1>4, <1>5, <1>6, <1>7 DEF IntakeNext

-----------------------------------------------------------------------------
(* What the intake promises.                                               *)

\* The queue's invariant and the intake's own hold together.
THEOREM IntakeInvariant ==
  IntakeSpec => [](OwnershipInv /\ LocalInv /\ TableTypes /\ BackingInv)
<1>1. IntakeSpec => []OwnershipInv
  BY IntakeDrivesQueue, OwnershipInvariant, PTL DEF DrivesQueue
<1>2. IntakeInit => LocalInv /\ TableTypes /\ BackingInv
  BY InitLocal, InitTables, InitBacking
<1>3. OwnershipInv /\ LocalInv /\ TableTypes /\ BackingInv /\ [IntakeNext]_intakeVars
        => LocalInv' /\ TableTypes' /\ BackingInv'
  BY LocalStep, TablesStep, BackingStep
<1> QED BY <1>1, <1>2, <1>3, PTL DEF IntakeSpec

\* Every reachable state of the intake is well typed.
THEOREM IntakeTypeCorrect == IntakeSpec => []IntakeTypeOK
<1>1. LocalInv /\ TableTypes => IntakeTypeOK
  BY DEF LocalInv, Locals, TableTypes, IntakeTypeOK
<1> QED BY IntakeInvariant, <1>1, PTL

LEMMA UnbackedArePledges ==
  ASSUME TableTypes, BackingInv
  PROVE  RowsBacked
<1>1. Unbacked \subseteq Pledges
  BY DEF Unbacked, Pledges, Unclaimed, Unlinked
<1>2. Cardinality(Unbacked) <= Cardinality(Pledges) /\ IsFiniteSet(Unbacked)
  BY <1>1, FS_Subset DEF BackingInv, Counted
<1>3. Cardinality(Unbacked) \in Nat /\ Cardinality(Pledges) \in Nat /\ faults \in Nat
  BY <1>2, FS_CardinalityType, IntakeAssumption DEF BackingInv, Counted, TableTypes
<1> QED BY <1>2, <1>3 DEF RowsBacked, BackingInv, Supported, Counted

\* Whoever wrote a status last, crawler or worker, it stands on the analysis,
\* job, link or flag it speaks of, but for one article for each failed store
\* call: for any number of items, goroutines, workers and processes.
THEOREM StatusesAreBacked == IntakeSpec => []RowsBacked
<1>1. TableTypes /\ BackingInv => RowsBacked
  BY UnbackedArePledges
<1> QED BY IntakeInvariant, <1>1, PTL

-----------------------------------------------------------------------------
(* No fresh article is lost: the order of the rows.                        *)

\* Rows are numbered as they come, and a goroutine has found its origin there.
Ranked ==
  /\ \A a \in Articles : /\ stored[a] # None => rank[a] <= Cardinality(Rows)
                         /\ stored[a] = None => rank[a] = 0
  /\ \A h \in Handlers : at[h] \in {"insert", "link"} /\ origin[h] # None => origin[h] \in Rows
  /\ \A l \in links : l[2] \in Rows

RanksStay ==
  /\ Rows \subseteq Rows'
  /\ \A a \in Articles : rank'[a] >= rank[a]
  /\ \A a \in Rows : rank'[a] = rank[a]

LEMMA NewRowRanks ==
  ASSUME TableTypes, Ranked, NEW i \in Items, stored[i.url] = None, NewRow(i)
  PROVE  /\ RanksStay
         /\ Rows' = Rows \cup {i.url}
         /\ Cardinality(Rows') = Cardinality(Rows) + 1
         /\ rank'[i.url] = Cardinality(Rows) + 1
         /\ \A a \in Articles : /\ stored'[a] # None => rank'[a] <= Cardinality(Rows')
                                /\ stored'[a] = None => rank'[a] = 0
<1> DEFINE a == i.url
<1>0. a \in Articles /\ i # None
  BY IntakeAssumption
<1>1. /\ stored' = [stored EXCEPT ![a] = i]
      /\ rank' = [rank EXCEPT ![a] = 1 + Cardinality(Rows)]
  BY DEF NewRow, Rows
<1>2. Cardinality(Rows) \in Nat
  BY FS_CardinalityType DEF TableTypes
<1>3. Rows' = Rows \cup {a} /\ a \notin Rows
  BY <1>0, <1>1 DEF Rows, TableTypes
<1>4. Cardinality(Rows') = Cardinality(Rows) + 1
  BY <1>3, FS_AddElement DEF TableTypes
<1>5. RanksStay
  BY <1>0, <1>1, <1>2, <1>3 DEF RanksStay, Ranked, TableTypes
<1>6. \A b \in Articles : /\ stored'[b] # None => rank'[b] <= Cardinality(Rows')
                          /\ stored'[b] = None => rank'[b] = 0
  BY <1>0, <1>1, <1>2, <1>4 DEF Ranked, TableTypes
<1> QED BY <1>0, <1>1, <1>2, <1>3, <1>4, <1>5, <1>6 DEF TableTypes

LEMMA SameRanks ==
  ASSUME TableTypes, UNCHANGED <<stored, rank>>
  PROVE  RanksStay /\ Rows' = Rows
BY DEF TableTypes, RanksStay, Rows

LEMMA ProcessRanks ==
  ASSUME LocalInv, TableTypes, Ranked, NEW h \in Handlers, Process(h)
  PROVE  Ranked' /\ RanksStay /\ links \subseteq links'
<1>0. /\ at \in [Handlers -> Steps] /\ origin \in [Handlers -> Articles \cup {None}]
      /\ at[h] # "idle" => item[h] \in Items /\ item[h].url \in Articles
      /\ at[h] = "link" => origin[h] # None
  BY IntakeAssumption DEF LocalInv, Locals, Carried
\* A statement that writes neither rows nor links.
<1>u. ASSUME UNCHANGED <<stored, rank, links>>,
             \/ \E a \in Rows \cup {None} : Decided(h, a)
             \/ Finish(h)
             \/ \E to \in {"url", "content", "title", "mark", "enqueue", "pend"} : Turn(h, to)
             \/ at[h] = "insert" /\ Turn(h, "link")
      PROVE  Ranked' /\ RanksStay /\ links \subseteq links'
  <2>1. RanksStay /\ Rows' = Rows
    BY <1>u, SameRanks
  <2>2. \A g \in Handlers :
          at'[g] \in {"insert", "link"} /\ origin'[g] # None => origin'[g] \in Rows
    BY <1>0, <1>u DEF Decided, Finish, Turn, Ranked
  <2> QED BY <1>u, <2>1, <2>2 DEF Ranked
<1>1. CASE InsertRawItem(h)
  BY <1>1, <1>u DEF InsertRawItem
<1>2. CASE FindByUrl(h)
  <2>1. item[h].url \in Articles
    BY <1>0, <1>2 DEF FindByUrl, Now
  <2> QED BY <1>2, <1>u, <2>1 DEF FindByUrl, Tables, Rows
<1>3. CASE FindByContent(h)
  <2>1. SameContent(item[h]) \subseteq Rows
    BY DEF SameContent, Rows
  <2> QED BY <1>3, <1>u, <2>1 DEF FindByContent, Tables
<1>4. CASE FindByTitle(h)
  <2>1. SameTitle(item[h]) \subseteq Rows
    BY DEF SameTitle, Rows
  <2>2. \E a \in Rows \cup {None} : Decided(h, a)
    BY <1>4, <2>1 DEF FindByTitle
  <2> QED BY <1>4, <1>u, <2>2 DEF FindByTitle, Tables
<1>5. CASE StoreArticle(h)
  <2>1. /\ at[h] = "insert" /\ item[h] \in Items /\ UNCHANGED links
        /\ Finish(h) \/ Turn(h, "enqueue") \/ Turn(h, "link")
    BY <1>0, <1>5 DEF StoreArticle, AfterInsert, Now
  <2>2. CASE stored[item[h].url] = None /\ NewRow(item[h])
    <3>1. /\ RanksStay /\ Rows \subseteq Rows'
          /\ \A a \in Articles : /\ stored'[a] # None => rank'[a] <= Cardinality(Rows')
                                 /\ stored'[a] = None => rank'[a] = 0
      BY <2>1, <2>2, NewRowRanks
    <3>2. \A g \in Handlers :
            at'[g] \in {"insert", "link"} /\ origin'[g] # None => origin'[g] \in Rows
      BY <1>0, <2>1 DEF Finish, Turn, Ranked
    <3>3. \A g \in Handlers :
            at'[g] \in {"insert", "link"} /\ origin'[g] # None => origin'[g] \in Rows'
      BY <3>1, <3>2
    <3>4. \A l \in links' : l[2] \in Rows'
      BY <2>1, <3>1 DEF Ranked
    <3>5. Ranked'
      BY <3>1, <3>3, <3>4 DEF Ranked
    <3> QED BY <2>1, <3>1, <3>5
  <2>3. CASE UNCHANGED <<stored, rank, status, vars>>
    BY <1>u, <2>1, <2>3
  <2> QED BY <1>5, <2>2, <2>3 DEF StoreArticle
<1>6. CASE InsertDuplicate(h)
  <2>1. /\ links' = links \cup {<<item[h].url, origin[h]>>}
        /\ origin[h] \in Rows /\ Turn(h, "mark") /\ UNCHANGED <<stored, rank>>
    BY <1>0, <1>6 DEF InsertDuplicate, Now, Ranked
  <2>2. RanksStay /\ Rows' = Rows
    BY <2>1, SameRanks
  <2>3. \A g \in Handlers :
          at'[g] \in {"insert", "link"} /\ origin'[g] # None => origin'[g] \in Rows
    BY <1>0, <2>1 DEF Turn, Ranked
  <2> QED BY <2>1, <2>2, <2>3 DEF Ranked
<1>7. CASE MarkDuplicate(h) \/ MarkPending(h)
  BY <1>7, <1>u DEF MarkDuplicate, MarkPending
<1>8. CASE Enqueue(h)
  BY <1>8, <1>u DEF Enqueue, Tables
<1>9. CASE IntakeError(h)
  BY <1>9, <1>u DEF IntakeError, Tables
<1> QED BY <1>1, <1>2, <1>3, <1>4, <1>5, <1>6, <1>7, <1>8, <1>9 DEF Process

-----------------------------------------------------------------------------
(* No fresh article is lost: who answers for each.                         *)

\* A goroutine whose next statement gives the article its job, or its link to
\* a row stored before it.
Answers(h, a) ==
  /\ item[h].url = a
  /\ at[h] = "enqueue" \/ (at[h] = "link" /\ rank[origin[h]] < rank[a])

\* What settles an article, or hands it on to an earlier one.
Represented(a) ==
  \/ job[a] # "none" \/ a \in analysed
  \/ \E b \in Articles : <<a, b>> \in links /\ rank[b] < rank[a]

\* Fresh articles that nothing represents and nobody answers for.
Exposed ==
  {a \in Articles : row[a] = "fresh" /\ ~Represented(a) /\ \A h \in Handlers : ~Answers(h, a)}

ExposureInv ==
  IsFiniteSet(Exposed) /\ Cardinality(Exposed) <= faults + stops * Cardinality(Crawlers)

LEMMA UnrankedOutside ==
  ASSUME Ranked
  PROVE  \A a \in Articles : a \notin Rows => rank[a] = 0
<1> SUFFICES ASSUME NEW a \in Articles, a \notin Rows PROVE rank[a] = 0
  OBVIOUS
<1>1. stored[a] = None
  BY DEF Rows
<1> QED BY <1>1 DEF Ranked

LEMMA RepresentedStays ==
  ASSUME TableTypes, Ranked, Lasting, RanksStay, links \subseteq links',
         NEW a \in Articles, Represented(a)
  PROVE  Represented(a)'
<1>1. CASE job[a] # "none" \/ a \in analysed
  BY <1>1 DEF Lasting, Represented
<1>2. CASE \E b \in Articles : <<a, b>> \in links /\ rank[b] < rank[a]
  <2>1. PICK b \in Articles : <<a, b>> \in links /\ rank[b] < rank[a]
    BY <1>2
  <2>2. b \in Rows
    BY <2>1 DEF Ranked
  <2>3. rank'[b] = rank[b] /\ rank'[a] >= rank[a] /\ <<a, b>> \in links'
    BY <2>1, <2>2 DEF RanksStay
  <2>4. rank[a] \in Nat /\ rank[b] \in Nat /\ rank'[a] >= rank[a]
    BY <2>3 DEF TableTypes
  <2>5. CASE a \in Rows
    BY <2>1, <2>3, <2>5 DEF Represented, RanksStay
  <2>6. CASE a \notin Rows
    <3>1. rank[a] = 0
      BY <2>6, UnrankedOutside
    <3> QED BY <2>1, <2>4, <3>1
  <2> QED BY <2>5, <2>6
<1> QED BY <1>1, <1>2 DEF Represented

\* A goroutine that does not move goes on answering.
LEMMA AnswersStays ==
  ASSUME TableTypes, Ranked, RanksStay, NEW h \in Handlers, NEW a \in Articles, Answers(h, a),
         at[h] = "link" => origin[h] # None,
         at'[h] = at[h], item'[h] = item[h], origin'[h] = origin[h]
  PROVE  Answers(h, a)'
<1>1. CASE at[h] = "enqueue"
  BY <1>1 DEF Answers
<1>2. CASE at[h] = "link"
  <2>1. origin[h] \in Rows /\ rank[origin[h]] < rank[a] /\ item[h].url = a
    BY <1>2 DEF Ranked, Answers
  <2>2. rank[origin[h]] \in Nat /\ rank[a] \in Nat
    BY <2>1 DEF TableTypes, Rows
  <2>3. a \in Rows
    BY <2>1, <2>2, UnrankedOutside
  <2>4. rank'[a] = rank[a] /\ rank'[origin[h]] = rank[origin[h]]
    BY <2>1, <2>3 DEF RanksStay
  <2> QED BY <1>2, <2>1, <2>4 DEF Answers
<1> QED BY <1>1, <1>2 DEF Answers

\* Nothing becomes exposed but where somebody ceases to answer, or a new row.
LEMMA ExposedWithin ==
  ASSUME TableTypes, Ranked, LocalInv, Lasting, RanksStay, links \subseteq links', NEW X,
         \A a \in Articles \ X : row'[a] = "fresh" => row[a] = "fresh",
         \A g \in Handlers : \/ at'[g] = at[g] /\ item'[g] = item[g] /\ origin'[g] = origin[g]
                             \/ \A a \in Articles \ X : Answers(g, a) => Represented(a)'
  PROVE  Exposed' \subseteq Exposed \cup X
<1> SUFFICES ASSUME NEW a \in Exposed', a \notin X
             PROVE  a \in Exposed
  OBVIOUS
<1>1. a \in Articles /\ row'[a] = "fresh" /\ ~(Represented(a)') /\ \A h \in Handlers : ~(Answers(h, a)')
  BY DEF Exposed
<1>2. row[a] = "fresh" /\ ~Represented(a)
  BY <1>1, RepresentedStays
<1>3. ASSUME NEW h \in Handlers PROVE ~Answers(h, a)
  <2>1. CASE at'[h] = at[h] /\ item'[h] = item[h] /\ origin'[h] = origin[h]
    BY <1>1, <2>1, AnswersStays DEF LocalInv, Carried
  <2>2. CASE \A b \in Articles \ X : Answers(h, b) => Represented(b)'
    BY <1>1, <2>2
  <2> QED BY <2>1, <2>2
<1> QED BY <1>1, <1>2, <1>3 DEF Exposed

\* The articles of one process's goroutines.
LEMMA AtMostCrawlers ==
  ASSUME NEW p \in Procs
  PROVE  LET U == {item[h].url : h \in {p} \X Crawlers}
         IN  IsFiniteSet(U) /\ Cardinality(U) <= Cardinality(Crawlers)
<1> DEFINE U == {item[h].url : h \in {p} \X Crawlers}
           f == [c \in Crawlers |-> item[<<p, c>>].url]
<1>1. f \in Surjection(Crawlers, U)
  <2>1. \A c \in Crawlers : <<p, c>> \in {p} \X Crawlers
    OBVIOUS
  <2>2. f \in [Crawlers -> U]
    BY <2>1
  <2>3. \A x \in U : \E c \in Crawlers : f[c] = x
    OBVIOUS
  <2> QED BY <2>2, <2>3 DEF Surjection
<1> HIDE DEF f, U
<1>2. IsFiniteSet(U) /\ Cardinality(U) <= Cardinality(Crawlers)
  BY <1>1, FS_Surjection, IntakeAssumption
<1> QED BY <1>2 DEF U

LEMMA NotMoreExposed ==
  ASSUME TableTypes, OwnershipInv, ExposureInv, Exposed' \subseteq Exposed,
         faults' \in {faults, faults + 1}, UNCHANGED stops
  PROVE  ExposureInv'
<1> DEFINE n == Cardinality(Crawlers)
<1>1. /\ faults \in Nat /\ stops \in Nat /\ n \in Nat
  BY IntakeAssumption, QueueAssumption, FS_CardinalityType DEF TableTypes, OwnershipInv, TypeOK
<1> HIDE DEF n
<1>2. stops * n \in Nat
  BY <1>1, OneMoreStop
<1>3. IsFiniteSet(Exposed') /\ Cardinality(Exposed') <= Cardinality(Exposed)
  BY FS_Subset DEF ExposureInv
<1>4. Cardinality(Exposed) \in Nat /\ Cardinality(Exposed') \in Nat
  BY <1>3, FS_CardinalityType DEF ExposureInv
<1>5. Cardinality(Exposed) <= faults + stops * n
  BY DEF ExposureInv, n
<1>6. Cardinality(Exposed') <= faults' + stops' * n
  BY <1>1, <1>2, <1>3, <1>4, <1>5
<1> QED BY <1>3, <1>6 DEF ExposureInv, n

LEMMA OneMoreExposed ==
  ASSUME TableTypes, OwnershipInv, ExposureInv, NEW a, Exposed' \subseteq Exposed \cup {a},
         faults' = faults + 1, UNCHANGED stops
  PROVE  ExposureInv'
<1> DEFINE n == Cardinality(Crawlers)
<1>1. /\ faults \in Nat /\ stops \in Nat /\ n \in Nat
  BY IntakeAssumption, QueueAssumption, FS_CardinalityType DEF TableTypes, OwnershipInv, TypeOK
<1> HIDE DEF n
<1>2. stops * n \in Nat
  BY <1>1, OneMoreStop
<1>3. IsFiniteSet({a}) /\ Cardinality({a}) = 1
  BY FS_Singleton
<1>4. /\ IsFiniteSet(Exposed') /\ Cardinality(Exposed') \in Nat
      /\ Cardinality(Exposed') <= Cardinality(Exposed) + 1
  BY <1>3, UnionBound DEF ExposureInv
<1>5. Cardinality(Exposed) \in Nat /\ Cardinality(Exposed) <= faults + stops * n
  BY FS_CardinalityType DEF ExposureInv, n
<1>6. Cardinality(Exposed') <= faults' + stops' * n
  BY <1>1, <1>2, <1>4, <1>5
<1> QED BY <1>4, <1>6 DEF ExposureInv, n

LEMMA ProcessExposes ==
  ASSUME OwnershipInv, LocalInv, TableTypes, BackingInv, Ranked, ExposureInv,
         NEW h \in Handlers, Process(h)
  PROVE  ExposureInv'
<1>0. /\ Lasting /\ RanksStay /\ links \subseteq links'
      /\ at \in [Handlers -> Steps] /\ item \in [Handlers -> Items \cup {None}]
      /\ origin \in [Handlers -> Articles \cup {None}]
      /\ at[h] # "idle" => item[h].url \in Articles
      /\ at[h] = "link" => origin[h] \in Articles
      /\ row \in [Articles -> {"none", "fresh", "outdated"}]
  BY ProcessLasts, ProcessRanks, IntakeAssumption
     DEF BackingInv, LocalInv, Locals, Carried, OwnershipInv, TypeOK
<1>1. \A g \in Handlers : g # h => at'[g] = at[g] /\ item'[g] = item[g] /\ origin'[g] = origin[g]
  BY <1>0 DEF Process, InsertRawItem, FindByUrl, FindByContent, FindByTitle, StoreArticle,
              InsertDuplicate, MarkDuplicate, Enqueue, MarkPending, IntakeError, AfterInsert,
              Turn, Finish, Decided
\* A goroutine that answered for nothing, or for what is represented now.
<1>n. ASSUME UNCHANGED <<row, stops>>, faults' \in {faults, faults + 1},
             \A a \in Articles : Answers(h, a) => Represented(a)'
      PROVE  ExposureInv'
  <2>1. Exposed' \subseteq Exposed \cup {}
    BY <1>0, <1>1, <1>n, ExposedWithin
  <2> QED BY <1>n, <2>1, NotMoreExposed
<1>2. CASE InsertRawItem(h) \/ FindByUrl(h) \/ FindByContent(h) \/ FindByTitle(h)
  BY <1>2, <1>n DEF InsertRawItem, FindByUrl, FindByContent, FindByTitle, Now, Answers, vars,
                    table, budgets
<1>3. CASE MarkDuplicate(h) \/ MarkPending(h)
  BY <1>3, <1>n DEF MarkDuplicate, MarkPending, UpdateArticleStatus, SpendFault, Now, Answers,
                    vars, table, budgets
<1>4. CASE StoreArticle(h)
  <2>1. at[h] = "insert" /\ UNCHANGED faults /\ item[h] \in Items /\ item[h].url \in Articles
    BY <1>0, <1>4 DEF StoreArticle, Now, LocalInv, Carried
  <2>2. CASE UNCHANGED <<stored, rank, status, vars>>
    BY <1>n, <2>1, <2>2 DEF Answers, vars, table, budgets
  <2>3. CASE stored[item[h].url] = None /\ NewRow(item[h])
    <3> DEFINE u == item[h].url
    <3>1. /\ row' = [row EXCEPT ![u] = Kind(item[h])] /\ UNCHANGED stops
          /\ rank'[u] = Cardinality(Rows) + 1
      BY <2>1, <2>3, NewRowRanks DEF NewRow, InsertArticle, budgets
    <3>2. Exposed' \subseteq Exposed \cup {u}
      <4>1. \A a \in Articles \ {u} : row'[a] = "fresh" => row[a] = "fresh"
        BY <1>0, <3>1
      <4>2. \A a \in Articles : ~Answers(h, a)
        BY <2>1 DEF Answers
      <4> QED BY <1>0, <1>1, <4>1, <4>2, ExposedWithin
    <3>3. u \notin Exposed'
      <4>1. CASE Kind(item[h]) # "fresh"
        BY <1>0, <2>1, <3>1, <4>1 DEF Exposed
      <4>2. CASE Kind(item[h]) = "fresh" /\ origin[h] = None
        <5>1. at'[h] = "enqueue" /\ item'[h] = item[h]
          BY <1>0, <1>4, <4>2 DEF StoreArticle, AfterInsert, Turn
        <5> QED BY <5>1 DEF Exposed, Answers
      <4>3. CASE origin[h] # None
        <5>1. at'[h] = "link" /\ item'[h] = item[h] /\ origin'[h] = origin[h]
          BY <1>0, <1>4, <4>3 DEF StoreArticle, AfterInsert, Turn
        <5>2. origin[h] \in Rows
          BY <2>1, <4>3 DEF Ranked
        <5>3. rank'[origin[h]] = rank[origin[h]] /\ rank[origin[h]] <= Cardinality(Rows)
          BY <1>0, <5>2 DEF RanksStay, Ranked, Rows
        <5>4. rank[origin[h]] \in Nat /\ Cardinality(Rows) \in Nat
          BY <5>2, FS_CardinalityType DEF TableTypes, Rows
        <5>5. rank'[origin'[h]] < rank'[u]
          BY <3>1, <5>1, <5>3, <5>4
        <5> QED BY <5>1, <5>5 DEF Exposed, Answers
      <4> QED BY <4>1, <4>2, <4>3
    <3> QED BY <2>1, <3>1, <3>2, <3>3, NotMoreExposed
  <2> QED BY <1>4, <2>2, <2>3 DEF StoreArticle
<1>5. CASE InsertDuplicate(h)
  <2>1. /\ at[h] = "link" /\ links' = links \cup {<<item[h].url, origin[h]>>}
        /\ UNCHANGED <<rank, row, stops, faults>> /\ origin[h] \in Articles
    BY <1>0, <1>5 DEF InsertDuplicate, Now, vars, table, budgets
  <2>2. \A a \in Articles : Answers(h, a) => Represented(a)'
    BY <2>1 DEF Answers, Represented
  <2> QED BY <1>n, <2>1, <2>2
<1>6. CASE Enqueue(h)
  <2>1. at[h] = "enqueue" /\ item[h].url \in Articles /\ UNCHANGED faults
    BY <1>0, <1>6 DEF Enqueue, Now
  <2>2. UNCHANGED <<row, stops>>
    BY <1>6 DEF Enqueue, EnqueueLLMJob, vars, table, budgets
  <2>3. job'[item[h].url] # "none" \/ item[h].url \in analysed'
    <3>1. CASE EnqueueLLMJob(item[h].url)
      BY <2>1, <3>1, EnqueueLasts DEF BackingInv
    <3>2. CASE (job[item[h].url] # "none" \/ item[h].url \in analysed) /\ UNCHANGED vars
      BY <3>2 DEF vars, table
    <3> QED BY <1>6, <3>1, <3>2 DEF Enqueue
  <2>4. \A a \in Articles : Answers(h, a) => Represented(a)'
    BY <2>3 DEF Answers, Represented
  <2> QED BY <1>n, <2>1, <2>2, <2>4
<1>7. CASE IntakeError(h)
  <2>1. faults' = faults + 1 /\ UNCHANGED <<row, stops>>
    BY <1>7 DEF IntakeError, SpendFault, vars, table, budgets
  <2>2. Exposed' \subseteq Exposed \cup {item[h].url}
    <3>1. \A a \in Articles \ {item[h].url} : ~Answers(h, a)
      BY DEF Answers
    <3> QED BY <1>0, <1>1, <2>1, <3>1, ExposedWithin
  <2> QED BY <2>1, <2>2, OneMoreExposed
<1> QED BY <1>2, <1>3, <1>4, <1>5, <1>6, <1>7 DEF Process

\* Steps of nobody but the workers, the clock and a goroutine that fetches.
LEMMA OthersExpose ==
  ASSUME OwnershipInv, LocalInv, TableTypes, Ranked, ExposureInv, Lasting,
         UNCHANGED <<row, stops, stored, rank, links>>, faults' \in {faults, faults + 1},
         \A h \in Handlers : \/ at'[h] = at[h] /\ item'[h] = item[h] /\ origin'[h] = origin[h]
                             \/ /\ at[h] \notin {"enqueue", "link"}
                                /\ at'[h] \notin {"insert", "link"}
  PROVE  Ranked' /\ ExposureInv'
<1>1. RanksStay /\ Rows' = Rows
  BY SameRanks
<1>2. Ranked'
  BY <1>1 DEF Ranked
<1>3. Exposed' \subseteq Exposed \cup {}
  BY <1>1, ExposedWithin DEF Answers
<1> QED BY <1>2, <1>3, NotMoreExposed

LEMMA WorkFrame ==
  ASSUME NEW w \in Workers, WorkerStep(w)
  PROVE  /\ UNCHANGED <<row, stops, stored, rank, links, at, item, origin>>
         /\ faults' \in {faults, faults + 1}
<1>1. Work(w)
  BY WorkerDrives
<1>2. UNCHANGED <<row, stops>>
  BY <1>1 DEF Work, Pick, CheckAnalysis, LoadArticle, CallAnswers, CallFails, SaveAnalysis,
              MarkDone, Cluster, CompleteLLMJob, FailLLMJob, ExpireLLMJob, FailRow,
              MarkOutdated, Steady, budgets, table
<1>3. UNCHANGED <<stored, rank, links, at, item, origin>> /\ faults' \in {faults, faults + 1}
  BY DEF WorkerStep, Writes, intake, UpdateArticleStatus, SpendFault
<1> QED BY <1>2, <1>3

LEMMA StopExposes ==
  ASSUME OwnershipInv, LocalInv, TableTypes, BackingInv, Ranked, ExposureInv,
         NEW p \in Procs, StopProcess(p)
  PROVE  Ranked' /\ ExposureInv'
<1> DEFINE n == Cardinality(Crawlers)
           U == {item[h].url : h \in {p} \X Crawlers}
<1>0. /\ faults \in Nat /\ stops \in Nat /\ n \in Nat /\ Lasting
  BY IntakeAssumption, QueueAssumption, FS_CardinalityType, StopLasts
     DEF TableTypes, OwnershipInv, TypeOK, BackingInv, StopProcess
<1>1. /\ UNCHANGED <<row, stored, rank, links, faults>> /\ stops' = stops + 1
      /\ \A h \in Handlers : h[1] # p => at'[h] = at[h] /\ item'[h] = item[h] /\ origin'[h] = origin[h]
      /\ \A h \in Handlers : h[1] = p => at'[h] = "idle"
  BY DEF StopProcess, Stop, Tables, table
<1>2. RanksStay /\ Rows' = Rows
  BY <1>1, SameRanks
<1>3. Ranked'
  BY <1>1, <1>2 DEF Ranked
<1>4. \A h \in Handlers : h[1] = p => item[h].url \in U
  BY DEF Handlers
<1>5. Exposed' \subseteq Exposed \cup U
  <2>1. \A h \in Handlers : h[1] = p => \A a \in Articles \ U : ~Answers(h, a)
    BY <1>4 DEF Answers
  <2> HIDE DEF U
  <2> QED BY <1>0, <1>1, <1>2, <2>1, ExposedWithin
<1>6. IsFiniteSet(U) /\ Cardinality(U) <= n /\ Cardinality(U) \in Nat
  BY AtMostCrawlers, FS_CardinalityType DEF n
<1> HIDE DEF n, U
<1>7. stops * n \in Nat /\ (stops + 1) * n = stops * n + n
  BY <1>0, OneMoreStop
<1>8. /\ IsFiniteSet(Exposed') /\ Cardinality(Exposed') \in Nat
      /\ Cardinality(Exposed') <= Cardinality(Exposed) + Cardinality(U)
  BY <1>5, <1>6, UnionBound DEF ExposureInv
<1>9. Cardinality(Exposed) \in Nat /\ Cardinality(Exposed) <= faults + stops * n
  BY FS_CardinalityType DEF ExposureInv, n
<1>10. Cardinality(Exposed') <= faults + (stops * n + n)
  BY <1>0, <1>6, <1>7, <1>8, <1>9
<1>11. Cardinality(Exposed') <= faults' + stops' * n
  BY <1>1, <1>7, <1>10
<1> QED BY <1>3, <1>8, <1>11 DEF ExposureInv, n

LEMMA ExposureStep ==
  ASSUME OwnershipInv, LocalInv, TableTypes, BackingInv, Ranked, ExposureInv,
         [IntakeNext]_intakeVars
  PROVE  Ranked' /\ ExposureInv'
<1>0. /\ at \in [Handlers -> Steps] /\ item \in [Handlers -> Items \cup {None}]
      /\ origin \in [Handlers -> Articles \cup {None}] /\ Expiring
  BY DEF LocalInv, Locals, BackingInv
<1>1. ASSUME NEW h \in Handlers, Process(h) PROVE Ranked' /\ ExposureInv'
  BY <1>1, ProcessRanks, ProcessExposes
<1>2. ASSUME NEW h \in Handlers, NEW i \in Items, Fetch(h, i) PROVE Ranked' /\ ExposureInv'
  <2>1. /\ UNCHANGED <<row, stops, stored, rank, links, faults>> /\ Lasting
        /\ at[h] = "idle" /\ at'[h] = "raw"
        /\ \A g \in Handlers : g # h => at'[g] = at[g] /\ item'[g] = item[g] /\ origin'[g] = origin[g]
    BY <1>0, <1>2 DEF Fetch, Now, Tables, vars, table, budgets, Lasting
  <2> QED BY <2>1, OthersExpose
<1>3. ASSUME NEW w \in Workers, WorkerStep(w) PROVE Ranked' /\ ExposureInv'
  <2>1. Lasting
    BY <1>0, <1>3, WorkerDrives, WorkLasts
  <2> QED BY <1>3, <2>1, WorkFrame, OthersExpose
<1>4. ASSUME NEW p \in Procs, StopProcess(p) PROVE Ranked' /\ ExposureInv'
  BY <1>4, StopExposes
<1>5. ASSUME UNCHANGED intake, (\E p \in Procs : Start(p)) \/ Tick \/ UNCHANGED vars
      PROVE  Ranked' /\ ExposureInv'
  <2>1. Lasting /\ UNCHANGED <<row, stops>>
    BY <1>5 DEF Start, Tick, vars, table, budgets, Lasting
  <2> QED BY <1>5, <2>1, OthersExpose DEF intake
<1> QED BY <1>1, <1>2, <1>3, <1>4, <1>5 DEF IntakeNext, intakeVars

LEMMA InitExposure ==
  ASSUME IntakeInit
  PROVE  Ranked /\ ExposureInv
<1>1. Exposed = {}
  BY DEF IntakeInit, Init, Exposed
<1>2. Ranked
  BY DEF IntakeInit, Ranked
<1>3. IsFiniteSet({}) /\ Cardinality({}) = 0 /\ Cardinality(Crawlers) \in Nat
  BY FS_EmptySet, FS_CardinalityType, IntakeAssumption
<1>4. faults = 0 /\ stops = 0
  BY DEF IntakeInit, Init
<1> QED BY <1>1, <1>2, <1>3, <1>4 DEF ExposureInv

-----------------------------------------------------------------------------
(* No fresh article is lost: where the links lead.                         *)

\* A row has its item, and an item its row.
RowPerItem == \A a \in Articles : stored[a] # None <=> row[a] # "none"

LEMMA RowPerItemStep ==
  ASSUME OwnershipInv, LocalInv, TableTypes, RowPerItem, [IntakeNext]_intakeVars
  PROVE  RowPerItem'
<1>0. row \in [Articles -> {"none", "fresh", "outdated"}] /\ stored \in [Articles -> Items \cup {None}]
  BY DEF OwnershipInv, TypeOK, TableTypes
<1>1. ASSUME UNCHANGED <<stored, row>> PROVE RowPerItem'
  BY <1>1 DEF RowPerItem
<1>2. ASSUME NEW h \in Handlers, Process(h) PROVE RowPerItem'
  <2>1. CASE StoreArticle(h)
    <3>1. item[h] \in Items
      BY <2>1 DEF StoreArticle, Now, LocalInv, Carried
    <3>2. CASE NewRow(item[h])
      <4>1. /\ item[h].url \in Articles /\ item[h] # None /\ Kind(item[h]) # "none"
            /\ row' = [row EXCEPT ![item[h].url] = Kind(item[h])]
            /\ stored' = [stored EXCEPT ![item[h].url] = item[h]]
        BY <3>1, <3>2, IntakeAssumption DEF NewRow, InsertArticle, Kind
      <4> QED BY <1>0, <4>1 DEF RowPerItem
    <3>3. CASE UNCHANGED <<stored, rank, status, vars>>
      BY <1>1, <3>3 DEF vars, table
    <3> QED BY <2>1, <3>2, <3>3 DEF StoreArticle
  <2>2. CASE \/ InsertRawItem(h) \/ FindByUrl(h) \/ FindByContent(h) \/ FindByTitle(h)
             \/ InsertDuplicate(h) \/ MarkDuplicate(h) \/ MarkPending(h) \/ IntakeError(h)
    BY <1>1, <2>2 DEF InsertRawItem, FindByUrl, FindByContent, FindByTitle, InsertDuplicate,
                      MarkDuplicate, MarkPending, IntakeError, Tables, vars, table
  <2>3. CASE Enqueue(h)
    BY <1>1, <2>3 DEF Enqueue, EnqueueLLMJob, Tables, vars, table
  <2> QED BY <1>2, <2>1, <2>2, <2>3 DEF Process
<1>3. ASSUME NEW h \in Handlers, NEW i \in Items, Fetch(h, i) PROVE RowPerItem'
  BY <1>1, <1>3 DEF Fetch, Tables, vars, table
<1>4. ASSUME NEW w \in Workers, WorkerStep(w) PROVE RowPerItem'
  BY <1>1, <1>4, WorkFrame
<1>5. ASSUME NEW p \in Procs, StopProcess(p) PROVE RowPerItem'
  BY <1>1, <1>5 DEF StopProcess, Stop, Tables, table
<1>6. ASSUME UNCHANGED intake, (\E p \in Procs : Start(p)) \/ Tick \/ UNCHANGED vars
      PROVE  RowPerItem'
  BY <1>1, <1>6 DEF Start, Tick, intake, vars, table
<1> QED BY <1>2, <1>3, <1>4, <1>5, <1>6 DEF IntakeNext, intakeVars

\* Links to earlier rows come to an end, at a row or where they began: what an
\* article leads to is closed, and its earliest member leads no further.
LEMMA LinksEnd ==
  ASSUME TableTypes, Ranked, NEW a \in Articles
  PROVE  \E b \in LeadsTo(a) : (b = a \/ b \in Rows) /\ \A l \in Earlier : l[1] # b
<1>1. a \in LeadsTo(a) /\ LeadsTo(a) \subseteq Articles
  BY DEF LeadsTo
<1>2. \A l \in Earlier : l[1] \in LeadsTo(a) => l[2] \in LeadsTo(a)
  <2> SUFFICES ASSUME NEW l \in Earlier, l[1] \in LeadsTo(a) PROVE l[2] \in LeadsTo(a)
    OBVIOUS
  <2>1. l[2] \in Articles
    BY DEF Earlier, TableTypes
  <2> QED BY <2>1 DEF LeadsTo
<1>3. LeadsTo(a) \subseteq {a} \cup Rows
  <2> DEFINE S == {a} \cup Rows
  <2>1. S \in SUBSET Articles
    BY DEF Rows
  <2>2. a \in S /\ \A l \in Earlier : l[1] \in S => l[2] \in S
    BY DEF Earlier, Ranked
  <2> QED BY <2>1, <2>2 DEF LeadsTo
<1> DEFINE T == {rank[b] : b \in LeadsTo(a)}
<1>4. T \subseteq Nat /\ T # {}
  BY <1>1 DEF TableTypes
<1>5. \E x \in T : \A y \in T : x <= y
  <2> HIDE DEF T
  <2> QED BY <1>4, LeastExists
<1>6. PICK b \in LeadsTo(a) : \A c \in LeadsTo(a) : rank[b] <= rank[c]
  BY <1>5
<1>7. \A l \in Earlier : l[1] # b
  <2> SUFFICES ASSUME NEW l \in Earlier, l[1] = b PROVE FALSE
    OBVIOUS
  <2>1. l[2] \in LeadsTo(a) /\ rank[l[2]] < rank[b]
    BY <1>2 DEF Earlier
  <2>2. rank[l[2]] \in Nat /\ rank[b] \in Nat
    BY <1>1, <2>1 DEF TableTypes
  <2> QED BY <1>6, <2>1, <2>2
<1> QED BY <1>3, <1>7

\* Who answers is busy, so what is stranded is exposed.
LEMMA StrandedAreExposed ==
  ASSUME TableTypes
  PROVE  Stranded \subseteq Exposed
<1> SUFFICES ASSUME NEW a \in Stranded PROVE a \in Exposed
  OBVIOUS
<1>1. /\ a \in Articles /\ row[a] = "fresh" /\ a \notin Settled /\ ~Busy(a)
      /\ \A l \in Earlier : l[1] # a
  BY DEF Stranded
<1>2. ASSUME NEW b \in Articles, <<a, b>> \in links, rank[b] < rank[a] PROVE FALSE
  <2>1. <<a, b>>[1] = a /\ <<a, b>>[2] = b
    OBVIOUS
  <2>2. <<a, b>> \in Earlier
    BY <1>2, <2>1 DEF Earlier
  <2> QED BY <1>1, <2>1, <2>2
<1> QED BY <1>1, <1>2 DEF Exposed, Represented, Settled, Answers, Busy

LEMMA ExposureMeansAccounted ==
  ASSUME OwnershipInv, TableTypes, Ranked, RowPerItem, ExposureInv
  PROVE  FreshAccounted
<1> DEFINE n == Cardinality(Crawlers)
<1>1. ASSUME NEW a \in Articles, row[a] = "fresh"
      PROVE  \E b \in LeadsTo(a) :
               b \in Settled \/ Busy(b) \/ row[b] = "outdated" \/ b \in Stranded
  <2>1. PICK b \in LeadsTo(a) : (b = a \/ b \in Rows) /\ \A l \in Earlier : l[1] # b
    BY LinksEnd
  <2>2. b \in Articles
    BY DEF LeadsTo
  <2>3. row[b] \in {"fresh", "outdated"}
    BY <1>1, <2>1, <2>2 DEF RowPerItem, Rows, OwnershipInv, TypeOK
  <2> QED BY <2>1, <2>2, <2>3 DEF Stranded
<1>2. Cardinality(Stranded) <= Cardinality(Exposed) /\ IsFiniteSet(Stranded)
  BY StrandedAreExposed, FS_Subset DEF ExposureInv
<1>3. /\ Cardinality(Stranded) \in Nat /\ Cardinality(Exposed) \in Nat
      /\ faults \in Nat /\ stops \in Nat /\ n \in Nat
  BY <1>2, FS_CardinalityType, IntakeAssumption, QueueAssumption
     DEF ExposureInv, TableTypes, OwnershipInv, TypeOK
<1> HIDE DEF n
<1>4. stops * n \in Nat
  BY <1>3, OneMoreStop
<1>5. Cardinality(Exposed) <= faults + stops * n
  BY DEF ExposureInv, n
<1>6. Cardinality(Stranded) <= faults + stops * n
  BY <1>2, <1>3, <1>4, <1>5
<1> QED BY <1>1, <1>6 DEF FreshAccounted, n

\* Every fresh article leads, over links to earlier rows, to one with a job or an
\* analysis, to one a goroutine has in hand, to an outdated one or to a stranded
\* one, and of the last there is one at most for each failed store call and each
\* goroutine of a stopped process: whatever the crawlers fetch and however their
\* statements interleave, copies are lost with a stranded article only.
THEOREM FreshAreAccounted == IntakeSpec => []FreshAccounted
<1>1. IntakeInit => Ranked /\ ExposureInv /\ RowPerItem
  BY InitExposure DEF IntakeInit, Init, RowPerItem
<1>2. OwnershipInv /\ LocalInv /\ TableTypes /\ BackingInv /\ Ranked /\ ExposureInv
        /\ [IntakeNext]_intakeVars => Ranked' /\ ExposureInv'
  BY ExposureStep
<1>3. OwnershipInv /\ LocalInv /\ TableTypes /\ RowPerItem /\ [IntakeNext]_intakeVars => RowPerItem'
  BY RowPerItemStep
<1>4. OwnershipInv /\ TableTypes /\ Ranked /\ RowPerItem /\ ExposureInv => FreshAccounted
  BY ExposureMeansAccounted
<1> QED BY <1>1, <1>2, <1>3, <1>4, IntakeInvariant, PTL DEF IntakeSpec

-----------------------------------------------------------------------------
(* One text, few jobs.                                                     *)

\* A row comes before its job.
HasRow == \A a \in Articles : row[a] # "none" \/ job[a] # "none" => stored[a] # None

Queued(c) == {a \in Articles : /\ job[a] # "none" /\ stored[a] # None
                               /\ Content(stored[a]) = c /\ Stable(a)}

\* Goroutines that have found no row with the text and may queue it.
Missed(c) == {h \in Handlers : /\ Content(item[h]) = c
                               /\ \/ at[h] \in {"title", "enqueue"}
                                  \/ at[h] = "insert" /\ origin[h] = None}

\* While no row has the text nothing of it is queued; once one has, only a
\* failed search lets another goroutine miss it.
JobsInv ==
  /\ HasRow
  /\ \A c : c # None => /\ IsFiniteSet(Queued(c))
                        /\ Cardinality(Queued(c)) + Cardinality(Missed(c))
                             <= Cardinality(Handlers) + faults

LEMMA FiniteHandlers ==
  ASSUME IsFiniteSet(Procs), NEW c
  PROVE  /\ IsFiniteSet(Handlers) /\ Cardinality(Handlers) \in Nat
         /\ IsFiniteSet(Missed(c)) /\ Cardinality(Missed(c)) \in Nat
         /\ Cardinality(Missed(c)) <= Cardinality(Handlers)
         /\ IsFiniteSet(Missed(c)') /\ Cardinality(Missed(c)') \in Nat
         /\ Cardinality(Missed(c)') <= Cardinality(Handlers)
<1>1. IsFiniteSet(Handlers)
  BY FS_Product, IntakeAssumption DEF Handlers
<1>2. Missed(c) \subseteq Handlers /\ Missed(c)' \subseteq Handlers
  BY DEF Missed, Handlers
<1> QED BY <1>1, <1>2, FS_Subset, FS_CardinalityType

\* What a step owes to the balance of one text.
Balanced(c) ==
  /\ IsFiniteSet(Queued(c)')
  /\ Cardinality(Queued(c)') + Cardinality(Missed(c)') <= Cardinality(Handlers) + faults'

LEMMA BalanceKept ==
  ASSUME TableTypes, JobsInv, IsFiniteSet(Procs), NEW c, c # None,
         Queued(c)' \subseteq Queued(c), Missed(c)' \subseteq Missed(c),
         faults' \in Nat, faults' >= faults
  PROVE  Balanced(c)
<1>1. /\ IsFiniteSet(Queued(c))
      /\ Cardinality(Queued(c)) + Cardinality(Missed(c)) <= Cardinality(Handlers) + faults
  BY DEF JobsInv
<1>2. /\ IsFiniteSet(Queued(c)')
      /\ Cardinality(Queued(c)') <= Cardinality(Queued(c))
      /\ Cardinality(Missed(c)') <= Cardinality(Missed(c))
  BY <1>1, FiniteHandlers, FS_Subset
<1>3. /\ Cardinality(Queued(c)) \in Nat /\ Cardinality(Queued(c)') \in Nat
      /\ faults \in Nat
  BY <1>1, <1>2, FS_CardinalityType, IntakeAssumption DEF TableTypes
<1> QED BY <1>1, <1>2, <1>3, FiniteHandlers DEF Balanced

\* A search that failed.
LEMMA BalanceFault ==
  ASSUME TableTypes, JobsInv, IsFiniteSet(Procs), NEW c, c # None, NEW h,
         Queued(c)' \subseteq Queued(c), Missed(c)' \subseteq Missed(c) \cup {h},
         faults' = faults + 1
  PROVE  Balanced(c)
<1>1. /\ IsFiniteSet(Queued(c))
      /\ Cardinality(Queued(c)) + Cardinality(Missed(c)) <= Cardinality(Handlers) + faults
  BY DEF JobsInv
<1>2. IsFiniteSet(Queued(c)') /\ Cardinality(Queued(c)') <= Cardinality(Queued(c))
  BY <1>1, FS_Subset
<1>3. Cardinality(Missed(c)') <= Cardinality(Missed(c)) + 1
  <2>1. /\ IsFiniteSet(Missed(c) \cup {h})
        /\ Cardinality(Missed(c) \cup {h}) <= Cardinality(Missed(c)) + 1
    BY FiniteHandlers, AddingOne
  <2>2. Cardinality(Missed(c)') <= Cardinality(Missed(c) \cup {h})
    BY <2>1, FS_Subset
  <2> QED BY <2>1, <2>2, FiniteHandlers, FS_CardinalityType
<1>4. /\ Cardinality(Queued(c)) \in Nat /\ Cardinality(Queued(c)') \in Nat
      /\ faults \in Nat
  BY <1>1, <1>2, FS_CardinalityType, IntakeAssumption DEF TableTypes
<1> QED BY <1>1, <1>2, <1>3, <1>4, FiniteHandlers DEF Balanced

\* The search that finds no row of a text: nothing of it is queued.
LEMMA BalanceAtFirst ==
  ASSUME TableTypes, IsFiniteSet(Procs), NEW c, Queued(c)' = {}, UNCHANGED faults
  PROVE  Balanced(c)
<1>1. IsFiniteSet(Queued(c)') /\ Cardinality(Queued(c)') = 0
  BY FS_EmptySet
<1>2. faults \in Nat
  BY IntakeAssumption DEF TableTypes
<1> QED BY <1>1, <1>2, FiniteHandlers DEF Balanced

\* A goroutine that missed the text queues it and misses nothing any more.
LEMMA BalanceMoved ==
  ASSUME TableTypes, JobsInv, IsFiniteSet(Procs), NEW c, c # None, NEW a, NEW h \in Missed(c),
         Queued(c)' \subseteq Queued(c) \cup {a}, Missed(c)' = Missed(c) \ {h}, UNCHANGED faults
  PROVE  Balanced(c)
<1>1. /\ IsFiniteSet(Queued(c))
      /\ Cardinality(Queued(c)) + Cardinality(Missed(c)) <= Cardinality(Handlers) + faults
  BY DEF JobsInv
<1>2. IsFiniteSet(Queued(c)') /\ Cardinality(Queued(c)') <= Cardinality(Queued(c)) + 1
  <2>1. /\ IsFiniteSet(Queued(c) \cup {a})
        /\ Cardinality(Queued(c) \cup {a}) <= Cardinality(Queued(c)) + 1
    BY <1>1, AddingOne
  <2>2. /\ IsFiniteSet(Queued(c)')
        /\ Cardinality(Queued(c)') <= Cardinality(Queued(c) \cup {a})
    BY <2>1, FS_Subset
  <2> QED BY <1>1, <2>1, <2>2, FS_CardinalityType
<1>3. Cardinality(Missed(c)') = Cardinality(Missed(c)) - 1
  BY FiniteHandlers, FS_RemoveElement
<1>4. /\ Cardinality(Queued(c)) \in Nat /\ Cardinality(Queued(c)') \in Nat
      /\ faults \in Nat
  BY <1>1, <1>2, FS_CardinalityType, IntakeAssumption DEF TableTypes
<1> QED BY <1>1, <1>2, <1>3, <1>4, FiniteHandlers DEF Balanced

\* Workers make no jobs.
LEMMA WorkMakesNoJob ==
  ASSUME OwnershipInv, NEW w \in Workers, Work(w)
  PROVE  UNCHANGED row /\ \A a \in Articles : job'[a] # "none" => job[a] # "none"
<1> USE DEF At, Goto, LetGo, table
<1>0. /\ pc \in [Workers -> PCs] /\ held \in [Workers -> Articles \cup {None}]
      /\ job \in [Articles -> {"none", "pending", "running", "done", "failed"}]
      /\ pc[w] \in Owning => job[held[w]] = "running"
  BY DEF OwnershipInv, TypeOK, SoleOwner
<1>1. CASE Pick(w)
  <2>1. PICK a \in Articles : /\ job[a] = "pending"
                              /\ job' = [job EXCEPT ![a] = "running"]
                              /\ UNCHANGED row
    BY <1>1 DEF Pick, Due
  <2> QED BY <1>0, <2>1
<1>2. CASE CheckAnalysis(w) \/ LoadArticle(w)
  BY <1>0, <1>2 DEF CheckAnalysis, LoadArticle
<1>3. CASE CallAnswers(w) \/ CallFails(w) \/ MarkDone(w) \/ Cluster(w)
  BY <1>0, <1>3 DEF CallAnswers, CallFails, MarkDone, Cluster
<1>4. CASE SaveAnalysis(w) \/ CompleteLLMJob(w)
  BY <1>0, <1>4 DEF SaveAnalysis, CompleteLLMJob, Owning
<1>5. CASE FailLLMJob(w) \/ ExpireLLMJob(w)
  BY <1>0, <1>5 DEF FailLLMJob, ExpireLLMJob, FailRow, Owning
<1>6. CASE MarkOutdated(w)
  BY <1>0, <1>6 DEF MarkOutdated
<1> QED BY <1>1, <1>2, <1>3, <1>4, <1>5, <1>6 DEF Work

\* A step that leaves rows and jobs as they are.
LEMMA SameQueued ==
  ASSUME UNCHANGED stored, NEW c,
         \A a \in Articles : job'[a] # "none" => job[a] # "none"
  PROVE  Queued(c)' \subseteq Queued(c)
BY DEF Queued, Stable

\* A new row has no job yet, and the other rows are as they were.
LEMMA NewRowQueued ==
  ASSUME TableTypes, JobsInv, NEW i \in Items, stored[i.url] = None, NewRow(i), NEW c
  PROVE  Queued(c)' \subseteq Queued(c) /\ HasRow'
<1>1. /\ stored' = [stored EXCEPT ![i.url] = i]
      /\ row' = [row EXCEPT ![i.url] = Kind(i)]
      /\ UNCHANGED job /\ i.url \in Articles /\ i # None
  BY IntakeAssumption DEF NewRow, InsertArticle
<1>2. job[i.url] = "none"
  BY <1>1 DEF JobsInv, HasRow
<1>3. \A b \in Articles : b # i.url => stored'[b] = stored[b]
  BY <1>1 DEF TableTypes
<1>4. HasRow'
  <2>1. stored'[i.url] # None
    BY <1>1 DEF TableTypes
  <2>2. \A b \in Articles : b # i.url => row'[b] = row[b]
    BY <1>1
  <2> QED BY <1>1, <1>3, <2>1, <2>2 DEF JobsInv, HasRow
<1>5. Queued(c)' \subseteq Queued(c)
  <2> SUFFICES ASSUME NEW a \in Queued(c)' PROVE a \in Queued(c)
    OBVIOUS
  <2>1. a \in Articles /\ job[a] # "none" /\ a # i.url
    BY <1>1, <1>2 DEF Queued
  <2>2. stored'[a] = stored[a]
    BY <1>3, <2>1
  <2> QED BY <2>1, <2>2 DEF Queued, Stable
<1> QED BY <1>4, <1>5

LEMMA ProcessJobs ==
  ASSUME OwnershipInv, LocalInv, TableTypes, TableTypes', JobsInv, IsFiniteSet(Procs),
         NEW h \in Handlers, Process(h), NEW c, c # None
  PROVE  Balanced(c) /\ HasRow'
<1>0. /\ at \in [Handlers -> Steps]
      /\ item \in [Handlers -> Items \cup {None}]
      /\ origin \in [Handlers -> Articles \cup {None}]
      /\ at[h] # "idle" => item[h] \in Items /\ item[h].url \in Articles
      /\ faults \in Nat /\ faults' \in Nat
  BY IntakeAssumption DEF LocalInv, Locals, Carried, TableTypes
\* A step of a goroutine that misses nothing it has not missed before.
<1>u. ASSUME Queued(c)' \subseteq Queued(c), faults' >= faults,
             \/ Finish(h)
             \/ \E to \in {"url", "content", "link", "mark", "pend"} : Turn(h, to)
             \/ \E a \in Articles : Decided(h, a)
             \/ at[h] = "title" /\ \E a \in Articles \cup {None} : Decided(h, a)
             \/ at[h] = "insert" /\ origin[h] = None /\ Turn(h, "enqueue")
      PROVE  Balanced(c)
  <2>1. None \notin Articles
    BY QueueAssumption
  <2>2. Missed(c)' \subseteq Missed(c)
    BY <1>0, <1>u, <2>1 DEF Missed, Finish, Turn, Decided
  <2> QED BY <1>0, <1>u, <2>2, BalanceKept
\* Statements that write neither rows nor jobs.
<1>r. ASSUME UNCHANGED <<stored, vars>>
      PROVE  HasRow' /\ Queued(c)' \subseteq Queued(c)
  BY <1>r, SameQueued DEF vars, table, JobsInv, HasRow
<1>1. CASE InsertRawItem(h)
  BY <1>0, <1>1, <1>u, <1>r DEF InsertRawItem
<1>2. CASE FindByUrl(h)
  BY <1>0, <1>2, <1>u, <1>r DEF FindByUrl, Now, Tables
<1>3. CASE FindByContent(h)
  <2>1. UNCHANGED <<stored, vars, faults>> /\ at[h] = "content"
    BY <1>3 DEF FindByContent, Now, Tables
  <2>2. CASE \E a \in Articles : Decided(h, a)
    BY <1>0, <1>u, <1>r, <2>1, <2>2
  <2>3. CASE SameContent(item[h]) = {} /\ Turn(h, "title")
    <3>1. CASE Content(item[h]) = c
      <4>1. Queued(c)' = {}
        BY <1>r, <2>1, <2>3, <3>1 DEF Queued, SameContent
      <4> QED BY <1>r, <2>1, <4>1, BalanceAtFirst
    <3>2. CASE Content(item[h]) # c
      <4>1. Missed(c)' \subseteq Missed(c)
        BY <1>0, <2>3, <3>2 DEF Missed, Turn
      <4> QED BY <1>0, <1>r, <2>1, <4>1, BalanceKept
    <3> QED BY <3>1, <3>2
  <2> QED BY <1>3, <2>2, <2>3, MatchesAreArticles DEF FindByContent
<1>4. CASE FindByTitle(h)
  <2>1. UNCHANGED <<stored, vars, faults>> /\ at[h] = "title"
    BY <1>4 DEF FindByTitle, Now, Tables
  <2>2. \E a \in Articles \cup {None} : Decided(h, a)
    BY <1>4, MatchesAreArticles DEF FindByTitle
  <2> QED BY <1>0, <1>u, <1>r, <2>1, <2>2
<1>5. CASE StoreArticle(h)
  <2>1. /\ at[h] = "insert" /\ item[h] \in Items /\ UNCHANGED faults
        /\ Finish(h) \/ Turn(h, "link") \/ (origin[h] = None /\ Turn(h, "enqueue"))
    BY <1>0, <1>5 DEF StoreArticle, AfterInsert, Now
  <2>2. HasRow' /\ Queued(c)' \subseteq Queued(c)
    <3>1. CASE stored[item[h].url] = None /\ NewRow(item[h])
      BY <2>1, <3>1, NewRowQueued
    <3>2. CASE UNCHANGED <<stored, rank, status, vars>>
      BY <1>r, <3>2
    <3> QED BY <1>5, <3>1, <3>2 DEF StoreArticle
  <2> QED BY <1>0, <1>u, <2>1, <2>2
<1>6. CASE InsertDuplicate(h)
  BY <1>0, <1>6, <1>u, <1>r DEF InsertDuplicate
<1>7. CASE MarkDuplicate(h) \/ MarkPending(h)
  <2>1. UNCHANGED <<stored, vars>> /\ Finish(h) /\ faults' >= faults
    BY <1>0, <1>7 DEF MarkDuplicate, MarkPending, UpdateArticleStatus, SpendFault
  <2> QED BY <1>u, <1>r, <2>1
<1>8. CASE Enqueue(h)
  <2> DEFINE a == item[h].url
  <2>1. /\ UNCHANGED <<stored, faults>> /\ Turn(h, "pend") /\ at[h] = "enqueue"
        /\ a \in Articles /\ item[h] \in Items
    BY <1>0, <1>8 DEF Enqueue, Now, Tables
  <2>2. CASE UNCHANGED vars
    BY <1>0, <1>u, <1>r, <2>1, <2>2
  <2>3. CASE EnqueueLLMJob(a)
    <3>1. /\ UNCHANGED row /\ job' = [job EXCEPT ![a] = "pending"]
          /\ stored[a] # None
      BY <2>1, <2>3 DEF EnqueueLLMJob, JobsInv, HasRow
    <3>2. HasRow'
      BY <2>1, <3>1 DEF JobsInv, HasRow
    <3>3. \A b \in Articles : b # a => job'[b] = job[b]
      BY <3>1
    <3>4. Queued(c)' \subseteq Queued(c) \cup {a}
      <4> HIDE DEF a
      <4> QED BY <2>1, <3>3 DEF Queued, Stable
    <3>5. CASE Content(item[h]) = c
      <4>1. h \in Missed(c) /\ Missed(c)' = Missed(c) \ {h}
        BY <1>0, <2>1, <3>5 DEF Missed, Turn
      <4> HIDE DEF a
      <4> QED BY <2>1, <3>2, <3>4, <4>1, BalanceMoved
    <3>6. CASE Content(item[h]) # c
      <4>1. a \notin Queued(c)'
        BY <2>1, <3>6 DEF Queued, Stable
      <4>2. Queued(c)' \subseteq Queued(c)
        BY <3>4, <4>1
      <4> QED BY <1>0, <1>u, <2>1, <3>2, <4>2
    <3> QED BY <3>5, <3>6
  <2> QED BY <1>8, <2>2, <2>3 DEF Enqueue
<1>9. CASE IntakeError(h)
  <2>1. UNCHANGED <<stored, vars>> /\ faults' = faults + 1
    BY <1>9 DEF IntakeError, SpendFault, Tables
  <2>2. CASE Decided(h, None)
    <3>1. Missed(c)' \subseteq Missed(c) \cup {h}
      BY <1>0, <2>2 DEF Missed, Decided
    <3> QED BY <1>r, <2>1, <3>1, BalanceFault
  <2>3. CASE Finish(h) \/ Turn(h, "mark") \/ Turn(h, "pend")
    BY <1>0, <1>u, <1>r, <2>1, <2>3
  <2> QED BY <1>9, <2>2, <2>3 DEF IntakeError
<1> QED BY <1>1, <1>2, <1>3, <1>4, <1>5, <1>6, <1>7, <1>8, <1>9 DEF Process

LEMMA JobsStep ==
  ASSUME OwnershipInv, LocalInv, TableTypes, TableTypes', JobsInv, IsFiniteSet(Procs),
         [IntakeNext]_intakeVars, NEW c, c # None
  PROVE  Balanced(c) /\ HasRow'
<1>0. faults \in Nat /\ faults' \in Nat
  BY IntakeAssumption DEF TableTypes
\* Steps of others.
<1>u. ASSUME UNCHANGED <<stored, row>>, faults' >= faults,
             \A a \in Articles : job'[a] # "none" => job[a] # "none",
             Missed(c)' \subseteq Missed(c)
      PROVE  Balanced(c) /\ HasRow'
  <2>1. Queued(c)' \subseteq Queued(c)
    BY <1>u, SameQueued
  <2>2. HasRow'
    BY <1>u DEF JobsInv, HasRow
  <2> QED BY <1>0, <1>u, <2>1, <2>2, BalanceKept
<1>1. ASSUME NEW h \in Handlers, Process(h) PROVE Balanced(c) /\ HasRow'
  BY <1>1, ProcessJobs
<1>2. ASSUME NEW h \in Handlers, NEW i \in Items, Fetch(h, i) PROVE Balanced(c) /\ HasRow'
  <2>1. Missed(c)' \subseteq Missed(c)
    BY <1>2 DEF Fetch, Missed, LocalInv, Locals, Steps
  <2> QED BY <1>0, <1>2, <1>u, <2>1 DEF Fetch, Tables, vars, table
<1>3. ASSUME NEW w \in Workers, WorkerStep(w) PROVE Balanced(c) /\ HasRow'
  <2>1. UNCHANGED <<stored, at, item, origin>> /\ faults' >= faults
    BY <1>0, <1>3 DEF WorkerStep, intake, Writes, UpdateArticleStatus, SpendFault
  <2>2. Missed(c)' = Missed(c)
    BY <2>1 DEF Missed
  <2>3. UNCHANGED row /\ \A a \in Articles : job'[a] # "none" => job[a] # "none"
    BY <1>3, WorkerDrives, WorkMakesNoJob
  <2> QED BY <1>u, <2>1, <2>2, <2>3
<1>4. ASSUME NEW p \in Procs, StopProcess(p) PROVE Balanced(c) /\ HasRow'
  <2>1. UNCHANGED <<stored, row, job, faults>>
    BY <1>4 DEF StopProcess, Stop, Tables, table
  <2>2. Missed(c)' \subseteq Missed(c)
    BY <1>4 DEF StopProcess, Missed, LocalInv, Locals
  <2> QED BY <1>0, <1>u, <2>1, <2>2
<1>5. CASE (Tick \/ \E p \in Procs : Start(p)) /\ UNCHANGED intake
  <2>1. UNCHANGED <<stored, row, job, faults, at, item, origin>>
    BY <1>5 DEF Tick, Start, intake, vars, table
  <2> QED BY <1>0, <1>u, <2>1 DEF Missed
<1>6. CASE UNCHANGED intakeVars
  <2>1. UNCHANGED <<stored, row, job, faults, at, item, origin>>
    BY <1>6 DEF intakeVars, intake, vars, table
  <2> QED BY <1>0, <1>u, <2>1 DEF Missed
<1> QED BY <1>1, <1>2, <1>3, <1>4, <1>5, <1>6 DEF IntakeNext

\* One text under however many URLs is queued at most once for each crawl
\* goroutine and each failed search.
THEOREM DuplicateJobsAreBounded ==
  ASSUME IsFiniteSet(Procs)
  PROVE  IntakeSpec => []DuplicateJobsBounded
<1>1. IntakeInit => JobsInv
  <2> SUFFICES ASSUME IntakeInit PROVE JobsInv
    OBVIOUS
  <2>1. ASSUME NEW c PROVE Queued(c) = {} /\ Missed(c) = {}
    BY DEF IntakeInit, Queued, Missed
  <2>2. HasRow /\ faults = 0
    BY DEF IntakeInit, Init, HasRow
  <2>3. IsFiniteSet({}) /\ Cardinality({}) = 0
    BY FS_EmptySet
  <2>4. Cardinality(Handlers) \in Nat
    BY FiniteHandlers
  <2>5. 0 + 0 <= Cardinality(Handlers) + faults
    BY <2>2, <2>4
  <2>6. ASSUME NEW c
        PROVE  /\ IsFiniteSet(Queued(c)) /\ Cardinality(Queued(c)) = 0
               /\ Cardinality(Missed(c)) = 0
    BY <2>1, <2>3
  <2> QED BY <2>2, <2>5, <2>6 DEF JobsInv
<1>2. OwnershipInv /\ LocalInv /\ TableTypes /\ JobsInv /\ [IntakeNext]_intakeVars => JobsInv'
  <2> SUFFICES ASSUME OwnershipInv, LocalInv, TableTypes, JobsInv, [IntakeNext]_intakeVars
               PROVE  JobsInv'
    OBVIOUS
  <2>1. TableTypes'
    BY TablesStep
  <2>2. ASSUME NEW c, c # None PROVE Balanced(c) /\ HasRow'
    BY <2>1, <2>2, JobsStep
  <2>3. 0 # None
    BY IntakeAssumption
  <2> QED BY <2>2, <2>3 DEF JobsInv, Balanced, Handlers
<1>3. TableTypes /\ JobsInv => DuplicateJobsBounded
  <2> SUFFICES ASSUME TableTypes, JobsInv, NEW c \in {Content(i) : i \in Items} \ {None}
               PROVE  Cardinality(Queued(c)) <= Cardinality(Handlers) + faults
    BY DEF DuplicateJobsBounded, Queued
  <2>1. /\ IsFiniteSet(Queued(c))
        /\ Cardinality(Queued(c)) + Cardinality(Missed(c)) <= Cardinality(Handlers) + faults
    BY DEF JobsInv
  <2>2. Cardinality(Queued(c)) \in Nat /\ faults \in Nat
    BY <2>1, FS_CardinalityType, IntakeAssumption DEF TableTypes
  <2> QED BY <2>1, <2>2, FiniteHandlers
<1> QED BY <1>1, <1>2, <1>3, IntakeInvariant, PTL DEF IntakeSpec
=============================================================================

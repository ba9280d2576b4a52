-------------------------- MODULE ClusteringProofs --------------------------
(***************************************************************************)
(* Clustering for any reports, workers and errors. It drives the queue by  *)
(* the queue's own steps, so the theorems of LLMQueue hold here; from them *)
(* follows that no article is clustered twice.                             *)
(***************************************************************************)
EXTENDS Clustering, LLMQueueProofs, SequenceTheorems, FiniteSetTheorems

-----------------------------------------------------------------------------
(* The queue below.                                                        *)

LEMMA LeaveIsCluster ==
  ASSUME NEW w, Leave(w)
  PROVE  Cluster(w)
BY DEF Leave

LEMMA ClusterArticleDrives ==
  ASSUME NEW w \in Workers, ClusterArticle(w)
  PROVE  Cluster(w) \/ UNCHANGED vars
<1>1. CASE FindCandidateClusters(w)
  BY <1>1 DEF FindCandidateClusters
<1>2. CASE CreateCluster(w)
  BY <1>2 DEF CreateCluster
<1>3. CASE AttachArticleToCluster(w)
  BY <1>3 DEF AttachArticleToCluster
<1>4. CASE InsertEventUpdate(w)
  BY <1>4 DEF InsertEventUpdate
<1>5. CASE RefreshClusterAggregates(w)
  BY <1>5, LeaveIsCluster DEF RefreshClusterAggregates
<1>6. CASE ClusterError(w)
  BY <1>6, LeaveIsCluster DEF ClusterError
<1> QED BY <1>1, <1>2, <1>3, <1>4, <1>5, <1>6 DEF ClusterArticle

LEMMA QueueStepDrives ==
  ASSUME QueueStep
  PROVE  Next
BY DEF QueueStep, Next, Work

LEMMA ClusterStepDrives ==
  ASSUME [ClusterNext]_clusterVars
  PROVE  [Next]_vars
<1>1. ASSUME NEW w \in Workers, ClusterArticle(w) PROVE [Next]_vars
  BY <1>1, ClusterArticleDrives DEF Next, Work
<1>2. ASSUME NEW c \in ClusterIds, Age(c) PROVE [Next]_vars
  BY <1>2 DEF Age
<1>3. ASSUME NEW p \in Procs, StopClustering(p) PROVE [Next]_vars
  BY <1>3 DEF StopClustering, Next
<1>4. CASE QueueStep
  BY <1>4, QueueStepDrives
<1>5. CASE UNCHANGED clusterVars
  BY <1>5 DEF clusterVars
<1> QED BY <1>1, <1>2, <1>3, <1>4, <1>5 DEF ClusterNext

\* Clustering touches nothing of the queue: what is proved of LLMQueue holds
\* of every behaviour of workers that cluster.
THEOREM ClusteringDrivesQueue == ClusterSpec => DrivesQueue
<1>1. ClusterInit => Init
  BY DEF ClusterInit
<1>2. [ClusterNext]_clusterVars => [Next]_vars
  BY ClusterStepDrives
<1> QED BY <1>1, <1>2, PTL DEF ClusterSpec, DrivesQueue, Spec

-----------------------------------------------------------------------------
(* Types.                                                                  *)

EventRecords == [answer : {Answer[a] : a \in Articles}, live : BOOLEAN,
                 importance : Nat, size : Nat]

\* A worker goes for a cluster once it has one to attach to.
Aimed == \A w \in Workers :
           /\ step[w] \in {"attach", "update", "refresh"} => best[w] \in ClusterIds
           /\ step[w] \in {"find", "create"} => best[w] = 0
           /\ step[w] # "find" => pc[w] = "cluster"

EventTypes == ClusterTypeOK /\ Aimed

LEMMA InitTypes ==
  ASSUME ClusterInit
  PROVE  EventTypes
<1>1. clusters \in Seq(EventRecords)
  BY EmptySeq DEF ClusterInit
<1> QED BY <1>1, ClusteringAssumption
        DEF ClusterInit, EventTypes, ClusterTypeOK, Aimed, EventRecords, Relations, ClusterIds

LEMMA HeldAnswer ==
  ASSUME OwnershipInv, NEW w \in Workers, pc[w] = "cluster"
  PROVE  /\ held[w] \in Articles
         /\ Answer[held[w]] \in {Answer[a] : a \in Articles}
         /\ Answer[held[w]].importance \in Nat
BY ClusteringAssumption DEF OwnershipInv, HeldIsArticle

LEMMA NewCluster ==
  ASSUME clusters \in Seq(EventRecords), NEW e \in EventRecords,
         clusters' = Append(clusters, e)
  PROVE  /\ clusters' \in Seq(EventRecords)
         /\ ClusterIds \subseteq ClusterIds'
         /\ Len(clusters) + 1 \in ClusterIds'
<1>1. /\ clusters' \in Seq(EventRecords)
      /\ Len(clusters') = Len(clusters) + 1
  BY AppendProperties
<1>2. ClusterIds = 1..Len(clusters) /\ Len(clusters) \in Nat
  BY LenProperties DEF ClusterIds
<1>3. ClusterIds' = 1..Len(clusters')
  BY <1>1, LenProperties DEF ClusterIds
<1> QED BY <1>1, <1>2, <1>3

LEMMA AgedCluster ==
  ASSUME clusters \in Seq(EventRecords), NEW c \in ClusterIds, Age(c)
  PROVE  clusters' \in Seq(EventRecords) /\ ClusterIds' = ClusterIds
<1>1. /\ Len(clusters) \in Nat
      /\ ClusterIds = 1..Len(clusters)
      /\ clusters \in [1..Len(clusters) -> EventRecords]
  BY LenProperties DEF ClusterIds
<1>2. [clusters[c] EXCEPT !.live = FALSE] \in EventRecords
  BY <1>1 DEF EventRecords
<1>3. clusters' = [clusters EXCEPT ![c] = [clusters[c] EXCEPT !.live = FALSE]]
  BY <1>1 DEF Age
<1>4. clusters' \in Seq(EventRecords) /\ Len(clusters') = Len(clusters)
  BY <1>1, <1>2, <1>3, ExceptSeq
<1> QED BY <1>1, <1>4, LenProperties DEF ClusterIds

\* What the queue's own steps do to a worker that clusters: nothing.
LEMMA QueueMotion ==
  ASSUME OwnershipInv, QueueStep, NEW w \in Workers
  PROVE  /\ analysed \subseteq analysed'
         /\ pc[w] = "cluster" => pc'[w] = "cluster" /\ held'[w] = held[w]
         /\ pc'[w] = "cluster" => pc[w] \in {"mark", "cluster"} /\ held'[w] = held[w]
         /\ pc'[w] = "mark" => pc[w] \in {"save", "mark"} /\ held'[w] = held[w]
<1> DEFINE Motion == /\ analysed \subseteq analysed'
                     /\ pc[w] = "cluster" => pc'[w] = "cluster" /\ held'[w] = held[w]
                     /\ pc'[w] = "cluster" => pc[w] \in {"mark", "cluster"} /\ held'[w] = held[w]
                     /\ pc'[w] = "mark" => pc[w] \in {"save", "mark"} /\ held'[w] = held[w]
<1>0. pc \in [Workers -> PCs] /\ held \in [Workers -> Articles \cup {None}]
  BY DEF OwnershipInv, TypeOK
<1>1. ASSUME NEW a \in Articles, InsertArticle(a, "fresh") \/ EnqueueLLMJob(a) PROVE Motion
  BY <1>0, <1>1 DEF InsertArticle, EnqueueLLMJob
<1>2. ASSUME NEW v \in Workers, Pick(v) \/ CompleteLLMJob(v) \/ FailLLMJob(v) PROVE Motion
  BY <1>0, <1>2 DEF Pick, CompleteLLMJob, FailLLMJob, FailRow, LetGo, At
<1>3. ASSUME NEW v \in Workers, CheckAnalysis(v) \/ LoadArticle(v) PROVE Motion
  BY <1>0, <1>3 DEF CheckAnalysis, LoadArticle, Goto, At, table
<1>4. ASSUME NEW v \in Workers, CallAnswers(v) \/ CallFails(v) \/ SaveAnalysis(v) \/ MarkDone(v)
      PROVE  Motion
  BY <1>0, <1>4 DEF CallAnswers, CallFails, SaveAnalysis, MarkDone, Goto, At, table
<1>5. ASSUME NEW v \in Workers, StoreError(v) \/ GiveBackError(v) PROVE Motion
  BY <1>0, <1>5 DEF StoreError, GiveBackError, SpendDbError, Goto, LetGo, table
<1>6. ASSUME NEW p \in Procs, Start(p) PROVE Motion
  BY <1>0, <1>6 DEF Start, table
<1> QED BY <1>1, <1>2, <1>3, <1>4, <1>5, <1>6 DEF QueueStep

\* A worker that leaves ClusterArticle aims at nothing.
LEMMA LeavingAim ==
  ASSUME OwnershipInv, EventTypes, NEW w \in Workers, Leave(w), ClusterIds' = ClusterIds
  PROVE  /\ step' \in [Workers -> {"find", "create", "attach", "update", "refresh"}]
         /\ best' \in [Workers -> ClusterIds \cup {0}]
         /\ relation' \in [Workers -> Relations]
         /\ Aimed'
<1>0. pc \in [Workers -> PCs]
  BY DEF OwnershipInv, TypeOK
<1>1. /\ step' = [step EXCEPT ![w] = "find"]
      /\ best' = [best EXCEPT ![w] = 0]
      /\ relation' = [relation EXCEPT ![w] = "original"]
      /\ pc' = [pc EXCEPT ![w] = "complete"]
  BY DEF Leave, Cluster, Goto
<1> QED BY <1>0, <1>1 DEF EventTypes, ClusterTypeOK, Aimed, Relations

LEMMA ArticleTypes ==
  ASSUME OwnershipInv, EventTypes, NEW w \in Workers, ClusterArticle(w)
  PROVE  EventTypes'
<1>0. /\ clusters \in Seq(EventRecords)
      /\ step \in [Workers -> {"find", "create", "attach", "update", "refresh"}]
      /\ best \in [Workers -> ClusterIds \cup {0}]
      /\ relation \in [Workers -> Relations]
      /\ members \in SUBSET [cluster : ClusterIds, article : Articles, relation : Relations]
      /\ timeline \in SUBSET [cluster : ClusterIds, article : Articles]
      /\ faults \in 0..MaxFaults
      /\ pc[w] = "cluster" /\ held[w] \in Articles
  BY HeldAnswer, LeaveIsCluster
     DEF EventTypes, ClusterTypeOK, EventRecords, ClusterArticle, FindCandidateClusters,
         CreateCluster, AttachArticleToCluster, InsertEventUpdate, RefreshClusterAggregates,
         ClusterError, In, At
<1>1. CASE FindCandidateClusters(w)
  <2>1. Matching(Answer[held[w]]) \subseteq ClusterIds
    BY DEF Matching
  <2>2. \A event, ana : RelationTo(event, ana) \in Relations
    BY DEF RelationTo, Relations
  <2>3. UNCHANGED <<clusters, members, timeline, faults, pc>> /\ step[w] = "find"
    BY <1>1 DEF FindCandidateClusters, In, vars
  <2>4. \/ /\ \E c \in ClusterIds : best' = [best EXCEPT ![w] = c]
           /\ \E r \in Relations : relation' = [relation EXCEPT ![w] = r]
           /\ step' = [step EXCEPT ![w] = "attach"]
        \/ UNCHANGED <<best, relation>> /\ step' = [step EXCEPT ![w] = "create"]
    BY <1>1, <2>1, <2>2 DEF FindCandidateClusters, ToStep, IsBest, IsCandidateList
  <2> QED BY <1>0, <2>3, <2>4 DEF EventTypes, ClusterTypeOK, Aimed, ClusterIds, EventRecords
<1>2. CASE CreateCluster(w)
  <2> DEFINE e == [answer |-> Answer[held[w]], live |-> TRUE,
                   importance |-> Answer[held[w]].importance, size |-> 1]
  <2>1. e \in EventRecords
    BY <1>0, HeldAnswer DEF EventRecords
  <2>2. clusters' = Append(clusters, e)
    BY <1>2 DEF CreateCluster
  <2>3. /\ clusters' \in Seq(EventRecords)
        /\ ClusterIds \subseteq ClusterIds'
        /\ Len(clusters) + 1 \in ClusterIds'
    <3> HIDE DEF e
    <3> QED BY <1>0, <2>1, <2>2, NewCluster
  <2>4. /\ UNCHANGED <<members, timeline, relation, faults, pc>>
        /\ best' = [best EXCEPT ![w] = Len(clusters) + 1]
        /\ step' = [step EXCEPT ![w] = "attach"]
    BY <1>2 DEF CreateCluster, ToStep, vars
  <2> QED BY <1>0, <2>3, <2>4 DEF EventTypes, ClusterTypeOK, Aimed, EventRecords
<1>3. CASE AttachArticleToCluster(w)
  <2>1. /\ UNCHANGED <<clusters, timeline, best, relation, faults, pc>>
        /\ step' = [step EXCEPT ![w] = IF relation[w] = "update" THEN "update" ELSE "refresh"]
        /\ best[w] \in ClusterIds
        /\ members' = Attached(w)
    BY <1>3 DEF AttachArticleToCluster, ToStep, In, vars, EventTypes, Aimed
  <2>2. Attached(w) \in SUBSET [cluster : ClusterIds, article : Articles, relation : Relations]
    BY <1>0, <2>1 DEF Attached
  <2> QED BY <1>0, <2>1, <2>2 DEF EventTypes, ClusterTypeOK, Aimed, ClusterIds, EventRecords
<1>4. CASE InsertEventUpdate(w)
  BY <1>0, <1>4 DEF InsertEventUpdate, ToStep, In, vars, EventTypes, ClusterTypeOK, Aimed,
                    ClusterIds, EventRecords
<1>5. CASE RefreshClusterAggregates(w)
  <2>1. Leave(w) /\ UNCHANGED <<clusters, members, timeline, faults>> /\ ClusterIds' = ClusterIds
    BY <1>5 DEF RefreshClusterAggregates, ClusterIds
  <2> QED BY <1>0, <2>1, LeavingAim DEF EventTypes, ClusterTypeOK, EventRecords
<1>6. CASE ClusterError(w)
  <2>1. /\ UNCHANGED <<clusters, timeline>> /\ ClusterIds' = ClusterIds
        /\ faults' \in 0..MaxFaults
    BY <1>0, <1>6, ClusteringAssumption DEF ClusterError, ClusterIds
  <2>2. CASE Leave(w) /\ UNCHANGED members
    BY <1>0, <2>1, <2>2, LeavingAim DEF EventTypes, ClusterTypeOK, EventRecords
  <2>3. CASE step[w] = "attach" /\ Leave(w) /\ members' = Attached(w)
    <3>1. Attached(w) \in SUBSET [cluster : ClusterIds, article : Articles, relation : Relations]
      BY <1>0, <2>3 DEF Attached, EventTypes, Aimed
    <3> QED BY <1>0, <2>1, <2>3, <3>1, LeavingAim DEF EventTypes, ClusterTypeOK, EventRecords
  <2>4. CASE step[w] = "update" /\ ToStep(w, "refresh") /\ UNCHANGED <<best, relation, members, vars>>
    BY <1>0, <2>1, <2>4 DEF ToStep, vars, EventTypes, ClusterTypeOK, Aimed, EventRecords
  <2> QED BY <1>6, <2>2, <2>3, <2>4 DEF ClusterError
<1> QED BY <1>1, <1>2, <1>3, <1>4, <1>5, <1>6 DEF ClusterArticle

LEMMA StopTypes ==
  ASSUME OwnershipInv, EventTypes, NEW p \in Procs, StopClustering(p)
  PROVE  EventTypes'
<1>0. pc \in [Workers -> PCs]
  BY DEF OwnershipInv, TypeOK
<1>1. /\ UNCHANGED <<clusters, members, timeline, faults>> /\ ClusterIds' = ClusterIds
      /\ pc' = [w \in Workers |-> IF w[1] = p THEN "idle" ELSE pc[w]]
      /\ step' = [w \in Workers |-> IF w[1] = p THEN "find" ELSE step[w]]
      /\ best' = [w \in Workers |-> IF w[1] = p THEN 0 ELSE best[w]]
      /\ relation' = [w \in Workers |-> IF w[1] = p THEN "original" ELSE relation[w]]
  BY DEF StopClustering, Stop, ClusterIds
<1> QED BY <1>0, <1>1 DEF EventTypes, ClusterTypeOK, Aimed, Relations

LEMMA TypesStep ==
  ASSUME OwnershipInv, EventTypes, [ClusterNext]_clusterVars
  PROVE  EventTypes'
<1>1. ASSUME NEW w \in Workers, ClusterArticle(w) PROVE EventTypes'
  BY <1>1, ArticleTypes
<1>2. ASSUME NEW c \in ClusterIds, Age(c) PROVE EventTypes'
  <2>1. clusters \in Seq(EventRecords)
    BY DEF EventTypes, ClusterTypeOK, EventRecords
  <2>2. clusters' \in Seq(EventRecords) /\ ClusterIds' = ClusterIds
    BY <1>2, <2>1, AgedCluster
  <2>3. UNCHANGED <<members, timeline, step, best, relation, faults, pc>>
    BY <1>2 DEF Age, vars
  <2> QED BY <2>2, <2>3 DEF EventTypes, ClusterTypeOK, Aimed, EventRecords
<1>3. ASSUME NEW p \in Procs, StopClustering(p) PROVE EventTypes'
  BY <1>3, StopTypes
<1>4. CASE QueueStep /\ UNCHANGED events
  <2>1. \A w \in Workers : pc[w] = "cluster" => pc'[w] = "cluster"
    BY <1>4, QueueMotion
  <2> QED BY <1>4, <2>1 DEF events, EventTypes, ClusterTypeOK, Aimed, ClusterIds
<1>5. CASE UNCHANGED clusterVars
  BY <1>5 DEF clusterVars, events, vars, EventTypes, ClusterTypeOK, Aimed, ClusterIds
<1> QED BY <1>1, <1>2, <1>3, <1>4, <1>5 DEF ClusterNext

-----------------------------------------------------------------------------
(* One event for an article.                                               *)

\* The steps of an article that no row of event_articles names yet.
Unfiled(w) == pc[w] = "mark" \/ (pc[w] = "cluster" /\ step[w] \in {"find", "create", "attach"})

Filed(a, c) == \E m \in members : m.article = a /\ m.cluster = c

\* A row of event_articles needs the analysis, which is stored once: so whoever
\* is about to write a row writes the first one of its article, and the
\* timeline names the event that row names.
FirstRow ==
  \A w \in Workers : Unfiled(w) => \A m \in members : m.article # held[w]

Filing ==
  /\ \A w \in Workers : step[w] \in {"update", "refresh"} => Filed(held[w], best[w])
  /\ \A m \in members : m.article \in analysed
  /\ \A m, n \in members : m.article = n.article => m = n
  /\ \A t \in timeline : Filed(t.article, t.cluster)

FilingInv == FirstRow /\ Filing

LEMMA InitFiling ==
  ASSUME ClusterInit
  PROVE  FilingInv
BY DEF ClusterInit, FilingInv, FirstRow, Filing, Init, Unfiled

\* The first row of an article.
LEMMA AttachedFiling ==
  ASSUME OwnershipInv, EventTypes, FilingInv, NEW w \in Workers,
         pc[w] = "cluster", step[w] = "attach", members' = Attached(w),
         UNCHANGED <<analysed, timeline, held>>
  PROVE  /\ \A m \in members' : m.article \in analysed'
         /\ \A m, n \in members' : m.article = n.article => m = n
         /\ \A t \in timeline' : Filed(t.article, t.cluster)'
         /\ \A a, c : Filed(a, c) => Filed(a, c)'
         /\ \E m \in members' : m.article = held[w] /\ m.cluster = best[w]
         /\ \A v \in Workers : v # w /\ Unfiled(v) => \A m \in members' : m.article # held[v]
<1> DEFINE new == [cluster |-> best[w], article |-> held[w], relation |-> relation[w]]
<1>1. \A m \in members : m.article # held[w]
  BY DEF FilingInv, FirstRow, Unfiled
<1>2. members' = members \cup {new}
  BY <1>1 DEF Attached
<1>3. new.article = held[w] /\ new.cluster = best[w]
  OBVIOUS
<1>4. held[w] \in analysed
  BY DEF OwnershipInv, AnalysisByCounter, AfterSave
<1>5. \A v \in Workers : v # w /\ Unfiled(v) => held[v] # held[w]
  BY DEF OwnershipInv, SoleOwner, Owning, Unfiled
<1> HIDE DEF new
<1>6. \A m \in members' : m.article \in analysed'
  BY <1>2, <1>3, <1>4 DEF FilingInv, Filing
<1>7. \A m, n \in members' : m.article = n.article => m = n
  BY <1>1, <1>2, <1>3 DEF FilingInv, Filing
<1>8. \A a, c : Filed(a, c) => Filed(a, c)'
  BY <1>2 DEF Filed
<1>9. \A t \in timeline' : Filed(t.article, t.cluster)'
  BY <1>8 DEF FilingInv, Filing
<1>10. \A v \in Workers : v # w /\ Unfiled(v) => \A m \in members' : m.article # held[v]
  BY <1>2, <1>3, <1>5 DEF FilingInv, FirstRow
<1> QED BY <1>2, <1>3, <1>6, <1>7, <1>8, <1>9, <1>10

LEMMA ArticleFiling ==
  ASSUME OwnershipInv, EventTypes, FilingInv, NEW w \in Workers, ClusterArticle(w)
  PROVE  FilingInv'
<1>0. /\ step \in [Workers -> {"find", "create", "attach", "update", "refresh"}]
      /\ best \in [Workers -> ClusterIds \cup {0}]
      /\ pc \in [Workers -> PCs]
      /\ \A v \in Workers : step[v] # "find" => pc[v] = "cluster"
      /\ pc[w] = "cluster"
  BY DEF OwnershipInv, TypeOK, EventTypes, ClusterTypeOK, Aimed, ClusterArticle,
         FindCandidateClusters, CreateCluster, AttachArticleToCluster, InsertEventUpdate,
         RefreshClusterAggregates, ClusterError, In, At
<1>1. ASSUME Leave(w) PROVE /\ pc' = [pc EXCEPT ![w] = "complete"]
                            /\ step' = [step EXCEPT ![w] = "find"]
                            /\ best' = [best EXCEPT ![w] = 0]
                            /\ UNCHANGED <<held, analysed>>
  BY <1>1 DEF Leave, Cluster, Goto, table
<1>2. CASE FindCandidateClusters(w) \/ CreateCluster(w)
  <2>1. /\ UNCHANGED <<members, timeline, pc, held, analysed>>
        /\ step[w] \in {"find", "create"}
        /\ \E to \in {"create", "attach"} : step' = [step EXCEPT ![w] = to]
        /\ \A v \in Workers : v # w => best'[v] = best[v]
    BY <1>0, <1>2 DEF FindCandidateClusters, CreateCluster, ToStep, In, vars, table
  <2> QED BY <1>0, <2>1 DEF FilingInv, FirstRow, Filing, Unfiled, Filed
<1>3. CASE AttachArticleToCluster(w)
  <2>1. /\ UNCHANGED <<timeline, best, pc, held, analysed>>
        /\ step[w] = "attach" /\ members' = Attached(w)
        /\ \E to \in {"update", "refresh"} : step' = [step EXCEPT ![w] = to]
    BY <1>3 DEF AttachArticleToCluster, ToStep, In, vars, table
  <2>2. /\ \A m \in members' : m.article \in analysed'
        /\ \A m, n \in members' : m.article = n.article => m = n
        /\ \A t \in timeline' : Filed(t.article, t.cluster)'
        /\ \A a, c : Filed(a, c) => Filed(a, c)'
        /\ \E m \in members' : m.article = held[w] /\ m.cluster = best[w]
        /\ \A v \in Workers : v # w /\ Unfiled(v) => \A m \in members' : m.article # held[v]
    BY <1>0, <2>1, AttachedFiling
  <2>3. FirstRow'
    BY <1>0, <2>1, <2>2 DEF FirstRow, Unfiled
  <2>4. ASSUME NEW v \in Workers, step'[v] \in {"update", "refresh"} PROVE Filed(held[v], best[v])'
    <3>1. CASE v = w
      BY <2>1, <2>2, <3>1 DEF Filed
    <3>2. CASE v # w
      <4>1. Filed(held[v], best[v])
        BY <1>0, <2>1, <2>4, <3>2 DEF FilingInv, Filing
      <4> QED BY <2>1, <2>2, <4>1 DEF Filed
    <3> QED BY <3>1, <3>2
  <2> QED BY <2>2, <2>3, <2>4 DEF FilingInv, Filing
<1>4. CASE InsertEventUpdate(w)
  <2>1. /\ UNCHANGED <<members, best, pc, held, analysed>>
        /\ step[w] = "update" /\ step' = [step EXCEPT ![w] = "refresh"]
        /\ timeline' = timeline \cup {[cluster |-> best[w], article |-> held[w]]}
    BY <1>4 DEF InsertEventUpdate, ToStep, In, vars, table
  <2> QED BY <1>0, <2>1 DEF FilingInv, FirstRow, Filing, Unfiled, Filed
<1>5. CASE RefreshClusterAggregates(w)
  BY <1>0, <1>1, <1>5 DEF RefreshClusterAggregates, FilingInv, FirstRow, Filing, Unfiled, Filed
<1>6. CASE ClusterError(w)
  <2>1. CASE Leave(w) /\ UNCHANGED members
    BY <1>0, <1>1, <1>6, <2>1 DEF ClusterError, FilingInv, FirstRow, Filing, Unfiled, Filed
  <2>2. CASE step[w] = "attach" /\ Leave(w) /\ members' = Attached(w)
    <3>1. UNCHANGED timeline
      BY <1>6 DEF ClusterError
    <3>2. UNCHANGED <<timeline, analysed, held>>
      BY <1>1, <2>2, <3>1
    <3>3. /\ \A m \in members' : m.article \in analysed'
          /\ \A m, n \in members' : m.article = n.article => m = n
          /\ \A t \in timeline' : Filed(t.article, t.cluster)'
          /\ \A a, c : Filed(a, c) => Filed(a, c)'
          /\ \A v \in Workers : v # w /\ Unfiled(v) => \A m \in members' : m.article # held[v]
      BY <1>0, <2>2, <3>2, AttachedFiling
    <3>4. FirstRow'
      BY <1>0, <1>1, <2>2, <3>3 DEF FirstRow, Unfiled
    <3>5. ASSUME NEW v \in Workers, step'[v] \in {"update", "refresh"} PROVE Filed(held[v], best[v])'
      <4>1. v # w /\ Filed(held[v], best[v]) /\ best'[v] = best[v]
        BY <1>0, <1>1, <2>2, <3>5 DEF FilingInv, Filing
      <4> QED BY <3>2, <3>3, <4>1 DEF Filed
    <3> QED BY <3>3, <3>4, <3>5 DEF FilingInv, Filing
  <2>3. CASE step[w] = "update" /\ ToStep(w, "refresh") /\ UNCHANGED <<best, relation, members, vars>>
    BY <1>0, <1>6, <2>3 DEF ClusterError, ToStep, vars, table, FilingInv, FirstRow, Filing, Unfiled, Filed
  <2> QED BY <1>6, <2>1, <2>2, <2>3 DEF ClusterError
<1> QED BY <1>2, <1>3, <1>4, <1>5, <1>6 DEF ClusterArticle

LEMMA FilingStep ==
  ASSUME OwnershipInv, EventTypes, FilingInv, [ClusterNext]_clusterVars
  PROVE  FilingInv'
<1>0. /\ step \in [Workers -> {"find", "create", "attach", "update", "refresh"}]
      /\ \A w \in Workers : step[w] # "find" => pc[w] = "cluster"
      /\ pc \in [Workers -> PCs]
  BY DEF OwnershipInv, TypeOK, EventTypes, ClusterTypeOK, Aimed
<1>1. ASSUME NEW w \in Workers, ClusterArticle(w) PROVE FilingInv'
  BY <1>1, ArticleFiling
<1>2. ASSUME NEW c \in ClusterIds, Age(c) PROVE FilingInv'
  BY <1>2 DEF Age, vars, table, FilingInv, FirstRow, Filing, Unfiled, Filed
<1>3. ASSUME NEW p \in Procs, StopClustering(p) PROVE FilingInv'
  <2>1. /\ UNCHANGED <<members, timeline, analysed>>
        /\ pc' = [w \in Workers |-> IF w[1] = p THEN "idle" ELSE pc[w]]
        /\ held' = [w \in Workers |-> IF w[1] = p THEN None ELSE held[w]]
        /\ step' = [w \in Workers |-> IF w[1] = p THEN "find" ELSE step[w]]
        /\ best' = [w \in Workers |-> IF w[1] = p THEN 0 ELSE best[w]]
    BY <1>3 DEF StopClustering, Stop, table
  <2> QED BY <1>0, <2>1 DEF FilingInv, FirstRow, Filing, Unfiled, Filed
<1>4. CASE QueueStep /\ UNCHANGED events
  <2>1. UNCHANGED <<members, timeline, step, best>>
    BY <1>4 DEF events
  <2>2. \A w \in Workers :
          /\ analysed \subseteq analysed'
          /\ pc[w] = "cluster" => pc'[w] = "cluster" /\ held'[w] = held[w]
          /\ pc'[w] = "cluster" => pc[w] \in {"mark", "cluster"} /\ held'[w] = held[w]
          /\ pc'[w] = "mark" => pc[w] \in {"save", "mark"} /\ held'[w] = held[w]
    BY <1>4, QueueMotion
  <2>3. ASSUME NEW w \in Workers, Unfiled(w)' PROVE \A m \in members : m.article # held'[w]
    <3>1. CASE pc[w] = "save"
      BY <2>2, <2>3, <3>1 DEF Unfiled, FilingInv, Filing, OwnershipInv, AnalysisByCounter, BeforeSave
    <3>2. CASE pc[w] # "save"
      BY <2>1, <2>2, <2>3, <3>2 DEF Unfiled, FilingInv, FirstRow
    <3> QED BY <3>1, <3>2
  <2>4. \A w \in Workers : step[w] \in {"update", "refresh"} => held'[w] = held[w]
    BY <1>0, <2>2
  <2>5. \A m \in members : m.article \in analysed'
    <3>1. CASE Workers = {}
      <4>1. UNCHANGED analysed
        BY <1>4, <3>1 DEF QueueStep, InsertArticle, EnqueueLLMJob, Start, table, Workers
      <4> QED BY <4>1 DEF FilingInv, Filing
    <3>2. CASE Workers # {}
      BY <2>2, <3>2 DEF FilingInv, Filing
    <3> QED BY <3>1, <3>2
  <2> QED BY <2>1, <2>3, <2>4, <2>5 DEF FilingInv, Filing, FirstRow, Filed
<1>5. CASE UNCHANGED clusterVars
  BY <1>5 DEF clusterVars, events, vars, table, FilingInv, FirstRow, Filing, Unfiled, Filed
<1> QED BY <1>1, <1>2, <1>3, <1>4, <1>5 DEF ClusterNext

\* The queue's invariant and clustering's own hold together.
THEOREM ClusteringInvariant == ClusterSpec => [](OwnershipInv /\ EventTypes /\ FilingInv)
<1>1. ClusterSpec => []OwnershipInv
  BY ClusteringDrivesQueue, OwnershipInvariant, PTL DEF DrivesQueue
<1>2. ClusterInit => EventTypes /\ FilingInv
  BY InitTypes, InitFiling
<1>3. OwnershipInv /\ EventTypes /\ FilingInv /\ [ClusterNext]_clusterVars
        => EventTypes' /\ FilingInv'
  BY TypesStep, FilingStep
<1> QED BY <1>1, <1>2, <1>3, PTL DEF ClusterSpec

\* Every reachable state of clustering is well typed.
THEOREM ClusteringTypeCorrect == ClusterSpec => []ClusterTypeOK
<1>1. EventTypes => ClusterTypeOK
  BY DEF EventTypes
<1> QED BY ClusteringInvariant, <1>1, PTL

LEMMA FilingMeansOneEvent ==
  ASSUME FilingInv
  PROVE  OneEventPerArticle
<1> SUFFICES ASSUME NEW a \in Articles
             PROVE  /\ Cardinality(ClustersOf(a)) <= 1
                    /\ \A t \in timeline : t.article = a => t.cluster \in ClustersOf(a)
  BY DEF OneEventPerArticle
<1>1. \A t \in timeline : t.article = a => t.cluster \in ClustersOf(a)
  BY DEF FilingInv, Filing, Filed, ClustersOf
<1>2. CASE ClustersOf(a) = {}
  BY <1>1, <1>2, FS_EmptySet
<1>3. CASE ClustersOf(a) # {}
  <2>1. PICK c : c \in ClustersOf(a)
    BY <1>3
  <2>2. ClustersOf(a) = {c}
    BY <2>1 DEF ClustersOf, FilingInv, Filing
  <2>3. Cardinality({c}) = 1
    BY FS_Singleton
  <2> QED BY <1>1, <2>2, <2>3
<1> QED BY <1>2, <1>3

\* An article is filed under one event at most, and on that event's timeline:
\* for any number of reports, workers, processes, stops and failed statements.
THEOREM ArticlesHaveOneEvent == ClusterSpec => []OneEventPerArticle
<1>1. FilingInv => OneEventPerArticle
  BY FilingMeansOneEvent
<1> QED BY ClusteringInvariant, <1>1, PTL

FilingStays == [][members \subseteq members' /\ timeline \subseteq timeline']_clusterVars

\* The upsert of AttachArticleToCluster never finds a row to replace: an article
\* filed under an event stays there, with the relation it was given, and so does
\* its place on the timeline.
THEOREM FilingIsForGood == ClusterSpec => FilingStays
<1> DEFINE Grows == members \subseteq members' /\ timeline \subseteq timeline'
<1>1. ASSUME FilingInv, [ClusterNext]_clusterVars PROVE Grows
  <2>1. ASSUME NEW w \in Workers, pc[w] = "cluster", step[w] = "attach"
        PROVE  members \subseteq Attached(w)
    <3>1. \A m \in members : m.article # held[w]
      BY <1>1, <2>1 DEF FilingInv, FirstRow, Unfiled
    <3> QED BY <3>1 DEF Attached
  <2>2. ASSUME NEW w \in Workers, ClusterArticle(w) PROVE Grows
    BY <2>1, <2>2 DEF ClusterArticle, FindCandidateClusters, CreateCluster,
       AttachArticleToCluster, InsertEventUpdate, RefreshClusterAggregates, ClusterError, In, At
  <2>3. ASSUME NEW c \in ClusterIds, Age(c) PROVE Grows
    BY <2>3 DEF Age
  <2>4. ASSUME NEW p \in Procs, StopClustering(p) PROVE Grows
    BY <2>4 DEF StopClustering
  <2>5. CASE UNCHANGED events \/ UNCHANGED clusterVars
    BY <2>5 DEF events, clusterVars
  <2> QED BY <1>1, <2>2, <2>3, <2>4, <2>5 DEF ClusterNext
<1>2. FilingInv /\ [ClusterNext]_clusterVars => [Grows]_clusterVars
  BY <1>1
<1> QED BY <1>2, ClusteringInvariant, PTL DEF ClusterSpec, FilingStays

-----------------------------------------------------------------------------
(* What is missing has a failure behind it.                                *)

\* Three bounds that grow: by nothing, by one, by what a process held.
LEMMA NoMore ==
  ASSUME NEW S, IsFiniteSet(S), NEW b \in Nat, Cardinality(S) <= b, NEW U, U \subseteq S
  PROVE  IsFiniteSet(U) /\ Cardinality(U) <= b
<1>1. IsFiniteSet(U) /\ Cardinality(U) <= Cardinality(S)
  BY FS_Subset
<1>2. Cardinality(U) \in Nat /\ Cardinality(S) \in Nat
  BY <1>1, FS_CardinalityType
<1> QED BY <1>1, <1>2

LEMMA MoreBy ==
  ASSUME NEW S, IsFiniteSet(S), NEW b \in Nat, Cardinality(S) <= b,
         NEW T, NEW n \in Nat, IsFiniteSet(T), Cardinality(T) <= n,
         NEW U, U \subseteq S \cup T
  PROVE  IsFiniteSet(U) /\ Cardinality(U) <= b + n
<1>1. /\ IsFiniteSet(U) /\ Cardinality(U) \in Nat
      /\ Cardinality(U) <= Cardinality(S) + Cardinality(T)
  BY UnionBound
<1>2. Cardinality(S) \in Nat /\ Cardinality(T) \in Nat
  BY FS_CardinalityType
<1> QED BY <1>1, <1>2

LEMMA OneMore ==
  ASSUME NEW S, IsFiniteSet(S), NEW b \in Nat, Cardinality(S) <= b, NEW x,
         NEW U, U \subseteq S \cup {x}
  PROVE  IsFiniteSet(U) /\ Cardinality(U) <= b + 1
<1>1. IsFiniteSet({x}) /\ Cardinality({x}) = 1 /\ 1 \in Nat
  BY FS_Singleton
<1>2. Cardinality({x}) <= 1
  BY <1>1
<1> QED BY <1>1, <1>2, MoreBy

\* Articles past clustering that no event names.
Homeless ==
  {a \in Articles : /\ \A m \in members : m.article # a
                    /\ job[a] = "done" \/ \E w \in Workers : pc[w] = "complete" /\ held[w] = a}

\* Updates whose place on the timeline no worker is about to write.
Untimed ==
  {m \in members : /\ m.relation = "update"
                   /\ \A t \in timeline : t.article # m.article
                   /\ \A w \in Workers : ~(At(w, "cluster") /\ step[w] = "update"
                                           /\ held[w] = m.article)}

\* Events without an article that no worker is about to attach one to.
Hollow ==
  {c \in ClusterIds : (\A m \in members : m.cluster # c) /\ \A w \in Workers : best[w] # c}

AccountInv ==
  /\ IsFiniteSet(Homeless) /\ Cardinality(Homeless) <= faults
  /\ IsFiniteSet(Untimed) /\ Cardinality(Untimed) <= faults + stops * Cardinality(Slots)
  /\ IsFiniteSet(Hollow) /\ Cardinality(Hollow) <= faults + stops * Cardinality(Slots)

LEMMA InitAccount ==
  ASSUME ClusterInit
  PROVE  AccountInv
<1>1. Homeless = {} /\ Untimed = {} /\ Hollow = {}
  BY DEF ClusterInit, Init, Homeless, Untimed, Hollow, ClusterIds
<1>2. IsFiniteSet({}) /\ Cardinality({}) = 0 /\ Cardinality(Slots) \in Nat
  BY FS_EmptySet, FS_CardinalityType, QueueAssumption
<1>3. faults = 0 /\ stops = 0
  BY DEF ClusterInit, Init
<1>4. 0 <= faults /\ 0 <= faults + stops * Cardinality(Slots)
  BY <1>2, <1>3
<1> QED BY <1>1, <1>2, <1>4 DEF AccountInv

LEMMA Bounds ==
  ASSUME OwnershipInv, EventTypes
  PROVE  /\ faults \in Nat /\ stops \in Nat
         /\ stops * Cardinality(Slots) \in Nat
         /\ faults + stops * Cardinality(Slots) \in Nat
<1>1. faults \in Nat /\ stops \in Nat /\ Cardinality(Slots) \in Nat
  BY ClusteringAssumption, QueueAssumption, FS_CardinalityType
     DEF OwnershipInv, TypeOK, EventTypes, ClusterTypeOK
<1>2. stops * Cardinality(Slots) \in Nat
  BY <1>1, OneMoreStop
<1> QED BY <1>1, <1>2

\* A step without a failure.
LEMMA AccountKept ==
  ASSUME OwnershipInv, EventTypes, AccountInv, UNCHANGED <<faults, stops>>,
         Homeless' \subseteq Homeless, Untimed' \subseteq Untimed, Hollow' \subseteq Hollow
  PROVE  AccountInv'
BY Bounds, NoMore DEF AccountInv

\* A failed statement.
LEMMA AccountFault ==
  ASSUME OwnershipInv, EventTypes, AccountInv, faults' = faults + 1, UNCHANGED stops,
         NEW a, NEW m, NEW c,
         Homeless' \subseteq Homeless \cup {a}, Untimed' \subseteq Untimed \cup {m},
         Hollow' \subseteq Hollow \cup {c}
  PROVE  AccountInv'
<1> DEFINE k == stops * Cardinality(Slots)
<1>0. k \in Nat /\ faults \in Nat /\ faults + k \in Nat
  BY Bounds
<1>1. IsFiniteSet(Homeless') /\ Cardinality(Homeless') <= faults + 1
  BY <1>0, OneMore DEF AccountInv
<1>2. IsFiniteSet(Untimed') /\ Cardinality(Untimed') <= (faults + k) + 1
  BY <1>0, OneMore DEF AccountInv
<1>3. IsFiniteSet(Hollow') /\ Cardinality(Hollow') <= (faults + k) + 1
  BY <1>0, OneMore DEF AccountInv
<1>4. k' = k
  OBVIOUS
<1>5. (faults + k) + 1 = faults' + k
  <2> HIDE DEF k
  <2> QED BY <1>0
<1> QED BY <1>1, <1>2, <1>3, <1>4, <1>5 DEF AccountInv

LEMMA NoClusterZero ==
  ASSUME EventTypes
  PROVE  0 \notin ClusterIds
<1>1. clusters \in Seq(EventRecords)
  BY DEF EventTypes, ClusterTypeOK, EventRecords
<1>2. ClusterIds = 1..Len(clusters) /\ Len(clusters) \in Nat
  BY <1>1, LenProperties DEF ClusterIds
<1> QED BY <1>2

\* The rows an attachment leaves.
LEMMA AttachedRows ==
  ASSUME EventTypes, FilingInv, NEW w \in Workers, pc[w] = "cluster", step[w] = "attach"
  PROVE  Attached(w) = members \cup
           {[cluster |-> best[w], article |-> held[w], relation |-> relation[w]]}
<1>1. \A m \in members : m.article # held[w]
  BY DEF FilingInv, FirstRow, Unfiled
<1> QED BY <1>1 DEF Attached

LEMMA ArticleAccount ==
  ASSUME OwnershipInv, EventTypes, FilingInv, AccountInv, NEW w \in Workers, ClusterArticle(w)
  PROVE  AccountInv'
<1>0. /\ step \in [Workers -> {"find", "create", "attach", "update", "refresh"}]
      /\ best \in [Workers -> ClusterIds \cup {0}]
      /\ pc \in [Workers -> PCs] /\ held \in [Workers -> Articles \cup {None}]
      /\ step[w] \in {"find", "create"} => best[w] = 0
      /\ 0 \notin ClusterIds
      /\ pc[w] = "cluster" /\ At(w, "cluster")
  BY NoClusterZero
     DEF OwnershipInv, TypeOK, EventTypes, ClusterTypeOK, Aimed, ClusterArticle,
         FindCandidateClusters, CreateCluster, AttachArticleToCluster, InsertEventUpdate,
         RefreshClusterAggregates, ClusterError, In, At
<1> DEFINE m0 == [cluster |-> best[w], article |-> held[w], relation |-> relation[w]]
<1>1. m0.article = held[w] /\ m0.cluster = best[w] /\ m0.relation = relation[w]
  OBVIOUS
<1>2. step[w] = "attach" => Attached(w) = members \cup {m0}
  BY <1>0, AttachedRows
<1> HIDE DEF m0
\* Steps inside the worker's own state.
<1>q. ASSUME UNCHANGED <<pc, held, up, job, stops>>,
             \A a \in Articles : (\E m \in members : m.article = a) => \E m \in members' : m.article = a
      PROVE  Homeless' \subseteq Homeless /\ \A v \in Workers : At(v, "cluster")' = At(v, "cluster")
  BY <1>q DEF Homeless, At
<1>l. ASSUME Leave(w)
      PROVE  /\ pc' = [pc EXCEPT ![w] = "complete"] /\ UNCHANGED <<held, job, stops, up>>
             /\ step' = [step EXCEPT ![w] = "find"]
             /\ best' = [best EXCEPT ![w] = 0]
             /\ \A v \in Workers : v # w => At(v, "cluster")' = At(v, "cluster")
  BY <1>0, <1>l DEF Leave, Cluster, Goto, Steady, budgets, table, At
<1>3. CASE FindCandidateClusters(w)
  <2>1. /\ UNCHANGED <<clusters, members, timeline, faults, vars>> /\ step[w] = "find"
        /\ \E to \in {"create", "attach"} : step' = [step EXCEPT ![w] = to]
        /\ \A v \in Workers : v # w => best'[v] = best[v]
    BY <1>0, <1>3 DEF FindCandidateClusters, ToStep, In
  <2>2. UNCHANGED <<pc, held, up, job, stops>>
    BY <2>1 DEF vars, table, budgets
  <2>3. Homeless' \subseteq Homeless /\ \A v \in Workers : At(v, "cluster")' = At(v, "cluster")
    BY <1>q, <2>1, <2>2
  <2>4. Untimed' \subseteq Untimed
    BY <1>0, <2>1, <2>2, <2>3 DEF Untimed
  <2>5. Hollow' \subseteq Hollow
    BY <1>0, <2>1 DEF Hollow, ClusterIds
  <2> QED BY <2>1, <2>2, <2>3, <2>4, <2>5, AccountKept
<1>4. CASE CreateCluster(w)
  <2> DEFINE e == [answer |-> Answer[held[w]], live |-> TRUE,
                   importance |-> Answer[held[w]].importance, size |-> 1]
  <2>1. /\ UNCHANGED <<members, timeline, faults, vars>> /\ step[w] = "create"
        /\ step' = [step EXCEPT ![w] = "attach"]
        /\ best' = [best EXCEPT ![w] = Len(clusters) + 1]
        /\ clusters' = Append(clusters, e)
    BY <1>0, <1>4 DEF CreateCluster, ToStep, In
  <2>2. UNCHANGED <<pc, held, up, job, stops>>
    BY <2>1 DEF vars, table, budgets
  <2>3. Homeless' \subseteq Homeless /\ \A v \in Workers : At(v, "cluster")' = At(v, "cluster")
    BY <1>q, <2>1, <2>2
  <2>4. Untimed' \subseteq Untimed
    BY <1>0, <2>1, <2>2, <2>3 DEF Untimed
  <2>5. ClusterIds' \subseteq ClusterIds \cup {Len(clusters) + 1}
    <3>1. clusters \in Seq(EventRecords) /\ e \in EventRecords
      BY <1>0, HeldAnswer DEF EventTypes, ClusterTypeOK, EventRecords
    <3> HIDE DEF e
    <3>2. clusters' \in Seq(EventRecords) /\ Len(clusters') = Len(clusters) + 1
      BY <2>1, <3>1, AppendProperties
    <3>3. ClusterIds = 1..Len(clusters) /\ ClusterIds' = 1..Len(clusters') /\ Len(clusters) \in Nat
      BY <3>1, <3>2, LenProperties DEF ClusterIds
    <3> QED BY <3>2, <3>3
  <2>6. Hollow' \subseteq Hollow
    BY <1>0, <2>1, <2>5 DEF Hollow
  <2> QED BY <2>1, <2>2, <2>3, <2>4, <2>6, AccountKept
<1>5. CASE AttachArticleToCluster(w)
  <2>1. /\ UNCHANGED <<clusters, timeline, best, faults, vars>> /\ step[w] = "attach"
        /\ step' = [step EXCEPT ![w] = IF relation[w] = "update" THEN "update" ELSE "refresh"]
        /\ members' = members \cup {m0}
    BY <1>0, <1>2, <1>5 DEF AttachArticleToCluster, ToStep, In
  <2>2. UNCHANGED <<pc, held, up, job, stops>>
    BY <2>1 DEF vars, table, budgets
  <2>3. Homeless' \subseteq Homeless /\ \A v \in Workers : At(v, "cluster")' = At(v, "cluster")
    BY <1>q, <2>1, <2>2
  <2>4. m0 \notin Untimed'
    BY <1>0, <1>1, <2>1, <2>2, <2>3 DEF Untimed
  <2>5. Untimed' \subseteq Untimed
    BY <1>0, <2>1, <2>2, <2>3, <2>4 DEF Untimed
  <2>6. Hollow' \subseteq Hollow
    BY <2>1 DEF Hollow, ClusterIds
  <2> QED BY <2>1, <2>2, <2>3, <2>5, <2>6, AccountKept
<1>6. CASE InsertEventUpdate(w)
  <2>1. /\ UNCHANGED <<clusters, members, best, faults, vars>> /\ step[w] = "update"
        /\ step' = [step EXCEPT ![w] = "refresh"]
        /\ timeline' = timeline \cup {[cluster |-> best[w], article |-> held[w]]}
    BY <1>0, <1>6 DEF InsertEventUpdate, ToStep, In
  <2>2. UNCHANGED <<pc, held, up, job, stops>>
    BY <2>1 DEF vars, table, budgets
  <2>3. Homeless' \subseteq Homeless /\ \A v \in Workers : At(v, "cluster")' = At(v, "cluster")
    BY <1>q, <2>1, <2>2
  <2>4. Untimed' \subseteq Untimed
    <3> SUFFICES ASSUME NEW m \in Untimed' PROVE m \in Untimed
      OBVIOUS
    <3>1. /\ m \in members /\ m.relation = "update"
          /\ \A t \in timeline' : t.article # m.article
      BY <2>1 DEF Untimed
    <3>2. m.article # held[w] /\ \A t \in timeline : t.article # m.article
      <4> DEFINE r == [cluster |-> best[w], article |-> held[w]]
      <4>1. r \in timeline' /\ r.article = held[w] /\ timeline \subseteq timeline'
        BY <2>1
      <4> HIDE DEF r
      <4> QED BY <3>1, <4>1
    <3>3. ASSUME NEW v \in Workers, At(v, "cluster"), step[v] = "update", held[v] = m.article
          PROVE  FALSE
      BY <1>0, <2>1, <2>2, <2>3, <3>2, <3>3 DEF Untimed
    <3> QED BY <3>1, <3>2, <3>3 DEF Untimed
  <2>5. Hollow' \subseteq Hollow
    BY <2>1 DEF Hollow, ClusterIds
  <2> QED BY <2>1, <2>2, <2>3, <2>4, <2>5, AccountKept
<1>7. CASE RefreshClusterAggregates(w)
  <2>1. UNCHANGED <<clusters, members, timeline, faults>> /\ Leave(w) /\ step[w] = "refresh"
    BY <1>7 DEF RefreshClusterAggregates, In
  <2>2. \E m \in members : m.article = held[w] /\ m.cluster = best[w]
    BY <2>1 DEF FilingInv, Filing, Filed
  <2>3. Homeless' \subseteq Homeless
    BY <1>0, <1>l, <2>1, <2>2 DEF Homeless
  <2>4. Untimed' \subseteq Untimed
    BY <1>0, <1>l, <2>1 DEF Untimed
  <2>5. Hollow' \subseteq Hollow
    BY <1>0, <1>l, <2>1, <2>2 DEF Hollow, ClusterIds
  <2> QED BY <1>l, <2>1, <2>3, <2>4, <2>5, AccountKept
<1>8. CASE ClusterError(w)
  <2>0. UNCHANGED <<clusters, timeline>> /\ faults' = faults + 1
    BY <1>8 DEF ClusterError
  <2>1. ASSUME Leave(w), step[w] \in {"find", "create", "attach"},
               UNCHANGED members \/ members' = members \cup {m0}
        PROVE  AccountInv'
    <3>1. Homeless' \subseteq Homeless \cup {held[w]}
      BY <1>0, <1>l, <2>1 DEF Homeless
    <3>2. Untimed' \subseteq Untimed \cup {m0}
      BY <1>0, <1>l, <2>0, <2>1 DEF Untimed
    <3>3. Hollow' \subseteq Hollow \cup {best[w]}
      BY <1>0, <1>l, <2>0, <2>1 DEF Hollow, ClusterIds
    <3> QED BY <1>l, <2>0, <2>1, <3>1, <3>2, <3>3, AccountFault
  <2>2. CASE step[w] = "update" /\ ToStep(w, "refresh") /\ UNCHANGED <<best, relation, members, vars>>
    <3>1. UNCHANGED <<pc, held, up, job, stops>> /\ step' = [step EXCEPT ![w] = "refresh"]
      BY <2>2 DEF vars, table, budgets, ToStep
    <3>2. Homeless' \subseteq Homeless /\ \A v \in Workers : At(v, "cluster")' = At(v, "cluster")
      BY <1>q, <2>2, <3>1
    <3>3. PICK m1 \in members : m1.article = held[w]
      BY <2>2 DEF FilingInv, Filing, Filed
    <3>4. \A m \in members : m.article = held[w] => m = m1
      BY <3>3 DEF FilingInv, Filing
    <3>5. Untimed' \subseteq Untimed \cup {m1}
      BY <1>0, <2>0, <2>2, <3>1, <3>2, <3>4 DEF Untimed
    <3>6. Hollow' \subseteq Hollow
      BY <2>0, <2>2 DEF Hollow, ClusterIds
    <3> QED BY <2>0, <3>1, <3>2, <3>5, <3>6, AccountFault
  <2> QED BY <1>2, <1>8, <2>1, <2>2 DEF ClusterError
<1> QED BY <1>3, <1>4, <1>5, <1>6, <1>7, <1>8 DEF ClusterArticle

LEMMA QueueAccount ==
  ASSUME OwnershipInv, EventTypes, FilingInv, AccountInv, QueueStep, UNCHANGED events
  PROVE  AccountInv'
<1>0. /\ pc \in [Workers -> PCs] /\ held \in [Workers -> Articles \cup {None}]
      /\ job \in [Articles -> {"none", "pending", "running", "done", "failed"}]
      /\ UNCHANGED <<clusters, members, timeline, step, best, faults>>
  BY DEF OwnershipInv, TypeOK, events
<1> DEFINE Calm == /\ UNCHANGED stops
                   /\ up \subseteq up'
                   /\ \A v \in Workers : pc'[v] = "complete" =>
                                         pc[v] = "complete" /\ held'[v] = held[v]
                   /\ \A a \in Articles : job'[a] = "done" =>
                        \/ job[a] = "done"
                        \/ \E v \in Workers : pc[v] = "complete" /\ held[v] = a
<1>1. ASSUME NEW a \in Articles, InsertArticle(a, "fresh") \/ EnqueueLLMJob(a) PROVE Calm
  BY <1>0, <1>1 DEF InsertArticle, EnqueueLLMJob, budgets
<1>2. ASSUME NEW w \in Workers, Pick(w) \/ CompleteLLMJob(w) \/ FailLLMJob(w) PROVE Calm
  BY <1>0, <1>2 DEF Pick, CompleteLLMJob, FailLLMJob, FailRow, LetGo, At, Steady, budgets
<1>3. ASSUME NEW w \in Workers, CheckAnalysis(w) PROVE Calm
  <2>1. held[w] \notin analysed
    BY <1>3 DEF CheckAnalysis, At, OwnershipInv, AnalysisByCounter, BeforeSave
  <2> QED BY <1>0, <1>3, <2>1 DEF CheckAnalysis, Goto, At, Steady, budgets, table
<1>4. ASSUME NEW w \in Workers, \/ LoadArticle(w) \/ CallAnswers(w) \/ CallFails(w)
                                \/ SaveAnalysis(w) \/ MarkDone(w)
      PROVE  Calm
  BY <1>0, <1>4 DEF LoadArticle, CallAnswers, CallFails, SaveAnalysis, MarkDone, Goto, Steady,
                    budgets, table
<1>5. ASSUME NEW w \in Workers, StoreError(w) \/ GiveBackError(w) PROVE Calm
  BY <1>0, <1>5 DEF StoreError, GiveBackError, SpendDbError, Goto, LetGo, table
<1>6. ASSUME NEW p \in Procs, Start(p) PROVE Calm
  BY <1>0, <1>6 DEF Start, table, budgets
<1>7. Calm
  BY <1>1, <1>2, <1>3, <1>4, <1>5, <1>6 DEF QueueStep
<1>8. Homeless' \subseteq Homeless
  BY <1>0, <1>7 DEF Homeless
<1>9. Untimed' \subseteq Untimed
  <2>1. \A v \in Workers : At(v, "cluster") =>
          At(v, "cluster")' /\ held'[v] = held[v]
    BY <1>7, QueueMotion DEF At
  <2> QED BY <1>0, <2>1 DEF Untimed
<1>10. Hollow' \subseteq Hollow
  BY <1>0 DEF Hollow, ClusterIds
<1> QED BY <1>0, <1>7, <1>8, <1>9, <1>10, AccountKept

\* The updates a stopped process was about to put on the timeline: one for
\* each of its workers, since an article has one row.
LEMMA AtMostOneRowEach ==
  ASSUME FilingInv, NEW p
  PROVE  LET T == {m \in members : m.article \in {held[w] : w \in {p} \X Slots}}
         IN  IsFiniteSet(T) /\ Cardinality(T) <= Cardinality(Slots)
<1> DEFINE H == {held[w] : w \in {p} \X Slots}
           T == {m \in members : m.article \in H}
           f == [m \in T |-> m.article]
<1>1. IsFiniteSet(H) /\ Cardinality(H) <= Cardinality(Slots)
  <2>1. \A x \in H : \E s \in Slots : x = held[<<p, s>>]
    OBVIOUS
  <2> HIDE DEF H
  <2> QED BY <2>1, AtMostSlots
<1>2. f \in Injection(T, H)
  <2>1. f \in [T -> H]
    OBVIOUS
  <2>2. \A m, n \in T : f[m] = f[n] => m = n
    BY DEF FilingInv, Filing
  <2> QED BY <2>1, <2>2 DEF Injection, IsInjective
<1> HIDE DEF f, H, T
<1>3. IsFiniteSet(T) /\ Cardinality(T) <= Cardinality(H)
  BY <1>1, <1>2, FS_Injection
<1>4. /\ Cardinality(T) \in Nat /\ Cardinality(H) \in Nat /\ Cardinality(Slots) \in Nat
  BY <1>1, <1>3, FS_CardinalityType, QueueAssumption
<1>5. IsFiniteSet(T) /\ Cardinality(T) <= Cardinality(Slots)
  BY <1>1, <1>3, <1>4
<1> QED BY <1>5 DEF T, H

LEMMA StopAccount ==
  ASSUME OwnershipInv, EventTypes, FilingInv, AccountInv, NEW p \in Procs, StopClustering(p)
  PROVE  AccountInv'
<1> DEFINE k == stops * Cardinality(Slots)
           n == Cardinality(Slots)
           H == {held[w] : w \in {p} \X Slots}
           T == {m \in members : m.article \in H}
           B == {best[w] : w \in {p} \X Slots}
<1>1. /\ UNCHANGED <<clusters, members, timeline, faults, job>> /\ stops' = stops + 1
      /\ up' = up \ {p}
      /\ pc' = [w \in Workers |-> IF w[1] = p THEN "idle" ELSE pc[w]]
      /\ held' = [w \in Workers |-> IF w[1] = p THEN None ELSE held[w]]
      /\ step' = [w \in Workers |-> IF w[1] = p THEN "find" ELSE step[w]]
      /\ best' = [w \in Workers |-> IF w[1] = p THEN 0 ELSE best[w]]
  BY DEF StopClustering, Stop, table
<1>2. \A w \in Workers : w[1] = p => w \in {p} \X Slots
  BY DEF Workers
<1>3. Homeless' \subseteq Homeless
  BY <1>1 DEF Homeless
<1>4. Untimed' \subseteq Untimed \cup T
  <2> SUFFICES ASSUME NEW m \in Untimed', m \notin T PROVE m \in Untimed
    OBVIOUS
  <2>1. /\ m \in members /\ m.relation = "update"
        /\ \A t \in timeline : t.article # m.article
    BY <1>1 DEF Untimed
  <2>2. ASSUME NEW w \in Workers, At(w, "cluster"), step[w] = "update", held[w] = m.article
        PROVE  FALSE
    <3>1. w[1] # p
      BY <1>2, <2>1, <2>2
    <3>2. At(w, "cluster")' /\ step'[w] = "update" /\ held'[w] = m.article
      BY <1>1, <2>2, <3>1 DEF At
    <3> QED BY <3>2 DEF Untimed
  <2> QED BY <2>1, <2>2 DEF Untimed
<1>5. Hollow' \subseteq Hollow \cup B
  BY <1>1, <1>2 DEF Hollow, ClusterIds
<1>6. /\ IsFiniteSet(T) /\ Cardinality(T) <= n
      /\ IsFiniteSet(B) /\ Cardinality(B) <= n
  <2>1. \A x \in B : \E s \in Slots : x = best[<<p, s>>]
    OBVIOUS
  <2>2. IsFiniteSet(T) /\ Cardinality(T) <= n
    BY AtMostOneRowEach
  <2> HIDE DEF B
  <2>3. IsFiniteSet(B) /\ Cardinality(B) <= n
    BY <2>1, AtMostSlots
  <2> HIDE DEF T
  <2> QED BY <2>2, <2>3
<1>7. /\ faults \in Nat /\ faults + k \in Nat /\ n \in Nat /\ stops \in Nat
  BY Bounds, QueueAssumption, FS_CardinalityType
<1>8. k = stops * n
  OBVIOUS
<1>9. AccountInv => /\ IsFiniteSet(Untimed) /\ Cardinality(Untimed) <= faults + k
                    /\ IsFiniteSet(Hollow) /\ Cardinality(Hollow) <= faults + k
  BY DEF AccountInv
<1> HIDE DEF T, B, H
<1>10. /\ IsFiniteSet(Untimed') /\ Cardinality(Untimed') <= (faults + k) + n
       /\ IsFiniteSet(Hollow') /\ Cardinality(Hollow') <= (faults + k) + n
  <2> HIDE DEF k, n
  <2> QED BY <1>4, <1>5, <1>6, <1>7, <1>9, MoreBy
<1>11. faults' + stops' * n = (faults + k) + n
  <2> HIDE DEF k, n
  <2>1. (stops + 1) * n = stops * n + n /\ stops * n \in Nat
    BY <1>7, OneMoreStop
  <2> QED BY <1>1, <1>7, <1>8, <2>1
<1>12. IsFiniteSet(Homeless') /\ Cardinality(Homeless') <= faults'
  BY <1>1, <1>3, <1>7, NoMore DEF AccountInv
<1> QED BY <1>10, <1>11, <1>12 DEF AccountInv

LEMMA AccountStep ==
  ASSUME OwnershipInv, EventTypes, FilingInv, AccountInv, [ClusterNext]_clusterVars
  PROVE  AccountInv'
<1>1. ASSUME NEW w \in Workers, ClusterArticle(w) PROVE AccountInv'
  BY <1>1, ArticleAccount
<1>2. ASSUME NEW c \in ClusterIds, Age(c) PROVE AccountInv'
  <2>1. clusters \in Seq(EventRecords)
    BY DEF EventTypes, ClusterTypeOK, EventRecords
  <2>2. ClusterIds' = ClusterIds
    BY <1>2, <2>1, AgedCluster
  <2>3. UNCHANGED <<members, timeline, step, best, faults, pc, held, up, job, stops>>
    BY <1>2 DEF Age, vars, table, budgets
  <2>4. Homeless' = Homeless /\ Hollow' = Hollow /\ Untimed' = Untimed
    BY <2>2, <2>3 DEF Homeless, Hollow, Untimed, At
  <2> QED BY <2>3, <2>4, AccountKept
<1>3. ASSUME NEW p \in Procs, StopClustering(p) PROVE AccountInv'
  BY <1>3, StopAccount
<1>4. CASE QueueStep /\ UNCHANGED events
  BY <1>4, QueueAccount
<1>5. CASE UNCHANGED clusterVars
  <2>1. UNCHANGED <<clusters, members, timeline, step, best, faults, pc, held, up, job, stops>>
    BY <1>5 DEF clusterVars, events, vars, table, budgets
  <2>2. Homeless' = Homeless /\ Hollow' = Hollow /\ Untimed' = Untimed
    BY <2>1 DEF Homeless, Hollow, Untimed, At, ClusterIds
  <2> QED BY <2>1, <2>2, AccountKept
<1> QED BY <1>1, <1>2, <1>3, <1>4, <1>5 DEF ClusterNext

LEMMA AccountMeansAccounted ==
  ASSUME OwnershipInv, EventTypes, AccountInv
  PROVE  ClusteringAccounted
<1> DEFINE h == {a \in Articles : job[a] = "done" /\ ClustersOf(a) = {}}
           u == {m \in members : /\ m.relation = "update" /\ ~InProgress(m.article)
                                 /\ \A t \in timeline : t.article # m.article}
           c == {d \in ClusterIds : /\ \A m \in members : m.cluster # d
                                    /\ \A w \in Workers : best[w] # d}
<1>1. h \subseteq Homeless
  BY DEF Homeless, ClustersOf
<1>2. u \subseteq Untimed
  BY DEF Untimed, InProgress
<1>3. c \subseteq Hollow
  BY DEF Hollow
<1> HIDE DEF h, u, c
<1>4. /\ Cardinality(h) <= faults
      /\ Cardinality(u) <= faults + stops * Cardinality(Slots)
      /\ Cardinality(c) <= faults + stops * Cardinality(Slots)
  BY <1>1, <1>2, <1>3, Bounds, NoMore DEF AccountInv
<1> QED BY <1>4 DEF ClusteringAccounted, h, u, c

\* A done article without an event, an update missing from its timeline and an
\* event without an article are one each for each failed statement of
\* clustering, or for each worker of a stopped process.
THEOREM ClusteringIsAccounted == ClusterSpec => []ClusteringAccounted
<1>1. ClusterInit => AccountInv
  BY InitAccount
<1>2. OwnershipInv /\ EventTypes /\ FilingInv /\ AccountInv /\ [ClusterNext]_clusterVars
        => AccountInv'
  BY AccountStep
<1>3. OwnershipInv /\ EventTypes /\ AccountInv => ClusteringAccounted
  BY AccountMeansAccounted
<1> QED BY <1>1, <1>2, <1>3, ClusteringInvariant, PTL DEF ClusterSpec

-----------------------------------------------------------------------------
(* Twin clusters.                                                          *)

\* The limit of FindCandidateClusters leaves nothing out.
WithinLimit == \A a \in Articles : Cardinality(Matching(Answer[a])) <= CandidateLimit

Live(k, t)     == {c \in ClusterIds : /\ clusters[c].live
                                      /\ clusters[c].answer.key = k
                                      /\ clusters[c].answer.type = t}
Creators(k, t) == {w \in Workers : /\ step[w] = "create"
                                   /\ Answer[held[w]].key = k
                                   /\ Answer[held[w]].type = t}

\* A worker joins the creators of an event only while it has no live cluster.
TwinInv == \A k, t : Cardinality(Live(k, t)) + Cardinality(Creators(k, t))
                       <= Cardinality(Workers)

LEMMA FiniteSides ==
  ASSUME EventTypes, IsFiniteSet(Procs), NEW k, NEW t
  PROVE  /\ IsFiniteSet(Workers) /\ Cardinality(Workers) \in Nat
         /\ IsFiniteSet(Live(k, t)) /\ Cardinality(Live(k, t)) \in Nat
         /\ IsFiniteSet(Creators(k, t)) /\ Cardinality(Creators(k, t)) \in Nat
         /\ Cardinality(Creators(k, t)) <= Cardinality(Workers)
<1>1. IsFiniteSet(Workers)
  BY FS_Product, QueueAssumption DEF Workers
<1>2. Creators(k, t) \subseteq Workers
  BY DEF Creators
<1>3. clusters \in Seq(EventRecords)
  BY DEF EventTypes, ClusterTypeOK, EventRecords
<1>4. ClusterIds = 1..Len(clusters) /\ Len(clusters) \in Nat
  BY <1>3, LenProperties DEF ClusterIds
<1>5. IsFiniteSet(ClusterIds)
  BY <1>4, FS_Interval
<1>6. IsFiniteSet(Live(k, t))
  BY <1>5, FS_Subset DEF Live
<1> QED BY <1>1, <1>2, <1>6, FS_Subset, FS_CardinalityType

LEMMA TwinsKept ==
  ASSUME EventTypes, EventTypes', IsFiniteSet(Procs), TwinInv, NEW k, NEW t,
         Live(k, t)' \subseteq Live(k, t), Creators(k, t)' \subseteq Creators(k, t)
  PROVE  Cardinality(Live(k, t)') + Cardinality(Creators(k, t)') <= Cardinality(Workers)
<1>1. /\ Cardinality(Live(k, t)') <= Cardinality(Live(k, t))
      /\ Cardinality(Creators(k, t)') <= Cardinality(Creators(k, t))
      /\ Cardinality(Live(k, t)') \in Nat /\ Cardinality(Creators(k, t)') \in Nat
  BY FiniteSides, FS_Subset, FS_CardinalityType
<1>2. Cardinality(Live(k, t)) + Cardinality(Creators(k, t)) <= Cardinality(Workers)
  BY DEF TwinInv
<1> QED BY <1>1, <1>2, FiniteSides

\* The search finds a live cluster of the event: key and type make 60 points.
LEMMA NoneMissed ==
  ASSUME EventTypes, WithinLimit, NEW a \in Articles, NEW S,
         IsCandidateList(S, Answer[a]), NEW c \in S, c \in Live(Answer[a].key, Answer[a].type)
  PROVE  Score(clusters[c].answer, Answer[a]) >= 50
BY DEF Score, Points, Live

LEMMA WholeList ==
  ASSUME EventTypes, WithinLimit, NEW a \in Articles, NEW S, IsCandidateList(S, Answer[a])
  PROVE  S = Matching(Answer[a])
<1> DEFINE M == Matching(Answer[a])
<1>1. clusters \in Seq(EventRecords)
  BY DEF EventTypes, ClusterTypeOK, EventRecords
<1>2. IsFiniteSet(ClusterIds)
  BY <1>1, LenProperties, FS_Interval DEF ClusterIds
<1>3. IsFiniteSet(M) /\ S \subseteq M
  BY <1>2, FS_Subset DEF Matching, IsCandidateList
<1>4. /\ Cardinality(M) <= CandidateLimit
      /\ Cardinality(S) <= CandidateLimit
      /\ Cardinality(S) < CandidateLimit => S = M
  BY DEF WithinLimit, IsCandidateList
<1>5. /\ Cardinality(S) \in Nat /\ Cardinality(M) \in Nat
      /\ Cardinality(S) = Cardinality(M) => S = M
      /\ Cardinality(S) <= Cardinality(M)
  BY <1>3, FS_Subset, FS_CardinalityType
<1> QED BY <1>4, <1>5, ClusteringAssumption

LEMMA FirstCreators ==
  ASSUME OwnershipInv, EventTypes, WithinLimit, NEW w \in Workers, FindCandidateClusters(w),
         step' = [step EXCEPT ![w] = "create"]
  PROVE  Live(Answer[held[w]].key, Answer[held[w]].type) = {}
<1>1. pc[w] = "cluster" /\ step[w] = "find"
  BY DEF FindCandidateClusters, In, At
<1>2. held[w] \in Articles
  BY <1>1, HeldAnswer
<1>3. step'[w] = "create"
  BY DEF EventTypes, ClusterTypeOK
<1>4. PICK S : /\ IsCandidateList(S, Answer[held[w]])
               /\ \A c \in S : Score(clusters[c].answer, Answer[held[w]]) < 50
  <2>1. "attach" # "create" /\ (ToStep(w, "attach") => step'[w] = "attach")
    BY DEF ToStep, EventTypes, ClusterTypeOK
  <2> QED BY <1>3, <2>1 DEF FindCandidateClusters
<1>5. S = Matching(Answer[held[w]])
  BY <1>2, <1>4, WholeList
<1>6. ASSUME NEW c \in Live(Answer[held[w]].key, Answer[held[w]].type) PROVE FALSE
  <2>1. c \in S
    BY <1>5 DEF Live, Matching
  <2>2. Score(clusters[c].answer, Answer[held[w]]) >= 50
    BY <1>2, <1>4, <2>1, NoneMissed
  <2>3. Score(clusters[c].answer, Answer[held[w]]) \in Int
    BY DEF Score, Points
  <2> QED BY <1>4, <2>1, <2>2, <2>3
<1> QED BY <1>6

LEMMA CreatedTwin ==
  ASSUME OwnershipInv, EventTypes, EventTypes', IsFiniteSet(Procs), TwinInv,
         NEW w \in Workers, CreateCluster(w), NEW k, NEW t
  PROVE  Cardinality(Live(k, t)') + Cardinality(Creators(k, t)') <= Cardinality(Workers)
<1> DEFINE e == [answer |-> Answer[held[w]], live |-> TRUE,
                 importance |-> Answer[held[w]].importance, size |-> 1]
<1>0. /\ step[w] = "create" /\ pc[w] = "cluster" /\ step' = [step EXCEPT ![w] = "attach"]
      /\ UNCHANGED held /\ clusters' = Append(clusters, e)
  BY DEF CreateCluster, In, At, ToStep, vars, table
<1>1. /\ clusters \in Seq(EventRecords)
      /\ step \in [Workers -> {"find", "create", "attach", "update", "refresh"}]
  BY DEF EventTypes, ClusterTypeOK, EventRecords
<1>2. e \in EventRecords /\ e.answer = Answer[held[w]]
  BY <1>0, HeldAnswer DEF EventRecords
<1>3. /\ ClusterIds = 1..Len(clusters) /\ Len(clusters) \in Nat
      /\ ClusterIds' = 1..(Len(clusters) + 1)
      /\ \A c \in ClusterIds : clusters'[c] = clusters[c]
      /\ clusters'[Len(clusters) + 1] = e
  <2> HIDE DEF e
  <2>1. /\ clusters' \in Seq(EventRecords) /\ Len(clusters') = Len(clusters) + 1
        /\ \A c \in 1..Len(clusters) : clusters'[c] = clusters[c]
        /\ clusters'[Len(clusters) + 1] = e
    BY <1>0, <1>1, <1>2, AppendProperties
  <2>2. ClusterIds = 1..Len(clusters) /\ Len(clusters) \in Nat
    BY <1>1, LenProperties DEF ClusterIds
  <2>3. ClusterIds' = 1..Len(clusters')
    BY <2>1, LenProperties DEF ClusterIds
  <2>4. ClusterIds' = 1..(Len(clusters) + 1)
    BY <2>1, <2>3
  <2>5. \A c \in ClusterIds : clusters'[c] = clusters[c]
    BY <2>1, <2>2
  <2> QED BY <2>1, <2>2, <2>4, <2>5
<1>4. Creators(k, t)' = Creators(k, t) \ {w}
  BY <1>0, <1>1 DEF Creators
<1> HIDE DEF e
<1>5. CASE w \in Creators(k, t)
  <2>1. Live(k, t)' \subseteq Live(k, t) \cup {Len(clusters) + 1}
    BY <1>3 DEF Live
  <2>2. /\ Cardinality(Live(k, t)') \in Nat
        /\ Cardinality(Live(k, t)') <= Cardinality(Live(k, t)) + 1
    <3>1. Cardinality(Live(k, t)) <= Cardinality(Live(k, t))
      BY FiniteSides
    <3> QED BY <2>1, <3>1, FiniteSides, OneMore, FS_CardinalityType
  <2>3. Cardinality(Creators(k, t)') = Cardinality(Creators(k, t)) - 1
    BY <1>4, <1>5, FiniteSides, FS_RemoveElement
  <2>4. Cardinality(Live(k, t)) + Cardinality(Creators(k, t)) <= Cardinality(Workers)
    BY DEF TwinInv
  <2> QED BY <2>2, <2>3, <2>4, FiniteSides
<1>6. CASE w \notin Creators(k, t)
  <2>1. ~(Answer[held[w]].key = k /\ Answer[held[w]].type = t)
    BY <1>0, <1>6 DEF Creators
  <2>2. Live(k, t)' \subseteq Live(k, t)
    BY <1>2, <1>3, <2>1 DEF Live
  <2> QED BY <1>4, <2>2, TwinsKept
<1> QED BY <1>5, <1>6

LEMMA TwinStep ==
  ASSUME OwnershipInv, EventTypes, EventTypes', WithinLimit, IsFiniteSet(Procs), TwinInv,
         [ClusterNext]_clusterVars, NEW k, NEW t
  PROVE  Cardinality(Live(k, t)') + Cardinality(Creators(k, t)') <= Cardinality(Workers)
<1> DEFINE Goal == Cardinality(Live(k, t)') + Cardinality(Creators(k, t)') <= Cardinality(Workers)
<1>0. /\ step \in [Workers -> {"find", "create", "attach", "update", "refresh"}]
      /\ \A w \in Workers : step[w] # "find" => pc[w] = "cluster"
  BY DEF EventTypes, ClusterTypeOK, Aimed
<1>1. ASSUME NEW w \in Workers, FindCandidateClusters(w) PROVE Goal
  <2>1. /\ Live(k, t)' = Live(k, t) /\ UNCHANGED held /\ step[w] = "find"
        /\ \E to \in {"create", "attach"} : step' = [step EXCEPT ![w] = to]
    BY <1>1 DEF FindCandidateClusters, ToStep, In, Live, ClusterIds, vars, table
  <2>2. CASE w \in Creators(k, t)'
    <3>1. step' = [step EXCEPT ![w] = "create"]
      BY <1>0, <2>1, <2>2 DEF Creators
    <3>2. k = Answer[held[w]].key /\ t = Answer[held[w]].type
      BY <2>1, <2>2 DEF Creators
    <3>3. Live(k, t)' = {}
      BY <1>1, <2>1, <3>1, <3>2, FirstCreators
    <3>4. IsFiniteSet(Creators(k, t)') /\ Cardinality(Creators(k, t)') <= Cardinality(Workers)
      <4>1. Creators(k, t)' \subseteq Workers
        BY DEF Creators
      <4> QED BY <4>1, FiniteSides, FS_Subset
    <3>5. Cardinality(Live(k, t)') = 0 /\ Cardinality(Creators(k, t)') \in Nat
      BY <3>3, <3>4, FS_EmptySet, FS_CardinalityType
    <3> QED BY <3>4, <3>5
  <2>3. CASE w \notin Creators(k, t)'
    <3>1. Creators(k, t)' \subseteq Creators(k, t)
      BY <1>0, <2>1, <2>3 DEF Creators
    <3> QED BY <2>1, <3>1, TwinsKept
  <2> QED BY <2>2, <2>3
<1>2. ASSUME NEW w \in Workers, CreateCluster(w) PROVE Goal
  BY <1>2, CreatedTwin
<1>3. ASSUME NEW w \in Workers,
             \/ AttachArticleToCluster(w) \/ InsertEventUpdate(w)
             \/ RefreshClusterAggregates(w) \/ ClusterError(w)
      PROVE  Goal
  <2>1. /\ UNCHANGED <<clusters, held>>
        /\ \E to \in {"find", "update", "refresh"} : step' = [step EXCEPT ![w] = to]
    BY <1>3 DEF AttachArticleToCluster, InsertEventUpdate, RefreshClusterAggregates, ClusterError,
                Leave, Cluster, Goto, ToStep, vars, table
  <2>2. Live(k, t)' = Live(k, t) /\ Creators(k, t)' \subseteq Creators(k, t)
    BY <1>0, <2>1 DEF Live, Creators, ClusterIds
  <2> QED BY <2>2, TwinsKept
<1>4. ASSUME NEW c \in ClusterIds, Age(c) PROVE Goal
  <2>1. clusters \in Seq(EventRecords)
    BY DEF EventTypes, ClusterTypeOK, EventRecords
  <2>2. ClusterIds' = ClusterIds /\ UNCHANGED <<step, held>>
    BY <1>4, <2>1, AgedCluster DEF Age, vars, table
  <2>3. clusters' = [clusters EXCEPT ![c] = [clusters[c] EXCEPT !.live = FALSE]]
    BY <1>4, <2>1, LenProperties DEF Age, ClusterIds
  <2>4. Live(k, t)' \subseteq Live(k, t)
    <3>1. clusters \in [ClusterIds -> EventRecords]
      BY <2>1, LenProperties DEF ClusterIds
    <3> QED BY <2>2, <2>3, <3>1 DEF Live, EventRecords
  <2>5. Creators(k, t)' = Creators(k, t)
    BY <2>2 DEF Creators
  <2> QED BY <2>4, <2>5, TwinsKept
<1>5. ASSUME NEW p \in Procs, StopClustering(p) PROVE Goal
  <2>1. /\ UNCHANGED clusters
        /\ held' = [w \in Workers |-> IF w[1] = p THEN None ELSE held[w]]
        /\ step' = [w \in Workers |-> IF w[1] = p THEN "find" ELSE step[w]]
    BY <1>5 DEF StopClustering, Stop, table
  <2>2. Live(k, t)' = Live(k, t) /\ Creators(k, t)' \subseteq Creators(k, t)
    BY <2>1 DEF Live, Creators, ClusterIds
  <2> QED BY <2>2, TwinsKept
<1>6. CASE QueueStep /\ UNCHANGED events
  <2>1. UNCHANGED <<clusters, step>>
    BY <1>6 DEF events
  <2>2. \A w \in Workers : step[w] = "create" => held'[w] = held[w]
    BY <1>0, <1>6, QueueMotion
  <2>3. Live(k, t)' = Live(k, t) /\ Creators(k, t)' = Creators(k, t)
    BY <2>1, <2>2 DEF Live, Creators, ClusterIds
  <2> QED BY <2>3, TwinsKept
<1>7. CASE UNCHANGED clusterVars
  <2>1. Live(k, t)' = Live(k, t) /\ Creators(k, t)' = Creators(k, t)
    BY <1>7 DEF clusterVars, events, vars, table, Live, Creators, ClusterIds
  <2> QED BY <2>1, TwinsKept
<1> QED BY <1>1, <1>2, <1>3, <1>4, <1>5, <1>6, <1>7 DEF ClusterNext, ClusterArticle

\* As long as the candidate list holds every match, one event has at most one
\* live cluster for each worker, whatever the number of reports.
THEOREM TwinsAreBounded ==
  ASSUME IsFiniteSet(Procs)
  PROVE  ClusterSpec /\ []WithinLimit => []TwinsBounded
<1>1. ClusterInit => EventTypes /\ TwinInv
  <2> SUFFICES ASSUME ClusterInit PROVE EventTypes /\ TwinInv
    OBVIOUS
  <2>1. EventTypes
    BY InitTypes
  <2>2. ASSUME NEW k, NEW t PROVE Live(k, t) = {} /\ Creators(k, t) = {}
    BY DEF ClusterInit, Live, Creators, ClusterIds
  <2> QED BY <2>1, <2>2, FS_EmptySet, FiniteSides DEF TwinInv
<1>2. OwnershipInv /\ EventTypes /\ WithinLimit /\ TwinInv /\ [ClusterNext]_clusterVars
        => TwinInv'
  <2>1. OwnershipInv /\ EventTypes /\ [ClusterNext]_clusterVars => EventTypes'
    BY TypesStep
  <2> SUFFICES ASSUME OwnershipInv, EventTypes, WithinLimit, TwinInv,
                      [ClusterNext]_clusterVars, NEW k, NEW t
               PROVE  Cardinality(Live(k, t)') + Cardinality(Creators(k, t)')
                        <= Cardinality(Workers)
    BY DEF TwinInv, Workers
  <2> QED BY <2>1, TwinStep
<1>3. EventTypes /\ TwinInv => TwinsBounded
  <2> SUFFICES ASSUME EventTypes, TwinInv, NEW c \in ClusterIds
               PROVE  Cardinality({d \in ClusterIds : clusters[d].live /\ SameEvent(c, d)})
                        <= Cardinality(Workers)
    BY DEF TwinsBounded
  <2> DEFINE k == clusters[c].answer.key
             t == clusters[c].answer.type
  <2>1. {d \in ClusterIds : clusters[d].live /\ SameEvent(c, d)} = Live(k, t)
    BY DEF SameEvent, Live
  <2>2. Cardinality(Live(k, t)) + Cardinality(Creators(k, t)) <= Cardinality(Workers)
    BY DEF TwinInv
  <2> HIDE DEF k, t
  <2>3. Cardinality(Live(k, t)) <= Cardinality(Workers)
    BY <2>2, FiniteSides
  <2> QED BY <2>1, <2>3, Zenon
<1> QED BY <1>1, <1>2, <1>3, ClusteringInvariant, PTL DEF ClusterSpec
-----------------------------------------------------------------------------
(* How many events there are.                                              *)

\* Articles whose analysis is stored and whose worker may still create an event.
ToFile == {a \in Articles : \E w \in Workers : /\ held[w] = a /\ pc[w] \in {"mark", "cluster"}
                                               /\ step[w] \in {"find", "create"}}

\* An article takes its one chance to create an event with its analysis: no
\* retry and no second worker gives it another.
NoSurplus == Len(clusters) + Cardinality(ToFile) <= Cardinality(analysed)

LEMMA FiniteCounts ==
  ASSUME OwnershipInv, EventTypes, IsFiniteSet(Articles)
  PROVE  /\ IsFiniteSet(ToFile) /\ Cardinality(ToFile) \in Nat
         /\ IsFiniteSet(analysed) /\ Cardinality(analysed) \in Nat
         /\ Cardinality(analysed) <= Cardinality(Articles) /\ Cardinality(Articles) \in Nat
         /\ Len(clusters) \in Nat /\ ClusterIds = 1..Len(clusters)
<1>1. ToFile \subseteq Articles
  BY DEF ToFile
<1>2. analysed \subseteq Articles
  BY DEF OwnershipInv, TypeOK
<1>3. clusters \in Seq(EventRecords)
  BY DEF EventTypes, ClusterTypeOK, EventRecords
<1>4. Len(clusters) \in Nat /\ ClusterIds = 1..Len(clusters)
  BY <1>3, LenProperties DEF ClusterIds
<1> QED BY <1>1, <1>2, <1>4, FS_Subset, FS_CardinalityType

LEMMA SurplusKept ==
  ASSUME OwnershipInv, EventTypes, OwnershipInv', EventTypes', IsFiniteSet(Articles), NoSurplus,
         Len(clusters') = Len(clusters), ToFile' \subseteq ToFile, analysed \subseteq analysed'
  PROVE  NoSurplus'
<1>1. /\ IsFiniteSet(ToFile) /\ Cardinality(ToFile) \in Nat
      /\ Cardinality(analysed) \in Nat /\ Len(clusters) \in Nat
  BY FiniteCounts
<1>2. Cardinality(ToFile') \in Nat /\ Cardinality(ToFile') <= Cardinality(ToFile)
  BY <1>1, FS_Subset, FS_CardinalityType
<1>3. analysed' \subseteq Articles
  BY DEF OwnershipInv, TypeOK
<1>4. Cardinality(analysed') \in Nat /\ Cardinality(analysed) <= Cardinality(analysed')
  BY <1>3, FS_Subset, FS_CardinalityType
<1> QED BY <1>1, <1>2, <1>4 DEF NoSurplus

\* Only SaveAnalysis brings an article to ClusterArticle.
LEMMA OneWayToClustering ==
  ASSUME OwnershipInv, QueueStep
  PROVE  \/ \E w \in Workers : SaveAnalysis(w)
         \/ \A v \in Workers : pc'[v] \in {"mark", "cluster"}
                                 => pc[v] \in {"mark", "cluster"} /\ held'[v] = held[v]
<1> DEFINE Quiet == \A v \in Workers : pc'[v] \in {"mark", "cluster"}
                                         => pc[v] \in {"mark", "cluster"} /\ held'[v] = held[v]
<1>0. pc \in [Workers -> PCs] /\ held \in [Workers -> Articles \cup {None}]
  BY DEF OwnershipInv, TypeOK
<1>1. ASSUME NEW a \in Articles, InsertArticle(a, "fresh") \/ EnqueueLLMJob(a) PROVE Quiet
  BY <1>0, <1>1 DEF InsertArticle, EnqueueLLMJob
<1>2. ASSUME NEW w \in Workers, Pick(w) \/ CompleteLLMJob(w) \/ FailLLMJob(w) PROVE Quiet
  BY <1>0, <1>2 DEF Pick, CompleteLLMJob, FailLLMJob, FailRow, LetGo, At
<1>3. ASSUME NEW w \in Workers, CheckAnalysis(w) \/ LoadArticle(w) PROVE Quiet
  BY <1>0, <1>3 DEF CheckAnalysis, LoadArticle, Goto, At, table
<1>4. ASSUME NEW w \in Workers, CallAnswers(w) \/ CallFails(w) \/ MarkDone(w) PROVE Quiet
  BY <1>0, <1>4 DEF CallAnswers, CallFails, MarkDone, Goto, At, table
<1>5. ASSUME NEW w \in Workers, StoreError(w) \/ GiveBackError(w) PROVE Quiet
  BY <1>0, <1>5 DEF StoreError, GiveBackError, SpendDbError, Goto, LetGo, table
<1>6. ASSUME NEW p \in Procs, Start(p) PROVE Quiet
  BY <1>0, <1>6 DEF Start, table
<1> QED BY <1>1, <1>2, <1>3, <1>4, <1>5, <1>6 DEF QueueStep

LEMMA SavedMakesRoom ==
  ASSUME OwnershipInv, EventTypes, OwnershipInv', EventTypes', IsFiniteSet(Articles), NoSurplus,
         NEW w \in Workers, SaveAnalysis(w), UNCHANGED events
  PROVE  NoSurplus'
<1>1. /\ pc[w] = "save" /\ pc' = [pc EXCEPT ![w] = "mark"]
      /\ analysed' = analysed \cup {held[w]}
      /\ UNCHANGED <<held, step, clusters>>
  BY DEF SaveAnalysis, At, Goto, events
<1>2. held[w] \notin analysed
  BY <1>1 DEF OwnershipInv, AnalysisByCounter, BeforeSave
<1>3. Cardinality(analysed') = Cardinality(analysed) + 1
  BY <1>1, <1>2, FiniteCounts, FS_AddElement
<1>4. ToFile' \subseteq ToFile \cup {held[w]}
  BY <1>1 DEF ToFile, OwnershipInv, TypeOK
<1>5. Cardinality(ToFile') <= Cardinality(ToFile) + 1 /\ Cardinality(ToFile') \in Nat
  <2>1. /\ IsFiniteSet(ToFile) /\ Cardinality(ToFile) \in Nat
        /\ Cardinality(ToFile) <= Cardinality(ToFile)
    BY FiniteCounts
  <2>2. IsFiniteSet(ToFile') /\ Cardinality(ToFile') <= Cardinality(ToFile) + 1
    BY <1>4, <2>1, OneMore
  <2> QED BY <2>2, FS_CardinalityType
<1> QED BY <1>1, <1>3, <1>5, FiniteCounts DEF NoSurplus

LEMMA CreatedUsesRoom ==
  ASSUME OwnershipInv, EventTypes, OwnershipInv', EventTypes', IsFiniteSet(Articles), NoSurplus,
         NEW w \in Workers, CreateCluster(w)
  PROVE  NoSurplus'
<1> DEFINE e == [answer |-> Answer[held[w]], live |-> TRUE,
                 importance |-> Answer[held[w]].importance, size |-> 1]
<1>1. /\ pc[w] = "cluster" /\ step[w] = "create" /\ step' = [step EXCEPT ![w] = "attach"]
      /\ UNCHANGED <<held, pc, analysed>> /\ clusters' = Append(clusters, e)
  BY DEF CreateCluster, In, At, ToStep, vars, table
<1>2. clusters \in Seq(EventRecords)
  BY DEF EventTypes, ClusterTypeOK, EventRecords
<1>3. e \in EventRecords /\ held[w] \in Articles
  BY <1>1, HeldAnswer DEF EventRecords
<1>4. Len(clusters') = Len(clusters) + 1
  <2> HIDE DEF e
  <2> QED BY <1>1, <1>2, <1>3, AppendProperties
<1>5. held[w] \in ToFile
  BY <1>1, <1>3 DEF ToFile
<1>6. \A v \in Workers : v # w /\ pc[v] \in {"mark", "cluster"} => held[v] # held[w]
  BY <1>1 DEF OwnershipInv, SoleOwner, Owning
<1>7. ToFile' \subseteq ToFile \ {held[w]}
  BY <1>1, <1>6 DEF ToFile, EventTypes, ClusterTypeOK
<1>8. Cardinality(ToFile \ {held[w]}) = Cardinality(ToFile) - 1
  BY <1>5, FiniteCounts, FS_RemoveElement
<1>9. Cardinality(ToFile') <= Cardinality(ToFile) - 1 /\ Cardinality(ToFile') \in Nat
  <2>1. IsFiniteSet(ToFile \ {held[w]})
    BY FiniteCounts, FS_RemoveElement
  <2>2. IsFiniteSet(ToFile') /\ Cardinality(ToFile') <= Cardinality(ToFile \ {held[w]})
    BY <1>7, <2>1, FS_Subset
  <2> QED BY <1>8, <2>2, FS_CardinalityType
<1> QED BY <1>1, <1>4, <1>9, FiniteCounts DEF NoSurplus

LEMMA SurplusStep ==
  ASSUME OwnershipInv, EventTypes, OwnershipInv', EventTypes', IsFiniteSet(Articles), NoSurplus,
         [ClusterNext]_clusterVars
  PROVE  NoSurplus'
<1>0. /\ step \in [Workers -> {"find", "create", "attach", "update", "refresh"}]
      /\ \A w \in Workers : step[w] # "find" => pc[w] = "cluster"
      /\ pc \in [Workers -> PCs]
  BY DEF EventTypes, ClusterTypeOK, Aimed, OwnershipInv, TypeOK
<1>1. ASSUME NEW w \in Workers, CreateCluster(w) PROVE NoSurplus'
  BY <1>1, CreatedUsesRoom
<1>2. ASSUME NEW w \in Workers, FindCandidateClusters(w) PROVE NoSurplus'
  <2>1. /\ UNCHANGED <<clusters, held, pc, analysed>> /\ step[w] = "find" /\ pc[w] = "cluster"
        /\ \E to \in {"create", "attach"} : step' = [step EXCEPT ![w] = to]
    BY <1>2 DEF FindCandidateClusters, In, At, ToStep, vars, table
  <2>2. ToFile' \subseteq ToFile
    BY <1>0, <2>1 DEF ToFile
  <2> QED BY <2>1, <2>2, SurplusKept
<1>3. ASSUME NEW w \in Workers, AttachArticleToCluster(w) \/ InsertEventUpdate(w)
      PROVE  NoSurplus'
  <2>1. /\ UNCHANGED <<clusters, held, pc, analysed>>
        /\ \E to \in {"update", "refresh"} : step' = [step EXCEPT ![w] = to]
    BY <1>3 DEF AttachArticleToCluster, InsertEventUpdate, ToStep, vars, table
  <2>2. ToFile' \subseteq ToFile
    BY <1>0, <2>1 DEF ToFile
  <2> QED BY <2>1, <2>2, SurplusKept
<1>4. ASSUME NEW w \in Workers, RefreshClusterAggregates(w) \/ ClusterError(w)
      PROVE  NoSurplus'
  <2>1. /\ UNCHANGED <<clusters, held, analysed>>
        /\ \/ pc' = [pc EXCEPT ![w] = "complete"] /\ step' = [step EXCEPT ![w] = "find"]
           \/ UNCHANGED pc /\ step' = [step EXCEPT ![w] = "refresh"]
    BY <1>4 DEF RefreshClusterAggregates, ClusterError, Leave, Cluster, Goto, ToStep, vars, table
  <2>2. ToFile' \subseteq ToFile
    BY <1>0, <2>1 DEF ToFile
  <2> QED BY <2>1, <2>2, SurplusKept
<1>5. ASSUME NEW c \in ClusterIds, Age(c) PROVE NoSurplus'
  <2>1. UNCHANGED <<step, held, pc, analysed>> /\ Len(clusters') = Len(clusters)
    BY <1>5 DEF Age, vars, table
  <2>2. ToFile' = ToFile
    BY <2>1 DEF ToFile
  <2> QED BY <2>1, <2>2, SurplusKept
<1>6. ASSUME NEW p \in Procs, StopClustering(p) PROVE NoSurplus'
  <2>1. /\ UNCHANGED <<clusters, analysed>>
        /\ pc' = [w \in Workers |-> IF w[1] = p THEN "idle" ELSE pc[w]]
        /\ held' = [w \in Workers |-> IF w[1] = p THEN None ELSE held[w]]
        /\ step' = [w \in Workers |-> IF w[1] = p THEN "find" ELSE step[w]]
    BY <1>6 DEF StopClustering, Stop, table
  <2>2. ToFile' \subseteq ToFile
    BY <2>1 DEF ToFile
  <2> QED BY <2>1, <2>2, SurplusKept
<1>7. CASE QueueStep /\ UNCHANGED events
  <2>1. UNCHANGED <<clusters, step>>
    BY <1>7 DEF events
  <2>2. CASE \E w \in Workers : SaveAnalysis(w)
    BY <1>7, <2>2, SavedMakesRoom
  <2>3. CASE ~\E w \in Workers : SaveAnalysis(w)
    <3>1. ToFile' \subseteq ToFile
      BY <1>7, <2>1, <2>3, OneWayToClustering DEF ToFile
    <3>2. analysed \subseteq analysed'
      <4>1. CASE Workers = {}
        BY <1>7, <4>1 DEF QueueStep, InsertArticle, EnqueueLLMJob, Start, table
      <4>2. CASE Workers # {}
        BY <1>7, <4>2, QueueMotion
      <4> QED BY <4>1, <4>2
    <3> QED BY <2>1, <3>1, <3>2, SurplusKept
  <2> QED BY <2>2, <2>3
<1>8. CASE UNCHANGED clusterVars
  <2>1. ToFile' = ToFile /\ UNCHANGED <<clusters, analysed>>
    BY <1>8 DEF clusterVars, events, vars, table, ToFile
  <2> QED BY <2>1, SurplusKept
<1> QED BY <1>1, <1>2, <1>3, <1>4, <1>5, <1>6, <1>7, <1>8 DEF ClusterNext, ClusterArticle

\* An analysed article creates one event at most, so there are never more
\* events than analysed articles: no restart, retry or failed statement leaves
\* a second event of one report behind.
THEOREM EventsAreCovered ==
  ASSUME IsFiniteSet(Articles)
  PROVE  ClusterSpec => [](Len(clusters) <= Cardinality(analysed))
<1>1. ClusterInit => NoSurplus
  <2> SUFFICES ASSUME ClusterInit PROVE NoSurplus
    OBVIOUS
  <2>1. clusters = << >> /\ analysed = {} /\ \A w \in Workers : pc[w] = "idle"
    BY DEF ClusterInit, Init
  <2>2. ToFile = {}
    BY <2>1 DEF ToFile
  <2>3. Len(clusters) = 0
    BY <2>1
  <2> QED BY <2>1, <2>2, <2>3, FS_EmptySet DEF NoSurplus
<1> DEFINE I == OwnershipInv /\ EventTypes
<1>2. I /\ I' /\ NoSurplus /\ [ClusterNext]_clusterVars => NoSurplus'
  BY SurplusStep
<1>3. I /\ NoSurplus => Len(clusters) <= Cardinality(analysed)
  BY FiniteCounts DEF NoSurplus
<1>4. ClusterSpec => []I
  BY ClusteringInvariant, PTL
<1> HIDE DEF I
<1> QED BY <1>1, <1>2, <1>3, <1>4, PTL DEF ClusterSpec

\* With no more articles than the candidate list has room for, the list holds
\* every match, and the bound on twins needs no further condition.
THEOREM FewArticlesTwinsAreBounded ==
  ASSUME IsFiniteSet(Procs), IsFiniteSet(Articles), Cardinality(Articles) <= CandidateLimit
  PROVE  ClusterSpec => []TwinsBounded
<1>1. OwnershipInv /\ EventTypes /\ Len(clusters) <= Cardinality(analysed) => WithinLimit
  <2> SUFFICES ASSUME OwnershipInv, EventTypes, Len(clusters) <= Cardinality(analysed),
                      NEW a \in Articles
               PROVE  Cardinality(Matching(Answer[a])) <= CandidateLimit
    BY DEF WithinLimit
  <2>1. Matching(Answer[a]) \subseteq 1..Len(clusters)
    BY FiniteCounts DEF Matching
  <2>2. IsFiniteSet(1..Len(clusters)) /\ Cardinality(1..Len(clusters)) = Len(clusters)
    <3>1. Len(clusters) \in Nat
      BY FiniteCounts
    <3>2. Len(clusters) \in Int /\ 1 \in Int
      BY <3>1
    <3>3. /\ IsFiniteSet(1..Len(clusters))
          /\ Cardinality(1..Len(clusters))
               = IF 1 > Len(clusters) THEN 0 ELSE Len(clusters) - 1 + 1
      BY <3>2, FS_Interval, Zenon
    <3> QED BY <3>1, <3>3
  <2>3. /\ Cardinality(Matching(Answer[a])) <= Len(clusters)
        /\ Cardinality(Matching(Answer[a])) \in Nat
    BY <2>1, <2>2, FS_Subset, FS_CardinalityType
  <2> QED BY <2>3, FiniteCounts, ClusteringAssumption
<1>2. ClusterSpec => []WithinLimit
  BY <1>1, ClusteringInvariant, EventsAreCovered, PTL
<1> QED BY <1>2, TwinsAreBounded, PTL

-----------------------------------------------------------------------------
(* The ledger above.                                                       *)

\* Workers that cluster keep every promise of the job ledger.
THEOREM ClusteringImplementsLedger == ClusterSpec => ImplementsLedger
BY ClusteringDrivesQueue, QueueImplementsLedger, PTL DEF DrivesQueue
=============================================================================

----------------------------- MODULE Clustering -----------------------------
(***************************************************************************)
(* What a worker does between the status "llm_done" and CompleteLLMJob:    *)
(* ClusterArticle looks for the event an analysed article belongs to,      *)
(* creates the event or attaches the article to it and keeps the event's   *)
(* timeline. The steps run while the worker's queue counter says           *)
(* "cluster"; the workers share no lock, only the tables event_clusters,   *)
(* event_articles and event_updates.                                       *)
(***************************************************************************)
EXTENDS LLMQueue

CONSTANTS
  Answer,         \* the analysis of each article: [key, type, lead, tickers,
                  \*   sectors, title, importance, novelty, news, fetched]
  CandidateLimit, \* LIMIT of FindCandidateClusters: 50
  MaxFaults,      \* bound: store calls of ClusterArticle that fail
  MaxTroubles     \* bound: these, other store errors and stops together

ASSUME ClusteringAssumption ==
  /\ DOMAIN Answer = Articles
  /\ \A a \in Articles : /\ Answer[a].importance \in Nat /\ Answer[a].novelty \in Nat
                         /\ Answer[a].fetched \in Nat
                         /\ Answer[a].news \in BOOLEAN
  /\ CandidateLimit \in Nat \ {0}
  /\ MaxFaults \in Nat /\ MaxTroubles \in Nat

VARIABLES
  clusters, \* event_clusters in the order of creation; an id is an index
  members,  \* event_articles: [cluster, article, relation]
  timeline, \* event_updates: [cluster, article]
  step,     \* next statement of each worker inside ClusterArticle
  best,     \* the cluster the worker goes for, 0 for none
  relation, \* the relation it will write
  faults

events == <<clusters, members, timeline, step, best, relation, faults>>
clusterVars == <<vars, events>>

Relations == {"original", "duplicate", "related", "update"}
ClusterIds == DOMAIN clusters

ClusterTypeOK ==
  /\ clusters \in Seq([answer : {Answer[a] : a \in Articles}, live : BOOLEAN,
                       importance : Nat, size : Nat])
  /\ members \in SUBSET [cluster : ClusterIds, article : Articles, relation : Relations]
  /\ timeline \in SUBSET [cluster : ClusterIds, article : Articles]
  /\ step \in [Workers -> {"find", "create", "attach", "update", "refresh"}]
  /\ best \in [Workers -> ClusterIds \cup {0}]
  /\ relation \in [Workers -> Relations]
  /\ faults \in 0..MaxFaults

ClusterInit ==
  /\ Init
  /\ clusters = << >> /\ members = {} /\ timeline = {}
  /\ step = [w \in Workers |-> "find"]
  /\ best = [w \in Workers |-> 0]
  /\ relation = [w \in Workers |-> "original"]
  /\ faults = 0

-----------------------------------------------------------------------------
(* Choosing the event.                                                     *)

Points(p, condition) == IF condition THEN p ELSE 0

\* score: titles are alike when they are of one class.
Score(event, ana) ==
  Points(40, event.key = ana.key) + Points(20, event.type = ana.type)
  + Points(20, event.tickers \cap ana.tickers # {})
  + Points(10, event.sectors \cap ana.sectors # {})
  + Points(20, event.title = ana.title)

\* Mutant of Matching: the comparison with the window is the wrong way round.
MatchingStale(ana) == {c \in ClusterIds : ~clusters[c].live /\ clusters[c].answer.key = ana.key}

\* The WHERE of FindCandidateClusters; without a lead ticker the pattern '%%'
\* matches every row.
Matching(ana) ==
  {c \in ClusterIds :
     LET event == clusters[c].answer IN
     /\ clusters[c].live
     /\ event.key = ana.key \/ event.type = ana.type \/ event.title = ana.title
        \/ ana.lead = None \/ ana.lead \in event.tickers}

\* ORDER BY last_updated_at, which is the fetch time of the first article.
Updated(c) == clusters[c].answer.fetched

\* Its LIMIT: none left out was updated later than one returned.
IsCandidateList(S, ana) ==
  /\ S \subseteq Matching(ana)
  /\ Cardinality(S) <= CandidateLimit
  /\ Cardinality(S) < CandidateLimit => S = Matching(ana)
  /\ \A c \in S, d \in Matching(ana) \ S : Updated(c) >= Updated(d)

\* The first of those with the highest score.
IsBest(c, S, ana) ==
  /\ c \in S
  /\ \A d \in S :
       LET sc == Score(clusters[c].answer, ana)
           sd == Score(clusters[d].answer, ana)
       IN  sc > sd \/ (sc = sd /\ Updated(c) >= Updated(d))

\* ClassifyUpdate, then the stricter rule for repeated facts.
RelationTo(event, ana) ==
  IF Score(event, ana) >= 70 /\ ana.novelty < 20 /\ ~ana.news THEN "duplicate"
  ELSE IF ana.novelty >= 35 /\ ana.news THEN "update" ELSE "related"

-----------------------------------------------------------------------------
(* ClusterArticle.                                                         *)

In(w, here) == At(w, "cluster") /\ step[w] = here
ToStep(w, to) == step' = [step EXCEPT ![w] = to]

\* Mutant of Leave: the job fails with the clustering.
LeaveFailing(w) ==
  /\ At(w, "cluster") /\ Goto(w, "fail")
  /\ UNCHANGED table /\ Steady
  /\ step' = [step EXCEPT ![w] = "find"]
  /\ best' = [best EXCEPT ![w] = 0]
  /\ relation' = [relation EXCEPT ![w] = "original"]

\* ClusterArticle returns and the worker goes on to CompleteLLMJob.
Leave(w) ==
  /\ Cluster(w)
  /\ step' = [step EXCEPT ![w] = "find"]
  /\ best' = [best EXCEPT ![w] = 0]
  /\ relation' = [relation EXCEPT ![w] = "original"]

FindCandidateClusters(w) ==
  LET ana == Answer[held[w]] IN
  /\ In(w, "find")
  /\ \E S \in SUBSET Matching(ana) :
       /\ IsCandidateList(S, ana)
       /\ \/ \E c \in S :
               /\ IsBest(c, S, ana)
               /\ Score(clusters[c].answer, ana) >= 50
               /\ best' = [best EXCEPT ![w] = c]
               /\ relation' = [relation EXCEPT ![w] = RelationTo(clusters[c].answer, ana)]
               /\ ToStep(w, "attach")
          \/ /\ \A c \in S : Score(clusters[c].answer, ana) < 50
             /\ ToStep(w, "create")
             /\ UNCHANGED <<best, relation>>
  /\ UNCHANGED <<clusters, members, timeline, faults, vars>>

\* Mutant of CreateCluster: the id of the new row is lost.
CreateClusterUnnamed(w) ==
  LET ana == Answer[held[w]] IN
  /\ In(w, "create")
  /\ clusters' = Append(clusters, [answer |-> ana, live |-> TRUE,
                                   importance |-> ana.importance, size |-> 1])
  /\ ToStep(w, "attach")
  /\ UNCHANGED <<best, members, timeline, relation, faults, vars>>

CreateCluster(w) ==
  LET ana == Answer[held[w]] IN
  /\ In(w, "create")
  /\ clusters' = Append(clusters, [answer |-> ana, live |-> TRUE,
                                   importance |-> ana.importance, size |-> 1])
  /\ best' = [best EXCEPT ![w] = Len(clusters) + 1]
  /\ ToStep(w, "attach")
  /\ UNCHANGED <<members, timeline, relation, faults, vars>>

\* The upsert of AttachArticleToCluster.
Attached(w) ==
  {m \in members : ~(m.cluster = best[w] /\ m.article = held[w])}
    \cup {[cluster |-> best[w], article |-> held[w], relation |-> relation[w]]}

\* Mutant of AttachArticleToCluster: an update gets no place on the timeline.
AttachOnly(w) ==
  /\ In(w, "attach")
  /\ members' = Attached(w)
  /\ ToStep(w, "refresh")
  /\ UNCHANGED <<clusters, timeline, best, relation, faults, vars>>

AttachArticleToCluster(w) ==
  /\ In(w, "attach")
  /\ members' = Attached(w)
  /\ ToStep(w, IF relation[w] = "update" THEN "update" ELSE "refresh")
  /\ UNCHANGED <<clusters, timeline, best, relation, faults, vars>>

InsertEventUpdate(w) ==
  /\ In(w, "update")
  /\ timeline' = timeline \cup {[cluster |-> best[w], article |-> held[w]]}
  /\ ToStep(w, "refresh")
  /\ UNCHANGED <<clusters, members, best, relation, faults, vars>>

\* RefreshClusterAggregates: novelty_score is a column of both event_articles
\* and article_llm_analysis, so SQLite refuses the statement as ambiguous. No
\* aggregate changes and the caller ignores the error.
RefreshClusterAggregates(w) ==
  /\ In(w, "refresh")
  /\ Leave(w)
  /\ UNCHANGED <<clusters, members, timeline, faults>>

-----------------------------------------------------------------------------
(* What else happens.                                                      *)

\* Mutant of ClusterError: a failed attachment starts over from the search.
ClusterErrorRetried(w) ==
  /\ In(w, "attach")
  /\ faults < MaxFaults /\ faults' = faults + 1
  /\ members' = Attached(w)
  /\ ToStep(w, "find")
  /\ UNCHANGED <<clusters, timeline, best, relation, vars>>

\* Any statement may fail. ClusterArticle returns, except after
\* InsertEventUpdate, whose error it ignores; AttachArticleToCluster may have
\* added its row before the status update that failed.
ClusterError(w) ==
  /\ At(w, "cluster")
  /\ faults < MaxFaults /\ faults' = faults + 1
  /\ \/ /\ step[w] \in {"find", "create", "attach"}
        /\ Leave(w) /\ UNCHANGED members
     \/ step[w] = "attach" /\ Leave(w) /\ members' = Attached(w)
     \/ step[w] = "update" /\ ToStep(w, "refresh") /\ UNCHANGED <<best, relation, members, vars>>
  /\ UNCHANGED <<clusters, timeline>>

\* The freshness window leaves a cluster behind: last_seen_at is the fetch time
\* of its first article, since no refresh ever moves it.
Age(c) ==
  /\ clusters[c].live
  /\ clusters' = [clusters EXCEPT ![c].live = FALSE]
  /\ UNCHANGED <<members, timeline, step, best, relation, faults, vars>>

StopClustering(p) ==
  /\ Stop(p)
  /\ step' = [w \in Workers |-> IF w[1] = p THEN "find" ELSE step[w]]
  /\ best' = [w \in Workers |-> IF w[1] = p THEN 0 ELSE best[w]]
  /\ relation' = [w \in Workers |-> IF w[1] = p THEN "original" ELSE relation[w]]
  /\ UNCHANGED <<clusters, members, timeline, faults>>

ClusterArticle(w) ==
  \/ FindCandidateClusters(w) \/ CreateCluster(w) \/ AttachArticleToCluster(w)
  \/ InsertEventUpdate(w) \/ RefreshClusterAggregates(w) \/ ClusterError(w)

\* Outdated articles, backoffs and administrators' retries are left to the
\* queue's own runs.
QueueStep ==
  \/ \E a \in Articles : InsertArticle(a, "fresh") \/ EnqueueLLMJob(a)
  \/ \E w \in Workers :
       \/ Pick(w) \/ CheckAnalysis(w) \/ LoadArticle(w) \/ CallAnswers(w) \/ CallFails(w)
       \/ SaveAnalysis(w) \/ MarkDone(w) \/ CompleteLLMJob(w) \/ FailLLMJob(w)
       \/ StoreError(w) \/ GiveBackError(w)
  \/ \E p \in Procs : Start(p)

ClusterNext ==
  /\ \/ \E w \in Workers : ClusterArticle(w)
     \/ \E c \in ClusterIds : Age(c)
     \/ \E p \in Procs : StopClustering(p)
     \/ QueueStep /\ UNCHANGED events
  /\ dbErrors' + stops' + faults' <= MaxTroubles

ClusterSpec == ClusterInit /\ [][ClusterNext]_clusterVars

-----------------------------------------------------------------------------
(* What clustering promises.                                               *)

\* Clustering happens inside the queue's step Cluster and touches nothing of
\* the queue, so what is proved of LLMQueue holds here.
DrivesQueue == Spec

ClustersOf(a) == {m.cluster : m \in {n \in members : n.article = a}}

\* An article belongs to one event at most, and its place on the timeline is in
\* that event: no retry, restart or second worker clusters it again.
OneEventPerArticle ==
  \A a \in Articles :
    /\ Cardinality(ClustersOf(a)) <= 1
    /\ \A t \in timeline : t.article = a => t.cluster \in ClustersOf(a)

InProgress(a) == \E w \in Workers : At(w, "cluster") /\ held[w] = a

\* A done article is in an event, an update is on its event's timeline, and an
\* event has an article: each exception has a failed store call or a stopped
\* process behind it.
ClusteringAccounted ==
  /\ Cardinality({a \in Articles : job[a] = "done" /\ ClustersOf(a) = {}}) <= faults
  /\ Cardinality({m \in members : /\ m.relation = "update" /\ ~InProgress(m.article)
                                  /\ \A t \in timeline : t.article # m.article})
       <= faults + stops * Cardinality(Slots)
  /\ Cardinality({c \in ClusterIds : /\ \A m \in members : m.cluster # c
                                     /\ \A w \in Workers : best[w] # c})
       <= faults + stops * Cardinality(Slots)

SameEvent(c, d) ==
  /\ clusters[c].answer.key = clusters[d].answer.key
  /\ clusters[c].answer.type = clusters[d].answer.type

\* One event has at most one live cluster for each worker, however many
\* articles report it: workers that looked before the first cluster was created
\* can each create one, nobody who looks later can.
TwinsBounded ==
  \A c \in ClusterIds :
    Cardinality({d \in ClusterIds : clusters[d].live /\ SameEvent(c, d)})
      <= Cardinality(Workers)
=============================================================================

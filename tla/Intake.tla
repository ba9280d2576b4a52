------------------------------- MODULE Intake -------------------------------
(***************************************************************************)
(* From a fetched item to a queued article: processItem, run by the crawl  *)
(* goroutines of every process, beside the LLM queue and its workers. The  *)
(* tables raw_items, articles and article_duplicates join those of         *)
(* LLMQueue; articles.status is written by crawlers and workers alike.     *)
(*                                                                         *)
(* An article is its canonical URL: articles.canonical_url is UNIQUE.      *)
(***************************************************************************)
EXTENDS LLMQueue

CONSTANTS
  Items,      \* what adapters can return: [url, source, title, body,
              \*   words, published], None where the code has nil or an empty
              \*   text; words counts the body, or the title without one
  Navigation, \* titles that looksLikeNavigationTitle recognises
  FullText,   \* sources with full_content_allowed and no override of it
  MinWords,   \* min_word_count of those sources
  Horizon,    \* the start of the freshness window
  Crawlers,   \* the crawl goroutines of one process
  MaxFetches, \* bound: items fetched
  MaxFaults,  \* bound: store calls of crawlers, and status updates, that fail
  MaxTroubles \* bound: these and stops together

ASSUME IntakeAssumption ==
  /\ \A i \in Items : /\ i.url \in Articles
                      /\ i.words \in Nat
                      /\ i.published \in Nat \cup {None}
  /\ None \notin Items \cup Nat
  /\ MinWords \in Nat /\ Horizon \in Nat
  /\ IsFiniteSet(Crawlers)
  /\ MaxFetches \in Nat /\ MaxFaults \in Nat /\ MaxTroubles \in Nat

VARIABLES
  raw,      \* raw_items: the items kept
  stored,   \* articles: the item a row was made of
  rank,     \* articles.created_at as the order of insertion, 0 without a row
  status,   \* articles.status
  links,    \* article_duplicates: <<article_id, duplicate_of_article_id>>
  at,       \* next statement of each crawl goroutine
  item,     \* the item it processes
  origin,   \* the article Decide found the item to be a duplicate of
  fetches, faults

intake     == <<raw, stored, rank, status, links, at, item, origin, fetches, faults>>
intakeVars == <<vars, intake>>

Handlers == Procs \X Crawlers
Steps    == {"idle", "raw", "url", "content", "title", "insert", "link", "mark",
             "enqueue", "pend"}
Statuses == {"none", "normalized", "outdated", "duplicate", "llm_pending",
             "llm_done", "clustered"}

IntakeTypeOK ==
  /\ raw \in SUBSET Items
  /\ stored \in [Articles -> Items \cup {None}]
  /\ rank \in [Articles -> Nat]
  /\ status \in [Articles -> Statuses]
  /\ links \in SUBSET (Articles \X Articles)
  /\ at \in [Handlers -> Steps]
  /\ item \in [Handlers -> Items \cup {None}]
  /\ origin \in [Handlers -> Articles \cup {None}]
  /\ fetches \in 0..MaxFetches /\ faults \in 0..MaxFaults

IntakeInit ==
  /\ Init
  /\ raw = {} /\ links = {}
  /\ stored = [a \in Articles |-> None]
  /\ rank = [a \in Articles |-> 0]
  /\ status = [a \in Articles |-> "none"]
  /\ at = [h \in Handlers |-> "idle"]
  /\ item = [h \in Handlers |-> None]
  /\ origin = [h \in Handlers |-> None]
  /\ fetches = 0 /\ faults = 0

-----------------------------------------------------------------------------
(* What the crawler makes of an item.                                      *)

\* assessItemQuality; a missing URL is left out, None is no URL of an item.
Acceptable(i) ==
  /\ i.title # None /\ i.title \notin Navigation
  /\ i.source \in FullText => i.body # None /\ i.words >= MinWords

\* normalizeItem: without a body the title is the text, a text of less than 20
\* words has no content hash, and an item without a date is as old as its
\* fetch, which is fresh.
Text(i)    == IF i.body = None THEN i.title ELSE i.body
Content(i) == IF i.words < 20 THEN None ELSE Text(i)
Kind(i)    == IF i.published # None /\ i.published < Horizon THEN "outdated" ELSE "fresh"

-----------------------------------------------------------------------------
(* processItem, one statement at a time.                                   *)

Now(h, here)  == h[1] \in up /\ at[h] = here
Turn(h, to)   == at' = [at EXCEPT ![h] = to] /\ UNCHANGED <<item, origin, fetches>>
Finish(h)     == /\ at' = [at EXCEPT ![h] = "idle"]
                 /\ item' = [item EXCEPT ![h] = None]
                 /\ origin' = [origin EXCEPT ![h] = None]
                 /\ UNCHANGED fetches
Decided(h, a) == /\ at' = [at EXCEPT ![h] = "insert"]
                 /\ origin' = [origin EXCEPT ![h] = a]
                 /\ UNCHANGED <<item, fetches>>
Tables        == <<raw, stored, rank, status, links>>

SpendFault == faults < MaxFaults /\ faults' = faults + 1

\* UpdateArticleStatus: every caller ignores its error.
UpdateArticleStatus(a, to) ==
  \/ status' = [status EXCEPT ![a] = to] /\ UNCHANGED faults
  \/ SpendFault /\ UNCHANGED status

Fetch(h, i) ==
  /\ Now(h, "idle")
  /\ fetches < MaxFetches
  /\ fetches' = fetches + 1
  /\ at' = [at EXCEPT ![h] = "raw"]
  /\ item' = [item EXCEPT ![h] = i]
  /\ UNCHANGED <<Tables, origin, faults, vars>>

\* InsertRawItem is INSERT OR IGNORE on (source_id, raw_hash); an item of low
\* quality goes no further.
InsertRawItem(h) ==
  /\ Now(h, "raw")
  /\ raw' = raw \cup {item[h]}
  /\ IF Acceptable(item[h]) THEN Turn(h, "url") ELSE Finish(h)
  /\ UNCHANGED <<stored, rank, status, links, faults, vars>>

\* findOneArticle: the earliest row of those that match.
Earliest(matches, a) == a \in matches /\ \A b \in matches : rank[a] <= rank[b]

FindByUrl(h) ==
  LET a == item[h].url IN
  /\ Now(h, "url")
  /\ IF stored[a] # None THEN Decided(h, a) ELSE Turn(h, "content")
  /\ UNCHANGED <<Tables, faults, vars>>

SameContent(i) ==
  {a \in Articles : /\ stored[a] # None /\ Content(i) # None
                    /\ Content(stored[a]) = Content(i)}

FindByContent(h) ==
  /\ Now(h, "content")
  /\ \/ \E a \in SameContent(item[h]) : Earliest(SameContent(item[h]), a) /\ Decided(h, a)
     \/ SameContent(item[h]) = {} /\ Turn(h, "title")
  /\ UNCHANGED <<Tables, faults, vars>>

\* Rows published before the freshness window are outside the title search.
SameTitle(i) ==
  {a \in Articles : /\ stored[a] # None /\ row[a] = "fresh"
                    /\ stored[a].source = i.source /\ stored[a].title = i.title}

\* Decide: a later, no shorter text under the title of an earlier one is a
\* candidate update, which is queued like a new article.
CandidateUpdate(i, old) ==
  /\ Content(i) # None /\ Content(old) # None /\ Content(i) # Content(old)
  /\ i.published # None
  /\ old.published = None \/ i.published > old.published
  /\ i.words >= old.words

FindByTitle(h) ==
  LET i == item[h] IN
  /\ Now(h, "title")
  /\ \/ \E a \in SameTitle(i) :
          /\ Earliest(SameTitle(i), a)
          /\ Decided(h, IF CandidateUpdate(i, stored[a]) THEN None ELSE a)
     \/ SameTitle(i) = {} /\ Decided(h, None)
  /\ UNCHANGED <<Tables, faults, vars>>

\* Mutant of AfterInsert: a duplicate is marked but not linked.
AfterInsertUnlinked(h) ==
  IF origin[h] # None THEN Turn(h, "mark")
  ELSE IF Kind(item[h]) = "fresh" THEN Turn(h, "enqueue") ELSE Finish(h)

\* Mutant of AfterInsert: a duplicate is queued like any fresh article.
AfterInsertAlways(h) ==
  IF Kind(item[h]) = "fresh" THEN Turn(h, "enqueue") ELSE Finish(h)

\* What follows InsertArticle, whether or not it added a row.
AfterInsert(h) ==
  IF origin[h] # None THEN Turn(h, "link")
  ELSE IF Kind(item[h]) = "fresh" THEN Turn(h, "enqueue") ELSE Finish(h)

\* Mutant of NewRow: the column's default status instead of the item's.
NewRowDefault(i) ==
  /\ InsertArticle(i.url, Kind(i))
  /\ stored' = [stored EXCEPT ![i.url] = i]
  /\ rank' = [rank EXCEPT ![i.url] = 1 + Cardinality({b \in Articles : stored[b] # None})]
  /\ status' = [status EXCEPT ![i.url] = "new"]

NewRow(i) ==
  /\ InsertArticle(i.url, Kind(i))
  /\ stored' = [stored EXCEPT ![i.url] = i]
  /\ rank' = [rank EXCEPT ![i.url] = 1 + Cardinality({b \in Articles : stored[b] # None})]
  /\ status' = [status EXCEPT ![i.url] = IF Kind(i) = "fresh" THEN "normalized" ELSE "outdated"]

\* InsertArticle: INSERT OR IGNORE; a taken URL yields the row that has it.
StoreArticle(h) ==
  /\ Now(h, "insert")
  /\ \/ stored[item[h].url] = None /\ NewRow(item[h])
     \/ stored[item[h].url] # None /\ UNCHANGED <<stored, rank, status, vars>>
  /\ AfterInsert(h)
  /\ UNCHANGED <<raw, links, faults>>

InsertDuplicate(h) ==
  /\ Now(h, "link")
  /\ links' = links \cup {<<item[h].url, origin[h]>>}
  /\ Turn(h, "mark")
  /\ UNCHANGED <<raw, stored, rank, status, faults, vars>>

MarkDuplicate(h) ==
  /\ Now(h, "mark")
  /\ UpdateArticleStatus(item[h].url, "duplicate")
  /\ Finish(h)
  /\ UNCHANGED <<raw, stored, rank, links, vars>>

\* Mutant of Enqueue: INSERT OR REPLACE, a job there is starts again.
EnqueueReplaces(h) ==
  /\ Now(h, "enqueue")
  /\ job' = [job EXCEPT ![item[h].url] = "pending"]
  /\ UNCHANGED <<row, attempts, born, wait, analysed, pc, held, up, budgets, answers, rested>>
  /\ Turn(h, "pend")
  /\ UNCHANGED <<Tables, faults>>

\* EnqueueLLMJob adds nothing when a job or an analysis is there.
Enqueue(h) ==
  LET a == item[h].url IN
  /\ Now(h, "enqueue")
  /\ \/ EnqueueLLMJob(a)
     \/ (job[a] # "none" \/ a \in analysed) /\ UNCHANGED vars
  /\ Turn(h, "pend")
  /\ UNCHANGED <<Tables, faults>>

MarkPending(h) ==
  /\ Now(h, "pend")
  /\ UpdateArticleStatus(item[h].url, "llm_pending")
  /\ Finish(h)
  /\ UNCHANGED <<raw, stored, rank, links, vars>>

\* InsertRawItem and InsertArticle give the item up on an error; a search that
\* fails leaves the empty decision, and the errors of InsertDuplicate and
\* EnqueueLLMJob are ignored.
IntakeError(h) ==
  /\ h[1] \in up
  /\ SpendFault
  /\ \/ at[h] \in {"raw", "insert"} /\ Finish(h)
     \/ at[h] \in {"url", "content", "title"} /\ Decided(h, None)
     \/ at[h] = "link" /\ Turn(h, "mark")
     \/ at[h] = "enqueue" /\ Turn(h, "pend")
  /\ UNCHANGED <<Tables, vars>>

Process(h) ==
  \/ InsertRawItem(h) \/ FindByUrl(h) \/ FindByContent(h) \/ FindByTitle(h)
  \/ StoreArticle(h) \/ InsertDuplicate(h) \/ MarkDuplicate(h)
  \/ Enqueue(h) \/ MarkPending(h) \/ IntakeError(h)

-----------------------------------------------------------------------------
(* The workers, with the status each of them writes.                       *)

\* Mutant of Writes: "llm_done" is written before the analysis is stored.
WritesEarly(w) ==
  \/ CallAnswers(w)  /\ UpdateArticleStatus(held[w], "llm_done")
  \/ MarkDone(w)     /\ UNCHANGED <<status, faults>>
  \/ Cluster(w)      /\ UpdateArticleStatus(held[w], "clustered")
  \/ MarkOutdated(w) /\ UpdateArticleStatus(held[w], "outdated")

Writes(w) ==
  \/ MarkDone(w)     /\ UpdateArticleStatus(held[w], "llm_done")
  \/ Cluster(w)      /\ UpdateArticleStatus(held[w], "clustered")
  \/ MarkOutdated(w) /\ UpdateArticleStatus(held[w], "outdated")

Silent(w) ==
  \/ Pick(w) \/ CheckAnalysis(w) \/ LoadArticle(w) \/ CallAnswers(w) \/ CallFails(w)
  \/ SaveAnalysis(w) \/ CompleteLLMJob(w) \/ FailLLMJob(w) \/ ExpireLLMJob(w)

WorkerStep(w) ==
  \/ Writes(w) /\ UNCHANGED <<raw, stored, rank, links, at, item, origin, fetches>>
  \/ Silent(w) /\ UNCHANGED intake

\* A process stops with its crawl goroutines wherever they are.
StopProcess(p) ==
  /\ Stop(p)
  /\ at' = [h \in Handlers |-> IF h[1] = p THEN "idle" ELSE at[h]]
  /\ item' = [h \in Handlers |-> IF h[1] = p THEN None ELSE item[h]]
  /\ origin' = [h \in Handlers |-> IF h[1] = p THEN None ELSE origin[h]]
  /\ UNCHANGED <<Tables, fetches, faults>>

IntakeNext ==
  /\ \/ \E h \in Handlers : Process(h) \/ \E i \in Items : Fetch(h, i)
     \/ \E w \in Workers : WorkerStep(w)
     \/ \E p \in Procs : StopProcess(p) \/ (Start(p) /\ UNCHANGED intake)
     \/ Tick /\ UNCHANGED intake
  /\ stops' + faults' <= MaxTroubles

\* Administrators' retries and failed statements of the workers are left to the
\* queue's own runs.
IntakeSpec == IntakeInit /\ [][IntakeNext]_intakeVars

-----------------------------------------------------------------------------
(* What the intake promises.                                               *)

\* The crawlers use the queue through its operations only: seen through the
\* queue's variables, every behaviour is one of LLMQueue, and what is proved of
\* LLMQueue holds here.
DrivesQueue == Spec

Busy(a) == \E h \in Handlers : at[h] \in {"link", "enqueue"} /\ item[h].url = a

Settled == {a \in Articles : job[a] # "none" \/ a \in analysed}

\* Links to a row stored before, and the articles one leads to over them: the
\* members of every set that holds it and is closed under these links.
Earlier    == {l \in links : rank[l[2]] < rank[l[1]]}
LeadsTo(a) ==
  {b \in Articles : \A S \in SUBSET Articles :
     a \in S /\ (\A l \in Earlier : l[1] \in S => l[2] \in S) => b \in S}

\* Fresh articles that have nothing: no job, no analysis, no link to an earlier
\* row, and no goroutine that is about to give them one.
Stranded ==
  {a \in Articles : /\ row[a] = "fresh" /\ a \notin Settled /\ ~Busy(a)
                    /\ \A l \in Earlier : l[1] # a}

\* Every fresh article leads to one with a job or an analysis, except for those
\* that lead to an outdated row, since the search by content has no window, to
\* an article a goroutine is about to settle, or to a stranded one. Later copies
\* are lost with the stranded article they lead to, however many they are; but
\* of stranded ones there is one at most for each failed store call and for each
\* goroutine that died. Concurrent crawlers of one URL cannot each leave it to
\* the other, nor copies to each other in a circle.
FreshAccounted ==
  /\ \A a \in Articles : row[a] = "fresh" =>
       \E b \in LeadsTo(a) :
         b \in Settled \/ Busy(b) \/ row[b] = "outdated" \/ b \in Stranded
  /\ Cardinality(Stranded) <= faults + stops * Cardinality(Crawlers)

\* The feeds have shown one text only under this URL.
Stable(a) ==
  \A i \in Items : i.url = a /\ stored[a] # None => Content(i) = Content(stored[a])

\* One text is queued once for each crawl goroutine at most, under however many
\* URLs and however often it is fetched: Decide and InsertArticle are separate
\* statements, so goroutines can miss each other, but each only once.
DuplicateJobsBounded ==
  \A c \in {Content(i) : i \in Items} \ {None} :
    Cardinality({a \in Articles : /\ job[a] # "none" /\ stored[a] # None
                                  /\ Content(stored[a]) = c /\ Stable(a)})
      <= Cardinality(Handlers) + faults

Linked(a) == \E b \in Articles : <<a, b>> \in links

\* What a status speaks of and is not there.
Unbacked ==
  {a \in Articles : \/ status[a] = "llm_pending" /\ job[a] = "none"
                    \/ status[a] = "duplicate" /\ ~Linked(a)}

\* Every row of articles stands on others. Its raw item was kept first, and
\* whoever wrote its status last, crawler or worker, the status is backed by an
\* analysis, a job, a link or the outdated flag, except for one article for each
\* failed store call.
RowsBacked ==
  /\ \A a \in Articles :
       /\ status[a] \in {"llm_done", "clustered"} => a \in analysed
       /\ status[a] = "outdated" => row[a] = "outdated"
       /\ stored[a] # None => stored[a] \in raw
  /\ Cardinality(Unbacked) <= faults

\* docs/ACCEPTANCE_CRITERIA.md: a later, longer version of an article of the
\* same source is not discarded.
UpdatesKept ==
  \A h \in Handlers :
    at[h] = "link" => ~(/\ stored[origin[h]].source = item[h].source
                        /\ CandidateUpdate(item[h], stored[origin[h]]))
=============================================================================

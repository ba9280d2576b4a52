# Verification of financial-tracking-news

TLA+ models of the source adapters, the crawler and its scheduler, the LLM job queue, the event
clustering and the lists of the API of `finnews`, with TLC runs on small instances and TLAPS
proofs for all instances.
`PROJECT.json` lists components, runs, mutants, source lines, findings, hazards
and theorems; this file explains them.

## The system

`finnews` is a Go program around one SQLite file. `finnews server` runs a crawl
scheduler, a pool of LLM workers and an HTTP API in one process;
`finnews worker` and `finnews crawl once` run the same parts in processes of
their own. Everything is shared through the tables; there is no lock but the
database's, and every statement commits by itself, except for PickLLMJob, a
transaction of two. A store call that fails is often ignored (`_ =`).

| Component | State | Operations | Interacts with |
|---|---|---|---|
| Scheduler and processes, `StartScheduler`, `main.run` | ticker channel | a call at startup, one for each tick, the command's single one | crawl pool |
| Crawl pool, `crawler.CrawlOnce`, `crawlSource` | `sem`, `errCh`, `source_runs` | start a goroutine for each source, collect results, wait | adapters, intake |
| Item intake, `processItem` | `raw_items`, `articles`, `article_duplicates` | keep raw, quality gate, normalise, decide, insert, link or enqueue | dedup, queue |
| Deduplication, `dedup.Decide`, `FindExactDuplicate` | none | URL, content hash, then source and title; candidate update | `articles` |
| LLM queue, `db.*LLMJob` | `llm_jobs`, `article_llm_analysis` | enqueue, pick, complete, fail, retry failed | crawler, workers, API |
| Worker pool, `llm.Worker` | goroutine locals | ProcessOne in a loop | queue, LLM client, clustering |
| LLM client, `llm.AnalyzeArticle` | none | one HTTP call, parse the answer | LLM service |
| Event clustering, `cluster.ClusterArticle` | `event_clusters`, `event_articles`, `event_updates` | find candidates, score, create or attach, timeline, refresh | workers |
| API, `api.Server` | none | lists, health, crawl-once, retry-failed-llm | all tables |
| Adapters, `source/*` | counters of one run | fetch a listing or feed, filter, fetch pages, diagnose an empty result | crawl pool, intake |
| Normalisation, `normalize` | none | canonical URL, title, text, hashes, similarity | intake, scoring |
| Configuration, retention, schema, dashboard | | load and validate; delete by age (called by nothing); create tables; display | |

An article goes `raw_items` -> `articles` (`normalized`, or `outdated`) ->
`duplicate`, or a job and `llm_pending` -> an analysis and `llm_done` -> an
event and `clustered`. The steps belong to different goroutines, often of
different processes.

What is hard:

* **Interleaving.** Crawl goroutines and workers of several processes act
  between any two statements of another: decide and insert, analysis check and
  call, candidate search and cluster creation.
* **Stops.** A cancelled context makes every later store call of the process
  fail, and ProcessOne ignores those errors, so a shutdown is as abrupt as a
  crash. What was between two statements stays there.
* **Partial failure.** A store error is logged or ignored and processing goes on.
* **Time.** Backoffs and freshness windows are compared as text in SQLite.
* **Overlap.** The startup call, the ticker's and every POST crawl-once run side by
  side, each with a semaphore of its own, over the same sources.
* **Channel protocol.** One loop, one counting semaphore, one buffered channel.
* **Pages.** A list is read in statements that nothing connects, over a join that
  multiplies rows, while other components write the tables.

What makes each component correct: the queue hands a job to one worker, pays
for one answer, retries in order and gives up in the end; CrawlOnce crawls every
source within its limit and returns; the health of a source shows the result of
its latest run, however calls overlap; a source run counts each candidate once
and reports what is true of the source; the intake queues
each fresh article or the earlier one it is a copy of, and queues a text once; clustering
puts an article into one event, and one event into one cluster; a reader of a list gets
what was in it all the time; no two pages share a canonical URL. `PROJECT.json` lists the
hazards behind these at their lines.

## Modules

| Module | What it is |
|---|---|
| `LLMQueue` | queue tables, workers, processes, clock: one action for each SQL statement |
| `JobLedger` | the abstract promise: submit, claim, record, close, return, abandon, revive |
| `LLMQueueLedger` | the refinement mapping; `ImplementsLedger` |
| `LLMQueueProofs` | theorems on the queue, its refinement and the end of its jobs |
| `CrawlPool`, `CrawlPoolProofs` | CrawlOnce with its goroutines; its theorems |
| `SourceHealth`, `SourceHealthProofs` | overlapping calls of CrawlOnce over `source_runs`, scheduler, processes; its theorems |
| `CrawlPoolHealth` | the refinement mapping of one CrawlOnce to `SourceHealth`; `KeepsHealth` |
| `SourceRun`, `SourceRunProofs` | one source run: adapter, items, counts and reason; its theorems |
| `Intake`, `IntakeProofs` | processItem beside the queue; EXTENDS `LLMQueue` and adds the article tables; its theorems |
| `Clustering`, `ClusteringProofs` | ClusterArticle inside the queue's step `Cluster`; EXTENDS `LLMQueue`; its theorems |
| `Paging`, `PagingProofs` | ListArticles and ListClusters read page by page while the tables change; its theorems |
| `Urls`, `UrlsProofs` | CanonicalURL on the parts and spellings of an address; its theorems |
| `MC*` | constants of the TLC instances |

**LLMQueue.** `pc[w]` is the statement a worker executes next, `held[w]` the
job in its local variable. `Pick` is PickLLMJob's transaction; `CheckAnalysis`,
`LoadArticle`, `CallAnswers`/`CallFails`, `SaveAnalysis`, `MarkDone`, `Cluster`
and `CompleteLLMJob` are the rest of ProcessOne in order; `FailLLMJob` and
`ExpireLLMJob` are its two ways to fail, the second followed by `MarkOutdated`,
when the job is no longer the worker's. `StoreError`, `GiveBackError` and
`ExpireError` are the error paths. `created_at` has a resolution of one second,
so `born` is a rank that two jobs can share. `wait` is what is left until
`next_run_at <= CURRENT_TIMESTAMP`; `NextRun` adds the zone offset that the
comparison of local-time text with UTC text adds. Whether an article is
outdated is fixed when its row is inserted, as in the code. `answers` and
`rested` are history variables; no action reads them.

**Intake.** An item is a record; texts and titles are values, equal when their
normal forms are. An article is its canonical URL, the unique key.
`Acceptable` is the quality gate, `Content` the content hash (none for fewer
than 20 words), `Kind` the freshness decision. The minimum number of characters
goes with the number of words. Rows do not age out of the title search's
window. The workers' steps are those of `LLMQueue`, joined with the status they
write; crawl goroutines are a set `Crawlers` for each process, so they stand
for goroutines of one CrawlOnce as well as of several.

**Clustering.** `step[w]` refines the queue's counter while it is at
`"cluster"`. The analysis of each article is a constant. A title matches when
it is of the same class, for the substring test of the query and for the
similarity test of the score. `last_seen_at` never moves, because the refresh
always fails, so a cluster leaves the freshness window for good (`Age`).

**CrawlPool.** `routine[s]` is the next step of the goroutine of source `s`. A
send needs room in the channel, a token needs room in the semaphore. Store calls
and fetches may fail. What happens inside its steps `Fetch` and `Finish` is in
`SourceRun`, what an item does to the tables in `Intake`.

**SourceHealth.** A call is a process with `"startup"`, `"ticker"`, one of its requests, or
`"command"`. `due[p]` is the tick that waits in the ticker's channel of capacity one;
`TickerCrawl` takes it when the call before is over, as the scheduler's goroutine does.
Of `source_runs` the model keeps what ListSourceHealth can show: `status` and `writer`
of the row started last for each source, and in `open` which rows goroutines are
still to close; rows below the shown one never come back, since rows are not deleted
and `started_at` does not fall. `recent` is the exception the one-second resolution
of `started_at` makes: of two rows of one second either may be shown. `Spawn` with
`CreateSourceRun` is one step, as is `FinishSourceRun` with the release of the token;
`CrawlPool` has them apart and is shown to implement this. `Stop` ends a process
with all its calls. On a signal the context of the scheduler's store calls is
cancelled a little before the process ends and that of the API's is not; what
these still write comes before the stop here.

**CrawlPoolHealth.** The one call of `CrawlPool` is the command's call. A goroutine
counts as open from its CreateSourceRun to its FinishSourceRun, a failed store call
as a fault; semaphore, drain and error channel are hidden.

**Paging.** An article is its rank in the list, `width[a]` the number of rows it takes
in the join with `article_duplicates` (`Joined`). `ListRows` is the statement with LIMIT and
OFFSET, `CountTotal` the count after it, whose error is dropped (`CountError`).
`Size` and `Number` follow what the handler and the list make of the parameters.
`Enter`, `Leave` and `Link` are what crawlers and workers do to the list in
between. Articles of one time, whose order SQLite may change from page to page,
do not occur. With `MaxRows = 1` the list is that of clusters.

**Urls.** A path is a sequence of pieces, each a word with the ways it was percent-encoded
one after the other, so that `%c3`, `%C3` and `%25C3` are texts of one word. `Special` words
hold a character that no path can hold as it is, `Marked` ones a character, like a bracket,
that a path may hold and Go's `escape` encodes all the same; any word can be spelled with
escapes it does not need. `Escape`, `Unescape` and `Valid` are those of net/url, an external
library. `EscapedPath` keeps a valid text as it is spelled; `Written` is what
`u.Path = ...` followed by `u.String()` makes of it: the text itself where `RawPath`, which the
function leaves as Parse set it, still decodes to `Path` (`RawPathFits`), else the text with
its percent signs escaped again. Text that does not parse is returned as it is. A bare
question mark stays (`mark`). Among the parameters dropped are `ref`, which the documents do
not list, and what `Query()` cannot read (`Dropped`, `Listed`).

**SourceRun.** `pos` is the loop's position in `list`, `stats` the adapter's
counters, `items` its result, `results` the flags of each processResult. There is
one action for each way through the HTML loop: `LimitItems`, `Skip` (whose
`Verdict` is the first test the candidate fails), `LimitFetches`, `KeepListed`,
`PageFails`, `PageAnswers`, which takes from the page what `Extracted` finds;
`RssEntry`, `DocumentEntry` and `FilingEntry` are iterations of the three other
adapters. `FilingsAnswer` chooses at once which companies of a watchlist will not
answer, since nothing else depends on when they fail. `fails` says which
tests an entry does not pass; what the tests look at is left out, and so are
texts and `missing_date_count`, which nothing reads. `window` is the start of
the freshness window by processItem's clock and only moves on. `Returns` sums up
what `Intake` models in full.

Definitions whose comment says *Mutant of* are not part of any specification:
each is a variant of the definition after it with a plausible mistake, used to
show that a property can fail.

## Runs

| Run | Instance | Shows |
|---|---|---|
| `queue` | 2 articles, 2 processes of 1 worker, 2 attempts, 1 store error, 1 stop, 1 retry, fairness | ownership, one-call rule, attempts, backoff, orphans, refinement; every waiting job is settled or orphaned |
| `queue_stop` | 1 article, 1 worker, 1 stop | violation: a stop strands a running job for ever |
| `queue_zone` | 1 article, local time 5 ticks behind UTC | violation: no backoff |
| `crawl_pool` | 4 sources, 3 selected, 1 of them without adapter, 2 tokens, fairness; deadlock checked | channel and semaphore protocol, isolation of failures, CrawlOnce returns |
| `health` | a server with a ticker and one request at a time, a command; 2 sources, one crawled at a time; 1 stop or store error; fairness | an overtaken call never brings its older result back; rows left running are bounded and leave the display |
| `intake` | 1 process of 2 crawl goroutines and 1 worker, 6 items over 4 URLs, 3 fetches, 1 fault or stop; one text under three URLs and outdated under a fourth | fresh articles left with nothing are one for each failure, every other leads to a queued or outdated one or to one of these; jobs for one text bounded, statuses backed, the queue driven by its own operations only |
| `intake_revised` | an article and its revision under one URL | violation: the revision is dropped |
| `source_run` | 4 kinds of HTML source and the 3 feeds; all listings of up to 3 candidates out of 11, all feeds of up to 2 entries out of 9; pages that fail or answer with any URL and date; deadlock checked | candidates counted once, limits, reasons, freshness |
| `source_failure` | the SEC adapter alone | violation: a source that never answered is a success |
| `clustering` | 3 reports of one event, 2 workers, 1 store error or stop of any kind | one event for each article, gaps accounted for, twins bounded |
| `paging` | up to 5 articles, pages of 1 or 2, 3 changes of the list during the walk | an article in the list all the time is missed only for a row that left; the total counts articles |
| `urls` | links of one host: a plain word, a bracket and a blank in the path, spelled in several ways; text that is no URL | violation: the canonical URL is an address of another page |

**Bounds.** `MaxDbErrors`, `MaxFaults`, `MaxStops`, `MaxRetries` and
`MaxFetches` bound how often the environment interferes; nothing in the code
depends on their values. Two workers and two articles are enough for a worker
to meet another's job, row or cluster, and attempts up to 2 for a job to
be retried and to be given up. Properties of the form "at most as many as there
were errors" are checked with budgets of 0 and 1 and, for the queue, proved for
all. `LongRest` stops counting a rest that no backoff exceeds. `MaxTroubles` bounds
errors and stops together in `intake`, `clustering` and `health`. Three fetches
allow an article, its duplicate and a later look at either; the crawl goroutines of one
process stand for those of two, since they share nothing but tables, except that a
stop takes them together. Three articles in `clustering` let two workers create twins
and a third report choose between them. Crawl goroutines and the three URLs of one
text in `intake` (`Alike`) and the workers in `clustering` (`AlikeWorkers`) are
interchangeable in every definition; these runs have no temporal property but
`[][...]` safety, so the reduction is sound. Two calls at most have a run for a source
open at once in `health` besides that of the command, enough for one to overtake
another and for a third to start meanwhile. Three moves in `paging` put a row in
front of the page, take one away and widen one; with pages of two a widened
article lies on two pages.

Three candidates in `source_run` are one more than the limits on items, and its two
URLs make a page fetch land on another candidate's URL; `LastWindow` is one past
`Since`, so an item at the edge can become outdated on the way. For listings of any length and any limits the
properties are proved.

**Deadlock.** The queue rests when no job is due and the budgets are spent, so
its runs do not check deadlock. CrawlOnce and a source run must not stop before their end, and `crawl_pool` and
`source_run` check it.

**Fairness.** `WF` of each worker's step: `Worker.loop` calls ProcessOne again
until its context ends, and every call it makes ends by a timeout. `WF` of
`Start`: a supervisor or the operator starts a stopped process again; the
property that fails (`queue_stop`) fails although this is granted. `WF(Tick)`:
time passes. `WF` of each goroutine and of CrawlOnce: the Go scheduler; fetches
end by the HTTP client's timeout. In `health`, `WF` of the start of each server, of
its ticks and of the scheduler's loop, and of each call's goroutines;
`RunOnStartup` is off there, so that it takes the ticker to supersede a stranded
row. Requests, commands, crawl goroutines in `Intake`, administrators and errors
have no fairness.

**Findings.** Five runs show disagreements of code and documentation: stranded
running jobs, backoff in local time, updates dropped under an unchanged URL,
escaped paths escaped again, and a failed source reported as a success. Others met
while modelling are in the models without a run of their own:

* One event can have several clusters, although docs/ACCEPTANCE_CRITERIA.md:44 says
  "Articles with same event key are clustered": the search and the creation are separate statements (cluster.go:36). `TwinsBounded`
  is what holds instead.
* RefreshClusterAggregates fails each time on an ambiguous column (clusters.go:61), so
  that importance and `last_seen_at` never follow (docs/ACCEPTANCE_CRITERIA.md:47);
  `Age` and the unused `importance` and `size` show it.
* `DocumentEntry` gives an undated document of the Federal Register the zero time, so
  it is outdated on arrival (federalreg.go:81).
* A failed fetch is given the reason `source_reachable_no_recent_items`.
* One page can have several canonical URLs: a valid path keeps its spelling, so `%c3` and
  `%C3`, or `~` and `%7E`, are two, and `/(a)/` becomes `/%28a%29` where `/(a)` stays, since
  `RawPath` fits one only (normalize.go:40-44). Theorem `UrlFollowsSpelling` says how far this
  goes; the content hash then decides.
* `CanonicalURL` drops `ref`, which docs/DEDUP_CLUSTERING.md:58-63 does not list.
* One ignored error of EnqueueLLMJob (crawler.go:214) loses more than its article: every later
  copy of the text is linked to it and never queued. `Stranded` counts the article,
  `LeadsTo` the copies that go with it.
* The search by content has no window (db.go:177), so a fresh copy of an outdated article
  is linked to it and never analysed; `FreshAccounted` names this case.
* An outdated article is given back with backoff 0 and picked up to `max_attempts` times
  (worker.go:92), although docs/LLM_CONTRACT.md:66-69 says not to retry it. It is modelled as
  it is; `AttemptsBounded` bounds the rounds and no property rejects them.
* No code sets the status `llm_failed` that docs/DATA_MODEL.md:36 names.
* The limit on LLM calls is each process's own (worker.go:39), and
  `rate_limit_per_minute` is stored with the source and used by nothing.

The database kept in the repository, `src/finnews.db`, shows the traces: three
running jobs that no process holds, 177 articles linked to themselves as
duplicates, clusters of up to nine members counted as one.

## Proofs

All theorems hold for every value of the constants under the named assumptions of
the modules (`QueueAssumption`, `PoolAssumption`, `SourceAssumption`, `HealthAssumption`,
`IntakeAssumption`, `ClusteringAssumption`, `PagingAssumption`): any articles, processes and sources, any
attempt limit, any nonempty backoff schedule, any budget. Where workers, crawl
goroutines, sources or calls are counted they are finite sets, as in any process.
Every safety invariant and action property of the passing runs is proved. `TwinsBounded` is
proved twice: under the condition `[]WithinLimit`, and without it where there are no more
articles than the candidate list has room for, as in the run.

**Queue.** `OwnershipInv` is inductive: types; a worker between two statements
holds an article; `SoleOwner`; `AnalysisByCounter`, which ties the analysis
table to the counters (a worker on its way to the call holds an unanalysed
article, one past `SaveAnalysis` an analysed one); and `AnalysisAndJobAgree`.
`SoleOwner` alone is enough for the jobs but not for the analyses: that
nobody else saves an analysis while a worker is on its way to the call follows
from sole ownership together with what each counter says of the table. From it,
with a second invariant each: `AttemptsInv` (a job that can still be picked is
below the limit plus the retries), `AnswersInv` (a job in the queue with a
useful answer has lost one to a store error) and `RestInv` (rest so far plus
remaining wait cover the backoff, which needs `ZoneOffset >= 0`; `queue_zone`
shows that it fails otherwise). `OrphansInv` counts the running jobs nobody holds: a
step without a failure keeps the owner of each running job (`OwnersStay`), a
failed statement leaves one more, and a stop one for each worker of the process
(`AtMostSlots`, an injection of the abandoned jobs into `Slots`). `DoneIsForGood` is about the
UPDATEs that look at the id only: a done job stays done, since nobody owns one.

That jobs end has two halves. `JobsAreFinite`: `LifeLeft(a)`, the statements before the
worker that holds the job plus 8 for each attempt left, falls with each step of the job;
only an administrator's retry prolongs it, by no more than the 9 steps counted for each
beforehand. `RestingQueueIsSettled`: where no worker, process or clock can move, no job is
pending and none is held, since of the due jobs one is the oldest (`OldestExists`, from the
well-foundedness of the naturals) and an idle worker would pick it. Its
guards `WorkerMoves` and `TimeMoves` are those of the actions; on the instance of `queue`
they agree with ENABLED. That fair scheduling joins the halves to
`JobsSettleOrOrphan` is left to the run.

**Refinement.** `QueueImplementsLedger`: initial states map to initial states
and each queue action to a ledger action or a stutter. The owner of a claimed
job is the worker that holds it, a CHOOSE that `SoleOwner` makes unique; stops
and give-back errors map to `Abandon`. Since crawlers and clustering drive the queue by
its own steps, `IntakeImplementsLedger` and `ClusteringImplementsLedger` follow.

**CrawlPool.** `PoolInv`: the tokens in the semaphore are the goroutines alive
plus the tokens drained (`TokensHeld`); a source in `todo` has no goroutine yet
(`BornOnce`); what phase, channel and closed flag say of the goroutines
(`PhaseOrder`); and where each result is (`ResultKept`). When the drain has put
in all its tokens no goroutine is left, so the close cannot meet a send.
CrawlOnce ends because every step lessens `StepsLeft` (`CrawlCountsDown`) and
until it has returned its caller or a goroutine can move (`CrawlNeverStuck`): when
the semaphore keeps the caller waiting a goroutine is alive, and whichever step it is at, the
channel has room and the semaphore a token to take back. `CrawlReturns` itself is left to the run.

`PoolKeepsHealth` maps each step to one of `SourceHealth`: a goroutine with an open
run holds a token, so fewer than the limit are open when another is created,
whatever tokens the drain loop holds.

**SourceHealth.** `HealthInv`: the writer of the row shown has the source open
(`WriterRuns`), and no source is both still to be crawled by a call and open in it,
with at most `Limit` of them open (`OpenedOnce`). `ResultsStay` follows:
only the writer changes the row shown, and a row with a result has no writer.
`OrphansAreBounded` counts with `Bounded` (orphans are at most the failed saves plus
`Limit` for each call cut); a stop adds what its calls have open, and `FewLeft` bounds
that by numbering the open sources of each call from 1 to `Limit`.

**SourceRun.** `RunInv`: the balance `pos - 1 = items + dropped candidates`, which
`Balanced` states for one iteration; every item fresh for the adapter; an item
marked outdated is before the window; a reason before the end only without items.
`ReasonSupported` needs the balance: when as many candidates are too old as
there are candidates, no other counter can have moved and the loop has read them
all, since it passes no more candidates than there are (`OlderIsAll`).
`RunsAreShort` bounds the steps of a run by its listing: two for an entry, which is passed once
and leaves at most one item, and two to close. `RunsNeverStick` says that one branch of the loop
is open to each entry; it assumes `Since <= LastWindow`, that the last start of the window
an instance has room for is not before the first.

**Intake.** `IntakeDrivesQueue`: every step is one of `LLMQueue` or leaves its variables
alone, so `OwnershipInv` holds here and is used below. `LocalInv` says what a goroutine
carries. For `StatusesAreBacked`, `Pledges` are the articles whose status, or the one a goroutine is
about to write, lacks its job or link; only a failed call adds one. For `FreshAreAccounted`, rows
are numbered as they come (`Ranked`, `RowPerItem`), a goroutine that will enqueue an article or
link it to an earlier row `Answers` for it, and `Exposed` are the fresh articles with no job,
analysis or link to an earlier row (`Represented`) that nobody answers for. Only a failed call
or a stop exposes one more, and `Stranded` ones are exposed (`StrandedAreExposed`). When two
goroutines bring one URL, the one that inserts the row answers; the
other found the row, and its link of the row to itself is no answer because it does
not lead to a smaller rank. Since ranks fall along `Earlier` links, of the articles a fresh one
leads to there is an earliest (`LinksEnd`), which has no link left: it has a job or an
analysis, is in a goroutine's hands, outdated, or stranded. For `DuplicateJobsAreBounded`, the queued articles
of a text and the goroutines that have `Missed` it are together at most as many as
goroutines and failed searches: a goroutine joins the second set only while no
row has the text, when the first is empty, and moves from the second to the first
when it enqueues.

**Clustering.** `ClusteringDrivesQueue`, as above. `EventTypes` adds to the types where a
worker inside ClusterArticle aims. `FilingInv`: a row of `event_articles` needs the
analysis, which is stored once, so whoever is about to write a row writes the
first of its article (`FirstRow`); no retry or restart files it again. `AccountInv` counts the
done articles without an event, the updates missing from a timeline and the
hollow events against failed statements and the workers of stopped processes.
`TwinsAreBounded` has a condition: `[]WithinLimit`, the candidate list holds every match.
Then the live clusters of an event and the workers about to create one are
together at most the workers (`TwinInv`), because whoever searches while a live cluster
is there finds it: equal key and type make 60 points, and 50 suffice. `NoSurplus` relieves
small databases of the condition: clusters and the analysed articles that may still create one are
together at most the analysed articles (`EventsAreCovered`), because an analysis is
stored once and its worker clusters once; so 50 articles never fill the list beyond 50
(`FewArticlesTwinsAreBounded`). Beyond the limit nothing bounds twins. `FilingIsForGood`
follows from `FirstRow`: the upsert of an event's member never finds a row to replace.

**Paging.** `Upto(a)` is the place of an article's last row, `Frontier` the number of rows of
the pages read, and `Behind` are the articles listed all the time that no further page
will show. A row that enters or a link pushes last rows down only, and a page shows
every article that ends on it. When an article of `n` rows leaves, last rows move up by `n` at
most; those that cross the frontier were at one of `n` places behind it, and no two
articles have the same (`PlacesDiffer`), so `Behind` gains at most `n` articles and `goneRows`
exactly `n`. After a page that is not full everything is behind the frontier. `CollectedInv`
counts what the client holds and the list does not against `gone` and `came`.

**Urls.** `OneUrlOnePage` is soundness only: links with one canonical URL lead to one page,
although the URL itself may be of another, because both ways of writing a path are injective
and their results never meet but in the same text (`WrittenApart`). The converse is false;
`UrlFollowsSpelling` says which links to one page are kept apart. `PlainAddressKept` says for
which links the canonical URL is an address of the page, and `EscapedAddressLost` that for
every link with an escape or a special character in its path it is not.

**Only model-checked.** Liveness (`JobsSettleOrOrphan`, `CrawlReturns`, `StrandedSuperseded`) and
ENABLED are beyond the prover; the facts of safety behind the first two are proved, as above.

## Not modelled

* Selectors, date formats and the extraction of an article from a page, prompt
  rendering and the normalisation of an answer's fields: what they yield is the
  environment's choice of candidates, pages and answers.
* Titles, texts and hashes are values, equal when their normal forms are; shingles and
  similarity feed the score, where titles are of one class or not. Relative links.
* Statistics, queries for single rows, the queue's status and static files of the
  API, the dashboard: reads without state.
* Parsing of YAML and the environment, which is pure input; what loading guarantees
  of the values is in the assumptions.
* `RunRetention`, which nothing calls, and `NearDuplicateByText`, which only tests call.
* Job priorities, all zero in the code.

## What is left

Shingles and Hamming distance against a reference definition; `CrawlPool` over
`SourceRun`, so that the theorems on a run hold of the composition.

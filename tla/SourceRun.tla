----------------------------- MODULE SourceRun -----------------------------
(***************************************************************************)
(* One run of crawlSource for one source: its adapter reads a listing page *)
(* (HTML), a feed (RSS), documents (Federal Register) or the filings of    *)
(* each company (SEC), and returns items; processItem takes each of them;  *)
(* the run is closed with counts and, when it brought no article, with a   *)
(* reason that the dashboard shows.                                        *)
(*                                                                         *)
(* A URL is its canonical form. What processItem does with an item is in   *)
(* Intake, the goroutine around a run in CrawlPool. Texts are left out: a  *)
(* page replaces an item's text whatever its URL and date are.             *)
(***************************************************************************)
EXTENDS Integers, Sequences, FiniteSets

CONSTANTS
  None,         \* nil, or an empty string
  Sources,      \* the configured sources
  Pages,        \* listing pages, [matched, candidates]
  LinkedPages,  \* pages that listings link to: [text, link, og, time], whether
                \*   the answer is of a text type, its canonical link, its og:url
                \*   and the first date to be read under the date selector
  Feeds,        \* what the other adapters are sent: sequences of Entries
  Companies,
  Urls, Dates,  \* what a linked page may say of itself
  Since,        \* start of the window when the run starts
  LastWindow,   \* bound: where the window may have moved to at its end
  DefaultItems  \* max_items of a source without one

\* A source's settings: full_content_allowed, hasSelectors, whether there is a
\* date selector for linked pages, fallback_keyword_scan, allow_missing_dates and
\* the two limits, 0 when not set.
Settings == [type : {"html", "rss", "sec_edgar", "federal_register"},
             full : BOOLEAN, configured : BOOLEAN, dated : BOOLEAN, scan : BOOLEAN,
             undated : BOOLEAN, maxItems : Int, maxFetches : Int]

\* What an entry can fail: the filters on domain, URL and title; for a filing, to
\* be of a company in the table and of a wanted form.
Tests == {"domain", "url", "title", "keyword", "ticker", "form"}

\* What extractCandidate makes of an element that has a link and a title of eight
\* letters, or a feed of an entry: the tests it fails, the company of a filing.
Entries == [url : Urls \cup {None}, date : Dates \cup {None},
            fails : SUBSET Tests, ticker : Companies \cup {None}]

\* extractCandidates: each element that the selectors match is counted and yields
\* one candidate or none.
IsListing(page) == /\ page.candidates \in Seq(Entries)
                   /\ page.matched \in Nat
                   /\ page.matched >= Len(page.candidates)

Reasons == {"no_selector_matches", "all_matching_items_older_than_72h",
            "all_candidates_filtered", "matching_items_missing_dates",
            "content_fetch_failed", "source_reachable_no_recent_items",
            "all_candidates_failed_quality_gate", "all_candidates_duplicate",
            "all_candidates_outdated", "no_new_articles_inserted"}

ASSUME SourceAssumption ==
  /\ None \notin Urls \cup Nat \cup Reasons
  /\ Since \in Nat /\ LastWindow \in Nat /\ Dates \subseteq Nat
  /\ DefaultItems \in Nat \ {0}
  /\ Sources \subseteq Settings
  /\ \A page \in Pages : IsListing(page)
  /\ LinkedPages \subseteq [text : BOOLEAN, link : Urls \cup {None},
                            og : Urls \cup {None}, time : Dates \cup {None}]
  /\ Feeds \subseteq Seq(Entries)

VARIABLES
  source,   \* the source
  phase,    \* "fetch", "entries", "items", "done"
  matched,  \* selector_matches
  list,     \* the entries of the listing or feed
  pos,      \* the entry handled next
  seen,     \* canonical URLs met on the page
  stats,    \* the adapter's counters
  items,    \* the items it returns
  results,  \* for each processed item, the flags set in its processResult
  window,   \* start of the freshness window by processItem's clock
  fetchErr, \* whether the adapter returned an error
  lost,     \* companies whose request failed
  run       \* status and no_fresh_reason of the source run

sourceVars == <<source, phase, matched, list, pos, seen, stats, items, results,
                window, fetchErr, lost, run>>
fetching   == <<source, matched, list, results, window, fetchErr, lost>>

Skips    == {"duplicate", "domain", "url", "title", "keyword", "older", "undated"}
Counters == Skips \cup {"attempted", "failed", "full", "cut"}
Flags    == {"raw", "article", "rejected", "duplicate", "outdated", "queued"}

\* The zero time of Go, which federalreg gives to a document without a date.
ZeroTime == 0

Html       == source.type = "html"
MaxItems   == IF source.maxItems <= 0 THEN DefaultItems ELSE source.maxItems
MaxFetches == IF source.maxFetches <= 0 THEN MaxItems ELSE source.maxFetches
Old(d)     == d # None /\ d < Since
Entry      == list[pos]

FetchedItems    == [url : Urls \cup {None}, date : Dates \cup {None, ZeroTime}]
Item(url, date) == [url |-> url, date |-> date]
Plus(st, k)     == [st EXCEPT ![k] = @ + 1]

TypeOK ==
  /\ source \in Sources /\ phase \in {"fetch", "entries", "items", "done"}
  /\ matched \in Nat /\ pos \in Nat \ {0}
  /\ list \in Seq(Entries)
  /\ seen \in SUBSET (Urls \cup {None})
  /\ stats \in [Counters -> Nat]
  /\ items \in Seq(FetchedItems)
  /\ results \in Seq(SUBSET Flags) /\ Len(results) <= Len(items)
  /\ window \in Nat /\ fetchErr \in BOOLEAN /\ lost \in SUBSET Companies
  /\ run \in [status : {"running", "success", "failed"}, reason : Reasons \cup {None}]

Init ==
  /\ source \in Sources /\ phase = "fetch"
  /\ matched = 0 /\ list = <<>> /\ pos = 1 /\ seen = {}
  /\ stats = [k \in Counters |-> 0]
  /\ items = <<>> /\ results = <<>> /\ window = Since
  /\ fetchErr = FALSE /\ lost = {}
  /\ run = [status |-> "running", reason |-> None]

-----------------------------------------------------------------------------
(* The first request: the listing, the feed or the table of companies.      *)

FetchFails ==
  /\ phase = "fetch" /\ phase' = "items"
  /\ fetchErr' = TRUE
  /\ UNCHANGED <<source, matched, list, pos, seen, stats, items, results, window,
                 lost, run>>

\* Without selectors every link is a candidate, and none has a date.
ListingAnswers ==
  /\ phase = "fetch" /\ phase' = "entries" /\ Html
  /\ \E page \in Pages :
       /\ \A k \in 1..Len(page.candidates) :
            page.candidates[k].date # None => source.configured
       /\ matched' = page.matched /\ list' = page.candidates
  /\ UNCHANGED <<source, pos, seen, stats, items, results, window, fetchErr, lost, run>>

\* RSS and Federal Register send one document.
FeedArrives ==
  /\ phase' = "entries" /\ list' \in Feeds
  /\ UNCHANGED <<source, matched, pos, seen, stats, items, results, window,
                 fetchErr, lost, run>>

FeedAnswers      == phase = "fetch" /\ source.type = "rss" /\ FeedArrives
DocumentsAnswer  == phase = "fetch" /\ source.type = "federal_register" /\ FeedArrives

\* SEC is asked once for each listed company; a company whose request fails, at
\* once or when its turn comes, is passed over in silence.
Asked == {list[k].ticker : k \in {j \in 1..Len(list) : "ticker" \notin list[j].fails}}

FilingsAnswer ==
  /\ phase = "fetch" /\ phase' = "entries"
  /\ source.type = "sec_edgar"
  /\ list' \in {feed \in Feeds : \A k \in 1..Len(feed) : feed[k].url # None}
  /\ lost' \in SUBSET (Companies \cap Asked')
  /\ UNCHANGED <<source, matched, pos, seen, stats, items, results, window,
                 fetchErr, run>>

-----------------------------------------------------------------------------
(* The entries, one at a time.                                              *)

InEntries == phase = "entries" /\ pos <= Len(list)

\* Where the HTML adapter counts a candidate it drops; the tests in their order.
Verdict(c) ==
  IF c.url = None \/ c.url \in seen THEN "duplicate"
  ELSE IF "domain" \in c.fails THEN "domain"
  ELSE IF "url" \in c.fails THEN "url"
  ELSE IF "title" \in c.fails THEN "title"
  ELSE IF ~source.configured /\ ~source.scan /\ "keyword" \in c.fails THEN "keyword"
  ELSE IF Old(c.date) THEN "older"
  ELSE IF c.date = None /\ source.configured /\ ~source.undated THEN "undated"
  ELSE "keep"

\* Mutant of NoFreshReason: one candidate that is too old speaks for all.
NoFreshReasonOfOne(st) ==
  IF st["older"] > 0 THEN "all_matching_items_older_than_72h"
                     ELSE "source_reachable_no_recent_items"

NoFreshReason(st) ==
  IF matched = 0 \/ Len(list) = 0 THEN "no_selector_matches"
  ELSE IF st["older"] > 0 /\ Len(list) = st["older"]
    THEN "all_matching_items_older_than_72h"
  ELSE IF st["url"] > 0 \/ st["title"] > 0 \/ st["domain"] > 0
    THEN "all_candidates_filtered"
  ELSE IF st["undated"] > 0 THEN "matching_items_missing_dates"
  ELSE IF st["failed"] > 0 THEN "content_fetch_failed"
  ELSE "source_reachable_no_recent_items"

\* Mutant of Close: the reason is set whatever the adapter returns.
CloseWithReason(st) ==
  /\ phase' = "items" /\ stats' = st
  /\ run' = [run EXCEPT !.reason = NoFreshReason(st)]
  /\ UNCHANGED <<fetching, pos, seen, items>>

\* The loop is over: the HTML adapter says why, when it has nothing to return.
Close(st) ==
  /\ phase' = "items" /\ stats' = st
  /\ run' = [run EXCEPT !.reason = IF Html /\ items = <<>>
                                   THEN NoFreshReason(st) ELSE None]
  /\ UNCHANGED <<fetching, pos, seen, items>>

\* Goes on with the next entry.
Advance(st, returned) ==
  /\ pos' = pos + 1
  /\ seen' = IF Html THEN seen \cup {Entry.url} ELSE seen
  /\ stats' = st /\ items' = returned
  /\ UNCHANGED <<fetching, phase, run>>

\* Mutant of Candidate: max_items is tested for the page fetches only.
CandidateUnlimited == InEntries /\ Html

Candidate == InEntries /\ Html /\ Len(items) < MaxItems
Kept      == Candidate /\ Verdict(Entry) = "keep"
Fetchable == Kept /\ source.full /\ stats["attempted"] < MaxFetches

LimitItems ==
  /\ InEntries /\ Html /\ Len(items) >= MaxItems
  /\ Close(Plus(stats, "full"))

Skip ==
  /\ Candidate /\ Verdict(Entry) \in Skips
  /\ Advance(Plus(stats, Verdict(Entry)), items)

LimitFetches ==
  /\ Kept /\ source.full /\ stats["attempted"] >= MaxFetches
  /\ Close(Plus(stats, "cut"))

KeepListed ==
  /\ Kept /\ ~source.full
  /\ Advance(stats, Append(items, Item(Entry.url, Entry.date)))

\* Mutant of PageFails: goes on with the next candidate on an error.
PageFailsSkipped ==
  /\ Fetchable
  /\ Advance(Plus(Plus(stats, "attempted"), "failed"), items)

\* The linked page cannot be read: the item is what the listing says.
PageFails ==
  /\ Fetchable
  /\ Advance(Plus(Plus(stats, "attempted"), "failed"),
             Append(items, Item(Entry.url, Entry.date)))

\* ExtractReadableContent takes the canonical link before og:url, and a date only
\* under a date selector; an answer that is not of a text type is empty.
Extracted(page) ==
  [url  |-> IF page.link # None THEN page.link ELSE page.og,
   date |-> IF source.dated THEN page.time ELSE None]
Content(page) == IF page.text THEN Extracted(page) ELSE [url |-> None, date |-> None]

\* What the page says of itself replaces what the listing says.
Merged(said) == Item(IF said.url = None THEN Entry.url ELSE said.url,
                     IF said.date = None THEN Entry.date ELSE said.date)

\* Mutants of PageAnswers: an item too old is counted and returned; the date of
\* the page is taken without a test.
PageAnswersCounted ==
  /\ Fetchable
  /\ \E page \in LinkedPages :
       LET item == Merged(Content(page))
           st   == Plus(stats, "attempted")
       IN Advance(IF Old(item.date) THEN Plus(st, "older") ELSE st, Append(items, item))
PageAnswersUntested ==
  /\ Fetchable
  /\ \E page \in LinkedPages :
       Advance(Plus(stats, "attempted"), Append(items, Merged(Content(page))))

\* The linked page is read, and the window tested again.
PageAnswers ==
  /\ Fetchable
  /\ \E page \in LinkedPages :
       LET item == Merged(Content(page))
           st   == Plus(stats, "attempted")
       IN IF Old(item.date) THEN Advance(Plus(st, "older"), items)
                            ELSE Advance(st, Append(items, item))

\* The loops of the other adapters; their page fetches change only texts.
Feeding(type, kept, date) ==
  /\ InEntries /\ source.type = type
  /\ Advance(stats, IF kept THEN Append(items, Item(Entry.url, date)) ELSE items)

RssEntry == Feeding("rss", ~Old(Entry.date), Entry.date)

DocumentEntry ==
  Feeding("federal_register", ~Old(Entry.date),
          IF Entry.date = None THEN ZeroTime ELSE Entry.date)

FilingEntry ==
  Feeding("sec_edgar",
          /\ Entry.ticker \notin lost /\ Entry.fails \cap {"ticker", "form"} = {}
          /\ Entry.date # None /\ ~Old(Entry.date),
          Entry.date)

EndOfEntries == phase = "entries" /\ pos > Len(list) /\ Close(stats)

-----------------------------------------------------------------------------
(* The items, one at a time, and the end of the run.                        *)

\* What processItem may answer for item i when the window starts at w. Without
\* any flag InsertRawItem has failed, with "raw" at most InsertArticle; either
\* may find its row there. An error of Decide leaves the item a new one.
Returns(i, w) ==
  LET stored == \E k \in 1..Len(results) :
                  items[k].url = i.url /\ "article" \in results[k]
      late   == i.date # None /\ i.date < w
  IN {r \in SUBSET Flags :
        \/ r = {}
        \/ r \ {"raw"} = {"rejected"}
        \/ i.url # None /\ r = {"raw"}
        \/ /\ i.url # None /\ "rejected" \notin r
           /\ "article" \in r => ~stored
           /\ "outdated" \in r <=> late
           /\ "queued" \in r <=> ~late /\ "duplicate" \notin r}

ProcessItem ==
  /\ phase = "items" /\ Len(results) < Len(items)
  /\ \E w \in window..LastWindow :
       /\ window' = w
       /\ \E r \in Returns(items[Len(results) + 1], w) : results' = Append(results, r)
  /\ UNCHANGED <<source, phase, matched, list, pos, seen, stats, items, fetchErr,
                 lost, run>>

Count(flag) == Cardinality({k \in 1..Len(results) : flag \in results[k]})

NoArticleReason ==
  IF Len(items) = 0 THEN "source_reachable_no_recent_items"
  ELSE IF Count("rejected") >= Len(items) THEN "all_candidates_failed_quality_gate"
  ELSE IF Count("duplicate") >= Len(items) THEN "all_candidates_duplicate"
  ELSE IF Count("outdated") >= Len(items) THEN "all_candidates_outdated"
  ELSE "no_new_articles_inserted"

\* Mutant of FinishSourceRun: a status that the table's readers know, but that
\* no run of the code has.
FinishPartial ==
  /\ phase = "items" /\ Len(results) = Len(items) /\ phase' = "done"
  /\ run' = [run EXCEPT !.status = IF fetchErr THEN "failed"
                                  ELSE IF items = <<>> THEN "partial" ELSE "success"]
  /\ UNCHANGED <<fetching, pos, seen, stats, items>>

FinishSourceRun ==
  /\ phase = "items" /\ Len(results) = Len(items) /\ phase' = "done"
  /\ run' = [status |-> IF fetchErr THEN "failed" ELSE "success",
             reason |-> IF Count("article") = 0 /\ run.reason = None
                        THEN NoArticleReason ELSE run.reason]
  /\ UNCHANGED <<fetching, pos, seen, stats, items>>

Next ==
  \/ FetchFails \/ ListingAnswers \/ FeedAnswers \/ DocumentsAnswer \/ FilingsAnswer
  \/ LimitItems \/ Skip \/ LimitFetches \/ KeepListed \/ PageFails \/ PageAnswers
  \/ RssEntry \/ DocumentEntry \/ FilingEntry \/ EndOfEntries
  \/ ProcessItem \/ FinishSourceRun
  \/ phase = "done" /\ UNCHANGED sourceVars

SourceSpec == Init /\ [][Next]_sourceVars

-----------------------------------------------------------------------------
(* Properties.                                                              *)

\* Every candidate the loop has passed is counted in exactly one place: among
\* the items or under the one test that dropped it. The counters are what the
\* dashboard shows to tell a quiet source from a broken selector.
Dropped(st) == st["duplicate"] + st["domain"] + st["url"] + st["title"]
               + st["keyword"] + st["older"] + st["undated"]
EveryCandidateCounted == Html => pos - 1 = Len(items) + Dropped(stats)

\* Whatever mixture of drops and pages a listing brings, the adapter returns no
\* more items and asks for no more pages than its limits, also when they are
\* not set.
LimitsKept == Html => Len(items) <= MaxItems /\ stats["attempted"] <= MaxFetches

\* A page that cannot be read costs the item its text, never its place: each
\* failed fetch leaves an item, so an empty result is never blamed on pages,
\* although noFreshReason provides for that.
PageFailureKeepsItem ==
  /\ stats["failed"] <= Len(items)
  /\ run.reason # "content_fetch_failed"

\* "all_matching_items_older_than_72h" is said only of a listing that was read
\* to its end, with every candidate dated before the window and none dropped
\* for another reason: the count it is taken from is the whole listing.
\* "matching_items_missing_dates" is said only when undated entries are unwanted.
ReasonSupported ==
  /\ run.reason = "all_matching_items_older_than_72h" =>
       /\ pos = Len(list) + 1 /\ items = <<>>
       /\ \A k \in Skips \ {"older"} : stats[k] = 0
  /\ run.reason = "matching_items_missing_dates" =>
       /\ source.configured /\ ~source.undated
       /\ \E k \in 1..Len(list) : list[k].date = None

\* A closed run says why it brought no article exactly when it brought none,
\* whichever of adapter and crawler is to say it.
ReasonIffNothing ==
  phase = "done" => (Count("article") = 0 <=> run.reason # None)

\* An adapter that tests dates never returns what is too old already: such an
\* item is marked outdated only because the window moved on while the run
\* fetched its pages. (Undated documents of the Federal Register are the
\* exception: they come with the zero time.)
OutdatedByTimeOnly ==
  \A k \in 1..Len(results) :
    "outdated" \in results[k] =>
      \/ window > Since
      \/ source.type = "federal_register" /\ items[k].date = ZeroTime

\* README.md:157: "If a source changes format or fails, the source run is marked
\* failed and other sources continue." A source of which no request was answered
\* has failed.
Unheard == \/ fetchErr
           \/ source.type = "sec_edgar" /\ Asked # {} /\ Asked \subseteq lost
FailuresMarked == phase = "done" /\ Unheard => run.status = "failed"
=============================================================================

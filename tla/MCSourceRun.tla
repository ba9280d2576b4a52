----------------------------- MODULE MCSourceRun -----------------------------
(* SourceRun on small listings and feeds.                                   *)
EXTENDS SourceRun

CONSTANTS u1, u2, c1, c2

HtmlSource(configured, dated, scan, undated, full, maxItems, maxFetches) ==
  [type |-> "html", full |-> full, configured |-> configured,
   dated |-> dated, scan |-> scan, undated |-> undated,
   maxItems |-> maxItems, maxFetches |-> maxFetches]

FeedSource(type) ==
  [type |-> type, full |-> TRUE, configured |-> FALSE, dated |-> FALSE,
   scan |-> FALSE, undated |-> FALSE, maxItems |-> 0, maxFetches |-> 0]

\* Dated and undated listings with page fetches, a listing of links without
\* selectors and without limits, and the three feeds.
SmallSources ==
  {HtmlSource(TRUE, TRUE, FALSE, FALSE, TRUE, 2, 1),
   HtmlSource(TRUE, FALSE, FALSE, TRUE, TRUE, 1, 2),
   HtmlSource(FALSE, FALSE, FALSE, FALSE, FALSE, 0, 0),
   HtmlSource(FALSE, TRUE, TRUE, FALSE, TRUE, 2, 0),
   FeedSource("rss"), FeedSource("sec_edgar"), FeedSource("federal_register")}

FilingSources == {FeedSource("sec_edgar")}

\* The window starts at 2 and may have moved to 3 when the items are stored.
PageEntries ==
  [url : {u1, u2}, date : {None, 1, 2}, fails : {{}}, ticker : {None}] \cup
  [url : {u1}, date : {2}, fails : {{"domain"}, {"url", "title"}, {"title"},
                                    {"keyword"}}, ticker : {None}]

FeedEntries ==
  [url : {u1, None}, date : {None, 1, 2}, fails : {{}}, ticker : {c1}] \cup
  [url : {u2}, date : {2}, fails : {{}, {"ticker"}, {"form"}}, ticker : {c2}]

UpTo(n, S) == UNION {[1..k -> S] : k \in 0..n}

SmallPages ==
  {[matched |-> Len(l), candidates |-> l] : l \in UpTo(3, PageEntries)} \cup
  {[matched |-> 1, candidates |-> <<>>]}
SmallLinked ==
  [text : {TRUE}, link : {u1, None}, og : {u2, None}, time : {None, 1, 2}] \cup
  [text : {FALSE}, link : {None}, og : {None}, time : {None}]
SmallFeeds == UpTo(2, FeedEntries)
=============================================================================

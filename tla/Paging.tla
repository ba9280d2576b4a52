------------------------------- MODULE Paging -------------------------------
(***************************************************************************)
(* A client that reads a list of the API page by page while crawlers and   *)
(* workers change the tables. Each page is an answer of two statements of  *)
(* its own, LIMIT and OFFSET over the rows and a count; nothing connects   *)
(* one page with the next. An article takes one row for each of its rows   *)
(* in article_duplicates, since ListArticles joins that table (it joins    *)
(* event_articles too, where an article has one row); a cluster takes one. *)
(*                                                                         *)
(* The list is a set of the natural numbers, newest first. Entries of the  *)
(* same time, which SQLite may return in any order, do not occur.          *)
(***************************************************************************)
EXTENDS Integers, FiniteSets

CONSTANTS
  Articles,     \* numbered by COALESCE(published_at, fetched_at)
  SizesAsked,   \* values of the parameter page_size, None without a number
  SizeDefault,  \* cfg.API.PageSizeDefault
  SizeMax,      \* cfg.API.PageSizeMax
  None,
  MaxRows,      \* articles one can be linked to; 1 for a list of clusters
  MaxMoves      \* bound: changes of the list during the walk

ASSUME PagingAssumption ==
  /\ Articles \subseteq Nat /\ IsFiniteSet(Articles)
  /\ SizesAsked \subseteq Int \cup {None}
  /\ SizeDefault \in Int /\ SizeMax \in Int
  /\ MaxRows \in Nat \ {0} /\ MaxMoves \in Nat

VARIABLES
  listed, \* articles that match the filter
  width,  \* rows each article takes in the join
  asked,  \* the client's page_size
  page,   \* the page it asks for next
  at,     \* "rows" and "total", the statements of a page; "done"
  short,  \* the page had fewer rows than fit
  seen,   \* articles the client was given
  total,  \* Total of the last page
  steady, \* articles listed since the walk began
  came,   \* articles that entered the list since then
  gone,   \* articles that left it, and the rows they took
  goneRows,
  blind   \* the last count failed

list == <<listed, width, steady, came, gone, goneRows>>
walk == <<asked, page, at, short, seen, total, blind>>
vars == <<list, walk>>

\* The rows of the join: an article with the number of the link.
Joined(S)   == UNION {{a} \X (1..width[a]) : a \in S}
Rows(S)     == Cardinality(Joined(S))
Above(a)    == Rows({b \in listed : b > a})
Moves       == came + gone + Rows(Articles) - Cardinality(Articles)
Clamp(v, lo, hi) == IF v < lo THEN lo ELSE IF v > hi THEN hi ELSE v

\* What the handler makes of page_size, and the list's own default behind it.
Size ==
  LET v == Clamp(IF asked = None THEN SizeDefault ELSE asked, 1, SizeMax)
  IN  IF v <= 0 THEN 50 ELSE v

\* What the list makes of page.
Number == IF page <= 0 THEN 1 ELSE page

\* Mutant of Offset: pages are counted from zero.
OffsetFromZero == Number * Size

Offset == (Number - 1) * Size

\* The articles with a row among those of the page.
PageItems ==
  {a \in listed : Above(a) < Offset + Size /\ Above(a) + width[a] > Offset}

TypeOK ==
  /\ listed \subseteq Articles /\ steady \subseteq listed /\ seen \subseteq Articles
  /\ width \in [Articles -> 1..MaxRows]
  /\ asked \in SizesAsked /\ page \in Nat /\ total \in Nat
  /\ at \in {"rows", "total", "done"} /\ short \in BOOLEAN /\ blind \in BOOLEAN
  /\ came \in 0..MaxMoves /\ gone \in 0..MaxMoves /\ goneRows \in Nat

Init ==
  /\ listed \in SUBSET Articles /\ steady = listed
  /\ width = [a \in Articles |-> 1]
  /\ asked \in SizesAsked /\ page \in {0, 1}
  /\ at = "rows" /\ short = FALSE /\ seen = {} /\ total = 0 /\ blind = FALSE
  /\ came = 0 /\ gone = 0 /\ goneRows = 0

-----------------------------------------------------------------------------
(* A page: the rows first, the count after they are read.                  *)

ListRows ==
  /\ at = "rows"
  /\ seen' = seen \cup PageItems
  /\ short' = (Rows(listed) < Offset + Size)
  /\ at' = "total"
  /\ UNCHANGED <<list, asked, page, total, blind>>

\* The client goes on until a page is not full.
NextPage ==
  /\ at' = IF short THEN "done" ELSE "rows"
  /\ page' = Number + 1
  /\ UNCHANGED <<list, asked, short, seen>>

\* Mutant of CountTotal: the count of the joined rows.
CountRows ==
  /\ at = "total"
  /\ total' = Rows(listed) /\ blind' = FALSE
  /\ NextPage

\* The count joins no table that multiplies rows.
CountTotal ==
  /\ at = "total"
  /\ total' = Cardinality(listed) /\ blind' = FALSE
  /\ NextPage

\* Its error is dropped.
CountError ==
  /\ at = "total"
  /\ total' = 0 /\ blind' = TRUE
  /\ NextPage

-----------------------------------------------------------------------------
(* The tables meanwhile.                                                   *)

\* An article is inserted, at any place of the order, or gets a status the
\* filter asks for.
Enter(a) ==
  /\ Moves < MaxMoves
  /\ a \in Articles \ listed
  /\ listed' = listed \cup {a}
  /\ came' = came + 1
  /\ UNCHANGED <<width, steady, gone, goneRows, walk>>

\* It no longer has it, or is outdated; a cluster leaves the 72 hours.
Leave(a) ==
  /\ Moves < MaxMoves
  /\ a \in listed
  /\ listed' = listed \ {a}
  /\ steady' = steady \ {a}
  /\ gone' = gone + 1
  /\ goneRows' = goneRows + width[a]
  /\ UNCHANGED <<width, came, walk>>

\* Mutant of Link: the same link is inserted again with each fetch.
LinkAgain(a) ==
  /\ Moves < MaxMoves
  /\ width' = [width EXCEPT ![a] = @ + 1]
  /\ UNCHANGED <<listed, steady, came, gone, goneRows, walk>>

\* InsertDuplicate links it to one more article; the first link makes no
\* further row.
Link(a) ==
  /\ Moves < MaxMoves /\ width[a] < MaxRows
  /\ width' = [width EXCEPT ![a] = @ + 1]
  /\ UNCHANGED <<listed, steady, came, gone, goneRows, walk>>

Next ==
  \/ ListRows \/ CountTotal \/ CountError
  \/ at # "done" /\ \E a \in Articles : Enter(a) \/ Leave(a) \/ Link(a)

Spec == Init /\ [][Next]_vars

-----------------------------------------------------------------------------
(* What a client can rely on.                                              *)

\* An article that was in the list all the time is missed only for a row that
\* left it during the walk: neither new articles, which push it down to a later
\* page, nor rows of the join hide one.
MissedBounded == at = "done" => Cardinality(steady \ seen) <= goneRows

\* The total of the last page is a count of articles, not of the rows they
\* take: it differs from what the client collected only by articles that moved.
TotalHonest ==
  at = "done" /\ ~blind =>
    /\ total >= Cardinality(seen) - gone
    /\ total <= Cardinality(seen) + goneRows + came
=============================================================================

---------------------------- MODULE MCClustering ----------------------------
(* Clustering of three reports of one event.                                *)
EXTENDS Clustering, TLC

CONSTANTS a1, a2, a3, p1, w1, w2, cut, fed, ACME, banks, title

NoBackoff == <<0>>

Report(key, lead, importance, novelty, news, fetched) ==
  [key |-> key, type |-> fed, lead |-> lead,
   tickers |-> IF lead = None THEN {} ELSE {lead}, sectors |-> {banks},
   title |-> title, importance |-> importance, novelty |-> novelty,
   news |-> news, fetched |-> fetched]

\* The report of an event, news about it, and a repetition without news.
OneEvent ==
  a1 :> Report(cut, ACME, 40, 60, TRUE, 1) @@ a2 :> Report(cut, ACME, 80, 50, TRUE, 2)
  @@ a3 :> Report(cut, None, 30, 10, FALSE, 3)

\* The workers of a process are alike.
AlikeWorkers == Permutations(Slots)
=============================================================================

------------------------------ MODULE MCIntake ------------------------------
(* Intake over small feeds.                                                 *)
EXTENDS Intake, TLC

CONSTANTS u1, u2, u3, u4, p1, p2, w1, h1, h2, wire, rates, menu, text, more

OneTick == <<1>>

Item(url, source, title, body, words, published) ==
  [url |-> url, source |-> source, title |-> title, body |-> body,
   words |-> words, published |-> published]

\* One text under three URLs; under a fourth the same text of an earlier date,
\* outdated, its update, later and longer, or a link of the menu without a body.
Feeds ==
  { Item(u1, wire, rates, text, 30, 3),
    Item(u2, wire, rates, text, 30, 3),
    Item(u3, wire, rates, text, 30, 3),
    Item(u4, wire, rates, text, 30, 1),
    Item(u4, wire, rates, more, 40, 4),
    Item(u4, wire, menu, None, 5, 4) }

\* Crawl goroutines are alike, and so are the URLs of the one text.
Alike == Permutations(Crawlers) \cup Permutations({u1, u2, u3})

\* An article, and its later and longer version under the same URL.
Revised ==
  { Item(u1, wire, rates, text, 30, 3),
    Item(u1, wire, rates, more, 40, 4) }
=============================================================================

-------------------------- MODULE SourceRunProofs --------------------------
(***************************************************************************)
(* Safety of a source run for any sources, listings, feeds and limits. The *)
(* argument is a balance: with each candidate the loop passes, exactly one *)
(* of the items and the counters of dropped candidates grows by one. What  *)
(* a reason says of the whole listing follows from the balance, since the  *)
(* loop can pass no more candidates than there are.                        *)
(***************************************************************************)
EXTENDS SourceRun, FiniteSetTheorems, TLAPS

\* How far the run is: nothing is read before the answer, nothing processed and
\* no reason given before the loop has ended.
Progress ==
  /\ pos <= Len(list) + 1
  /\ phase = "fetch" => pos = 1 /\ list = <<>> /\ items = <<>>
  /\ phase \in {"fetch", "entries"} => results = <<>> /\ run.reason = None
  /\ phase # "done" /\ run.reason # None => items = <<>>

UndatedUnwanted ==
  /\ source.configured /\ ~source.undated
  /\ \E k \in 1..Len(list) : list[k].date = None

Fresh(item) ==
  ~Old(item.date) \/ (source.type = "federal_register" /\ item.date = ZeroTime)

\* What items, counters and results say of the entries they come from.
Balance ==
  /\ EveryCandidateCounted /\ LimitsKept /\ stats["failed"] <= Len(items)
  /\ stats["undated"] > 0 => UndatedUnwanted
  /\ \A k \in 1..Len(items) : Fresh(items[k])

Processed ==
  /\ window >= Since
  /\ \A k \in 1..Len(results) :
       "outdated" \in results[k] => items[k].date # None /\ items[k].date < window

RunInv ==
  /\ TypeOK /\ Progress /\ Balance /\ Processed
  /\ run.reason # "content_fetch_failed" /\ ReasonSupported /\ ReasonIffNothing

LEMMA LimitsArePositive ==
  ASSUME source \in Sources
  PROVE  MaxItems \in Nat \ {0} /\ MaxFetches \in Nat \ {0}
BY SourceAssumption DEF MaxItems, MaxFetches, Settings

LEMMA InitEstablishes == Init => RunInv
<1> SUFFICES ASSUME Init PROVE RunInv
  OBVIOUS
<1>1. TypeOK
  <2>1. run \in [status : {"running", "success", "failed"}, reason : Reasons \cup {None}]
    BY DEF Init
  <2>2. /\ source \in Sources /\ phase \in {"fetch", "entries", "items", "done"}
        /\ matched \in Nat /\ pos \in Nat \ {0} /\ seen \in SUBSET (Urls \cup {None})
        /\ window \in Nat /\ lost \in SUBSET Companies
    BY SourceAssumption DEF Init
  <2>5. fetchErr \in BOOLEAN
    BY DEF Init
  <2>3. stats \in [Counters -> Nat]
    BY DEF Init
  <2>4. /\ list \in Seq(Entries) /\ items \in Seq(FetchedItems)
        /\ results \in Seq(SUBSET Flags) /\ Len(results) <= Len(items)
    BY DEF Init
  <2> QED BY <2>1, <2>2, <2>3, <2>4, <2>5 DEF TypeOK
<1>2. Progress /\ Processed /\ ReasonIffNothing
  BY SourceAssumption DEF Init, Progress, Processed, ReasonIffNothing
<1>3. Balance
  BY LimitsArePositive
  DEF Init, Balance, EveryCandidateCounted, LimitsKept, Dropped, Counters, Skips
<1>4. run.reason # "content_fetch_failed" /\ ReasonSupported
  BY SourceAssumption DEF Init, ReasonSupported, Reasons
<1> QED BY <1>1, <1>2, <1>3, <1>4 DEF RunInv

\* A step of the loop that keeps the balance: the entry at pos becomes an item
\* or one count of dropped candidates.
Balanced(st, returned) ==
  /\ st \in [Counters -> Nat]
  /\ \/ returned = items
     \/ \E i \in FetchedItems : Fresh(i) /\ returned = Append(items, i)
  /\ Html => /\ Len(returned) + Dropped(st) = Len(items) + Dropped(stats) + 1
             /\ Len(returned) <= MaxItems /\ st["attempted"] <= MaxFetches
  /\ st["failed"] <= Len(returned)
  /\ st["undated"] > 0 => UndatedUnwanted

LEMMA AdvanceKeeps ==
  ASSUME RunInv, InEntries, NEW st, NEW returned,
         Balanced(st, returned), Advance(st, returned)
  PROVE  RunInv'
<1> USE DEF RunInv
<1>1. /\ items' = returned /\ stats' = st /\ pos' = pos + 1
      /\ UNCHANGED <<source, matched, list, results, window, fetchErr, lost, phase, run>>
  BY DEF Advance, fetching
<1>2. returned \in Seq(FetchedItems) /\ Len(returned) >= Len(items)
  <2>1. items \in Seq(FetchedItems)
    BY DEF TypeOK
  <2>2. ASSUME NEW i \in FetchedItems, returned = Append(items, i)
        PROVE  returned \in Seq(FetchedItems) /\ Len(returned) >= Len(items)
    BY <2>1, <2>2
  <2> QED BY <2>1, <2>2 DEF Balanced
<1>3. results = <<>> /\ run.reason = None /\ phase = "entries"
  BY DEF InEntries, Progress
<1>4. Entry \in Entries
  BY DEF InEntries, TypeOK, Entry
<1>5. seen' \in SUBSET (Urls \cup {None})
  BY <1>4 DEF Advance, TypeOK, Entries
<1>6. TypeOK'
  BY <1>1, <1>2, <1>5 DEF TypeOK, Balanced
<1>7. Progress'
  BY <1>1, <1>3 DEF Progress, InEntries, TypeOK
<1>8. Balance'
  <2>1. (EveryCandidateCounted /\ LimitsKept)'
    BY <1>1, <1>2 DEF Balanced, Balance, EveryCandidateCounted, LimitsKept, Html,
       MaxItems, MaxFetches, TypeOK, Dropped, Counters, Skips
  <2>2. (stats["failed"] <= Len(items) /\ (stats["undated"] > 0 => UndatedUnwanted))'
    BY <1>1 DEF Balanced, UndatedUnwanted
  <2>3. \A k \in 1..Len(returned) : Fresh(returned[k])
    <3>1. CASE returned = items
      BY <3>1 DEF Balance
    <3>2. ASSUME NEW i \in FetchedItems, Fresh(i), returned = Append(items, i)
          PROVE  \A k \in 1..Len(returned) : Fresh(returned[k])
      BY <3>2 DEF Balance, TypeOK
    <3> QED BY <3>1, <3>2 DEF Balanced
  <2>4. (\A k \in 1..Len(items) : Fresh(items[k]))'
    BY <1>1, <2>3 DEF Fresh
  <2> QED BY <2>1, <2>2, <2>4 DEF Balance
<1>9. Processed'
  BY <1>1, <1>3 DEF Processed
<1>10. (run.reason # "content_fetch_failed" /\ ReasonSupported /\ ReasonIffNothing)'
  BY <1>1, <1>3, SourceAssumption DEF ReasonSupported, ReasonIffNothing, Reasons
<1> QED BY <1>6, <1>7, <1>8, <1>9, <1>10

\* If one of seven counts is as large as a bound on their sum, it is the sum.
LEMMA SumOfOne ==
  ASSUME NEW a \in Nat, NEW b \in Nat, NEW c \in Nat, NEW d \in Nat, NEW e \in Nat,
         NEW f \in Nat, NEW g \in Nat, NEW p \in Nat,
         p - 1 = a + b + c + d + e + f + g, p <= f + 1
  PROVE  p = f + 1 /\ a = 0 /\ b = 0 /\ c = 0 /\ d = 0 /\ e = 0 /\ g = 0
OBVIOUS

\* The same for the counters: with no more candidates than old ones, no other.
LEMMA OlderIsAll ==
  ASSUME NEW st \in [Counters -> Nat], NEW p \in Nat,
         p - 1 = Dropped(st), p <= st["older"] + 1
  PROVE  p = st["older"] + 1 /\ \A k \in Skips \ {"older"} : st[k] = 0
<1> DEFINE a == st["duplicate"]
             b == st["domain"]
             c == st["url"]
             d == st["title"]
             e == st["keyword"]
             f == st["older"]
             g == st["undated"]
<1>1. /\ a \in Nat /\ b \in Nat /\ c \in Nat /\ d \in Nat
      /\ e \in Nat /\ f \in Nat /\ g \in Nat
  BY DEF Counters, Skips
<1>2. p - 1 = a + b + c + d + e + f + g /\ p <= f + 1
  BY DEF Dropped
<1>3. ASSUME p = f + 1, a = 0, b = 0, c = 0, d = 0, e = 0, g = 0
      PROVE  p = st["older"] + 1 /\ \A k \in Skips \ {"older"} : st[k] = 0
  BY <1>3 DEF Skips
<1> HIDE DEF a, b, c, d, e, f, g
<1>4. p = f + 1 /\ a = 0 /\ b = 0 /\ c = 0 /\ d = 0 /\ e = 0 /\ g = 0
  BY <1>1, <1>2, SumOfOne
<1> QED BY <1>3, <1>4

\* What Plus does to each counter.
LEMMA PlusCounts ==
  ASSUME NEW st \in [Counters -> Nat], NEW k \in Counters
  PROVE  /\ Plus(st, k) \in [Counters -> Nat]
         /\ Plus(st, k)[k] = st[k] + 1
         /\ \A j \in Counters \ {k} : Plus(st, k)[j] = st[j]
BY DEF Plus

\* Counting a dropped candidate adds one to the sum, whatever the counter.
LEMMA PlusDropped ==
  ASSUME NEW st \in [Counters -> Nat], NEW k \in Skips
  PROVE  Dropped(Plus(st, k)) = Dropped(st) + 1 /\ Dropped(st) \in Nat
<1> DEFINE a == st["duplicate"]
             b == st["domain"]
             c == st["url"]
             d == st["title"]
             e == st["keyword"]
             f == st["older"]
             g == st["undated"]
<1> DEFINE One(j) == IF j = k THEN 1 ELSE 0
<1>1. /\ a \in Nat /\ b \in Nat /\ c \in Nat /\ d \in Nat
      /\ e \in Nat /\ f \in Nat /\ g \in Nat
  BY DEF Counters, Skips
<1>2. \A j \in Skips : Plus(st, k)[j] = st[j] + One(j)
  BY DEF Plus, Counters, Skips
<1>3. Dropped(Plus(st, k)) =
        (a + One("duplicate")) + (b + One("domain")) + (c + One("url"))
        + (d + One("title")) + (e + One("keyword")) + (f + One("older"))
        + (g + One("undated"))
  BY <1>2 DEF Dropped, Skips
<1>4. Dropped(st) = a + b + c + d + e + f + g
  BY DEF Dropped
<1> HIDE DEF a, b, c, d, e, f, g
<1> QED BY <1>1, <1>3, <1>4 DEF Skips

\* The loop ends, with nothing counted but that a limit was reached.
LEMMA CloseKeeps ==
  ASSUME RunInv, phase = "entries", NEW st \in [Counters -> Nat], Close(st),
         \A k \in Skips \cup {"attempted", "failed"} : st[k] = stats[k]
  PROVE  RunInv'
<1> USE DEF RunInv
<1>1. /\ stats' = st /\ phase' = "items"
      /\ UNCHANGED <<source, matched, list, results, window, fetchErr, lost, pos, seen, items>>
  BY DEF Close, fetching
<1>2. results = <<>> /\ run.reason = None
  BY DEF Progress
<1>3. /\ run' = [run EXCEPT !.reason = run'.reason] /\ run'.status = run.status
      /\ run'.reason = IF Html /\ items = <<>> THEN NoFreshReason(st) ELSE None
  BY DEF Close, TypeOK
<1>4. NoFreshReason(st) \in Reasons
  BY DEF NoFreshReason, Reasons
<1>5. TypeOK'
  BY <1>1, <1>3, <1>4 DEF TypeOK
<1>6. Progress'
  BY <1>1, <1>2, <1>3, SourceAssumption DEF Progress
<1>7. Balance' /\ Processed' /\ ReasonIffNothing'
  BY <1>1, <1>2 DEF Balance, EveryCandidateCounted, LimitsKept, Html, MaxItems,
     MaxFetches, Dropped, Skips, UndatedUnwanted, Fresh, Processed, ReasonIffNothing
<1>8. CASE ~(Html /\ items = <<>>)
  BY <1>3, <1>5, <1>6, <1>7, <1>8, SourceAssumption DEF ReasonSupported, Reasons
<1>9. CASE Html /\ items = <<>>
  <2>1. st["failed"] = 0
    BY <1>9 DEF Balance, TypeOK, Counters
  <2>2. run'.reason # "content_fetch_failed"
    BY <1>3, <1>9, <2>1 DEF NoFreshReason
  <2>3. ASSUME run'.reason = "all_matching_items_older_than_72h"
        PROVE  pos = Len(list) + 1 /\ \A k \in Skips \ {"older"} : st[k] = 0
    <3>1. Len(list) = st["older"]
      BY <1>3, <1>9, <2>3 DEF NoFreshReason
    <3>2. Dropped(st) = Dropped(stats)
      BY DEF Dropped, Skips
    <3>3. pos - 1 = Len(items) + Dropped(stats) /\ pos <= Len(list) + 1 /\ Len(items) = 0
      BY <1>9 DEF Balance, EveryCandidateCounted, Progress
    <3>4. pos \in Nat /\ Dropped(stats) \in Nat
      BY PlusDropped DEF TypeOK, Skips
    <3>5. pos - 1 = Dropped(st)
      BY <3>2, <3>3, <3>4
    <3> QED BY <3>1, <3>3, <3>4, <3>5, OlderIsAll
  <2>4. ASSUME run'.reason = "matching_items_missing_dates"
        PROVE  UndatedUnwanted
    BY <1>3, <1>9, <2>4 DEF NoFreshReason, Balance, Skips
  <2>5. ReasonSupported'
    BY <1>1, <1>9, <2>3, <2>4 DEF ReasonSupported, UndatedUnwanted
  <2> QED BY <1>5, <1>6, <1>7, <2>2, <2>5
<1> QED BY <1>8, <1>9

\* One candidate or entry, whichever way it goes.
LEMMA EntryKeeps ==
  ASSUME RunInv,
         \/ Skip \/ KeepListed \/ PageFails \/ PageAnswers
         \/ RssEntry \/ DocumentEntry \/ FilingEntry
  PROVE  RunInv'
<1> USE DEF RunInv
<1> DEFINE Listed == Item(Entry.url, Entry.date)
<1>1. /\ Entry \in Entries /\ pos \in 1..Len(list) /\ InEntries
      /\ Listed \in FetchedItems
  <2>1. InEntries
    BY DEF Skip, KeepListed, PageFails, PageAnswers, RssEntry, DocumentEntry, FilingEntry,
           Feeding, Fetchable, Kept, Candidate
  <2>2. pos \in 1..Len(list) /\ Entry \in Entries
    BY <2>1 DEF InEntries, TypeOK, Entry
  <2> QED BY <2>1, <2>2 DEF Item, FetchedItems, Entries
<1>2. /\ stats \in [Counters -> Nat] /\ items \in Seq(FetchedItems)
      /\ Len(items) \in Nat /\ Dropped(stats) \in Nat
      /\ \A k \in Counters : stats[k] \in Nat
      /\ Html => stats["attempted"] <= MaxFetches
      /\ stats["failed"] <= Len(items)
      /\ stats["undated"] > 0 => UndatedUnwanted
  <2>1. stats \in [Counters -> Nat] /\ items \in Seq(FetchedItems)
    BY DEF TypeOK
  <2>2. Dropped(stats) \in Nat
    BY <2>1, PlusDropped DEF Skips
  <2> QED BY <2>1, <2>2 DEF Balance, LimitsKept
<1>3. ASSUME Kept PROVE Fresh(Listed) /\ Html /\ Len(items) < MaxItems
  BY <1>3, <1>1 DEF Kept, Verdict, Fresh, Item, Candidate
<1>4. ASSUME NEW k \in Counters
      PROVE  /\ Plus(stats, k) \in [Counters -> Nat]
             /\ Plus(stats, k)[k] = stats[k] + 1
             /\ \A j \in Counters \ {k} : Plus(stats, k)[j] = stats[j]
  BY <1>2, PlusCounts
<1>5. CASE Skip
  <2> DEFINE v  == Verdict(Entry)
             st == Plus(stats, v)
  <2>1. v \in Skips /\ v \in Counters /\ Html /\ Len(items) < MaxItems
    BY <1>5 DEF Skip, Candidate, Counters
  <2>2. st \in [Counters -> Nat] /\ Dropped(st) = Dropped(stats) + 1
    BY <2>1, <1>4, <1>2, PlusDropped
  <2>3. /\ st["attempted"] = stats["attempted"] /\ st["failed"] = stats["failed"]
        /\ v # "undated" => st["undated"] = stats["undated"]
    BY <2>1, <1>4 DEF Skips, Counters
  <2>4. v = "undated" => UndatedUnwanted
    BY <1>1 DEF Verdict, UndatedUnwanted, Entry
  <2>5. MaxItems \in Nat /\ Len(items) <= MaxItems
    BY <1>2, <2>1, LimitsArePositive DEF TypeOK
  <2>6. Len(items) + Dropped(st) = Len(items) + Dropped(stats) + 1
    BY <1>2, <2>2
  <2>7. Balanced(st, items)
    BY <1>2, <2>1, <2>2, <2>3, <2>4, <2>5, <2>6 DEF Balanced
  <2> QED BY <1>1, <1>5, <2>7, AdvanceKeeps DEF Skip
<1>6. ASSUME NEW st \in [Counters -> Nat], NEW i \in FetchedItems, Fresh(i),
             Html => /\ Dropped(st) = Dropped(stats) /\ Len(items) < MaxItems
                     /\ st["attempted"] <= MaxFetches,
             st["failed"] <= Len(items) + 1, st["undated"] = stats["undated"]
      PROVE  Balanced(st, Append(items, i))
  <2>1. Len(Append(items, i)) = Len(items) + 1
    BY <1>2
  <2>2. MaxItems \in Nat
    BY LimitsArePositive DEF TypeOK
  <2>3. Html => /\ Len(Append(items, i)) + Dropped(st) = Len(items) + Dropped(stats) + 1
                /\ Len(Append(items, i)) <= MaxItems
    <3>1. Dropped(stats) \in Int /\ Len(items) \in Int
      BY <1>2 DEF Dropped, Counters, Skips
    <3>2. CASE Html
      <4>1. Dropped(st) = Dropped(stats) /\ Len(items) < MaxItems
        BY <1>6, <3>2
      <4> QED BY <2>1, <2>2, <3>1, <4>1
    <3> QED BY <3>2
  <2> QED BY <1>2, <1>6, <2>1, <2>3 DEF Balanced
<1>7. ASSUME NEW st \in [Counters -> Nat], \A k \in Skips : st[k] = stats[k]
      PROVE  Dropped(st) = Dropped(stats) /\ st["undated"] = stats["undated"]
  BY <1>7 DEF Dropped, Skips
<1>8. CASE KeepListed
  <2>0. stats["failed"] <= Len(items) + 1
    BY <1>2 DEF Counters
  <2>1. Balanced(stats, Append(items, Listed))
    BY <1>1, <1>2, <1>3, <1>6, <1>8, <2>0 DEF KeepListed
  <2> QED BY <1>1, <1>8, <2>1, AdvanceKeeps DEF KeepListed
<1>9. ASSUME Fetchable
      PROVE  LET st == Plus(stats, "attempted") IN
             /\ st \in [Counters -> Nat] /\ \A k \in Skips : st[k] = stats[k]
             /\ st["attempted"] <= MaxFetches /\ st["failed"] = stats["failed"]
  <2>1. stats["attempted"] < MaxFetches /\ stats["attempted"] \in Nat /\ MaxFetches \in Nat
    BY <1>2, <1>9, LimitsArePositive DEF Fetchable, Counters, TypeOK
  <2>2. /\ "attempted" \in Counters /\ "failed" \in Counters \ {"attempted"}
        /\ Skips \subseteq Counters \ {"attempted"}
    BY DEF Skips, Counters
  <2>3. /\ Plus(stats, "attempted") \in [Counters -> Nat]
        /\ Plus(stats, "attempted")["attempted"] = stats["attempted"] + 1
        /\ \A j \in Counters \ {"attempted"} : Plus(stats, "attempted")[j] = stats[j]
    BY <2>2, <1>4
  <2> QED BY <2>1, <2>2, <2>3
<1>10. CASE PageFails
  <2> DEFINE one == Plus(stats, "attempted")
             st  == Plus(one, "failed")
  <2>1. Fetchable /\ Kept
    BY <1>10 DEF PageFails, Fetchable
  <2>2. /\ st \in [Counters -> Nat] /\ \A k \in Skips : st[k] = stats[k]
        /\ st["attempted"] <= MaxFetches /\ st["failed"] = stats["failed"] + 1
    BY <1>9, <2>1 DEF Plus, Counters, Skips
  <2>3. st["failed"] <= Len(items) + 1
    BY <1>2, <2>2 DEF Counters
  <2>4. Balanced(st, Append(items, Listed))
    BY <1>1, <1>3, <1>6, <1>7, <2>1, <2>2, <2>3
  <2> QED BY <1>1, <1>10, <2>4, AdvanceKeeps DEF PageFails
<1>11. CASE PageAnswers
  <2> DEFINE one == Plus(stats, "attempted")
             st  == Plus(one, "older")
  <2>1. Fetchable /\ Kept
    BY <1>11 DEF PageAnswers, Fetchable
  <2>2. /\ one \in [Counters -> Nat] /\ \A k \in Skips : one[k] = stats[k]
        /\ one["attempted"] <= MaxFetches /\ one["failed"] = stats["failed"]
    BY <1>9, <2>1
  <2>3. PICK page \in LinkedPages :
          LET item == Merged(Content(page))
          IN IF Old(item.date) THEN Advance(st, items)
                               ELSE Advance(one, Append(items, item))
    BY <1>11 DEF PageAnswers
  <2> DEFINE item == Merged(Content(page))
  <2>4. item \in FetchedItems
    <3>1. Content(page) \in [url : Urls \cup {None}, date : Dates \cup {None}]
      BY SourceAssumption DEF Content, Extracted
    <3> HIDE DEF item
    <3> QED BY <1>1, <3>1 DEF item, Merged, Item, FetchedItems, Entries
  <2>5. CASE Old(item.date)
    <3>1. /\ st \in [Counters -> Nat] /\ Dropped(st) = Dropped(one) + 1
          /\ st["attempted"] = one["attempted"] /\ st["failed"] = one["failed"]
          /\ st["undated"] = one["undated"]
      <4>1. /\ "older" \in Skips /\ "older" \in Counters
            /\ {"attempted", "failed", "undated"} \subseteq Counters \ {"older"}
        BY DEF Skips, Counters
      <4> QED BY <2>2, <4>1, PlusDropped, PlusCounts
    <3>2. Dropped(one) = Dropped(stats) /\ one["undated"] = stats["undated"]
      BY <1>7, <2>2
    <3>3. MaxItems \in Nat /\ Len(items) <= MaxItems
      BY <1>2, <1>3, <2>1, LimitsArePositive DEF TypeOK
    <3>4. Len(items) + Dropped(st) = Len(items) + Dropped(stats) + 1
      BY <1>2, <3>1, <3>2
    <3>5. st["attempted"] <= MaxFetches /\ st["failed"] <= Len(items)
      BY <1>2, <2>2, <3>1
    <3>6. st["undated"] > 0 => UndatedUnwanted
      BY <1>2, <3>1, <3>2
    <3>7. Balanced(st, items)
      BY <3>1, <3>3, <3>4, <3>5, <3>6 DEF Balanced
    <3> QED BY <1>1, <2>3, <2>5, <3>7, AdvanceKeeps
  <2>6. CASE ~Old(item.date)
    <3>1. Dropped(one) = Dropped(stats) /\ one["undated"] = stats["undated"]
      BY <1>7, <2>2
    <3>2. one["failed"] <= Len(items) + 1
      BY <1>2, <2>2 DEF Counters
    <3>3. Fresh(item) /\ Len(items) < MaxItems
      BY <1>3, <2>1, <2>6 DEF Fresh
    <3>4. Balanced(one, Append(items, item))
      BY <1>6, <2>2, <2>4, <3>1, <3>2, <3>3
    <3> QED BY <1>1, <2>3, <2>6, <3>4, AdvanceKeeps
  <2> QED BY <2>5, <2>6
<1>12. CASE RssEntry \/ DocumentEntry \/ FilingEntry
  <2>1. PICK kept \in BOOLEAN, date \in Dates \cup {None, ZeroTime} :
          /\ ~Html
          /\ kept => Fresh(Item(Entry.url, date))
          /\ Advance(stats, IF kept THEN Append(items, Item(Entry.url, date)) ELSE items)
    <3>1. CASE RssEntry
      BY <1>1, <3>1 DEF RssEntry, Feeding, Fresh, Old, Item, Html, Entries
    <3>2. CASE DocumentEntry
      BY <1>1, <3>2 DEF DocumentEntry, Feeding, Fresh, Old, Item, Html, Entries
    <3>3. CASE FilingEntry
      BY <1>1, <3>3 DEF FilingEntry, Feeding, Fresh, Old, Item, Html, Entries
    <3> QED BY <1>12, <3>1, <3>2, <3>3
  <2> DEFINE item == Item(Entry.url, date)
  <2>2. item \in FetchedItems
    BY <1>1 DEF Item, FetchedItems, Entries
  <2>3. stats["failed"] <= Len(items) + 1
    BY <1>2 DEF Counters
  <2>4. Balanced(stats, items)
    BY <1>2, <2>1 DEF Balanced
  <2>5. kept => Balanced(stats, Append(items, item))
    BY <1>2, <1>6, <2>1, <2>2, <2>3
  <2> QED BY <1>1, <2>1, <2>4, <2>5, AdvanceKeeps
<1> QED BY <1>5, <1>8, <1>10, <1>11, <1>12

LEMMA FetchKeeps ==
  ASSUME RunInv,
         \/ FetchFails \/ ListingAnswers \/ FeedAnswers \/ DocumentsAnswer
         \/ FilingsAnswer
  PROVE  RunInv'
<1> USE DEF RunInv
<1>1. /\ phase = "fetch" /\ phase' \in {"entries", "items"}
      /\ UNCHANGED <<source, pos, seen, stats, items, results, window, run>>
  BY DEF FetchFails, ListingAnswers, FeedAnswers, DocumentsAnswer, FeedArrives,
         FilingsAnswer
<1>2. /\ pos = 1 /\ list = <<>> /\ items = <<>> /\ results = <<>> /\ run.reason = None
  BY <1>1 DEF Progress
<1>3. list' \in Seq(Entries) /\ matched' \in Nat
  <2>1. CASE FetchFails
    BY <2>1 DEF FetchFails, TypeOK
  <2>2. CASE ListingAnswers
    BY <2>2, SourceAssumption DEF ListingAnswers, IsListing
  <2>3. CASE FeedAnswers \/ DocumentsAnswer
    BY <2>3, SourceAssumption DEF FeedAnswers, DocumentsAnswer, FeedArrives, TypeOK
  <2>4. CASE FilingsAnswer
    BY <2>4, SourceAssumption DEF FilingsAnswer, TypeOK
  <2> QED BY <2>1, <2>2, <2>3, <2>4
<1>4. fetchErr' \in BOOLEAN /\ lost' \in SUBSET Companies
  BY DEF FetchFails, ListingAnswers, FeedAnswers, DocumentsAnswer, FeedArrives,
         FilingsAnswer, TypeOK
<1>5. TypeOK'
  BY <1>1, <1>3, <1>4 DEF TypeOK
<1>6. Progress'
  BY <1>1, <1>2, <1>3 DEF Progress
<1>7. stats["undated"] = 0
  <2>1. \A k \in 1..Len(list) : FALSE
    BY <1>2
  <2> QED BY <2>1 DEF Balance, UndatedUnwanted, TypeOK, Counters, Skips
<1>8. Balance' /\ Processed' /\ ReasonIffNothing'
  BY <1>1, <1>2, <1>7 DEF Balance, EveryCandidateCounted, LimitsKept, Html, MaxItems,
     MaxFetches, Fresh, Processed, ReasonIffNothing
<1>9. (run.reason # "content_fetch_failed" /\ ReasonSupported)'
  BY <1>1, <1>2, SourceAssumption DEF ReasonSupported, Reasons
<1> QED BY <1>5, <1>6, <1>8, <1>9

\* The date of an item is a time, if it has one.
LEMMA DatesAreNat ==
  ASSUME TypeOK, NEW k \in 1..Len(items), items[k].date # None
  PROVE  items[k].date \in Nat
<1>1. items[k] \in FetchedItems
  BY DEF TypeOK
<1>2. items[k].date \in Dates \cup {None, 0}
  BY <1>1 DEF FetchedItems, ZeroTime
<1>3. Dates \cup {0} \subseteq Nat
  BY SourceAssumption
<1> QED BY <1>2, <1>3, Zenon

\* The flags that processItem can set, and what "outdated" takes.
LEMMA ReturnedFlags ==
  ASSUME NEW i, NEW w, NEW r \in Returns(i, w)
  PROVE  r \in SUBSET Flags /\ ("outdated" \in r => i.date # None /\ i.date < w)
<1>1. r = {} \/ r \ {"raw"} = {"rejected"} \/ r = {"raw"} => "outdated" \notin r
  OBVIOUS
<1> QED BY <1>1 DEF Returns

LEMMA ProcessKeeps ==
  ASSUME RunInv, ProcessItem
  PROVE  RunInv'
<1> USE DEF RunInv
<1> DEFINE i == items[Len(results) + 1]
<1>0. PICK w \in window..LastWindow :
        window' = w /\ \E r \in Returns(i, w) : results' = Append(results, r)
  BY DEF ProcessItem
<1>1. PICK r \in Returns(i, w) : window' = w /\ results' = Append(results, r)
  BY <1>0
<1>2. /\ UNCHANGED <<source, phase, matched, list, pos, seen, stats, items, fetchErr,
                      lost, run>>
      /\ phase = "items" /\ Len(results) < Len(items)
  BY DEF ProcessItem
<1>3. r \in SUBSET Flags /\ ("outdated" \in r => i.date # None /\ i.date < w)
  BY ReturnedFlags
<1>4. i \in FetchedItems /\ window \in Nat /\ w \in Nat /\ w >= window
  BY <1>2, SourceAssumption DEF TypeOK
<1>5. /\ Len(results') = Len(results) + 1 /\ results'[Len(results) + 1] = r
      /\ \A k \in 1..Len(results) : results'[k] = results[k]
      /\ results' \in Seq(SUBSET Flags)
  BY <1>1, <1>3 DEF TypeOK
<1>6. TypeOK'
  BY <1>1, <1>2, <1>4, <1>5 DEF TypeOK
<1>7. Processed'
  <2>1. ASSUME NEW k \in 1..Len(results'), "outdated" \in results'[k]
        PROVE  items[k].date # None /\ items[k].date < w
    <3>1. CASE k = Len(results) + 1
      BY <1>3, <1>5, <2>1, <3>1
    <3>2. CASE k # Len(results) + 1
      <4>1. k \in 1..Len(results) /\ k \in 1..Len(items)
        BY <1>2, <1>5, <3>2 DEF TypeOK
      <4>2. items[k].date # None /\ items[k].date < window
        BY <1>5, <2>1, <4>1 DEF Processed
      <4>3. items[k].date \in Nat
        BY <4>1, <4>2, DatesAreNat
      <4> QED BY <1>4, <4>2, <4>3
    <3> QED BY <3>1, <3>2
  <2>2. w >= Since
    BY <1>4, SourceAssumption DEF Processed
  <2> QED BY <1>1, <1>2, <2>1, <2>2 DEF Processed
<1>8. Progress' /\ Balance'
  BY <1>2 DEF Progress, Balance, EveryCandidateCounted, LimitsKept, Html, MaxItems,
     MaxFetches, Fresh, UndatedUnwanted
<1>9. (run.reason # "content_fetch_failed" /\ ReasonSupported /\ ReasonIffNothing)'
  BY <1>2 DEF ReasonSupported, ReasonIffNothing
<1> QED BY <1>6, <1>7, <1>8, <1>9

\* The end of the run: a reason is there exactly when no article is.
LEMMA FinishKeeps ==
  ASSUME RunInv, FinishSourceRun
  PROVE  RunInv'
<1> USE DEF RunInv
<1>1. /\ UNCHANGED <<source, matched, list, results, window, fetchErr, lost, pos, seen,
                      stats, items>>
      /\ phase' = "done" /\ phase = "items"
  BY DEF FinishSourceRun, fetching
<1>2. /\ run'.status \in {"success", "failed"}
      /\ run'.reason = IF Count("article") = 0 /\ run.reason = None
                       THEN NoArticleReason ELSE run.reason
      /\ run' = [status |-> run'.status, reason |-> run'.reason]
  BY DEF FinishSourceRun
<1>3. /\ NoArticleReason \in Reasons
      /\ NoArticleReason \notin {"content_fetch_failed", "matching_items_missing_dates",
                                 "all_matching_items_older_than_72h"}
  BY DEF NoArticleReason, Reasons
<1>4. run.reason \in Reasons \cup {None}
  BY DEF TypeOK
<1>5. TypeOK'
  <2>1. run'.reason \in Reasons \cup {None}
    BY <1>2, <1>3, <1>4
  <2>2. run' \in [status : {"running", "success", "failed"}, reason : Reasons \cup {None}]
    BY <1>2, <2>1
  <2> QED BY <1>1, <2>2 DEF TypeOK
<1>6. Progress' /\ Balance' /\ Processed'
  BY <1>1 DEF Progress, Balance, EveryCandidateCounted, LimitsKept, Html, MaxItems,
     MaxFetches, Fresh, UndatedUnwanted, Processed
<1>7. (run.reason # "content_fetch_failed" /\ ReasonSupported)'
  BY <1>1, <1>2, <1>3 DEF ReasonSupported
<1>8. ReasonIffNothing'
  <2>1. run.reason # None => Count("article") = 0
    <3>1. ASSUME run.reason # None PROVE Count("article") = 0
      <4>1. items = <<>> /\ Len(results) = 0
        BY <1>1, <3>1 DEF Progress, TypeOK, FinishSourceRun
      <4>2. {k \in 1..Len(results) : "article" \in results[k]} = {}
        BY <4>1
      <4> QED BY <4>2, FS_EmptySet DEF Count
    <3> QED BY <3>1
  <2>2. Count("article")' = Count("article")
    BY <1>1 DEF Count
  <2> QED BY <1>2, <1>3, <2>1, <2>2, SourceAssumption DEF ReasonIffNothing
<1> QED BY <1>5, <1>6, <1>7, <1>8

LEMMA NextKeeps == RunInv /\ [Next]_sourceVars => RunInv'
<1> SUFFICES ASSUME RunInv, [Next]_sourceVars PROVE RunInv'
  OBVIOUS
<1>1. CASE FetchFails \/ ListingAnswers \/ FeedAnswers \/ DocumentsAnswer \/ FilingsAnswer
  BY <1>1, FetchKeeps
<1>2. CASE \/ Skip \/ KeepListed \/ PageFails \/ PageAnswers
           \/ RssEntry \/ DocumentEntry \/ FilingEntry
  BY <1>2, EntryKeeps
<1>3. ASSUME NEW k \in {"full", "cut"}
      PROVE  /\ Plus(stats, k) \in [Counters -> Nat]
             /\ \A j \in Skips \cup {"attempted", "failed"} : Plus(stats, k)[j] = stats[j]
  BY DEF RunInv, TypeOK, Plus, Counters, Skips
<1>4. CASE LimitItems
  BY <1>3, <1>4, CloseKeeps DEF LimitItems, InEntries
<1>5. CASE LimitFetches
  BY <1>3, <1>5, CloseKeeps DEF LimitFetches, Kept, Candidate, InEntries
<1>6. CASE EndOfEntries
  BY <1>6, CloseKeeps DEF EndOfEntries, RunInv, TypeOK
<1>7. CASE ProcessItem
  BY <1>7, ProcessKeeps
<1>8. CASE FinishSourceRun
  BY <1>8, FinishKeeps
<1>9. CASE UNCHANGED sourceVars
  BY <1>9 DEF sourceVars, RunInv, TypeOK, Progress, Balance, Processed, ReasonSupported,
     ReasonIffNothing, Count, EveryCandidateCounted, LimitsKept, Html, MaxItems, MaxFetches,
     Fresh, UndatedUnwanted
<1> QED BY <1>1, <1>2, <1>4, <1>5, <1>6, <1>7, <1>8, <1>9 DEF Next

\* The invariant holds throughout every run of crawlSource.
THEOREM RunInvHolds == SourceSpec => []RunInv
BY InitEstablishes, NextKeeps, PTL DEF SourceSpec

\* Type correctness of a source run.
THEOREM TypesHold == SourceSpec => []TypeOK
<1>1. RunInv => TypeOK
  BY DEF RunInv
<1> QED BY <1>1, RunInvHolds, PTL

\* The HTML adapter counts every candidate exactly once, on listings of any
\* length and under any settings.
THEOREM EveryCandidateCountedHolds == SourceSpec => []EveryCandidateCounted
<1>1. RunInv => EveryCandidateCounted
  BY DEF RunInv, Balance
<1> QED BY <1>1, RunInvHolds, PTL

\* It stays within its limits on items and page fetches, set or not.
THEOREM LimitsHold == SourceSpec => []LimitsKept
<1>1. RunInv => LimitsKept
  BY DEF RunInv, Balance
<1> QED BY <1>1, RunInvHolds, PTL

\* A page that cannot be read never costs an item, and is never the reason of
\* an empty run.
THEOREM PageFailureKeepsItemHolds == SourceSpec => []PageFailureKeepsItem
<1>1. RunInv => PageFailureKeepsItem
  BY DEF RunInv, Balance, PageFailureKeepsItem
<1> QED BY <1>1, RunInvHolds, PTL

\* The reasons that speak of the whole listing are true of it.
THEOREM ReasonSupportedHolds == SourceSpec => []ReasonSupported
<1>1. RunInv => ReasonSupported
  BY DEF RunInv
<1> QED BY <1>1, RunInvHolds, PTL

\* A closed run has a reason exactly when it brought no article.
THEOREM ReasonIffNothingHolds == SourceSpec => []ReasonIffNothing
<1>1. RunInv => ReasonIffNothing
  BY DEF RunInv
<1> QED BY <1>1, RunInvHolds, PTL

\* An item is outdated on arrival only if the window moved on in the meantime.
THEOREM OutdatedByTimeOnlyHolds == SourceSpec => []OutdatedByTimeOnly
<1>1. ASSUME RunInv PROVE OutdatedByTimeOnly
  <2>1. SUFFICES ASSUME NEW k \in 1..Len(results), "outdated" \in results[k]
                 PROVE  \/ window > Since
                        \/ source.type = "federal_register" /\ items[k].date = ZeroTime
    BY DEF OutdatedByTimeOnly
  <2>2. k \in 1..Len(items) /\ window \in Nat
    BY <1>1 DEF RunInv, TypeOK
  <2>3. items[k].date # None /\ items[k].date < window
    BY <1>1, <2>1 DEF RunInv, Processed
  <2>4. items[k].date \in Nat
    BY <1>1, <2>2, <2>3, DatesAreNat DEF RunInv
  <2>5. Fresh(items[k])
    BY <1>1, <2>2 DEF RunInv, Balance
  <2> QED BY <2>2, <2>3, <2>4, <2>5, SourceAssumption DEF Fresh, Old
<1>2. RunInv => OutdatedByTimeOnly
  BY <1>1
<1> QED BY <1>2, RunInvHolds, PTL
-----------------------------------------------------------------------------
(* A run ends. As for the other components, what liveness rests on.         *)

\* Entries to pass, each of which can leave an item, items to process, the two ends.
RunLeft ==
  (IF phase = "entries" THEN 2 * (Len(list) + 1 - pos) + 1 ELSE 0)
  + (IF phase \in {"entries", "items"} THEN Len(items) - Len(results) + 1 ELSE 0)

\* The guards of the steps: an entry's in the order of Next, then an item's.
EntryMoves ==
  \/ Html /\ Len(items) >= MaxItems
  \/ Candidate /\ Verdict(Entry) \in Skips
  \/ Kept /\ source.full /\ stats["attempted"] >= MaxFetches
  \/ Kept /\ ~source.full
  \/ Fetchable
  \/ source.type \in {"rss", "federal_register", "sec_edgar"}
RunMoves ==
  \/ phase = "fetch"
  \/ phase = "entries" /\ (pos > Len(list) \/ EntryMoves)
  \/ phase = "items" /\ (Len(results) = Len(items) \/ window <= LastWindow)

RunGoesOn == phase # "done" => RunMoves

\* Once the listing is there, every step leaves less to do, and no more than two
\* steps for each of its entries and two ends.
RunCountsDown == [][phase # "fetch" => RunLeft' < RunLeft]_sourceVars
RunIsShort    == phase \in {"entries", "items"} => RunLeft \in 1..(2 * Len(list) + 2)

LEMMA RunLeftIsCount ==
  ASSUME RunInv
  PROVE  /\ RunLeft \in Nat
         /\ phase = "entries" => RunLeft = 2 * (Len(list) + 1 - pos) + Len(items) + 2
         /\ phase = "items" => RunLeft = Len(items) - Len(results) + 1
         /\ phase \in {"entries", "items"} => RunLeft >= 1
         /\ Len(items) \in Nat /\ Len(results) \in Nat /\ Len(list) \in Nat /\ pos \in Nat
         /\ pos <= Len(list) + 1 /\ Len(results) <= Len(items)
<1>1. /\ Len(items) \in Nat /\ Len(results) \in Nat /\ Len(list) \in Nat /\ pos \in Nat
      /\ pos <= Len(list) + 1 /\ Len(results) <= Len(items)
      /\ phase = "entries" => Len(results) = 0
  BY DEF RunInv, TypeOK, Progress
<1>2. CASE phase = "entries"
  <2>1. RunLeft = 2 * (Len(list) + 1 - pos) + Len(items) + 2
    BY <1>1, <1>2 DEF RunLeft
  <2> QED BY <1>1, <1>2, <2>1
<1>3. CASE phase = "items"
  BY <1>1, <1>3 DEF RunLeft
<1>4. CASE phase \notin {"entries", "items"}
  BY <1>1, <1>4 DEF RunLeft
<1> QED BY <1>2, <1>3, <1>4

\* The entry at pos is passed and leaves at most one item.
LEMMA EntryCounts ==
  ASSUME RunInv, RunInv', InEntries, NEW st, NEW returned, Advance(st, returned),
         returned = items \/ \E i : returned = Append(items, i)
  PROVE  RunLeft' < RunLeft
<1>1. /\ phase = "entries" /\ pos <= Len(list) /\ pos' = pos + 1 /\ items' = returned
      /\ UNCHANGED <<phase, list, results>>
  BY DEF Advance, InEntries, fetching
<1>2. /\ Len(items) \in Nat /\ Len(results) = 0 /\ Len(list) \in Nat /\ pos \in Nat
      /\ items \in Seq(FetchedItems)
  BY <1>1 DEF RunInv, TypeOK, Progress
<1>3. Len(returned) \in {Len(items), Len(items) + 1}
  BY <1>2
<1> QED BY <1>1, <1>2, <1>3 DEF RunLeft

LEMMA RunLeftStep ==
  ASSUME RunInv, RunInv', [Next]_sourceVars
  PROVE  [phase # "fetch" => RunLeft' < RunLeft]_sourceVars
<1> SUFFICES ASSUME Next, phase # "fetch", sourceVars' # sourceVars PROVE RunLeft' < RunLeft
  OBVIOUS
<1>1. CASE \/ Skip \/ KeepListed \/ PageFails \/ PageAnswers
           \/ RssEntry \/ DocumentEntry \/ FilingEntry
  <2>1. InEntries
    BY <1>1 DEF Skip, KeepListed, PageFails, PageAnswers, RssEntry, DocumentEntry, FilingEntry,
       Feeding, Fetchable, Kept, Candidate
  <2>2. \E st, returned : /\ Advance(st, returned)
                          /\ returned = items \/ \E i : returned = Append(items, i)
    BY <1>1 DEF Skip, KeepListed, PageFails, PageAnswers, RssEntry, DocumentEntry, FilingEntry,
       Feeding
  <2> QED BY <2>1, <2>2, EntryCounts
<1>2. CASE LimitItems \/ LimitFetches \/ EndOfEntries
  <2>1. phase = "entries" /\ phase' = "items" /\ UNCHANGED <<items, list, results>>
    BY <1>2 DEF LimitItems, LimitFetches, EndOfEntries, Kept, Candidate, InEntries, Close, fetching
  <2> QED BY <2>1, RunLeftIsCount DEF RunLeft
<1>3. CASE ProcessItem
  <2>1. /\ phase = "items" /\ UNCHANGED <<phase, items>> /\ results \in Seq(SUBSET Flags)
        /\ \E r : results' = Append(results, r)
    BY <1>3 DEF ProcessItem, RunInv, TypeOK
  <2>2. Len(results') = Len(results) + 1
    BY <2>1
  <2> QED BY <2>1, <2>2, RunLeftIsCount DEF RunLeft
<1>4. CASE FinishSourceRun
  <2>1. phase = "items" /\ phase' = "done"
    BY <1>4 DEF FinishSourceRun
  <2> QED BY <2>1, RunLeftIsCount DEF RunLeft
<1>5. ~(FetchFails \/ ListingAnswers \/ FeedAnswers \/ DocumentsAnswer \/ FilingsAnswer)
  BY DEF FetchFails, ListingAnswers, FeedAnswers, DocumentsAnswer, FilingsAnswer
<1> QED BY <1>1, <1>2, <1>3, <1>4, <1>5 DEF Next

\* An adapter passes every entry of its listing once and processItem takes every
\* item once: with the answer of the listing, the length of the run is settled.
THEOREM RunsAreShort == SourceSpec => RunCountsDown /\ []RunIsShort
<1>1. RunInv /\ RunInv' /\ [Next]_sourceVars => [phase # "fetch" => RunLeft' < RunLeft]_sourceVars
  BY RunLeftStep
<1>2. Init => RunIsShort
  BY DEF Init, RunIsShort
<1>3. ASSUME RunInv, RunInv', RunIsShort, [Next]_sourceVars PROVE RunIsShort'
  <2> SUFFICES ASSUME phase' \in {"entries", "items"} PROVE RunLeft' \in 1..(2 * Len(list') + 2)
    BY DEF RunIsShort
  <2>1. CASE phase = "fetch"
    <3>1. pos = 1 /\ items = <<>> /\ results = <<>> /\ list = <<>>
      BY <1>3, <2>1 DEF RunInv, Progress
    <3>2. UNCHANGED <<pos, items, results>> /\ (phase' = "items" => list' = list)
      BY <1>3, <2>1 DEF Next, FetchFails, ListingAnswers, FeedAnswers, DocumentsAnswer,
         FilingsAnswer, FeedArrives, LimitItems, Skip, LimitFetches, KeepListed, PageFails,
         PageAnswers, RssEntry, DocumentEntry, FilingEntry, EndOfEntries, ProcessItem,
         FinishSourceRun, Feeding, Fetchable, Kept, Candidate, InEntries, sourceVars
    <3>3. Len(list') \in Nat
      BY <1>3 DEF RunInv, TypeOK
    <3>4. Len(items') = 0 /\ Len(results') = 0 /\ pos' = 1
      BY <3>1, <3>2
    <3> QED BY <3>3, <3>4 DEF RunLeft
  <2>2. CASE phase # "fetch"
    <3>1. UNCHANGED list /\ phase \in {"entries", "items"}
      BY <1>3, <2>2 DEF Next, FetchFails, ListingAnswers, FeedAnswers, DocumentsAnswer,
         FilingsAnswer, LimitItems, Skip, LimitFetches, KeepListed, PageFails,
         PageAnswers, RssEntry, DocumentEntry, FilingEntry, EndOfEntries, ProcessItem,
         FinishSourceRun, Feeding, Fetchable, Kept, Candidate, InEntries, Close, Advance, fetching,
         sourceVars
    <3>2. RunLeft \in Nat /\ RunLeft <= 2 * Len(list) + 2 /\ Len(list) \in Nat
      BY <1>3, <3>1, RunLeftIsCount DEF RunIsShort
    <3>3. RunLeft' < RunLeft \/ RunLeft' = RunLeft
      BY <1>3, <2>2, RunLeftStep DEF sourceVars, RunLeft
    <3>4. RunLeft' \in Nat /\ RunLeft' >= 1
      <4>1. /\ Len(items') \in Nat /\ Len(results') \in Nat /\ Len(list') \in Nat /\ pos' \in Nat
            /\ pos' <= Len(list') + 1 /\ Len(results') <= Len(items')
        BY <1>3 DEF RunInv, TypeOK, Progress
      <4> QED BY <4>1 DEF RunLeft
    <3> QED BY <3>1, <3>2, <3>3, <3>4
  <2> QED BY <2>1, <2>2
<1> QED BY <1>1, <1>2, <1>3, RunInvHolds, PTL DEF SourceSpec, RunCountsDown

\* The adapters' tests leave no entry without a way on, whatever the settings: a
\* run stops only at its end. (LastWindow bounds the model's clock alone.)
THEOREM RunsNeverStick ==
  ASSUME Since <= LastWindow
  PROVE  SourceSpec => []RunGoesOn
<1> DEFINE InTime == window <= LastWindow
<1>1. Init => InTime
  BY DEF Init
<1>2. RunInv /\ InTime /\ [Next]_sourceVars => InTime'
  <2> SUFFICES ASSUME RunInv, InTime, [Next]_sourceVars PROVE InTime'
    OBVIOUS
  <2>1. CASE ProcessItem
    BY <2>1, SourceAssumption DEF ProcessItem, RunInv, TypeOK
  <2>2. CASE ~ProcessItem
    <3>1. UNCHANGED window
      BY <2>2 DEF Next, FetchFails, ListingAnswers, FeedAnswers, DocumentsAnswer,
         FilingsAnswer, FeedArrives, LimitItems, Skip, LimitFetches, KeepListed, PageFails,
         PageAnswers, RssEntry, DocumentEntry, FilingEntry, EndOfEntries,
         FinishSourceRun, Feeding, Close, Advance, fetching, sourceVars
    <3> QED BY <3>1
  <2> QED BY <2>1, <2>2
<1>3. RunInv /\ InTime => RunGoesOn
  <2> SUFFICES ASSUME RunInv, InTime, phase = "entries", pos <= Len(list), Html PROVE EntryMoves
    BY RunLeftIsCount, SourceAssumption
       DEF RunGoesOn, RunMoves, EntryMoves, RunInv, TypeOK, Html, Settings
  <2>1. MaxItems \in Nat /\ MaxFetches \in Nat /\ Len(items) \in Nat /\ stats["attempted"] \in Nat
    BY LimitsArePositive, RunLeftIsCount DEF RunInv, TypeOK, Counters
  <2>2. Verdict(Entry) \in Skips \cup {"keep"}
    BY DEF Verdict, Skips
  <2> QED BY <2>1, <2>2 DEF EntryMoves, Fetchable, Kept, Candidate, InEntries
<1> QED BY <1>1, <1>2, <1>3, RunInvHolds, PTL DEF SourceSpec
=============================================================================

---------------------------- MODULE PagingProofs ----------------------------
(***************************************************************************)
(* What a client of a list can rely on, for any articles, page sizes, rows *)
(* and changes. The argument is about places: the rows are numbered from   *)
(* the top of the list, and Upto(a) is the number of the last row of a. A  *)
(* page gives the client every article whose last row is past the offset   *)
(* and whose first row is on the page, so an article is passed unseen only *)
(* when rows leave above it and its last row moves up over the boundary.   *)
(***************************************************************************)
EXTENDS Paging, FiniteSetTheorems, TLAPS

From(a) == {b \in listed : b >= a}
Upto(a) == Rows(From(a))

\* The number of rows of the pages read so far.
Frontier == IF at = "total" THEN Number * Size ELSE Offset

\* Articles listed all the time that no further page will show.
Behind == {a \in steady \ seen : Upto(a) <= Frontier}

PassedInv ==
  /\ Cardinality(Behind) <= goneRows
  /\ at # "rows" /\ short => Cardinality(steady \ seen) <= goneRows
  /\ at = "done" => short

\* What the client has collected against what is listed.
CollectedInv ==
  /\ Cardinality(seen \ listed) <= gone
  /\ Cardinality(listed \ steady) <= came
  /\ at = "done" /\ ~blind => total = Cardinality(listed)

PagingInv == TypeOK /\ PassedInv /\ CollectedInv

-----------------------------------------------------------------------------
(* Counting rows.                                                          *)

LEMMA SizeIsInt ==
  ASSUME TypeOK
  PROVE  Size \in Int /\ Number \in Int /\ Offset \in Int
<1>1. asked # None => asked \in Int
  BY PagingAssumption DEF TypeOK
<1>2. Size \in Int
  BY <1>1, PagingAssumption DEF Size, Clamp
<1>3. Number \in Int
  BY DEF TypeOK, Number
<1> QED BY <1>2, <1>3 DEF Offset

LEMMA JoinIsFinite ==
  ASSUME NEW w \in [Articles -> 1..MaxRows], NEW S \in SUBSET Articles
  PROVE  LET J == UNION {{a} \X (1..w[a]) : a \in S}
         IN  IsFiniteSet(J) /\ Cardinality(J) \in Nat
<1> DEFINE J == UNION {{a} \X (1..w[a]) : a \in S}
<1>1. J \subseteq Articles \X (1..MaxRows)
  <2> SUFFICES ASSUME NEW a \in S, NEW r \in {a} \X (1..w[a])
               PROVE  r \in Articles \X (1..MaxRows)
    OBVIOUS
  <2>1. a \in Articles /\ w[a] \in 1..MaxRows
    OBVIOUS
  <2> QED BY <2>1, PagingAssumption
<1>2. IsFiniteSet(1..MaxRows) /\ IsFiniteSet(Articles)
  BY PagingAssumption, FS_Interval
<1> HIDE DEF J
<1>3. IsFiniteSet(J) /\ Cardinality(J) \in Nat
  BY <1>1, <1>2, FS_Product, FS_Subset, FS_CardinalityType
<1> QED BY <1>3 DEF J

LEMMA JoinedIsFinite ==
  ASSUME TypeOK, NEW S \in SUBSET Articles
  PROVE  IsFiniteSet(Joined(S)) /\ Rows(S) \in Nat
BY JoinIsFinite DEF Joined, Rows, TypeOK

\* More articles take more rows.
LEMMA MoreArticlesMoreRows ==
  ASSUME TypeOK, NEW T \in SUBSET Articles, NEW S \in SUBSET T
  PROVE  Rows(S) <= Rows(T)
<1>1. Joined(S) \subseteq Joined(T)
  BY DEF Joined
<1> QED BY <1>1, JoinedIsFinite, FS_Subset DEF Rows

\* An article takes the rows its width says.
LEMMA RowsWithout ==
  ASSUME TypeOK, NEW S \in SUBSET Articles, NEW b \in S
  PROVE  Rows(S) = Rows(S \ {b}) + width[b]
<1> DEFINE B == {b} \X (1..width[b])
<1>1. width[b] \in Nat /\ width[b] >= 1
  BY PagingAssumption DEF TypeOK
<1>2. IsFiniteSet(B) /\ Cardinality(B) = width[b]
  <2>1. IsFiniteSet({b}) /\ Cardinality({b}) = 1
    BY FS_Singleton
  <2>2. IsFiniteSet(1..width[b]) /\ Cardinality(1..width[b]) = width[b]
    BY <1>1, FS_Interval
  <2>3. IsFiniteSet(B) /\ Cardinality(B) = 1 * width[b]
    BY <2>1, <2>2, FS_Product
  <2> QED BY <1>1, <2>3
<1>3. Joined(S) = Joined(S \ {b}) \cup B /\ Joined(S \ {b}) \cap B = {}
  BY DEF Joined
<1>4. IsFiniteSet(Joined(S \ {b})) /\ Cardinality(Joined(S \ {b})) \in Nat
  BY JoinedIsFinite DEF Rows
<1> HIDE DEF B
<1>5. Cardinality(Joined(S)) = Cardinality(Joined(S \ {b})) + Cardinality(B) - Cardinality({})
  BY <1>2, <1>3, <1>4, FS_Union
<1> QED BY <1>1, <1>2, <1>4, <1>5, FS_EmptySet DEF Rows

\* The first row of an article comes after those above it, its last row at Upto.
LEMMA LastRow ==
  ASSUME TypeOK, NEW a \in listed
  PROVE  Upto(a) = Above(a) + width[a] /\ Above(a) \in Nat /\ Upto(a) \in Nat
<1>0. listed \subseteq Articles /\ listed \subseteq Nat
  BY PagingAssumption DEF TypeOK
<1>a. /\ \A b \in listed : b >= a /\ b # a <=> b > a
      /\ a >= a
  BY <1>0
<1>1. From(a) \ {a} = {b \in listed : b > a} /\ a \in From(a) /\ From(a) \subseteq Articles
  BY <1>0, <1>a DEF From
<1>2. Rows(From(a)) = Rows(From(a) \ {a}) + width[a]
  BY <1>1, RowsWithout
<1>3. Rows(From(a)) \in Nat /\ Rows(From(a) \ {a}) \in Nat
  BY <1>1, JoinedIsFinite
<1> QED BY <1>1, <1>2, <1>3 DEF Upto, Above

\* No two articles have their last row at the same place.
LEMMA PlacesDiffer ==
  ASSUME TypeOK, NEW a \in listed, NEW b \in listed, a < b
  PROVE  Upto(b) < Upto(a)
<1>0. listed \subseteq Articles /\ listed \subseteq Nat
  BY PagingAssumption DEF TypeOK
<1>a. /\ \A c \in listed : c >= b => c >= a /\ c # a
      /\ a >= a
  BY <1>0
<1>1. From(b) \subseteq From(a) \ {a} /\ a \in From(a) /\ From(a) \subseteq Articles
  BY <1>0, <1>a DEF From
<1>2. Rows(From(b)) <= Rows(From(a) \ {a})
  BY <1>1, MoreArticlesMoreRows
<1>3. Rows(From(a)) = Rows(From(a) \ {a}) + width[a] /\ width[a] >= 1 /\ width[a] \in Nat
  BY <1>1, RowsWithout, PagingAssumption DEF TypeOK
<1>4. Rows(From(b)) \in Nat /\ Rows(From(a) \ {a}) \in Nat
  BY <1>1, JoinedIsFinite
<1> QED BY <1>2, <1>3, <1>4 DEF Upto

-----------------------------------------------------------------------------
(* Types.                                                                  *)

LEMMA PartsAreFinite ==
  ASSUME TypeOK, NEW S \in SUBSET Articles
  PROVE  IsFiniteSet(S) /\ Cardinality(S) \in Nat
BY PagingAssumption, FS_Subset, FS_CardinalityType

\* The bound counts every change of the list.
LEMMA MovesCount ==
  ASSUME TypeOK
  PROVE  came + gone <= Moves /\ Moves \in Int
<1> DEFINE f == [a \in Articles |-> <<a, 1>>]
<1>1. f \in Injection(Articles, Joined(Articles))
  <2>1. ASSUME NEW a \in Articles PROVE f[a] \in Joined(Articles)
    <3>1. 1 \in 1..width[a]
      BY PagingAssumption DEF TypeOK
    <3> QED BY <3>1 DEF Joined
  <2>2. \A a, b \in Articles : f[a] = f[b] => a = b
    OBVIOUS
  <2> QED BY <2>1, <2>2 DEF Injection, IsInjective
<1> HIDE DEF f
<1>2. Cardinality(Articles) <= Rows(Articles)
  BY <1>1, JoinedIsFinite, FS_Injection DEF Rows
<1>3. Rows(Articles) \in Nat /\ Cardinality(Articles) \in Nat /\ came \in Nat /\ gone \in Nat
  BY JoinedIsFinite, PartsAreFinite, PagingAssumption DEF TypeOK
<1> QED BY <1>2, <1>3 DEF Moves

LEMMA TypeStep ==
  ASSUME TypeOK, [Next]_vars
  PROVE  TypeOK'
<1> USE DEF TypeOK
<1>1. CASE ListRows
  BY <1>1 DEF ListRows, list, PageItems
<1>2. CASE CountTotal \/ CountError
  <2>1. page' \in Nat /\ at' \in {"rows", "total", "done"}
    BY <1>2 DEF CountTotal, CountError, NextPage, Number
  <2>2. total' \in Nat /\ blind' \in BOOLEAN
    <3>1. Cardinality(listed) \in Nat
      BY PartsAreFinite
    <3>2. blind' \in BOOLEAN
      BY <1>2, Zenon DEF CountTotal, CountError
    <3>3. total' = Cardinality(listed) \/ total' = 0
      BY <1>2, Zenon DEF CountTotal, CountError
    <3>4. total' \in Nat
      BY <3>1, <3>3
    <3> QED BY <3>2, <3>4
  <2>3. UNCHANGED <<listed, steady, seen, width, asked, came, gone, goneRows, short>>
    BY <1>2 DEF CountTotal, CountError, NextPage, list
  <2> QED BY <2>1, <2>2, <2>3
<1>3. ASSUME NEW a \in Articles, Enter(a) PROVE TypeOK'
  <2>1. came' \in 0..MaxMoves
    BY <1>3, MovesCount, PagingAssumption DEF Enter
  <2> QED BY <1>3, <2>1 DEF Enter, walk
<1>4. ASSUME NEW a \in Articles, Leave(a) PROVE TypeOK'
  <2>1. gone' \in 0..MaxMoves
    BY <1>4, MovesCount, PagingAssumption DEF Leave
  <2>2. goneRows' \in Nat
    BY <1>4, PagingAssumption DEF Leave
  <2> QED BY <1>4, <2>1, <2>2 DEF Leave, walk
<1>5. ASSUME NEW a \in Articles, Link(a) PROVE TypeOK'
  <2>1. width' \in [Articles -> 1..MaxRows]
    BY <1>5, PagingAssumption DEF Link
  <2> QED BY <1>5, <2>1 DEF Link, walk
<1>6. CASE UNCHANGED vars
  BY <1>6 DEF vars, list, walk
<1> QED BY <1>1, <1>2, <1>3, <1>4, <1>5, <1>6 DEF Next

LEMMA InitTypes == Init => TypeOK
<1> SUFFICES ASSUME Init PROVE TypeOK
  OBVIOUS
<1>1. 0 \in 0..MaxMoves /\ 1 \in 1..MaxRows /\ 0 \in Nat /\ 1 \in Nat
  BY PagingAssumption
<1>2. width \in [Articles -> 1..MaxRows]
  BY <1>1 DEF Init
<1> QED BY <1>1, <1>2 DEF Init, TypeOK

-----------------------------------------------------------------------------
(* Nobody is passed unseen but for rows that left.                         *)

LEMMA UnionBound ==
  ASSUME NEW S, IsFiniteSet(S), NEW T, IsFiniteSet(T), NEW U, U \subseteq S \cup T
  PROVE  Cardinality(U) <= Cardinality(S) + Cardinality(T)
<1>1. /\ IsFiniteSet(S \cup T) /\ IsFiniteSet(S \cap T)
      /\ Cardinality(S \cup T) = Cardinality(S) + Cardinality(T) - Cardinality(S \cap T)
  BY FS_Union, FS_Intersection
<1>2. IsFiniteSet(U) /\ Cardinality(U) <= Cardinality(S \cup T)
  BY <1>1, FS_Subset
<1> QED BY <1>1, <1>2, FS_CardinalityType

LEMMA OneMore ==
  ASSUME NEW S, IsFiniteSet(S), NEW x
  PROVE  /\ IsFiniteSet(S \cup {x})
         /\ Cardinality(S \cup {x}) <= Cardinality(S) + 1
         /\ Cardinality(S \cup {x}) \in Nat
<1>1. /\ IsFiniteSet(S \cup {x})
      /\ Cardinality(S \cup {x}) = IF x \in S THEN Cardinality(S) ELSE Cardinality(S) + 1
  BY FS_AddElement
<1>2. Cardinality(S) \in Nat
  BY FS_CardinalityType
<1> QED BY <1>1, <1>2

\* Rows that come push an article down.
LEMMA PushedDown ==
  ASSUME TypeOK, TypeOK', listed \subseteq listed',
         \A x \in Articles : width[x] <= width'[x], NEW a
  PROVE  Upto(a) <= Upto(a)' /\ Upto(a) \in Nat /\ Upto(a)' \in Nat
<1>1. From(a) \subseteq From(a)' /\ From(a)' \in SUBSET Articles /\ From(a) \in SUBSET Articles
  BY DEF From, TypeOK
<1>2. \A x \in Articles : 1..width[x] \subseteq 1..width'[x]
  BY PagingAssumption DEF TypeOK
<1>3. Joined(From(a)) \subseteq Joined(From(a))'
  BY <1>1, <1>2 DEF Joined
<1>4. IsFiniteSet(Joined(From(a))') /\ Cardinality(Joined(From(a))') \in Nat
  BY <1>1, JoinIsFinite DEF Joined, TypeOK
<1> QED BY <1>3, <1>4, FS_Subset, FS_CardinalityType DEF Upto, Rows

\* Rows that leave let an article move up by no more than their number.
LEMMA MovedUp ==
  ASSUME TypeOK, NEW b \in listed, listed' = listed \ {b}, width' = width, NEW a
  PROVE  Upto(a) <= Upto(a)' + width[b] /\ Upto(a) \in Nat /\ Upto(a)' \in Nat
<1>1. From(a)' = From(a) \ {b} /\ From(a) \in SUBSET Articles
  BY DEF From, TypeOK
<1>2. Upto(a)' = Rows(From(a) \ {b})
  BY <1>1 DEF Upto, Rows, Joined
<1>3. Rows(From(a) \ {b}) \in Nat /\ Rows(From(a)) \in Nat
  BY <1>1, JoinedIsFinite
<1>4. width[b] \in Nat
  BY PagingAssumption DEF TypeOK
<1>5. CASE b \in From(a)
  BY <1>1, <1>2, <1>3, <1>4, <1>5, RowsWithout DEF Upto
<1>6. CASE b \notin From(a)
  <2>1. From(a) \ {b} = From(a)
    BY <1>6
  <2> QED BY <1>2, <1>3, <1>4, <2>1 DEF Upto
<1> QED BY <1>5, <1>6

\* Each place has one article, so few of them move over a boundary.
LEMMA FewPlaces ==
  ASSUME TypeOK, NEW F \in Int, NEW n \in Nat, NEW S \in SUBSET listed,
         \A a \in S : F < Upto(a) /\ Upto(a) <= F + n
  PROVE  IsFiniteSet(S) /\ Cardinality(S) <= n
<1> DEFINE f == [a \in S |-> Upto(a)]
           P == (F + 1)..(F + n)
<1>1. \A a \in S : Upto(a) \in P
  BY LastRow
<1>2. \A a, b \in S : a # b => Upto(a) # Upto(b)
  <2> SUFFICES ASSUME NEW a \in S, NEW b \in S, a # b PROVE Upto(a) # Upto(b)
    OBVIOUS
  <2>1. a < b \/ b < a
    BY PagingAssumption DEF TypeOK
  <2>2. Upto(a) \in Nat /\ Upto(b) \in Nat
    BY LastRow
  <2> QED BY <2>1, <2>2, PlacesDiffer
<1>3. f \in Injection(S, P)
  BY <1>1, <1>2 DEF Injection, IsInjective
<1>4. IsFiniteSet(P) /\ Cardinality(P) = n
  BY FS_Interval
<1> HIDE DEF f, P
<1> QED BY <1>3, <1>4, FS_Injection

\* While rows are only added, and nothing is read, nobody new is left behind.
LEMMA BehindOnGrowth ==
  ASSUME TypeOK, TypeOK', PassedInv, listed \subseteq listed',
         \A x \in Articles : width[x] <= width'[x],
         UNCHANGED <<steady, goneRows, walk>>
  PROVE  PassedInv'
<1>1. Frontier' = Frontier /\ Frontier \in Int
  BY SizeIsInt DEF Frontier, Offset, Number, Size, Clamp, walk
<1>2. \A a \in Articles : Upto(a) <= Upto(a)' /\ Upto(a) \in Nat /\ Upto(a)' \in Nat
  BY PushedDown
<1>3. Behind' \subseteq Behind
  <2> SUFFICES ASSUME NEW a \in Behind' PROVE a \in Behind
    OBVIOUS
  <2>1. a \in steady \ seen /\ Upto(a)' <= Frontier' /\ a \in Articles
    BY DEF Behind, walk, TypeOK
  <2> QED BY <1>1, <1>2, <2>1 DEF Behind
<1>4. IsFiniteSet(Behind) /\ Cardinality(Behind) \in Nat
  BY PartsAreFinite DEF Behind, TypeOK
<1>5. Cardinality(Behind') <= Cardinality(Behind) /\ Cardinality(Behind') \in Nat
  BY <1>3, <1>4, FS_Subset, FS_CardinalityType
<1>6. goneRows \in Nat
  BY DEF TypeOK
<1>7. Cardinality(Behind') <= goneRows'
  BY <1>4, <1>5, <1>6 DEF PassedInv
<1> QED BY <1>7 DEF PassedInv, walk

LEMMA BehindOnLeave ==
  ASSUME TypeOK, TypeOK', PassedInv, NEW b \in Articles, Leave(b)
  PROVE  PassedInv'
<1> DEFINE N == {a \in (steady \ seen) \ {b} :
                   Frontier < Upto(a) /\ Upto(a) <= Frontier + width[b]}
<1>0. /\ b \in listed /\ listed' = listed \ {b} /\ steady' = steady \ {b} /\ width' = width
      /\ goneRows' = goneRows + width[b] /\ UNCHANGED walk
  BY DEF Leave
<1>1. Frontier' = Frontier /\ Frontier \in Int
  BY <1>0, SizeIsInt DEF Frontier, Offset, Number, Size, Clamp, walk
<1>2. width[b] \in Nat /\ goneRows \in Nat
  BY PagingAssumption DEF TypeOK
<1>3. IsFiniteSet(N) /\ Cardinality(N) <= width[b]
  <2>1. N \subseteq listed
    BY DEF TypeOK
  <2>2. \A a \in N : Frontier < Upto(a) /\ Upto(a) <= Frontier + width[b]
    OBVIOUS
  <2> HIDE DEF N
  <2> QED BY <1>1, <1>2, <2>1, <2>2, FewPlaces
<1>4. Behind' \subseteq Behind \cup N
  <2> SUFFICES ASSUME NEW a \in Behind' PROVE a \in Behind \cup N
    OBVIOUS
  <2>1. a \in (steady \ seen) \ {b} /\ Upto(a)' <= Frontier
    BY <1>0, <1>1 DEF Behind, walk
  <2>2. Upto(a) <= Upto(a)' + width[b] /\ Upto(a) \in Nat /\ Upto(a)' \in Nat
    BY <1>0, MovedUp
  <2>3. Upto(a) <= Frontier \/ (Frontier < Upto(a) /\ Upto(a) <= Frontier + width[b])
    BY <1>1, <1>2, <2>1, <2>2
  <2> QED BY <2>1, <2>3 DEF Behind
<1> HIDE DEF N
<1>5. IsFiniteSet(Behind) /\ Cardinality(Behind) \in Nat
  BY PartsAreFinite DEF Behind, TypeOK
<1>6. Behind' \in SUBSET Articles
  BY <1>0 DEF Behind, TypeOK
<1>7. Cardinality(Behind') <= goneRows'
  <2>1. Cardinality(Behind') <= Cardinality(Behind) + Cardinality(N)
    BY <1>3, <1>4, <1>5, UnionBound
  <2>2. Cardinality(Behind') \in Nat /\ Cardinality(N) \in Nat
    BY <1>3, <1>6, PartsAreFinite, FS_CardinalityType
  <2>3. Cardinality(Behind) <= goneRows
    BY DEF PassedInv
  <2> QED BY <1>0, <1>2, <1>3, <1>5, <2>1, <2>2, <2>3
<1>8. Cardinality((steady \ seen) \ {b}) <= Cardinality(steady \ seen)
      /\ Cardinality((steady \ seen) \ {b}) \in Nat /\ Cardinality(steady \ seen) \in Nat
  <2>1. IsFiniteSet(steady \ seen)
    BY PartsAreFinite DEF TypeOK
  <2> QED BY <2>1, FS_Subset, FS_CardinalityType
<1>9. (steady \ seen)' = (steady \ seen) \ {b}
  BY <1>0 DEF walk
<1>10. at' # "rows" /\ short' => Cardinality((steady \ seen)') <= goneRows'
  <2> SUFFICES ASSUME at' # "rows", short' PROVE Cardinality((steady \ seen)') <= goneRows'
    OBVIOUS
  <2>1. at # "rows" /\ short
    BY <1>0, Zenon DEF walk
  <2>2. Cardinality(steady \ seen) <= goneRows
    BY <2>1 DEF PassedInv
  <2>3. Cardinality((steady \ seen) \ {b}) <= goneRows + width[b]
    BY <1>2, <1>8, <2>2
  <2> QED BY <1>0, <1>9, <2>3
<1>11. at' = "done" => short'
  BY <1>0 DEF PassedInv, walk
<1> QED BY <1>7, <1>10, <1>11 DEF PassedInv

\* A page shows whatever has its last row past the offset and its first on the
\* page; after a page that is not full nothing is left to be shown.
LEMMA BehindOnPage ==
  ASSUME TypeOK, TypeOK', PassedInv, ListRows
  PROVE  PassedInv'
<1>0. /\ at = "rows" /\ at' = "total" /\ seen' = seen \cup PageItems
      /\ short' = (Rows(listed) < Offset + Size)
      /\ UNCHANGED <<listed, width, steady, goneRows, asked, page>>
  BY DEF ListRows, list
<1>1. Offset \in Int /\ Size \in Int /\ Number \in Int /\ Frontier = Offset
  BY <1>0, SizeIsInt DEF Frontier
<1>2. Frontier' = Offset + Size
  <2>1. Frontier' = Number * Size
    BY <1>0 DEF Frontier, Number, Size, Clamp
  <2>2. Number * Size = (Number - 1) * Size + Size
    BY <1>1
  <2> QED BY <2>1, <2>2 DEF Offset
<1>3. \A a \in listed : /\ Upto(a) = Above(a) + width[a] /\ Upto(a) \in Nat
                        /\ Above(a) \in Nat /\ width[a] \in Nat /\ width[a] >= 1
  <2>1. \A a \in listed : width[a] \in Nat /\ width[a] >= 1
    BY PagingAssumption DEF TypeOK
  <2> QED BY <2>1, LastRow
<1>4. \A a \in listed \ PageItems : Upto(a) <= Offset + Size => Upto(a) <= Offset
  <2> SUFFICES ASSUME NEW a \in listed, a \notin PageItems, Upto(a) <= Offset + Size,
                      Upto(a) > Offset
               PROVE  FALSE
    BY <1>1, <1>3
  <2>1. Above(a) < Offset + Size /\ Above(a) + width[a] > Offset
    BY <1>1, <1>3
  <2> QED BY <2>1 DEF PageItems
<1>5. \A a \in Articles : Upto(a)' = Upto(a)
  BY <1>0 DEF Upto, From, Rows, Joined
<1>6. Behind' \subseteq Behind
  <2> SUFFICES ASSUME NEW a \in Behind' PROVE a \in Behind
    OBVIOUS
  <2>1. a \in steady \ seen /\ a \notin PageItems /\ a \in listed /\ a \in Articles
    BY <1>0 DEF Behind, TypeOK
  <2>2. Upto(a) <= Offset + Size
    BY <1>2, <1>5, <2>1 DEF Behind
  <2> QED BY <1>1, <1>4, <2>1, <2>2 DEF Behind
<1>7. IsFiniteSet(Behind) /\ Cardinality(Behind) \in Nat /\ goneRows \in Nat
  BY PartsAreFinite DEF Behind, TypeOK
<1>8. Cardinality(Behind) <= goneRows
  BY DEF PassedInv
<1>9. Cardinality(Behind') <= goneRows'
  <2>1. Cardinality(Behind') <= Cardinality(Behind) /\ Cardinality(Behind') \in Nat
    BY <1>6, <1>7, FS_Subset, FS_CardinalityType
  <2> QED BY <1>0, <1>7, <1>8, <2>1
<1>10. ASSUME short' PROVE Cardinality((steady \ seen)') <= goneRows'
  <2>1. \A a \in listed : Upto(a) <= Rows(listed) /\ Rows(listed) \in Nat
    <3>1. \A a \in listed : From(a) \subseteq listed
      BY DEF From
    <3> QED BY <3>1, MoreArticlesMoreRows, JoinedIsFinite DEF Upto, TypeOK
  <2>2. (steady \ seen)' \subseteq Behind
    <3> SUFFICES ASSUME NEW a \in steady \ seen, a \notin PageItems PROVE a \in Behind
      BY <1>0
    <3>0. Rows(listed) < Offset + Size
      BY <1>0, <1>10, Zenon
    <3>1. a \in listed /\ Upto(a) <= Offset + Size
      BY <1>1, <1>3, <2>1, <3>0 DEF TypeOK
    <3> QED BY <1>1, <1>4, <3>1 DEF Behind
  <2>3. /\ Cardinality((steady \ seen)') <= Cardinality(Behind)
        /\ Cardinality((steady \ seen)') \in Nat
    BY <1>7, <2>2, FS_Subset, FS_CardinalityType
  <2> QED BY <1>0, <1>7, <1>8, <2>3
<1> QED BY <1>0, <1>9, <1>10 DEF PassedInv

LEMMA PassedStep ==
  ASSUME TypeOK, TypeOK', PassedInv, [Next]_vars
  PROVE  PassedInv'
<1>1. CASE ListRows
  BY <1>1, BehindOnPage
<1>2. CASE CountTotal \/ CountError
  <2>0. /\ at = "total" /\ at' = IF short THEN "done" ELSE "rows"
        /\ page' = Number + 1
        /\ UNCHANGED <<listed, width, steady, goneRows, seen, short, asked>>
    BY <1>2 DEF CountTotal, CountError, NextPage, list
  <2>1. Number \in Int /\ Number >= 1 /\ Number' = Number + 1
    BY <2>0 DEF Number, TypeOK
  <2>2. Size' = Size
    BY <2>0 DEF Size, Clamp
  <2>3. Frontier = Number * Size /\ Frontier' = (Number' - 1) * Size'
    BY <2>0 DEF Frontier, Offset
  <2>4. Frontier' = Frontier
    BY <2>1, <2>2, <2>3
  <2>5. Behind' = Behind
    BY <2>0, <2>4 DEF Behind, Upto, From, Rows, Joined
  <2>6. at' = "done" => short'
    BY <2>0
  <2>7. at' # "rows" /\ short' => Cardinality((steady \ seen)') <= goneRows'
    BY <2>0 DEF PassedInv
  <2> QED BY <2>0, <2>5, <2>6, <2>7 DEF PassedInv
<1>3. ASSUME NEW a \in Articles, Enter(a) PROVE PassedInv'
  <2>1. /\ listed \subseteq listed' /\ width' = width
        /\ UNCHANGED <<steady, goneRows, walk>>
    BY <1>3 DEF Enter
  <2>2. \A x \in Articles : width[x] <= width'[x]
    BY <2>1, PagingAssumption DEF TypeOK
  <2> QED BY <2>1, <2>2, BehindOnGrowth
<1>4. ASSUME NEW a \in Articles, Leave(a) PROVE PassedInv'
  BY <1>4, BehindOnLeave
<1>5. ASSUME NEW a \in Articles, Link(a) PROVE PassedInv'
  <2>1. /\ listed' = listed /\ width' = [width EXCEPT ![a] = @ + 1]
        /\ UNCHANGED <<steady, goneRows, walk>>
    BY <1>5 DEF Link
  <2>2. \A x \in Articles : width[x] <= width'[x]
    BY <2>1, PagingAssumption DEF TypeOK
  <2> QED BY <2>1, <2>2, BehindOnGrowth
<1>6. CASE UNCHANGED vars
  <2>1. listed' = listed /\ width' = width /\ UNCHANGED <<steady, goneRows, walk>>
    BY <1>6 DEF vars, list
  <2>2. \A x \in Articles : width[x] <= width'[x]
    BY <2>1, PagingAssumption DEF TypeOK
  <2> QED BY <2>1, <2>2, BehindOnGrowth
<1> QED BY <1>1, <1>2, <1>3, <1>4, <1>5, <1>6 DEF Next

\* Every change of the list adds at most one to either difference.
LEMMA CollectedStep ==
  ASSUME TypeOK, TypeOK', CollectedInv, [Next]_vars
  PROVE  CollectedInv'
<1> DEFINE lost == seen \ listed
           new  == listed \ steady
<1>0. /\ IsFiniteSet(lost) /\ Cardinality(lost) \in Nat
      /\ IsFiniteSet(new) /\ Cardinality(new) \in Nat
      /\ Cardinality(lost) <= gone /\ Cardinality(new) <= came
      /\ came \in Int /\ gone \in Int
  BY PartsAreFinite, PagingAssumption DEF TypeOK, CollectedInv
<1>a. at = "done" /\ ~blind => total = Cardinality(listed)
  BY DEF CollectedInv
<1>1. CASE ListRows
  <2>1. /\ lost' = lost /\ new' = new /\ at' # "done"
        /\ UNCHANGED <<gone, came>>
    BY <1>1 DEF ListRows, list, PageItems
  <2> QED BY <1>0, <2>1 DEF CollectedInv
<1>2. CASE CountTotal \/ CountError
  <2>1. UNCHANGED <<lost, new, gone, came, listed>>
    BY <1>2 DEF CountTotal, CountError, NextPage, list
  <2>2. ~blind' => total' = Cardinality(listed)
    BY <1>2, Zenon DEF CountTotal, CountError
  <2> QED BY <1>0, <2>1, <2>2 DEF CollectedInv
<1>3. ASSUME NEW a \in Articles, at # "done", Enter(a) PROVE CollectedInv'
  <2>1. /\ lost' \subseteq lost /\ new' = new \cup {a} /\ at' # "done"
        /\ gone' = gone /\ came' = came + 1
    BY <1>3 DEF Enter, walk, TypeOK
  <2>2. Cardinality(lost') <= Cardinality(lost) /\ Cardinality(lost') \in Nat
    BY <1>0, <2>1, FS_Subset, FS_CardinalityType
  <2>3. Cardinality(new') <= Cardinality(new) + 1 /\ Cardinality(new') \in Nat
    BY <1>0, <2>1, OneMore
  <2> QED BY <1>0, <2>1, <2>2, <2>3 DEF CollectedInv
<1>4. ASSUME NEW a \in Articles, at # "done", Leave(a) PROVE CollectedInv'
  <2>1. /\ lost' \subseteq lost \cup {a} /\ new' \subseteq new /\ at' # "done"
        /\ gone' = gone + 1 /\ came' = came
    BY <1>4 DEF Leave, walk, TypeOK
  <2>2. Cardinality(lost') <= Cardinality(lost) + 1 /\ Cardinality(lost') \in Nat
    <3>1. /\ IsFiniteSet(lost \cup {a})
          /\ Cardinality(lost \cup {a}) <= Cardinality(lost) + 1
          /\ Cardinality(lost \cup {a}) \in Nat
      BY <1>0, OneMore
    <3>2. Cardinality(lost') <= Cardinality(lost \cup {a}) /\ Cardinality(lost') \in Nat
      BY <2>1, <3>1, FS_Subset, FS_CardinalityType
    <3> QED BY <1>0, <3>1, <3>2
  <2>3. Cardinality(new') <= Cardinality(new) /\ Cardinality(new') \in Nat
    BY <1>0, <2>1, FS_Subset, FS_CardinalityType
  <2> QED BY <1>0, <2>1, <2>2, <2>3 DEF CollectedInv
<1>5. ASSUME (\E a \in Articles : Link(a)) \/ UNCHANGED vars PROVE CollectedInv'
  <2>1. UNCHANGED <<listed, steady, came, gone, at, seen, total, blind>>
    BY <1>5 DEF Link, vars, list, walk
  <2> QED BY <1>0, <1>a, <2>1 DEF CollectedInv
<1> QED BY <1>1, <1>2, <1>3, <1>4, <1>5 DEF Next

-----------------------------------------------------------------------------
(* The theorems.                                                           *)

\* Every variable of the walk and of the list keeps its type.
THEOREM TypeCorrect == Spec => []TypeOK
<1>1. Init => TypeOK
  BY InitTypes
<1>2. TypeOK /\ [Next]_vars => TypeOK'
  BY TypeStep
<1> QED BY <1>1, <1>2, PTL DEF Spec

LEMMA InitInvariants == Init => PassedInv /\ CollectedInv
<1> SUFFICES ASSUME Init PROVE PassedInv /\ CollectedInv
  OBVIOUS
<1>0. TypeOK
  BY InitTypes
<1>1. /\ at = "rows" /\ goneRows = 0 /\ gone = 0 /\ came = 0
      /\ seen = {} /\ steady = listed /\ page \in {0, 1}
  BY DEF Init
<1>2. Frontier = 0
  <2>1. Number = 1 /\ Size \in Int
    BY <1>0, <1>1, SizeIsInt DEF Number
  <2> QED BY <1>1, <2>1 DEF Frontier, Offset
<1>3. Behind = {}
  <2> SUFFICES ASSUME NEW a \in listed, Upto(a) <= 0 PROVE FALSE
    BY <1>1, <1>2 DEF Behind
  <2>1. Upto(a) = Above(a) + width[a] /\ Above(a) \in Nat
    BY <1>0, LastRow
  <2>2. width[a] \in Nat /\ width[a] >= 1
    BY <1>0, PagingAssumption DEF TypeOK
  <2> QED BY <2>1, <2>2
<1>4. seen \ listed = {} /\ listed \ steady = {}
  BY <1>1
<1> QED BY <1>1, <1>3, <1>4, FS_EmptySet DEF PassedInv, CollectedInv

\* A client that turns the pages of a list to its end has been given every
\* article that was in it all the time, but for at most as many as rows left the
\* list meanwhile, whatever is inserted, linked, listed and withdrawn between
\* two pages.
THEOREM MissedAreBounded == Spec => []MissedBounded
<1>1. Init => TypeOK /\ PassedInv
  BY InitTypes, InitInvariants
<1>2. TypeOK /\ PassedInv /\ [Next]_vars => TypeOK' /\ PassedInv'
  BY TypeStep, PassedStep
<1>3. PassedInv => MissedBounded
  BY DEF PassedInv, MissedBounded
<1> QED BY <1>1, <1>2, <1>3, PTL DEF Spec

LEMMA CollectedMeansHonest ==
  ASSUME TypeOK, PassedInv, CollectedInv
  PROVE  TotalHonest
<1> SUFFICES ASSUME at = "done", ~blind
             PROVE  total >= Cardinality(seen) - gone
                    /\ total <= Cardinality(seen) + goneRows + came
  BY DEF TotalHonest
<1>0. /\ IsFiniteSet(seen) /\ IsFiniteSet(listed) /\ IsFiniteSet(steady)
      /\ IsFiniteSet(seen \ listed) /\ IsFiniteSet(listed \ steady)
      /\ IsFiniteSet(steady \ seen)
  BY PartsAreFinite DEF TypeOK
<1>1. /\ Cardinality(seen) \in Nat /\ Cardinality(listed) \in Nat
      /\ Cardinality(steady) \in Nat /\ Cardinality(seen \ listed) \in Nat
      /\ Cardinality(listed \ steady) \in Nat /\ Cardinality(steady \ seen) \in Nat
      /\ gone \in Int /\ came \in Int /\ goneRows \in Int
  BY <1>0, FS_CardinalityType, PagingAssumption DEF TypeOK
<1>2. /\ Cardinality(seen) <= Cardinality(listed) + Cardinality(seen \ listed)
      /\ Cardinality(listed) <= Cardinality(listed \ steady) + Cardinality(steady)
      /\ Cardinality(steady) <= Cardinality(steady \ seen) + Cardinality(seen)
  <2>1. /\ seen \subseteq listed \cup (seen \ listed)
        /\ listed \subseteq (listed \ steady) \cup steady
        /\ steady \subseteq (steady \ seen) \cup seen
    OBVIOUS
  <2> QED BY <1>0, <2>1, UnionBound
<1>3. /\ Cardinality(steady \ seen) <= goneRows
      /\ Cardinality(seen \ listed) <= gone /\ Cardinality(listed \ steady) <= came
      /\ total = Cardinality(listed)
  BY DEF PassedInv, CollectedInv
<1> QED BY <1>1, <1>2, <1>3

\* The total of the last page differs from what the client collected only by
\* articles that entered or left during the walk, and by those missed.
THEOREM TotalIsHonest == Spec => []TotalHonest
<1>1. Init => PagingInv
  BY InitTypes, InitInvariants DEF PagingInv
<1>2. PagingInv /\ [Next]_vars => PagingInv'
  BY TypeStep, PassedStep, CollectedStep DEF PagingInv
<1>3. PagingInv => TotalHonest
  BY CollectedMeansHonest DEF PagingInv
<1> QED BY <1>1, <1>2, <1>3, PTL DEF Spec
=============================================================================

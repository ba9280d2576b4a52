----------------------------- MODULE UrlsProofs -----------------------------
(***************************************************************************)
(* What CanonicalURL keeps apart, what it tells apart without need and     *)
(* what it spoils, for every link, however it is spelled.                  *)
(***************************************************************************)
EXTENDS Urls, SequenceTheorems, TLAPS

\* Texts of one way to write each piece as it stands.
Plain(t)      == Literal(t) /\ t.word \notin Special \cup Marked
AsItStands(p) == \A i \in 1..Len(p) : Literal(p[i])

-----------------------------------------------------------------------------
(* Pieces.                                                                 *)

Texts == [word : Words, how : Seq(Spellings)]

LEMMA TextsAreRecords ==
  ASSUME NEW t \in Texts
  PROVE  /\ t = [word |-> t.word, how |-> t.how] /\ t.word \in Words
         /\ t.how \in Seq(Spellings) /\ Len(t.how) \in Nat
         /\ t.how # << >> => Len(t.how) > 0
BY LenProperties, EmptySeq DEF Texts

\* Taking away the last spelling and adding one undoes it.
LEMMA LastOff ==
  ASSUME NEW s \in Seq(Spellings)
  PROVE  LET a == Append(s, "usual")
         IN  a # << >> /\ a \in Seq(Spellings) /\ SubSeq(a, 1, Len(a) - 1) = s
BY AppendProperties DEF Spellings

LEMMA EscapeUndone ==
  ASSUME NEW t \in Texts
  PROVE  /\ Escape(t) \in Texts
         /\ Unescape(Escape(t)) = t
         /\ Plain(t) => Escape(t) = t
         /\ ~Plain(t) => /\ ~Literal(Escape(t))
                         /\ Escape(t).how = Append(t.how, "usual")
                         /\ Escape(t).word = t.word
<1>0. /\ t = [word |-> t.word, how |-> t.how] /\ t.word \in Words /\ t.how \in Seq(Spellings)
  BY TextsAreRecords
<1> DEFINE a == Append(t.how, "usual")
<1>1. a # << >> /\ a \in Seq(Spellings) /\ SubSeq(a, 1, Len(a) - 1) = t.how
  BY <1>0, LastOff
<1>2. CASE Plain(t)
  BY <1>0, <1>2 DEF Plain, Escape, Unescape, Literal, Texts
<1>3. CASE ~Plain(t)
  <2> HIDE DEF a
  <2>1. Escape(t) = [word |-> t.word, how |-> a]
    BY <1>0, <1>3 DEF Plain, Escape, a
  <2> QED BY <1>0, <1>1, <1>3, <2>1 DEF Unescape, Literal, Texts, a
<1> QED BY <1>2, <1>3

LEMMA UnescapeIsText ==
  ASSUME NEW t \in Texts
  PROVE  Unescape(t) \in Texts
<1>0. /\ t = [word |-> t.word, how |-> t.how] /\ t.word \in Words /\ t.how \in Seq(Spellings)
      /\ Len(t.how) \in Nat
  BY TextsAreRecords
<1>1. CASE Literal(t)
  BY <1>1 DEF Unescape
<1>2. CASE ~Literal(t)
  <2> DEFINE f == SubSeq(t.how, 1, Len(t.how) - 1)
  <2>1. Len(t.how) > 0
    BY <1>2, TextsAreRecords DEF Literal
  <2>2. f \in Seq(Spellings)
    <3>1. \A k \in 1..(Len(t.how) - 1) : t.how[k] \in Spellings
      BY <1>0, <2>1, ElementOfSeq
    <3> QED BY <1>0, <3>1, SubSeqProperties
  <2> HIDE DEF f
  <2>3. Unescape(t) = [word |-> t.word, how |-> f]
    BY <1>0, <1>2 DEF Unescape, f
  <2> QED BY <1>0, <2>2, <2>3 DEF Texts
<1> QED BY <1>1, <1>2

\* A piece that unescape() leaves alone has no percent sign.
LEMMA LiteralIfFixed ==
  ASSUME NEW t \in Texts, Unescape(t) = t
  PROVE  Literal(t)
<1> SUFFICES ASSUME ~Literal(t) PROVE FALSE
  OBVIOUS
<1>0. t.how \in Seq(Spellings) /\ Len(t.how) \in Nat /\ Len(t.how) > 0
  BY TextsAreRecords DEF Literal
<1>1. Len(SubSeq(t.how, 1, Len(t.how) - 1)) = Len(t.how) - 1
  BY <1>0, SubSeqProperties
<1>2. Unescape(t).how = SubSeq(t.how, 1, Len(t.how) - 1)
  BY TextsAreRecords DEF Unescape
<1> QED BY <1>0, <1>1, <1>2

\* Unescape() and escape() disagree on a piece that no path can hold: it is
\* written in a way of its own, or has to be escaped.
LEMMA NeverRestored ==
  ASSUME NEW t \in Texts, t.word \in Special
  PROVE  Escape(Unescape(t)) # Unescape(t)
<1> DEFINE u == Unescape(t)
<1>1. u \in Texts
  BY UnescapeIsText
<1>2. u.word = t.word
  BY TextsAreRecords DEF Unescape
<1>3. ~Plain(u)
  BY <1>2 DEF Plain
<1> HIDE DEF u
<1>4. Escape(u).how = Append(u.how, "usual") /\ u.how \in Seq(Spellings)
  BY <1>1, <1>3, EscapeUndone, TextsAreRecords
<1>5. Len(Append(u.how, "usual")) = Len(u.how) + 1 /\ Len(u.how) \in Nat
  BY <1>4, AppendProperties, LenProperties DEF Spellings
<1>6. Escape(u) # u
  BY <1>4, <1>5
<1> QED BY <1>6 DEF u

-----------------------------------------------------------------------------
(* Texts of paths.                                                         *)

LEMMA EscapedUndone ==
  ASSUME NEW p \in Seq(Texts)
  PROVE  Unescaped(Escaped(p)) = p
<1>1. Len(p) \in Nat /\ \A i \in 1..Len(p) : p[i] \in Texts
  BY ElementOfSeq, LenProperties
<1>2. Len(Escaped(p)) = Len(p)
  BY <1>1 DEF Escaped
<1>3. \A i \in 1..Len(p) : Unescape(Escaped(p)[i]) = p[i]
  BY <1>1, EscapeUndone DEF Escaped
<1>4. Unescaped(Escaped(p)) = [i \in 1..Len(p) |-> p[i]]
  BY <1>1, <1>2, <1>3 DEF Unescaped
<1> QED BY <1>1, <1>4

LEMMA UnescapedIsPath ==
  ASSUME NEW p \in Seq(Texts)
  PROVE  Unescaped(p) \in Seq(Texts)
<1>1. Len(p) \in Nat /\ \A i \in 1..Len(p) : p[i] \in Texts
  BY ElementOfSeq, LenProperties
<1>3. \A i \in 1..Len(p) : Unescape(p[i]) \in Texts
  BY <1>1, UnescapeIsText
<1> QED BY <1>1, <1>3 DEF Unescaped

LEMMA EscapedIsPath ==
  ASSUME NEW p \in Seq(Texts)
  PROVE  Escaped(p) \in Seq(Texts)
<1>1. Len(p) \in Nat /\ \A i \in 1..Len(p) : Escape(p[i]) \in Texts
  BY ElementOfSeq, LenProperties, EscapeUndone
<1> QED BY <1>1 DEF Escaped

\* The text the function starts from decodes to the page of the link, whether the
\* link is spelled as a path can be or not.
LEMMA TextOfPage ==
  ASSUME NEW p \in Seq(Texts)
  PROVE  EscapedPath(p) \in Seq(Texts) /\ Unescaped(EscapedPath(p)) = Unescaped(p)
BY UnescapedIsPath, EscapedIsPath, EscapedUndone DEF EscapedPath

LEMMA LinksHaveTexts ==
  ASSUME NEW url \in Urls
  PROVE  /\ url.path \in Seq(Pieces) /\ url.path \in Seq(Texts) /\ Len(url.path) \in Nat
         /\ EscapedPath(url.path) \in Seq(Texts)
         /\ Len(EscapedPath(url.path)) = Len(url.path)
<1>1. url.path \in Seq(Pieces)
  BY DEF Urls
<1>2. Pieces \subseteq Texts
  BY DEF Pieces, Texts
<1>3. url.path \in Seq(Texts) /\ Len(url.path) \in Nat
  BY <1>1, <1>2, LenProperties, SeqDef
<1>4. Len(EscapedPath(url.path)) = Len(url.path)
  BY <1>3 DEF EscapedPath, Escaped, Unescaped
<1> QED BY <1>1, <1>3, <1>4, TextOfPage

\* Two ways to write a text: as it stands, when RawPath fits, and escaped. What
\* they write tells the text, since escape() leaves no bracket behind.
LEMMA WrittenApart ==
  ASSUME NEW p \in Seq(Texts), NEW q \in Seq(Texts), AsItStands(p), p = Escaped(q)
  PROVE  p = q
<1>1. /\ Len(p) \in Nat /\ Len(q) \in Nat
      /\ \A i \in 1..Len(q) : q[i] \in Texts
  BY ElementOfSeq, LenProperties
<1>2. Len(p) = Len(q) /\ \A i \in 1..Len(q) : p[i] = Escape(q[i])
  BY <1>1 DEF Escaped
<1>3. \A i \in 1..Len(q) : p[i] = q[i]
  BY <1>1, <1>2, EscapeUndone DEF AsItStands
<1> QED BY <1>1, <1>2, <1>3

LEMMA FittingStands ==
  ASSUME NEW url \in Urls, RawPathFits(url)
  PROVE  /\ AsItStands(url.path) /\ EscapedPath(url.path) = url.path
         /\ Written(url) = url.path /\ Valid(url.path)
<1>1. EscapedPath(url.path) = url.path /\ Unescaped(url.path) = url.path
  BY DEF RawPathFits, EscapedPath
<1>2. \A i \in 1..Len(url.path) : url.path[i] = Unescape(url.path[i])
  BY <1>1, LinksHaveTexts DEF Unescaped
<1>3. \A i \in 1..Len(url.path) : url.path[i] \in Texts
  BY LinksHaveTexts, ElementOfSeq
<1> QED BY <1>1, <1>2, <1>3, LiteralIfFixed DEF AsItStands, Written, RawPathFits

LEMMA WrittenTellsText ==
  ASSUME NEW url \in Urls, NEW other \in Urls, Written(url) = Written(other)
  PROVE  EscapedPath(url.path) = EscapedPath(other.path)
<1> DEFINE p == EscapedPath(url.path)
           q == EscapedPath(other.path)
<1>0. p \in Seq(Texts) /\ q \in Seq(Texts)
  BY LinksHaveTexts
<1>1. CASE RawPathFits(url) /\ RawPathFits(other)
  BY <1>1, FittingStands
<1>2. CASE RawPathFits(url) /\ ~RawPathFits(other)
  <2>1. p = Escaped(q) /\ AsItStands(p)
    BY <1>2, FittingStands DEF Written
  <2> HIDE DEF p, q
  <2>2. p = q
    BY <1>0, <2>1, WrittenApart
  <2> QED BY <2>2 DEF p, q
<1>3. CASE ~RawPathFits(url) /\ RawPathFits(other)
  <2>1. q = Escaped(p) /\ AsItStands(q)
    BY <1>3, FittingStands DEF Written
  <2> HIDE DEF p, q
  <2>2. p = q
    BY <1>0, <2>1, WrittenApart
  <2> QED BY <2>2 DEF p, q
<1>4. CASE ~RawPathFits(url) /\ ~RawPathFits(other)
  <2>1. Escaped(p) = Escaped(q)
    BY <1>4 DEF Written
  <2> HIDE DEF p, q
  <2>2. p = q
    BY <1>0, <2>1, EscapedUndone
  <2> QED BY <2>2 DEF p, q
<1> QED BY <1>1, <1>2, <1>3, <1>4

\* Where no bracket stands as it is, both ways write the same.
Unmarked(p) == \A i \in 1..Len(p) : Literal(p[i]) => p[i].word \notin Marked

LEMMA UnmarkedStay ==
  ASSUME NEW p \in Seq(Texts), AsItStands(p), Unmarked(p), Valid(p)
  PROVE  Escaped(p) = p
<1>1. Len(p) \in Nat /\ \A i \in 1..Len(p) : p[i] \in Texts /\ Plain(p[i])
  BY ElementOfSeq, LenProperties DEF AsItStands, Unmarked, Valid, Plain
<1>2. \A i \in 1..Len(p) : Escape(p[i]) = p[i]
  BY <1>1, EscapeUndone
<1>3. Escaped(p) = [i \in 1..Len(p) |-> p[i]]
  BY <1>2 DEF Escaped
<1> QED BY <1>1, <1>3

\* Escaped text that stands without escapes has no brackets.
LEMMA EscapedUnmarked ==
  ASSUME NEW p \in Seq(Texts)
  PROVE  Unmarked(Escaped(p))
<1>1. Len(p) \in Nat /\ \A i \in 1..Len(p) : p[i] \in Texts
  BY ElementOfSeq, LenProperties
<1>2. Len(Escaped(p)) = Len(p) /\ \A i \in 1..Len(p) : Escaped(p)[i] = Escape(p[i])
  BY <1>1 DEF Escaped
<1>3. \A i \in 1..Len(p) : Literal(Escape(p[i])) => Plain(p[i]) /\ Escape(p[i]) = p[i]
  BY <1>1, EscapeUndone
<1> QED BY <1>2, <1>3 DEF Unmarked, Plain

\* Links with one text, and alike in their slashes unless nothing in it is
\* marked, are written alike.
LEMMA TextTellsWritten ==
  ASSUME NEW url \in Urls, NEW other \in Urls,
         EscapedPath(url.path) = EscapedPath(other.path),
         (url.slashes = 0 <=> other.slashes = 0) \/ Unmarked(EscapedPath(url.path)),
         RawPathFits(url)
  PROVE  Written(url) = Written(other)
<1> DEFINE p == EscapedPath(url.path)
<1>0. p \in Seq(Texts) /\ p = url.path /\ AsItStands(p) /\ Valid(p) /\ Written(url) = p
  BY FittingStands, LinksHaveTexts
<1>1. CASE RawPathFits(other)
  BY <1>0, <1>1, FittingStands
<1>2. CASE ~RawPathFits(other)
  <2>1. Written(other) = Escaped(p)
    BY <1>2 DEF Written
  <2>2. Unmarked(p)
    <3>1. CASE Valid(other.path)
      <4>1. other.path = p
        BY <3>1 DEF EscapedPath
      <4>2. url.slashes = 0 /\ Unescaped(url.path) = EscapedPath(url.path)
        BY DEF RawPathFits
      <4>3. Unescaped(other.path) = EscapedPath(other.path)
        BY <1>0, <4>1, <4>2
      <4> QED BY <1>2, <3>1, <4>2, <4>3 DEF RawPathFits
    <3>2. CASE ~Valid(other.path)
      <4>1. p = Escaped(Unescaped(other.path))
        BY <3>2 DEF EscapedPath
      <4>2. Unescaped(other.path) \in Seq(Texts)
        BY LinksHaveTexts, UnescapedIsPath
      <4> QED BY <4>1, <4>2, EscapedUnmarked
    <3> QED BY <3>1, <3>2
  <2> HIDE DEF p
  <2>3. Escaped(p) = p
    BY <1>0, <2>2, UnmarkedStay
  <2> QED BY <1>0, <2>1, <2>3
<1> QED BY <1>1, <1>2

-----------------------------------------------------------------------------
(* What equality by URL is worth to the deduplication.                     *)

\* Equality by URL is sound: links with one canonical URL lead to one page,
\* however they are spelled, typed or tracked, although CanonicalURL escapes
\* paths twice. No two pages are taken for one.
THEOREM OneUrlOnePage ==
  ASSUME NEW url \in Urls, NEW other \in Urls, CanonicalURL(url) = CanonicalURL(other)
  PROVE  SamePage(url, other)
<1>1. CASE url.parses /\ other.parses
  <2>1. /\ url.host = other.host /\ url.params \ Dropped = other.params \ Dropped
        /\ Written(url) = Written(other)
    BY <1>1 DEF CanonicalURL
  <2>2. EscapedPath(url.path) = EscapedPath(other.path)
    BY <2>1, WrittenTellsText
  <2>3. Unescaped(url.path) = Unescaped(other.path)
    BY <2>2, TextOfPage, LinksHaveTexts
  <2> QED BY <1>1, <2>1, <2>3 DEF SamePage
<1>2. CASE ~(url.parses /\ other.parses)
  <2>1. /\ url.parses \in BOOLEAN /\ other.parses \in BOOLEAN
        /\ CanonicalURL(url).parses = url.parses /\ CanonicalURL(other).parses = other.parses
    BY DEF Urls, CanonicalURL
  <2>2. ~url.parses /\ ~other.parses
    BY <1>2, <2>1
  <2> QED BY <2>2 DEF CanonicalURL, SamePage
<1> QED BY <1>1, <1>2

\* It is not complete, and this is how much it misses: links to one page have one
\* canonical URL exactly when their escapes are spelled alike, so that %c3 and
\* %C3, or ~ and %7E, are two. A bare question mark tells links apart as well,
\* and so does a slash at the end where a bracket stands as it is.
THEOREM UrlFollowsSpelling ==
  ASSUME NEW url \in Urls, NEW other \in Urls, url.parses, other.parses,
         url.mark = other.mark,
         (url.slashes = 0 <=> other.slashes = 0) \/ Unmarked(EscapedPath(url.path))
  PROVE  CanonicalURL(url) = CanonicalURL(other) <=>
           /\ url.host = other.host /\ url.params \ Dropped = other.params \ Dropped
           /\ EscapedPath(url.path) = EscapedPath(other.path)
<1>1. ASSUME CanonicalURL(url) = CanonicalURL(other)
      PROVE  /\ url.host = other.host /\ url.params \ Dropped = other.params \ Dropped
             /\ Written(url) = Written(other)
  BY <1>1 DEF CanonicalURL
<1>2. ASSUME url.host = other.host, url.params \ Dropped = other.params \ Dropped,
             EscapedPath(url.path) = EscapedPath(other.path)
      PROVE  CanonicalURL(url) = CanonicalURL(other)
  <2>1. Len(url.path) = Len(other.path)
    BY <1>2, LinksHaveTexts
  <2>2. Written(url) = Written(other)
    <3>1. CASE RawPathFits(url)
      BY <1>2, <3>1, TextTellsWritten
    <3>2. CASE RawPathFits(other)
      BY <1>2, <3>2, TextTellsWritten
    <3>3. CASE ~RawPathFits(url) /\ ~RawPathFits(other)
      BY <1>2, <3>3 DEF Written
    <3> QED BY <3>1, <3>2, <3>3
  <2> QED BY <1>2, <2>1, <2>2 DEF CanonicalURL
<1> QED BY <1>1, <1>2, WrittenTellsText

-----------------------------------------------------------------------------
(* What the canonical URL is worth to a reader.                            *)

\* Where nothing in the path needs an escape, and no bracket stands before a
\* slash at the end, the canonical URL is an address of the page, and making it
\* canonical again, as the adapters and the crawler may, changes nothing.
THEOREM PlainAddressKept ==
  ASSUME NEW url \in Urls, url.parses, AsItStands(url.path), Valid(url.path),
         url.slashes = 0 \/ Unmarked(url.path)
  PROVE  /\ CanonicalURL(url).path = url.path
         /\ CanonicalURL(CanonicalURL(url)) = CanonicalURL(url)
<1> DEFINE can == CanonicalURL(url)
<1>0. url.path \in Seq(Texts) /\ Len(url.path) \in Nat
  BY LinksHaveTexts
<1>1. Unescaped(url.path) = url.path /\ EscapedPath(url.path) = url.path
  <2>1. Unescaped(url.path) = [i \in 1..Len(url.path) |-> url.path[i]]
    BY DEF AsItStands, Unescape, Unescaped
  <2> QED BY <1>0, <2>1 DEF EscapedPath
<1>2. Unmarked(url.path) => Escaped(url.path) = url.path
  BY <1>0, UnmarkedStay
<1>3. Written(url) = url.path
  BY <1>1, <1>2 DEF Written, RawPathFits
<1>4. /\ can.path = url.path /\ can.parses /\ can.host = url.host /\ can.mark = url.mark
      /\ can.params \ Dropped = can.params
      /\ can.slashes = (IF Len(url.path) = 0 THEN 1 ELSE 0)
  BY <1>3 DEF CanonicalURL
<1>5. Written(can) = url.path
  <2>1. CASE Len(url.path) = 0
    <3>1. Unmarked(url.path)
      BY <2>1 DEF Unmarked
    <3> QED BY <1>1, <1>2, <1>4, <3>1 DEF Written, RawPathFits
  <2>2. CASE Len(url.path) # 0
    BY <1>1, <1>4, <2>2 DEF Written, RawPathFits
  <2> QED BY <2>1, <2>2
<1>6. CanonicalURL(can) = can
  <2> HIDE DEF can
  <2>1. CanonicalURL(can) =
          [parses |-> TRUE, host |-> url.host, capitals |-> FALSE, path |-> url.path,
           slashes |-> IF Len(url.path) = 0 THEN 1 ELSE 0, params |-> can.params,
           mark |-> url.mark, fragment |-> FALSE]
    BY <1>4, <1>5 DEF CanonicalURL
  <2>2. can = [parses |-> TRUE, host |-> url.host, capitals |-> FALSE, path |-> url.path,
               slashes |-> IF Len(url.path) = 0 THEN 1 ELSE 0, params |-> url.params \ Dropped,
               mark |-> url.mark, fragment |-> FALSE]
    BY <1>3 DEF CanonicalURL, can
  <2> QED BY <2>1, <2>2
<1> QED BY <1>4, <1>6

\* With an escape in the path, or a character that needs one, it never is.
THEOREM EscapedAddressLost ==
  ASSUME NEW url \in Urls, url.parses, ~(AsItStands(url.path) /\ Valid(url.path))
  PROVE  Unescaped(CanonicalURL(url).path) # Unescaped(url.path)
<1> DEFINE p == url.path
           q == EscapedPath(p)
<1>0. /\ p \in Seq(Texts) /\ Len(p) \in Nat /\ q \in Seq(Texts)
      /\ \A i \in 1..Len(p) : p[i] \in Texts /\ p[i] \in Pieces
  BY LinksHaveTexts, ElementOfSeq
<1>1. ~RawPathFits(url)
  BY FittingStands
<1>2. CanonicalURL(url).path = Escaped(q)
  BY <1>1 DEF CanonicalURL, Written
<1>3. Unescaped(Escaped(q)) = q
  BY <1>0, EscapedUndone
<1>4. q # Unescaped(p)
  <2> SUFFICES ASSUME q = Unescaped(p) PROVE FALSE
    OBVIOUS
  <2>1. CASE Valid(p)
    <3>1. \A i \in 1..Len(p) : p[i] = Unescape(p[i])
      BY <1>0, <2>1 DEF EscapedPath, Unescaped
    <3>2. AsItStands(p)
      BY <1>0, <3>1, LiteralIfFixed DEF AsItStands
    <3> QED BY <2>1, <3>2
  <2>2. CASE ~Valid(p)
    <3>1. \A i \in 1..Len(p) : Escape(Unescape(p[i])) = Unescape(p[i])
      BY <1>0, <2>2 DEF EscapedPath, Escaped, Unescaped
    <3>2. PICK i \in 1..Len(p) : ~(IF Literal(p[i]) THEN p[i].word \notin Special
                                    ELSE p[i].how[Len(p[i].how)] \notin Sloppy)
      BY <2>2 DEF Valid
    <3>3. p[i].word \in Special
      <4>1. CASE Literal(p[i])
        BY <3>2, <4>1
      <4>2. CASE ~Literal(p[i])
        <5>1. Len(p[i].how) \in 1..Len(p[i].how)
          BY <1>0, <4>2, TextsAreRecords DEF Literal
        <5> QED BY <1>0, <3>2, <4>2, <5>1 DEF Pieces
      <4> QED BY <4>1, <4>2
    <3> QED BY <1>0, <3>1, <3>3, NeverRestored
  <2> QED BY <2>1, <2>2
<1> QED BY <1>2, <1>3, <1>4
=============================================================================

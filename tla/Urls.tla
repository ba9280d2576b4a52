-------------------------------- MODULE Urls --------------------------------
(***************************************************************************)
(* CanonicalURL, on the parts of an address it tells apart. Articles are   *)
(* compared by its result, which is also the link a reader gets.           *)
(*                                                                         *)
(* A path is a sequence of pieces, and a piece a word with the ways it was *)
(* percent-encoded, one after the other: none for caf(e), one for %28e%29, *)
(* two for %2528e%2529. Each is a spelling, since hexadecimal digits have  *)
(* two cases and characters that need no escape can be escaped: the text   *)
(* of a piece is its word with all its spellings. net/url keeps the text   *)
(* of a link beside the path it decodes to.                                *)
(***************************************************************************)
EXTENDS Integers, Sequences

CONSTANTS
  Hosts,    \* with their schemes, in lower case
  Words,    \* of paths
  Special,  \* those with a character no path can hold as it is: a blank, an accent
  Marked,   \* those with a bracket or another character that a path can hold
            \*   but escape() writes with a percent sign
  Variants, \* spellings other than the one of escape()
  Sloppy,   \* those that leave a special character as it is
  Params,   \* parameters, each a key with its values
  Listed,   \* tracking parameters that docs and code name
  Dropped,  \* those the code names, ref among them, and what Query() cannot read
  Links     \* links that feeds and listings bring

VARIABLES
  raw,      \* the link of a fetched item
  shown     \* canonical_url of its article, << >> before it is stored

vars == <<raw, shown>>

Spellings == {"usual"} \cup Variants
Pieces    == {t \in [word : Words, how : Seq(Spellings)] :
                \A k \in 1..Len(t.how) : t.how[k] \in Sloppy => t.word \in Special}

\* parses: url.Parse reads it; capitals: of scheme and host; slashes: at the end
\* of the path; mark: a question mark with nothing after it.
Urls == [parses : BOOLEAN, host : Hosts, capitals : BOOLEAN, path : Seq(Pieces),
         slashes : Nat, params : SUBSET Params, mark : BOOLEAN, fragment : BOOLEAN]

-----------------------------------------------------------------------------
(* net/url on paths.                                                       *)

Literal(t)  == t.how = << >>
Escape(t)   == IF Literal(t) /\ t.word \notin Special \cup Marked THEN t
               ELSE [t EXCEPT !.how = Append(@, "usual")]
Unescape(t) == IF Literal(t) THEN t ELSE [t EXCEPT !.how = SubSeq(@, 1, Len(@) - 1)]

Escaped(path)   == [i \in 1..Len(path) |-> Escape(path[i])]
Unescaped(path) == [i \in 1..Len(path) |-> Unescape(path[i])]

\* validEncoded: nothing stands as it is that no path can hold.
Valid(path) ==
  \A i \in 1..Len(path) : IF Literal(path[i]) THEN path[i].word \notin Special
                          ELSE path[i].how[Len(path[i].how)] \notin Sloppy

\* EscapedPath of a parsed link: a valid text is kept as it is spelled.
EscapedPath(path) == IF Valid(path) THEN path ELSE Escaped(Unescaped(path))

-----------------------------------------------------------------------------
(* CanonicalURL assigns the escaped text, less the slashes at its end, to  *)
(* Path, which is for decoded text, and leaves RawPath as Parse set it.    *)

\* The link's own text, which Parse left in RawPath if escape() writes another,
\* decodes to what Path holds now, and
\* so is what String writes.
RawPathFits(url) ==
  url.slashes = 0 /\ Valid(url.path) /\ Unescaped(url.path) = EscapedPath(url.path)

\* Otherwise it escapes Path, percent signs and all.
Written(url) ==
  IF RawPathFits(url) THEN url.path ELSE Escaped(EscapedPath(url.path))

CanonicalURL(url) ==
  IF ~url.parses THEN url
  ELSE [parses |-> TRUE, host |-> url.host, capitals |-> FALSE,
        path |-> Written(url), slashes |-> IF Len(url.path) = 0 THEN 1 ELSE 0,
        params |-> url.params \ Dropped, mark |-> url.mark, fragment |-> FALSE]

Init == raw \in Links /\ shown = << >>

\* The item of a feed or listing is stored under its canonical URL.
Store == shown = << >> /\ shown' = <<CanonicalURL(raw)>> /\ UNCHANGED raw

\* The same link, or another one, is fetched later.
Fetch == raw' \in Links /\ shown' = << >>

Next == Store \/ Fetch

Spec == Init /\ [][Next]_vars

-----------------------------------------------------------------------------
(* What an address stands for.                                             *)

\* The page a server is asked for: it sees the decoded path. Whether a path ends
\* in slashes, a bare question mark, the fragment and tracking parameters make no
\* other page. Of a text that is no URL nothing is known.
SamePage(url, other) ==
  IF url.parses /\ other.parses
  THEN /\ url.host = other.host
       /\ Unescaped(url.path) = Unescaped(other.path)
       /\ url.params \ Dropped = other.params \ Dropped
  ELSE url = other

\* docs/DEDUP_CLUSTERING.md: normalization changes the case of scheme and host,
\* the fragment, the listed parameters and the trailing slash, so the address of
\* an article, which the dashboard offers as its original URL, is of its page.
AddressKept ==
  shown # << >> =>
    /\ Unescaped(shown[1].path) = Unescaped(raw.path)
    /\ raw.params \ Listed \subseteq shown[1].params
=============================================================================

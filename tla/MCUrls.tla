------------------------------- MODULE MCUrls -------------------------------
(* Links of one host: a plain word, a word in brackets, a word with a blank *)
(* spelled in several ways, and text that is no URL.                        *)
EXTENDS Urls

CONSTANTS host, rates, bracket, blank, lower, mixed, ref, utm

Piece(word, how) == [word |-> word, how |-> how]

SomeLinks ==
  [parses : BOOLEAN, host : {host}, capitals : {TRUE},
   path : {<<Piece(rates, << >>)>>, <<Piece(rates, <<lower>>)>>, <<Piece(bracket, << >>)>>,
           <<Piece(bracket, <<"usual">>)>>, <<Piece(blank, << >>)>>, <<Piece(blank, <<mixed>>)>>,
           <<Piece(blank, <<"usual">>)>>, <<Piece(blank, <<"usual", "usual">>)>>},
   slashes : {0, 1}, params : SUBSET {utm}, mark : {FALSE}, fragment : {TRUE}]
=============================================================================

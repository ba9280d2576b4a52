--------------------------- MODULE MCSourceHealth ---------------------------
(* A server and a command over two sources, one crawled at a time.         *)
EXTENDS SourceHealth

CONSTANTS s1, s2, server, request, command
=============================================================================

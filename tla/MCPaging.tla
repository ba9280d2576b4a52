------------------------------ MODULE MCPaging ------------------------------
(* A list of up to five articles in pages of one or two.                   *)
EXTENDS Paging
=============================================================================

------------------------------- MODULE MCHub -------------------------------
(* Two connections, of one name or of two. *)
EXTENDS Hub
=============================================================================

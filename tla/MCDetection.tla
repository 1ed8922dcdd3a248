---------------------------- MODULE MCDetection ----------------------------
(* A STUN server with two hosts and two ports. *)
EXTENDS Detection

Server == At("primary", 1)
OtherServer == At("other", 2)
=============================================================================

---------------------------- MODULE MCHolePunch ----------------------------
(* What a hard NAT may have shown to the hub: two ports, or twice the same *)
(* one when the first answer came twice.                                   *)
EXTENDS HolePunch

ObservedPorts == {<<1, 4>>, <<1, 1>>}
=============================================================================

------------------------------ MODULE MCBridge ------------------------------
(* Model-checking instance of Bridge.  Of three peers with two names, two  *)
(* share one; up to renaming these are Busy and all peers but Odd, so that *)
(* nothing is lost by starting from these namings only (a symmetry set     *)
(* would be unsound for the liveness properties).                          *)
EXTENDS Bridge

Busy == CHOOSE n \in Names : TRUE
Odd == CHOOSE p \in Peers : TRUE

MCInit == Init /\ \A p \in Peers \ {Odd} : name[p] = Busy

MCFairSpec == MCInit /\ [][Next]_vars /\ Fairness
=============================================================================

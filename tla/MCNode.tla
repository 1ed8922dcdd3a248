------------------------------- MODULE MCNode -------------------------------
(* A session lost and replaced while the hub punches once, or two punches  *)
(* that cross: per behaviour, logins of each node, punches and failures.   *)
EXTENDS Node

Together == {<<2, 1, 1>>, <<1, 2, 0>>}
=============================================================================

------------------------------ MODULE MCRules ------------------------------
(* A network that is allowed twice, one that is not allowed.               *)
EXTENDS Rules

CONSTANTS x, y, z

Allowed == <<x, y, x>>
=============================================================================

------------------------------- MODULE MCRpc -------------------------------
(* Model-checking instance of Rpc; the calls are not declared symmetric    *)
(* because the runs check liveness.                                        *)
EXTENDS Rpc
=============================================================================

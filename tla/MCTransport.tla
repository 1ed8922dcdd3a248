---------------------------- MODULE MCTransport ----------------------------
(* A peer of the bridge: handlePeer reads raw packets, nobody the others.  *)
EXTENDS Transport

PeerReaders == {{"raw"}}
=============================================================================

------------------------------ MODULE MCTunnel ------------------------------
(* A byte has four values, and a packet of six or more bytes does not fit  *)
(* the buffer.  Two peers share a subnet; one of them routes a network.    *)
EXTENDS Tunnel

Session == {[tag |-> 1, size |-> n, id |-> 0] : n \in {0, 5}}
           \cup {[tag |-> 2, size |-> n, id |-> 0] : n \in {1, 9}}

Subnet == {"a", "b", "all"}
PeerIPs == [p \in Peers |-> Subnet]
PeerAddress == [p \in Peers |-> IF p = Far THEN "a" ELSE "b"]
Routers == {<<"b", {"lan"}>>}
Everyone == {"all"}

Segment(d, n) == [dst |-> d, size |-> n]
DeviceBatches ==
    {<<Segment("a", 4)>>, <<Segment("all", 5)>>, <<Segment("lan", 2)>>,
     <<Segment("a", 4), Segment("a", 2)>>, <<Segment("a", 2), Segment("a", 2)>>}
=============================================================================

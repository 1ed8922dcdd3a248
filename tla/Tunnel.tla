------------------------------- MODULE Tunnel -------------------------------
(***************************************************************************)
(* The two uses of a connection.  Over TCP a session carries JSON messages *)
(* of several goroutines.  Over UDP a hole carries the IP packets of the   *)
(* TUN device to the node Far: Tun.Read (pkg/device/tun.go) takes them one *)
(* by one out of the batches of the device, handleVeth (pkg/bridge) writes *)
(* each to the peers it is for, and Far's handlePeer writes to its device  *)
(* what UnpackFrom returns.  Peers come and go meanwhile (module Bridge).  *)
(***************************************************************************)
EXTENDS Framing, FiniteSets

CONSTANTS Messages,   \* what the goroutines of a session send
          Ping, Raw,  \* two of the tags
          Dests,      \* addresses that a packet may be for
          Peers, Far, \* names of peers; the one this tunnel leads to
          IPs,        \* of each peer, the network of its CIDR (ips)
          Address,    \* of each peer, its own address
          Routes,     \* Routers of the configuration: pairs of Next and network
          Broadcast,  \* the addresses that IsBroadcast knows
          BatchSize,  \* BatchSize of the device
          Batches,    \* what one read of the device may yield
          MaxPackets  \* bound: packets that Tun.Read returns

ASSUME Ends == Far \in Peers /\ {"veth", "alive"} \subseteq Writers /\ {Ping, Raw} \subseteq Tags
ASSUME Inputs ==
    /\ Messages \subseteq [tag : Tags, size : Nat, id : {0}]
    /\ BatchSize \in Nat
    /\ Batches \subseteq Seq([dst : Dests, size : Nat])
    /\ \A b \in Batches : Len(b) \in 1..BatchSize

VARIABLES packets,    \* history: the packets the device has yielded
          ids, sizes, \* readBufs and bufSizes of Tun, from 0
          total, current,  \* count and current of Tun
          taken,      \* history: how many packets Tun.Read has returned
          hv,         \* handleVeth: "read" or "range"
          data,       \* the packet it has read, and how much of it
          peers,      \* the peers listed
          visited,    \* the peers Range has been at
          steady,     \* history: peers listed ever since Range began
          given       \* history: peers the packet was written to

tun == <<packets, ids, sizes, total, current, taken>>
ranging == <<hv, data, visited, steady, given>>
vars == <<framing, tun, ranging, peers>>

Slots == 0..(BatchSize - 1)

TypeOK ==
    /\ FramingTypeOK
    /\ packets \in Seq([dst : Dests, size : Nat, mixed : BOOLEAN])
    /\ ids \in [Slots -> 0..Len(packets)] /\ sizes \in [Slots -> Nat]
    /\ total \in 0..BatchSize /\ current \in 0..BatchSize
    /\ taken \in 0..Len(packets)
    /\ hv \in {"read", "range"} /\ data.id \in 0..Len(packets) /\ data.n \in Nat
    /\ peers \subseteq Peers /\ visited \subseteq Peers
    /\ steady \subseteq peers /\ given \subseteq visited

Init ==
    /\ FramingInit
    /\ packets = <<>> /\ ids = [i \in Slots |-> 0] /\ sizes = [i \in Slots |-> 0]
    /\ total = 0 /\ current = 0 /\ taken = 0
    /\ hv = "read" /\ data = [id |-> 0, n |-> 0]
    /\ peers \in IF link = "udp" THEN SUBSET Peers ELSE {{}}
    /\ visited = {} /\ steady = {} /\ given = {}

-----------------------------------------------------------------------------
(* Tun.Read *)

(* The device fills the first buffers; the others keep their sizes.        *)
Filled(batch) ==
    LET first == Len(packets)
        mixed == \E i, j \in DOMAIN batch : batch[i].size # batch[j].size
    IN  /\ packets' = packets \o [i \in DOMAIN batch |->
                          [dst |-> batch[i].dst, size |-> batch[i].size, mixed |-> mixed]]
        /\ ids' = [i \in Slots |-> IF i < Len(batch) THEN first + i + 1 ELSE ids[i]]
        /\ sizes' = [i \in Slots |-> IF i < Len(batch) THEN batch[i + 1].size ELSE sizes[i]]

(* Going through all the buffers instead of those that were filled.       *)
Take_AllBuffers(filled) ==
    LET next == current + 1
        last == next >= BatchSize
    IN  /\ current' = IF last THEN 0 ELSE next
        /\ total' = IF last THEN 0 ELSE filled
        /\ data' = [id |-> ids'[current], n |-> sizes'[current']]

(* The size returned is looked up after current has moved on.              *)
Take(filled) ==
    LET next == current + 1
        last == next >= filled
    IN  /\ current' = IF last THEN 0 ELSE next
        /\ total' = IF last THEN 0 ELSE filled
        /\ data' = [id |-> ids'[current], n |-> sizes'[current']]

TunRead ==
    /\ link = "udp" /\ hv = "read" /\ taken < MaxPackets
    /\ \/ /\ total > 0
          /\ UNCHANGED <<packets, ids, sizes>>
          /\ Take(total)
       \/ /\ total = 0
          /\ \E batch \in Batches : Filled(batch) /\ Take(Len(batch))
    /\ taken' = taken + 1
    /\ hv' = "range" /\ visited' = {} /\ given' = {} /\ steady' = peers
    /\ UNCHANGED <<framing, peers>>

-----------------------------------------------------------------------------
(* handleVeth *)

(* NewNatPeer gives a peer the routes whose Next it is.                    *)
PeerRoutes(p) == UNION {r[2] : r \in {x \in Routes : x[1] = Address[p]}}

HasIP(p, dst) == dst \in IPs[p] \cup PeerRoutes(p)

IsFor(p, dst) == dst \in Broadcast \/ HasIP(p, dst)

(* sync.Map.Range visits no key twice; it may miss one that is stored or   *)
(* deleted meanwhile.  A write to the peer returns before Range goes on.   *)
Visit(p) ==
    /\ hv = "range" /\ pending["veth"] = <<>>
    /\ p \in peers \ visited
    /\ visited' = visited \cup {p}
    /\ IF IsFor(p, packets[data.id].dst)
       THEN /\ given' = given \cup {p}
            /\ IF p = Far
               THEN PackInto("veth", [tag |-> Raw, size |-> data.n, id |-> data.id])
               ELSE UNCHANGED framing
       ELSE UNCHANGED <<given, framing>>
    /\ UNCHANGED <<tun, hv, data, steady, peers>>

RangeEnds_FirstHit ==
    /\ hv = "range" /\ pending["veth"] = <<>>
    /\ given # {} \/ steady \subseteq visited
    /\ hv' = "read"
    /\ UNCHANGED <<framing, tun, data, visited, steady, given, peers>>

RangeEnds ==
    /\ hv = "range" /\ pending["veth"] = <<>>
    /\ steady \subseteq visited
    /\ hv' = "read"
    /\ UNCHANGED <<framing, tun, data, visited, steady, given, peers>>

(* addPeer and delPeer.  Far does not come back: it would be over another  *)
(* connection.                                                             *)
PeerListed(p) ==
    /\ link = "udp" /\ p \notin peers /\ p # Far
    /\ peers' = peers \cup {p}
    /\ UNCHANGED <<framing, tun, ranging>>

PeerGone(p) ==
    /\ link = "udp" /\ p \in peers
    /\ peers' = peers \ {p} /\ steady' = steady \ {p}
    /\ UNCHANGED <<framing, tun, hv, data, visited, given>>

-----------------------------------------------------------------------------
(* Who else writes: the goroutines of a session; the keepalive of a hole.  *)

Send(w) ==
    /\ \/ link = "tcp" /\ \E m \in Messages : PackInto(w, m)
       \/ link = "udp" /\ w = "alive" /\ PackInto(w, [tag |-> Ping, size |-> 0, id |-> 0])
    /\ UNCHANGED <<tun, ranging, peers>>

Carry ==
    /\ \/ \E w \in Writers : Write(w)
       \/ \E n \in 1..(HeaderSize + MaxPayload) : ReadStream(n)
       \/ \E d \in grams \cup {Stray} : ReadDatagram(d)
       \/ UnpackHeader \/ UnpackBody
    /\ UNCHANGED <<tun, ranging, peers>>

Next == \/ TunRead \/ RangeEnds
        \/ \E p \in Peers : Visit(p) \/ PeerListed(p) \/ PeerGone(p)
        \/ \E w \in Writers : Send(w)
        \/ Carry

Spec == Init /\ [][Next]_vars

-----------------------------------------------------------------------------
(* Properties *)

(* What UnpackFrom returns under a tag that the readloop knows is a packet *)
(* that was packed, whole, whatever reads cut off, however many goroutines *)
(* write, and wherever in a stream it has gone astray.                     *)
NeverForged ==
    pkt.tag \in Tags => \E f \in DOMAIN frames : pkt = Packet(f)

(* Where in the stream the packet that UnpackFrom returned last should end,*)
(* and the packets that begin before a place.                              *)
Here == IF want = 0 THEN pos ELSE pos - HeaderSize
Begun(p) == {i \in 1..p : in[i][2] = 1}

(* A session returns its packets in order and misses none as long as every *)
(* read of the stream ends where a packet does: it has returned as many as *)
(* there are up to here, and last the one that ends here.                  *)
InOrderUntilSplit ==
    link = "tcp" /\ ~split /\ Here > 0 =>
        Cardinality(Begun(Here)) = count /\ pkt = Packet(in[Here][1])

(* Over UDP a datagram that the buffer of the reader holds yields its      *)
(* packet, whatever came before it.                                        *)
DatagramsIndependent ==
    [][link = "udp" /\ pos < lim /\ pos' = lim' /\ in # Stray
         /\ Len(in) <= BufSize => pkt' = Packet(in[1][1])]_vars

(* Tun.Read returns each packet of each batch once and in order.           *)
TakenInOrder == data.id = taken

(* It returns the whole of a packet whose batch has one size of packet.    *)
CutOnlyInMixedBatch ==
    data.id > 0 /\ data.n # packets[data.id].size => packets[data.id].mixed

(* A packet is written to every peer it is for that is listed throughout,  *)
(* whoever comes and goes, and to no other.                                *)
ReachesItsPeers ==
    LET mine == {p \in Peers : IsFor(p, packets[data.id].dst)}
    IN  data.id > 0 => /\ given \subseteq mine
                       /\ hv = "read" => steady \cap mine \subseteq given
=============================================================================

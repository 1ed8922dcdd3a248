----------------------------- MODULE HolePunch -----------------------------
(***************************************************************************)
(* Two nodes make a hole to each other: MakeHole (pkg/nat/nat.go) runs on  *)
(* both with the plans of Analyze, through two NATs and a network that     *)
(* loses, delays, repeats and reorders packets.  The NATs are strict:      *)
(* they admit a packet only from an address that the socket has sent to;   *)
(* an easy one maps a socket to one port, a hard one every destination to  *)
(* a port of its own.  An end is "l" (the one that asked the hub) or "r".  *)
(***************************************************************************)
EXTENDS Analyze, FiniteSets, FiniteSetsExt, Sequences

CONSTANTS PublicPorts,     \* ports a hard NAT maps to
          Observed,        \* what a hard NAT shows: <<primary, secondary>> ports
          MaxRepeatTimes   \* maxRepeatTimes (5)

ASSUME Repeats == MaxRepeatTimes \in Nat \ {0}
ASSUME Opened == ManyLocal # 0
ASSUME Shown == PublicPorts \subseteq Nat /\ Observed \subseteq Nat \X Nat

Ends == {"l", "r"}
Other(n) == IF n = "l" THEN "r" ELSE "l"

(* Sockets are named by their local ports; the first is the one detected.  *)
Sockets(n, count) == IF n = "l" THEN 1..count ELSE (ManyLocal + 1)..(ManyLocal + count)
Detected(n) == IF n = "l" THEN 1 ELSE ManyLocal + 1

Addr(ip, port) == [ip |-> ip, port |-> port]
AnyIP == "0.0.0.0"
NoPath == [sock |-> 0, addr |-> Addr(AnyIP, 0)]

VARIABLES kind,     \* "easy" or "hard", the NAT of each end
          seen,     \* DetectResult of each end
          socks,    \* localConns
          targets,  \* remoteAddrs
          pc, act, rep,  \* where MakeHole stands: action, repetitions left
          nat,      \* the mappings of each NAT
          buf,      \* the first packet each socket has received
          path      \* what MakeHole returned

detection == <<kind, seen>>
hole == <<socks, targets, pc, act, rep, path>>
vars == <<detection, hole, nat, buf>>

AllSockets == Sockets("l", ManyLocal) \cup Sockets("r", ManyLocal)
Addrs == [ip : Ends \cup {AnyIP}, port : Nat]
Paths == [sock : AllSockets, addr : Addrs]
Mappings == [sock : AllSockets, dest : Addrs, port : PublicPorts \cup AllSockets]

plan == LET plans == Analyze(seen["l"], seen["r"])
        IN  [l |-> plans[1], r |-> plans[2]]

TypeOK ==
    /\ kind \in [Ends -> {"easy", "hard"}]
    /\ seen \in [Ends -> [local : Addrs, primary : Addrs, secondary : Addrs]]
    /\ socks \in [Ends -> SUBSET AllSockets]
    /\ targets \in [Ends -> SUBSET Addrs]
    /\ pc \in [Ends -> {"start", "action", "send", "wait", "made", "failed"}]
    /\ act \in [Ends -> DOMAIN ClientActions] /\ rep \in [Ends -> 0..MaxRepeatTimes]
    /\ nat \in [Ends -> SUBSET Mappings]
    /\ buf \in [Ends -> [AllSockets -> SUBSET Addrs]]
    /\ \A n \in Ends : \A s \in AllSockets : Cardinality(buf[n][s]) <= 1
    /\ path \in [Ends -> Paths \cup {NoPath}]
    /\ \A n \in Ends : pc[n] = "made" <=> path[n] # NoPath

(* Detect asks the hub's two ports from one socket, bound to 0.0.0.0, and  *)
(* closes it.  A duplicate of the first answer is taken for the second:    *)
(* Observed may hold pairs of equal ports.                                 *)
DetectResults(n, k) ==
    { [local |-> Addr(AnyIP, Detected(n)), primary |-> Addr(n, o[1]), secondary |-> Addr(n, o[2])] :
        o \in IF k = "easy" THEN {<<Detected(n), Detected(n)>>} ELSE Observed }

Init ==
    /\ kind \in [Ends -> {"easy", "hard"}]
    /\ \E dl \in DetectResults("l", kind["l"]), dr \in DetectResults("r", kind["r"]) :
          seen = [l |-> dl, r |-> dr]
    /\ socks = [n \in Ends |-> {}] /\ targets = [n \in Ends |-> {}]
    /\ pc = [n \in Ends |-> "start"]
    /\ act = [n \in Ends |-> 1] /\ rep = [n \in Ends |-> 0]
    /\ nat = [n \in Ends |-> {}]
    /\ buf = [n \in Ends |-> [s \in AllSockets |-> {}]]
    /\ path = [n \in Ends |-> NoPath]

Goto(n, l) == pc' = [pc EXCEPT ![n] = l]
This(n) == plan[n].actions[act[n]]
RepeatTimes(n) == IF This(n).repeat THEN MaxRepeatTimes ELSE 1

-----------------------------------------------------------------------------
(* The network (external) *)

Injections(new, free) == {f \in [new -> free] : \A x, y \in new : f[x] = f[y] => x = y}

(* Mappings of a NAT after the packets of the given sockets to dests.  The *)
(* ports a hard NAT showed to the hub are taken; packets for which it has  *)
(* no port left are lost.                                                  *)
MappedBy(n, ss, dests) ==
    LET new == {x \in ss \X dests : ~\E m \in nat[n] : m.sock = x[1] /\ m.dest = x[2]}
        free == PublicPorts \ ({m.port : m \in nat[n]} \cup {a.port : a \in Mapped(seen[n])})
        size == Lesser(Cardinality(new), Cardinality(free))
        ports == IF kind[n] = "easy" THEN {[x \in new |-> x[1]]}
                 ELSE UNION {Injections(some, free) : some \in kSubset(size, new)}
    IN  {nat[n] \cup {[sock |-> x[1], dest |-> x[2], port |-> f[x]] : x \in DOMAIN f} :
            f \in ports}

(* Nothing comes back from the address a hard NAT has shown to the hub: it *)
(* is not worth a mapping.                                                 *)
Alive(n, dests) ==
    {a \in dests : a.ip = Other(n) /\ ~(kind[a.ip] = "hard" /\ a \in Mapped(seen[a.ip]))}

(* Packets to 0.0.0.0 arrive at once at the sockets of the same host, and  *)
(* seem to come from 127.0.0.1; AnyIP stands for both.  The first socket   *)
(* sends first.                                                            *)
Looped(n, ss, dests, b) ==
    [t \in AllSockets |->
        IF t \in socks[n] /\ b[t] = {} /\ ss # {} /\ Addr(AnyIP, t) \in dests
        THEN {Addr(AnyIP, CHOOSE s \in ss : \A x \in ss : s <= x)}
        ELSE b[t]]

Send(n, ss, dests) ==
    nat' \in {[nat EXCEPT ![n] = m] : m \in MappedBy(n, ss, Alive(n, dests))}

(* Every mapping stands for packets that are on their way from it, for     *)
(* ever as far as the network is concerned.  One that comes to the NAT of  *)
(* the other end is dropped, which is not a step, or handed to a socket;   *)
(* there it waits to be read unless another came before.                   *)
Deliver(n, m, k) ==
    /\ m \in nat[Other(n)] /\ k \in nat[n]
    /\ m.dest = Addr(n, k.port) /\ k.dest = Addr(Other(n), m.port)
    /\ buf[n][k.sock] = {} /\ path[n] = NoPath
    /\ buf' = [buf EXCEPT ![n][k.sock] = {k.dest}]
    /\ UNCHANGED <<detection, hole, nat>>

-----------------------------------------------------------------------------
(* MakeHole *)

(* NoRepeatRandInts and RandomOne: distinct ports, an address for each. *)
Guesses(p) ==
    LET range == p.from..(p.to - 1)
        count == Lesser(p.guesses, Cardinality(range))
        ips == {a.ip : a \in p.remotes}
    IN  IF p.guesses > 1
        THEN {g \in SUBSET [ip : ips, port : range] :
                 Cardinality(g) = count /\ \A a, b \in g : a.port = b.port => a = b}
        ELSE {{}}

(* genEndpoint: the port of the first socket may have been taken since.    *)
Start(n) ==
    /\ pc[n] = "start"
    /\ LET all == Sockets(n, plan[n].locals)
       IN  \E s \in {all, all \ {Detected(n)}} : socks' = [socks EXCEPT ![n] = s]
    /\ \E g \in Guesses(plan[n]) : targets' = [targets EXCEPT ![n] = plan[n].remotes \cup g]
    /\ Goto(n, "action")
    /\ UNCHANGED <<detection, act, rep, path, nat, buf>>

SendAll(n) ==
    /\ Send(n, socks[n], targets[n])
    /\ buf' = [buf EXCEPT ![n] = Looped(n, socks[n], targets[n], @)]

TryRemote(n) ==
    /\ pc[n] = "action"
    /\ IF This(n).try THEN SendAll(n) ELSE UNCHANGED <<nat, buf>>
    /\ rep' = [rep EXCEPT ![n] = RepeatTimes(n)]
    /\ Goto(n, "send")
    /\ UNCHANGED <<detection, socks, targets, act, path>>

Repeat(n) ==
    /\ pc[n] = "send"
    /\ SendAll(n)
    /\ Goto(n, "wait")
    /\ UNCHANGED <<detection, socks, targets, act, rep, path>>

Received(n) == UNION {{[sock |-> s, addr |-> a] : a \in buf[n][s]} : s \in socks[n]}

(* The socket and the sender of a packet are returned, after an echo.      *)
Success_AnySender(n) ==
    /\ pc[n] = "wait"
    /\ \E r \in Received(n), a \in targets[n] :
          /\ path' = [path EXCEPT ![n] = [sock |-> r.sock, addr |-> a]]
          /\ IF This(n).try THEN Send(n, {r.sock}, {a}) ELSE UNCHANGED nat
    /\ Goto(n, "made")
    /\ UNCHANGED <<detection, socks, targets, act, rep, buf>>

Success(n) ==
    /\ pc[n] = "wait"
    /\ \E r \in Received(n) :
          /\ path' = [path EXCEPT ![n] = r]
          /\ IF This(n).try THEN Send(n, {r.sock}, {r.addr}) ELSE UNCHANGED nat
    /\ Goto(n, "made")
    /\ UNCHANGED <<detection, socks, targets, act, rep, buf>>

(* Five seconds without a packet: again, the next action, or give up.      *)
Timeout(n) ==
    /\ pc[n] = "wait" /\ Received(n) = {}
    /\ rep' = [rep EXCEPT ![n] = @ - 1]
    /\ IF rep[n] > 1 THEN Goto(n, "send") /\ UNCHANGED act
       ELSE IF act[n] < Len(plan[n].actions)
            THEN act' = [act EXCEPT ![n] = @ + 1] /\ Goto(n, "action")
            ELSE Goto(n, "failed") /\ UNCHANGED act
    /\ UNCHANGED <<detection, socks, targets, path, nat, buf>>

MakeHole(n) == Start(n) \/ TryRemote(n) \/ Repeat(n) \/ Success(n) \/ Timeout(n)

Next == \E n \in Ends :
            \/ MakeHole(n)
            \/ \E m \in nat[Other(n)], k \in nat[n] : Deliver(n, m, k)

Spec == Init /\ [][Next]_vars

-----------------------------------------------------------------------------
(* Properties *)

(* The NATs carry packets along p, a path of n, to its other end and back. *)
Works(n, p) ==
    LET o == p.addr.ip
    IN  \E m \in nat[n], k \in nat[o] :
            /\ m.sock = p.sock /\ m.dest = p.addr
            /\ k.port = p.addr.port /\ k.dest = Addr(n, m.port)

(* What MakeHole returns works in both directions, whatever was lost or    *)
(* overtaken and whichever socket was served first, unless it is the end's *)
(* own packet: the keepalive of the end that succeeded first reaches the   *)
(* end that still waits.                                                   *)
PathWorks == \A n \in Ends : pc[n] = "made" /\ path[n].addr.ip # AnyIP => Works(n, path[n])

(* An end that looks easy settles on the socket whose address the other    *)
(* was told, and two such ends on the two ends of one way.  An end that    *)
(* looks hard takes the first of many ways; the other may take another.    *)
EasyEndsMeet ==
    /\ \A n \in Ends : pc[n] = "made" /\ ~Hard(seen[n]) => path[n].sock = Detected(n)
    /\ (\A n \in Ends : pc[n] = "made" /\ ~Hard(seen[n])) =>
          \A n \in Ends : \E m \in nat[n] :
             m.sock = path[n].sock /\ m.dest = path[n].addr /\ path[Other(n)].addr = Addr(n, m.port)

(* README.MD:3 says that traffic is transferred over a P2P connection: an  *)
(* established one leads to the other node.                                *)
PeerReached == \A n \in Ends : pc[n] = "made" => path[n].addr.ip = Other(n)
=============================================================================

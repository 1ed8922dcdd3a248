----------------------------- MODULE NatProofs -----------------------------
(***************************************************************************)
(* Theorems about the two models of pkg/nat: hole punching (HolePunch),    *)
(* for any number of sockets, guesses, ports and repetitions, and          *)
(* detection (Detection), for any two addresses of the server.  The        *)
(* modules share no state.                                                 *)
(***************************************************************************)
EXTENDS HolePunch, Detection, FiniteSetTheorems, TLAPS

-----------------------------------------------------------------------------
(* HolePunch *)

(* An end takes its own packet for the other's only if both look hard: in  *)
(* no other plan is 0.0.0.0, where the other's socket is bound, a target.  *)
OwnPacketOnlyDoubleHard ==
    \A n \in Ends : pc[n] = "made" /\ path[n].addr.ip = AnyIP => \A e \in Ends : Hard(seen[e])

(* Ports are guessed of the end that looks hard only, by an end that knows *)
(* whom it guesses them of (the plans are not handed to the wrong ends).   *)
GuessesAimed ==
    \A n \in Ends : targets[n] \ plan[n].remotes # {} => Hard(seen[Other(n)])

BothHard == \A e \in Ends : Hard(seen[e])

(* Detect shows addresses of the end's own NAT; the socket is bound to     *)
(* 0.0.0.0.                                                                *)
SeenRight ==
    \A n \in Ends : seen[n].local.ip = AnyIP /\ seen[n].primary.ip = n /\ seen[n].secondary.ip = n

(* 0.0.0.0 is a target between two hard NATs only.                         *)
TargetsRight == \A n \in Ends : \A a \in targets[n] : a.ip = AnyIP => BothHard

(* A packet that waits to be read has come a way that works, or from the   *)
(* host itself.                                                            *)
WaitingWorks ==
    \A n \in Ends : \A s \in AllSockets : \A a \in buf[n][s] :
        IF a.ip = AnyIP THEN BothHard ELSE Works(n, [sock |-> s, addr |-> a]) /\ a.ip \in Ends

Repeating == \A n \in Ends : pc[n] \in {"send", "wait"} => rep[n] # 0

PathsToEnds == \A n \in Ends : pc[n] = "made" => path[n].addr.ip \in Ends \cup {AnyIP}

(* The sockets are consecutive.                                            *)
SocketsRight ==
    \A n \in Ends : \/ socks[n] = {}
                    \/ \E c \in {1, ManyLocal} :
                          socks[n] \in {Sockets(n, c), Sockets(n, c) \ {Detected(n)}}

IInv == /\ TypeOK /\ SocketsRight /\ Repeating /\ SeenRight /\ TargetsRight /\ WaitingWorks /\ PathsToEnds
        /\ PathWorks /\ OwnPacketOnlyDoubleHard /\ GuessesAimed

(* ------------------------------- lemmas -------------------------------- *)

LEMMA NoEndIsAnyIP == AnyIP \notin Ends /\ \A n \in Ends : Other(n) \in Ends
BY DEF AnyIP, Ends, Other

LEMMA SocketSets ==
    /\ \A n \in Ends : \A c \in {1, ManyLocal} : Sockets(n, c) \subseteq AllSockets
    /\ AllSockets \subseteq Nat \ {0}
    /\ NoPath \notin Paths
<1>1. ManyLocal \in Nat /\ ManyLocal # 0
  BY Ports, Opened
<1>2. \A n \in Ends : \A c \in {1, ManyLocal} : Sockets(n, c) \subseteq AllSockets
  BY <1>1 DEF Sockets, AllSockets, Ends
<1>3. AllSockets \subseteq Nat \ {0}
  BY <1>1 DEF Sockets, AllSockets
<1>. QED
  BY <1>2, <1>3 DEF NoPath, Paths

(* What Analyze makes of the two results.                                  *)
LEMMA PlanRight ==
    ASSUME TypeOK, SeenRight, NEW n \in Ends
    PROVE  /\ plan[n].locals \in {1, ManyLocal}
           /\ plan[n].remotes \subseteq Addrs
           /\ plan[n].from \in Int /\ plan[n].to \in Int /\ (plan[n].guesses > 1 => plan[n].from \in Nat)
           /\ plan[n].actions \in {ClientActions, ServerActions}
           /\ plan[n].guesses # 1 => Hard(seen[Other(n)])
           /\ \A a \in plan[n].remotes : a.ip = AnyIP => BothHard
<1>. DEFINE l == seen["l"]  r == seen["r"]
<1>1. /\ l \in [local : Addrs, primary : Addrs, secondary : Addrs]
      /\ r \in [local : Addrs, primary : Addrs, secondary : Addrs]
      /\ l.primary.ip = "l" /\ l.secondary.ip = "l" /\ r.primary.ip = "r" /\ r.secondary.ip = "r"
  BY DEF TypeOK, SeenRight, Ends
<1>2. /\ l.local \in Addrs /\ l.primary \in Addrs /\ l.secondary \in Addrs
      /\ r.local \in Addrs /\ r.primary \in Addrs /\ r.secondary \in Addrs
      /\ \A a \in Addrs : a.port \in Nat
  BY <1>1 DEF Addrs
<1>3. /\ From(l) \in Nat /\ To(l) \in Nat /\ From(r) \in Nat /\ To(r) \in Nat
      /\ LowPort \in Nat /\ HighPort \in Nat
  BY <1>2, Ports DEF From, To, Lesser, Greater
<1>4. BothHard <=> Hard(l) /\ Hard(r)
  BY DEF BothHard, Ends
<1>5. plan = [l |-> Analyze(l, r)[1], r |-> Analyze(l, r)[2]]
  BY DEF plan
<1>6. CASE n = "l"
  <2>1. plan[n] = Analyze(l, r)[1] /\ Other(n) = "r"
    BY <1>5, <1>6 DEF Other
  <2>. QED
    BY <1>1, <1>2, <1>3, <1>4, <2>1
       DEF Analyze, analyzeDoubleEasy, analyzeDoubleHard, analyzeHasEasy, Swap, Plan, Mapped, AnyIP
<1>7. CASE n = "r"
  <2>1. plan[n] = Analyze(l, r)[2] /\ Other(n) = "l"
    BY <1>5, <1>7 DEF Other
  <2>. QED
    BY <1>1, <1>2, <1>3, <1>4, <2>1
       DEF Analyze, analyzeDoubleEasy, analyzeDoubleHard, analyzeHasEasy, Swap, Plan, Mapped, AnyIP
<1>. QED
  BY <1>6, <1>7 DEF Ends

LEMMA GuessesRight ==
    ASSUME TypeOK, SeenRight, NEW n \in Ends, NEW g \in Guesses(plan[n])
    PROVE  /\ g \subseteq Addrs
           /\ g # {} => Hard(seen[Other(n)])
           /\ \A a \in g : a.ip = AnyIP => BothHard
<1>. DEFINE p == plan[n]
<1>1. CASE p.guesses > 1
  <2>1. /\ p.from..(p.to - 1) \subseteq Nat /\ p.remotes \subseteq Addrs
        /\ \A a \in p.remotes : a.ip \in Ends \cup {AnyIP} /\ (a.ip = AnyIP => BothHard)
    BY <1>1, PlanRight DEF Addrs
  <2>2. g \in SUBSET [ip : {a.ip : a \in p.remotes}, port : p.from..(p.to - 1)]
    BY <1>1 DEF Guesses
  <2>3. \A a \in g : a \in Addrs /\ (a.ip = AnyIP => BothHard)
    BY <2>1, <2>2 DEF Addrs
  <2>4. Hard(seen[Other(n)])
    BY <1>1, PlanRight
  <2>. QED
    BY <2>3, <2>4
<1>2. CASE ~(p.guesses > 1)
  BY <1>2 DEF Guesses
<1>. QED
  BY <1>1, <1>2

(* A NAT forgets nothing, and what it learns is of the packets it carries. *)
LEMMA MappingsGrow ==
    ASSUME TypeOK, NEW n \in Ends, NEW ss \in SUBSET AllSockets, NEW dests \in SUBSET Addrs,
           NEW m \in MappedBy(n, ss, dests)
    PROVE  /\ nat[n] \subseteq m /\ m \subseteq Mappings
           /\ \A k \in m \ nat[n] : k.sock \in ss /\ k.dest \in dests
<1>. DEFINE new == {x \in ss \X dests : ~\E k \in nat[n] : k.sock = x[1] /\ k.dest = x[2]}
            free == PublicPorts \ ({k.port : k \in nat[n]} \cup {a.port : a \in Mapped(seen[n])})
            size == Lesser(Cardinality(new), Cardinality(free))
            ports == IF kind[n] = "easy" THEN {[x \in new |-> x[1]]}
                     ELSE UNION {Injections(some, free) : some \in kSubset(size, new)}
<1>1. PICK f \in ports :
        m = nat[n] \cup {[sock |-> x[1], dest |-> x[2], port |-> f[x]] : x \in DOMAIN f}
  BY DEF MappedBy
<1>2. /\ DOMAIN f \subseteq new
      /\ \A x \in DOMAIN f : f[x] \in PublicPorts \cup AllSockets
  <2>1. CASE kind[n] = "easy"
    BY <1>1, <2>1
  <2>2. CASE kind[n] # "easy"
    <3>1. PICK some \in kSubset(size, new) : f \in Injections(some, free)
      BY <1>1, <2>2
    <3>2. some \subseteq new /\ f \in [some -> free]
      BY <3>1 DEF kSubset, Injections
    <3>. QED
      BY <3>2
  <2>. QED
    BY <2>1, <2>2
<1>3. \A x \in DOMAIN f : /\ [sock |-> x[1], dest |-> x[2], port |-> f[x]] \in Mappings
                           /\ x[1] \in ss /\ x[2] \in dests
  BY <1>2 DEF Mappings
<1>. QED
  BY <1>1, <1>3 DEF TypeOK

LEMMA SendRight ==
    ASSUME TypeOK, NEW n \in Ends, NEW ss \in SUBSET AllSockets, NEW dests \in SUBSET Addrs,
           Send(n, ss, dests)
    PROVE  /\ nat' \in [Ends -> SUBSET Mappings] /\ \A e \in Ends : nat[e] \subseteq nat'[e]
           /\ \A e \in Ends : \A k \in nat'[e] \ nat[e] : e = n /\ k.sock \in ss /\ k.dest \in dests
<1>1. Alive(n, dests) \in SUBSET Addrs /\ Alive(n, dests) \subseteq dests
  BY DEF Alive
<1>2. PICK m \in MappedBy(n, ss, Alive(n, dests)) : nat' = [nat EXCEPT ![n] = m]
  BY DEF Send
<1>3. /\ nat[n] \subseteq m /\ m \subseteq Mappings
      /\ \A k \in m \ nat[n] : k.sock \in ss /\ k.dest \in Alive(n, dests)
  BY <1>1, <1>2, MappingsGrow
<1>. QED
  BY <1>1, <1>2, <1>3 DEF TypeOK

LEMMA FirstSocket ==
    ASSUME SocketsRight, NEW n \in Ends, socks[n] # {}
    PROVE  \E x \in socks[n] : \A y \in socks[n] : x <= y
<1>1. PICK c \in {1, ManyLocal} : socks[n] \in {Sockets(n, c), Sockets(n, c) \ {Detected(n)}}
  BY DEF SocketsRight
<1>2. c \in Nat /\ c >= 1 /\ ManyLocal \in Nat
  BY Ports, Opened
<1>. DEFINE d == Detected(n)
<1>3. d \in Nat /\ Sockets(n, c) = d..(d + c - 1)
  BY <1>2 DEF Sockets, Detected
<1>4. CASE d \in socks[n]
  BY <1>1, <1>2, <1>3, <1>4
<1>5. CASE d \notin socks[n]
  <2>1. socks[n] = (d..(d + c - 1)) \ {d}
    <3>1. d \in d..(d + c - 1)
      BY <1>2, <1>3
    <3>. QED
      BY <1>1, <1>3, <1>5, <3>1
  <2>2. \A x : x \in socks[n] <=> x \in Int /\ d <= x /\ x <= d + c - 1 /\ x # d
    BY <1>2, <1>3, <2>1
  <2>3. PICK z : z \in socks[n]
    OBVIOUS
  <2>4. d + 1 \in socks[n] /\ \A y \in socks[n] : d + 1 <= y
    BY <1>2, <1>3, <2>2, <2>3
  <2>. QED
    BY <2>4
<1>. QED
  BY <1>4, <1>5

LEMMA WorksStays ==
    ASSUME NEW n \in Ends, NEW p, p.addr.ip \in Ends, Works(n, p),
           \A e \in Ends : nat[e] \subseteq nat'[e]
    PROVE  Works(n, p)'
BY DEF Works

LEMMA SameResults ==
    ASSUME IInv, UNCHANGED detection
    PROVE  /\ plan' = plan /\ SeenRight' /\ (BothHard' <=> BothHard)
           /\ kind' \in [Ends -> {"easy", "hard"}]
           /\ seen' \in [Ends -> [local : Addrs, primary : Addrs, secondary : Addrs]]
           /\ \A n \in Ends : Hard(seen'[n]) <=> Hard(seen[n])
BY DEF detection, plan, IInv, SeenRight, BothHard, TypeOK

(* Steps that leave plans, targets, sockets and paths alone.               *)
LEMMA Frame ==
    ASSUME IInv, UNCHANGED <<detection, path, targets, socks>>,
           \A e \in Ends : pc'[e] = "made" <=> pc[e] = "made"
    PROVE  SocketsRight' /\ TargetsRight' /\ GuessesAimed' /\ PathsToEnds' /\ OwnPacketOnlyDoubleHard'
<1>. USE DEF IInv
<1>1. /\ path' = path /\ targets' = targets /\ socks' = socks /\ seen' = seen /\ plan' = plan
      /\ BothHard' <=> BothHard
  BY SameResults DEF detection
<1>2. SocketsRight'
  BY <1>1 DEF SocketsRight
<1>3. TargetsRight'
  BY <1>1 DEF TargetsRight
<1>4. GuessesAimed'
  BY <1>1 DEF GuessesAimed
<1>5. PathsToEnds'
  BY <1>1 DEF PathsToEnds
<1>6. OwnPacketOnlyDoubleHard'
  BY <1>1 DEF OwnPacketOnlyDoubleHard
<1>. QED
  BY <1>2, <1>3, <1>4, <1>5, <1>6

(* The path of an end that has one goes on working.                        *)
LEMMA PathStays ==
    ASSUME NEW n \in Ends, path[n].addr.ip \in Ends, Works(n, path[n]), path'[n] = path[n],
           \A e \in Ends : nat[e] \subseteq nat'[e]
    PROVE  Works(n, path[n])'
BY DEF Works

LEMMA Initially == ASSUME Init PROVE IInv
<1>. USE DEF Init
<1>1. \A n \in Ends : \A k \in {"easy", "hard"} : \A d \in DetectResults(n, k) :
        /\ d \in [local : Addrs, primary : Addrs, secondary : Addrs]
        /\ d.local.ip = AnyIP /\ d.primary.ip = n /\ d.secondary.ip = n
  <2>1. \A n \in Ends : Detected(n) \in Nat
    BY Ports DEF Detected
  <2>2. \A n \in Ends \cup {AnyIP} : \A p \in Nat : Addr(n, p) \in Addrs /\ Addr(n, p).ip = n
    BY DEF Addr, Addrs
  <2>3. \A o \in Observed : o[1] \in Nat /\ o[2] \in Nat
    BY Shown
  <2>. SUFFICES ASSUME NEW n \in Ends, NEW k \in {"easy", "hard"}, NEW d \in DetectResults(n, k)
       PROVE  /\ d \in [local : Addrs, primary : Addrs, secondary : Addrs]
              /\ d.local.ip = AnyIP /\ d.primary.ip = n /\ d.secondary.ip = n
    OBVIOUS
  <2>4. PICK p \in Nat, q \in Nat :
          d = [local |-> Addr(AnyIP, Detected(n)), primary |-> Addr(n, p), secondary |-> Addr(n, q)]
    BY <2>1, <2>3 DEF DetectResults
  <2>. QED
    BY <2>1, <2>2, <2>4
<1>2. /\ seen \in [Ends -> [local : Addrs, primary : Addrs, secondary : Addrs]]
      /\ SeenRight
  <2>1. PICK dl \in DetectResults("l", kind["l"]), dr \in DetectResults("r", kind["r"]) :
          seen = [l |-> dl, r |-> dr]
    OBVIOUS
  <2>2. "l" \in Ends /\ "r" \in Ends /\ kind["l"] \in {"easy", "hard"} /\ kind["r"] \in {"easy", "hard"}
    BY DEF Ends
  <2>3. /\ dl \in [local : Addrs, primary : Addrs, secondary : Addrs]
        /\ dr \in [local : Addrs, primary : Addrs, secondary : Addrs]
        /\ dl.local.ip = AnyIP /\ dl.primary.ip = "l" /\ dl.secondary.ip = "l"
        /\ dr.local.ip = AnyIP /\ dr.primary.ip = "r" /\ dr.secondary.ip = "r"
    BY <1>1, <2>1, <2>2
  <2>. QED
    BY <2>1, <2>3 DEF SeenRight, Ends
<1>3. \A n \in Ends : \A s \in AllSockets : Cardinality(buf[n][s]) <= 1
  BY FS_EmptySet
<1>4. TypeOK
  BY <1>2, <1>3, Repeats DEF TypeOK, ClientActions
<1>. QED
  BY <1>2, <1>4 DEF IInv, SocketsRight, Repeating, TargetsRight, WaitingWorks, PathsToEnds, PathWorks,
                    OwnPacketOnlyDoubleHard, GuessesAimed

LEMMA StartStep == ASSUME IInv, NEW n \in Ends, Start(n) PROVE IInv'
<1>. USE DEF Start, Goto, IInv
<1>1. plan' = plan /\ SeenRight' /\ (BothHard' <=> BothHard)
      /\ \A e \in Ends : Hard(seen'[e]) <=> Hard(seen[e])
  BY SameResults
<1>2. PICK s \in SUBSET AllSockets : socks' = [socks EXCEPT ![n] = s]
  <2>1. Sockets(n, plan[n].locals) \subseteq AllSockets
    BY PlanRight, SocketSets
  <2>. QED
    BY <2>1
<1>3. PICK g \in Guesses(plan[n]) : targets' = [targets EXCEPT ![n] = plan[n].remotes \cup g]
  OBVIOUS
<1>4. /\ plan[n].remotes \cup g \subseteq Addrs
      /\ \A a \in plan[n].remotes \cup g : a.ip = AnyIP => BothHard
      /\ g # {} => Hard(seen[Other(n)])
  BY PlanRight, GuessesRight
<1>5. pc[n] # "made" /\ pc' = [pc EXCEPT ![n] = "action"]
  OBVIOUS
<1>6. /\ pc' \in [Ends -> {"start", "action", "send", "wait", "made", "failed"}]
      /\ \A e \in Ends : pc'[e] = "made" <=> pc[e] = "made"
  BY <1>5 DEF TypeOK
<1>11. SocketsRight'
  <2>1. PICK t \in {Sockets(n, plan[n].locals), Sockets(n, plan[n].locals) \ {Detected(n)}} :
           socks' = [socks EXCEPT ![n] = t]
    OBVIOUS
  <2>2. plan[n].locals \in {1, ManyLocal}
    BY PlanRight
  <2>3. \A e \in Ends : socks'[e] = IF e = n THEN t ELSE socks[e]
    BY <2>1 DEF TypeOK
  <2>. QED
    BY <2>1, <2>2, <2>3 DEF SocketsRight
<1>12. Repeating'
  BY <1>5 DEF Repeating, TypeOK
<1>7. TypeOK'
  BY <1>2, <1>3, <1>4, <1>6, SameResults DEF TypeOK
<1>8. TargetsRight' /\ GuessesAimed'
  BY <1>1, <1>3, <1>4 DEF TypeOK, TargetsRight, GuessesAimed, Ends, Other
<1>9. WaitingWorks'
  BY <1>1 DEF WaitingWorks, Works
<1>10. PathsToEnds' /\ PathWorks' /\ OwnPacketOnlyDoubleHard'
  BY <1>1, <1>6 DEF PathsToEnds, PathWorks, OwnPacketOnlyDoubleHard, Works, BothHard
<1>. QED
  BY <1>1, <1>7, <1>8, <1>9, <1>10, <1>11, <1>12

(* Packets of the socks to the targets.                                    *)
LEMMA SendAllRight ==
    ASSUME IInv, NEW n \in Ends, UNCHANGED <<detection, path, targets, socks>>,
           SendAll(n) \/ UNCHANGED <<nat, buf>>,
           \A e \in Ends : pc'[e] = "made" <=> pc[e] = "made"
    PROVE  /\ nat' \in [Ends -> SUBSET Mappings]
           /\ buf' \in [Ends -> [AllSockets -> SUBSET Addrs]]
           /\ \A e \in Ends : \A s \in AllSockets : Cardinality(buf'[e][s]) <= 1
           /\ WaitingWorks' /\ PathWorks'
<1>. USE DEF IInv
<1>1. /\ nat' \in [Ends -> SUBSET Mappings] /\ \A e \in Ends : nat[e] \subseteq nat'[e]
  <2>1. socks[n] \in SUBSET AllSockets /\ targets[n] \in SUBSET Addrs
    BY DEF TypeOK
  <2>. QED
    BY <2>1, SendRight DEF SendAll, TypeOK
<1>2. /\ buf' \in [Ends -> [AllSockets -> SUBSET Addrs]]
      /\ \A e \in Ends : \A s \in AllSockets :
            \/ buf'[e][s] = buf[e][s]
            \/ \E p \in AllSockets : buf'[e][s] = {Addr(AnyIP, p)} /\ BothHard
  <2>1. CASE UNCHANGED <<nat, buf>>
    BY <2>1 DEF TypeOK
  <2>2. CASE SendAll(n)
    <3>. DEFINE L == Looped(n, socks[n], targets[n], buf[n])
    <3>1. buf' = [buf EXCEPT ![n] = L] /\ buf \in [Ends -> [AllSockets -> SUBSET Addrs]]
      BY <2>2 DEF SendAll, TypeOK
    <3>2. \A s \in AllSockets : \/ L[s] = buf[n][s]
                                \/ \E p \in AllSockets : L[s] = {Addr(AnyIP, p)} /\ BothHard
      <4>. SUFFICES ASSUME NEW s \in AllSockets, L[s] # buf[n][s]
                    PROVE  \E p \in AllSockets : L[s] = {Addr(AnyIP, p)} /\ BothHard
        OBVIOUS
      <4>. DEFINE first == CHOOSE x \in socks[n] : \A y \in socks[n] : x <= y
      <4>1. L[s] = {Addr(AnyIP, first)} /\ socks[n] # {} /\ Addr(AnyIP, s) \in targets[n]
        BY DEF Looped
      <4>2. BothHard
        BY <4>1 DEF TargetsRight, Addr
      <4>3. first \in AllSockets
        <5>1. socks[n] \subseteq Nat /\ socks[n] \subseteq AllSockets
          BY SocketSets DEF TypeOK
        <5>2. \E x \in socks[n] : \A y \in socks[n] : x <= y
          BY <4>1, FirstSocket
        <5>. QED
          BY <5>1, <5>2
      <4>. QED
        BY <4>1, <4>2, <4>3
    <3>3. L \in [AllSockets -> SUBSET Addrs]
      <4>1. \A p \in AllSockets : Addr(AnyIP, p) \in Addrs
        BY SocketSets DEF Addr, Addrs
      <4>2. \A s \in AllSockets : L[s] \in SUBSET Addrs
        BY <3>1, <3>2, <4>1
      <4>3. L = [s \in AllSockets |-> L[s]]
        BY DEF Looped
      <4>. QED
        BY <4>2, <4>3
    <3>. QED
      BY <3>1, <3>2, <3>3
  <2>. QED
    BY <2>1, <2>2
<1>3. \A e \in Ends : \A s \in AllSockets : Cardinality(buf'[e][s]) <= 1
  <2>1. \A e \in Ends : \A s \in AllSockets : Cardinality(buf[e][s]) <= 1
    BY DEF TypeOK
  <2>2. \A p \in AllSockets : Cardinality({Addr(AnyIP, p)}) = 1
    <3>. TAKE p \in AllSockets
    <3>. HIDE DEF Addr
    <3>. QED
      BY FS_Singleton, Zenon
  <2>. SUFFICES ASSUME NEW e \in Ends, NEW s \in AllSockets PROVE Cardinality(buf'[e][s]) <= 1
    OBVIOUS
  <2>3. CASE buf'[e][s] = buf[e][s]
    BY <2>1, <2>3
  <2>4. CASE \E p \in AllSockets : buf'[e][s] = {Addr(AnyIP, p)}
    BY <2>2, <2>4
  <2>. QED
    BY <1>2, <2>3, <2>4
<1>4. WaitingWorks'
  <2>. SUFFICES ASSUME NEW e \in Ends, NEW s \in AllSockets, NEW a \in buf'[e][s]
       PROVE  IF a.ip = AnyIP THEN BothHard
              ELSE Works(e, [sock |-> s, addr |-> a])' /\ a.ip \in Ends
    BY SameResults DEF WaitingWorks
  <2>1. CASE a \in buf[e][s]
    BY <1>1, <2>1, WorksStays DEF WaitingWorks
  <2>2. CASE a \notin buf[e][s]
    BY <1>2, <2>2 DEF Addr
  <2>. QED
    BY <2>1, <2>2
<1>5. PathWorks'
  <2>. SUFFICES ASSUME NEW e \in Ends, pc'[e] = "made", path'[e].addr.ip # AnyIP
                PROVE  Works(e, path[e])'
    BY DEF PathWorks
  <2>1. path'[e] = path[e] /\ path[e].addr.ip \in Ends /\ Works(e, path[e])
    BY DEF PathWorks, PathsToEnds
  <2>. QED
    BY <1>1, <2>1, PathStays
<1>. QED
  BY <1>1, <1>2, <1>3, <1>4, <1>5

LEMMA TryStep == ASSUME IInv, NEW n \in Ends, TryRemote(n) \/ Repeat(n) PROVE IInv'
<1>. USE DEF TryRemote, Repeat, Goto, RepeatTimes, IInv
<1>1. /\ UNCHANGED <<detection, path, targets, socks, act>>
      /\ SendAll(n) \/ UNCHANGED <<nat, buf>>
  OBVIOUS
<1>2. /\ pc' \in [Ends -> {"start", "action", "send", "wait", "made", "failed"}]
      /\ \A e \in Ends : pc'[e] = "made" <=> pc[e] = "made"
      /\ rep' \in [Ends -> 0..MaxRepeatTimes]
  <2>1. \E l \in {"send", "wait"} : pc' = [pc EXCEPT ![n] = l] /\ pc[n] # "made"
    OBVIOUS
  <2>2. rep' = rep \/ \E i \in 0..MaxRepeatTimes : rep' = [rep EXCEPT ![n] = i]
    BY Repeats
  <2>3. /\ pc \in [Ends -> {"start", "action", "send", "wait", "made", "failed"}]
        /\ rep \in [Ends -> 0..MaxRepeatTimes]
    BY DEF TypeOK
  <2>4. rep' \in [Ends -> 0..MaxRepeatTimes]
    BY <2>2, <2>3
  <2>. QED
    BY <2>1, <2>3, <2>4
<1>3. plan' = plan /\ SeenRight' /\ (BothHard' <=> BothHard)
      /\ \A e \in Ends : Hard(seen'[e]) <=> Hard(seen[e])
  BY <1>1, SameResults
<1>4. TypeOK' /\ WaitingWorks' /\ PathWorks'
  BY <1>1, <1>2, SendAllRight, SameResults DEF TypeOK
<1>5. SocketsRight' /\ TargetsRight' /\ GuessesAimed' /\ PathsToEnds' /\ OwnPacketOnlyDoubleHard'
  BY <1>1, <1>2, Frame
<1>6. Repeating'
  BY Repeats DEF Repeating, TypeOK
<1>. QED
  BY <1>3, <1>4, <1>5, <1>6

LEMMA SuccessStep == ASSUME IInv, NEW n \in Ends, Success(n) PROVE IInv'
<1>. USE DEF Success, Goto, IInv
<1>1. PICK r \in Received(n) : /\ path' = [path EXCEPT ![n] = r]
                               /\ IF This(n).try THEN Send(n, {r.sock}, {r.addr}) ELSE UNCHANGED nat
  OBVIOUS
<1>2. PICK s \in AllSockets, a \in Addrs : a \in buf[n][s] /\ r = [sock |-> s, addr |-> a]
  BY <1>1 DEF Received, TypeOK
<1>3. /\ a \in Addrs /\ r \in Paths
      /\ IF a.ip = AnyIP THEN BothHard ELSE Works(n, r) /\ a.ip \in Ends
  BY <1>2 DEF TypeOK, Paths, WaitingWorks
<1>4. /\ nat' \in [Ends -> SUBSET Mappings] /\ \A e \in Ends : nat[e] \subseteq nat'[e]
  <2>1. {r.sock} \in SUBSET AllSockets /\ {r.addr} \in SUBSET Addrs
    BY <1>2
  <2>. QED
    BY <1>1, <2>1, SendRight DEF TypeOK
<1>5. UNCHANGED <<detection, socks, targets, act, rep, buf>> /\ pc' = [pc EXCEPT ![n] = "made"]
  OBVIOUS
<1>6. plan' = plan /\ SeenRight' /\ (BothHard' <=> BothHard)
      /\ \A e \in Ends : Hard(seen'[e]) <=> Hard(seen[e])
  BY <1>5, SameResults
<1>7. TypeOK'
  <2>1. r # NoPath
    BY <1>3, SocketSets
  <2>2. /\ path' \in [Ends -> Paths \cup {NoPath}]
        /\ pc' \in [Ends -> {"start", "action", "send", "wait", "made", "failed"}]
        /\ \A e \in Ends : pc'[e] = "made" <=> path'[e] # NoPath
    BY <1>1, <1>3, <1>5, <2>1 DEF TypeOK
  <2>. QED
    BY <1>4, <1>5, <2>2, SameResults DEF TypeOK
<1>8. WaitingWorks'
  <2>. SUFFICES ASSUME NEW e \in Ends, NEW t \in AllSockets, NEW b \in buf[e][t]
       PROVE  IF b.ip = AnyIP THEN BothHard
              ELSE Works(e, [sock |-> t, addr |-> b])' /\ b.ip \in Ends
    BY <1>5, <1>6 DEF WaitingWorks
  <2>. QED
    BY <1>4, WorksStays DEF WaitingWorks
<1>9. PathsToEnds'
  BY <1>1, <1>2, <1>3, <1>5 DEF PathsToEnds, TypeOK
<1>10. PathWorks'
  <2>. SUFFICES ASSUME NEW e \in Ends, pc'[e] = "made", path'[e].addr.ip # AnyIP
       PROVE  Works(e, path[e])'
    BY DEF PathWorks
  <2>1. CASE e = n
    <3>1. path'[e] = r /\ Works(n, r) /\ r.addr.ip \in Ends
      BY <1>1, <1>2, <1>3, <2>1 DEF TypeOK
    <3>. QED
      BY <1>4, <2>1, <3>1 DEF Works
  <2>2. CASE e # n
    <3>1. path'[e] = path[e] /\ pc[e] = "made"
      BY <1>1, <1>5, <2>2 DEF TypeOK
    <3>2. Works(e, path[e]) /\ path[e].addr.ip \in Ends
      BY <3>1 DEF PathWorks, PathsToEnds
    <3>. QED
      BY <1>4, <3>1, <3>2, PathStays
  <2>. QED
    BY <2>1, <2>2
<1>11. OwnPacketOnlyDoubleHard'
  BY <1>1, <1>2, <1>3, <1>5, <1>6 DEF OwnPacketOnlyDoubleHard, BothHard, TypeOK
<1>12. SocketsRight' /\ Repeating' /\ TargetsRight' /\ GuessesAimed'
  <2>1. SocketsRight'
    BY <1>5 DEF SocketsRight
  <2>2. Repeating'
    BY <1>5 DEF Repeating, TypeOK
  <2>3. TargetsRight'
    BY <1>5, <1>6 DEF TargetsRight
  <2>4. GuessesAimed'
    BY <1>5, <1>6, NoEndIsAnyIP DEF GuessesAimed
  <2>. QED
    BY <2>1, <2>2, <2>3, <2>4
<1>. QED
  BY <1>6, <1>7, <1>8, <1>9, <1>10, <1>11, <1>12

LEMMA TimeoutStep == ASSUME IInv, NEW n \in Ends, Timeout(n) PROVE IInv'
<1>. USE DEF Timeout, Goto, IInv
<1>1. UNCHANGED <<detection, socks, targets, path, nat, buf>>
  OBVIOUS
<1>2. plan' = plan /\ SeenRight' /\ (BothHard' <=> BothHard)
      /\ \A e \in Ends : Hard(seen'[e]) <=> Hard(seen[e])
  BY <1>1, SameResults
<1>3. /\ pc' \in [Ends -> {"start", "action", "send", "wait", "made", "failed"}]
      /\ \A e \in Ends : pc'[e] = "made" <=> pc[e] = "made"
  BY DEF TypeOK
<1>4. act' \in [Ends -> DOMAIN ClientActions]
  <2>1. Len(plan[n].actions) = 2 /\ DOMAIN ClientActions = 1..2
    <3>1. /\ \A a \in {ClientActions, ServerActions} : Len(a) = 2
          /\ DOMAIN ClientActions = 1..2
      BY DEF ClientActions, ServerActions
    <3>. QED
      BY <3>1, PlanRight
  <2>2. act[n] \in 1..2 /\ act \in [Ends -> 1..2]
    BY <2>1 DEF TypeOK
  <2>3. act' = act \/ (act[n] < 2 /\ act' = [act EXCEPT ![n] = act[n] + 1])
    BY <2>1
  <2>. QED
    BY <2>1, <2>2, <2>3
<1>5. rep' \in [Ends -> 0..MaxRepeatTimes] /\ Repeating'
  <2>1. rep[n] \in 1..MaxRepeatTimes
    BY Repeats DEF TypeOK, Repeating
  <2>2. rep' = [rep EXCEPT ![n] = rep[n] - 1] /\ rep \in [Ends -> 0..MaxRepeatTimes]
    BY DEF TypeOK
  <2>3. pc'[n] \in {"send", "wait"} => rep[n] > 1
    BY DEF TypeOK
  <2>. QED
    BY <2>1, <2>2, <2>3, Repeats DEF Repeating, TypeOK
<1>6. TypeOK'
  BY <1>1, <1>3, <1>4, <1>5, SameResults DEF TypeOK
<1>7. WaitingWorks' /\ PathWorks'
  BY <1>1, <1>2, <1>3 DEF WaitingWorks, PathWorks, Works
<1>8. SocketsRight' /\ TargetsRight' /\ GuessesAimed' /\ PathsToEnds' /\ OwnPacketOnlyDoubleHard'
  BY <1>1, <1>3, Frame
<1>. QED
  BY <1>2, <1>5, <1>6, <1>7, <1>8

LEMMA DeliverStep ==
    ASSUME IInv, NEW n \in Ends, NEW m \in nat[Other(n)], NEW k \in nat[n], Deliver(n, m, k)
    PROVE  IInv'
<1>. USE DEF Deliver, IInv
<1>. DEFINE o == Other(n)
<1>1. UNCHANGED <<detection, socks, targets, pc, act, rep, path, nat>>
  BY DEF hole
<1>2. plan' = plan /\ SeenRight' /\ (BothHard' <=> BothHard)
      /\ \A e \in Ends : Hard(seen'[e]) <=> Hard(seen[e])
  BY <1>1, SameResults
<1>3. o \in Ends /\ k \in Mappings /\ k.sock \in AllSockets /\ k.dest \in Addrs /\ k.dest = Addr(o, m.port)
  BY NoEndIsAnyIP DEF TypeOK, Mappings
<1>4. buf' = [buf EXCEPT ![n][k.sock] = {k.dest}] /\ buf \in [Ends -> [AllSockets -> SUBSET Addrs]]
  BY DEF TypeOK
<1>5. \A e \in Ends : \A s \in AllSockets :
        buf'[e][s] = IF e = n /\ s = k.sock THEN {k.dest} ELSE buf[e][s]
  BY <1>3, <1>4
<1>6. buf' \in [Ends -> [AllSockets -> SUBSET Addrs]]
  BY <1>3, <1>4
<1>7. \A e \in Ends : \A s \in AllSockets : Cardinality(buf'[e][s]) <= 1
  <2>1. Cardinality({k.dest}) = 1
    BY FS_Singleton
  <2>2. \A e \in Ends : \A s \in AllSockets : Cardinality(buf[e][s]) <= 1
    BY DEF TypeOK
  <2>. QED
    BY <1>5, <2>1, <2>2
<1>8. TypeOK'
  BY <1>1, <1>6, <1>7, SameResults DEF TypeOK
<1>9. WaitingWorks'
  <2>1. k.dest.ip = o /\ o # AnyIP /\ k.dest.port = m.port
    BY <1>3, NoEndIsAnyIP DEF Addr
  <2>2. Works(n, [sock |-> k.sock, addr |-> k.dest])
    BY <1>3, <2>1 DEF Works
  <2>. QED
    BY <1>1, <1>2, <1>3, <1>5, <2>1, <2>2 DEF WaitingWorks, Works
<1>10. SocketsRight' /\ TargetsRight' /\ GuessesAimed' /\ PathsToEnds' /\ OwnPacketOnlyDoubleHard'
  BY <1>1, Frame
<1>11. Repeating' /\ PathWorks'
  BY <1>1 DEF Repeating, PathWorks, Works
<1>. QED
  BY <1>2, <1>8, <1>9, <1>10, <1>11

LEMMA Step == ASSUME IInv, [Next]_vars PROVE IInv'
<1>1. CASE UNCHANGED vars
  <2>. USE DEF IInv
  <2>1. UNCHANGED <<detection, socks, targets, pc, act, rep, path, nat, buf>>
    BY <1>1 DEF vars, hole
  <2>2. SocketsRight' /\ TargetsRight' /\ GuessesAimed' /\ PathsToEnds' /\ OwnPacketOnlyDoubleHard'
    BY <2>1, Frame
  <2>3. TypeOK' /\ SeenRight' /\ (BothHard' <=> BothHard)
    BY <2>1, SameResults DEF TypeOK
  <2>4. Repeating' /\ PathWorks' /\ WaitingWorks'
    BY <2>1, <2>3 DEF Repeating, PathWorks, WaitingWorks, Works
  <2>. QED
    BY <2>2, <2>3, <2>4
<1>2. CASE Next
  BY <1>2, StartStep, TryStep, SuccessStep, TimeoutStep, DeliverStep DEF Next, MakeHole
<1>. QED
  BY <1>1, <1>2

(* An end that looks easy sends from the socket it was detected with, and  *)
(* between two of them there is one address to send to.                    *)
EasyNarrow ==
    /\ \A n \in Ends : ~Hard(seen[n]) =>
          /\ socks[n] \subseteq {Detected(n)}
          /\ \A m \in nat[n] : m.sock = Detected(n)
          /\ pc[n] = "made" => path[n].sock = Detected(n)
    /\ (\A n \in Ends : ~Hard(seen[n])) =>
          \A n \in Ends : /\ targets[n] \subseteq {seen[Other(n)].primary}
                         /\ \A m \in nat[n] : m.dest = seen[Other(n)].primary

LEMMA EasyPlan ==
    ASSUME TypeOK, NEW n \in Ends, ~Hard(seen[n])
    PROVE  /\ plan[n].locals = 1
           /\ ~Hard(seen[Other(n)]) => /\ plan[n].remotes = {seen[Other(n)].primary}
                                       /\ plan[n].guesses = 1
<1>. DEFINE l == seen["l"]  r == seen["r"]
<1>1. \A e \in Ends : ~Hard(seen[e]) => Mapped(seen[e]) = {seen[e].primary}
  <2>. SUFFICES ASSUME NEW e \in Ends, ~Hard(seen[e]) PROVE Mapped(seen[e]) = {seen[e].primary}
    OBVIOUS
  <2>1. seen[e].primary \in Addrs /\ seen[e].secondary \in Addrs
    BY DEF TypeOK
  <2>2. seen[e].primary = seen[e].secondary
    BY <2>1 DEF Addrs, Hard, isRandomPort, isMultiExternIP
  <2>. QED
    BY <2>2 DEF Mapped
<1>2. plan = [l |-> Analyze(l, r)[1], r |-> Analyze(l, r)[2]]
  BY DEF plan
<1>3. CASE n = "l"
  BY <1>1, <1>2, <1>3
  DEF Other, Ends, Analyze, analyzeDoubleEasy, analyzeHasEasy, Swap, Plan
<1>4. CASE n = "r"
  BY <1>1, <1>2, <1>4
  DEF Other, Ends, Analyze, analyzeDoubleEasy, analyzeHasEasy, Swap, Plan
<1>. QED
  BY <1>3, <1>4 DEF Ends

(* Steps that send from the sockets of an end to its targets, or nothing.  *)
LEMMA SendsNarrow ==
    ASSUME IInv, EasyNarrow, NEW n \in Ends,
           UNCHANGED <<detection, socks, targets>>,
           \A e \in Ends : pc'[e] = "made" => pc[e] = "made" /\ path'[e] = path[e],
           SendAll(n) \/ UNCHANGED nat
    PROVE  EasyNarrow'
<1>1. \A e \in Ends : \A k \in nat'[e] : k \in nat[e] \/ (k.sock \in socks[e] /\ k.dest \in targets[e])
  <2>1. socks[n] \in SUBSET AllSockets /\ targets[n] \in SUBSET Addrs
    BY DEF IInv, TypeOK
  <2>2. CASE SendAll(n)
    <3>1. \A e \in Ends : \A k \in nat'[e] \ nat[e] :
             e = n /\ k.sock \in socks[n] /\ k.dest \in targets[n]
      BY <2>1, <2>2, SendRight DEF SendAll, IInv
    <3>. QED
      BY <3>1
  <2>. QED
    BY <2>2
<1>2. seen' = seen /\ socks' = socks /\ targets' = targets
  BY DEF detection
<1>3. (\A e \in Ends : ~Hard(seen[e]))' <=> \A e \in Ends : ~Hard(seen[e])
  BY <1>2
<1>. QED
  BY <1>1, <1>2, <1>3 DEF EasyNarrow

LEMMA EasyNarrowStep == ASSUME IInv, EasyNarrow, [Next]_vars PROVE EasyNarrow'
<1>. USE DEF Goto
<1>1. ASSUME NEW n \in Ends, Start(n) PROVE EasyNarrow'
  <2>1. UNCHANGED <<detection, path, nat>> /\ \A e \in Ends : pc'[e] = "made" => pc[e] = "made"
    BY <1>1 DEF Start, IInv, TypeOK
  <2>2. /\ socks' \in {[socks EXCEPT ![n] = s] : s \in SUBSET Sockets(n, plan[n].locals)}
        /\ \E g \in Guesses(plan[n]) : targets' = [targets EXCEPT ![n] = plan[n].remotes \cup g]
    BY <1>1 DEF Start
  <2>3. ~Hard(seen[n]) => Sockets(n, plan[n].locals) = {Detected(n)}
    <3>1. ManyLocal \in Nat
      BY Ports
    <3>. QED
      BY <3>1, EasyPlan DEF IInv, Sockets, Detected
  <2>4. ~Hard(seen[n]) /\ ~Hard(seen[Other(n)]) =>
          /\ plan[n].remotes = {seen[Other(n)].primary}
          /\ Guesses(plan[n]) = {{}}
    BY EasyPlan DEF IInv, Guesses
  <2>5. seen' = seen /\ path' = path /\ nat' = nat
    BY <2>1 DEF detection
  <2>6. socks \in [Ends -> SUBSET AllSockets] /\ targets \in [Ends -> SUBSET Addrs]
    BY DEF IInv, TypeOK
  <2>7. \A e \in Ends : ~Hard(seen[e]) => socks'[e] \subseteq {Detected(e)}
    BY <2>2, <2>3, <2>6 DEF EasyNarrow
  <2>8. (\A e \in Ends : ~Hard(seen[e])) =>
           \A e \in Ends : targets'[e] \subseteq {seen[Other(e)].primary}
    BY <2>2, <2>4, <2>6, NoEndIsAnyIP DEF EasyNarrow
  <2>. QED
    BY <2>1, <2>5, <2>7, <2>8 DEF EasyNarrow
<1>2. ASSUME NEW n \in Ends, TryRemote(n) \/ Repeat(n) PROVE EasyNarrow'
  <2>1. /\ UNCHANGED <<detection, path, socks, targets>>
        /\ SendAll(n) \/ UNCHANGED nat
        /\ \A e \in Ends : pc'[e] = "made" => pc[e] = "made"
    BY <1>2 DEF TryRemote, Repeat, IInv, TypeOK
  <2>. QED
    BY <2>1, SendsNarrow
<1>3. ASSUME NEW n \in Ends, Timeout(n) PROVE EasyNarrow'
  <2>1. /\ UNCHANGED <<detection, path, socks, targets, nat>>
        /\ \A e \in Ends : pc'[e] = "made" => pc[e] = "made"
    BY <1>3 DEF Timeout, IInv, TypeOK
  <2>. QED
    BY <1>3, <2>1, SendsNarrow
<1>4. ASSUME NEW n \in Ends, NEW m \in nat[Other(n)], NEW k \in nat[n], Deliver(n, m, k)
      PROVE  EasyNarrow'
  <2>1. UNCHANGED <<detection, path, socks, targets, nat, pc>>
    BY <1>4 DEF Deliver, hole
  <2>. QED
    BY <1>4, <2>1, SendsNarrow
<1>5. CASE UNCHANGED vars
  <2>1. UNCHANGED <<detection, path, socks, targets, nat, pc>>
    BY <1>5 DEF vars, hole
  <2>. QED
    BY <2>1, SendsNarrow, NoEndIsAnyIP DEF Ends
<1>6. ASSUME NEW n \in Ends, Success(n) PROVE EasyNarrow'
  <2>1. PICK x \in Received(n) : /\ path' = [path EXCEPT ![n] = x]
                                 /\ IF This(n).try THEN Send(n, {x.sock}, {x.addr}) ELSE UNCHANGED nat
    BY <1>6 DEF Success
  <2>2. PICK s \in AllSockets, a \in Addrs :
          s \in socks[n] /\ a \in buf[n][s] /\ x = [sock |-> s, addr |-> a]
    BY <2>1 DEF Received, IInv, TypeOK
  <2>3. IF a.ip = AnyIP THEN BothHard ELSE \E k \in nat[n] : k.dest = a
    BY <2>2 DEF IInv, WaitingWorks, Works
  <2>4. \A e \in Ends : \A k \in nat'[e] : k \in nat[e] \/ (e = n /\ k.sock = s /\ k.dest = a)
    <3>1. {x.sock} \in SUBSET AllSockets /\ {x.addr} \in SUBSET Addrs
      BY <2>2
    <3>2. CASE Send(n, {x.sock}, {x.addr})
      <4>1. \A e \in Ends : \A k \in nat'[e] \ nat[e] :
               e = n /\ k.sock \in {x.sock} /\ k.dest \in {x.addr}
        BY <3>1, <3>2, SendRight DEF IInv
      <4>. QED
        BY <2>2, <4>1
    <3>. QED
      BY <2>1, <3>2
  <2>5. seen' = seen /\ socks' = socks /\ targets' = targets /\ pc' = [pc EXCEPT ![n] = "made"]
    BY <1>6 DEF Success, detection
  <2>6. \A e \in Ends : ~Hard(seen[e]) /\ pc'[e] = "made" => path'[e].sock = Detected(e)
    BY <2>1, <2>2, <2>5 DEF EasyNarrow, IInv, TypeOK
  <2>7. \A e \in Ends : ~Hard(seen[e]) => \A k \in nat'[e] : k.sock = Detected(e)
    BY <2>2, <2>4 DEF EasyNarrow
  <2>8. (\A e \in Ends : ~Hard(seen[e])) =>
           \A e \in Ends : \A k \in nat'[e] : k.dest = seen[Other(e)].primary
    BY <2>3, <2>4 DEF EasyNarrow, BothHard
  <2>. QED
    BY <2>5, <2>6, <2>7, <2>8 DEF EasyNarrow
<1>. QED
  BY <1>1, <1>2, <1>3, <1>4, <1>5, <1>6 DEF Next, MakeHole

LEMMA EasyNarrowMeets == ASSUME IInv, EasyNarrow PROVE EasyEndsMeet
<1>. SUFFICES ASSUME \A n \in Ends : pc[n] = "made" /\ ~Hard(seen[n]), NEW n \in Ends
     PROVE  \E m \in nat[n] : m.sock = path[n].sock /\ m.dest = path[n].addr
                              /\ path[Other(n)].addr = Addr(n, m.port)
  BY DEF EasyNarrow, EasyEndsMeet
<1>. DEFINE o == Other(n)
<1>1. o \in Ends /\ Other(o) = n
  BY DEF Ends, Other
<1>2. \A e \in Ends : path[e].addr.ip # AnyIP /\ Works(e, path[e]) /\ path[e] \in Paths
  BY DEF IInv, OwnPacketOnlyDoubleHard, PathWorks, TypeOK
<1>3. \A e \in Ends : \A m \in nat[e] : m.sock = Detected(e) /\ m.dest = seen[Other(e)].primary
  BY DEF EasyNarrow
<1>4. path[n].sock = Detected(n) /\ path[n].addr = seen[o].primary /\ path[o].addr = seen[n].primary
  BY <1>1, <1>2, <1>3 DEF Works
<1>5. seen[n].primary.ip = n /\ path[o].addr \in Addrs
  BY <1>1, <1>2 DEF IInv, SeenRight, Paths
<1>6. PICK k \in nat[n] : k.port = path[o].addr.port
  BY <1>1, <1>2, <1>4, <1>5 DEF Works
<1>7. path[o].addr = Addr(n, k.port)
  BY <1>4, <1>5, <1>6 DEF Addr, Addrs
<1>. QED
  BY <1>3, <1>4, <1>7

LEMMA EasyNarrowInitially == Init => EasyNarrow
BY DEF Init, EasyNarrow

(* ------------------------------ theorems ------------------------------- *)

(* The inductive invariant adds to the properties that a packet waiting to *)
(* be read has come a way that works, and where 0.0.0.0 may be a target.   *)
THEOREM Invariant == Spec => []IInv
BY Initially, Step, PTL DEF Spec

(* The variables of HolePunch keep their types.                            *)
THEOREM TypeCorrect == Spec => []TypeOK
BY Invariant, PTL DEF IInv

(* What MakeHole returns works both ways, for any number of sockets.       *)
THEOREM ReturnedPathWorks == Spec => []PathWorks
BY Invariant, PTL DEF IInv

(* MakeHole finds the own host between two hard NATs only.                 *)
THEOREM OwnPacketNeedsDoubleHard == Spec => []OwnPacketOnlyDoubleHard
BY Invariant, PTL DEF IInv

(* Analyze hands each end its own plan.                                    *)
THEOREM GuessesAreAimed == Spec => []GuessesAimed
BY Invariant, PTL DEF IInv

(* Two ends that look easy return the two ends of one way, and every such  *)
(* end the socket its peer was told of, whatever is lost or late.          *)
THEOREM EasyEndsMeetHolds == Spec => []EasyEndsMeet
BY Invariant, EasyNarrowInitially, EasyNarrowStep, EasyNarrowMeets, PTL DEF Spec

-----------------------------------------------------------------------------
(* Detection *)

(* The tests of the function called, and those that come before a test.    *)
Script == (IF call = "Detect" THEN {"d1", "d2"} ELSE {})
          \cup (IF call \in {"MappingTests", "AnalyzeStunBehavior"} THEN {"m1", "m2", "m3"} ELSE {})
          \cup (IF call \in {"FilterTests", "AnalyzeStunBehavior"} THEN {"f1", "f2", "f3"} ELSE {})

Before(t) == CASE t \in {"d1", "m1"} -> {}
               [] t = "d2" -> {"d1"}
               [] t = "m2" -> {"m1"}
               [] t = "m3" -> {"m1", "m2"}
               [] t = "f1" -> {"m1", "m2", "m3"}
               [] t = "f2" -> {"m1", "m2", "m3", "f1"}
               [] t = "f3" -> {"m1", "m2", "m3", "f1", "f2"}

(* Every test up to the one under way has at most one answer, and it shows *)
(* the address that the NAT made for that test.                            *)
Truthful ==
    \A a \in net :
        /\ a.test \in Script \cap (Before(step) \cup {step})
        /\ a.xor # None => a.xor = MappedAddr(Dest(a.test))
        /\ call = "Detect" => a.xor # None
        /\ \A b \in net : a.test = b.test => a = b

Asking ==
    /\ step \in Script
    /\ asked <=> \E a \in net : a.test = step
    /\ sent = {Dest(a.test) : a \in net}

ReadsLetIn ==
    /\ \A a \in read : LetIn(a)
    /\ reader = "hand" => held \in read
    /\ call = "Detect" => reader = "read"

(* Unless an answer was read twice, those of the earlier tests are used    *)
(* up; only filter test 2 is left behind unanswered.                       *)
NoneLeft ==
    ~repeated =>
        /\ \A a \in net : a.test \notin {step, "f2"} => a \in read
        /\ reader = "hand" => held.test \in {step, "f2"}

(* ... so that what a test has read is the answer to it, ...               *)
ShownRight ==
    ~repeated =>
        /\ step \in {"m2", "m3"} => xor["m1"] = MappedAddr(Dest("m1"))
        /\ step = "m3" => xor["m2"] = MappedAddr(Dest("m2"))
        /\ step = "d2" => xor["d1"] = MappedAddr(Dest("d1"))
        /\ call = "Detect" /\ outcome = "ok" =>
              step = "d2" /\ xor["d2"] = MappedAddr(Dest("d2"))

(* ... and mapping test 3 is made behind NATs that need it.                *)
ThirdTestNeeded ==
    ~repeated /\ (step = "m3" \/ \E a \in net : a.test = "m3") => mapping \in {"address", "port"}

LateOnly ==
    /\ step = "f3" => late
    /\ outcome \in {"ok", "error"} /\ ~repeated /\ ~late =>
          reader # "hand" /\ (reader = "ended" \/ net \subseteq read \/ call = "Detect")

DetectionInv ==
    /\ DetectionTypeOK
    /\ Truthful /\ Asking /\ ReadsLetIn /\ NoneLeft /\ ShownRight /\ ThirdTestNeeded /\ LateOnly
    /\ MappingRight /\ FilterNotOpened

(* ------------------------------- lemmas -------------------------------- *)

(* The NAT shows four addresses apart from the socket's own, and not       *)
(* having one; which tests see the same one tells the mapping.             *)
LEMMA ShownAddrs ==
    ASSUME DetectionTypeOK
    PROVE  /\ \A t \in Tests : MappedAddr(Dest(t)) \in StunAddrs /\ MappedAddr(Dest(t)) # None
           /\ \A t \in Tests : MappedAddr(Dest(t)) # LocalAddr
           /\ LocalAddr \in StunAddrs /\ LocalAddr # None
<1>1. \A t \in Tests : MappedAddr(Dest(t)) \in StunAddrs
  BY DEF DetectionTypeOK, MappedAddr, StunAddrs
<1>2. \A d : MappedAddr(d) # LocalAddr
  <2>. TAKE d
  <2>1. MappedAddr(d) \in {<<"own">>, <<"public">>, <<"public", d.ip>>, <<"public", d.ip, d.port>>}
    BY DEF DetectionTypeOK, MappedAddr, AddrBehind, NatMappings
  <2>. QED
    BY <2>1 DEF LocalAddr
<1>3. LocalAddr \in StunAddrs
  BY DEF StunAddrs
<1>. QED
  BY <1>1, <1>2, <1>3, NoneIsNoAddr

LEMMA MappingTold ==
    ASSUME DetectionTypeOK
    PROVE  /\ MappedAddr(Dest("m1")) = MappedAddr(Dest("m2"))
                <=> mapping \in {"none", "independent"}
           /\ mapping \in {"address", "port"} =>
                (MappedAddr(Dest("m2")) = MappedAddr(Dest("m3")) <=> mapping = "address")
           /\ MappedAddr(Dest("d1")) = MappedAddr(Dest("d2")) <=> mapping # "port"
<1>1. mapping \in {"none", "independent", "address", "port"}
  BY DEF DetectionTypeOK, NatMappings
<1>2. CASE mapping \in {"none", "independent"}
  BY <1>2 DEF MappedAddr, AddrBehind
<1>3. CASE mapping = "address"
  BY <1>3, TwoAddresses DEF MappedAddr, AddrBehind, Dest, At
<1>4. CASE mapping = "port"
  BY <1>4, TwoAddresses DEF MappedAddr, AddrBehind, Dest, At
<1>. QED
  BY <1>1, <1>2, <1>3, <1>4

(* The arms of Handle; Do reads a test of STUN.                            *)
Arms(a) ==
    \/ step \in {"m1", "f1"} /\ a = None /\ Return("error") /\ UNCHANGED verdict
    \/ step = "m1" /\ a = LocalAddr /\ a # None /\ Mapping("NoNAT")
    \/ step = "m1" /\ a \notin {None, LocalAddr} /\ Continue("m2") /\ UNCHANGED verdict
    \/ step \in {"m2", "m3"} /\ a = None /\ Return("panic") /\ UNCHANGED verdict
    \/ step = "m2" /\ a = xor["m1"] /\ a # None /\ Mapping("EndpointIndependent")
    \/ step = "m2" /\ a # xor["m1"] /\ a # None /\ Continue("m3") /\ UNCHANGED verdict
    \/ step = "m3" /\ a = xor["m2"] /\ a # None /\ Mapping("AddressDependent")
    \/ step = "m3" /\ a # xor["m2"] /\ a # None /\ Mapping("AddressPortDependent")
    \/ step = "f1" /\ a # None /\ Continue("f2") /\ UNCHANGED verdict
    \/ step = "f2" /\ Filter("EndpointIndependent")
    \/ step = "f3" /\ Filter("AddressDependent")

LEMMA HandleArms ==
    ASSUME NEW a, step \in {"m1", "m2", "m3", "f1", "f2", "f3"}, Handle(a)
    PROVE  Arms(a)
<1>0. None # LocalAddr
  BY NoneIsNoAddr DEF StunAddrs
<1>1. CASE step \in {"m1", "f1"}
  BY <1>0, <1>1 DEF Handle, Arms
<1>2. CASE step \in {"m2", "m3"}
  BY <1>0, <1>2 DEF Handle, Arms
<1>3. CASE step \in {"f2", "f3"}
  BY <1>3 DEF Handle, Arms
<1>. QED
  BY <1>1, <1>2, <1>3

ScriptOrder == {<<"d1", "d2">>, <<"m1", "m2">>, <<"m2", "m3">>, <<"m1", "f1">>, <<"m2", "f1">>,
                <<"m3", "f1">>, <<"f1", "f2">>, <<"f2", "f3">>}

GoesOn == /\ <<step, step'>> \in ScriptOrder /\ step' \in Script
          /\ asked /\ asked' = FALSE /\ outcome = "running" /\ outcome' = "running"

Stays == step' = step /\ asked' = asked

(* An action that goes on goes on to a later test of the function.         *)
LEMMA Moves ==
    ASSUME DetectionInv, DetectionNext
    PROVE  /\ UNCHANGED setting
           /\ \/ Ask
              \/ UNCHANGED <<net, sent>> /\ (Stays \/ GoesOn)
<1>1. UNCHANGED setting
  BY DEF DetectionNext, Ask, UdpDetectFails, ReaderEnds, Close, Do, DoFails, DoTimesOut, UdpDetect,
     Reader, setting
<1>2. call \in {"Detect", "MappingTests", "FilterTests", "AnalyzeStunBehavior"} /\ step \in Script
  BY DEF DetectionInv, DetectionTypeOK, Asking
<1>. SUFFICES ASSUME ~Ask PROVE UNCHANGED <<net, sent>> /\ (Stays \/ GoesOn)
  BY <1>1
<1>3. CASE UdpDetectFails \/ ReaderEnds \/ Close \/ DoFails
  BY <1>3 DEF UdpDetectFails, ReaderEnds, Close, DoFails, Return, Stays
<1>4. CASE Do
  <2>1. step \in {"m1", "m2", "m3", "f1", "f2", "f3"} /\ call # "Detect"
    BY <1>2, <1>4 DEF Script, Do, DetectionInv, ReadsLetIn
  <2>2. Handle(held.xor) /\ UNCHANGED <<net, sent>> /\ asked /\ outcome = "running"
    BY <1>4 DEF Do
  <2>3. \/ Stays
        \/ /\ asked' = FALSE /\ outcome' = outcome
           /\ \/ step = "m1" /\ step' = "m2"
              \/ step = "m2" /\ step' = "m3"
              \/ step \in {"m1", "m2", "m3"} /\ call = "AnalyzeStunBehavior" /\ step' = "f1"
              \/ step = "f1" /\ step' = "f2"
    <3>1. CASE \E o : Return(o)
      BY <3>1, <2>2 DEF Return, Stays
    <3>2. CASE \E b : Mapping(b) /\ step \in {"m1", "m2", "m3"}
      BY <3>2, <2>2 DEF Mapping, Return, Continue, Stays
    <3>3. CASE \E b : Filter(b)
      BY <3>3, <2>2 DEF Filter, Return, Stays
    <3>4. CASE \/ step = "m1" /\ Continue("m2")
               \/ step = "m2" /\ Continue("m3")
               \/ step = "f1" /\ Continue("f2")
      BY <3>4 DEF Continue
    <3>5. Arms(held.xor)
      BY <2>1, <2>2, HandleArms
    <3>. QED
      BY <3>1, <3>2, <3>3, <3>4, <3>5 DEF Arms
  <2>. QED
    BY <2>1, <2>2, <2>3, <1>2 DEF GoesOn, ScriptOrder, Script
<1>5. CASE DoTimesOut
  BY <1>2, <1>5 DEF DoTimesOut, Return, Continue, Filter, Stays, GoesOn, ScriptOrder, Script
<1>6. ASSUME NEW a \in net, UdpDetect(a) PROVE UNCHANGED <<net, sent>> /\ (Stays \/ GoesOn)
  BY <1>2, <1>6 DEF UdpDetect, Return, Continue, Stays, GoesOn, ScriptOrder, Script
<1>7. ASSUME NEW a \in net, Reader(a) PROVE UNCHANGED <<net, sent>> /\ (Stays \/ GoesOn)
  BY <1>7 DEF Reader, Stays
<1>. QED
  BY <1>3, <1>4, <1>5, <1>6, <1>7 DEF DetectionNext

LEMMA LaterTests ==
    ASSUME NEW s, NEW t, <<s, t>> \in ScriptOrder
    PROVE  Before(s) \cup {s} \subseteq Before(t) /\ t \notin Before(s) \cup {s}
BY DEF ScriptOrder, Before

(* The answer to a new request is the only one of its test.                *)
LEMMA AskAdds ==
    ASSUME DetectionInv, Ask
    PROVE  \E n \in Answers :
               /\ net' = net \cup {n} /\ n.test = step /\ n.xor \in {MappedAddr(Dest(step)), None}
               /\ call = "Detect" => n.xor # None
               /\ \A a \in net : a.test # step
               /\ asked' /\ sent' = sent \cup {Dest(step)}
<1>1. step \in Tests /\ ServerAnswers(step) /\ ~asked
  BY DEF Ask, DetectionInv, DetectionTypeOK
<1>2. PICK x \in {MappedAddr(Dest(step))} \cup (IF call = "Detect" THEN {} ELSE {None}) :
         net' = net \cup {[test |-> step, xor |-> x]}
  BY <1>1 DEF ServerAnswers
<1>3. x \in StunAddrs \cup {None} /\ (call = "Detect" => x # None)
  BY <1>1, <1>2, ShownAddrs DEF DetectionInv
<1>4. [test |-> step, xor |-> x] \in Answers
  BY <1>1, <1>3 DEF Answers
<1>5. \A a \in net : a.test # step
  BY <1>1 DEF DetectionInv, Asking
<1>. QED
  BY <1>2, <1>3, <1>4, <1>5 DEF Ask

LEMMA TruthfulStep ==
    ASSUME DetectionInv, DetectionNext
    PROVE  Truthful' /\ Asking'
<1>0. /\ Truthful /\ Asking /\ Script' = Script /\ (call = "Detect")' = (call = "Detect")
      /\ \A d : MappedAddr(d)' = MappedAddr(d)
  BY Moves DEF DetectionInv, setting, Script, MappedAddr
<1>1. CASE Ask
  <2>1. PICK n \in Answers :
           /\ net' = net \cup {n} /\ n.test = step /\ n.xor \in {MappedAddr(Dest(step)), None}
           /\ call = "Detect" => n.xor # None
           /\ \A a \in net : a.test # step
           /\ asked' /\ sent' = sent \cup {Dest(step)}
    BY <1>1, AskAdds
  <2>2. step' = step /\ step \in Script
    BY <1>0, <1>1 DEF Ask, Asking
  <2>3. Truthful'
    BY <1>0, <2>1, <2>2 DEF Truthful
  <2>4. Asking'
    BY <1>0, <2>1, <2>2 DEF Asking
  <2>. QED
    BY <2>3, <2>4
<1>2. CASE UNCHANGED <<net, sent>> /\ Stays
  BY <1>0, <1>2 DEF Truthful, Asking, Stays
<1>3. CASE UNCHANGED <<net, sent>> /\ GoesOn
  <2>1. Before(step) \cup {step} \subseteq Before(step') /\ step' \notin Before(step) \cup {step}
    BY <1>3, LaterTests DEF GoesOn
  <2>2. Truthful'
    BY <1>0, <1>3, <2>1 DEF Truthful
  <2>3. Asking'
    BY <1>0, <1>3, <2>1 DEF Truthful, Asking, GoesOn
  <2>. QED
    BY <2>2, <2>3
<1>. QED
  BY <1>1, <1>2, <1>3, Moves

LEMMA ReadsLetInStep ==
    ASSUME DetectionInv, DetectionNext
    PROVE  ReadsLetIn'
<1>1. \A a : LetIn(a) => LetIn(a)'
  <2>1. UNCHANGED setting /\ sent \subseteq sent'
    BY Moves DEF Ask
  <2>. QED
    BY <2>1 DEF LetIn, setting, MappedAddr
<1>2. ReadsLetIn
  BY DEF DetectionInv
<1>3. CASE Ask \/ UdpDetectFails \/ ReaderEnds \/ Close \/ Do \/ DoFails \/ DoTimesOut
  BY <1>1, <1>2, <1>3, Moves DEF ReadsLetIn, Ask, UdpDetectFails, ReaderEnds, Close, Do, DoFails,
     DoTimesOut, history, setting
<1>4. ASSUME NEW a \in net, UdpDetect(a) PROVE ReadsLetIn'
  BY <1>1, <1>2, <1>4 DEF ReadsLetIn, UdpDetect, ReadFromUDP, setting
<1>5. ASSUME NEW a \in net, Reader(a) PROVE ReadsLetIn'
  BY <1>1, <1>2, <1>5 DEF ReadsLetIn, Reader, ReadFromUDP, setting
<1>. QED
  BY <1>3, <1>4, <1>5 DEF DetectionNext

(* What is read for the first time answers the test under way, or filter   *)
(* test 2 after its timeout.                                               *)
LEMMA FreshAnswer ==
    ASSUME DetectionInv, ~repeated
    PROVE  /\ \A a \in net \ read : a.test \in {step, "f2"}
           /\ call = "Detect" => \A a \in net \ read : a.test = step
           /\ reader = "hand" => held.test = step \/ (step = "f3" /\ held.test = "f2")
           /\ \A a \in net : a.test = "f2" => step \in {"f2", "f3"}
<1>1. \A a \in net : a.test \in Script \cap (Before(step) \cup {step})
  BY DEF DetectionInv, Truthful
<1>2. \A a \in net : a.test = "f2" => step \in {"f2", "f3"}
  BY <1>1 DEF DetectionInv, DetectionTypeOK, Tests, Before
<1>3. call = "Detect" => \A a \in net : a.test # "f2"
  BY <1>1 DEF Script
<1>. QED
  BY <1>1, <1>2, <1>3 DEF DetectionInv, NoneLeft, DetectionTypeOK

LEMMA Remembers ==
    ASSUME DetectionInv, DetectionNext
    PROVE  (repeated => repeated') /\ (late => late')
<1>1. CASE Ask \/ UdpDetectFails \/ ReaderEnds \/ Close \/ Do \/ DoFails \/ DoTimesOut
  BY <1>1 DEF Ask, UdpDetectFails, ReaderEnds, Close, Do, DoFails, DoTimesOut, history
<1>2. ASSUME NEW a \in net, UdpDetect(a) \/ Reader(a) PROVE (repeated => repeated') /\ late' = late
  BY <1>2 DEF UdpDetect, Reader, ReadFromUDP
<1>. QED
  BY <1>1, <1>2 DEF DetectionNext

LEMMA NoneLeftStep ==
    ASSUME DetectionInv, DetectionNext
    PROVE  NoneLeft'
<1>. SUFFICES ASSUME ~repeated' PROVE NoneLeft'
  BY DEF NoneLeft
<1>0. ~repeated /\ NoneLeft /\ DetectionTypeOK
  BY Remembers DEF DetectionInv
<1>t. \A a, b \in net : a.test = b.test => a = b
  BY DEF DetectionInv, Truthful
<1>1. CASE Ask
  BY <1>0, <1>1, AskAdds DEF NoneLeft, Ask, history
<1>2. CASE UdpDetectFails \/ ReaderEnds \/ Close \/ DoFails
  BY <1>0, <1>2 DEF NoneLeft, UdpDetectFails, ReaderEnds, Close, DoFails, Return, history
<1>3. CASE Do
  <2>1. reader' = "read" /\ read' = read /\ net' = net /\ held \in read /\ reader = "hand"
    BY <1>3 DEF Do, history, DetectionInv, ReadsLetIn
  <2>2. CASE Stays
    BY <1>0, <2>1, <2>2 DEF NoneLeft, Stays
  <2>3. CASE GoesOn
    <3>1. held.test = step
      BY <2>1, <2>3, <1>0, FreshAnswer DEF GoesOn, ScriptOrder
    <3>2. \A a \in net : a.test = step => a \in read
      BY <3>1, <2>1, <1>0, <1>t DEF DetectionTypeOK
    <3>. QED
      BY <1>0, <2>1, <3>2 DEF NoneLeft
  <2>. QED
    BY <2>2, <2>3, <1>3, Moves DEF Do, Ask
<1>4. CASE DoTimesOut
  BY <1>0, <1>4 DEF NoneLeft, DoTimesOut, Continue, Return, Filter
<1>5. ASSUME NEW a \in net, UdpDetect(a) PROVE NoneLeft'
  <2>1. a \notin read /\ a.test = step /\ read' = read \cup {a} /\ net' = net /\ reader = "read"
        /\ reader' = reader
    BY <1>0, <1>5, FreshAnswer DEF UdpDetect, ReadFromUDP, DetectionInv, ReadsLetIn
  <2>. QED
    BY <1>0, <1>t, <2>1 DEF NoneLeft
<1>6. ASSUME NEW a \in net, Reader(a) PROVE NoneLeft'
  <2>1. a \notin read /\ a.test \in {step, "f2"} /\ read' = read \cup {a} /\ net' = net /\ held' = a
        /\ step' = step
    BY <1>0, <1>6, FreshAnswer DEF Reader, ReadFromUDP
  <2>. QED
    BY <1>0, <2>1 DEF NoneLeft
<1>. QED
  BY <1>1, <1>2, <1>3, <1>4, <1>5, <1>6 DEF DetectionNext

(* So Do shows the test's own address, and so does Detect.                 *)
LEMMA OwnAddrShown ==
    ASSUME DetectionInv, ~repeated, Do, step # "f3", held.xor # None
    PROVE  held.xor = MappedAddr(Dest(step))
BY FreshAnswer DEF Do, DetectionInv, DetectionTypeOK, Truthful

LEMMA OwnAddrDetected ==
    ASSUME DetectionInv, NEW a \in net, UdpDetect(a), ~repeated'
    PROVE  a.xor = MappedAddr(Dest(step))
<1>1. ~repeated /\ a \notin read /\ call = "Detect"
  BY DEF UdpDetect, ReadFromUDP
<1>2. a.test = step
  BY <1>1, FreshAnswer
<1>. QED
  BY <1>1, <1>2 DEF DetectionInv, Truthful

LEMMA ShownRightStep ==
    ASSUME DetectionInv, DetectionNext
    PROVE  ShownRight' /\ ThirdTestNeeded'
<1>. SUFFICES ASSUME ~repeated' PROVE ShownRight' /\ ThirdTestNeeded'
  BY DEF ShownRight, ThirdTestNeeded
<1>0. /\ ~repeated /\ ShownRight /\ ThirdTestNeeded /\ DetectionTypeOK
      /\ call' = call /\ mapping' = mapping /\ \A d : MappedAddr(d)' = MappedAddr(d)
  BY Remembers, Moves DEF DetectionInv, setting, MappedAddr
<1>1. CASE Ask
  <2>1. ShownRight'
    BY <1>0, <1>1 DEF ShownRight, Ask
  <2>2. ThirdTestNeeded'
    BY <1>0, <1>1, AskAdds DEF ThirdTestNeeded, Ask
  <2>. QED
    BY <2>1, <2>2
<1>2. CASE UdpDetectFails \/ ReaderEnds \/ Close \/ DoFails
  BY <1>0, <1>2 DEF ShownRight, ThirdTestNeeded, UdpDetectFails, ReaderEnds, Close, DoFails, Return
<1>3. CASE Do
  <2>1. /\ step \in {"m1", "m2", "m3", "f1", "f2", "f3"} /\ call # "Detect"
        /\ net' = net /\ xor' = [xor EXCEPT ![step] = held.xor] /\ Handle(held.xor)
    BY <1>3 DEF Do, Show, DetectionInv, ReadsLetIn, Asking, Script, DetectionTypeOK
  <2>2. CASE step' = step
    BY <1>0, <2>1, <2>2, <1>3 DEF ShownRight, ThirdTestNeeded, Do
  <2>3. CASE step' \in {"f1", "f2", "f3"}
    BY <1>0, <2>1, <2>3 DEF ShownRight, ThirdTestNeeded
  <2>4. CASE step = "m1" /\ step' = "m2" /\ held.xor # None
    <3>1. xor'["m1"] = MappedAddr(Dest("m1"))
      BY <2>1, <2>4, <1>0, <1>3, OwnAddrShown DEF DetectionTypeOK
    <3>. QED
      BY <1>0, <2>1, <2>4, <3>1 DEF ShownRight, ThirdTestNeeded
  <2>5. CASE step = "m2" /\ step' = "m3" /\ held.xor # None /\ held.xor # xor["m1"]
    <3>1. held.xor = MappedAddr(Dest("m2")) /\ xor["m1"] = MappedAddr(Dest("m1"))
      BY <2>5, <1>0, <1>3, OwnAddrShown DEF ShownRight
    <3>2. xor'["m2"] = MappedAddr(Dest("m2")) /\ xor'["m1"] = MappedAddr(Dest("m1"))
      BY <2>1, <2>5, <1>0, <3>1 DEF DetectionTypeOK
    <3>3. mapping \in {"address", "port"}
      BY <2>5, <3>1, <1>0, MappingTold DEF DetectionTypeOK, NatMappings
    <3>. QED
      BY <1>0, <2>1, <2>5, <3>2, <3>3 DEF ShownRight, ThirdTestNeeded
  <2>6. \/ step' = step
        \/ step' \in {"f1", "f2"}
        \/ step = "m1" /\ step' = "m2" /\ held.xor # None
        \/ step = "m2" /\ step' = "m3" /\ held.xor # None /\ held.xor # xor["m1"]
    <3>1. Arms(held.xor)
      BY <2>1, HandleArms
    <3>. QED
      BY <3>1 DEF Arms, Return, Continue, Mapping, Filter
  <2>. QED
    BY <2>2, <2>3, <2>4, <2>5, <2>6
<1>4. CASE DoTimesOut
  BY <1>0, <1>4 DEF ShownRight, ThirdTestNeeded, DoTimesOut, Continue, Return, Filter
<1>5. ASSUME NEW a \in net, UdpDetect(a) PROVE ShownRight' /\ ThirdTestNeeded'
  <2>1. /\ step \in {"d1", "d2"} /\ call = "Detect"
        /\ net' = net /\ xor' = [xor EXCEPT ![step] = MappedAddr(Dest(step))]
        /\ IF step = "d1" THEN step' = "d2" /\ outcome' = "running" ELSE step' = step
    BY <1>5, OwnAddrDetected DEF UdpDetect, Show, DetectionInv, Asking, Script, Continue, Return
  <2>2. xor'[step] = MappedAddr(Dest(step)) /\ (step = "d2" => xor'["d1"] = xor["d1"])
    BY <2>1, <1>0 DEF DetectionTypeOK, Tests
  <2>. QED
    BY <1>0, <2>1, <2>2 DEF ShownRight, ThirdTestNeeded
<1>6. ASSUME NEW a \in net, Reader(a) PROVE ShownRight' /\ ThirdTestNeeded'
  BY <1>0, <1>6 DEF ShownRight, ThirdTestNeeded, Reader
<1>. QED
  BY <1>1, <1>2, <1>3, <1>4, <1>5, <1>6 DEF DetectionNext

LEMMA LateOnlyStep ==
    ASSUME DetectionInv, DetectionNext
    PROVE  LateOnly'
<1>. SUFFICES ASSUME ~late' PROVE LateOnly'
  BY DEF LateOnly
<1>0. ~late /\ (repeated => repeated') /\ LateOnly /\ DetectionTypeOK /\ step # "f3"
  BY Remembers DEF DetectionInv, LateOnly
<1>1. CASE Ask
  BY <1>0, <1>1 DEF LateOnly, Ask
<1>2. CASE UdpDetectFails \/ DoFails
  BY <1>0, <1>2 DEF LateOnly, UdpDetectFails, DoFails, Return, DetectionInv, ReadsLetIn, setting,
     history
<1>3. CASE ReaderEnds \/ Close
  BY <1>0, <1>3 DEF LateOnly, ReaderEnds, Close, setting, history
<1>4. CASE Do
  <2>1. /\ step \in {"m1", "m2", "m3", "f1", "f2"} /\ call # "Detect" /\ outcome = "running"
        /\ net' = net /\ reader' = "read" /\ repeated' = repeated /\ read' = read
        /\ reader = "hand" /\ held \in read /\ Handle(held.xor) /\ asked
    BY <1>0, <1>4 DEF Do, DetectionInv, ReadsLetIn, Asking, Script, DetectionTypeOK, history
  <2>2. step' # "f3"
    <3>1. Arms(held.xor)
      BY <2>1, HandleArms
    <3>. QED
      BY <3>1, <2>1 DEF Arms, Return, Continue, Mapping, Filter
  <2>3. ~repeated => net \subseteq read
    <3>. SUFFICES ASSUME ~repeated, NEW a \in net PROVE a \in read
      OBVIOUS
    <3>1. held.test = step
      BY <1>0, <2>1, FreshAnswer
    <3>2. a.test = step \/ a \in read
      BY <1>0, FreshAnswer
    <3>. QED
      BY <3>1, <3>2, <2>1 DEF DetectionInv, DetectionTypeOK, Truthful
  <2>. QED
    BY <2>1, <2>2, <2>3 DEF LateOnly
<1>5. CASE DoTimesOut
  BY <1>5 DEF DoTimesOut
<1>6. ASSUME NEW a \in net, UdpDetect(a) PROVE LateOnly'
  BY <1>0, <1>6 DEF LateOnly, UdpDetect, Continue, Return, DetectionInv, ReadsLetIn, setting
<1>7. ASSUME NEW a \in net, Reader(a) PROVE LateOnly'
  BY <1>0, <1>7 DEF LateOnly, Reader, ReadFromUDP
<1>. QED
  BY <1>1, <1>2, <1>3, <1>4, <1>5, <1>6, <1>7 DEF DetectionNext

LEMMA MappingRightStep ==
    ASSUME DetectionInv, DetectionNext
    PROVE  MappingRight'
<1>. SUFFICES ASSUME ~repeated' PROVE MappingRight'
  BY DEF MappingRight
<1>0. /\ ~repeated /\ ShownRight /\ ShownRight' /\ ThirdTestNeeded /\ MappingRight
      /\ DetectionTypeOK /\ call' = call /\ mapping' = mapping /\ \A d : MappedAddr(d)' = MappedAddr(d)
  BY Remembers, Moves, ShownRightStep DEF DetectionInv, setting, MappedAddr
<1>1. call = "Detect" /\ outcome' = "ok" => (xor'["d1"] = xor'["d2"] <=> mapping # "port")
  BY <1>0, MappingTold DEF ShownRight
<1>2. CASE verdict' = verdict
  BY <1>0, <1>1, <1>2 DEF MappingRight
<1>3. ASSUME NEW b, verdict' = [verdict EXCEPT !.filter = b] PROVE MappingRight'
  <2>1. verdict'.mapping = verdict.mapping
    BY <1>0, <1>3 DEF DetectionTypeOK
  <2>. QED
    BY <1>0, <1>1, <2>1 DEF MappingRight
<1>4. ASSUME NEW b, verdict' = [verdict EXCEPT !.mapping = b],
             \/ b = "EndpointIndependent" /\ mapping \in {"none", "independent"}
             \/ b = "AddressDependent" /\ mapping = "address"
             \/ b = "AddressPortDependent" /\ mapping = "port"
      PROVE  MappingRight'
  <2>1. verdict'.mapping = b
    BY <1>0, <1>4 DEF DetectionTypeOK
  <2>. QED
    BY <1>0, <1>1, <1>4, <2>1 DEF MappingRight
<1>5. CASE Do
  <2>1. /\ step \in {"m1", "m2", "m3", "f1", "f2", "f3"} /\ Handle(held.xor)
    BY <1>5 DEF Do, DetectionInv, ReadsLetIn, Asking, Script, DetectionTypeOK
  <2>2. Arms(held.xor)
    BY <2>1, HandleArms
  <2>3. step # "f3" /\ held.xor # None => held.xor = MappedAddr(Dest(step))
    BY <1>0, <1>5, OwnAddrShown
  <2>4. CASE step = "m1" /\ held.xor = LocalAddr /\ held.xor # None /\ Mapping("NoNAT")
    BY <2>3, <2>4, <1>0, ShownAddrs DEF Tests
  <2>5. CASE /\ step = "m2" /\ held.xor = xor["m1"] /\ held.xor # None
             /\ Mapping("EndpointIndependent")
    <3>1. mapping \in {"none", "independent"}
      BY <2>3, <2>5, <1>0, MappingTold DEF ShownRight
    <3>. QED
      BY <1>4, <2>5, <3>1 DEF Mapping
  <2>6. CASE step = "m3" /\ held.xor # None
    <3>1. mapping \in {"address", "port"} /\ xor["m2"] = MappedAddr(Dest("m2"))
      BY <2>6, <1>0 DEF ThirdTestNeeded, ShownRight
    <3>2. held.xor = xor["m2"] <=> mapping = "address"
      BY <2>3, <2>6, <3>1, <1>0, MappingTold
    <3>. QED
      BY <1>4, <2>2, <2>6, <3>1, <3>2 DEF Arms, Mapping
  <2>7. CASE UNCHANGED verdict \/ \E b : Filter(b)
    BY <1>2, <1>3, <2>7 DEF Filter
  <2>. QED
    BY <2>2, <2>4, <2>5, <2>6, <2>7 DEF Arms
<1>6. CASE DoTimesOut
  BY <1>2, <1>3, <1>6 DEF DoTimesOut, Filter
<1>7. CASE \/ Ask \/ UdpDetectFails \/ ReaderEnds \/ Close \/ DoFails
           \/ \E a \in net : UdpDetect(a) \/ Reader(a)
  BY <1>2, <1>7 DEF Ask, UdpDetectFails, ReaderEnds, Close, DoFails, UdpDetect, Reader
<1>. QED
  BY <1>5, <1>6, <1>7 DEF DetectionNext

LEMMA FilterNotOpenedStep ==
    ASSUME DetectionInv, DetectionNext
    PROVE  FilterNotOpened'
<1>. SUFFICES ASSUME ~repeated' PROVE FilterNotOpened'
  BY DEF FilterNotOpened
<1>0. /\ ~repeated /\ ThirdTestNeeded /\ FilterNotOpened /\ DetectionTypeOK
      /\ UNCHANGED setting
  BY Remembers, Moves DEF DetectionInv
<1>f. filtering \in {"independent", "address", "port"}
  BY <1>0 DEF DetectionTypeOK
<1>1. ASSUME verdict'.filter = verdict.filter PROVE FilterNotOpened'
  BY <1>0, <1>1 DEF FilterNotOpened, Openness, setting
<1>2. ASSUME NEW b, verdict' = [verdict EXCEPT !.mapping = b] PROVE FilterNotOpened'
  <2>1. verdict'.filter = verdict.filter
    BY <1>0, <1>2 DEF DetectionTypeOK
  <2>. QED
    BY <1>1, <2>1
<1>3. ASSUME NEW b, verdict' = [verdict EXCEPT !.filter = b],
             \/ b = "EndpointIndependent" /\ filtering = "independent"
             \/ b = "AddressDependent" /\ filtering \in {"independent", "address"}
             \/ b = "AddressPortDependent"
             \/ /\ call = "AnalyzeStunBehavior" /\ filtering = "address"
                /\ mapping \in {"none", "independent"}
      PROVE  FilterNotOpened'
  <2>1. verdict'.filter = b
    BY <1>0, <1>3 DEF DetectionTypeOK
  <2>2. b = "EndpointIndependent" /\ filtering = "independent" => Openness(b) <= Openness(filtering)
    BY DEF Openness
  <2>3. b = "AddressDependent" /\ filtering \in {"independent", "address"} =>
           Openness(b) <= Openness(filtering)
    BY DEF Openness
  <2>4. b = "AddressPortDependent" => Openness(b) <= Openness(filtering)
    BY <1>f DEF Openness
  <2>. QED
    BY <1>0, <1>3, <2>1, <2>2, <2>3, <2>4 DEF FilterNotOpened, setting
<1>4. CASE Do
  <2>1. /\ step \in {"m1", "m2", "m3", "f1", "f2", "f3"} /\ Handle(held.xor)
        /\ held \in read /\ reader = "hand" /\ held \in net
    BY <1>4 DEF Do, DetectionInv, ReadsLetIn, Asking, Script, DetectionTypeOK
  <2>2. Arms(held.xor)
    BY <2>1, HandleArms
  <2>3. CASE step \in {"f2", "f3"}
    <3>1. held.test \in {"f2", "f3"}
      BY <2>1, <2>3, <1>0, FreshAnswer
    <3>2. call \in {"FilterTests", "AnalyzeStunBehavior"}
      BY <1>0, <2>3 DEF DetectionTypeOK, DetectionInv, Asking, Script
    <3>3. PICK d \in sent :
             /\ MappedAddr(d) = MappedAddr(Dest(held.test))
             /\ \/ filtering = "independent"
                \/ filtering = "address" /\ d.ip = Source(held.test).ip
                \/ d = Source(held.test)
      BY <2>1 DEF DetectionInv, ReadsLetIn, LetIn
    <3>4. PICK a \in net : d = Dest(a.test)
      BY DEF DetectionInv, Asking
    <3>5. /\ a.test \in {"m1", "m2", "m3", "f1", "f2", "f3"}
          /\ a.test \in {"m2", "m3"} => call = "AnalyzeStunBehavior"
      BY <3>2 DEF DetectionInv, Truthful, Script
    <3>6. a.test = "m3" => mapping \in {"address", "port"}
      BY <1>0 DEF ThirdTestNeeded
    <3>7. Dest(held.test) = RemoteAddr
      BY <3>1 DEF Dest
    <3>8. CASE a.test \in {"m1", "f1", "f2", "f3"}
      <4>1. d = RemoteAddr
        BY <3>4, <3>8 DEF Dest
      <4>2. held.test = "f2" => filtering = "independent"
        BY <3>3, <4>1, TwoAddresses DEF Source
      <4>3. held.test = "f3" => filtering \in {"independent", "address"}
        BY <3>3, <4>1, TwoAddresses DEF Source, At
      <4>. QED
        BY <1>3, <2>2, <2>3, <3>1, <4>2, <4>3, <1>0, <2>1, FreshAnswer DEF Arms, Filter
    <3>9. CASE a.test \in {"m2", "m3"}
      <4>1. /\ d.ip = OtherAddr.ip
            /\ a.test = "m2" => d.port = RemoteAddr.port
            /\ a.test = "m3" => d = OtherAddr
        BY <3>4, <3>9 DEF Dest, At
      <4>2. mapping \in {"none", "independent"}
        BY <3>3, <3>7, <4>1, <1>0, TwoAddresses
        DEF DetectionTypeOK, NatMappings, MappedAddr, AddrBehind
      <4>3. a.test = "m2"
        BY <3>6, <3>9, <4>2
      <4>4. d # Source(held.test)
        BY <3>1, <4>1, <4>3, TwoAddresses DEF Source, At
      <4>5. filtering \in {"independent", "address"}
        BY <3>3, <4>4
      <4>. QED
        BY <1>3, <2>2, <2>3, <3>5, <3>9, <4>2, <4>5 DEF Arms, Filter
    <3>. QED
      BY <3>5, <3>8, <3>9
  <2>4. CASE step \in {"m1", "m2", "m3", "f1"}
    BY <1>1, <1>2, <2>2, <2>4 DEF Arms, Mapping
  <2>. QED
    BY <2>1, <2>3, <2>4
<1>5. CASE DoTimesOut
  BY <1>1, <1>3, <1>5 DEF DoTimesOut, Filter
<1>6. CASE \/ Ask \/ UdpDetectFails \/ ReaderEnds \/ Close \/ DoFails
           \/ \E a \in net : UdpDetect(a) \/ Reader(a)
  BY <1>1, <1>6 DEF Ask, UdpDetectFails, ReaderEnds, Close, DoFails, UdpDetect, Reader
<1>. QED
  BY <1>4, <1>5, <1>6 DEF DetectionNext

LEMMA DetectionTypeStep ==
    ASSUME DetectionInv, DetectionNext
    PROVE  DetectionTypeOK'
<1>0. DetectionTypeOK /\ UNCHANGED setting
  BY Moves DEF DetectionInv
<1>1. step' \in Tests
  BY Moves, <1>0 DEF Ask, Stays, GoesOn, Script, Tests, DetectionTypeOK
<1>2. sent' \subseteq {Dest(t) : t \in Tests} /\ net' \subseteq Answers
  BY Moves, AskAdds, <1>0 DEF DetectionTypeOK
<1>3. asked' \in BOOLEAN
  BY Moves, <1>0 DEF DetectionTypeOK, Stays, GoesOn, Ask
<1>4. ASSUME NEW b \in Behaviors
      PROVE  /\ [verdict EXCEPT !.mapping = b] \in [mapping : Behaviors, filter : Behaviors]
             /\ [verdict EXCEPT !.filter = b] \in [mapping : Behaviors, filter : Behaviors]
  BY <1>0 DEF DetectionTypeOK
<1>5. ASSUME NEW a \in StunAddrs \cup {None}, Show(a)
      PROVE  xor' \in [Tests -> StunAddrs \cup {None}] /\ mappedAddrs' \subseteq StunAddrs
  BY <1>0, <1>5 DEF DetectionTypeOK, Show
<1>6. CASE Ask
  BY <1>0, <1>1, <1>2, <1>3, <1>6, AskAdds DEF DetectionTypeOK, Ask, setting, history
<1>7. CASE UdpDetectFails \/ ReaderEnds \/ Close \/ DoFails
  <2>1. CASE UdpDetectFails \/ DoFails
    BY <1>0, <2>1 DEF DetectionTypeOK, UdpDetectFails, DoFails, Return, setting, history
  <2>2. CASE ReaderEnds
    BY <1>0, <2>2 DEF DetectionTypeOK, ReaderEnds, setting, history
  <2>3. CASE Close
    BY <1>0, <2>3 DEF DetectionTypeOK, Close, setting, history
  <2>. QED
    BY <1>7, <2>1, <2>2, <2>3
<1>8. CASE Do
  <2>1. /\ step \in {"m1", "m2", "m3", "f1", "f2", "f3"} /\ Handle(held.xor) /\ held \in net
    BY <1>8 DEF Do, DetectionInv, ReadsLetIn, Asking, Script, DetectionTypeOK
  <2>2. Arms(held.xor)
    BY <2>1, HandleArms
  <2>3. outcome' \in {"running", "ok", "error", "panic"}
    BY <2>2, <1>0 DEF Arms, Mapping, Filter, Return, Continue, DetectionTypeOK
  <2>4. verdict' \in [mapping : Behaviors, filter : Behaviors]
    <3>1. \/ UNCHANGED verdict
          \/ \E b \in Behaviors : Mapping(b) \/ Filter(b)
      BY <2>2 DEF Arms, Behaviors
    <3>. QED
      BY <3>1, <1>0, <1>4 DEF Mapping, Filter, DetectionTypeOK
  <2>5. held.xor \in StunAddrs \cup {None}
    BY <2>1, <1>0 DEF DetectionTypeOK, Answers
  <2>6. xor' \in [Tests -> StunAddrs \cup {None}] /\ mappedAddrs' \subseteq StunAddrs
    BY <1>5, <1>8, <2>5 DEF Do
  <2>. QED
    BY <1>0, <1>1, <1>2, <1>3, <2>3, <2>4, <2>6, <1>8 DEF DetectionTypeOK, Do, setting, history
<1>9. CASE DoTimesOut
  <2>1. outcome' \in {"running", "ok", "error", "panic"}
    BY <1>9, <1>0 DEF DoTimesOut, Filter, Return, Continue, DetectionTypeOK
  <2>2. verdict' \in [mapping : Behaviors, filter : Behaviors]
    BY <1>9, <1>0, <1>4 DEF DoTimesOut, Filter, Behaviors, DetectionTypeOK
  <2>. QED
    BY <1>0, <1>1, <1>2, <1>3, <2>1, <2>2, <1>9 DEF DetectionTypeOK, DoTimesOut, setting
<1>10. ASSUME NEW a \in net, UdpDetect(a) PROVE DetectionTypeOK'
  <2>1. a.xor \in StunAddrs \cup {None}
    BY <1>0 DEF DetectionTypeOK, Answers
  <2>2. xor' \in [Tests -> StunAddrs \cup {None}] /\ mappedAddrs' \subseteq StunAddrs
    BY <1>5, <1>10, <2>1 DEF UdpDetect
  <2>3. outcome' \in {"running", "ok", "error", "panic"}
    BY <1>10, <1>0 DEF UdpDetect, Return, Continue, DetectionTypeOK
  <2>. QED
    BY <1>0, <1>1, <1>2, <1>3, <2>2, <2>3, <1>10
    DEF DetectionTypeOK, UdpDetect, ReadFromUDP, setting
<1>11. ASSUME NEW a \in net, Reader(a) PROVE DetectionTypeOK'
  BY <1>0, <1>11 DEF DetectionTypeOK, Reader, ReadFromUDP, setting
<1>. QED
  BY <1>6, <1>7, <1>8, <1>9, <1>10, <1>11 DEF DetectionNext

LEMMA DetectionInitially == DetectionInit => DetectionInv
<1>. SUFFICES ASSUME DetectionInit PROVE DetectionInv
  OBVIOUS
<1>1. DetectionTypeOK
  BY DEF DetectionInit, DetectionTypeOK, Tests, Behaviors
<1>2. step \in {"d1", "m1", "f1"} /\ step \in Script
  BY DEF DetectionInit, Script
<1>3. Truthful /\ Asking /\ ReadsLetIn /\ NoneLeft
  BY <1>2 DEF DetectionInit, Truthful, Asking, ReadsLetIn, NoneLeft
<1>4. ShownRight /\ ThirdTestNeeded /\ LateOnly
  BY <1>2 DEF DetectionInit, ShownRight, ThirdTestNeeded, LateOnly
<1>5. MappingRight /\ FilterNotOpened
  BY <1>1 DEF DetectionInit, MappingRight, FilterNotOpened, DetectionTypeOK, NatMappings
<1>. QED
  BY <1>1, <1>3, <1>4, <1>5 DEF DetectionInv

LEMMA DetectionStep == DetectionInv /\ [DetectionNext]_detectionVars => DetectionInv'
<1>. SUFFICES ASSUME DetectionInv, [DetectionNext]_detectionVars PROVE DetectionInv'
  OBVIOUS
<1>1. CASE DetectionNext
  BY <1>1, DetectionTypeStep, TruthfulStep, ReadsLetInStep, NoneLeftStep, ShownRightStep,
     LateOnlyStep, MappingRightStep, FilterNotOpenedStep DEF DetectionInv
<1>2. CASE UNCHANGED detectionVars
  <2>. USE <1>2 DEF detectionVars, setting, history
  <2>1. DetectionTypeOK'
    BY DEF DetectionInv, DetectionTypeOK
  <2>2. Truthful' /\ Asking'
    BY DEF DetectionInv, Truthful, Asking, Script, MappedAddr
  <2>3. ReadsLetIn' /\ NoneLeft'
    BY DEF DetectionInv, ReadsLetIn, NoneLeft, LetIn, MappedAddr
  <2>4. ShownRight' /\ ThirdTestNeeded' /\ LateOnly'
    BY DEF DetectionInv, ShownRight, ThirdTestNeeded, LateOnly, MappedAddr
  <2>5. MappingRight' /\ FilterNotOpened'
    BY DEF DetectionInv, MappingRight, FilterNotOpened
  <2>. QED
    BY <2>1, <2>2, <2>3, <2>4, <2>5 DEF DetectionInv
<1>. QED
  BY <1>1, <1>2

LEMMA DetectionInvariant == DetectionSpec => []DetectionInv
  BY DetectionInitially, DetectionStep, PTL DEF DetectionSpec

(* ------------------------------ theorems ------------------------------- *)

(* The variables of Detection stay in their ranges.                        *)
THEOREM DetectionTypeCorrect == DetectionSpec => []DetectionTypeOK
<1>1. DetectionInv => DetectionTypeOK
  BY DEF DetectionInv
<1>. QED
  BY <1>1, DetectionInvariant, PTL

(* The verdict on the NAT's mapping is right unless an answer was read     *)
(* twice: mappingTests may match no answer with its request.               *)
THEOREM MappingVerdictRight == DetectionSpec => []MappingRight
<1>1. DetectionInv => MappingRight
  BY DEF DetectionInv
<1>. QED
  BY <1>1, DetectionInvariant, PTL

(* filterTests calls no filter more open than it is, but for the one that  *)
(* mapping test 2 has opened.                                              *)
THEOREM FilterVerdictNotOpened == DetectionSpec => []FilterNotOpened
<1>1. DetectionInv => FilterNotOpened
  BY DEF DetectionInv
<1>. QED
  BY <1>1, DetectionInvariant, PTL

(* Without a late or repeated answer the goroutine of connectStun is left  *)
(* on no channel.                                                          *)
THEOREM ReaderLeftByLateAnswer == DetectionSpec => []LeakNeedsLateAnswer
<1>1. DetectionInv => LeakNeedsLateAnswer
  BY DEF DetectionInv, LateOnly, LeakNeedsLateAnswer
<1>. QED
  BY <1>1, DetectionInvariant, PTL
=============================================================================

----------------------------- MODULE NodeProofs -----------------------------
(* Theorems about module Node, for any number of processes, logins, punch  *)
(* requests and failures.                                                  *)
EXTENDS Node, TLAPS

(* The number of a punch stands for one pair of nodes: it is a job of the  *)
(* hub, or else in use at the two of them only.                            *)
Numbered ==
    /\ \A i, j \in jobs : i.id = j.id => i = j
    /\ \A j \in jobs : j.id <= punches /\ Owner(j.asker) # Owner(j.asked)
    /\ \A n \in Nodes : \A u \in Uses(n) : u[1] <= punches /\ \A j \in jobs : j.id # u[1]

(* A node asks the hub for others only, and the hub's table knows sessions *)
(* by their owner.                                                         *)
Addressed ==
    /\ \A n \in Nodes : n \notin todo[n] /\ (pc[n] = "detect" => at[n] # n)
    /\ \A n \in Nodes : table[n] # None => Owner(table[n]) = n

IInv == TypeOK /\ Numbered /\ Addressed /\ HolesPaired

(* A node has one plan of a punch at most, which it has yet to take, makes *)
(* a hole of, or has made a hole of: it takes none twice.                  *)
PlansOnce ==
    /\ \A p, q \in pushed : p.id = q.id /\ Owner(p.to) = Owner(q.to) => p = q
    /\ \A n \in Nodes : making[n] # None =>
          /\ \A p \in pushed : Owner(p.to) = n => p.id # making[n].id
          /\ \A m \in Nodes : links[n][m] # making[n].id
    /\ \A p \in pushed : \A m \in Nodes : links[Owner(p.to)][m] # p.id

(* ------------------------------- lemmas -------------------------------- *)

LEMMA Owners == ASSUME NEW s \in Sessions PROVE Owner(s) \in Nodes /\ s[1] \in Nodes
BY DEF Sessions, Owner

LEMMA UsesIs ==
    ASSUME NEW n, NEW u
    PROVE  u \in Uses(n) <=>
             \/ \E p \in pushed : Owner(p.to) = n /\ u = <<p.id, p.peer>>
             \/ making[n] # None /\ u = <<making[n].id, making[n].peer>>
             \/ \E m \in Nodes : links[n][m] # NoHole /\ u = <<links[n][m], m>>
BY DEF Uses

LEMMA WaysKnown ==
    ASSUME TypeOK, NEW n \in Nodes, NEW m \in Nodes
    PROVE  WaysOf(n, m) \subseteq AnyWay
<1>1. \E w \in Ways : w # ways[m][n]
  BY TwoWays
<1>2. (CHOOSE w \in Ways : w # ways[m][n]) \in Ways
  BY <1>1
<1>3. ways[m][n] \in AnyWay \cup {None}
  BY DEF TypeOK
<1>. QED
  BY <1>2, <1>3 DEF WaysOf, AnyWay

(* Steps that start no hole keep the pairs.                                *)
LEMMA UsesShrink ==
    ASSUME Numbered, HolesPaired, \A n \in Nodes : Uses(n)' \subseteq Uses(n),
           jobs' \subseteq jobs, punches' = punches
    PROVE  Numbered' /\ HolesPaired'
BY DEF Numbered, HolesPaired

LEMMA SameUses ==
    ASSUME UNCHANGED <<pushed, making, links>>
    PROVE  \A n \in Nodes : Uses(n)' = Uses(n)
BY DEF Uses

(* ----------------------------- the loop -------------------------------- *)

LEMMA Initially == ASSUME Init PROVE IInv
<1>. USE DEF Init
<1>1. \A n \in Nodes : Uses(n) = {}
  BY DEF Uses, NoHole
<1>2. TypeOK
  <2>1. /\ pc \in [Nodes -> {"login", "list", "walk", "detect", "down"}]
        /\ todo \in [Nodes -> SUBSET Nodes] /\ at \in [Nodes -> Nodes]
        /\ hub \in [Sessions -> {"none", "serving", "gone"}]
        /\ table \in [Nodes -> Sessions \cup {None}]
        /\ making \in [Nodes -> Plans \cup {None}]
        /\ links \in [Nodes -> [Nodes -> {NoHole} \cup Punches]]
        /\ ways \in [Nodes -> [Nodes -> AnyWay \cup {None}]]
    OBVIOUS
  <2>2. /\ logins \in [Nodes -> 0..MaxLogins] /\ punches \in 0..MaxPunches
        /\ failures \in 0..MaxFailures
    BY Bounds
  <2>. QED
    BY <2>1, <2>2 DEF TypeOK
<1>. QED
  BY <1>1, <1>2 DEF IInv, Numbered, Addressed, HolesPaired
(* What a step that is not a handshake of the hub leaves alone.            *)
LEMMA LoopStep ==
    ASSUME IInv, TypeOK', UNCHANGED <<jobs, pushed, punches, making, links>>, Addressed'
    PROVE  IInv'
<1>1. \A n \in Nodes : Uses(n)' = Uses(n)
  BY SameUses
<1>2. Numbered' /\ HolesPaired'
  BY <1>1, UsesShrink DEF IInv
<1>. QED
  BY <1>2 DEF IInv

LEMMA ExitStep == ASSUME IInv, NEW n \in Nodes, Exit(n) PROVE IInv'
<1>. USE DEF Exit, Fail, Goto, IInv
<1>1. TypeOK'
  BY Bounds DEF TypeOK
<1>2. \A m \in Nodes : Uses(m)' \subseteq Uses(m)
  BY DEF Uses, TypeOK, NoHole
<1>3. Numbered' /\ HolesPaired'
  BY <1>2, UsesShrink
<1>4. Addressed'
  BY DEF Addressed, TypeOK
<1>. QED
  BY <1>1, <1>3, <1>4

LEMMA LoginStep == ASSUME IInv, NEW n \in Nodes, Login(n) PROVE IInv'
<1>. USE DEF Login, Goto
<1>1. Session(n)' = <<n, logins[n] + 1>> /\ Session(n)' \in Sessions
  BY Bounds DEF Session, IInv, TypeOK, Sessions
<1>2. TypeOK'
  <2>1. logins' \in [Nodes -> 0..MaxLogins] /\ pc' \in [Nodes -> {"login", "list", "walk", "detect", "down"}]
    BY Bounds DEF IInv, TypeOK
  <2>2. /\ open' \subseteq Sessions /\ hub' \in [Sessions -> {"none", "serving", "gone"}]
        /\ table' \in [Nodes -> Sessions \cup {None}]
    BY <1>1 DEF IInv, TypeOK
  <2>. QED
    BY <2>1, <2>2 DEF IInv, TypeOK, punching, network
<1>3. Addressed'
  BY <1>1 DEF IInv, Addressed, TypeOK, Owner
<1>. QED
  BY <1>2, <1>3, LoopStep DEF punching, network

LEMMA WalkStep ==
    ASSUME IInv, NEW n \in Nodes,
           GetPeers(n) \/ GetPeersFails(n) \/ EndOfList(n) \/ \E m \in Nodes : HasPeer(n, m)
    PROVE  IInv'
<1>. USE DEF GetPeers, GetPeersFails, EndOfList, HasPeer, Goto, Fail
<1>1. UNCHANGED <<jobs, pushed, punches, making, links, ways, logins, open, hub, table>>
  BY DEF punching, network, server
<1>2. failures' \in 0..MaxFailures
  BY Bounds DEF IInv, TypeOK
<1>3. /\ pc' \in [Nodes -> {"login", "list", "walk", "detect", "down"}]
      /\ todo' \in [Nodes -> SUBSET Nodes] /\ at' \in [Nodes -> Nodes]
  <2>1. CASE GetPeers(n)
    BY <2>1 DEF IInv, TypeOK
  <2>2. CASE GetPeersFails(n) \/ EndOfList(n)
    <3>1. /\ pc' \in {[pc EXCEPT ![n] = "login"], [pc EXCEPT ![n] = "list"]}
          /\ todo' = todo /\ at' = at
      BY <2>2
    <3>2. /\ pc \in [Nodes -> {"login", "list", "walk", "detect", "down"}]
          /\ todo \in [Nodes -> SUBSET Nodes] /\ at \in [Nodes -> Nodes]
      BY DEF IInv, TypeOK
    <3>3. pc' \in [Nodes -> {"login", "list", "walk", "detect", "down"}]
      BY <3>1, <3>2
    <3>. QED
      BY <3>1, <3>2, <3>3
  <2>3. ASSUME NEW m \in Nodes, HasPeer(n, m)
        PROVE  /\ pc' \in [Nodes -> {"login", "list", "walk", "detect", "down"}]
               /\ todo' \in [Nodes -> SUBSET Nodes] /\ at' \in [Nodes -> Nodes]
    <3>1. todo' \in [Nodes -> SUBSET Nodes]
      BY <2>3 DEF IInv, TypeOK
    <3>2. CASE links[n][m] # NoHole
      <4>1. UNCHANGED <<pc, at>>
        BY <2>3, <3>2, Zenon
      <4>2. /\ pc' \in [Nodes -> {"login", "list", "walk", "detect", "down"}]
            /\ at' \in [Nodes -> Nodes]
        BY <4>1 DEF IInv, TypeOK
      <4>. QED
        BY <3>1, <4>2
    <3>3. CASE links[n][m] = NoHole
      <4>1. pc' = [pc EXCEPT ![n] = "detect"] /\ at' = [at EXCEPT ![n] = m]
        BY <2>3, <3>3, Zenon
      <4>2. /\ pc \in [Nodes -> {"login", "list", "walk", "detect", "down"}]
            /\ at \in [Nodes -> Nodes]
        BY DEF IInv, TypeOK
      <4>3. pc' \in [Nodes -> {"login", "list", "walk", "detect", "down"}]
        BY <4>1, <4>2
      <4>4. at' \in [Nodes -> Nodes]
        BY <4>1, <4>2
      <4>. QED
        BY <3>1, <4>3, <4>4
    <3>. QED
      BY <3>2, <3>3
  <2>. QED
    BY <2>1, <2>2, <2>3
<1>4. TypeOK'
  BY <1>1, <1>2, <1>3 DEF IInv, TypeOK
<1>5. ASSUME NEW k \in Nodes PROVE k \notin todo'[k] /\ (pc'[k] = "detect" => at'[k] # k)
  <2>1. k \notin todo[k] /\ (pc[k] = "detect" => at[k] # k)
    BY DEF IInv, Addressed
  <2>2. CASE GetPeers(n)
    BY <2>1, <2>2 DEF IInv, TypeOK
  <2>3. CASE GetPeersFails(n)
    BY <2>1, <2>3 DEF IInv, TypeOK
  <2>4. CASE EndOfList(n)
    BY <2>1, <2>4 DEF IInv, TypeOK
  <2>5. ASSUME NEW m \in Nodes, HasPeer(n, m)
        PROVE  k \notin todo'[k] /\ (pc'[k] = "detect" => at'[k] # k)
    BY <2>1, <2>5 DEF IInv, TypeOK, Addressed
  <2>. QED
    BY <2>2, <2>3, <2>4, <2>5
<1>6. Addressed'
  BY <1>1, <1>5 DEF IInv, Addressed
<1>. QED
  BY <1>1, <1>4, <1>6, LoopStep

LEMMA PunchPeerStep == ASSUME IInv, NEW n \in Nodes, PunchPeer(n) PROVE IInv'
<1>. USE DEF PunchPeer, Goto
<1>1. Addressed'
  BY DEF IInv, Addressed, TypeOK, server
<1>2. \A m \in Nodes : Uses(m)' = Uses(m)
  BY SameUses DEF network
<1>3. CASE UNCHANGED <<punches, jobs>>
  <2>1. TypeOK'
    BY <1>3 DEF IInv, TypeOK, server, network
  <2>. QED
    BY <1>1, <1>3, <2>1, LoopStep DEF network
<1>4. CASE /\ Session(n) \in open /\ table[at[n]] # None /\ punches < MaxPunches
           /\ punches' = punches + 1
           /\ jobs' = jobs \cup {[id |-> punches', asker |-> Session(n), asked |-> table[at[n]]]}
  <2>. DEFINE j == [id |-> punches', asker |-> Session(n), asked |-> table[at[n]]]
  <2>1. /\ punches \in Nat /\ punches' \in 0..MaxPunches /\ punches' \in Punches
        /\ punches < punches'
    BY <1>4, Bounds DEF IInv, TypeOK, Punches
  <2>2. at[n] \in Nodes /\ at[n] # n /\ table[at[n]] \in Sessions /\ Owner(table[at[n]]) = at[n]
    BY <1>4 DEF IInv, TypeOK, Addressed
  <2>3. Session(n) \in Sessions /\ Owner(Session(n)) = n
    BY <1>4 DEF IInv, TypeOK, Session, Owner
  <2>4. j \in Jobs /\ j.id = punches' /\ Owner(j.asker) # Owner(j.asked)
    BY <2>1, <2>2, <2>3 DEF Jobs
  <2>5. jobs' = jobs \cup {j}
    BY <1>4
  <2>. HIDE DEF j
  <2>6. TypeOK'
    BY <2>1, <2>4, <2>5 DEF IInv, TypeOK, server, network
  <2>7. \A i \in jobs : i.id \in Nat /\ i.id <= punches
    BY Bounds DEF IInv, TypeOK, Numbered, Jobs, Punches
  <2>8. \A m \in Nodes : \A u \in Uses(m) : u[1] \in Nat /\ u[1] <= punches
    <3>1. ASSUME NEW m \in Nodes, NEW u \in Uses(m) PROVE u[1] \in Nat
      BY <3>1, Bounds DEF Uses, IInv, TypeOK, Plans, Punches, NoHole
    <3>. QED
      BY <3>1 DEF IInv, Numbered
  <2>9. Numbered'
    <3>1. \A i, k \in jobs' : i.id = k.id => i = k
      BY <2>1, <2>4, <2>5, <2>7 DEF IInv, Numbered
    <3>2. \A i \in jobs' : i.id <= punches' /\ Owner(i.asker) # Owner(i.asked)
      BY <2>1, <2>4, <2>5, <2>7 DEF IInv, Numbered
    <3>3. \A m \in Nodes : \A u \in Uses(m) : u[1] <= punches' /\ \A i \in jobs' : i.id # u[1]
      BY <2>1, <2>4, <2>5, <2>8 DEF IInv, Numbered
    <3>. QED
      BY <1>2, <3>1, <3>2, <3>3 DEF Numbered
  <2>10. HolesPaired'
    BY <1>2 DEF IInv, HolesPaired
  <2>. QED
    BY <1>1, <2>6, <2>9, <2>10 DEF IInv
<1>. QED
  BY <1>3, <1>4

(* ------------------------------- the hub ------------------------------- *)

LEMMA HubStep ==
    ASSUME IInv, NEW s \in Sessions, Drop(s) \/ HubRemove(s)
    PROVE  IInv'
<1>. USE DEF Drop, HubRemove, Fail
<1>1. UNCHANGED <<pc, logins, todo, at, jobs, pushed, punches, making, links, ways>>
  BY DEF loop, punching, network
<1>2. failures' \in 0..MaxFailures
  BY Bounds DEF IInv, TypeOK
<1>3. /\ open' \subseteq Sessions /\ hub' \in [Sessions -> {"none", "serving", "gone"}]
      /\ table' \in [Nodes -> Sessions \cup {None}]
  BY Owners DEF IInv, TypeOK
<1>4. TypeOK'
  BY <1>1, <1>2, <1>3 DEF IInv, TypeOK
<1>5. Addressed'
  BY <1>1 DEF IInv, Addressed, TypeOK
<1>. QED
  BY <1>1, <1>4, <1>5, LoopStep

LEMMA PunchPlansStep == ASSUME IInv, NEW j \in jobs, PunchPlans(j) PROVE IInv'
<1>. DEFINE a == Owner(j.asker)
            b == Owner(j.asked)
            pa == [id |-> j.id, to |-> j.asker, peer |-> b, asker |-> TRUE]
            pb == [id |-> j.id, to |-> j.asked, peer |-> a, asker |-> FALSE]
<1>1. /\ j.id \in Punches /\ j.asker \in Sessions /\ j.asked \in Sessions
      /\ a \in Nodes /\ b \in Nodes /\ a # b /\ j.id <= punches
  BY Owners DEF IInv, TypeOK, Numbered, Jobs
<1>2. pa \in Plans /\ pb \in Plans
  BY <1>1 DEF Plans
<1>3. /\ jobs' = jobs \ {j} /\ pushed' \subseteq pushed \cup {pa, pb}
      /\ UNCHANGED <<pc, logins, todo, at, open, hub, table, punches, making, links, ways, failures>>
  BY DEF PunchPlans, loop, server, network
<1>4. TypeOK'
  BY <1>2, <1>3 DEF IInv, TypeOK
<1>5. ASSUME NEW n \in Nodes, NEW u \in Uses(n)'
      PROVE  u \in Uses(n) \/ (n = a /\ u = <<j.id, b>>) \/ (n = b /\ u = <<j.id, a>>)
  BY <1>3 DEF Uses
<1>6. \A n \in Nodes : \A u \in Uses(n) : u[1] # j.id
  BY DEF IInv, Numbered
<1>. HIDE DEF a, b, pa, pb
<1>7. Numbered'
  <2>1. \A i \in jobs' : i \in jobs /\ i.id # j.id
    BY <1>3 DEF IInv, Numbered
  <2>2. ASSUME NEW n \in Nodes, NEW u \in Uses(n)'
        PROVE  u[1] <= punches /\ \A i \in jobs' : i.id # u[1]
    BY <1>1, <1>5, <2>1, <2>2 DEF IInv, Numbered
  <2>. QED
    BY <1>3, <2>1, <2>2 DEF IInv, Numbered
<1>8. HolesPaired'
  <2>1. ASSUME NEW n \in Nodes, NEW m \in Nodes, NEW u \in Uses(n)', NEW v \in Uses(m)',
               u[1] = v[1]
        PROVE  IF n = m THEN u = v ELSE u[2] = m /\ v[2] = n
    <3>1. CASE u[1] = j.id
      <4>1. (n = a /\ u = <<j.id, b>>) \/ (n = b /\ u = <<j.id, a>>)
        BY <1>5, <1>6, <3>1
      <4>2. (m = a /\ v = <<j.id, b>>) \/ (m = b /\ v = <<j.id, a>>)
        BY <1>5, <1>6, <2>1, <3>1
      <4>. QED
        BY <1>1, <4>1, <4>2
    <3>2. CASE u[1] # j.id
      <4>1. u \in Uses(n) /\ v \in Uses(m)
        BY <1>5, <2>1, <3>2
      <4>. QED
        BY <2>1, <4>1 DEF IInv, HolesPaired
    <3>. QED
      BY <3>1, <3>2
  <2>. QED
    BY <2>1 DEF HolesPaired
<1>9. Addressed'
  BY <1>3 DEF IInv, Addressed
<1>. QED
  BY <1>4, <1>7, <1>8, <1>9 DEF IInv

(* ------------------------- plans, holes and links ---------------------- *)

(* Taking and dropping plans, making and leaving holes, a node gets        *)
(* nothing new.                                                            *)
LEMMA PlanUses ==
    ASSUME IInv,
           \/ \E j \in jobs : PunchGivesUp(j)
           \/ \E p \in pushed : Take(p) \/ Forget(p)
           \/ \E n \in Nodes : HoleMade(n) \/ HoleFails(n)
           \/ \E n, m \in Nodes : Unlink(n, m)
    PROVE  \A n \in Nodes : Uses(n)' \subseteq Uses(n)
<1>. USE DEF PunchGivesUp, Take, Forget, HoleMade, HoleFails, Unlink
<1>1. \A p \in pushed : Owner(p.to) \in Nodes /\ p \in Plans
  BY Owners DEF IInv, TypeOK, Plans
<1>2. CASE \E j \in jobs : PunchGivesUp(j)
  BY <1>2, SameUses DEF network
<1>3. ASSUME NEW p \in pushed, Take(p)
      PROVE  \A n \in Nodes : Uses(n)' \subseteq Uses(n)
  BY <1>3, <1>1 DEF Uses, IInv, TypeOK
<1>4. CASE \E p \in pushed : Forget(p)
  BY <1>4 DEF Uses, network
<1>5. ASSUME NEW k \in Nodes, HoleMade(k)
      PROVE  \A n \in Nodes : Uses(n)' \subseteq Uses(n)
  BY <1>5 DEF Uses, IInv, TypeOK, Plans, punching
<1>6. CASE \E k \in Nodes : HoleFails(k)
  BY <1>6 DEF Uses, IInv, TypeOK, punching
<1>7. CASE \E k, m \in Nodes : Unlink(k, m)
  BY <1>7 DEF Uses, IInv, TypeOK, punching
<1>. QED
  BY <1>2, <1>3, <1>4, <1>5, <1>6, <1>7

LEMMA PlanStep ==
    ASSUME IInv,
           \/ \E j \in jobs : PunchGivesUp(j)
           \/ \E p \in pushed : Take(p) \/ Forget(p)
           \/ \E n \in Nodes : HoleMade(n) \/ HoleFails(n)
           \/ \E n, m \in Nodes : Unlink(n, m)
    PROVE  IInv'
<1>. USE DEF PunchGivesUp, Take, Forget, HoleMade, HoleFails, Unlink
<1>1. /\ UNCHANGED <<pc, logins, todo, at, open, hub, table, punches, failures>>
      /\ jobs' \subseteq jobs
  BY DEF loop, server, punching
<1>2. \A p \in pushed : Owner(p.to) \in Nodes /\ p \in Plans
  BY Owners DEF IInv, TypeOK, Plans
<1>3. /\ pushed' \subseteq Plans
      /\ making' \in [Nodes -> Plans \cup {None}]
      /\ links' \in [Nodes -> [Nodes -> {NoHole} \cup Punches]]
      /\ ways' \in [Nodes -> [Nodes -> AnyWay \cup {None}]]
  <2>1. pushed' \subseteq Plans
    BY <1>2 DEF punching
  <2>2. making' \in [Nodes -> Plans \cup {None}]
    BY <1>2 DEF IInv, TypeOK, network
  <2>3. links' \in [Nodes -> [Nodes -> {NoHole} \cup Punches]]
    <3>1. CASE links' = links
      BY <3>1 DEF IInv, TypeOK
    <3>2. CASE \E n \in Nodes : HoleMade(n)
      BY <3>2 DEF IInv, TypeOK, Plans
    <3>3. CASE \E n, m \in Nodes : Unlink(n, m)
      BY <3>3 DEF IInv, TypeOK
    <3>. QED
      BY <3>1, <3>2, <3>3 DEF network
  <2>4. ways' \in [Nodes -> [Nodes -> AnyWay \cup {None}]]
    <3>1. CASE ways' = ways
      BY <3>1 DEF IInv, TypeOK
    <3>2. ASSUME NEW n \in Nodes, HoleMade(n)
          PROVE  ways' \in [Nodes -> [Nodes -> AnyWay \cup {None}]]
      <4>1. PICK w \in WaysOf(n, making[n].peer) : ways' = [ways EXCEPT ![n][making[n].peer] = w]
        BY <3>2
      <4>2. WaysOf(n, making[n].peer) \subseteq AnyWay \cup {None}
        BY <3>2, WaysKnown DEF IInv, TypeOK, Plans
      <4>. QED
        BY <4>1, <4>2 DEF IInv, TypeOK
    <3>3. CASE \E n, m \in Nodes : Unlink(n, m)
      BY <3>3 DEF IInv, TypeOK
    <3>. QED
      BY <3>1, <3>2, <3>3 DEF network
  <2>. QED
    BY <2>1, <2>2, <2>3, <2>4
<1>4. TypeOK'
  BY <1>1, <1>3 DEF IInv, TypeOK
<1>5. \A n \in Nodes : Uses(n)' \subseteq Uses(n)
  BY PlanUses
<1>6. Numbered' /\ HolesPaired'
  BY <1>1, <1>5, UsesShrink DEF IInv
<1>7. Addressed'
  BY <1>1 DEF IInv, Addressed
<1>. QED
  BY <1>4, <1>6, <1>7 DEF IInv

LEMMA Step == ASSUME IInv, [Next]_vars PROVE IInv'
<1>1. CASE UNCHANGED vars
  <2>1. /\ UNCHANGED <<pc, logins, todo, at, open, hub, table, punches, failures>>
        /\ UNCHANGED <<jobs, pushed, making, links, ways>>
    BY <1>1 DEF vars, loop, server, punching, network
  <2>2. TypeOK' /\ Addressed'
    BY <2>1 DEF IInv, TypeOK, Addressed
  <2>. QED
    BY <2>1, <2>2, LoopStep
<1>2. CASE Next
  BY <1>2, ExitStep, LoginStep, WalkStep, PunchPeerStep, HubStep, PunchPlansStep, PlanStep
     DEF Next, Loop, HandlePunch
<1>. QED
  BY <1>1, <1>2

(* --------------------- plans and holes, used once ---------------------- *)

LEMMA OnceInitially == ASSUME Init PROVE PlansOnce
BY DEF Init, PlansOnce

LEMMA PlansKnown ==
    ASSUME IInv
    PROVE  /\ \A p \in pushed : p \in Plans /\ Owner(p.to) \in Nodes /\ p.id \in Punches
           /\ \A p \in pushed : <<p.id, p.peer>> \in Uses(Owner(p.to))
           /\ \A n \in Nodes : making[n] # None => making[n] \in Plans
           /\ \A n \in Nodes : making[n] # None => <<making[n].id, making[n].peer>> \in Uses(n)
           /\ \A n, m \in Nodes : links[n][m] # NoHole => <<links[n][m], m>> \in Uses(n)
<1>1. \A p \in pushed : p \in Plans /\ Owner(p.to) \in Nodes /\ p.id \in Punches
  BY Owners DEF IInv, TypeOK, Plans
<1>. QED
  BY <1>1, UsesIs DEF IInv, TypeOK

(* The numbers of the plans that the hub pushes are new to both nodes.     *)
LEMMA PushedOnce == ASSUME IInv, PlansOnce, NEW j \in jobs, PunchPlans(j) PROVE PlansOnce'
<1>. DEFINE a == Owner(j.asker)
            b == Owner(j.asked)
            pa == [id |-> j.id, to |-> j.asker, peer |-> b, asker |-> TRUE]
            pb == [id |-> j.id, to |-> j.asked, peer |-> a, asker |-> FALSE]
<1>1. a # b /\ j.id \in Punches /\ a \in Nodes /\ b \in Nodes
  BY Owners DEF IInv, TypeOK, Numbered, Jobs
<1>2. pushed' \subseteq pushed \cup {pa, pb} /\ UNCHANGED <<making, links>>
  BY DEF PunchPlans, network
<1>3. \A n \in Nodes : \A u \in Uses(n) : u[1] # j.id
  BY DEF IInv, Numbered
<1>4. /\ \A p \in pushed : p.id # j.id
      /\ \A n \in Nodes : making[n] # None => making[n].id # j.id
      /\ \A n, m \in Nodes : links[n][m] # j.id
  <2>1. j.id # NoHole
    BY <1>1 DEF Punches, NoHole
  <2>2. ASSUME NEW p \in pushed PROVE p.id # j.id
    <3>1. <<p.id, p.peer>> \in Uses(Owner(p.to)) /\ Owner(p.to) \in Nodes
      BY PlansKnown
    <3>. QED
      BY <1>3, <3>1
  <2>3. ASSUME NEW n \in Nodes, making[n] # None PROVE making[n].id # j.id
    <3>1. <<making[n].id, making[n].peer>> \in Uses(n)
      BY <2>3, PlansKnown
    <3>. QED
      BY <1>3, <3>1
  <2>4. ASSUME NEW n \in Nodes, NEW m \in Nodes PROVE links[n][m] # j.id
    <3>1. links[n][m] # NoHole => <<links[n][m], m>> \in Uses(n)
      BY PlansKnown
    <3>. QED
      BY <1>3, <2>1, <3>1
  <2>. QED
    BY <2>2, <2>3, <2>4
<1>5. pa.id = j.id /\ pb.id = j.id /\ Owner(pa.to) = a /\ Owner(pb.to) = b
  OBVIOUS
<1>. HIDE DEF a, b, pa, pb
<1>6. \A p, q \in pushed' : p.id = q.id /\ Owner(p.to) = Owner(q.to) => p = q
  BY <1>1, <1>2, <1>4, <1>5 DEF PlansOnce
<1>7. \A n \in Nodes : making'[n] # None =>
         /\ \A p \in pushed' : Owner(p.to) = n => p.id # making'[n].id
         /\ \A m \in Nodes : links'[n][m] # making'[n].id
  BY <1>2, <1>4, <1>5 DEF PlansOnce
<1>8. \A p \in pushed' : \A m \in Nodes : links'[Owner(p.to)][m] # p.id
  BY <1>1, <1>2, <1>4, <1>5 DEF PlansOnce
<1>. QED
  BY <1>6, <1>7, <1>8 DEF PlansOnce

LEMMA TakenOnce == ASSUME IInv, PlansOnce, NEW p \in pushed, Take(p) PROVE PlansOnce'
<1>. DEFINE n == Owner(p.to)
<1>1. /\ pushed' = pushed \ {p} /\ links' = links
      /\ making' = [making EXCEPT ![n] = p] /\ n \in Nodes
  BY PlansKnown DEF Take
<1>2. \A k \in Nodes : making'[k] = IF k = n THEN p ELSE making[k]
  BY <1>1 DEF IInv, TypeOK
<1>3. \A q \in pushed' : Owner(q.to) = n => q.id # p.id
  BY <1>1 DEF PlansOnce
<1>4. \A m \in Nodes : links[n][m] # p.id
  BY DEF PlansOnce
<1>. QED
  BY <1>1, <1>2, <1>3, <1>4 DEF PlansOnce

LEMMA MadeOnce == ASSUME IInv, PlansOnce, NEW n \in Nodes, HoleMade(n) PROVE PlansOnce'
<1>. DEFINE i == making[n].id
            l == making[n].peer
<1>1. /\ making[n] # None /\ i \in Punches /\ l \in Nodes /\ pushed' = pushed
      /\ links' = [links EXCEPT ![n][l] = i] /\ making' = [making EXCEPT ![n] = None]
  BY PlansKnown DEF HoleMade, Plans, punching
<1>2. \A k \in Nodes : making'[k] = IF k = n THEN None ELSE making[k]
  BY <1>1 DEF IInv, TypeOK
<1>3. \A k, m \in Nodes : links'[k][m] = IF k = n /\ m = l THEN i ELSE links[k][m]
  BY <1>1 DEF IInv, TypeOK
<1>4. \A p \in pushed : Owner(p.to) = n => p.id # i
  BY <1>1 DEF PlansOnce
<1>5. \A p \in pushed : Owner(p.to) \in Nodes
  BY PlansKnown
<1>. HIDE DEF i, l
<1>6. \A p \in pushed' : \A m \in Nodes : links'[Owner(p.to)][m] # p.id
  BY <1>1, <1>3, <1>4, <1>5 DEF PlansOnce
<1>7. \A k \in Nodes : making'[k] # None =>
         /\ \A p \in pushed' : Owner(p.to) = k => p.id # making'[k].id
         /\ \A m \in Nodes : links'[k][m] # making'[k].id
  BY <1>1, <1>2, <1>3 DEF PlansOnce
<1>. QED
  BY <1>1, <1>6, <1>7 DEF PlansOnce

LEMMA LeftOnce ==
    ASSUME IInv, PlansOnce,
           \/ \E n \in Nodes : Exit(n) \/ HoleFails(n)
           \/ \E n, m \in Nodes : Unlink(n, m)
           \/ \E p \in pushed : Forget(p)
    PROVE  PlansOnce'
<1>1. pushed' \subseteq pushed
  BY DEF Exit, HoleFails, Unlink, Forget, punching
<1>2. \A n \in Nodes : making'[n] \in {None, making[n]}
  BY DEF Exit, HoleFails, Unlink, Forget, network, IInv, TypeOK
<1>3. \A n, m \in Nodes : links'[n][m] \in {NoHole, links[n][m]}
  BY DEF Exit, HoleFails, Unlink, Forget, network, IInv, TypeOK
<1>4. \A i \in Punches : i # NoHole
  BY DEF Punches, NoHole
<1>5. /\ \A p \in pushed : Owner(p.to) \in Nodes /\ p.id # NoHole
      /\ \A n \in Nodes : making[n] # None => making[n].id # NoHole
  BY <1>4, PlansKnown DEF Plans
<1>. QED
  BY <1>1, <1>2, <1>3, <1>5 DEF PlansOnce

LEMMA OnceStep == ASSUME IInv, PlansOnce, [Next]_vars PROVE PlansOnce'
<1>1. ASSUME UNCHANGED <<pushed, making, links>> PROVE PlansOnce'
  BY <1>1 DEF PlansOnce
<1>2. CASE UNCHANGED vars
  BY <1>1, <1>2 DEF vars, punching, network
<1>3. ASSUME NEW n \in Nodes, Loop(n) PROVE PlansOnce'
  BY <1>1, <1>3 DEF Loop, Login, GetPeers, GetPeersFails, PunchPeer, EndOfList, HasPeer, punching, network
<1>4. ASSUME NEW s \in Sessions, Drop(s) \/ HubRemove(s) PROVE PlansOnce'
  BY <1>1, <1>4 DEF Drop, HubRemove, punching, network
<1>5. ASSUME NEW j \in jobs, PunchGivesUp(j) PROVE PlansOnce'
  BY <1>1, <1>5 DEF PunchGivesUp, network
<1>. QED
  BY <1>2, <1>3, <1>4, <1>5, PushedOnce, TakenOnce, MadeOnce, LeftOnce DEF Next, HandlePunch

(* The hole of a connection that is left is in no plan, ...                *)
LEMMA LeftIsGivenUp ==
    ASSUME IInv, PlansOnce, [Next]_vars,
           NEW n \in Nodes, NEW m \in Nodes, NEW i \in Punches, links[n][m] = i, links'[n][m] # i
    PROVE  GivenUp(n, i)'
<1>1. /\ i <= punches /\ \A j \in jobs : j.id # i
      /\ <<i, m>> \in Uses(n)
  BY PlansKnown DEF IInv, Numbered, Punches, NoHole
<1>2. /\ \A p \in pushed : Owner(p.to) = n => p.id # i
      /\ making[n] # None => making[n].id # i
      /\ \A k \in Nodes : k # m => links[n][k] # i
  <2>1. ASSUME NEW k \in Nodes, links[n][k] = i PROVE k = m
    <3>1. i # NoHole
      BY DEF Punches, NoHole
    <3>2. <<i, k>> \in Uses(n)
      BY <2>1, <3>1, PlansKnown
    <3>3. <<i, k>> = <<i, m>>
      BY <1>1, <3>2 DEF IInv, HolesPaired
    <3>. QED
      BY <3>3
  <2>. QED
    BY <2>1 DEF PlansOnce
<1>3. /\ pushed' \subseteq pushed /\ jobs' = jobs /\ punches' = punches
      /\ making'[n] \in {None, making[n]}
      /\ \A k \in Nodes : links'[n][k] # i
  <2>1. links' # links
    OBVIOUS
  <2>2. PICK h \in Nodes : Exit(h) \/ HoleMade(h) \/ \E k \in Nodes : Unlink(h, k)
    BY <2>1 DEF Next, vars, Loop, Login, GetPeers, GetPeersFails, PunchPeer, EndOfList, HasPeer, Drop,
                HubRemove, HandlePunch, PunchPlans, PunchGivesUp, Take, Forget, HoleFails, network,
                punching
  <2>3. CASE Exit(h)
    BY <1>2, <2>3 DEF Exit, IInv, TypeOK, Punches, NoHole
  <2>4. CASE HoleMade(h)
    <3>1. /\ making[h] # None /\ making[h] \in Plans
          /\ links' = [links EXCEPT ![h][making[h].peer] = making[h].id]
          /\ making' = [making EXCEPT ![h] = None]
          /\ UNCHANGED <<pushed, jobs, punches>>
      BY <2>4, PlansKnown DEF HoleMade, punching
    <3>2. h = n /\ making[h].peer = m
      BY <3>1 DEF IInv, TypeOK, Plans
    <3>. QED
      BY <1>2, <3>1, <3>2 DEF IInv, TypeOK
  <2>5. CASE \E k \in Nodes : Unlink(h, k)
    BY <1>2, <2>5 DEF Unlink, punching, IInv, TypeOK, Punches, NoHole
  <2>. QED
    BY <2>2, <2>3, <2>4, <2>5
<1>. QED
  BY <1>1, <1>2, <1>3, UsesIs DEF GivenUp, Uses

(* ... and what a node has nothing left of is not given to it again.       *)
LEMMA StaysGivenUp ==
    ASSUME IInv, [Next]_vars, NEW n \in Nodes, NEW i \in Punches, GivenUp(n, i)
    PROVE  GivenUp(n, i)'
<1>1. ASSUME Uses(n)' \subseteq Uses(n), jobs' \subseteq jobs, punches' = punches
      PROVE  GivenUp(n, i)'
  BY <1>1 DEF GivenUp
<1>2. CASE UNCHANGED <<pushed, making, links, jobs, punches>>
  BY <1>1, <1>2 DEF Uses
<1>3. ASSUME NEW h \in Nodes, PunchPeer(h) PROVE GivenUp(n, i)'
  <2>1. Uses(n)' = Uses(n)
    BY <1>3, SameUses DEF PunchPeer, network
  <2>2. /\ punches' \in Nat /\ punches <= punches'
        /\ \A j \in jobs' : j \in jobs \/ j.id = punches + 1
    BY <1>3 DEF PunchPeer, IInv, TypeOK
  <2>3. i <= punches /\ i \in Nat /\ punches \in Nat
    BY DEF GivenUp, Punches, IInv, TypeOK
  <2>. QED
    BY <2>1, <2>2, <2>3 DEF GivenUp
<1>4. ASSUME NEW j \in jobs, PunchPlans(j) PROVE GivenUp(n, i)'
  <2>1. /\ jobs' \subseteq jobs /\ punches' = punches /\ UNCHANGED <<making, links>>
        /\ \A p \in pushed' : p \in pushed \/ p.id = j.id
    BY <1>4 DEF PunchPlans, network
  <2>2. j.id # i
    BY DEF GivenUp
  <2>3. \A u \in Uses(n)' : u \in Uses(n) \/ u[1] = j.id
    BY <2>1 DEF Uses
  <2>. QED
    BY <2>1, <2>2, <2>3 DEF GivenUp
<1>5. ASSUME NEW j \in jobs, PunchGivesUp(j) PROVE GivenUp(n, i)'
  BY <1>1, <1>5, SameUses DEF PunchGivesUp, network
<1>6. ASSUME NEW h \in Nodes, Exit(h) PROVE GivenUp(n, i)'
  <2>1. /\ pushed' \subseteq pushed /\ UNCHANGED <<jobs, punches>>
        /\ making'[n] \in {None, making[n]}
        /\ \A m \in Nodes : links'[n][m] \in {NoHole, links[n][m]}
    BY <1>6 DEF Exit, IInv, TypeOK
  <2>2. Uses(n)' \subseteq Uses(n)
    BY <2>1 DEF Uses
  <2>. QED
    BY <1>1, <2>1, <2>2
<1>7. ASSUME NEW p \in pushed, Take(p) \/ Forget(p) PROVE GivenUp(n, i)'
  <2>1. UNCHANGED <<jobs, punches>> /\ Uses(n)' \subseteq Uses(n)
    BY <1>7, PlanUses DEF Take, Forget
  <2>. QED
    BY <1>1, <2>1
<1>8. ASSUME NEW h \in Nodes, HoleMade(h) \/ HoleFails(h) \/ \E m \in Nodes : Unlink(h, m)
      PROVE  GivenUp(n, i)'
  <2>1. UNCHANGED <<jobs, punches>> /\ Uses(n)' \subseteq Uses(n)
    BY <1>8, PlanUses DEF HoleMade, HoleFails, Unlink, punching
  <2>. QED
    BY <1>1, <2>1
<1>9. CASE UNCHANGED vars
  BY <1>2, <1>9 DEF vars, punching, network
<1>10. ASSUME NEW h \in Nodes, Loop(h), ~PunchPeer(h) PROVE GivenUp(n, i)'
  BY <1>2, <1>10 DEF Loop, Login, GetPeers, GetPeersFails, EndOfList, HasPeer, punching, network
<1>11. ASSUME NEW s \in Sessions, Drop(s) \/ HubRemove(s) PROVE GivenUp(n, i)'
  BY <1>2, <1>11 DEF Drop, HubRemove, punching, network
<1>. QED
  BY <1>3, <1>4, <1>5, <1>6, <1>7, <1>8, <1>9, <1>10, <1>11 DEF Next, HandlePunch

(* ------------------------------- theorems ------------------------------ *)

(* The inductive invariant adds to the pairs that a number is not given    *)
(* twice, and that the hub's table and the loop's list name the owner of a *)
(* session and another node.                                               *)
THEOREM Invariant == Spec => []IInv
BY Initially, Step, PTL DEF Spec

(* The variables of Node keep their types, for any number of nodes, logins *)
(* and punches.                                                            *)
THEOREM TypeCorrect == Spec => []TypeOK
BY Invariant, PTL DEF IInv

(* Whoever holds a plan, makes a hole by it or uses that, names the other  *)
(* node of the punch (PunchPlans and the goroutines that take its plans).  *)
THEOREM HolesArePaired == Spec => []HolesPaired
BY Invariant, PTL DEF IInv
(* A node takes no plan of a punch twice, in whatever order plans arrive.  *)
THEOREM PlansTakenOnce == Spec => []PlansOnce
<1>1. Init => PlansOnce
  BY OnceInitially
<1>2. IInv /\ PlansOnce /\ [Next]_vars => PlansOnce'
  BY OnceStep
<1>. QED
  BY <1>1, <1>2, Invariant, PTL DEF Spec

(* A connection left for silence, for a newer hole or by the process never *)
(* comes back through a plan that is late (ConnectPeer and the goroutines  *)
(* of handlePunch).                                                        *)
THEOREM HolesNeverReused == Spec => NeverReused
<1>1. IInv /\ PlansOnce /\ [Next]_vars =>
         [\A n \in Nodes, i \in Punches :
             /\ (\E m \in Nodes : links[n][m] = i /\ links'[n][m] # i) => GivenUp(n, i)'
             /\ GivenUp(n, i) => GivenUp(n, i)']_vars
  BY LeftIsGivenUp, StaysGivenUp
<1>. QED
  BY <1>1, PlansTakenOnce, Invariant, PTL DEF Spec, NeverReused

=============================================================================

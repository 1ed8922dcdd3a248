---------------------------- MODULE BridgeProofs ----------------------------
(***************************************************************************)
(* Theorems about Bridge, for any sets of peers and names.  Names are      *)
(* added only under peerMutex but deleted by anyone, so the inductive      *)
(* invariant says what survives a deletion at any moment: a name found     *)
(* free under the mutex stays free, an entry names a live peer, live peers *)
(* of one name have contested it.                                          *)
(***************************************************************************)
EXTENDS Bridge, TLAPS

Live(p) == stage[p] = "live"

(* A peer is being connected, or has a handler. *)
Busy(p) == cpc[p] \in Connecting \/ Live(p)

MutexHeld ==
    /\ \A p \in Peers : cpc[p] \in Connecting \cup {"hole"} => mutex = p
    /\ spc \in {"next", "delget", "del"} => mutex = Closer

(* The handler starts when ConnectPeer returns, and old, which is read only *)
(* for closing, is a peer there.                                            *)
HandlerAfterConnect ==
    \A p \in Peers : /\ cpc[p] = "returned" <=> hpc[p] # "none"
                     /\ cpc[p] = "close" => old[p] \in Peers

(* Under the mutex a name found free stays free. *)
FreeName == \A p \in Peers : cpc[p] \in {"addget", "store"} => peers[name[p]] = None

HolderIsLive == \A n \in Names, p \in Peers : peers[n] = p => name[p] = n /\ Live(p)

RivalsContested ==
    \A p, q \in Peers :
        p # q /\ name[p] = name[q] /\ Busy(p) /\ Live(q) => contested[p] /\ contested[q]

(* Open, and its handler not yet told otherwise. *)
Served(p) == Live(p) /\ open[p] /\ hpc[p] \in {"none", "read"}

UncontestedIsListed ==
    \A p \in Peers : Served(p) /\ ~contested[p] => peers[name[p]] = p

(* What Shutdown is about to delete is closed, or else contested. *)
ShutdownHitsContested ==
    spc \in {"next", "delget", "del"} =>
        /\ spc # "next" => current \in Peers /\ ~open[current]
        /\ \A q \in todo, p \in Peers :
              p # q /\ name[p] = name[q] /\ Live(p) => contested[p]
        /\ \A p \in Peers :
              spc # "next" /\ p # current /\ name[p] = name[current] /\ Live(p)
                  => contested[p]

(* What is still listed is on Shutdown's list, or its current name. *)
ShutdownCovers ==
    spc \in {"next", "delget", "del"} =>
        \A n \in Names : peers[n] # None =>
            \/ peers[n] \in todo
            \/ spc # "next" /\ n = name[current]

IInv == /\ TypeOK /\ MutexHeld /\ HandlerAfterConnect /\ FreeName /\ HolderIsLive
        /\ RivalsContested /\ UncontestedIsListed /\ ShutdownHitsContested /\ ShutdownCovers

USE DistinctThreads DEF Connecting, local

LEMMA InitIInv == Init => IInv
  <1> SUFFICES ASSUME Init PROVE IInv
    OBVIOUS
  <1> USE DEF Init, stage, Live, Busy, Served
  <1>1. TypeOK /\ MutexHeld /\ HandlerAfterConnect /\ FreeName
    BY DEF TypeOK, MutexHeld, HandlerAfterConnect, FreeName
  <1>2. HolderIsLive /\ RivalsContested /\ UncontestedIsListed
    BY DEF HolderIsLive, RivalsContested, UncontestedIsListed
  <1>3. ShutdownHitsContested /\ ShutdownCovers
    BY DEF ShutdownHitsContested, ShutdownCovers
  <1> QED  BY <1>1, <1>2, <1>3 DEF IInv

LEMMA TypeStep == TypeOK /\ [Next]_vars => TypeOK'
  <1> SUFFICES ASSUME TypeOK, [Next]_vars PROVE TypeOK'
    OBVIOUS
  <1> USE DEF TypeOK, Goto, Shut, Delete, HandlerStep
  <1>1. ASSUME NEW p \in Peers, Lock(p) \/ HoleFails(p) \/ HoleMade(p) PROVE TypeOK'
    BY <1>1 DEF Lock, HoleFails, HoleMade
  <1>2. ASSUME NEW p \in Peers, ConnectGet(p) PROVE TypeOK'
    BY <1>2 DEF ConnectGet
  <1>8. ASSUME NEW p \in Peers, ConnectClose(p) \/ ConnectDelGet(p) PROVE TypeOK'
    BY <1>8 DEF ConnectClose, ConnectDelGet
  <1>3. ASSUME NEW p \in Peers, ConnectDel(p) \/ AddGet(p) \/ AddStore(p) \/ Spawn(p)
        PROVE  TypeOK'
    BY <1>3 DEF ConnectDel, AddGet, AddStore, Spawn
  <1>4. ASSUME NEW p \in Peers, Drop(p) \/ Handler(p) PROVE TypeOK'
    BY <1>4 DEF Drop, Handler, ReadFails, HandlerDelGet, HandlerDel
  <1>5. ASSUME NEW p \in Peers, ShutdownClose(p) PROVE TypeOK'
    BY <1>5 DEF ShutdownClose
  <1>6. ASSUME ShutdownLock \/ ShutdownDelGet \/ ShutdownDel \/ ShutdownReturn
        PROVE  TypeOK'
    BY <1>6 DEF ShutdownLock, ShutdownDelGet, ShutdownDel, ShutdownReturn
  <1>7. CASE UNCHANGED vars
    BY <1>7 DEF vars
  <1> QED
    BY <1>1, <1>2, <1>3, <1>4, <1>5, <1>6, <1>7, <1>8 DEF Next, Connect, Shutdown

(* Type correctness: every step leaves every variable in its set, the      *)
(* table total over the names.                                             *)
THEOREM TypeCorrect == Spec => []TypeOK
  <1>1. Init => TypeOK
    BY InitIInv DEF IInv
  <1> QED  BY <1>1, TypeStep, PTL DEF Spec

(* The parts of the invariant that speak of one thread at a time.          *)
LEMMA ControlStep ==
    ASSUME IInv, [Next]_vars
    PROVE  MutexHeld' /\ HandlerAfterConnect' /\ FreeName'
  <1> DEFINE Part == MutexHeld /\ HandlerAfterConnect /\ FreeName
  <1> USE DEF IInv, TypeOK, Goto, Shut, Delete, HandlerStep,
              MutexHeld, HandlerAfterConnect, FreeName
  <1>1. ASSUME NEW p \in Peers, Lock(p) PROVE Part'
    BY <1>1 DEF Lock
  <1>2. ASSUME NEW p \in Peers, HoleFails(p) PROVE Part'
    BY <1>2 DEF HoleFails
  <1>3. ASSUME NEW p \in Peers, HoleMade(p) PROVE Part'
    BY <1>3 DEF HoleMade
  <1>4. ASSUME NEW p \in Peers, ConnectGet(p) PROVE Part'
    BY <1>4 DEF ConnectGet
  <1>5. ASSUME NEW p \in Peers, ConnectClose(p) \/ ConnectDelGet(p) PROVE Part'
    BY <1>5 DEF ConnectClose, ConnectDelGet
  <1>6. ASSUME NEW p \in Peers, ConnectDel(p) PROVE Part'
    BY <1>6 DEF ConnectDel
  <1>7. ASSUME NEW p \in Peers, AddGet(p) PROVE Part'
    BY <1>7 DEF AddGet
  <1>8. ASSUME NEW p \in Peers, AddStore(p) PROVE Part'
    BY <1>8 DEF AddStore
  <1>9. ASSUME NEW p \in Peers, Spawn(p) PROVE Part'
    BY <1>9 DEF Spawn
  <1>10. ASSUME NEW p \in Peers, Drop(p) \/ ReadFails(p) \/ HandlerDelGet(p)
         PROVE  Part'
    BY <1>10 DEF Drop, ReadFails, HandlerDelGet
  <1>11. ASSUME NEW p \in Peers, HandlerDel(p) PROVE Part'
    BY <1>11 DEF HandlerDel
  <1>12. ASSUME NEW p \in Peers, ShutdownClose(p) PROVE Part'
    BY <1>12 DEF ShutdownClose
  <1>13. ASSUME ShutdownLock \/ ShutdownDelGet PROVE Part'
    BY <1>13 DEF ShutdownLock, ShutdownDelGet
  <1>14. ASSUME ShutdownDel \/ ShutdownReturn PROVE Part'
    BY <1>14 DEF ShutdownDel, ShutdownReturn
  <1>15. ASSUME UNCHANGED vars PROVE Part'
    BY <1>15 DEF vars
  <1> QED
    BY <1>1, <1>2, <1>3, <1>4, <1>5, <1>6, <1>7, <1>8, <1>9, <1>10, <1>11, <1>12,
       <1>13, <1>14, <1>15 DEF Next, Connect, Handler, Shutdown

Table == HolderIsLive /\ RivalsContested /\ UncontestedIsListed
Closing == ShutdownHitsContested /\ ShutdownCovers

(* Steps that leave the table and its names alone: nobody becomes busy or  *)
(* live, no open peer that was not served becomes served.                  *)
LEMMA QuietStep ==
    ASSUME IInv, UNCHANGED <<peers, name>>,
           \A p \in Peers : /\ Live(p)' <=> Live(p)
                            /\ Busy(p)' => Busy(p)
                            /\ Served(p)' => Served(p)
                            /\ contested[p] => contested'[p]
    PROVE  Table'
  <1> USE DEF IInv, TypeOK
  <1>1. HolderIsLive'
    BY DEF HolderIsLive
  <1>2. RivalsContested'
    BY DEF RivalsContested
  <1>3. UncontestedIsListed'
    <2> SUFFICES ASSUME NEW p \in Peers, Served(p)', ~contested'[p]
                 PROVE  peers'[name'[p]] = p
      BY DEF UncontestedIsListed
    <2> QED  BY DEF UncontestedIsListed
  <1> QED  BY <1>1, <1>2, <1>3 DEF Table

(* The same steps, for what Shutdown is in the middle of.                  *)
LEMMA QuietClosing ==
    ASSUME IInv, UNCHANGED <<peers, name, spc, todo, current>>,
           \A p \in Peers : /\ Live(p)' => Live(p)
                            /\ contested[p] => contested'[p]
                            /\ open'[p] => open[p] \/ mutex # Closer
    PROVE  Closing'
  <1> USE DEF IInv, TypeOK, MutexHeld
  <1>1. ShutdownHitsContested'
    BY DEF ShutdownHitsContested
  <1>2. ShutdownCovers'
    BY DEF ShutdownCovers
  <1> QED  BY <1>1, <1>2 DEF Closing

LEMMA TableStep ==
    ASSUME IInv, [Next]_vars
    PROVE  Table' /\ Closing'
  <1> DEFINE Goal == Table /\ Closing
  <1> USE DEF IInv, TypeOK, Goto, Shut, Delete, HandlerStep
  <1>1. ASSUME NEW p \in Peers,
               \/ Lock(p) \/ HoleFails(p) \/ ConnectGet(p) \/ ConnectClose(p)
               \/ ConnectDelGet(p) \/ Drop(p) \/ ReadFails(p)
        PROVE  Goal'
    <2>1. UNCHANGED <<peers, name, spc, todo, current>>
      BY <1>1 DEF Lock, HoleFails, ConnectGet, ConnectClose, ConnectDelGet, Drop, ReadFails
    <2>2. ASSUME NEW q \in Peers
          PROVE  /\ Live(q)' <=> Live(q)
                 /\ Busy(q)' => Busy(q)
                 /\ contested'[q] = contested[q]
                 /\ open'[q] => open[q]
                 /\ Served(q)' => Served(q)
      BY <1>1, <2>1 DEF Lock, HoleFails, ConnectGet, ConnectClose, ConnectDelGet, Drop,
         ReadFails, Live, Busy, Served, stage
    <2> QED  BY <2>1, <2>2, QuietStep, QuietClosing
  <1>2. ASSUME NEW p \in Peers, HoleMade(p) PROVE Goal'
    <2>1. ASSUME NEW q \in Peers
          PROVE  /\ Live(q)' <=> Live(q)
                 /\ contested[q] => contested'[q]
                 /\ q # p => (Busy(q)' <=> Busy(q)) /\ (Served(q)' <=> Served(q))
                 /\ q \in Rivals(p) => contested'[p] /\ contested'[q]
                 /\ ~Live(p)
      BY <1>2 DEF HoleMade, Live, Busy, Served, stage, HandlerAfterConnect, Rivals
    <2>2. mutex = p /\ UNCHANGED <<peers, name, spc, todo, current, mutex>>
      BY <1>2 DEF HoleMade, MutexHeld
    <2>3. HolderIsLive'
      BY <2>1, <2>2 DEF HolderIsLive
    <2>4. RivalsContested'
      <3> SUFFICES ASSUME NEW q \in Peers, NEW r \in Peers,
                          q # r, name[q] = name[r], Busy(q)', Live(r)'
                   PROVE  contested'[q] /\ contested'[r]
        BY <2>2 DEF RivalsContested
      <3>1. CASE q = p
        BY <3>1, <2>1 DEF Rivals, Live
      <3>2. CASE q # p
        BY <3>2, <2>1 DEF RivalsContested
      <3> QED  BY <3>1, <3>2
    <2>5. UncontestedIsListed'
      BY <2>1, <2>2 DEF UncontestedIsListed, Served
    <2>6. Closing'
      BY <2>1, <2>2, QuietClosing
    <2> QED  BY <2>3, <2>4, <2>5, <2>6 DEF Table
  <1>3. ASSUME NEW p \in Peers, ConnectDel(p) PROVE Goal'
    <2>1. ASSUME NEW q \in Peers
          PROVE  /\ Live(q)' <=> Live(q)
                 /\ Busy(q)' <=> Busy(q)
                 /\ Served(q)' <=> Served(q)
      BY <1>3 DEF ConnectDel, Live, Busy, Served, stage
    <2>2. /\ mutex = p /\ peers' = [peers EXCEPT ![name[p]] = None] /\ Busy(p)
          /\ UNCHANGED <<name, spc, todo, current, mutex, contested, open>>
      BY <1>3 DEF ConnectDel, MutexHeld, Busy
    <2>3. HolderIsLive'
      BY <2>1, <2>2 DEF HolderIsLive
    <2>4. RivalsContested'
      BY <2>1, <2>2 DEF RivalsContested
    <2>5. UncontestedIsListed'
      <3> SUFFICES ASSUME NEW q \in Peers, Served(q), ~contested[q]
                   PROVE  peers'[name[q]] = q
        BY <2>1, <2>2 DEF UncontestedIsListed
      <3>1. q # p => name[q] # name[p]
        BY <2>2 DEF RivalsContested, Served
      <3>2. q # p
        BY <1>3 DEF ConnectDel, Served, Live, stage, HandlerAfterConnect
      <3> QED  BY <3>1, <3>2, <2>2 DEF UncontestedIsListed
    <2>6. Closing'
      BY <2>2 DEF Closing, ShutdownHitsContested, ShutdownCovers, MutexHeld
    <2> QED  BY <2>3, <2>4, <2>5, <2>6 DEF Table
  <1>4. ASSUME NEW p \in Peers, AddGet(p) PROVE Goal'
    <2>1. UNCHANGED <<peers, name, spc, todo, current, open, contested, hpc>>
      BY <1>4 DEF AddGet
    <2>2. cpc' = [cpc EXCEPT ![p] = "store"] /\ cpc[p] = "addget"
      BY <1>4 DEF AddGet, FreeName
    <2>3. ASSUME NEW q \in Peers
          PROVE  /\ Live(q)' <=> Live(q)
                 /\ Busy(q)' <=> Busy(q)
                 /\ Served(q)' <=> Served(q)
      BY <2>1, <2>2 DEF Live, Busy, Served, stage
    <2> QED  BY <2>1, <2>3, QuietStep, QuietClosing
  <1>5. ASSUME NEW p \in Peers, AddStore(p) PROVE Goal'
    <2>1. ASSUME NEW q \in Peers
          PROVE  /\ Live(q)' <=> Live(q) \/ q = p
                 /\ Busy(q)' <=> Busy(q)
                 /\ q # p => (Served(q)' <=> Served(q))
      BY <1>5 DEF AddStore, Live, Busy, Served, stage, HandlerAfterConnect
    <2>2. /\ mutex = p /\ peers[name[p]] = None /\ Busy(p)
          /\ peers' = [peers EXCEPT ![name[p]] = p]
          /\ UNCHANGED <<name, spc, todo, current, mutex, contested, open>>
      BY <1>5 DEF AddStore, MutexHeld, FreeName, Busy
    <2>3. HolderIsLive'
      BY <2>1, <2>2 DEF HolderIsLive
    <2>4. RivalsContested'
      <3> SUFFICES ASSUME NEW q \in Peers, NEW r \in Peers,
                          q # r, name[q] = name[r], Busy(q), Live(r) \/ r = p
                   PROVE  contested[q] /\ contested[r]
        BY <2>1, <2>2 DEF RivalsContested
      <3>1. q # p => Live(q)
        BY <2>2 DEF Busy, MutexHeld
      <3> QED  BY <3>1, <2>2 DEF RivalsContested
    <2>5. UncontestedIsListed'
      <3> SUFFICES ASSUME NEW q \in Peers, Served(q)', ~contested[q]
                   PROVE  peers'[name[q]] = q
        BY <2>2 DEF UncontestedIsListed
      <3>1. CASE q = p
        BY <3>1, <2>2
      <3>2. CASE q # p
        BY <3>2, <2>1, <2>2 DEF UncontestedIsListed, RivalsContested, Served
      <3> QED  BY <3>1, <3>2
    <2>6. Closing'
      BY <2>2 DEF Closing, ShutdownHitsContested, ShutdownCovers, MutexHeld
    <2> QED  BY <2>3, <2>4, <2>5, <2>6 DEF Table
  <1>6. ASSUME NEW p \in Peers, Spawn(p) PROVE Goal'
    <2>1. UNCHANGED <<peers, name, spc, todo, current, contested, open>>
      BY <1>6 DEF Spawn
    <2>2. ASSUME NEW q \in Peers
          PROVE  /\ Live(q)' <=> Live(q)
                 /\ Busy(q)' => Busy(q)
                 /\ Served(q)' => Served(q)
      BY <1>6, <2>1 DEF Spawn, Live, Busy, Served, stage, HandlerAfterConnect
    <2> QED  BY <2>1, <2>2, QuietStep, QuietClosing
  <1>7. ASSUME NEW p \in Peers, HandlerDelGet(p) \/ HandlerDel(p) PROVE Goal'
    <2>1. ASSUME NEW q \in Peers
          PROVE  /\ Live(q)' => Live(q)
                 /\ q # p => (Live(q)' <=> Live(q))
                 /\ Busy(q)' => Busy(q)
                 /\ Served(q)' => Served(q) /\ q # p
                 /\ Live(p)
      BY <1>7 DEF HandlerDelGet, HandlerDel, Live, Busy, Served, stage, HandlerAfterConnect
    <2>2. /\ UNCHANGED <<name, spc, todo, current, contested, open>>
          /\ \/ UNCHANGED peers /\ (peers[name[p]] = None \/ Live(p)')
             \/ peers' = [peers EXCEPT ![name[p]] = None]
      BY <1>7 DEF HandlerDelGet, HandlerDel, Live, stage
    <2>3. HolderIsLive'
      BY <2>1, <2>2 DEF HolderIsLive
    <2>4. RivalsContested'
      BY <2>1, <2>2 DEF RivalsContested
    <2>5. UncontestedIsListed'
      <3> SUFFICES ASSUME NEW q \in Peers, Served(q)', ~contested[q]
                   PROVE  peers'[name[q]] = q
        BY <2>2 DEF UncontestedIsListed
      <3>1. q # p /\ Served(q) /\ name[q] # name[p]
        BY <2>1 DEF RivalsContested, Served, Busy
      <3> QED  BY <3>1, <2>2 DEF UncontestedIsListed
    <2>6. Closing'
      BY <2>1, <2>2 DEF Closing, ShutdownHitsContested, ShutdownCovers
    <2> QED  BY <2>3, <2>4, <2>5, <2>6 DEF Table
  <1>8. ASSUME ShutdownLock PROVE Goal'
    <2>1. /\ UNCHANGED <<peers, name, contested, open, cpc, hpc>> /\ spc' = "next"
          /\ todo' = {p \in Peers : \E n \in Names : peers[n] = p}
      BY <1>8 DEF ShutdownLock
    <2>2. Table'
      BY <2>1, QuietStep DEF Live, Busy, Served, stage
    <2>3. ShutdownHitsContested'
      BY <2>1 DEF ShutdownHitsContested, HolderIsLive, RivalsContested, Live, Busy, stage
    <2>4. ShutdownCovers'
      BY <2>1 DEF ShutdownCovers
    <2> QED  BY <2>2, <2>3, <2>4 DEF Closing
  <1>9. ASSUME NEW p \in Peers, ShutdownClose(p) PROVE Goal'
    <2>1. /\ UNCHANGED <<peers, name, contested, cpc, hpc>>
          /\ spc = "next" /\ spc' = "delget" /\ p \in todo
          /\ todo' = todo \ {p} /\ current' = p /\ open' = [open EXCEPT ![p] = FALSE]
      BY <1>9 DEF ShutdownClose
    <2>2. Table'
      BY <2>1, QuietStep DEF Live, Busy, Served, stage
    <2>3. ShutdownHitsContested'
      BY <2>1 DEF ShutdownHitsContested, Live, stage
    <2>4. ShutdownCovers'
      BY <2>1 DEF ShutdownCovers, HolderIsLive
    <2> QED  BY <2>2, <2>3, <2>4 DEF Closing
  <1>10. ASSUME ShutdownDelGet PROVE Goal'
    <2>1. /\ UNCHANGED <<peers, name, contested, cpc, hpc, open, todo, current>>
          /\ spc = "delget"
          /\ \/ spc' = "del"
             \/ spc' = "next" /\ peers[name[current]] = None
      BY <1>10 DEF ShutdownDelGet
    <2>2. Table'
      BY <2>1, QuietStep DEF Live, Busy, Served, stage
    <2>3. ShutdownHitsContested'
      BY <2>1 DEF ShutdownHitsContested, Live, stage
    <2>4. ShutdownCovers'
      BY <2>1 DEF ShutdownCovers
    <2> QED  BY <2>2, <2>3, <2>4 DEF Closing
  <1>11. ASSUME ShutdownDel PROVE Goal'
    <2>1. /\ UNCHANGED <<name, contested, cpc, hpc, open, todo, current>>
          /\ spc = "del" /\ spc' = "next" /\ peers' = [peers EXCEPT ![name[current]] = None]
          /\ current \in Peers /\ ~open[current]
      BY <1>11 DEF ShutdownDel, ShutdownHitsContested
    <2>2. HolderIsLive'
      BY <2>1 DEF HolderIsLive, Live, stage
    <2>3. RivalsContested'
      BY <2>1 DEF RivalsContested, Live, Busy, stage
    <2>4. UncontestedIsListed'
      BY <2>1 DEF UncontestedIsListed, ShutdownHitsContested, Served, Live, stage
    <2>5. ShutdownHitsContested'
      BY <2>1 DEF ShutdownHitsContested, Live, stage
    <2>6. ShutdownCovers'
      BY <2>1 DEF ShutdownCovers
    <2> QED  BY <2>2, <2>3, <2>4, <2>5, <2>6 DEF Table, Closing
  <1>12. ASSUME ShutdownReturn \/ UNCHANGED vars PROVE Goal'
    <2>1. UNCHANGED <<peers, name, contested, cpc, hpc, open, todo, current>>
          /\ spc' \in {spc, "done"}
      BY <1>12 DEF ShutdownReturn, vars
    <2>2. Table'
      BY <2>1, QuietStep DEF Live, Busy, Served, stage
    <2>3. Closing'
      BY <2>1 DEF Closing, ShutdownHitsContested, ShutdownCovers, Live, stage
    <2> QED  BY <2>2, <2>3
  <1> QED
    BY <1>1, <1>2, <1>3, <1>4, <1>5, <1>6, <1>7, <1>8, <1>9, <1>10, <1>11, <1>12
       DEF Next, Connect, Handler, Shutdown

LEMMA Invariance == Spec => []IInv
  <1>1. IInv /\ [Next]_vars => IInv'
    BY TypeStep, ControlStep, TableStep DEF IInv, Table, Closing
  <1> QED  BY <1>1, InitIInv, PTL DEF Spec

(* addPeer always finds its name free, whatever handlers delete meanwhile. *)
THEOREM AddPeerNeverRefuses == Spec => []AddNeverRefused
  <1>1. IInv => AddNeverRefused
    BY DEF IInv, FreeName, AddNeverRefused
  <1> QED  BY <1>1, Invariance, PTL

(* An open peer that never met another of its name is in the table.        *)
THEOREM UncontestedStaysListed == Spec => []ListedUnlessContested
  <1>1. IInv => ListedUnlessContested
    BY DEF IInv, TypeOK, UncontestedIsListed, HandlerAfterConnect, Served, Live, stage,
       ListedUnlessContested
  <1> QED  BY <1>1, Invariance, PTL

(* Shutdown leaves an empty table, though it deletes by name from a list   *)
(* that grows stale while handlers delete too.                             *)
THEOREM ShutdownLeavesNothing == Spec => []ShutdownEmpties
  <1>1. IInv => ShutdownEmpties
    BY DEF IInv, TypeOK, ShutdownCovers, ShutdownEmpties
  <1> QED  BY <1>1, Invariance, PTL

(* The table of peers is a registry: a handler that has returned leaves    *)
(* nothing of its peer behind.                                             *)
THEOREM BridgeIsRegistry == Spec => Implements
  <1>1. Init => Reg!Init
    BY DEF Init, Reg!Init, stage
  <1>2. ASSUME IInv, [Next]_vars PROVE [Reg!Next]_(Reg!vars)
    <2> USE <1>2 DEF IInv, TypeOK, Goto, Shut, Delete, HandlerStep
    <2>1. ASSUME NEW p \in Peers, AddStore(p) PROVE Reg!Enter(name[p], p)
      <3>1. cpc[p] = "store" /\ hpc[p] = "none" /\ hpc' = hpc
            /\ cpc' = [cpc EXCEPT ![p] = "spawn"]
        BY <2>1 DEF AddStore, HandlerAfterConnect
      <3>2. stage' = [stage EXCEPT ![p] = "live"] /\ stage[p] = "new"
        BY <3>1 DEF stage
      <3> QED  BY <2>1, <3>2 DEF AddStore, Reg!Enter
    <2>2. ASSUME NEW p \in Peers, HandlerDel(p) PROVE Reg!Retire(p)
      <3>1. stage' = [stage EXCEPT ![p] = "gone"] /\ stage[p] # "gone"
        BY <2>2 DEF HandlerDel, stage
      <3>2. \A k \in Names : peers'[k] # p
        BY <2>2 DEF HandlerDel, HolderIsLive
      <3> QED  BY <2>2, <3>1, <3>2 DEF HandlerDel, Reg!Retire
    <2>3. ASSUME NEW p \in Peers, HandlerDelGet(p)
          PROVE  Reg!Retire(p) \/ UNCHANGED Reg!vars
      <3>1. CASE peers[name[p]] = None
        <4>1. stage' = [stage EXCEPT ![p] = "gone"] /\ stage[p] # "gone"
          BY <2>3, <3>1 DEF HandlerDelGet, stage
        <4>2. \A k \in Names : peers'[k] # p
          BY <2>3, <3>1 DEF HandlerDelGet, HolderIsLive
        <4> QED  BY <2>3, <4>1, <4>2 DEF HandlerDelGet, Reg!Retire
      <3>2. CASE peers[name[p]] # None
        BY <2>3, <3>2 DEF HandlerDelGet, Reg!vars, stage
      <3> QED  BY <3>1, <3>2
    <2>4. ASSUME NEW p \in Peers, ConnectDel(p) PROVE Reg!Clear(name[p])
      BY <2>4 DEF ConnectDel, Reg!Clear, stage
    <2>5. ASSUME ShutdownDel PROVE Reg!Clear(name[current]) /\ name[current] \in Names
      BY <2>5 DEF ShutdownDel, Reg!Clear, stage, ShutdownHitsContested
    <2>6. ASSUME NEW p \in Peers, AddGet(p) \/ Spawn(p) PROVE UNCHANGED Reg!vars
      BY <2>6 DEF AddGet, Spawn, Reg!vars, stage, FreeName, HandlerAfterConnect
    <2>7. ASSUME NEW p \in Peers,
                 \/ Lock(p) \/ HoleFails(p) \/ HoleMade(p) \/ ConnectGet(p)
                 \/ ConnectClose(p) \/ ConnectDelGet(p) \/ Drop(p) \/ ReadFails(p)
                 \/ ShutdownClose(p)
          PROVE  UNCHANGED Reg!vars
      BY <2>7 DEF Lock, HoleFails, HoleMade, ConnectGet, ConnectClose, ConnectDelGet, Drop,
         ReadFails, ShutdownClose, Reg!vars, stage
    <2>8. ASSUME ShutdownLock \/ ShutdownDelGet \/ ShutdownReturn \/ UNCHANGED vars
          PROVE  UNCHANGED Reg!vars
      BY <2>8 DEF ShutdownLock, ShutdownDelGet, ShutdownReturn, vars, Reg!vars, stage
    <2> QED
      BY <2>1, <2>2, <2>3, <2>4, <2>5, <2>6, <2>7, <2>8
         DEF Next, Connect, Handler, Shutdown, Reg!Next
  <1> QED  BY <1>1, <1>2, Invariance, PTL DEF Spec, Implements, Reg!Spec
=============================================================================

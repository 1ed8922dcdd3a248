------------------------------- MODULE Bridge -------------------------------
(***************************************************************************)
(* The bridge's table of peers (pkg/bridge/bridge.go) and the threads that *)
(* use it: P2PNetwork.NewNatPeer connects peers under peerMutex            *)
(* (app/network.go, app_android/network.go), every connected peer has a    *)
(* handlePeer goroutine, and on Android Shutdown disconnects all of them   *)
(* (app_android/network.go).  A peer is one punched connection; two peers  *)
(* of one name are successive connections to the same node.                *)
(***************************************************************************)
CONSTANTS Peers,    \* the connections punched
          Names,    \* the names of the remote nodes
          Closer,   \* the thread that runs Shutdown
          None      \* nobody

ASSUME DistinctThreads == None \notin Peers /\ Closer \notin Peers /\ Closer # None

VARIABLES mutex,      \* holder of P2PNetwork.peerMutex
          cpc,        \* where the NewNatPeer call of each peer stands
          hpc,        \* where the handlePeer goroutine of each peer stands
          spc,        \* where Shutdown stands
          name,       \* Peer.name
          open,       \* the peer's transport exists and is not closed
          peers,      \* Bridge.peers
          old,        \* ConnectPeer's local variable
          todo,       \* Shutdown's list of peers still to disconnect
          current,    \* the peer Shutdown is disconnecting
          contested   \* history: looked after together with one of its name

vars == <<mutex, cpc, hpc, spc, name, open, peers, old, todo, current, contested>>
local == <<spc, name, old, todo, current>>

Connecting == {"get", "close", "delget", "del", "addget", "store", "spawn"}

TypeOK ==
    /\ mutex \in Peers \cup {Closer, None}
    /\ cpc \in [Peers -> {"lock", "hole", "failed", "returned"} \cup Connecting]
    /\ hpc \in [Peers -> {"none", "read", "delget", "del", "exited"}]
    /\ spc \in {"lock", "next", "delget", "del", "done"}
    /\ name \in [Peers -> Names]
    /\ open \in [Peers -> BOOLEAN]
    /\ peers \in [Names -> Peers \cup {None}]
    /\ old \in [Peers -> Peers \cup {None}]
    /\ todo \subseteq Peers
    /\ current \in Peers \cup {None}
    /\ contested \in [Peers -> BOOLEAN]

Init ==
    /\ mutex = None
    /\ cpc = [p \in Peers |-> "lock"]
    /\ hpc = [p \in Peers |-> "none"]
    /\ spc = "lock"
    /\ name \in [Peers -> Names]
    /\ open = [p \in Peers |-> FALSE]
    /\ peers = [n \in Names |-> None]
    /\ old = [p \in Peers |-> None]
    /\ todo = {}
    /\ current = None
    /\ contested = [p \in Peers |-> FALSE]

Goto(p, l) == cpc' = [cpc EXCEPT ![p] = l]
Shut(p) == open' = [open EXCEPT ![p] = FALSE]
Delete(n) == peers' = [peers EXCEPT ![n] = None]

(* Stored and still looked after by its handler. *)
stage == [p \in Peers |-> IF hpc[p] = "exited" THEN "gone"
                          ELSE IF hpc[p] # "none" \/ cpc[p] = "spawn" THEN "live"
                          ELSE "new"]

Rivals(p) == {q \in Peers \ {p} : name[q] = name[p] /\ stage[q] = "live"}

-----------------------------------------------------------------------------
(* NewNatPeer and ConnectPeer *)

Lock_NoMutex(p) ==
    /\ cpc[p] = "lock"
    /\ mutex' = p
    /\ Goto(p, "hole")
    /\ UNCHANGED <<local, hpc, open, peers, contested>>

Lock(p) ==
    /\ cpc[p] = "lock" /\ mutex = None
    /\ mutex' = p
    /\ Goto(p, "hole")
    /\ UNCHANGED <<local, hpc, open, peers, contested>>

HoleFails_NoUnlock(p) ==
    /\ cpc[p] = "hole"
    /\ Goto(p, "failed")
    /\ UNCHANGED <<local, mutex, hpc, open, peers, contested>>

(* The address does not parse, or MakeHole gives up. *)
HoleFails(p) ==
    /\ cpc[p] = "hole"
    /\ mutex' = None
    /\ Goto(p, "failed")
    /\ UNCHANGED <<local, hpc, open, peers, contested>>

(* MakeHole succeeds: the peer's transport runs from here on. *)
HoleMade(p) ==
    /\ cpc[p] = "hole"
    /\ open' = [open EXCEPT ![p] = TRUE]
    /\ Goto(p, "get")
    /\ contested' = [q \in Peers |->
          contested[q] \/ (Rivals(p) # {} /\ q \in Rivals(p) \cup {p})]
    /\ UNCHANGED <<local, mutex, hpc, peers>>

ConnectGet(p) ==
    /\ cpc[p] = "get"
    /\ old' = [old EXCEPT ![p] = peers[name[p]]]
    /\ Goto(p, IF peers[name[p]] = None THEN "addget" ELSE "close")
    /\ UNCHANGED <<mutex, hpc, spc, name, open, peers, todo, current, contested>>

ConnectClose(p) ==
    /\ cpc[p] = "close"
    /\ Shut(old[p])
    /\ Goto(p, "delget")
    /\ UNCHANGED <<local, mutex, hpc, peers, contested>>

(* delPeer looks before it deletes. *)
ConnectDelGet(p) ==
    /\ cpc[p] = "delget"
    /\ Goto(p, IF peers[name[p]] = None THEN "addget" ELSE "del")
    /\ UNCHANGED <<local, mutex, hpc, open, peers, contested>>

ConnectDel(p) ==
    /\ cpc[p] = "del"
    /\ Delete(name[p])
    /\ Goto(p, "addget")
    /\ UNCHANGED <<local, mutex, hpc, open, contested>>

(* addPeer refuses a name that is taken; ConnectPeer goes on regardless. *)
AddGet(p) ==
    /\ cpc[p] = "addget"
    /\ Goto(p, IF peers[name[p]] = None THEN "store" ELSE "spawn")
    /\ UNCHANGED <<local, mutex, hpc, open, peers, contested>>

AddStore_Skip(p) ==
    /\ cpc[p] = "store"
    /\ Goto(p, "spawn")
    /\ UNCHANGED <<local, mutex, hpc, open, peers, contested>>

AddStore(p) ==
    /\ cpc[p] = "store"
    /\ peers' = [peers EXCEPT ![name[p]] = p]
    /\ Goto(p, "spawn")
    /\ UNCHANGED <<local, mutex, hpc, open, contested>>

(* go b.handlePeer(p), and the deferred Unlock of NewNatPeer. *)
Spawn(p) ==
    /\ cpc[p] = "spawn"
    /\ hpc' = [hpc EXCEPT ![p] = "read"]
    /\ mutex' = None
    /\ Goto(p, "returned")
    /\ UNCHANGED <<local, open, peers, contested>>

-----------------------------------------------------------------------------
(* handlePeer *)

(* The remote node is gone: the readloop or the keepalive closes the peer. *)
Drop(p) ==
    /\ open[p]
    /\ Shut(p)
    /\ UNCHANGED <<local, mutex, cpc, hpc, peers, contested>>

HandlerStep(p, from, to) == hpc[p] = from /\ hpc' = [hpc EXCEPT ![p] = to]

ReadFails_NoDisconnect(p) ==
    /\ ~open[p]
    /\ HandlerStep(p, "read", "exited")
    /\ UNCHANGED <<local, mutex, cpc, open, peers, contested>>

(* Read reports the closed channel; DisconnectPeer closes p once more. *)
ReadFails(p) ==
    /\ ~open[p]
    /\ HandlerStep(p, "read", "delget")
    /\ UNCHANGED <<local, mutex, cpc, open, peers, contested>>

HandlerDelGet(p) ==
    /\ HandlerStep(p, "delget", IF peers[name[p]] = None THEN "exited" ELSE "del")
    /\ UNCHANGED <<local, mutex, cpc, open, peers, contested>>

(* The key is the name: whoever holds it by now is deleted. *)
HandlerDel(p) ==
    /\ HandlerStep(p, "del", "exited")
    /\ Delete(name[p])
    /\ UNCHANGED <<local, mutex, cpc, open, contested>>

-----------------------------------------------------------------------------
(* Shutdown *)

ShutdownLock_NoMutex ==
    /\ spc = "lock"
    /\ mutex' = Closer
    /\ todo' = {p \in Peers : \E n \in Names : peers[n] = p}
    /\ spc' = "next"
    /\ UNCHANGED <<cpc, hpc, name, open, peers, old, current, contested>>

(* Peers() is taken as a snapshot: nothing is added under the mutex.       *)
ShutdownLock ==
    /\ spc = "lock" /\ mutex = None
    /\ mutex' = Closer
    /\ todo' = {p \in Peers : \E n \in Names : peers[n] = p}
    /\ spc' = "next"
    /\ UNCHANGED <<cpc, hpc, name, open, peers, old, current, contested>>

ShutdownClose(p) ==
    /\ spc = "next" /\ p \in todo
    /\ todo' = todo \ {p}
    /\ current' = p
    /\ Shut(p)
    /\ spc' = "delget"
    /\ UNCHANGED <<mutex, cpc, hpc, name, peers, old, contested>>

ShutdownDelGet ==
    /\ spc = "delget"
    /\ spc' = IF peers[name[current]] = None THEN "next" ELSE "del"
    /\ UNCHANGED <<mutex, cpc, hpc, name, open, peers, old, todo, current, contested>>

ShutdownDel ==
    /\ spc = "del"
    /\ Delete(name[current])
    /\ spc' = "next"
    /\ UNCHANGED <<mutex, cpc, hpc, name, open, old, todo, current, contested>>

ShutdownReturn ==
    /\ spc = "next" /\ todo = {}
    /\ mutex' = None
    /\ spc' = "done"
    /\ UNCHANGED <<cpc, hpc, name, open, peers, old, todo, current, contested>>

-----------------------------------------------------------------------------
Connect(p) ==
    \/ Lock(p) \/ HoleFails(p) \/ HoleMade(p) \/ ConnectGet(p) \/ ConnectClose(p)
    \/ ConnectDelGet(p) \/ ConnectDel(p) \/ AddGet(p) \/ AddStore(p) \/ Spawn(p)

Handler(p) == ReadFails(p) \/ HandlerDelGet(p) \/ HandlerDel(p)

Shutdown == \/ ShutdownLock \/ ShutdownDelGet \/ ShutdownDel \/ ShutdownReturn
            \/ \E p \in Peers : ShutdownClose(p)

Next == \/ \E p \in Peers : Connect(p) \/ Handler(p) \/ Drop(p)
        \/ Shutdown

Spec == Init /\ [][Next]_vars

(* Goroutines that can run do run, and MakeHole gives up after its         *)
(* timeouts.  Nobody owes a Drop.  Every thread here takes the mutex once, *)
(* so weak fairness is enough for it to be obtained.                       *)
Fairness == /\ \A p \in Peers : WF_vars(Connect(p)) /\ WF_vars(Handler(p))
            /\ WF_vars(Shutdown)

FairSpec == Spec /\ Fairness

-----------------------------------------------------------------------------
(* Properties *)

Reg == INSTANCE Registry
       WITH Keys <- Names, Items <- Peers, table <- peers, stage <- stage

(* The table of peers is a registry: a peer whose handler has returned is  *)
(* not in it, although three kinds of threads delete by name, each looking *)
(* before it deletes, and only the connecting ones hold the mutex.         *)
Implements == Reg!Spec

(* ConnectPeer frees the name before it adds: addPeer never refuses, so no *)
(* handler is started for a peer the bridge does not know.                 *)
AddNeverRefused == \A p \in Peers : cpc[p] = "addget" => peers[name[p]] = None

(* An open peer that never met another of its name is listed as long as    *)
(* its handler reads: packets for it are forwarded and HasPeer is true.    *)
ListedUnlessContested ==
    \A p \in Peers :
        hpc[p] = "read" /\ open[p] /\ ~contested[p] => peers[name[p]] = p

(* When Shutdown has disconnected its list, the bridge knows no peer.      *)
ShutdownEmpties == spc = "next" /\ todo = {} => \A n \in Names : peers[n] = None

(* A closed peer does not stay listed: the node would go on believing that *)
(* it has the peer (HasPeer) and never punch again.                        *)
GhostsFade ==
    \A p \in Peers, n \in Names : peers[n] = p /\ ~open[p] ~> peers[n] # p

(* NewNatPeer returns whatever becomes of the hole and of the calls that   *)
(* hold the mutex before it.                                               *)
ConnectReturns ==
    \A p \in Peers : cpc[p] = "lock" ~> cpc[p] \in {"failed", "returned"}
=============================================================================

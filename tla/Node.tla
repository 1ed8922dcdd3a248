------------------------------- MODULE Node -------------------------------
(***************************************************************************)
(* Node processes (cmd/node/service, app/node.go, app/network.go), their   *)
(* exchangers (pkg/hub/exchanger.go) and the hub that punches for them     *)
(* (pkg/hub/hub.go).  A process that is started again is another process:  *)
(* the hub gives it a new name.                                            *)
(*                                                                         *)
(* Taken from other modules, in one step each: what the hub does with its  *)
(* table (Hub), a call to the hub (Rpc), the two ends of a hole            *)
(* (HolePunch), ConnectPeer (Bridge) and the keepalives (Transport).       *)
(***************************************************************************)
EXTENDS Naturals

CONSTANTS Nodes,        \* processes, by the name the hub gives them
          MaxLogins,    \* bound: logins of each process
          MaxPunches,   \* bound: punch requests
          MaxFailures,  \* bound: lost sessions, slow answers and ends of processes
          Budgets,      \* bound: which of these may be reached in one behaviour
          Ways,         \* of a hole, each from one socket to another
          Itself,       \* the way from a socket to itself
          None

Sessions == Nodes \X (1..MaxLogins)
Owner(s) == s[1]
Punches == 1..MaxPunches

ASSUME NoneIsNoSession == None \notin Sessions \cup Nodes
ASSUME TwoWays == \E v, w \in Ways : v # w
ASSUME WaysAreWays == {None, Itself} \cap Ways = {} /\ None # Itself
ASSUME Bounds == {MaxLogins, MaxPunches, MaxFailures} \subseteq Nat

VARIABLES pc,        \* where each process's main goroutine stands
          logins,    \* the last one is the session of the current exchanger
          todo, at,  \* peers still to look at; the one being detected for
          open,      \* sessions whose transport has not been closed
          hub,       \* what the hub does with each session
          table,     \* Hub.sessions
          punches,   \* punch requests sent so far
          jobs,      \* handlePunch goroutines of the hub
          pushed,    \* PunchResponses a node has yet to take from Accept
          making,    \* the hole NewNatPeer makes: it holds peerMutex
          links,     \* the hole behind each node's connection to a peer, ...
          ways,      \* ... and the way the node has settled on
          failures   \* so far

loop == <<pc, logins, todo, at>>
server == <<open, hub, table>>
punching == <<punches, jobs, pushed>>
network == <<making, links, ways>>
vars == <<loop, server, punching, network, failures>>

Plans == [id : Punches, to : Sessions, peer : Nodes, asker : BOOLEAN]
Jobs == [id : Punches, asker : Sessions, asked : Sessions]
NoHole == 0
AnyWay == Ways \cup {Itself}

TypeOK ==
    /\ pc \in [Nodes -> {"login", "list", "walk", "detect", "down"}]
    /\ logins \in [Nodes -> 0..MaxLogins]
    /\ todo \in [Nodes -> SUBSET Nodes] /\ at \in [Nodes -> Nodes]
    /\ open \subseteq Sessions
    /\ hub \in [Sessions -> {"none", "serving", "gone"}]
    /\ table \in [Nodes -> Sessions \cup {None}]
    /\ punches \in 0..MaxPunches
    /\ jobs \subseteq Jobs /\ pushed \subseteq Plans
    /\ making \in [Nodes -> Plans \cup {None}]
    /\ links \in [Nodes -> [Nodes -> {NoHole} \cup Punches]]
    /\ ways \in [Nodes -> [Nodes -> AnyWay \cup {None}]]
    /\ failures \in 0..MaxFailures

Init ==
    /\ pc = [n \in Nodes |-> "login"]
    /\ logins = [n \in Nodes |-> 0]
    /\ todo = [n \in Nodes |-> {}] /\ at = [n \in Nodes |-> n]
    /\ open = {}
    /\ hub = [s \in Sessions |-> "none"]
    /\ table = [n \in Nodes |-> None]
    /\ punches = 0 /\ jobs = {} /\ pushed = {}
    /\ making = [n \in Nodes |-> None]
    /\ links = [n \in Nodes |-> [m \in Nodes |-> NoHole]]
    /\ ways = [n \in Nodes |-> [m \in Nodes |-> None]]
    /\ failures = 0

(* Of some budget <<logins, punches, failures>> no part is exceeded.       *)
Within(l, p, f) ==
    \E b \in Budgets : (\A n \in Nodes : l[n] <= b[1]) /\ p <= b[2] /\ f <= b[3]

Fail == /\ failures < MaxFailures /\ Within(logins, punches, failures + 1)
        /\ failures' = failures + 1
Goto(n, l) == pc' = [pc EXCEPT ![n] = l]
Runs(n) == pc[n] # "down"
Session(n) == <<n, logins[n]>>
Served(n) == Session(n) \in open /\ hub[Session(n)] = "serving"

-----------------------------------------------------------------------------
(* The process ends: it is told to, is killed, or panics (handleDetectNat  *)
(* after a detection that failed).  The kernel closes what it had open;    *)
(* the host's firewall is in module Rules.                                 *)
Exit(n) ==
    /\ Runs(n) /\ Fail
    /\ Goto(n, "down")
    /\ todo' = [todo EXCEPT ![n] = {}] /\ at' = [at EXCEPT ![n] = n]
    /\ open' = {s \in open : Owner(s) # n}
    /\ pushed' = {p \in pushed : Owner(p.to) # n}
    /\ making' = [making EXCEPT ![n] = None]
    /\ links' = [links EXCEPT ![n] = [m \in Nodes |-> NoHole]]
    /\ ways' = [ways EXCEPT ![n] = [m \in Nodes |-> None]]
    /\ UNCHANGED <<logins, hub, table, punches, jobs>>

-----------------------------------------------------------------------------
(* Service.Run *)

(* NewExchanger, and saveSession on the hub.  The exchanger before is not  *)
(* closed by the node, and its Accept goroutine goes on.                   *)
Login(n) ==
    /\ pc[n] = "login" /\ logins[n] < MaxLogins
    /\ logins' = [logins EXCEPT ![n] = @ + 1]
    /\ Within(logins', punches, failures)
    /\ open' = (open \ {table[n]}) \cup {Session(n)'}
    /\ hub' = [hub EXCEPT ![Session(n)'] = "serving"]
    /\ table' = [table EXCEPT ![n] = Session(n)']
    /\ Goto(n, "list")
    /\ UNCHANGED <<todo, at, punching, network, failures>>

GetPeers(n) ==
    /\ pc[n] = "list" /\ Served(n)
    /\ todo' = [todo EXCEPT ![n] = {m \in Nodes \ {n} : table[m] # None}]
    /\ Goto(n, "walk")
    /\ UNCHANGED <<logins, at, server, punching, network, failures>>

(* The session is closed, or the answer takes more than ten seconds. *)
GetPeersFails(n) ==
    /\ pc[n] = "list"
    /\ \/ Session(n) \notin open /\ UNCHANGED failures
       \/ Session(n) \in open /\ Fail
    /\ Goto(n, "login")
    /\ UNCHANGED <<logins, todo, at, server, punching, network>>

HasPeer_Again(n, m) ==
    /\ pc[n] = "walk" /\ m \in todo[n] /\ making[n] = None
    /\ IF links[n][m] # NoHole THEN UNCHANGED <<pc, at>>
       ELSE Goto(n, "detect") /\ at' = [at EXCEPT ![n] = m]
    /\ UNCHANGED <<logins, todo, server, punching, network, failures>>

(* HasPeer waits for peerMutex. *)
HasPeer(n, m) ==
    /\ pc[n] = "walk" /\ m \in todo[n] /\ making[n] = None
    /\ todo' = [todo EXCEPT ![n] = @ \ {m}]
    /\ IF links[n][m] # NoHole THEN UNCHANGED <<pc, at>>
       ELSE Goto(n, "detect") /\ at' = [at EXCEPT ![n] = m]
    /\ UNCHANGED <<logins, server, punching, network, failures>>

(* PunchPeer, and loadSession in the hub's handlePunch.  Whether the       *)
(* detection, the Send or the look-up fails, the loop goes on.             *)
PunchPeer(n) ==
    /\ pc[n] = "detect"
    /\ Goto(n, "walk") /\ at' = [at EXCEPT ![n] = n]
    /\ \/ /\ Session(n) \in open /\ table[at[n]] # None
          /\ punches < MaxPunches /\ Within(logins, punches + 1, failures)
          /\ punches' = punches + 1
          /\ jobs' = jobs \cup {[id |-> punches', asker |-> Session(n), asked |-> table[at[n]]]}
       \/ UNCHANGED <<punches, jobs>>
    /\ UNCHANGED <<logins, todo, server, pushed, network, failures>>

EndOfList(n) ==
    /\ pc[n] = "walk" /\ todo[n] = {}
    /\ Goto(n, "list")
    /\ UNCHANGED <<logins, todo, at, server, punching, network, failures>>

-----------------------------------------------------------------------------
(* The hub *)

Drop(s) ==
    /\ s \in open /\ Fail
    /\ open' = open \ {s}
    /\ UNCHANGED <<loop, hub, table, punching, network>>

(* removeSession frees the name, whoever holds it, and closes the session  *)
(* it found there, unless that was stored only after it looked.            *)
HubRemove(s) ==
    /\ hub[s] = "serving" /\ s \notin open
    /\ hub' = [hub EXCEPT ![s] = "gone"]
    /\ open' \in {open, open \ {table[Owner(s)]}}
    /\ table' = [table EXCEPT ![Owner(s)] = None]
    /\ UNCHANGED <<loop, punching, network, failures>>

PunchPlans_Retried(j) ==
    /\ j.asked \in open
    /\ pushed' = pushed \cup {p \in
          {[id |-> j.id, to |-> j.asker, peer |-> Owner(j.asked), asker |-> TRUE],
           [id |-> j.id, to |-> j.asked, peer |-> Owner(j.asker), asker |-> FALSE]} :
          p.to \in open}
    /\ UNCHANGED <<loop, server, jobs, punches, network, failures>>

PunchPlans_OneSession(j) ==
    /\ j.asked \in open
    /\ jobs' = jobs \ {j}
    /\ pushed' = pushed \cup {p \in
          {[id |-> j.id, to |-> j.asker, peer |-> Owner(j.asked), asker |-> TRUE],
           [id |-> j.id, to |-> j.asker, peer |-> Owner(j.asker), asker |-> FALSE]} :
          p.to \in open}
    /\ UNCHANGED <<loop, server, punches, network, failures>>

(* The asked node's handleDetectNat answers in time, and each end is sent  *)
(* its plan.                                                               *)
PunchPlans(j) ==
    /\ j.asked \in open
    /\ jobs' = jobs \ {j}
    /\ pushed' = pushed \cup {p \in
          {[id |-> j.id, to |-> j.asker, peer |-> Owner(j.asked), asker |-> TRUE],
           [id |-> j.id, to |-> j.asked, peer |-> Owner(j.asker), asker |-> FALSE]} :
          p.to \in open}
    /\ UNCHANGED <<loop, server, punches, network, failures>>

(* The request is lost with its session, or three seconds have passed.     *)
PunchGivesUp(j) ==
    /\ jobs' = jobs \ {j}
    /\ UNCHANGED <<loop, server, punches, pushed, network, failures>>

-----------------------------------------------------------------------------
(* Exchanger.handlePunch, the Accept goroutines, NewNatPeer *)

Making(n, id) == making[n] # None /\ making[n].id = id

(* Were it the loop that takes the plans, between two peers.               *)
Take_InLoop(p) ==
    LET n == Owner(p.to) IN
    /\ p \in pushed /\ making[n] = None /\ pc[n] = "walk"
    /\ pushed' = pushed \ {p}
    /\ making' = [making EXCEPT ![n] = p]
    /\ UNCHANGED <<loop, server, punches, jobs, links, ways, failures>>

(* Every PunchResponse waits in a goroutine of its own: any may be next.   *)
Take(p) ==
    LET n == Owner(p.to) IN
    /\ p \in pushed /\ making[n] = None
    /\ pushed' = pushed \ {p}
    /\ making' = [making EXCEPT ![n] = p]
    /\ UNCHANGED <<loop, server, punches, jobs, links, ways, failures>>

(* handlePunch chooses session.Done(). *)
Forget(p) ==
    /\ p \in pushed /\ p.to \notin open
    /\ pushed' = pushed \ {p}
    /\ UNCHANGED <<loop, server, punches, jobs, network, failures>>

(* What n may settle on: the way its peer is on, or another, be it one to  *)
(* another socket of its own.  All others being alike, one stands for them.*)
WaysOf(n, m) == ({ways[m][n], CHOOSE w \in Ways : w # ways[m][n]} \ {None}) \cup {Itself}

(* MakeHole and ConnectPeer, which replaces the connection there was.  The *)
(* first packet makes the hole, whoever sent it and on whichever socket:   *)
(* no end vouches for the other.                                           *)
HoleMade(n) ==
    /\ making[n] # None
    /\ LET m == making[n].peer IN
       /\ links' = [links EXCEPT ![n][m] = making[n].id]
       /\ \E w \in WaysOf(n, m) : ways' = [ways EXCEPT ![n][m] = w]
    /\ making' = [making EXCEPT ![n] = None]
    /\ UNCHANGED <<loop, server, punching, failures>>

HoleFails(n) ==
    /\ making[n] # None
    /\ making' = [making EXCEPT ![n] = None]
    /\ UNCHANGED <<loop, server, punching, links, ways, failures>>

(* The two connections use one way of one hole. *)
Joined(n, m) ==
    links[n][m] # NoHole /\ links[m][n] = links[n][m] /\ ways[m][n] = ways[n][m] /\ ways[n][m] # Itself

(* The connection is closed and leaves the bridge: a failure, or the       *)
(* keepalive when nobody is, or may still come, to the other end.          *)
Unlink(n, m) ==
    /\ links[n][m] # NoHole
    /\ links' = [links EXCEPT ![n][m] = NoHole] /\ ways' = [ways EXCEPT ![n][m] = None]
    /\ UNCHANGED <<loop, server, punching, making, failures>>

Silent_OtherHoleOnly(n, m) ==
    /\ links[m][n] # links[n][m] /\ ways[n][m] # Itself /\ ~Making(m, links[n][m])
    /\ Unlink(n, m)

(* A socket that sends to itself is never silent.                          *)
Silent(n, m) ==
    /\ ~Joined(n, m) /\ ways[n][m] # Itself /\ ~Making(m, links[n][m])
    /\ Unlink(n, m)

-----------------------------------------------------------------------------
Loop(n) == \/ Login(n) \/ GetPeers(n) \/ GetPeersFails(n)
           \/ PunchPeer(n) \/ EndOfList(n)
           \/ \E m \in Nodes : HasPeer(n, m)

HandlePunch(j) == PunchPlans(j) \/ PunchGivesUp(j)

Next ==
    \/ \E n \in Nodes : Exit(n) \/ Loop(n) \/ HoleMade(n) \/ HoleFails(n)
    \/ \E n, m \in Nodes : Unlink(n, m)
    \/ \E s \in Sessions : Drop(s) \/ HubRemove(s)
    \/ \E j \in jobs : HandlePunch(j)
    \/ \E p \in pushed : Take(p) \/ Forget(p)

Spec == Init /\ [][Next]_vars

(* Goroutines run.  sync.Mutex hands itself to whoever has waited longest: *)
(* strong fairness for HasPeer and for the takers.  Processes, failures    *)
(* and the hub's answers owe nothing.                                      *)
Fairness ==
    /\ \A n \in Nodes :
          /\ WF_vars(PunchPeer(n)) /\ WF_vars(EndOfList(n))
          /\ SF_vars(\E m \in Nodes : HasPeer(n, m))
          /\ WF_vars(HoleMade(n) \/ HoleFails(n))
          /\ \A m \in Nodes \ {n} : WF_vars(Silent(n, m))
    /\ \A i \in Punches, a \in BOOLEAN :
          SF_vars(\E p \in pushed : p.id = i /\ p.asker = a /\ (Take(p) \/ Forget(p)))

FairSpec == Spec /\ Fairness

-----------------------------------------------------------------------------
(* Properties *)

(* Whoever holds a plan of a punch, makes a hole by it or uses that, names *)
(* as its peer the other node of the punch, which names this one, although *)
(* sessions are replaced while the hub punches and plans are taken in any  *)
(* order.                                                                  *)
Uses(n) == {<<p.id, p.peer>> : p \in {q \in pushed : Owner(q.to) = n}}
           \cup (IF making[n] = None THEN {} ELSE {<<making[n].id, making[n].peer>>})
           \cup {<<links[n][m], m>> : m \in {k \in Nodes : links[n][k] # NoHole}}

HolesPaired ==
    \A n, m \in Nodes : \A u \in Uses(n), v \in Uses(m) :
        u[1] = v[1] => IF n = m THEN u = v ELSE u[2] = m /\ v[2] = n

(* The hub has punched, and n has nothing left of that punch.              *)
GivenUp(n, i) ==
    /\ i <= punches
    /\ \A j \in jobs : j.id # i
    /\ \A u \in Uses(n) : u[1] # i

(* A connection that leaves the bridge, silent, replaced or with its       *)
(* process, takes its hole along; no node comes back to a hole it has left *)
(* or has failed to make, whatever plans are still on their way.           *)
NeverReused ==
    [][\A n \in Nodes, i \in Punches :
          /\ (\E m \in Nodes : links[n][m] = i /\ links'[n][m] # i) => GivenUp(n, i)'
          /\ GivenUp(n, i) => GivenUp(n, i)']_vars

(* Two ends on different holes or on different ways of one, an end alone   *)
(* or on a way to a socket of its own do not stay that way: HasPeer would  *)
(* keep the node from punching again.  Only a socket that has taken itself *)
(* for the peer answers its own keepalives.                                *)
HalfOpen(n, m) == links[n][m] # NoHole /\ ~Joined(n, m) /\ ways[n][m] # Itself

HalfOpenHeals ==
    \A n, m \in Nodes : n # m => (HalfOpen(n, m) ~> ~HalfOpen(n, m))

(* The loop comes back to asking the hub, whatever becomes of detections,  *)
(* and of the holes that HasPeer waits for.                                *)
LoopReturns ==
    \A n \in Nodes : pc[n] \in {"walk", "detect"} ~> pc[n] \notin {"walk", "detect"}

(* A plan that reaches a node is tried or given up with its session, also  *)
(* when it came through an exchanger the node has replaced since.          *)
PlansTried ==
    \A i \in Punches :
        (\E p \in pushed : p.id = i) ~> ~(\E p \in pushed : p.id = i)
=============================================================================

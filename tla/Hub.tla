-------------------------------- MODULE Hub --------------------------------
(***************************************************************************)
(* The hub: logins over TCP (pkg/hub/hub_tcp.go) and the table of sessions *)
(* (pkg/hub/hub.go).  Every connection has one login goroutine and, once   *)
(* handed over, one handler goroutine; pc says where that line of control  *)
(* stands.  The handlers share `sessions`, a sync.Map: each call on it is  *)
(* atomic and nothing joins two of them, so every call is a step.          *)
(***************************************************************************)
CONSTANTS Sessions,   \* the connections the hub accepts
          Names,      \* the names clients log in with
          None        \* no session

ASSUME NoneIsNoSession == None \notin Sessions

VARIABLES pc,         \* where each connection's goroutine stands
          open,       \* the session's transport has not been closed
          inbox,      \* what the client has sent before being served
          name,       \* the name given at login
          found,      \* the local variable `old`
          sessions,   \* Hub.sessions
          listening,  \* TcpHubServer.sessionCh is open
          crashed,    \* a goroutine panicked and took the process down
          contested   \* history: handled together with a session of its name

vars == <<pc, open, inbox, name, found, sessions, listening, crashed, contested>>

Login == {"wait", "reply", "offer"}
Saving == {"load", "evict", "store"}
Listed == {"serve", "rload", "rclose", "rdelete"}
Handling == Saving \cup Listed
Gone == {"last", "done"}

TypeOK ==
    /\ pc \in [Sessions -> {"free"} \cup Login \cup Handling \cup Gone]
    /\ open \in [Sessions -> BOOLEAN]
    /\ inbox \in [Sessions -> {"empty", "good", "bad"}]
    /\ name \in [Sessions -> Names]
    /\ found \in [Sessions -> Sessions \cup {None}]
    /\ sessions \in [Names -> Sessions \cup {None}]
    /\ listening \in BOOLEAN
    /\ crashed \in BOOLEAN
    /\ contested \in [Sessions -> BOOLEAN]

Init ==
    /\ pc = [s \in Sessions |-> "free"]
    /\ open = [s \in Sessions |-> FALSE]
    /\ inbox = [s \in Sessions |-> "empty"]
    /\ name \in [Sessions -> Names]
    /\ found = [s \in Sessions |-> None]
    /\ sessions = [n \in Names |-> None]
    /\ listening = TRUE
    /\ crashed = FALSE
    /\ contested = [s \in Sessions |-> FALSE]

At(s, l) == ~crashed /\ pc[s] = l
Goto(s, l) == pc' = [pc EXCEPT ![s] = l]
Shut(s) == open' = [open EXCEPT ![s] = FALSE]
Crash == crashed' = TRUE

-----------------------------------------------------------------------------
(* The client and the network.  The name a client asks for is name[s]; an  *)
(* empty one is replaced by a UUID, a name that no other client asks for.  *)

Connect(s) ==
    /\ At(s, "free") /\ listening
    /\ Goto(s, "wait")
    /\ open' = [open EXCEPT ![s] = TRUE]
    /\ UNCHANGED <<inbox, name, found, sessions, listening, crashed, contested>>

(* "bad": a wrong token, or a first request that is not a LoginRequest. *)
ClientLogin(s, kind) ==
    /\ At(s, "wait") /\ open[s] /\ inbox[s] = "empty"
    /\ inbox' = [inbox EXCEPT ![s] = kind]
    /\ UNCHANGED <<pc, open, name, found, sessions, listening, crashed, contested>>

(* The client leaves or the connection fails: the readloop of the session  *)
(* runs Transport.Close.  Nothing on the hub sets a keepalive.             *)
Drop(s) ==
    /\ ~crashed /\ open[s]
    /\ Shut(s)
    /\ UNCHANGED <<pc, inbox, name, found, sessions, listening, crashed, contested>>

-----------------------------------------------------------------------------
(* handleLogin *)

ReadLogin(s) ==
    /\ At(s, "wait") /\ inbox[s] = "good"
    /\ Goto(s, "reply")
    /\ UNCHANGED <<open, inbox, name, found, sessions, listening, crashed, contested>>

(* Five seconds without a request, or a bad one. *)
RefuseLogin_NoTimeout(s) ==
    /\ At(s, "wait") /\ inbox[s] = "bad"
    /\ Goto(s, "done") /\ Shut(s)
    /\ UNCHANGED <<inbox, name, found, sessions, listening, crashed, contested>>

RefuseLogin(s) ==
    /\ At(s, "wait")
    /\ Goto(s, "done") /\ Shut(s)
    /\ UNCHANGED <<inbox, name, found, sessions, listening, crashed, contested>>

(* requester.Read takes the nil packet of a closed channel for a request. *)
ReadClosed(s) ==
    /\ At(s, "wait") /\ ~open[s] /\ inbox[s] = "empty"
    /\ Crash
    /\ UNCHANGED <<pc, open, inbox, name, found, sessions, listening, contested>>

ReplyLogin(s) ==
    /\ At(s, "reply")
    /\ \/ Goto(s, "offer") /\ UNCHANGED open
       \/ Goto(s, "done") /\ Shut(s)
    /\ UNCHANGED <<inbox, name, found, sessions, listening, crashed, contested>>

Rivals(s) == {t \in Sessions \ {s} : name[t] = name[s] /\ pc[t] \in Handling}

(* sessionCh is unbuffered: the loop of Hub.Start takes the session and    *)
(* starts its handler.                                                     *)
HandOff(s) ==
    /\ At(s, "offer") /\ listening
    /\ Goto(s, "load")
    /\ contested' = [t \in Sessions |->
          contested[t] \/ (Rivals(s) # {} /\ t \in Rivals(s) \cup {s})]
    /\ UNCHANGED <<open, inbox, name, found, sessions, listening, crashed>>

(* A send on sessionCh after TcpHubServer.Close closed it. *)
OfferPanic(s) ==
    /\ At(s, "offer") /\ ~listening
    /\ Crash
    /\ UNCHANGED <<pc, open, inbox, name, found, sessions, listening, contested>>

-----------------------------------------------------------------------------
(* Hub.handle: saveSession, RunDispatcher, removeSession, Close *)

LoadOld_AnyName(s) ==
    found' = [found EXCEPT ![s] = IF \E n \in Names : sessions[n] # None
                                  THEN sessions[CHOOSE n \in Names : sessions[n] # None]
                                  ELSE None]

LoadOld(s) == found' = [found EXCEPT ![s] = sessions[name[s]]]

SaveLoad_StoreOnlyOnReplace(s) ==
    /\ At(s, "load")
    /\ LoadOld(s)
    /\ Goto(s, IF sessions[name[s]] = None THEN "serve" ELSE "evict")
    /\ UNCHANGED <<open, inbox, name, sessions, listening, crashed, contested>>

SaveLoad(s) ==
    /\ At(s, "load")
    /\ LoadOld(s)
    /\ Goto(s, IF sessions[name[s]] = None THEN "store" ELSE "evict")
    /\ UNCHANGED <<open, inbox, name, sessions, listening, crashed, contested>>

SaveClose(s) ==
    /\ At(s, "evict")
    /\ Shut(found[s])
    /\ Goto(s, "store")
    /\ UNCHANGED <<inbox, name, found, sessions, listening, crashed, contested>>

SaveStore(s) ==
    /\ At(s, "store")
    /\ sessions' = [sessions EXCEPT ![name[s]] = s]
    /\ Goto(s, "serve")
    /\ UNCHANGED <<open, inbox, name, found, listening, crashed, contested>>

(* RunDispatcher returns when it finds a channel of the transport closed. *)
ServeEnd_NoRemove(s) ==
    /\ At(s, "serve") /\ ~open[s]
    /\ Goto(s, "last")
    /\ UNCHANGED <<open, inbox, name, found, sessions, listening, crashed, contested>>

ServeEnd(s) ==
    /\ At(s, "serve") /\ ~open[s]
    /\ Goto(s, "rload")
    /\ UNCHANGED <<open, inbox, name, found, sessions, listening, crashed, contested>>

RemoveLoad(s) ==
    /\ At(s, "rload")
    /\ LoadOld(s)
    /\ Goto(s, IF sessions[name[s]] = None THEN "rdelete" ELSE "rclose")
    /\ UNCHANGED <<open, inbox, name, sessions, listening, crashed, contested>>

RemoveClose(s) ==
    /\ At(s, "rclose")
    /\ Shut(found[s])
    /\ Goto(s, "rdelete")
    /\ UNCHANGED <<inbox, name, found, sessions, listening, crashed, contested>>

(* The key is the name: whoever holds it by now is deleted. *)
RemoveDelete(s) ==
    /\ At(s, "rdelete")
    /\ sessions' = [sessions EXCEPT ![name[s]] = None]
    /\ Goto(s, "last")
    /\ UNCHANGED <<open, inbox, name, found, listening, crashed, contested>>

LastClose(s) ==
    /\ At(s, "last")
    /\ Shut(s)
    /\ Goto(s, "done")
    /\ UNCHANGED <<inbox, name, found, sessions, listening, crashed, contested>>

(* Hub.Close: the listener and sessionCh are closed, sessions are not. *)
CloseServer ==
    /\ ~crashed /\ listening
    /\ listening' = FALSE
    /\ UNCHANGED <<pc, open, inbox, name, found, sessions, crashed, contested>>

-----------------------------------------------------------------------------
Goroutine(s) ==
    \/ ReadLogin(s) \/ RefuseLogin(s) \/ ReadClosed(s) \/ ReplyLogin(s)
    \/ HandOff(s) \/ OfferPanic(s)
    \/ SaveLoad(s) \/ SaveClose(s) \/ SaveStore(s) \/ ServeEnd(s)
    \/ RemoveLoad(s) \/ RemoveClose(s) \/ RemoveDelete(s) \/ LastClose(s)

Next == \/ \E s \in Sessions : \/ Connect(s)
                               \/ \E kind \in {"good", "bad"} : ClientLogin(s, kind)
                               \/ Drop(s)
                               \/ Goroutine(s)
        \/ CloseServer

Spec == Init /\ [][Next]_vars

(* The Go scheduler runs every runnable goroutine; clients owe nothing. *)
FairSpec == Spec /\ \A s \in Sessions : WF_vars(Goroutine(s))
-----------------------------------------------------------------------------
(* Properties *)

stage == [s \in Sessions |-> IF pc[s] \in Listed THEN "live"
                             ELSE IF pc[s] \in Gone THEN "gone" ELSE "new"]

Reg == INSTANCE Registry
       WITH Keys <- Names, Items <- Sessions, table <- sessions, stage <- stage

(* The table of sessions is a registry: a handler that has finished leaves *)
(* nothing of its session in it, although removeSession deletes by name    *)
(* and handlers of one name overtake each other between load and delete.   *)
Implements == Reg!Spec

(* A session that was never handled together with another of its name is   *)
(* listed for as long as it is served (saveSession, removeSession).        *)
ListedUnlessContested ==
    \A s \in Sessions :
        pc[s] = "serve" /\ ~contested[s] => sessions[name[s]] = s

(* While such a session is served nobody but its own client closes it: the *)
(* Close calls of saveSession and removeSession hit no bystander.          *)
NoCollateralClose ==
    [][\A s \in Sessions :
          pc[s] = "serve" /\ open[s] /\ ~open'[s] => contested[s] \/ Drop(s)]_vars

(* A closed session does not stay listed: its handler notices and removes  *)
(* it, so that handlePunch stops choosing it.                              *)
GhostsFade ==
    \A s \in Sessions, n \in Names :
        sessions[n] = s /\ ~open[s] ~> sessions[n] # s \/ crashed

(* Every accepted connection is served or refused, whatever its client     *)
(* does; only a crash of the hub prevents it (handleLogin).                *)
LoginSettles ==
    \A s \in Sessions :
        pc[s] = "wait" ~> pc[s] \in {"serve", "done"} \/ crashed

(* README.MD:5 promises that the hub exchanges the info of its nodes: the  *)
(* only session of a name that is handled can be found under that name.    *)
OnlySessionIsListed ==
    \A s \in Sessions :
        pc[s] = "serve" /\ open[s] /\ Rivals(s) = {} => sessions[name[s]] = s
=============================================================================

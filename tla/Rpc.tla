-------------------------------- MODULE Rpc --------------------------------
(***************************************************************************)
(* Requests and responses over a transport (SendMessage and the            *)
(* dispatchers of pkg/proto/transport.go, ids of message.go).  Callers run *)
(* SendMessage concurrently on the hub, one after the other on a node; the *)
(* dispatcher hands each response to the caller registered under its id or *)
(* to a handler.  The other end answers in any order, late or never, and   *)
(* may push responses of its own, numbered by its own counter.  Nothing    *)
(* locks the map `replyer`: Go's runtime may notice an access during a     *)
(* write and abort the process.  If not, a reader may miss any entry, and  *)
(* find an id that is being written without its channel; two writers leave *)
(* the map in any state.                                                   *)
(***************************************************************************)
EXTENDS Naturals, Sequences, FiniteSets

CONSTANTS Callers,    \* calls of SendMessage
          MaxPushes,  \* bound: responses the other end pushes
          MaxId,      \* bound: message ids
          None        \* no caller

ASSUME Bounds == MaxPushes \in Nat /\ MaxId \in Nat
ASSUME NoneIsNoCaller == None \notin Callers

VARIABLES end,       \* whose end of the session this is, never changed
          pc,        \* where each call of SendMessage stands
          id,        \* req.Id, 0 before the call
          sequence,  \* the message counter of this process
          writing,   \* callers in the middle of a write to replyer
          replyer,   \* responser.replyer: the owner of the channel, by id
          tangled,   \* two writes to it have overlapped, unnoticed
          on,        \* the owner of the channel a caller waits on
          result,    \* what a call returned
          up,        \* the transport has not been closed
          asked,     \* requests the other end has not answered
          inflight,  \* responses on their way to the dispatcher
          pushed,    \* ids the other end used for its own messages
          disp,      \* where the dispatcher stands
          pkt,       \* the response the dispatcher is working on
          target,    \* the owner of the channel it sends to
          crash      \* "no", or what aborted the process: "map", "send"

calls == <<end, pc, id, sequence, on, result>>
map == <<writing, replyer, tangled>>
remote == <<up, asked, inflight, pushed>>
dispatch == <<disp, pkt, target>>
vars == <<calls, map, remote, dispatch, crash>>

Ids == 1..MaxId
(* A reply answers the request of a caller, a push (to = None) nobody's.   *)
Responses == [id : Ids, to : Callers \cup {None}]
Nothing == [id |-> 0, to |-> None]

TypeOK ==
    /\ end \in {"hub", "node"}
    /\ pc \in [Callers -> {"idle", "write", "register", "registering", "lookup",
                           "wait", "delete", "deleting", "close", "returned"}]
    /\ id \in [Callers -> Ids \cup {0}]
    /\ sequence \in Ids \cup {0}
    /\ writing \subseteq Callers
    /\ replyer \in [Ids -> Callers \cup {None}]
    /\ tangled \in BOOLEAN
    /\ on \in [Callers -> Callers \cup {None}]
    /\ result \in [Callers -> Responses \cup {Nothing}]
    /\ up \in BOOLEAN
    /\ asked \subseteq Callers
    /\ inflight \in Seq(Responses)
    /\ pushed \subseteq Ids
    /\ disp \in {"recv", "lookup", "deliver", "stuck", "returned"}
    /\ pkt \in Responses \cup {Nothing}
    /\ target \in Callers \cup {None}
    /\ crash \in {"no", "map", "send"}

Init ==
    /\ end \in {"hub", "node"}
    /\ pc = [c \in Callers |-> "idle"]
    /\ id = [c \in Callers |-> 0]
    /\ sequence = 0 /\ writing = {}
    /\ replyer = [i \in Ids |-> None] /\ tangled = FALSE
    /\ on = [c \in Callers |-> None]
    /\ result = [c \in Callers |-> Nothing]
    /\ up = TRUE /\ asked = {} /\ inflight = <<>> /\ pushed = {}
    /\ disp = "recv" /\ pkt = Nothing /\ target = None
    /\ crash = "no"

Step(c, from, to) == pc[c] = from /\ pc' = [pc EXCEPT ![c] = to]

(* Any access to replyer by someone other than its writers. *)
MapAccess(c) == IF writing \ {c} = {} THEN UNCHANGED crash
                ELSE crash' \in {"no", "map"}

Stored(c) == pc[c] \notin {"idle", "write", "register"}

(* What a reader of entry i may find: it misses any while others write; a  *)
(* map that two writers were in may have any channel anywhere, or none.    *)
Found(c, i) ==
    {replyer[i]} \cup (IF tangled \/ writing \ {c} # {} THEN {None} ELSE {})
                \cup (IF tangled THEN {d \in Callers : Stored(d)} ELSE {})

(* The runtime stores a key before the compiled code stores its value, and *)
(* clears a value before its key.                                          *)
HalfWritten(i) == tangled \/ \E c \in writing : id[c] = i

-----------------------------------------------------------------------------
(* SendMessage *)

NextId_Stale(c) ==
    /\ sequence < MaxId
    /\ id' = [id EXCEPT ![c] = sequence + 1]
    /\ sequence' \in {sequence, sequence + 1}

(* Next: an atomic increment; ids start at 1. *)
NextId(c) ==
    /\ sequence < MaxId
    /\ id' = [id EXCEPT ![c] = sequence + 1]
    /\ sequence' = sequence + 1

Call(c) ==
    /\ end = "node" => \A d \in Callers : pc[d] \in {"idle", "returned"}
    /\ Step(c, "idle", "write")
    /\ NextId(c)
    /\ UNCHANGED <<end, on, result, map, remote, dispatch, crash>>

(* The request is on the wire before the caller is registered. *)
WriteRequest(c) ==
    /\ up
    /\ Step(c, "write", "register")
    /\ asked' = asked \cup {c}
    /\ UNCHANGED <<end, id, sequence, on, result, map, up, inflight, pushed,
                   dispatch, crash>>

WriteFails(c) ==
    /\ Step(c, "write", "returned")
    /\ UNCHANGED <<end, id, sequence, on, result, map, remote, dispatch, crash>>

BeginWrite(c, from, to) ==
    /\ Step(c, from, to)
    /\ writing' = writing \cup {c}
    /\ tangled' = (tangled \/ writing # {})
    /\ MapAccess(c)
    /\ UNCHANGED <<end, id, sequence, on, result, replyer, remote, dispatch>>

EndWrite(c, from, to, owner) ==
    /\ Step(c, from, to)
    /\ writing' = writing \ {c}
    /\ replyer' = [replyer EXCEPT ![id[c]] = owner]
    /\ UNCHANGED <<end, id, sequence, on, result, tangled, remote, dispatch, crash>>

BeginRegister(c) == BeginWrite(c, "register", "registering")
EndRegister(c) == EndWrite(c, "registering", "lookup", c)

(* The select statement reads its channel back from the map; from none it  *)
(* receives nothing.                                                       *)
LookupOwn(c) ==
    /\ Step(c, "lookup", "wait")
    /\ \E o \in Found(c, id[c]) : on' = [on EXCEPT ![c] = o]
    /\ MapAccess(c)
    /\ UNCHANGED <<end, id, sequence, result, map, remote, dispatch>>

Timeout_OnlyWhenClosed(c) ==
    /\ ~up
    /\ Step(c, "wait", "delete")
    /\ UNCHANGED <<end, id, sequence, on, result, map, remote, dispatch, crash>>

Timeout(c) ==
    /\ Step(c, "wait", "delete")
    /\ UNCHANGED <<end, id, sequence, on, result, map, remote, dispatch, crash>>

BeginDelete(c) == BeginWrite(c, "delete", "deleting")

EndDelete(c) == EndWrite(c, "deleting", "close", None)

CloseChannel_Skip(c) ==
    /\ Step(c, "close", "returned")
    /\ UNCHANGED <<end, id, sequence, on, result, map, remote, dispatch, crash>>

(* close(respCh): a dispatcher that sends to it, now or later, panics.     *)
CloseChannel(c) ==
    /\ Step(c, "close", "returned")
    /\ IF disp = "deliver" /\ target = c THEN crash' = "send" ELSE UNCHANGED crash
    /\ UNCHANGED <<end, id, sequence, on, result, map, remote, dispatch>>

-----------------------------------------------------------------------------
(* The other end *)

Reply_Twice(c) ==
    /\ up /\ c \in asked
    /\ asked' = asked \ {c}
    /\ LET r == [id |-> id[c], to |-> c] IN inflight' = inflight \o <<r, r>>
    /\ UNCHANGED <<calls, map, up, pushed, dispatch, crash>>

(* Every request has its own goroutine: answers come in any order. *)
Reply(c) ==
    /\ up /\ c \in asked
    /\ asked' = asked \ {c}
    /\ inflight' = Append(inflight, [id |-> id[c], to |-> c])
    /\ UNCHANGED <<calls, map, up, pushed, dispatch, crash>>

(* SendSuccess numbers its response with the counter of its own process,   *)
(* which other sessions advance too.  Only the hub pushes.                 *)
Push(i) ==
    /\ up /\ end = "node" /\ Cardinality(pushed) < MaxPushes
    /\ \A j \in pushed : j < i
    /\ pushed' = pushed \cup {i}
    /\ inflight' = Append(inflight, [id |-> i, to |-> None])
    /\ UNCHANGED <<calls, map, up, asked, dispatch, crash>>

(* Either end closes the transport; what has arrived is still dispatched.  *)
Disconnect ==
    /\ up
    /\ up' = FALSE
    /\ UNCHANGED <<calls, map, asked, inflight, pushed, dispatch, crash>>

-----------------------------------------------------------------------------
(* RunDispatcher *)

DispatcherReceive ==
    /\ disp = "recv" /\ inflight # <<>>
    /\ disp' = "lookup"
    /\ pkt' = Head(inflight)
    /\ inflight' = Tail(inflight)
    /\ UNCHANGED <<calls, map, up, asked, pushed, target, crash>>

DispatcherReturns ==
    /\ disp = "recv" /\ inflight = <<>> /\ ~up
    /\ disp' = "returned"
    /\ UNCHANGED <<calls, map, remote, pkt, target, crash>>

(* Without a caller the response goes to the handler of its type, if any:  *)
(* pushes have one on a node, replies never do and are dropped.  A send on *)
(* the nil channel of an entry half written blocks for ever.               *)
DispatcherLookup ==
    /\ disp = "lookup"
    /\ \/ /\ target' \in Found(None, pkt.id)
          /\ disp' = IF target' = None THEN "recv" ELSE "deliver"
       \/ HalfWritten(pkt.id) /\ target' = None /\ disp' = "stuck"
    /\ IF target' # None /\ pc[target'] = "returned" THEN crash' = "send" ELSE MapAccess(None)
    /\ UNCHANGED <<calls, map, remote, pkt>>

(* The channel is unbuffered. *)
Deliver(c) ==
    /\ disp = "deliver" /\ on[c] = target
    /\ Step(c, "wait", "delete")
    /\ result' = [result EXCEPT ![c] = pkt]
    /\ disp' = "recv"
    /\ UNCHANGED <<end, id, sequence, on, map, remote, pkt, target, crash>>

-----------------------------------------------------------------------------
SendMessage(c) ==
    \/ WriteRequest(c) \/ WriteFails(c) \/ BeginRegister(c) \/ EndRegister(c)
    \/ LookupOwn(c) \/ Timeout(c) \/ Deliver(c)
    \/ BeginDelete(c) \/ EndDelete(c) \/ CloseChannel(c)

Dispatcher == DispatcherReceive \/ DispatcherLookup \/ DispatcherReturns

Next == /\ crash = "no"
        /\ \/ \E c \in Callers : Call(c) \/ SendMessage(c) \/ Reply(c)
           \/ \E i \in Ids : Push(i)
           \/ Disconnect
           \/ Dispatcher

Spec == Init /\ [][Next]_vars

(* Goroutines that can run do and timers expire; the other end owes no     *)
(* answer.                                                                 *)
FairSpec == /\ Spec
            /\ \A c \in Callers : WF_vars(crash = "no" /\ SendMessage(c))
            /\ WF_vars(crash = "no" /\ Dispatcher)

-----------------------------------------------------------------------------
(* Properties *)

(* An answer is dropped only if it overtakes the registration of its call, *)
(* comes after the call has given up, or meets a write of the map.         *)
AnswersNotDropped ==
    [][disp = "lookup" /\ disp' = "recv" /\ pkt.to # None =>
          pc[pkt.to] \notin {"lookup", "wait", "delete"} \/ writing # {} \/ tangled]_vars

(* A call returns the answer to its own request: late answers to calls     *)
(* that gave up and answers that overtake one another reach nobody else.   *)
(* (A node's call may also be given a push, see AnswerHasRequestedType.)   *)
(* Only two writes of the map at the same time can mix channels up.        *)
OwnAnswer ==
    \A c \in Callers :
        result[c] # Nothing =>
            \/ result[c].to = c
            \/ end = "node" /\ result[c].to = None
            \/ tangled

(* The call is over, or about to be, without the answer to its request. *)
GaveUp(c) == /\ pc[c] \in {"delete", "deleting", "close", "returned"}
             /\ result[c].to = None

(* The dispatcher sends on the closed channel of a call only when that     *)
(* call timed out, when a push carries the id of the call, or when two     *)
(* writes have kept an entry that was deleted.                             *)
SendPanicNeedsTimeoutOrPush ==
    crash = "send" => GaveUp(target) \/ pkt.to = None \/ tangled

(* SendMessage returns, answered or not. *)
CallReturns ==
    \A c \in Callers : pc[c] = "write" ~> pc[c] = "returned" \/ crash # "no"

(* The dispatcher does not hang on a call that has given up: the responses *)
(* behind it are delivered, unless it is stuck on an entry half written.   *)
DispatcherGoesOn == disp = "deliver" ~> disp # "deliver" \/ crash # "no"

(* pkg/proto/tools.go:26 requires of a response the type its reader asks   *)
(* for: what GetPeers is given is no PunchResponse.                        *)
AnswerHasRequestedType ==
    \A c \in Callers : result[c] # Nothing => result[c].to # None
=============================================================================

----------------------------- MODULE Transport -----------------------------
(***************************************************************************)
(* One end of a transport (pkg/proto/transport.go): the readloop that      *)
(* sorts incoming packets into three bounded channels, the goroutines that *)
(* read those channels, the two goroutines of SetKeepalive, and Close,     *)
(* which any of them may call at any time.  Channels follow the semantics  *)
(* of Go: a select takes any case that is ready and parks when none is, a  *)
(* parked sender is served by the first receive or the first close, and a  *)
(* send on or a close of a closed channel panics, which ends the process.  *)
(***************************************************************************)
EXTENDS Integers, Sequences

CONSTANTS Readers,     \* each reader is the set of the channels it selects from
          Sends,       \* the kinds of packets the other end sends
          Cap,         \* capacity of each channel (100, 10 and 10 in the code)
          Keepalive,   \* whether SetKeepalive is called on this transport
          MaxAlive,    \* maxAliveCount
          MaxPackets   \* bound: packets sent by the other end

Data == {"raw", "req", "resp"}
Closers == {"readloop", "checker", "owner"}

ASSUME Bounds == Cap \in Nat \ {0} /\ MaxAlive \in Nat /\ MaxPackets \in Nat
ASSUME Kinds == /\ Readers \subseteq SUBSET Data
                /\ Sends \subseteq Data \cup {"ping", "pong", "bad"}
                /\ Keepalive \in BOOLEAN

VARIABLES sent,     \* the kinds of the packets sent by the other end, in order
          conn,     \* the connection: "up", "eof" or "closed" by this end
          next,     \* how many packets UnpackFrom has taken off the wire
          held,     \* the packet the readloop has in hand, 0 if none
          rl,       \* where the readloop stands
          ch,       \* the buffers of rawCh and the two recvCh
          closed,   \* the data channels that have been closed
          done,     \* the channel done is closed
          got,      \* history: what was received from each channel
          readers,  \* which readers still run
          cl,       \* where each caller of Close stands
          once,     \* closeOnce: "new", "running", "over"
          alive,    \* aliveCount, saturated at -1
          pinger, checker,  \* the goroutines of SetKeepalive
          late,     \* history: packets queued although done was closed
          panic     \* "no", or the channel operation that panicked

flow == <<next, held, rl, ch, late>>
shut == <<closed, done, cl, once>>
live == <<alive, pinger, checker>>
vars == <<sent, conn, flow, shut, live, got, readers, panic>>

TypeOK ==
    /\ sent \in Seq(Sends) /\ Len(sent) <= MaxPackets
    /\ conn \in {"up", "eof", "closed"}
    /\ next \in 0..Len(sent)
    /\ held \in 0..next
    /\ rl \in {"read", "check", "select", "parked", "closing", "exited"}
    /\ ch \in [Data -> Seq(Nat)] /\ \A k \in Data : Len(ch[k]) <= Cap
    /\ got \in [Data -> Seq(Nat)]
    /\ closed \subseteq Data
    /\ done \in BOOLEAN
    /\ readers \subseteq Readers
    /\ cl \in [Closers -> {"idle", "once", "done", "conn", "returned"} \cup Data]
    /\ once \in {"new", "running", "over"}
    /\ alive \in -1..MaxAlive
    /\ pinger \in {"off", "wait", "exited"} /\ checker \in {"off", "wait", "exited"}
    /\ late \in Nat
    /\ panic \in {"no", "send", "close"}

Init ==
    /\ sent = <<>> /\ conn = "up"
    /\ next = 0 /\ held = 0 /\ rl = "read" /\ late = 0
    /\ ch = [k \in Data |-> <<>>] /\ got = [k \in Data |-> <<>>]
    /\ closed = {} /\ done = FALSE /\ once = "new"
    /\ cl = [c \in Closers |-> "idle"]
    /\ readers = Readers
    /\ alive = MaxAlive /\ pinger = "off" /\ checker = "off"
    /\ panic = "no"

-----------------------------------------------------------------------------
(* The other end *)

RemoteSend(k) ==
    /\ conn = "up" /\ Len(sent) < MaxPackets
    /\ sent' = Append(sent, k)
    /\ UNCHANGED <<conn, flow, shut, live, got, readers, panic>>

RemoteGone ==
    /\ conn = "up"
    /\ conn' = "eof"
    /\ UNCHANGED <<sent, flow, shut, live, got, readers, panic>>

-----------------------------------------------------------------------------
(* readloop *)

ReadNext == rl' = "read" /\ held' = 0
Exit == rl' = "exited" /\ held' = 0

(* A packet that does not decode is skipped and does not count as a sign   *)
(* of life.                                                                *)
Unpack ==
    /\ rl = "read" /\ conn # "closed" /\ next < Len(sent)
    /\ next' = next + 1
    /\ IF sent[next + 1] = "bad"
       THEN UNCHANGED <<held, rl, alive>>
       ELSE held' = next + 1 /\ rl' = "check" /\ alive' = MaxAlive
    /\ UNCHANGED <<sent, conn, ch, late, shut, pinger, checker, got, readers, panic>>

(* EOF or an error of the network: the readloop calls Close and returns.   *)
UnpackFails ==
    /\ rl = "read" /\ conn # "up"
    /\ rl' = "closing"
    /\ cl' = [cl EXCEPT !["readloop"] = "once"]
    /\ UNCHANGED <<sent, conn, next, held, ch, late, closed, done, once, live,
                   got, readers, panic>>

CheckDone_Dropped ==
    /\ rl = "check"
    /\ rl' = "select"
    /\ UNCHANGED <<sent, conn, next, held, ch, late, shut, live, got, readers, panic>>

CheckDone ==
    /\ rl = "check"
    /\ IF done THEN Exit ELSE rl' = "select" /\ UNCHANGED held
    /\ UNCHANGED <<sent, conn, next, ch, late, shut, live, got, readers, panic>>

(* A Ping is answered with a Pong, a Pong is ignored. *)
SelectControl ==
    /\ rl = "select" /\ sent[held] \notin Data
    /\ ReadNext
    /\ UNCHANGED <<sent, conn, next, ch, late, shut, live, got, readers, panic>>

SelectDone ==
    /\ rl = "select" /\ sent[held] \in Data /\ done
    /\ Exit
    /\ UNCHANGED <<sent, conn, next, ch, late, shut, live, got, readers, panic>>

SelectSend(k) ==
    /\ rl = "select" /\ sent[held] = k /\ k \notin closed /\ Len(ch[k]) < Cap
    /\ ch' = [ch EXCEPT ![k] = Append(@, held)]
    /\ late' = IF done THEN late + 1 ELSE late
    /\ ReadNext
    /\ UNCHANGED <<sent, conn, next, shut, live, got, readers, panic>>

SelectPanic(k) ==
    /\ rl = "select" /\ sent[held] = k /\ k \in closed
    /\ panic' = "send"
    /\ UNCHANGED <<sent, conn, flow, shut, live, got, readers>>

SelectPark_Drop(k) ==
    /\ rl = "select" /\ sent[held] = k /\ k \notin closed /\ Len(ch[k]) = Cap /\ ~done
    /\ ReadNext
    /\ UNCHANGED <<sent, conn, next, ch, late, shut, live, got, readers, panic>>

SelectPark(k) ==
    /\ rl = "select" /\ sent[held] = k /\ k \notin closed /\ Len(ch[k]) = Cap /\ ~done
    /\ rl' = "parked"
    /\ UNCHANGED <<sent, conn, next, held, ch, late, shut, live, got, readers, panic>>

-----------------------------------------------------------------------------
(* Transport.Read and the dispatchers: a reader returns when it finds one  *)
(* of its channels closed and empty.                                       *)

Receive(r, k) ==
    /\ r \in readers /\ k \in r /\ ch[k] # <<>>
    /\ got' = [got EXCEPT ![k] = Append(@, Head(ch[k]))]
    /\ IF rl = "parked" /\ sent[held] = k
       THEN ch' = [ch EXCEPT ![k] = Append(Tail(@), held)] /\ ReadNext
       ELSE ch' = [ch EXCEPT ![k] = Tail(@)] /\ UNCHANGED <<held, rl>>
    /\ UNCHANGED <<sent, conn, next, late, shut, live, readers, panic>>

ReaderReturns(r, k) ==
    /\ r \in readers /\ k \in r /\ ch[k] = <<>> /\ k \in closed
    /\ readers' = readers \ {r}
    /\ UNCHANGED <<sent, conn, flow, shut, live, got, panic>>

-----------------------------------------------------------------------------
(* Close *)

CloseGoto(c, l) == cl' = [cl EXCEPT ![c] = l]

OwnerCloses ==
    /\ cl["owner"] = "idle"
    /\ CloseGoto("owner", "once")
    /\ UNCHANGED <<sent, conn, flow, closed, done, once, live, got, readers, panic>>

EnterOnce_CheckOnly(c) ==
    /\ cl[c] = "once" /\ once # "over"
    /\ once' = "running"
    /\ CloseGoto(c, "done")
    /\ UNCHANGED <<sent, conn, flow, closed, done, live, got, readers, panic>>

EnterOnce(c) ==
    /\ cl[c] = "once" /\ once = "new"
    /\ once' = "running"
    /\ CloseGoto(c, "done")
    /\ UNCHANGED <<sent, conn, flow, closed, done, live, got, readers, panic>>

(* closeOnce.Do returns to the others when the first call has finished.    *)
SkipOnce(c) ==
    /\ cl[c] = "once" /\ once = "over"
    /\ CloseGoto(c, "conn")
    /\ UNCHANGED <<sent, conn, flow, closed, done, once, live, got, readers, panic>>

(* A parked readloop wakes up by its case <-t.done. *)
CloseDone(c) ==
    /\ cl[c] = "done"
    /\ IF done THEN panic' = "close" ELSE UNCHANGED panic
    /\ done' = TRUE
    /\ IF rl = "parked" THEN Exit ELSE UNCHANGED <<rl, held>>
    /\ CloseGoto(c, "raw")
    /\ UNCHANGED <<sent, conn, next, ch, late, closed, once, live, got, readers>>

CloseChannel(c, k) ==
    /\ cl[c] = k
    /\ IF k \in closed THEN panic' = "close" ELSE UNCHANGED panic
    /\ closed' = closed \cup {k}
    /\ CloseGoto(c, [raw |-> "req", req |-> "resp", resp |-> "conn"][k])
    /\ once' = IF k = "resp" THEN "over" ELSE once
    /\ UNCHANGED <<sent, conn, flow, done, live, got, readers>>

CloseConn_Forgotten(c) ==
    /\ cl[c] = "conn"
    /\ CloseGoto(c, "returned")
    /\ UNCHANGED <<sent, conn, flow, closed, done, once, live, got, readers, panic>>

CloseConn(c) ==
    /\ cl[c] = "conn"
    /\ conn' = "closed"
    /\ CloseGoto(c, "returned")
    /\ UNCHANGED <<sent, flow, closed, done, once, live, got, readers, panic>>

-----------------------------------------------------------------------------
(* SetKeepalive, called once when a peer is handled.  Its argument is      *)
(* never stored: the pinger's interval is 0 plus the second it sleeps.     *)

SetKeepalive ==
    /\ Keepalive /\ pinger = "off"
    /\ alive' = MaxAlive
    /\ pinger' = "wait" /\ checker' = "wait"
    /\ UNCHANGED <<sent, conn, flow, shut, got, readers, panic>>

PingTick_NoCount ==
    /\ pinger = "wait"
    /\ UNCHANGED vars

PingTick ==
    /\ pinger = "wait"
    /\ alive' = IF alive < 0 THEN alive ELSE alive - 1
    /\ UNCHANGED <<sent, conn, flow, shut, pinger, checker, got, readers, panic>>

(* Both the timer and done may be ready: the select picks either.          *)
PingerReturns ==
    /\ pinger = "wait" /\ done
    /\ pinger' = "exited"
    /\ UNCHANGED <<sent, conn, flow, shut, alive, checker, got, readers, panic>>

CheckAlive ==
    /\ checker = "wait" /\ cl["checker"] = "idle" /\ alive < 0
    /\ CloseGoto("checker", "once")
    /\ UNCHANGED <<sent, conn, flow, closed, done, once, live, got, readers, panic>>

CheckerReturns ==
    /\ checker = "wait" /\ cl["checker"] \in {"idle", "returned"} /\ done
    /\ checker' = "exited"
    /\ UNCHANGED <<sent, conn, flow, shut, alive, pinger, got, readers, panic>>

-----------------------------------------------------------------------------
Readloop == \/ Unpack \/ UnpackFails \/ CheckDone \/ SelectControl \/ SelectDone
            \/ \E k \in Data : SelectSend(k) \/ SelectPanic(k) \/ SelectPark(k)

Read(r) == \E k \in Data : Receive(r, k) \/ ReaderReturns(r, k)

Close(c) == \/ EnterOnce(c) \/ SkipOnce(c) \/ CloseDone(c) \/ CloseConn(c)
            \/ \E k \in Data : CloseChannel(c, k)

Next == /\ panic = "no"
        /\ \/ \E k \in Sends : RemoteSend(k)
           \/ RemoteGone
           \/ Readloop
           \/ \E r \in Readers : Read(r)
           \/ OwnerCloses
           \/ \E c \in Closers : Close(c)
           \/ SetKeepalive \/ PingTick \/ PingerReturns \/ CheckAlive \/ CheckerReturns

Spec == Init /\ [][Next]_vars

Runs(A) == panic = "no" /\ A

(* Every goroutine that can run does; timers expire; a handler that was    *)
(* given a packet returns for the next one.  Neither the other end nor the *)
(* owner owes anything, and SetKeepalive need not be called: the sessions  *)
(* of the hub and of a node do without it.                                 *)
FairSpec == /\ Spec
            /\ WF_vars(Runs(Readloop))
            /\ \A r \in Readers : WF_vars(Runs(Read(r)))
            /\ \A c \in Closers : WF_vars(Runs(Close(c)))
            /\ WF_vars(Runs(PingTick)) /\ WF_vars(Runs(PingerReturns))
            /\ WF_vars(Runs(CheckAlive)) /\ WF_vars(Runs(CheckerReturns))

-----------------------------------------------------------------------------
(* Properties *)

InHand(k) == IF held # 0 /\ sent[held] = k THEN <<held>> ELSE <<>>

Carried(k) == got[k] \o ch[k] \o InHand(k)
Taken(k) == {i \in 1..next : sent[i] = k}

Increasing(s) == \A i, j \in DOMAIN s : i < j => s[i] < s[j]
Elements(s) == {s[i] : i \in DOMAIN s}
Newest(I) == {i \in I : \A j \in I : j <= i}

OrderedOn(k) ==
    /\ Increasing(Carried(k))
    /\ \/ Elements(Carried(k)) = Taken(k)
       \/ /\ rl = "exited" /\ Taken(k) # {}
          /\ Elements(Carried(k)) = Taken(k) \ Newest(Taken(k))

(* What is received from a channel, what is queued in it and what the      *)
(* readloop has in hand are all the packets of that kind taken off the     *)
(* wire, once each and in order, across full channels and parked sends;    *)
(* only a readloop that has exited because of done dropped one, its last.  *)
InOrder == \A k \in Data : OrderedOn(k)

(* The check of done between reading and queueing leaves a window for one  *)
(* packet: at most one is queued after close(done), and if one makes the   *)
(* send panic then none was.                                               *)
LateWindow == late + (IF panic = "send" THEN 1 ELSE 0) <= 1

(* Readloop, keepalive and owner close concurrently; no channel is closed  *)
(* twice.                                                                  *)
ClosedOnce == panic # "close"

Received(i) == \E k \in Data : \E j \in DOMAIN got[k] : got[k][j] = i

Over == done \/ conn # "up" \/ panic # "no"

(* A packet for a channel that is read reaches its reader, however full    *)
(* the channel gets, unless the connection ends.  (With a keepalive it     *)
(* ends in every behaviour, see SilentEndClosed: this is about transports  *)
(* without.)                                                               *)
Delivered ==
    \A i \in 1..MaxPackets :
        i <= Len(sent) /\ sent[i] \in UNION Readers ~> Received(i) \/ Over

Stopped == /\ rl = "exited" \/ cl["readloop"] = "returned"
           /\ pinger # "wait" /\ checker # "wait"
           /\ readers = {}

(* After Close no goroutine of the transport stays behind: neither one     *)
(* blocked on the wire, nor one parked on a full channel, nor a timer.     *)
CloseStopsAll == done ~> Stopped \/ panic # "no"

(* With a keepalive, an end that falls silent without closing is noticed,  *)
(* also when the readloop is parked.  (The other end sends MaxPackets at   *)
(* most, so in the model it always falls silent.)                          *)
SilentEndClosed == pinger = "wait" ~> done \/ panic # "no"
=============================================================================

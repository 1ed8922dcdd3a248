-------------------------- MODULE TransportProofs --------------------------
(* Theorems about module Transport, for any capacities, readers, packets   *)
(* and keepalive.                                                          *)
EXTENDS Transport, TLAPS

(* The first call of Close is the only one inside closeOnce, and what it   *)
(* has closed so far follows from where it stands.                         *)
Inside == {"done"} \cup Data

CloseInv ==
    /\ \A c \in Closers : cl[c] \in Inside => once = "running"
    /\ \A b, c \in Closers : cl[b] \in Inside /\ cl[c] \in Inside => b = c
    /\ once = "new" => ~done /\ closed = {}
    /\ \A c \in Closers :
          /\ cl[c] = "done" => ~done /\ closed = {}
          /\ cl[c] = "raw" => done /\ closed = {}
          /\ cl[c] = "req" => done /\ closed = {"raw"}
          /\ cl[c] = "resp" => done /\ closed = {"raw", "req"}
    /\ once = "over" => done
    /\ closed # {} => done

(* Nothing was queued late while the readloop may still queue one packet.  *)
LateInv ==
    /\ ~done => late = 0
    /\ rl = "select" => late = 0
    /\ rl = "parked" => ~done
    /\ late <= 1
    /\ panic = "send" => late = 0

HandInv == /\ rl \in {"check", "select", "parked"} => held # 0
           /\ panic # "close"

IInv == TypeOK /\ CloseInv /\ LateInv /\ HandInv

(* ------------------------------- lemmas -------------------------------- *)

LEMMA Initially == ASSUME Init PROVE IInv
<1>. USE DEF Init
<1>1. TypeOK
  <2>1. <<>> \in Seq(Sends) /\ <<>> \in Seq(Nat) /\ Len(<<>>) = 0
    OBVIOUS
  <2>2. sent \in Seq(Sends) /\ Len(sent) = 0 /\ 0 <= MaxPackets /\ 0 <= Cap
    BY <2>1, Bounds
  <2>3. ch \in [Data -> Seq(Nat)] /\ got \in [Data -> Seq(Nat)] /\ \A k \in Data : Len(ch[k]) = 0
    BY <2>1
  <2>4. next \in 0..Len(sent) /\ held \in 0..next /\ late \in Nat /\ alive \in -1..MaxAlive
    BY <2>2, Bounds
  <2>. QED
    BY <2>2, <2>3, <2>4 DEF TypeOK
<1>2. CloseInv
  BY DEF CloseInv, Inside, Data
<1>. QED
  BY <1>1, <1>2 DEF IInv, LateInv, HandInv

LEMMA RemoteStep ==
    ASSUME IInv, panic = "no", (\E k \in Sends : RemoteSend(k)) \/ RemoteGone
    PROVE  IInv'
<1>. USE DEF IInv
<1>1. UNCHANGED <<flow, shut, live, got, readers, panic>>
  BY DEF RemoteSend, RemoteGone
<1>2. sent' \in Seq(Sends) /\ Len(sent') <= MaxPackets /\ Len(sent) <= Len(sent')
      /\ Len(sent) \in Nat /\ Len(sent') \in Nat /\ conn' \in {"up", "eof", "closed"}
  <2>1. CASE \E k \in Sends : RemoteSend(k)
    BY <2>1, Bounds DEF RemoteSend, TypeOK
  <2>2. CASE RemoteGone
    BY <2>2 DEF RemoteGone, TypeOK
  <2>. QED
    BY <2>1, <2>2
<1>3. TypeOK'
  <2>1. next' \in 0..Len(sent') /\ held' \in 0..next'
    BY <1>1, <1>2 DEF TypeOK, flow
  <2>. QED
    BY <1>1, <1>2, <2>1 DEF TypeOK, flow, shut, live
<1>4. CloseInv' /\ LateInv' /\ HandInv'
  BY <1>1 DEF CloseInv, LateInv, HandInv, flow, shut
<1>. QED
  BY <1>3, <1>4

(* Steps of the readloop.                                                  *)
LEMMA UnpackStep ==
    ASSUME IInv, panic = "no", Unpack \/ UnpackFails \/ CheckDone \/ SelectControl \/ SelectDone
    PROVE  IInv'
<1>. USE DEF IInv, ReadNext, Exit
<1>1. CASE Unpack
  <2>1. TypeOK'
    <3>1. next' = next + 1 /\ next' \in 0..Len(sent) /\ held' \in 0..next'
      BY <1>1, Bounds DEF Unpack, TypeOK
    <3>2. /\ rl' \in {"read", "check", "select", "parked", "closing", "exited"}
          /\ alive' \in -1..MaxAlive
      BY <1>1, Bounds DEF Unpack, TypeOK
    <3>. QED
      BY <1>1, <3>1, <3>2 DEF Unpack, TypeOK, shut
  <2>2. (held' = held /\ rl' = rl) \/ (held' # 0 /\ rl' = "check")
    BY <1>1 DEF Unpack, TypeOK
  <2>3. CloseInv' /\ LateInv' /\ HandInv'
    BY <1>1, <2>2 DEF Unpack, CloseInv, LateInv, HandInv, shut
  <2>. QED
    BY <2>1, <2>3
<1>2. CASE UnpackFails
  <2>1. TypeOK'
    BY <1>2 DEF UnpackFails, TypeOK, live, Closers
  <2>2. CloseInv'
    BY <1>2 DEF UnpackFails, CloseInv, Inside, Data, TypeOK
  <2>3. LateInv' /\ HandInv'
    BY <1>2 DEF UnpackFails, LateInv, HandInv
  <2>. QED
    BY <2>1, <2>2, <2>3
<1>3. CASE CheckDone \/ SelectControl \/ SelectDone
  <2>1. /\ UNCHANGED <<sent, conn, next, ch, late, shut, live, got, readers, panic>>
        /\ \/ held' = 0 /\ rl' \in {"read", "exited"}
           \/ held' = held /\ rl = "check" /\ rl' = "select" /\ ~done
    BY <1>3 DEF CheckDone, SelectControl, SelectDone
  <2>2. TypeOK'
    <3>1. held' \in 0..next'
      BY <2>1 DEF TypeOK
    <3>2. rl' \in {"read", "check", "select", "parked", "closing", "exited"}
      BY <2>1
    <3>. QED
      BY <2>1, <3>1, <3>2 DEF TypeOK, shut, live
  <2>3. CloseInv' /\ LateInv' /\ HandInv'
    BY <2>1 DEF CloseInv, LateInv, HandInv, shut
  <2>. QED
    BY <2>2, <2>3
<1>. QED
  BY <1>1, <1>2, <1>3

LEMMA SelectStep ==
    ASSUME IInv, panic = "no", NEW k \in Data, SelectSend(k) \/ SelectPanic(k) \/ SelectPark(k)
    PROVE  IInv'
<1>. USE DEF IInv, ReadNext
<1>1. CASE SelectSend(k)
  <2>1. /\ ch' = [ch EXCEPT ![k] = Append(ch[k], held)] /\ ch \in [Data -> Seq(Nat)]
        /\ held \in Nat /\ Len(ch[k]) < Cap /\ Cap \in Nat
    BY <1>1, Bounds DEF SelectSend, TypeOK
  <2>2. Append(ch[k], held) \in Seq(Nat) /\ Len(Append(ch[k], held)) <= Cap
    BY <2>1
  <2>3. late' \in Nat /\ late = 0
    BY <1>1 DEF SelectSend, LateInv
  <2>4. TypeOK'
    BY <1>1, <2>1, <2>2, <2>3 DEF SelectSend, TypeOK, shut, live
  <2>5. CloseInv' /\ LateInv' /\ HandInv'
    BY <1>1, <2>3 DEF SelectSend, CloseInv, LateInv, HandInv, shut
  <2>. QED
    BY <2>4, <2>5
<1>2. CASE SelectPanic(k)
  BY <1>2 DEF SelectPanic, TypeOK, CloseInv, LateInv, HandInv, flow, shut, live
<1>3. CASE SelectPark(k)
  BY <1>3 DEF SelectPark, TypeOK, CloseInv, LateInv, HandInv, shut, live
<1>. QED
  BY <1>1, <1>2, <1>3

LEMMA ReadStep ==
    ASSUME IInv, panic = "no", NEW r \in Readers, Read(r)
    PROVE  IInv'
<1>. USE DEF IInv, ReadNext
<1>1. ASSUME NEW k \in Data, Receive(r, k) PROVE IInv'
  <2>1. /\ ch \in [Data -> Seq(Nat)] /\ got \in [Data -> Seq(Nat)] /\ held \in Nat
        /\ ch[k] # <<>> /\ ch[k] \in Seq(Nat) /\ Len(ch[k]) <= Cap /\ Cap \in Nat
    BY <1>1, Bounds DEF Receive, TypeOK
  <2>2. /\ Head(ch[k]) \in Nat /\ Tail(ch[k]) \in Seq(Nat) /\ Len(Tail(ch[k])) = Len(ch[k]) - 1
        /\ Len(ch[k]) \in Nat
    BY <2>1
  <2>3. /\ Append(Tail(ch[k]), held) \in Seq(Nat)
        /\ Len(Append(Tail(ch[k]), held)) = Len(ch[k])
    BY <2>1, <2>2
  <2>4. got' \in [Data -> Seq(Nat)]
    <3>1. got' = [got EXCEPT ![k] = Append(got[k], Head(ch[k]))]
      BY <1>1 DEF Receive
    <3>. QED
      BY <2>1, <2>2, <3>1
  <2>5. PICK s \in Seq(Nat) : ch' = [ch EXCEPT ![k] = s] /\ Len(s) <= Cap
    <3>1. CASE rl = "parked" /\ sent[held] = k
      <4>1. ch' = [ch EXCEPT ![k] = Append(Tail(ch[k]), held)]
        BY <1>1, <3>1 DEF Receive
      <4>. QED
        BY <2>1, <2>3, <4>1
    <3>2. CASE ~(rl = "parked" /\ sent[held] = k)
      <4>1. ch' = [ch EXCEPT ![k] = Tail(ch[k])]
        BY <1>1, <3>2 DEF Receive
      <4>2. Len(Tail(ch[k])) <= Cap
        BY <2>1, <2>2
      <4>. QED
        BY <2>2, <4>1, <4>2
    <3>. QED
      BY <3>1, <3>2
  <2>6. (held' = held /\ rl' = rl) \/ (held' = 0 /\ rl' = "read")
    BY <1>1 DEF Receive
  <2>7. TypeOK'
    <3>1. held' \in 0..next /\ rl' \in {"read", "check", "select", "parked", "closing", "exited"}
      BY <2>6 DEF TypeOK
    <3>2. ch' \in [Data -> Seq(Nat)] /\ \A j \in Data : Len(ch'[j]) <= Cap
      BY <2>1, <2>5 DEF TypeOK
    <3>. QED
      BY <1>1, <2>4, <3>1, <3>2 DEF Receive, TypeOK, shut, live
  <2>8. CloseInv' /\ LateInv' /\ HandInv'
    BY <1>1, <2>6 DEF Receive, CloseInv, LateInv, HandInv, shut
  <2>. QED
    BY <2>7, <2>8
<1>2. ASSUME NEW k \in Data, ReaderReturns(r, k) PROVE IInv'
  BY <1>2 DEF ReaderReturns, TypeOK, CloseInv, LateInv, HandInv, flow, shut, live
<1>. QED
  BY <1>1, <1>2 DEF Read

(* What any step of Close leaves alone.                                    *)
LEMMA CloseStep ==
    ASSUME IInv, panic = "no", NEW c \in Closers, Close(c)
    PROVE  IInv'
<1>. USE DEF IInv, CloseGoto
<1>0. cl \in [Closers -> {"idle", "once", "done", "conn", "returned"} \cup Data]
  BY DEF TypeOK
<1>1. CASE EnterOnce(c)
  <2>1. TypeOK' /\ LateInv' /\ HandInv'
    BY <1>0, <1>1 DEF EnterOnce, TypeOK, LateInv, HandInv, flow, live
  <2>2. \A b \in Closers : cl[b] \notin Inside
    BY <1>1 DEF EnterOnce, CloseInv
  <2>3. CloseInv'
    BY <1>0, <1>1, <2>2 DEF EnterOnce, CloseInv, Inside, Data
  <2>. QED
    BY <2>1, <2>3
<1>2. CASE SkipOnce(c)
  <2>1. TypeOK'
    BY <1>0, <1>2 DEF SkipOnce, TypeOK, flow, live
  <2>2. CloseInv'
    BY <1>0, <1>2 DEF SkipOnce, TypeOK, CloseInv, Inside, Data
  <2>3. LateInv' /\ HandInv'
    BY <1>2 DEF SkipOnce, LateInv, HandInv, flow
  <2>. QED
    BY <2>1, <2>2, <2>3
<1>3. CASE CloseDone(c)
  <2>1. ~done /\ closed = {} /\ panic' = panic /\ late = 0
    BY <1>3 DEF CloseDone, CloseInv, LateInv
  <2>2. (held' = held /\ rl' = rl /\ rl # "parked") \/ (held' = 0 /\ rl' = "exited")
    BY <1>3 DEF CloseDone, Exit
  <2>3. held' \in 0..next /\ rl' \in {"read", "check", "select", "parked", "closing", "exited"}
    BY <2>2 DEF TypeOK
  <2>4. TypeOK'
    BY <1>0, <1>3, <2>1, <2>3 DEF CloseDone, TypeOK, Data, live
  <2>5. LateInv' /\ HandInv'
    BY <1>3, <2>1, <2>2 DEF CloseDone, LateInv, HandInv
  <2>6. \A b \in Closers \ {c} : cl[b] \notin Inside
    BY <1>3 DEF CloseDone, CloseInv, Inside
  <2>7. CloseInv'
    BY <1>0, <1>3, <2>1, <2>6 DEF CloseDone, CloseInv, Inside, Data
  <2>. QED
    BY <2>4, <2>5, <2>7
<1>4. CASE CloseConn(c)
  <2>1. TypeOK'
    BY <1>0, <1>4 DEF CloseConn, TypeOK, flow, live
  <2>2. CloseInv'
    BY <1>0, <1>4 DEF CloseConn, TypeOK, CloseInv, Inside, Data
  <2>3. LateInv' /\ HandInv'
    BY <1>4 DEF CloseConn, LateInv, HandInv, flow
  <2>. QED
    BY <2>1, <2>2, <2>3
<1>5. ASSUME NEW k \in Data, CloseChannel(c, k) PROVE IInv'
  <2>. DEFINE after == [raw |-> "req", req |-> "resp", resp |-> "conn"][k]
  <2>1. cl[c] = k /\ k \in Inside /\ done /\ k \notin closed /\ panic' = panic /\ once = "running"
    BY <1>5 DEF CloseChannel, CloseInv, Inside, Data
  <2>2. /\ k = "raw" => after = "req" /\ closed = {}
        /\ k = "req" => after = "resp" /\ closed = {"raw"}
        /\ k = "resp" => after = "conn"
        /\ after \in {"req", "resp", "conn"}
    BY <2>1 DEF CloseInv, Data
  <2>. HIDE DEF after
  <2>3. /\ cl' = [cl EXCEPT ![c] = after] /\ closed' = closed \cup {k}
        /\ once' = IF k = "resp" THEN "over" ELSE once
        /\ UNCHANGED <<sent, conn, flow, done, live, got, readers>>
    BY <1>5 DEF CloseChannel, after
  <2>4. TypeOK'
    BY <1>0, <2>1, <2>2, <2>3 DEF TypeOK, Data, flow, live
  <2>5. LateInv' /\ HandInv'
    BY <2>1, <2>3 DEF LateInv, HandInv, flow
  <2>6. \A b \in Closers \ {c} : cl[b] \notin Inside
    BY <2>1 DEF CloseInv
  <2>7. CloseInv'
    BY <1>0, <2>1, <2>2, <2>3, <2>6 DEF CloseInv, Inside, Data
  <2>. QED
    BY <2>4, <2>5, <2>7
<1>. QED
  BY <1>1, <1>2, <1>3, <1>4, <1>5 DEF Close

LEMMA OtherStep ==
    ASSUME IInv, panic = "no",
           OwnerCloses \/ CheckAlive \/ SetKeepalive \/ PingTick \/ PingerReturns \/ CheckerReturns
    PROVE  IInv'
<1>. USE DEF IInv, CloseGoto
<1>1. CASE OwnerCloses
  <2>1. TypeOK'
    BY <1>1 DEF OwnerCloses, TypeOK, Closers, flow, live
  <2>2. CloseInv'
    BY <1>1 DEF OwnerCloses, TypeOK, CloseInv, Inside, Data
  <2>3. LateInv' /\ HandInv'
    BY <1>1 DEF OwnerCloses, LateInv, HandInv, flow
  <2>. QED
    BY <2>1, <2>2, <2>3
<1>2. CASE CheckAlive
  <2>1. TypeOK'
    BY <1>2 DEF CheckAlive, TypeOK, Closers, flow, live
  <2>2. CloseInv'
    BY <1>2 DEF CheckAlive, TypeOK, CloseInv, Inside, Data
  <2>3. LateInv' /\ HandInv'
    BY <1>2 DEF CheckAlive, LateInv, HandInv, flow
  <2>. QED
    BY <2>1, <2>2, <2>3
<1>3. CASE SetKeepalive \/ PingTick \/ PingerReturns \/ CheckerReturns
  <2>1. UNCHANGED <<sent, conn, flow, shut, got, readers, panic>>
    BY <1>3 DEF SetKeepalive, PingTick, PingerReturns, CheckerReturns
  <2>2. /\ alive' \in -1..MaxAlive /\ pinger' \in {"off", "wait", "exited"}
        /\ checker' \in {"off", "wait", "exited"}
    BY <1>3, Bounds DEF SetKeepalive, PingTick, PingerReturns, CheckerReturns, TypeOK
  <2>3. TypeOK'
    BY <2>1, <2>2 DEF TypeOK, flow, shut
  <2>4. CloseInv' /\ LateInv' /\ HandInv'
    BY <2>1 DEF CloseInv, LateInv, HandInv, flow, shut
  <2>. QED
    BY <2>3, <2>4
<1>. QED
  BY <1>1, <1>2, <1>3

LEMMA Step == ASSUME IInv, [Next]_vars PROVE IInv'
<1>1. CASE UNCHANGED vars
  BY <1>1 DEF vars, flow, shut, live, IInv, TypeOK, CloseInv, LateInv, HandInv
<1>2. CASE Next
  BY <1>2, RemoteStep, UnpackStep, SelectStep, ReadStep, CloseStep, OtherStep DEF Next, Readloop
<1>. QED
  BY <1>1, <1>2

(* -------------------------- order of packets --------------------------- *)

(* The readloop has a packet in hand exactly between reading and queueing  *)
(* it, and it is the last one it took off the wire.                        *)
InHandInv ==
    /\ held # 0 <=> rl \in {"check", "select", "parked"}
    /\ held # 0 => held = next

OrderInv == InHandInv /\ InOrder

LEMMA ReceiveKeepsSequence ==
    ASSUME NEW g \in Seq(Nat), NEW c \in Seq(Nat), c # <<>>, NEW h \in Seq(Nat)
    PROVE  Append(g, Head(c)) \o Tail(c) \o h = g \o c \o h
<1>1. Append(g, Head(c)) \o Tail(c) = g \o c
  OBVIOUS
<1>. QED
  BY <1>1

LEMMA QueueKeepsSequence ==
    ASSUME NEW g \in Seq(Nat), NEW c \in Seq(Nat), NEW x \in Nat
    PROVE  g \o Append(c, x) \o <<>> = g \o c \o <<x>>
<1>1. Append(c, x) \in Seq(Nat) /\ g \o c \in Seq(Nat)
  OBVIOUS
<1>2. g \o Append(c, x) \in Seq(Nat) /\ g \o Append(c, x) = Append(g \o c, x)
  BY <1>1
<1>3. g \o Append(c, x) \o <<>> = g \o Append(c, x)
  BY <1>2
<1>4. g \o c \o <<x>> = Append(g \o c, x)
  BY <1>1
<1>. QED
  BY <1>2, <1>3, <1>4

LEMMA CarriedType ==
    ASSUME TypeOK, NEW k \in Data
    PROVE  /\ got[k] \in Seq(Nat) /\ ch[k] \in Seq(Nat) /\ InHand(k) \in Seq(Nat)
           /\ Carried(k) \in Seq(Nat) /\ held \in Nat /\ next \in Nat
           /\ Len(sent) \in Nat /\ next <= Len(sent)
<1>1. held \in Nat /\ next \in Nat /\ Len(sent) \in Nat /\ next <= Len(sent)
  BY DEF TypeOK
<1>2. got[k] \in Seq(Nat) /\ ch[k] \in Seq(Nat)
  BY DEF TypeOK
<1>3. InHand(k) \in Seq(Nat)
  BY <1>1 DEF InHand
<1>. QED
  BY <1>1, <1>2, <1>3 DEF Carried

LEMMA OneMore ==
    ASSUME NEW s \in Seq(Nat), NEW x \in Nat, NEW t, t = s \o <<x>>
    PROVE  /\ Len(s) \in Nat /\ DOMAIN s = 1..Len(s) /\ DOMAIN t = 1..(Len(s) + 1)
           /\ t[Len(s) + 1] = x /\ \A i \in 1..Len(s) : t[i] = s[i] /\ s[i] \in Nat
           /\ Elements(t) = Elements(s) \cup {x}
<1>1. /\ Len(s) \in Nat /\ DOMAIN s = 1..Len(s) /\ DOMAIN t = 1..(Len(s) + 1)
      /\ t[Len(s) + 1] = x /\ \A i \in 1..Len(s) : t[i] = s[i] /\ s[i] \in Nat
  OBVIOUS
<1>2. ASSUME NEW y \in Elements(t) PROVE y \in Elements(s) \cup {x}
  <2>1. PICK i \in 1..(Len(s) + 1) : y = t[i]
    BY <1>1, <1>2 DEF Elements
  <2>2. i \in 1..Len(s) \/ i = Len(s) + 1
    BY <1>1, <2>1
  <2>. QED
    BY <1>1, <2>1, <2>2 DEF Elements
<1>3. ASSUME NEW y \in Elements(s) \cup {x} PROVE y \in Elements(t)
  <2>1. PICK i \in 1..(Len(s) + 1) : y = t[i]
    <3>1. CASE y = x
      BY <1>1, <3>1
    <3>2. CASE y \in Elements(s)
      BY <1>1, <3>2 DEF Elements
    <3>. QED
      BY <1>3, <3>1, <3>2
  <2>. QED
    BY <1>1, <2>1 DEF Elements
<1>. QED
  BY <1>1, <1>2, <1>3

(* A packet newer than all of a sequence may follow it.                    *)
LEMMA NewestFollows ==
    ASSUME NEW s \in Seq(Nat), NEW x \in Nat, Increasing(s), \A y \in Elements(s) : y < x
    PROVE  /\ Increasing(s \o <<x>>)
           /\ Elements(s \o <<x>>) = Elements(s) \cup {x}
<1>. DEFINE t == s \o <<x>>
<1>1. /\ Len(s) \in Nat /\ DOMAIN s = 1..Len(s) /\ DOMAIN t = 1..(Len(s) + 1)
      /\ t[Len(s) + 1] = x /\ \A i \in 1..Len(s) : t[i] = s[i] /\ s[i] \in Nat
      /\ Elements(t) = Elements(s) \cup {x}
  BY OneMore
<1>2. \A i \in 1..Len(s) : s[i] < x
  BY <1>1 DEF Elements
<1>. HIDE DEF t
<1>3. ASSUME NEW i \in 1..(Len(s) + 1), NEW j \in 1..(Len(s) + 1), i < j
      PROVE  t[i] < t[j]
  <2>0. Len(s) \in Nat
    BY <1>1
  <2>1. i \in 1..Len(s) /\ (j = Len(s) + 1 \/ j \in 1..Len(s))
    BY <1>3, <2>0
  <2>2. CASE j = Len(s) + 1
    BY <1>1, <1>2, <2>1, <2>2
  <2>3. CASE j \in 1..Len(s)
    <3>1. s[i] < s[j]
      BY <1>1, <1>3, <2>1, <2>3 DEF Increasing
    <3>. QED
      BY <1>1, <2>1, <2>3, <3>1
  <2>. QED
    BY <2>1, <2>2, <2>3
<1>4. Increasing(t)
  BY <1>1, <1>3 DEF Increasing
<1>. QED
  BY <1>1, <1>4 DEF t

(* And what preceded it is what is left when it is dropped.                *)
LEMMA LastDropped ==
    ASSUME NEW s \in Seq(Nat), NEW x \in Nat, Increasing(s \o <<x>>)
    PROVE  /\ Increasing(s)
           /\ Elements(s) = Elements(s \o <<x>>) \ {x}
           /\ x \in Elements(s \o <<x>>) /\ \A y \in Elements(s \o <<x>>) : y <= x
<1>. DEFINE t == s \o <<x>>
<1>1. /\ Len(s) \in Nat /\ DOMAIN s = 1..Len(s) /\ DOMAIN t = 1..(Len(s) + 1)
      /\ t[Len(s) + 1] = x /\ \A i \in 1..Len(s) : t[i] = s[i] /\ s[i] \in Nat
      /\ Elements(t) = Elements(s) \cup {x}
  BY OneMore
<1>2. Increasing(t)
  OBVIOUS
<1>. HIDE DEF t
<1>3. ASSUME NEW i \in 1..Len(s), NEW j \in 1..Len(s), i < j
      PROVE  s[i] < s[j]
  <2>0. Len(s) \in Nat
    BY <1>1
  <2>1. i \in 1..(Len(s) + 1) /\ j \in 1..(Len(s) + 1)
    BY <2>0
  <2>. QED
    BY <1>1, <1>2, <1>3, <2>1 DEF Increasing
<1>4. ASSUME NEW i \in 1..Len(s) PROVE s[i] \in Nat /\ s[i] < x
  <2>0. Len(s) \in Nat
    BY <1>1
  <2>1. i \in 1..(Len(s) + 1) /\ Len(s) + 1 \in 1..(Len(s) + 1) /\ i < Len(s) + 1
    BY <2>0
  <2>2. t[i] < t[Len(s) + 1]
    BY <1>1, <1>2, <2>1 DEF Increasing
  <2>. QED
    BY <1>1, <2>2
<1>5. \A y \in Elements(s) : y \in Nat /\ y < x
  BY <1>1, <1>4 DEF Elements
<1>6. /\ Elements(s) = Elements(t) \ {x}
      /\ x \in Elements(t) /\ \A y \in Elements(t) : y <= x
  BY <1>1, <1>5
<1>7. Increasing(s)
  BY <1>1, <1>3 DEF Increasing
<1>. QED
  BY <1>6, <1>7 DEF t

(* A step that moves packets of a kind along without adding or losing one. *)
LEMMA MovesAlong ==
    ASSUME NEW k \in Data, OrderedOn(k), Carried(k)' = Carried(k), Taken(k)' = Taken(k),
           rl = "exited" => rl' = "exited"
    PROVE  OrderedOn(k)'
BY DEF OrderedOn, Increasing, Elements, Newest

LEMMA OrderInitially == ASSUME Init PROVE OrderInv
<1>1. \A k \in Data : Carried(k) = <<>> /\ Taken(k) = {}
  BY DEF Init, Carried, InHand, Taken
<1>2. Increasing(<<>>) /\ Elements(<<>>) = {}
  BY DEF Increasing, Elements
<1>3. InOrder
  BY <1>1, <1>2 DEF InOrder, OrderedOn
<1>. QED
  BY <1>3 DEF OrderInv, InHandInv, Init

LEMMA TakesOne ==
    ASSUME TypeOK, OrderInv, Unpack
    PROVE  OrderInv'
<1>1. /\ rl = "read" /\ held = 0 /\ next' = next + 1 /\ next < Len(sent)
      /\ UNCHANGED <<sent, ch, got>>
  BY DEF Unpack, OrderInv, InHandInv
<1>2. InHandInv'
  <2>1. next \in Nat /\ next + 1 # 0
    BY DEF TypeOK
  <2>. QED
    BY <1>1, <2>1 DEF Unpack, InHandInv
<1>3. ASSUME NEW k \in Data PROVE OrderedOn(k)'
  <2>1. /\ got[k] \in Seq(Nat) /\ ch[k] \in Seq(Nat) /\ next \in Nat /\ held \in Nat
        /\ Carried(k) \in Seq(Nat)
    BY <1>3, CarriedType
  <2>2. Carried(k) = got[k] \o ch[k]
    BY <1>1, <2>1 DEF Carried, InHand
  <2>3. Increasing(Carried(k)) /\ Elements(Carried(k)) = Taken(k)
    BY <1>1, <1>3 DEF OrderInv, InOrder, OrderedOn
  <2>4. CASE sent[next + 1] = k
    <3>1. held' = next + 1
      BY <1>3, <2>4 DEF Unpack, Data
    <3>2. Carried(k)' = Carried(k) \o <<next + 1>>
      <4>1. held' # 0 /\ sent'[held'] = k
        BY <1>1, <2>1, <2>4, <3>1
      <4>2. InHand(k)' = <<next + 1>>
        BY <3>1, <4>1 DEF InHand
      <4>. QED
        BY <1>1, <2>2, <4>2 DEF Carried
    <3>3. Taken(k)' = Taken(k) \cup {next + 1}
      BY <1>1, <2>1, <2>4 DEF Taken
    <3>4. \A y \in Elements(Carried(k)) : y < next + 1
      BY <2>1, <2>3 DEF Taken
    <3>5. /\ Increasing(Carried(k) \o <<next + 1>>)
          /\ Elements(Carried(k) \o <<next + 1>>) = Taken(k)'
      BY <2>1, <2>3, <3>3, <3>4, NewestFollows
    <3>. QED
      BY <3>2, <3>5 DEF OrderedOn, Increasing, Elements
  <2>5. CASE sent[next + 1] # k
    <3>1. held' \in {0, next + 1}
      BY <1>1 DEF Unpack
    <3>2. Carried(k)' = Carried(k)
      BY <1>1, <2>1, <2>2, <2>5, <3>1 DEF Carried, InHand
    <3>3. Taken(k)' = Taken(k)
      BY <1>1, <2>1, <2>5 DEF Taken
    <3>. QED
      BY <1>1, <1>3, <3>2, <3>3, MovesAlong DEF OrderInv, InOrder
  <2>. QED
    BY <2>4, <2>5
<1>. QED
  BY <1>2, <1>3 DEF OrderInv, InOrder

(* Steps of the readloop that put the packet out of its hand: answered or  *)
(* ignored when it is a control packet, dropped when done is closed.       *)
LEMMA PutsDown ==
    ASSUME TypeOK, OrderInv, held' = 0, UNCHANGED <<sent, next, ch, got>>, rl # "exited",
           \/ rl' = "exited"
           \/ rl' = "read" /\ sent[held] \notin Data
    PROVE  OrderInv'
<1>1. InHandInv'
  BY DEF InHandInv
<1>2. ASSUME NEW k \in Data PROVE OrderedOn(k)'
  <2>1. /\ got[k] \in Seq(Nat) /\ ch[k] \in Seq(Nat) /\ next \in Nat /\ held \in Nat
        /\ got[k] \o ch[k] \in Seq(Nat)
    BY <1>2, CarriedType
  <2>2. Increasing(Carried(k)) /\ Elements(Carried(k)) = Taken(k)
    BY <1>2 DEF OrderInv, InOrder, OrderedOn
  <2>3. Carried(k)' = got[k] \o ch[k] /\ Taken(k)' = Taken(k)
    BY <2>1 DEF Carried, InHand, Taken
  <2>4. CASE held # 0 /\ sent[held] = k
    <3>1. Carried(k) = got[k] \o ch[k] \o <<held>> /\ rl' = "exited"
      BY <1>2, <2>4 DEF Carried, InHand
    <3>2. /\ Increasing(got[k] \o ch[k])
          /\ Elements(got[k] \o ch[k]) = Taken(k) \ {held}
          /\ held \in Taken(k) /\ \A y \in Taken(k) : y <= held
      <4>. DEFINE s == got[k] \o ch[k]
      <4>1. s \in Seq(Nat) /\ Increasing(s \o <<held>>) /\ Elements(s \o <<held>>) = Taken(k)
        BY <2>1, <2>2, <3>1
      <4>. HIDE DEF s
      <4>2. /\ Increasing(s)
            /\ Elements(s) = Elements(s \o <<held>>) \ {held}
            /\ held \in Elements(s \o <<held>>)
            /\ \A y \in Elements(s \o <<held>>) : y <= held
        BY <2>1, <4>1, LastDropped
      <4>. QED
        BY <4>1, <4>2 DEF s
    <3>3. Newest(Taken(k)) = {held}
      BY <2>1, <3>2 DEF Newest, Taken
    <3>. QED
      BY <2>3, <3>1, <3>2, <3>3 DEF OrderedOn, Increasing, Elements, Newest
  <2>5. CASE ~(held # 0 /\ sent[held] = k)
    <3>1. Carried(k)' = Carried(k)
      BY <2>1, <2>3, <2>5 DEF Carried, InHand
    <3>. QED
      BY <1>2, <2>3, <3>1, MovesAlong DEF OrderInv, InOrder
  <2>. QED
    BY <2>4, <2>5
<1>. QED
  BY <1>1, <1>2 DEF OrderInv, InOrder

(* Queueing the packet in hand moves it from the hand into the buffer.     *)
LEMMA Queues ==
    ASSUME TypeOK, OrderInv, NEW j \in Data, SelectSend(j)
    PROVE  OrderInv'
<1>1. /\ rl = "select" /\ held # 0 /\ sent[held] = j /\ held' = 0 /\ rl' = "read"
      /\ ch' = [ch EXCEPT ![j] = Append(ch[j], held)] /\ UNCHANGED <<sent, next, got>>
  BY DEF SelectSend, ReadNext, OrderInv, InHandInv
<1>2. InHandInv'
  BY <1>1 DEF InHandInv
<1>3. ASSUME NEW k \in Data PROVE OrderedOn(k)'
  <2>1. /\ got[k] \in Seq(Nat) /\ ch[k] \in Seq(Nat) /\ next \in Nat /\ held \in Nat
    BY <1>3, CarriedType
  <2>2. Carried(k)' = got[k] \o ch'[k] \o <<>>
    BY <1>1 DEF Carried, InHand
  <2>3. Carried(k)' = Carried(k)
    <3>1. CASE k = j
      <4>1. ch'[k] = Append(ch[k], held) /\ InHand(k) = <<held>>
        BY <1>1, <1>3, <3>1 DEF TypeOK, InHand
      <4>2. got[k] \o Append(ch[k], held) \o <<>> = got[k] \o ch[k] \o <<held>>
        BY <2>1, QueueKeepsSequence
      <4>. QED
        BY <2>2, <4>1, <4>2 DEF Carried
    <3>2. CASE k # j
      <4>1. ch'[k] = ch[k] /\ InHand(k) = <<>>
        BY <1>1, <1>3, <3>2 DEF TypeOK, InHand
      <4>. QED
        BY <2>2, <4>1 DEF Carried
    <3>. QED
      BY <3>1, <3>2
  <2>4. Taken(k)' = Taken(k)
    BY <1>1 DEF Taken
  <2>. QED
    BY <1>1, <1>3, <2>3, <2>4, MovesAlong DEF OrderInv, InOrder
<1>. QED
  BY <1>2, <1>3 DEF OrderInv, InOrder

(* A receive moves the head of the buffer to the reader and, when the      *)
(* readloop is parked on that channel, its packet into the room this made. *)
LEMMA Receives ==
    ASSUME TypeOK, OrderInv, NEW r \in Readers, NEW j \in Data, Receive(r, j)
    PROVE  OrderInv'
<1>1. /\ ch[j] # <<>> /\ got' = [got EXCEPT ![j] = Append(got[j], Head(ch[j]))]
      /\ UNCHANGED <<sent, next>>
  BY DEF Receive
<1>2. CASE rl = "parked" /\ sent[held] = j
  <2>1. /\ held # 0 /\ held' = 0 /\ rl' = "read"
        /\ ch' = [ch EXCEPT ![j] = Append(Tail(ch[j]), held)]
    BY <1>2 DEF Receive, ReadNext, OrderInv, InHandInv
  <2>2. ASSUME NEW k \in Data PROVE Carried(k)' = Carried(k)
    <3>1. /\ got[k] \in Seq(Nat) /\ ch[k] \in Seq(Nat) /\ held \in Nat
      BY <2>2, CarriedType
    <3>2. Carried(k)' = got'[k] \o ch'[k] \o <<>>
      BY <2>1 DEF Carried, InHand
    <3>3. CASE k = j
      <4>1. /\ got'[k] = Append(got[k], Head(ch[k])) /\ ch'[k] = Append(Tail(ch[k]), held)
            /\ InHand(k) = <<held>>
        BY <1>1, <1>2, <2>1, <2>2, <3>3 DEF TypeOK, InHand
      <4>2. Append(got[k], Head(ch[k])) \in Seq(Nat) /\ Tail(ch[k]) \in Seq(Nat)
        BY <1>1, <3>1, <3>3
      <4>3. Append(got[k], Head(ch[k])) \o Append(Tail(ch[k]), held) \o <<>>
            = Append(got[k], Head(ch[k])) \o Tail(ch[k]) \o <<held>>
        BY <3>1, <4>2, QueueKeepsSequence
      <4>4. <<held>> \in Seq(Nat) /\ ch[k] # <<>>
        BY <1>1, <3>1, <3>3
      <4>5. Append(got[k], Head(ch[k])) \o Tail(ch[k]) \o <<held>> = got[k] \o ch[k] \o <<held>>
        BY <3>1, <4>4, ReceiveKeepsSequence
      <4>. QED
        BY <3>2, <4>1, <4>3, <4>5 DEF Carried
    <3>4. CASE k # j
      <4>1. got'[k] = got[k] /\ ch'[k] = ch[k] /\ InHand(k) = <<>>
        BY <1>1, <1>2, <2>1, <2>2, <3>4 DEF TypeOK, InHand
      <4>. QED
        BY <3>2, <4>1 DEF Carried
    <3>. QED
      BY <3>3, <3>4
  <2>3. \A k \in Data : Taken(k)' = Taken(k)
    BY <1>1 DEF Taken
  <2>4. InOrder'
    BY <1>2, <2>2, <2>3, MovesAlong DEF OrderInv, InOrder
  <2>. QED
    BY <2>1, <2>4 DEF OrderInv, InHandInv
<1>3. CASE ~(rl = "parked" /\ sent[held] = j)
  <2>1. ch' = [ch EXCEPT ![j] = Tail(ch[j])] /\ held' = held /\ rl' = rl
    BY <1>3 DEF Receive
  <2>2. ASSUME NEW k \in Data PROVE Carried(k)' = Carried(k)
    <3>1. /\ got[k] \in Seq(Nat) /\ ch[k] \in Seq(Nat) /\ InHand(k) \in Seq(Nat)
      BY <2>2, CarriedType
    <3>2. Carried(k)' = got'[k] \o ch'[k] \o InHand(k)
      BY <1>1, <2>1 DEF Carried, InHand
    <3>3. CASE k = j
      <4>1. got'[k] = Append(got[k], Head(ch[k])) /\ ch'[k] = Tail(ch[k])
        BY <1>1, <2>1, <2>2, <3>3 DEF TypeOK
      <4>2. ch[k] # <<>>
        BY <1>1, <3>3
      <4>3. Append(got[k], Head(ch[k])) \o Tail(ch[k]) \o InHand(k) = got[k] \o ch[k] \o InHand(k)
        BY <3>1, <4>2, ReceiveKeepsSequence
      <4>. QED
        BY <3>2, <4>1, <4>3 DEF Carried
    <3>4. CASE k # j
      <4>1. got'[k] = got[k] /\ ch'[k] = ch[k]
        BY <1>1, <2>1, <2>2, <3>4 DEF TypeOK
      <4>. QED
        BY <3>2, <4>1 DEF Carried
    <3>. QED
      BY <3>3, <3>4
  <2>3. \A k \in Data : Taken(k)' = Taken(k)
    BY <1>1 DEF Taken
  <2>4. InOrder'
    BY <2>1, <2>2, <2>3, MovesAlong DEF OrderInv, InOrder
  <2>. QED
    BY <1>1, <2>1, <2>4 DEF OrderInv, InHandInv
<1>. QED
  BY <1>2, <1>3

(* A step that leaves the packets where they are.                          *)
LEMMA LeavesPackets ==
    ASSUME TypeOK, OrderInv, UNCHANGED <<next, held, ch, got>>,
           \A i \in 1..next : sent'[i] = sent[i],
           \/ rl' = rl
           \/ rl = "read" /\ rl' = "closing"
           \/ rl \in {"check", "select"} /\ rl' \in {"select", "parked"}
    PROVE  OrderInv'
<1>1. InHandInv'
  BY DEF OrderInv, InHandInv
<1>2. ASSUME NEW k \in Data PROVE OrderedOn(k)'
  <2>1. held \in 0..next /\ next \in Nat
    BY DEF TypeOK
  <2>2. InHand(k)' = InHand(k)
    <3>1. held # 0 => sent'[held] = sent[held]
      BY <2>1
    <3>. QED
      BY <3>1 DEF InHand
  <2>3. Carried(k)' = Carried(k)
    BY <2>2 DEF Carried
  <2>4. Taken(k)' = Taken(k)
    BY DEF Taken
  <2>. QED
    BY <1>2, <2>3, <2>4, MovesAlong DEF OrderInv, InOrder
<1>. QED
  BY <1>1, <1>2 DEF OrderInv, InOrder

LEMMA OrderStep == ASSUME IInv, OrderInv, [Next]_vars PROVE OrderInv'
<1>. USE DEF IInv
<1>1. CASE UNCHANGED vars
  BY <1>1, LeavesPackets DEF vars, flow
<1>2. CASE \E k \in Sends : RemoteSend(k)
  <2>1. PICK k \in Sends : RemoteSend(k)
    BY <1>2
  <2>2. \A i \in 1..next : sent'[i] = sent[i]
    BY <2>1 DEF RemoteSend, TypeOK
  <2>. QED
    BY <2>1, <2>2, LeavesPackets DEF RemoteSend, flow
<1>3. CASE RemoteGone \/ OwnerCloses \/ SetKeepalive \/ PingTick \/ PingerReturns \/ CheckAlive
           \/ CheckerReturns
  BY <1>3, LeavesPackets
     DEF RemoteGone, OwnerCloses, SetKeepalive, PingTick, PingerReturns, CheckAlive,
         CheckerReturns, flow
<1>4. CASE Readloop
  <2>1. CASE Unpack
    BY <2>1, TakesOne
  <2>2. CASE UnpackFails
    BY <2>2, LeavesPackets DEF UnpackFails
  <2>3. CASE CheckDone
    <3>1. CASE done
      BY <2>3, <3>1, PutsDown DEF CheckDone, Exit
    <3>2. CASE ~done
      BY <2>3, <3>2, LeavesPackets DEF CheckDone
    <3>. QED
      BY <3>1, <3>2
  <2>4. CASE SelectControl
    BY <2>4, PutsDown DEF SelectControl, ReadNext
  <2>5. CASE SelectDone
    BY <2>5, PutsDown DEF SelectDone, Exit
  <2>6. ASSUME NEW k \in Data, SelectSend(k) \/ SelectPanic(k) \/ SelectPark(k) PROVE OrderInv'
    BY <2>6, Queues, LeavesPackets DEF SelectPanic, SelectPark, flow
  <2>. QED
    BY <1>4, <2>1, <2>2, <2>3, <2>4, <2>5, <2>6 DEF Readloop
<1>5. ASSUME NEW r \in Readers, Read(r) PROVE OrderInv'
  BY <1>5, Receives, LeavesPackets DEF Read, ReaderReturns, flow
<1>6. ASSUME NEW c \in Closers, Close(c) PROVE OrderInv'
  <2>1. CASE CloseDone(c)
    <3>1. CASE rl = "parked"
      BY <2>1, <3>1, PutsDown DEF CloseDone, Exit
    <3>2. CASE rl # "parked"
      BY <2>1, <3>2, LeavesPackets DEF CloseDone
    <3>. QED
      BY <3>1, <3>2
  <2>2. CASE ~CloseDone(c)
    <3>1. UNCHANGED <<sent, next, held, ch, got, rl>>
      BY <1>6, <2>2 DEF Close, EnterOnce, SkipOnce, CloseConn, CloseChannel, flow
    <3>. QED
      BY <3>1, LeavesPackets
  <2>. QED
    BY <2>1, <2>2
<1>. QED
  BY <1>1, <1>2, <1>3, <1>4, <1>5, <1>6 DEF Next

(* ------------------------------ theorems ------------------------------- *)

(* The inductive invariant: one call of Close at most is inside closeOnce, *)
(* and a readloop that may still queue a packet has queued none late.      *)
THEOREM Invariant == Spec => []IInv
BY Initially, Step, PTL DEF Spec

(* The variables of Transport keep their types, no channel holds more than *)
(* it was made for.                                                        *)
THEOREM TypeCorrect == Spec => []TypeOK
BY Invariant, PTL DEF IInv

(* No channel of a transport is closed twice.                              *)
THEOREM ChannelsClosedOnce == Spec => []ClosedOnce
BY Invariant, PTL DEF IInv, HandInv, ClosedOnce

(* One packet at most slips through the window between the check of done   *)
(* and the select.                                                         *)
THEOREM WindowOfOne == Spec => []LateWindow
<1>1. IInv => LateWindow
  BY DEF IInv, LateInv, TypeOK, LateWindow
<1>. QED
  BY <1>1, Invariant, PTL

(* Every packet taken off the wire is received, queued or in hand once, in *)
(* the order of the wire, however full the channels get; only a readloop   *)
(* that exits drops one.                                                   *)
THEOREM PacketsInOrder == Spec => []InOrder
<1>1. Init => OrderInv
  BY OrderInitially
<1>2. IInv /\ OrderInv /\ [Next]_vars => OrderInv'
  BY OrderStep
<1>3. OrderInv => InOrder
  BY DEF OrderInv
<1>. QED
  BY <1>1, <1>2, <1>3, Invariant, PTL DEF Spec
=============================================================================

----------------------------- MODULE RpcProofs -----------------------------
(* Theorems about module Rpc, for any number of calls, pushes and ids.     *)
EXTENDS Rpc, TLAPS

(* The request of a call is, or may be, on the wire. *)
Sent(c) == pc[c] \notin {"idle", "write"}

Dispatching == disp \in {"lookup", "deliver"}

(* Calls have ids of their own.                                            *)
Numbered ==
    /\ \A c \in Callers : IF pc[c] = "idle" THEN id[c] = 0 ELSE id[c] \in 1..sequence
    /\ \A c, d \in Callers : id[c] = id[d] /\ id[c] # 0 => c = d

(* What the writes of the map amount to: no entry outlives its call,       *)
(* whether answered, timed out or answered late, and no call loses its     *)
(* entry to another.                                                       *)
Tracks ==
    \A c \in Callers, i \in Ids :
        replyer[i] = c <=> id[c] = i /\ pc[c] \in {"lookup", "wait", "delete", "deleting"}

(* The map is that unless two writes have overlapped.                      *)
ReplyerTracksCalls == ~tangled => Tracks

OwnChannel == \A c \in Callers : pc[c] = "wait" => on[c] \in {c, None} \/ tangled

(* A response carries the id of the call it answers, or is a push.         *)
Genuine(r) == IF r.to = None THEN end = "node" ELSE r.id = id[r.to] /\ Sent(r.to)

Answers ==
    /\ \A i \in DOMAIN inflight : Genuine(inflight[i])
    /\ Dispatching => pkt \in Responses /\ Genuine(pkt)
    /\ disp = "deliver" => target \in Callers /\ Sent(target) /\ (pkt.id = id[target] \/ tangled)
    /\ \A c \in Callers : (c \in asked => Sent(c)) /\ (~Sent(c) => result[c] = Nothing)

OnItsWay(c) == \E i \in DOMAIN inflight : inflight[i].to = c
AtDispatcher(c) == Dispatching /\ pkt.to = c

(* A request is answered once: the answer is yet to come, on its way, with *)
(* the dispatcher or with the call.                                        *)
OneAnswer ==
    \A c \in Callers :
        /\ \A i, j \in DOMAIN inflight : inflight[i].to = c /\ inflight[j].to = c => i = j
        /\ c \in asked => ~OnItsWay(c) /\ ~AtDispatcher(c) /\ result[c].to # c
        /\ OnItsWay(c) => ~AtDispatcher(c) /\ result[c].to # c
        /\ AtDispatcher(c) => result[c].to # c

IInv == /\ TypeOK /\ Numbered /\ Tracks /\ OwnChannel /\ Answers
        /\ OneAnswer /\ OwnAnswer /\ SendPanicNeedsTimeoutOrPush

(* ------------------------------- lemmas -------------------------------- *)

LEMMA Initially == ASSUME Init PROVE IInv
<1>. USE DEF Init
<1>1. TypeOK
  <2>1. inflight \in Seq(Responses) /\ replyer \in [Ids -> Callers \cup {None}]
    OBVIOUS
  <2>2. /\ pc = [c \in Callers |-> "idle"] /\ id \in [Callers -> Ids \cup {0}]
        /\ on \in [Callers -> Callers \cup {None}] /\ result \in [Callers -> Responses \cup {Nothing}]
    OBVIOUS
  <2>. QED
    BY <2>1, <2>2 DEF TypeOK
<1>2. Numbered /\ Tracks /\ OwnChannel
  BY NoneIsNoCaller DEF Numbered, Tracks, OwnChannel, Ids
<1>3. Answers /\ OneAnswer /\ OwnAnswer
  BY NoneIsNoCaller DEF Answers, OneAnswer, OwnAnswer, Sent, Dispatching, OnItsWay, AtDispatcher, Nothing
<1>. QED
  BY <1>1, <1>2, <1>3 DEF IInv, SendPanicNeedsTimeoutOrPush

(* What a call does without touching a response.                           *)
LEMMA AnswersStay ==
    ASSUME IInv, UNCHANGED <<end, id, result, asked, inflight, disp, pkt, target>>, tangled => tangled',
           \A c \in Callers : Sent(c) => Sent(c)'
    PROVE  Answers' /\ OneAnswer' /\ OwnAnswer'
<1>1. \A r \in Responses : Genuine(r) => Genuine(r)'
  BY DEF Genuine, Responses
<1>2. \A i \in DOMAIN inflight : inflight[i] \in Responses
  BY DEF IInv, TypeOK
<1>3. Answers'
  BY <1>1, <1>2 DEF IInv, Answers, Dispatching
<1>4. OneAnswer' /\ OwnAnswer'
  BY DEF IInv, OneAnswer, OwnAnswer, OnItsWay, AtDispatcher, Dispatching
<1>. QED
  BY <1>3, <1>4

(* Steps of the remote end and of the dispatcher leave the map alone.      *)
LEMMA CallsStay ==
    ASSUME IInv, UNCHANGED <<pc, id, sequence, on, replyer, tangled>>
    PROVE  Numbered' /\ Tracks' /\ OwnChannel'
BY DEF IInv, Numbered, Tracks, OwnChannel

LEMMA CallStep == ASSUME IInv, crash = "no", NEW c \in Callers, Call(c) PROVE IInv'
<1>. USE DEF Call, NextId, Step, map
<1>1. id[c] = 0 /\ ~Sent(c)
  BY DEF IInv, Numbered, Sent
<1>2. TypeOK'
  BY Bounds DEF IInv, TypeOK, Ids, remote, dispatch
<1>3. Numbered'
  BY DEF IInv, TypeOK, Numbered, Ids
<1>4. Tracks' /\ OwnChannel'
  BY <1>1 DEF IInv, TypeOK, Ids, Tracks, OwnChannel
<1>5. \A d \in Callers : Sent(d) => d # c /\ id[d]' = id[d] /\ Sent(d)'
  BY <1>1 DEF IInv, TypeOK, Sent
<1>6. \A r \in Responses : Genuine(r) => Genuine(r)'
  BY <1>5 DEF Genuine, Responses
<1>7. Answers'
  <2>1. \A i \in DOMAIN inflight : inflight[i] \in Responses
    BY DEF IInv, TypeOK
  <2>2. disp = "deliver" => target # c
    BY <1>1 DEF IInv, Answers
  <2>. QED
    BY <1>1, <1>5, <1>6, <2>1, <2>2 DEF IInv, TypeOK, Answers, Dispatching, remote, dispatch, Sent
<1>8. OneAnswer' /\ OwnAnswer'
  BY DEF IInv, OneAnswer, OwnAnswer, OnItsWay, AtDispatcher, Dispatching, remote, dispatch
<1>. QED
  BY <1>2, <1>3, <1>4, <1>7, <1>8 DEF IInv, SendPanicNeedsTimeoutOrPush

LEMMA WriteStep == ASSUME IInv, crash = "no", NEW c \in Callers, WriteRequest(c) PROVE IInv'
<1>. USE DEF WriteRequest, Step, map
<1>1. TypeOK'
  BY DEF IInv, TypeOK, dispatch
<1>2. Numbered' /\ Tracks' /\ OwnChannel'
  BY DEF IInv, TypeOK, Numbered, Tracks, OwnChannel
<1>3. ~Sent(c) /\ \A d \in Callers : Sent(d)' <=> Sent(d) \/ d = c
  BY DEF IInv, TypeOK, Sent
<1>4. \A r \in Responses : (Genuine(r) => r.to # c) /\ (Genuine(r) => Genuine(r)')
  BY <1>3, NoneIsNoCaller DEF Genuine, Responses
<1>5. \A i \in DOMAIN inflight : inflight[i] \in Responses
  BY DEF IInv, TypeOK
<1>6. Answers'
  BY <1>3, <1>4, <1>5 DEF IInv, TypeOK, Answers, Dispatching, dispatch
<1>7. ~OnItsWay(c) /\ ~AtDispatcher(c) /\ result[c] = Nothing
  BY <1>3, <1>4, <1>5 DEF IInv, Answers, OnItsWay, AtDispatcher
<1>8. Nothing.to # c
  BY NoneIsNoCaller DEF Nothing
<1>9. OneAnswer' /\ OwnAnswer'
  BY <1>7, <1>8 DEF IInv, OneAnswer, OwnAnswer, OnItsWay, AtDispatcher, Dispatching, dispatch
<1>. QED
  BY <1>1, <1>2, <1>6, <1>9 DEF IInv, SendPanicNeedsTimeoutOrPush, dispatch

(* Timeouts, failed writes, closes and all accesses to the map.            *)
LEMMA CallerStep ==
    ASSUME IInv, crash = "no", NEW c \in Callers,
           WriteFails(c) \/ BeginRegister(c) \/ EndRegister(c) \/ LookupOwn(c) \/ Timeout(c)
             \/ BeginDelete(c) \/ EndDelete(c)
    PROVE  IInv'
<1>. USE DEF WriteFails, BeginRegister, EndRegister, BeginWrite, EndWrite, LookupOwn, Timeout,
             BeginDelete, EndDelete, Step, MapAccess, map
<1>1. /\ UNCHANGED <<end, id, sequence, result, asked, inflight, up, pushed, disp, pkt, target>>
      /\ tangled => tangled'
  <2>1. UNCHANGED <<end, id, sequence, result, asked, inflight, up, pushed, disp, pkt, target>>
    BY DEF remote, dispatch
  <2>2. UNCHANGED tangled \/ tangled' = (tangled \/ writing # {})
    OBVIOUS
  <2>3. tangled => (tangled \/ writing # {}) = TRUE
    OBVIOUS
  <2>4. tangled \in BOOLEAN
    BY DEF IInv, TypeOK
  <2>5. tangled => tangled' = TRUE
    BY <2>2, <2>3, <2>4
  <2>. QED
    BY <2>1, <2>5
<1>2. id[c] \in Ids /\ crash' \in {"no", "map"}
  BY DEF IInv, TypeOK, Numbered, Ids
<1>3. TypeOK'
  <2>1. Found(c, id[c]) \subseteq Callers \cup {None}
    BY <1>2 DEF IInv, TypeOK, Found
  <2>2. /\ pc' \in [Callers -> {"idle", "write", "register", "registering", "lookup",
                              "wait", "delete", "deleting", "close", "returned"}]
        /\ on' \in [Callers -> Callers \cup {None}]
    BY <1>2, <2>1 DEF IInv, TypeOK
  <2>3. writing' \subseteq Callers /\ replyer' \in [Ids -> Callers \cup {None}]
    BY <1>2 DEF IInv, TypeOK
  <2>4. tangled' \in BOOLEAN
    BY DEF IInv, TypeOK
  <2>. QED
    BY <1>1, <1>2, <2>2, <2>3, <2>4 DEF IInv, TypeOK
<1>4. Numbered' /\ OwnChannel'
  <2>1. pc[c] = "lookup" => Found(c, id[c]) \subseteq {c, None} \/ tangled
    BY <1>2 DEF IInv, Tracks, Found
  <2>. QED
    BY <1>1, <2>1 DEF IInv, TypeOK, Numbered, OwnChannel
<1>5. Tracks'
  BY <1>1, <1>2, NoneIsNoCaller DEF IInv, TypeOK, Numbered, Tracks
<1>6. \A d \in Callers : Sent(d) => Sent(d)'
  BY DEF IInv, TypeOK, Sent
<1>7. Answers' /\ OneAnswer' /\ OwnAnswer'
  BY <1>1, <1>6, AnswersStay
<1>. QED
  BY <1>2, <1>3, <1>4, <1>5, <1>7 DEF IInv, SendPanicNeedsTimeoutOrPush

(* The dispatcher may be about to send on the channel: then what it has    *)
(* for the call is not the answer, or the call has given up.               *)
LEMMA CloseChannelStep ==
    ASSUME IInv, crash = "no", NEW c \in Callers, CloseChannel(c) PROVE IInv'
<1>. USE DEF CloseChannel, Step, map
<1>1. TypeOK' /\ Numbered' /\ Tracks' /\ OwnChannel'
  BY DEF IInv, TypeOK, Numbered, Tracks, OwnChannel, remote, dispatch
<1>2. Answers' /\ OneAnswer' /\ OwnAnswer'
  BY AnswersStay DEF remote, dispatch, IInv, TypeOK, Sent
<1>3. SendPanicNeedsTimeoutOrPush'
  <2>1. SUFFICES ASSUME disp = "deliver", target = c, pkt.to # None, ~tangled
                 PROVE  result[c].to = None
    BY DEF IInv, TypeOK, SendPanicNeedsTimeoutOrPush, GaveUp, dispatch
  <2>2. pkt.to \in Callers /\ id[pkt.to] = id[c] /\ id[c] # 0
    BY <2>1 DEF IInv, Answers, Dispatching, Genuine, Responses, Ids
  <2>3. pkt.to = c
    BY <2>2 DEF IInv, Numbered
  <2>4. result[c].to # c
    BY <2>1, <2>3 DEF IInv, OneAnswer, AtDispatcher, Dispatching
  <2>. QED
    BY <2>1, <2>4 DEF IInv, OwnAnswer, Nothing
<1>. QED
  BY <1>1, <1>2, <1>3 DEF IInv

LEMMA DeliverStep == ASSUME IInv, crash = "no", NEW c \in Callers, Deliver(c) PROVE IInv'
<1>. USE DEF Deliver, Step, map
<1>1. /\ pkt \in Responses /\ Genuine(pkt) /\ Sent(c) /\ Dispatching
      /\ (target = c /\ pkt.id = id[c]) \/ tangled
  BY NoneIsNoCaller DEF IInv, OwnChannel, Answers, Dispatching, Sent
<1>2. pkt.to = c \/ (pkt.to = None /\ end = "node") \/ tangled
  BY <1>1 DEF IInv, Numbered, Genuine, Responses, Ids
<1>3. TypeOK'
  BY <1>1 DEF IInv, TypeOK, remote
<1>4. Numbered' /\ Tracks' /\ OwnChannel'
  BY DEF IInv, TypeOK, Numbered, Tracks, OwnChannel
<1>5. \A d \in Callers : Sent(d)' <=> Sent(d)
  BY DEF IInv, TypeOK, Sent
<1>6. \A r \in Responses : Genuine(r) => Genuine(r)'
  BY <1>5 DEF Genuine, Responses
<1>7. \A i \in DOMAIN inflight : inflight[i] \in Responses
  BY DEF IInv, TypeOK
<1>8. Answers'
  BY <1>1, <1>5, <1>6, <1>7 DEF IInv, TypeOK, Answers, Dispatching, remote
<1>9. result' = [result EXCEPT ![c] = pkt] /\ result \in [Callers -> Responses \cup {Nothing}]
  BY DEF IInv, TypeOK
<1>10. OwnAnswer'
  BY <1>2, <1>9 DEF IInv, OwnAnswer
<1>11. OneAnswer'
  <2>1. ~Dispatching'
    BY DEF Dispatching
  <2>2. pkt.to = c => c \notin asked /\ ~OnItsWay(c)
    BY <1>1 DEF IInv, OneAnswer, AtDispatcher
  <2>. QED
    BY <1>9, <2>1, <2>2 DEF IInv, OneAnswer, OnItsWay, AtDispatcher, remote
<1>. QED
  BY <1>3, <1>4, <1>8, <1>10, <1>11 DEF IInv, SendPanicNeedsTimeoutOrPush

(* ------------------------- the other end ------------------------------- *)

LEMMA ReplyStep == ASSUME IInv, crash = "no", NEW c \in Callers, Reply(c) PROVE IInv'
<1>. DEFINE r == [id |-> id[c], to |-> c]
<1>. USE DEF Reply, map
<1>1. r \in Responses /\ Sent(c) /\ c # None
  BY NoneIsNoCaller DEF IInv, TypeOK, Numbered, Answers, Sent, Responses, Ids
<1>2. /\ inflight \in Seq(Responses) /\ inflight' = Append(inflight, r)
  BY DEF IInv, TypeOK
<1>3. /\ DOMAIN inflight' = 1..(Len(inflight) + 1) /\ DOMAIN inflight = 1..Len(inflight)
      /\ \A i \in DOMAIN inflight : inflight'[i] = inflight[i]
      /\ inflight'[Len(inflight) + 1] = r /\ Len(inflight) \in Nat
  BY <1>1, <1>2
<1>4. TypeOK'
  BY <1>1, <1>2 DEF IInv, TypeOK, calls, dispatch
<1>5. Numbered' /\ Tracks' /\ OwnChannel'
  BY CallsStay DEF calls
<1>6. \A s \in Responses : Genuine(s)' <=> Genuine(s)
  BY DEF Genuine, Sent, calls
<1>7. Genuine(r)
  BY <1>1 DEF Genuine
<1>8. Answers'
  BY <1>1, <1>2, <1>3, <1>6, <1>7 DEF IInv, Answers, Dispatching, Sent, calls, dispatch
<1>9. OnItsWay(c)' /\ \A d \in Callers : d # c => (OnItsWay(d)' <=> OnItsWay(d))
  BY <1>3 DEF OnItsWay
<1>10. OneAnswer'
  <2>1. c \notin asked' /\ ~OnItsWay(c)
    BY DEF IInv, OneAnswer
  <2>2. \A d \in Callers : \A i, j \in DOMAIN inflight' :
            inflight'[i].to = d /\ inflight'[j].to = d => i = j
    BY <1>3, <2>1 DEF IInv, OneAnswer, OnItsWay
  <2>. QED
    BY <1>9, <2>1, <2>2 DEF IInv, OneAnswer, AtDispatcher, Dispatching, calls, dispatch
<1>11. OwnAnswer' /\ SendPanicNeedsTimeoutOrPush'
  BY DEF IInv, OwnAnswer, SendPanicNeedsTimeoutOrPush, calls
<1>. QED
  BY <1>4, <1>5, <1>8, <1>10, <1>11 DEF IInv

LEMMA PushStep == ASSUME IInv, crash = "no", NEW i \in Ids, Push(i) PROVE IInv'
<1>. DEFINE r == [id |-> i, to |-> None]
<1>. USE DEF Push, map
<1>1. r \in Responses /\ \A c \in Callers : r.to # c
  BY NoneIsNoCaller DEF Responses
<1>2. /\ inflight \in Seq(Responses) /\ inflight' = Append(inflight, r)
  BY DEF IInv, TypeOK
<1>3. /\ DOMAIN inflight' = 1..(Len(inflight) + 1) /\ DOMAIN inflight = 1..Len(inflight)
      /\ \A j \in DOMAIN inflight : inflight'[j] = inflight[j]
      /\ inflight'[Len(inflight) + 1] = r /\ Len(inflight) \in Nat
  BY <1>1, <1>2
<1>4. TypeOK'
  BY <1>1, <1>2 DEF IInv, TypeOK, calls, dispatch
<1>5. Numbered' /\ Tracks' /\ OwnChannel'
  BY CallsStay DEF calls
<1>6. \A s \in Responses : Genuine(s)' <=> Genuine(s)
  BY DEF Genuine, Sent, calls
<1>7. Genuine(r)
  BY DEF Genuine
<1>8. Answers'
  BY <1>1, <1>2, <1>3, <1>6, <1>7 DEF IInv, Answers, Dispatching, Sent, calls, dispatch
<1>9. \A d \in Callers : OnItsWay(d)' <=> OnItsWay(d)
  BY <1>1, <1>3 DEF OnItsWay
<1>10. OneAnswer'
  <2>1. \A d \in Callers : \A j, k \in DOMAIN inflight' :
            inflight'[j].to = d /\ inflight'[k].to = d => j = k
    BY <1>1, <1>3 DEF IInv, OneAnswer
  <2>. QED
    BY <1>9, <2>1 DEF IInv, OneAnswer, AtDispatcher, Dispatching, calls, dispatch
<1>11. OwnAnswer' /\ SendPanicNeedsTimeoutOrPush'
  BY DEF IInv, OwnAnswer, SendPanicNeedsTimeoutOrPush, calls
<1>. QED
  BY <1>4, <1>5, <1>8, <1>10, <1>11 DEF IInv

(* --------------------------- the dispatcher ---------------------------- *)

LEMMA ReceiveStep == ASSUME IInv, crash = "no", DispatcherReceive PROVE IInv'
<1>. USE DEF DispatcherReceive, map
<1>1. /\ inflight \in Seq(Responses) /\ inflight # <<>>
      /\ pkt' = inflight[1] /\ pkt' \in Responses /\ inflight' \in Seq(Responses)
      /\ 1 \in DOMAIN inflight
      /\ \A i \in DOMAIN inflight' : i + 1 \in DOMAIN inflight /\ inflight'[i] = inflight[i + 1]
                                     /\ i \in Nat /\ i # 0
  BY DEF IInv, TypeOK
<1>2. TypeOK'
  BY <1>1 DEF IInv, TypeOK, calls
<1>3. Numbered' /\ Tracks' /\ OwnChannel'
  BY CallsStay DEF calls
<1>4. \A s \in Responses : Genuine(s)' <=> Genuine(s)
  BY DEF Genuine, Sent, calls
<1>5. Answers'
  BY <1>1, <1>4 DEF IInv, TypeOK, Answers, Dispatching, Sent, calls
<1>6. OneAnswer'
  <2>. SUFFICES ASSUME NEW d \in Callers
       PROVE  /\ \A i, j \in DOMAIN inflight' : inflight'[i].to = d /\ inflight'[j].to = d => i = j
              /\ d \in asked => ~OnItsWay(d)' /\ ~AtDispatcher(d)' /\ result[d].to # d
              /\ OnItsWay(d)' => ~AtDispatcher(d)' /\ result[d].to # d
              /\ AtDispatcher(d)' => result[d].to # d
    BY DEF OneAnswer, calls
  <2>1. \A i, j \in DOMAIN inflight' : inflight'[i].to = d /\ inflight'[j].to = d => i = j
    BY <1>1 DEF IInv, OneAnswer
  <2>2. OnItsWay(d)' => OnItsWay(d)
    BY <1>1 DEF OnItsWay
  <2>3. AtDispatcher(d)' => OnItsWay(d) /\ ~OnItsWay(d)'
    BY <1>1 DEF IInv, OneAnswer, OnItsWay, AtDispatcher
  <2>. QED
    BY <2>1, <2>2, <2>3 DEF IInv, OneAnswer
<1>7. OwnAnswer' /\ SendPanicNeedsTimeoutOrPush'
  BY DEF IInv, OwnAnswer, SendPanicNeedsTimeoutOrPush, calls
<1>. QED
  BY <1>2, <1>3, <1>5, <1>6, <1>7 DEF IInv

LEMMA LookupStep == ASSUME IInv, crash = "no", DispatcherLookup PROVE IInv'
<1>. USE DEF DispatcherLookup, MapAccess, map
<1>1. /\ pkt \in Responses /\ pkt.id \in Ids /\ Found(None, pkt.id) \subseteq Callers \cup {None}
      /\ disp' \in {"recv", "deliver", "stuck"} /\ target' \in Callers \cup {None}
      /\ disp' = "deliver" => target' \in Callers
  BY DEF IInv, TypeOK, Answers, Dispatching, Responses, Found
<1>2. target' # None /\ ~tangled => target' = replyer[pkt.id]
  BY DEF Found
<1>3. /\ target' # None /\ ~tangled => id[target'] = pkt.id /\ pc[target'] # "returned"
      /\ disp' = "deliver" => Sent(target')
  <2>1. \A d \in Callers : replyer[pkt.id] = d => Sent(d)
    BY <1>1 DEF IInv, Tracks, Sent
  <2>2. \A d \in Callers : Stored(d) => Sent(d)
    BY DEF Stored, Sent
  <2>. QED
    BY <1>1, <1>2, <2>1, <2>2 DEF IInv, Tracks, Found
<1>4. crash' \in {"no", "map"} \/ (crash' = "send" /\ tangled)
  BY <1>3
<1>5. TypeOK'
  BY <1>1, <1>4 DEF IInv, TypeOK, calls, remote
<1>6. Numbered' /\ Tracks' /\ OwnChannel'
  BY CallsStay DEF calls
<1>7. \A s \in Responses : Genuine(s)' <=> Genuine(s)
  BY DEF Genuine, Sent, calls
<1>8. Answers'
  BY <1>1, <1>7, <1>3 DEF IInv, TypeOK, Answers, Dispatching, Sent, calls, remote
<1>9. OneAnswer' /\ OwnAnswer'
  BY DEF IInv, OneAnswer, OwnAnswer, OnItsWay, AtDispatcher, Dispatching, calls, remote
<1>. QED
  BY <1>5, <1>6, <1>8, <1>9, <1>4 DEF IInv, SendPanicNeedsTimeoutOrPush

LEMMA EndStep == ASSUME IInv, crash = "no", Disconnect \/ DispatcherReturns PROVE IInv'
<1>. USE DEF Disconnect, DispatcherReturns, map
<1>1. TypeOK'
  BY DEF IInv, TypeOK, calls, remote, dispatch
<1>2. Numbered' /\ Tracks' /\ OwnChannel'
  BY CallsStay DEF calls
<1>3. \A s \in Responses : Genuine(s)' <=> Genuine(s)
  BY DEF Genuine, Sent, calls
<1>4. Answers'
  BY <1>3 DEF IInv, TypeOK, Answers, Dispatching, Sent, calls, remote, dispatch
<1>5. OneAnswer' /\ OwnAnswer'
  BY DEF IInv, OneAnswer, OwnAnswer, OnItsWay, AtDispatcher, Dispatching, calls, remote, dispatch
<1>. QED
  BY <1>1, <1>2, <1>4, <1>5 DEF IInv, SendPanicNeedsTimeoutOrPush

LEMMA Stutter == ASSUME IInv, UNCHANGED vars PROVE IInv'
BY DEF IInv, vars, calls, map, remote, dispatch, TypeOK, Numbered, Tracks, OwnChannel,
       Answers, Genuine, Dispatching, Sent, OneAnswer, OnItsWay, AtDispatcher, OwnAnswer,
       SendPanicNeedsTimeoutOrPush, GaveUp

LEMMA NextStep == ASSUME IInv, [Next]_vars PROVE IInv'
<1>1. ASSUME crash = "no", NEW c \in Callers, SendMessage(c) PROVE IInv'
  BY <1>1, WriteStep, CallerStep, CloseChannelStep, DeliverStep DEF SendMessage
<1>2. CASE Next
  BY <1>1, <1>2, CallStep, ReplyStep, PushStep, ReceiveStep, LookupStep, EndStep
     DEF Next, Dispatcher
<1>. QED
  BY <1>2, Stutter

(* ------------------------------ theorems ------------------------------- *)

(* The inductive invariant adds to the properties that calls have ids of   *)
(* their own, that a response says truly whom it answers, and that a       *)
(* request is answered at most once.                                       *)
THEOREM Invariant == Spec => []IInv
BY Initially, NextStep, PTL DEF Spec

(* The variables of Rpc keep their types.                                  *)
THEOREM TypeCorrect == Spec => []TypeOK
BY Invariant, PTL DEF IInv

(* Unless two writes have overlapped unnoticed, the unlocked map replyer   *)
(* holds exactly the calls between registration and deletion.              *)
THEOREM ReplyerTracks == Spec => []ReplyerTracksCalls
BY Invariant, PTL DEF IInv, ReplyerTracksCalls

(* The dispatcher finds the channel of every answer that comes between the *)
(* registration of its call and the deletion, when nobody writes the map.  *)
LEMMA DropStep ==
    ASSUME IInv, crash = "no", DispatcherLookup, disp' = "recv", pkt.to # None,
           writing = {}, ~tangled
    PROVE  pc[pkt.to] \notin {"lookup", "wait", "delete"}
<1>1. pkt.to \in Callers /\ pkt.id \in Ids /\ pkt.id = id[pkt.to]
  BY DEF DispatcherLookup, IInv, Answers, Dispatching, Genuine, Responses
<1>2. ~HalfWritten(pkt.id) /\ Found(None, pkt.id) = {replyer[pkt.id]}
  BY DEF HalfWritten, Found
<1>3. replyer[pkt.id] = None
  BY <1>2 DEF DispatcherLookup
<1>. QED
  BY <1>1, <1>3, NoneIsNoCaller DEF IInv, Tracks

(* An answer is dropped only if it overtakes the registration of its call, *)
(* comes after the call has given up, or meets a write of the map.         *)
THEOREM AnswersNotDroppedHolds == Spec => AnswersNotDropped
<1>. DEFINE Dropped == disp = "lookup" /\ disp' = "recv" /\ pkt.to # None
            Excused == pc[pkt.to] \notin {"lookup", "wait", "delete"} \/ writing # {} \/ tangled
<1>1. ASSUME IInv, [Next]_vars PROVE Dropped => Excused
  <2>. SUFFICES ASSUME Dropped PROVE Excused
    OBVIOUS
  <2>1. disp' # disp /\ ~UNCHANGED dispatch
    BY DEF dispatch
  <2>2. Next
    BY <1>1, <2>1 DEF vars
  <2>3. crash = "no" /\ DispatcherLookup
    BY <2>1, <2>2
       DEF Next, Call, SendMessage, WriteRequest, WriteFails, BeginRegister, EndRegister, LookupOwn,
           Timeout, Deliver, BeginDelete, EndDelete, CloseChannel, BeginWrite, EndWrite, Reply, Push,
           Disconnect, Dispatcher, DispatcherReceive, DispatcherReturns, dispatch
  <2>. QED
    BY <1>1, <2>3, DropStep
<1>2. ASSUME IInv, [Next]_vars PROVE [Dropped => Excused]_vars
  BY <1>1, <1>2
<1>. QED
  BY <1>2, Invariant, PTL DEF Spec, AnswersNotDropped

(* SendMessage returns the answer to its request or a push, unless two     *)
(* writes of the map have overlapped unnoticed.                            *)
THEOREM AnswerIsOwn == Spec => []OwnAnswer
BY Invariant, PTL DEF IInv

(* RunDispatcher panics on a closed reply channel only after a timeout,    *)
(* because of a push, or when two writes have kept a deleted entry.        *)
THEOREM PanicIsExplained == Spec => []SendPanicNeedsTimeoutOrPush
BY Invariant, PTL DEF IInv
=============================================================================

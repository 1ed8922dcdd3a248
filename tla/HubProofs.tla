----------------------------- MODULE HubProofs -----------------------------
(***************************************************************************)
(* Theorems about Hub, for any sets of sessions and names.  The inductive  *)
(* invariant IInv adds to the type what the deletions by name rest on: the *)
(* table lists a session under its own name and only while its handler     *)
(* holds that name, and whoever finds another session in the table, or     *)
(* meets it, has contested it.                                             *)
(***************************************************************************)
EXTENDS Hub, TLAPS

(* Whatever the table lists is listed under its name, by a live handler.   *)
HolderIsLive ==
    \A n \in Names, s \in Sessions :
        sessions[n] = s => name[s] = n /\ pc[s] \in Listed

(* Two handlers of one name know of each other. *)
RivalsContested ==
    \A s, t \in Sessions :
        s # t /\ name[s] = name[t] /\ pc[s] \in Handling /\ pc[t] \in Handling
            => contested[s]

UncontestedIsListed ==
    \A s \in Sessions : pc[s] \in Listed /\ ~contested[s] => sessions[name[s]] = s

(* What a handler is about to close is its own session or a contested one. *)
FoundIsContested ==
    \A s, t \in Sessions :
        pc[t] \in {"evict", "rclose"} /\ found[t] = s /\ s # t => contested[s]

IInv == /\ TypeOK
        /\ HolderIsLive /\ RivalsContested /\ UncontestedIsListed /\ FoundIsContested

USE DEF Login, Saving, Listed, Handling, Gone

LEMMA InitIInv == Init => IInv
  <1> SUFFICES ASSUME Init PROVE IInv
    OBVIOUS
  <1> USE NoneIsNoSession DEF Init
  <1>1. TypeOK
    BY DEF TypeOK
  <1>2. HolderIsLive /\ RivalsContested /\ UncontestedIsListed /\ FoundIsContested
    BY DEF HolderIsLive, RivalsContested, UncontestedIsListed, FoundIsContested
  <1> QED  BY <1>1, <1>2 DEF IInv

LEMMA TypeStep == TypeOK /\ [Next]_vars => TypeOK'
  <1> SUFFICES ASSUME TypeOK, [Next]_vars PROVE TypeOK'
    OBVIOUS
  <1> USE DEF TypeOK, At, Goto, Shut, Crash
  <1>1. ASSUME NEW s \in Sessions, Connect(s) PROVE TypeOK'
    BY <1>1 DEF Connect
  <1>2. ASSUME NEW s \in Sessions, NEW kind \in {"good", "bad"}, ClientLogin(s, kind)
        PROVE  TypeOK'
    BY <1>2 DEF ClientLogin
  <1>3. ASSUME NEW s \in Sessions, Drop(s) PROVE TypeOK'
    BY <1>3 DEF Drop
  <1>4. ASSUME NEW s \in Sessions,
               ReadLogin(s) \/ RefuseLogin(s) \/ ReadClosed(s) \/ ReplyLogin(s)
        PROVE  TypeOK'
    BY <1>4 DEF ReadLogin, RefuseLogin, ReadClosed, ReplyLogin
  <1>5. ASSUME NEW s \in Sessions, HandOff(s) PROVE TypeOK'
    BY <1>5 DEF HandOff
  <1>6. ASSUME NEW s \in Sessions, OfferPanic(s) \/ ServeEnd(s) \/ LastClose(s)
        PROVE  TypeOK'
    BY <1>6 DEF OfferPanic, ServeEnd, LastClose
  <1>7. ASSUME NEW s \in Sessions, SaveLoad(s) \/ RemoveLoad(s) PROVE TypeOK'
    BY <1>7 DEF SaveLoad, RemoveLoad, LoadOld
  <1>8. ASSUME NEW s \in Sessions, SaveClose(s) \/ RemoveClose(s) PROVE TypeOK'
    BY <1>8 DEF SaveClose, RemoveClose
  <1>9. ASSUME NEW s \in Sessions, SaveStore(s) \/ RemoveDelete(s) PROVE TypeOK'
    BY <1>9 DEF SaveStore, RemoveDelete
  <1>10. CASE CloseServer
    BY <1>10 DEF CloseServer
  <1>11. CASE UNCHANGED vars
    BY <1>11 DEF vars
  <1> QED
    BY <1>1, <1>2, <1>3, <1>4, <1>5, <1>6, <1>7, <1>8, <1>9, <1>10, <1>11
       DEF Next, Goroutine

(* Type correctness: every step leaves every variable in its set, the      *)
(* table total over the names.                                             *)
THEOREM TypeCorrect == Spec => []TypeOK
  <1>1. Init => TypeOK
    BY InitIInv DEF IInv
  <1> QED  BY <1>1, TypeStep, PTL DEF Spec

(* Steps of handlers that neither enter nor leave a set of program counters *)
(* the invariant speaks of, and touch neither the table nor its readers.    *)
LEMMA QuietStep ==
    ASSUME IInv, sessions' = sessions, found' = found, name' = name,
           contested' = contested,
           \A s \in Sessions :
               pc'[s] # pc[s] => /\ pc[s] \notin Handling /\ pc'[s] \notin Handling
    PROVE  HolderIsLive' /\ RivalsContested' /\ UncontestedIsListed' /\ FoundIsContested'
  <1> USE DEF IInv
  <1>1. HolderIsLive'
    BY DEF HolderIsLive
  <1>2. RivalsContested'
    BY DEF RivalsContested
  <1>3. UncontestedIsListed'
    BY DEF UncontestedIsListed
  <1>4. FoundIsContested'
    BY DEF FoundIsContested
  <1> QED  BY <1>1, <1>2, <1>3, <1>4

(* Steps of one handler from one place where it handles to another: what   *)
(* is left to show is what the move makes of the table and of `found`.     *)
LEMMA HandlerStep ==
    ASSUME IInv, NEW s \in Sessions, NEW l \in Handling,
           pc[s] \in Handling, Goto(s, l), name' = name, contested' = contested
    PROVE  RivalsContested'
  BY DEF IInv, TypeOK, Goto, RivalsContested

(* Whoever looks its name up finds itself or a rival it has contested.     *)
LEMMA Lookup ==
    ASSUME IInv, NEW s \in Sessions, pc[s] \in Handling, NEW t \in Sessions,
           sessions[name[s]] = t, t # s
    PROVE  contested[t]
  BY DEF IInv, TypeOK, HolderIsLive, RivalsContested

LEMMA InvStep == IInv /\ [Next]_vars => IInv'
  <1> SUFFICES ASSUME IInv, [Next]_vars PROVE IInv'
    OBVIOUS
  <1>0. TypeOK'
    BY TypeStep DEF IInv
  <1> DEFINE Rest == HolderIsLive /\ RivalsContested /\ UncontestedIsListed
                     /\ FoundIsContested
  <1>1. ASSUME NEW s \in Sessions,
               Connect(s) \/ (\E kind \in {"good", "bad"} : ClientLogin(s, kind)) \/ Drop(s)
        PROVE  Rest'
    BY <1>1, QuietStep DEF IInv, TypeOK, Connect, ClientLogin, Drop, At, Goto, Shut
  <1>2. ASSUME NEW s \in Sessions,
               ReadLogin(s) \/ RefuseLogin(s) \/ ReadClosed(s) \/ ReplyLogin(s)
                 \/ OfferPanic(s)
        PROVE  Rest'
    BY <1>2, QuietStep DEF IInv, TypeOK, ReadLogin, RefuseLogin, ReadClosed, ReplyLogin,
       OfferPanic, At, Goto, Shut
  <1>3. ASSUME NEW s \in Sessions, HandOff(s) PROVE Rest'
    <2> USE <1>3 DEF IInv, TypeOK, HandOff, At, Goto
    <2>1. HolderIsLive'
      BY DEF HolderIsLive
    <2>2. RivalsContested'
      BY DEF RivalsContested, Rivals
    <2>3. UncontestedIsListed'
      BY DEF UncontestedIsListed
    <2>4. FoundIsContested'
      BY DEF FoundIsContested
    <2> QED  BY <2>1, <2>2, <2>3, <2>4
  <1>4. ASSUME NEW s \in Sessions, SaveLoad(s) PROVE Rest'
    <2> USE <1>4 DEF SaveLoad, LoadOld, At
    <2>1. RivalsContested'
      BY HandlerStep DEF Goto
    <2> USE DEF IInv, TypeOK, Goto
    <2>2. HolderIsLive'
      BY DEF HolderIsLive
    <2>3. UncontestedIsListed'
      BY DEF UncontestedIsListed
    <2>4. FoundIsContested'
      <3> SUFFICES ASSUME NEW u \in Sessions, NEW t \in Sessions,
                          pc'[t] \in {"evict", "rclose"}, found'[t] = u, u # t
                   PROVE  contested[u]
        BY DEF FoundIsContested
      <3>1. CASE t = s
        BY <3>1, Lookup
      <3>2. CASE t # s
        BY <3>2 DEF FoundIsContested
      <3> QED  BY <3>1, <3>2
    <2> QED  BY <2>1, <2>2, <2>3, <2>4
  <1>5. ASSUME NEW s \in Sessions, SaveClose(s) \/ ServeEnd(s) \/ RemoveClose(s)
        PROVE  Rest'
    <2> USE <1>5 DEF SaveClose, ServeEnd, RemoveClose, At
    <2>1. RivalsContested'
      BY HandlerStep DEF Goto
    <2> USE DEF IInv, TypeOK, Goto
    <2>2. HolderIsLive'
      BY DEF HolderIsLive
    <2>3. UncontestedIsListed'
      BY DEF UncontestedIsListed
    <2>4. FoundIsContested'
      BY DEF FoundIsContested
    <2> QED  BY <2>1, <2>2, <2>3, <2>4
  <1>6. ASSUME NEW s \in Sessions, SaveStore(s) PROVE Rest'
    <2> USE <1>6 DEF SaveStore, At
    <2>1. RivalsContested'
      BY HandlerStep DEF Goto
    <2> USE DEF IInv, TypeOK, Goto
    <2>2. HolderIsLive'
      BY NoneIsNoSession DEF HolderIsLive
    <2>3. UncontestedIsListed'
      BY DEF UncontestedIsListed, RivalsContested
    <2>4. FoundIsContested'
      BY DEF FoundIsContested
    <2> QED  BY <2>1, <2>2, <2>3, <2>4
  <1>7. ASSUME NEW s \in Sessions, RemoveLoad(s) PROVE Rest'
    <2> USE <1>7 DEF RemoveLoad, LoadOld, At
    <2>1. RivalsContested'
      BY HandlerStep DEF Goto
    <2> USE DEF IInv, TypeOK, Goto
    <2>2. HolderIsLive'
      BY DEF HolderIsLive
    <2>3. UncontestedIsListed'
      BY DEF UncontestedIsListed
    <2>4. FoundIsContested'
      <3> SUFFICES ASSUME NEW u \in Sessions, NEW t \in Sessions,
                          pc'[t] \in {"evict", "rclose"}, found'[t] = u, u # t
                   PROVE  contested[u]
        BY DEF FoundIsContested
      <3>1. CASE t = s
        BY <3>1, Lookup
      <3>2. CASE t # s
        BY <3>2 DEF FoundIsContested
      <3> QED  BY <3>1, <3>2
    <2> QED  BY <2>1, <2>2, <2>3, <2>4
  <1>8. ASSUME NEW s \in Sessions, RemoveDelete(s) PROVE Rest'
    <2> USE <1>8 DEF IInv, TypeOK, RemoveDelete, At, Goto
    <2>1. HolderIsLive'
      BY NoneIsNoSession DEF HolderIsLive
    <2>2. RivalsContested'
      BY DEF RivalsContested
    <2>3. UncontestedIsListed'
      BY DEF UncontestedIsListed, RivalsContested
    <2>4. FoundIsContested'
      BY DEF FoundIsContested
    <2> QED  BY <2>1, <2>2, <2>3, <2>4
  <1>9. ASSUME NEW s \in Sessions, LastClose(s) PROVE Rest'
    BY <1>9, QuietStep DEF IInv, TypeOK, LastClose, At, Goto, Shut
  <1>10. ASSUME CloseServer \/ UNCHANGED vars PROVE Rest'
    BY <1>10, QuietStep DEF CloseServer, vars
  <1>11. Rest'
    BY <1>1, <1>2, <1>3, <1>4, <1>5, <1>6, <1>7, <1>8, <1>9, <1>10
       DEF Next, Goroutine
  <1> QED  BY <1>0, <1>11 DEF IInv

LEMMA Invariance == Spec => []IInv
  BY InitIInv, InvStep, PTL DEF Spec

(* A session never handled together with another of its name is listed for *)
(* as long as it is served, however many handlers of other names run.      *)
THEOREM UncontestedStaysListed == Spec => []ListedUnlessContested
  <1>1. IInv => ListedUnlessContested
    BY DEF IInv, UncontestedIsListed, ListedUnlessContested
  <1> QED  BY <1>1, Invariance, PTL

(* Nobody but its own client closes such a session while it is served.     *)
THEOREM NoBystanderClosed == Spec => NoCollateralClose
  <1> DEFINE Hit == \A s \in Sessions :
                        pc[s] = "serve" /\ open[s] /\ ~open'[s] => contested[s] \/ Drop(s)
  <1>1. ASSUME IInv, Next PROVE Hit
    <2> SUFFICES ASSUME NEW s \in Sessions,
                        pc[s] = "serve", open[s], ~open'[s], ~contested[s]
                 PROVE  Drop(s)
      OBVIOUS
    <2> USE <1>1 DEF IInv, TypeOK
    <2>1. ASSUME NEW t \in Sessions, Drop(t) PROVE Drop(s)
      BY <2>1 DEF Drop, Shut
    <2>2. ASSUME NEW t \in Sessions,
                 RefuseLogin(t) \/ ReplyLogin(t) \/ LastClose(t) \/ Connect(t)
          PROVE  FALSE
      BY <2>2 DEF RefuseLogin, ReplyLogin, LastClose, Connect, At, Shut
    <2>3. ASSUME NEW t \in Sessions, SaveClose(t) \/ RemoveClose(t) PROVE FALSE
      BY <2>3 DEF SaveClose, RemoveClose, At, Shut, FoundIsContested
    <2>4. ASSUME NEW t \in Sessions,
                 \/ \E kind \in {"good", "bad"} : ClientLogin(t, kind)
                 \/ ReadLogin(t) \/ ReadClosed(t) \/ HandOff(t) \/ OfferPanic(t)
                 \/ SaveLoad(t) \/ SaveStore(t) \/ ServeEnd(t) \/ RemoveLoad(t)
                 \/ RemoveDelete(t)
          PROVE  FALSE
      BY <2>4 DEF ClientLogin, ReadLogin, ReadClosed, HandOff, OfferPanic, SaveLoad,
         SaveStore, ServeEnd, RemoveLoad, RemoveDelete
    <2>5. CASE CloseServer
      BY <2>5 DEF CloseServer
    <2> QED
      BY <1>1, <2>1, <2>2, <2>3, <2>4, <2>5 DEF Next, Goroutine
  <1>2. IInv /\ [Next]_vars => [Hit]_vars
    BY <1>1
  <1> QED  BY <1>2, Invariance, PTL DEF Spec, NoCollateralClose

(* The table of sessions is a registry: a finished handler leaves nothing  *)
(* of its session behind.                                                  *)
THEOREM HubIsRegistry == Spec => Implements
  <1>1. Init => Reg!Init
    BY DEF Init, Reg!Init, stage
  <1>2. ASSUME IInv, [Next]_vars PROVE [Reg!Next]_(Reg!vars)
    <2> USE <1>2 DEF IInv, TypeOK, At, Goto
    <2>1. ASSUME NEW s \in Sessions, SaveStore(s) PROVE Reg!Enter(name[s], s)
      BY <2>1 DEF SaveStore, Reg!Enter, stage
    <2>2. ASSUME NEW s \in Sessions, RemoveDelete(s) PROVE Reg!Retire(s)
      <3>1. stage' = [stage EXCEPT ![s] = "gone"] /\ stage[s] # "gone"
        BY <2>2 DEF RemoveDelete, stage
      <3>2. \A k \in Names : sessions'[k] # s
        BY <2>2, NoneIsNoSession DEF RemoveDelete, HolderIsLive
      <3> QED  BY <2>2, <3>1, <3>2 DEF RemoveDelete, Reg!Retire
    <2>3. ASSUME NEW s \in Sessions,
                 pc[s] \in Login, pc' = [pc EXCEPT ![s] = "done"], UNCHANGED sessions
          PROVE  Reg!Retire(s)
      <3>1. stage' = [stage EXCEPT ![s] = "gone"] /\ stage[s] # "gone"
        BY <2>3 DEF stage
      <3>2. \A k \in Names : sessions'[k] # s
        BY <2>3 DEF HolderIsLive
      <3> QED  BY <2>3, <3>1, <3>2 DEF Reg!Retire
    <2>4. ASSUME NEW s \in Sessions, RefuseLogin(s) \/ ReplyLogin(s)
          PROVE  Reg!Retire(s) \/ UNCHANGED Reg!vars
      <3>1. CASE pc' = [pc EXCEPT ![s] = "offer"]
        BY <2>4, <3>1 DEF RefuseLogin, ReplyLogin, Reg!vars, stage
      <3>2. CASE pc' = [pc EXCEPT ![s] = "done"]
        BY <2>3, <2>4, <3>2 DEF RefuseLogin, ReplyLogin
      <3> QED  BY <2>4, <3>1, <3>2 DEF RefuseLogin, ReplyLogin
    <2>5. ASSUME NEW s \in Sessions,
                 \/ Connect(s) \/ Drop(s) \/ ReadLogin(s) \/ ReadClosed(s) \/ HandOff(s)
                 \/ OfferPanic(s) \/ SaveLoad(s) \/ SaveClose(s) \/ ServeEnd(s)
                 \/ RemoveLoad(s) \/ RemoveClose(s) \/ LastClose(s)
                 \/ \E kind \in {"good", "bad"} : ClientLogin(s, kind)
          PROVE  UNCHANGED Reg!vars
      BY <2>5 DEF Connect, Drop, ReadLogin, ReadClosed, HandOff, OfferPanic, SaveLoad,
         SaveClose, ServeEnd, RemoveLoad, RemoveClose, LastClose, ClientLogin, Reg!vars, stage
    <2>6. CASE CloseServer \/ UNCHANGED vars
      BY <2>6 DEF CloseServer, vars, Reg!vars, stage
    <2> QED
      BY <2>1, <2>2, <2>4, <2>5, <2>6 DEF Next, Goroutine, Reg!Next
  <1> QED  BY <1>1, <1>2, Invariance, PTL DEF Spec, Implements, Reg!Spec

(* In particular the table lists no session whose handler has finished.    *)
THEOREM FinishedNeverListed == Spec => []Reg!Sound
  <1>1. IInv => Reg!Sound
    BY DEF IInv, HolderIsLive, Reg!Sound, stage
  <1> QED  BY <1>1, Invariance, PTL
=============================================================================

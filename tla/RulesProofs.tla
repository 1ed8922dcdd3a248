---------------------------- MODULE RulesProofs ----------------------------
(***************************************************************************)
(* Theorems about Rules, for any list of networks, any rules of others and *)
(* any number of processes.  IInv adds to the type what a manager knows of *)
(* the chain: nothing it has recorded is another's, and as long as nothing *)
(* went wrong every rule in the chain is another's or recorded, and while  *)
(* clearing still to be looked at.                                         *)
(***************************************************************************)
EXTENDS Rules, TLAPS

RecordedIsOwn == rules \cap foreign = {}

Accounted ==
    tidy => /\ chain \subseteq foreign \cup rules
            /\ pc = "clear" => chain \subseteq foreign \cup todo
            /\ pc = "off" => chain \subseteq foreign

UpdatedSoFar ==
    pc = "update" /\ ~flushed => \A i \in DOMAIN AllowNets : i < next => AllowNets[i] \in chain

IInv == /\ TypeOK
        /\ ForeignRulesKept /\ RecordedIsOwn /\ Accounted
        /\ UpdatedSoFar /\ Translated

(* The rule UpdateIptables is at is one of the networks, and the list ends *)
(* where its index leaves the domain.                                      *)
LEMMA NextInList ==
    ASSUME next \in 1..(Len(AllowNets) + 1)
    PROVE  /\ DOMAIN AllowNets = 1..Len(AllowNets)
           /\ next \in DOMAIN AllowNets => Dst \in Nets /\ next + 1 \in 1..(Len(AllowNets) + 1)
           /\ next \notin DOMAIN AllowNets => \A i \in DOMAIN AllowNets : i < next
           /\ \A i \in DOMAIN AllowNets : i < next + 1 => i < next \/ i = next
  <1>1. Len(AllowNets) \in Nat /\ DOMAIN AllowNets = 1..Len(AllowNets)
    BY AllowedNets
  <1>2. \A i \in DOMAIN AllowNets : AllowNets[i] \in Nets
    BY AllowedNets
  <1> QED
    BY <1>1, <1>2 DEF Dst

LEMMA InitIInv == Init => IInv
  <1> SUFFICES ASSUME Init PROVE IInv
    OBVIOUS
  <1>1. 1 \in 1..(Len(AllowNets) + 1) /\ 0 \in 0..MaxStarts
    BY AllowedNets, Starts
  <1>2. TypeOK
    BY <1>1 DEF Init, TypeOK
  <1> QED
    BY <1>2 DEF Init, IInv, ForeignRulesKept, RecordedIsOwn, Accounted, UpdatedSoFar, Translated

LEMMA TypeStep == TypeOK /\ [Next]_vars => TypeOK'
  <1> SUFFICES ASSUME TypeOK, [Next]_vars PROVE TypeOK'
    OBVIOUS
  <1> USE Starts DEF TypeOK
  <1>1. 1 \in 1..(Len(AllowNets) + 1)
    BY AllowedNets
  <1>2. CASE Start
    <2>1. starts' \in 0..MaxStarts
      BY <1>2 DEF Start
    <2> QED
      BY <1>1, <1>2, <2>1 DEF Start
  <1>3. CASE UpdateRule
    <2>1. Dst \in Nets /\ next + 1 \in 1..(Len(AllowNets) + 1)
      BY <1>3, NextInList DEF UpdateRule
    <2> QED
      BY <1>3, <2>1 DEF UpdateRule
  <1>4. CASE UpdateFails
    BY <1>4 DEF UpdateFails
  <1>5. CASE Updated
    BY <1>5 DEF Updated
  <1>6. CASE Crash
    BY <1>6 DEF Crash
  <1>7. CASE Reload
    BY <1>7 DEF Reload
  <1>8. CASE Quit \/ Cleared
    BY <1>8 DEF Quit, Cleared
  <1>9. ASSUME NEW d \in Nets, ClearRule(d) PROVE TypeOK'
    BY <1>9 DEF ClearRule
  <1>10. ASSUME NEW d \in Nets, ClearFails(d) PROVE TypeOK'
    BY <1>10 DEF ClearFails
  <1>11. CASE UNCHANGED vars
    BY <1>11 DEF vars
  <1> QED
    BY <1>2, <1>3, <1>4, <1>5, <1>6, <1>7, <1>8, <1>9, <1>10, <1>11 DEF Next

(* What a manager knows of the chain is preserved: only UpdateRule records *)
(* and appends, only ClearRule deletes, and what they touch is not foreign.*)
LEMMA ChainStep ==
    ASSUME TypeOK, ForeignRulesKept, RecordedIsOwn, Accounted, [Next]_vars
    PROVE  ForeignRulesKept' /\ RecordedIsOwn' /\ Accounted'
  <1> USE DEF TypeOK, ForeignRulesKept, RecordedIsOwn, Accounted
  <1>1. CASE Start
    BY <1>1 DEF Start
  <1>2. CASE UpdateRule
    BY <1>2 DEF UpdateRule
  <1>3. CASE UpdateFails
    BY <1>3 DEF UpdateFails
  <1>4. CASE Updated
    BY <1>4 DEF Updated
  <1>5. CASE Crash
    BY <1>5 DEF Crash
  <1>6. CASE Reload
    BY <1>6 DEF Reload
  <1>7. CASE Quit
    BY <1>7 DEF Quit
  <1>8. CASE Cleared
    BY <1>8 DEF Cleared
  <1>9. ASSUME NEW d \in Nets, ClearRule(d)
        PROVE  ForeignRulesKept' /\ RecordedIsOwn' /\ Accounted'
    <2>1. d \in rules /\ d \notin foreign
      BY <1>9 DEF ClearRule
    <2> QED
      BY <1>9, <2>1 DEF ClearRule
  <1>10. ASSUME NEW d \in Nets, ClearFails(d)
         PROVE  ForeignRulesKept' /\ RecordedIsOwn' /\ Accounted'
    BY <1>10 DEF ClearFails
  <1>11. CASE UNCHANGED vars
    BY <1>11 DEF vars
  <1> QED
    BY <1>1, <1>2, <1>3, <1>4, <1>5, <1>6, <1>7, <1>8, <1>9, <1>10, <1>11 DEF Next

(* UpdateIptables leaves no network behind, and only a reload or the end   *)
(* of the process takes one away.                                          *)
LEMMA UpdateStep ==
    ASSUME TypeOK, UpdatedSoFar, Translated, [Next]_vars
    PROVE  UpdatedSoFar' /\ Translated'
  <1>1. CASE Start
    BY <1>1, NextInList DEF Start, TypeOK, UpdatedSoFar, Translated
  <1>2. CASE UpdateRule
    <2>1. next' = next + 1 /\ pc' = "update" /\ Dst \in chain' /\ chain \subseteq chain'
          /\ flushed' = flushed /\ pc = "update"
      BY <1>2 DEF UpdateRule
    <2>2. \A i \in DOMAIN AllowNets : i < next' => i < next \/ AllowNets[i] = Dst
      BY <2>1, NextInList DEF TypeOK, Dst
    <2> QED
      BY <2>1, <2>2 DEF UpdatedSoFar, Translated
  <1>3. CASE Updated
    BY <1>3, NextInList DEF Updated, TypeOK, UpdatedSoFar, Translated
  <1>4. CASE UpdateFails \/ Crash \/ Quit \/ Cleared
    BY <1>4 DEF UpdateFails, Crash, Quit, Cleared, UpdatedSoFar, Translated
  <1>5. CASE Reload
    BY <1>5 DEF Reload, UpdatedSoFar, Translated
  <1>6. ASSUME NEW d \in Nets, ClearRule(d) \/ ClearFails(d)
        PROVE  UpdatedSoFar' /\ Translated'
    BY <1>6 DEF ClearRule, ClearFails, UpdatedSoFar, Translated
  <1>7. CASE UNCHANGED vars
    BY <1>7 DEF vars, UpdatedSoFar, Translated
  <1> QED
    BY <1>1, <1>2, <1>3, <1>4, <1>5, <1>6, <1>7 DEF Next

LEMMA IInvStep == IInv /\ [Next]_vars => IInv'
  BY TypeStep, ChainStep, UpdateStep DEF IInv

LEMMA Inductive == Spec => []IInv
  BY InitIInv, IInvStep, PTL DEF Spec

(* Type correctness: in particular a manager never clears a rule it has    *)
(* not recorded.                                                           *)
THEOREM TypeCorrect == Spec => []TypeOK
  <1>1. IInv => TypeOK
    BY DEF IInv
  <1> QED
    BY <1>1, Inductive, PTL

(* Rules of others are never deleted by UpdateIptables or ClearAllRules.   *)
THEOREM OthersKeepTheirRules == Spec => []ForeignRulesKept
  <1>1. IInv => ForeignRulesKept
    BY DEF IInv
  <1> QED
    BY <1>1, Inductive, PTL

(* Processes that end in order leave the chain as they found it.           *)
THEOREM OrderlyEndRestores == Spec => []RulesReturned
  <1>1. IInv => RulesReturned
    BY DEF IInv, RulesReturned, Accounted, ForeignRulesKept
  <1> QED
    BY <1>1, Inductive, PTL

(* A running node's networks all have their rule until the chain is        *)
(* reloaded.                                                               *)
THEOREM RunningIsTranslated == Spec => []Translated
  <1>1. IInv => Translated
    BY DEF IInv
  <1> QED
    BY <1>1, Inductive, PTL
=============================================================================

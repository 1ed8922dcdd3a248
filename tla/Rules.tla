------------------------------- MODULE Rules -------------------------------
(***************************************************************************)
(* The firewall rules of a host: RuleManager (pkg/device/rule.go), called  *)
(* by CreateNet and OnShutdown (app/network.go) in node processes that     *)
(* follow one another (cmd/node).  The chain outlives them; what a process *)
(* remembers of it does not.  A rule is named by its destination.  Nobody  *)
(* else adds a rule of the same text, so looking a rule up and acting on   *)
(* the answer is one step.                                                 *)
(***************************************************************************)
EXTENDS Naturals, Sequences

CONSTANTS Nets,        \* destinations
          AllowNets,   \* Net.AllowNets of the configuration, in order
          MaxStarts    \* bound: processes

ASSUME AllowedNets == AllowNets \in Seq(Nets)
ASSUME Starts == MaxStarts \in Nat

VARIABLES pc,       \* where the process stands, "off" when there is none
          starts,   \* processes so far
          next,     \* UpdateIptables: index of the rule it is at
          todo,     \* ClearAllRules: rules it has still to look at
          rules,    \* RuleManager.rules
          chain,    \* the MASQUERADE rules in the host's POSTROUTING chain
          foreign,  \* those of them that others have put there
          tidy,     \* history: no process has crashed or had a call fail
          flushed   \* history: the chain was reloaded since the last start

vars == <<pc, starts, next, todo, rules, chain, foreign, tidy, flushed>>

TypeOK ==
    /\ pc \in {"off", "update", "run", "clear"}
    /\ starts \in 0..MaxStarts
    /\ next \in 1..(Len(AllowNets) + 1)
    /\ todo \subseteq rules
    /\ rules \subseteq Nets /\ chain \subseteq Nets /\ foreign \subseteq Nets
    /\ tidy \in BOOLEAN /\ flushed \in BOOLEAN

Init ==
    /\ pc = "off" /\ starts = 0 /\ next = 1
    /\ todo = {} /\ rules = {}
    /\ foreign \in SUBSET Nets /\ chain = foreign
    /\ tidy = TRUE /\ flushed = FALSE

Dst == AllowNets[next]

-----------------------------------------------------------------------------
(* main.Run, CreateNet, UpdateIptables *)

(* A new process has a new RuleManager. *)
Start ==
    /\ pc = "off" /\ starts < MaxStarts
    /\ starts' = starts + 1
    /\ pc' = "update" /\ next' = 1 /\ rules' = {} /\ todo' = {}
    /\ flushed' = FALSE
    /\ UNCHANGED <<chain, foreign, tidy>>

UpdateRule_RecordAll ==
    /\ pc = "update" /\ next \in DOMAIN AllowNets
    /\ next' = next + 1
    /\ chain' = chain \cup {Dst} /\ rules' = rules \cup {Dst}
    /\ UNCHANGED <<pc, starts, todo, foreign, tidy, flushed>>

UpdateRule_RecordNone ==
    /\ pc = "update" /\ next \in DOMAIN AllowNets
    /\ next' = next + 1
    /\ chain' = chain \cup {Dst}
    /\ UNCHANGED <<pc, starts, todo, rules, foreign, tidy, flushed>>

(* A rule that exists is left alone, and not recorded. *)
UpdateRule ==
    /\ pc = "update" /\ next \in DOMAIN AllowNets
    /\ next' = next + 1
    /\ IF Dst \in chain THEN UNCHANGED <<chain, rules>>
       ELSE chain' = chain \cup {Dst} /\ rules' = rules \cup {Dst}
    /\ UNCHANGED <<pc, starts, todo, foreign, tidy, flushed>>

UpdateFails_Continue ==
    /\ pc = "update" /\ next \in DOMAIN AllowNets
    /\ next' = next + 1 /\ tidy' = FALSE
    /\ UNCHANGED <<pc, starts, todo, rules, chain, foreign, flushed>>

(* A call to iptables fails: CreateNet and Service.Start return the error, *)
(* and main returns.  Nobody clears what has been appended.                *)
UpdateFails ==
    /\ pc = "update" /\ next \in DOMAIN AllowNets
    /\ pc' = "off" /\ tidy' = FALSE
    /\ UNCHANGED <<starts, next, todo, rules, chain, foreign, flushed>>

(* The loop over stale rules finds none: all that a new manager has        *)
(* recorded has just been updated.                                         *)
Updated ==
    /\ pc = "update" /\ next \notin DOMAIN AllowNets
    /\ pc' = "run"
    /\ UNCHANGED <<starts, next, todo, rules, chain, foreign, tidy, flushed>>

(* A panic, a signal that is not waited for, or one that comes before Run  *)
(* has set s.cancel, which Close calls.                                    *)
Crash ==
    /\ pc # "off"
    /\ pc' = "off" /\ tidy' = FALSE
    /\ rules' = {} /\ todo' = {}
    /\ UNCHANGED <<starts, next, chain, foreign, flushed>>

(* The host's firewall service is restarted and restores what is its own   *)
(* (external).                                                             *)
Reload ==
    /\ chain' = foreign /\ flushed' = TRUE
    /\ UNCHANGED <<pc, starts, next, todo, rules, foreign, tidy>>

-----------------------------------------------------------------------------
(* Service.Close, OnShutdown, ClearAllRules *)

Quit ==
    /\ pc = "run"
    /\ pc' = "clear" /\ todo' = rules
    /\ UNCHANGED <<starts, next, rules, chain, foreign, tidy, flushed>>

(* A rule that has gone stays recorded. *)
ClearRule(d) ==
    /\ pc = "clear" /\ d \in todo
    /\ todo' = todo \ {d}
    /\ rules' = IF d \in chain THEN rules \ {d} ELSE rules
    /\ chain' = chain \ {d}
    /\ UNCHANGED <<pc, starts, next, foreign, tidy, flushed>>

(* A call fails: the loop continues with the next rule. *)
ClearFails(d) ==
    /\ pc = "clear" /\ d \in todo
    /\ todo' = todo \ {d} /\ tidy' = FALSE
    /\ UNCHANGED <<pc, starts, next, rules, chain, foreign, flushed>>

Cleared ==
    /\ pc = "clear" /\ todo = {}
    /\ pc' = "off"
    /\ UNCHANGED <<starts, next, todo, rules, chain, foreign, tidy, flushed>>

-----------------------------------------------------------------------------
Next ==
    \/ Start \/ UpdateRule \/ UpdateFails \/ Updated \/ Crash \/ Reload
    \/ Quit \/ Cleared
    \/ \E d \in Nets : ClearRule(d) \/ ClearFails(d)

Spec == Init /\ [][Next]_vars

-----------------------------------------------------------------------------
(* Properties *)

(* A rule that others have put in the chain is never deleted, although a   *)
(* rule does not tell who appended it, and a manager is asked to append    *)
(* rules that exist, left by a process that crashed or put there by others.*)
ForeignRulesKept == foreign \subseteq chain

(* After processes that ended in order the chain is as it was before them, *)
(* whatever was reloaded meanwhile.  (After a crash, a failed start or a   *)
(* failed call it need not be: the next process finds the rule and leaves  *)
(* it, too.)                                                               *)
RulesReturned == pc = "off" /\ tidy => chain = foreign

(* While a node runs, every network it allows is translated, whether the   *)
(* rule is its own, another's or left over, unless the chain was reloaded: *)
(* nobody appends the rules again.                                         *)
Translated ==
    pc = "run" /\ ~flushed => \A i \in DOMAIN AllowNets : AllowNets[i] \in chain
=============================================================================

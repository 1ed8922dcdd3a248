------------------------------ MODULE Registry ------------------------------
(***************************************************************************)
(* What the two registries of ptun promise: the hub's table of sessions    *)
(* (pkg/hub/hub.go) and the bridge's table of peers (pkg/bridge/bridge.go) *)
(* both map a name to the connection that answers for it.  An item is      *)
(* "new" until it is entered, "live" while something looks after it and    *)
(* "gone" once nothing does.  The table forgets an item at the latest when *)
(* it goes: nobody can be handed a connection nobody looks after.          *)
(***************************************************************************)
CONSTANTS Keys, Items, None

VARIABLES table, stage

vars == <<table, stage>>

Init == /\ table = [k \in Keys |-> None]
        /\ stage = [i \in Items |-> "new"]

(* A new item takes a name, whoever held it before. *)
Enter(k, i) == /\ stage[i] = "new"
               /\ stage' = [stage EXCEPT ![i] = "live"]
               /\ table' = [table EXCEPT ![k] = i]

(* A name is freed; its holder, if any, is still looked after. *)
Clear(k) == /\ table' = [table EXCEPT ![k] = None]
            /\ UNCHANGED stage

(* An item goes, freeing at most one name (perhaps another item's). *)
Retire(i) == /\ stage[i] # "gone"
             /\ stage' = [stage EXCEPT ![i] = "gone"]
             /\ \/ UNCHANGED table
                \/ \E k \in Keys : table' = [table EXCEPT ![k] = None]
             /\ \A k \in Keys : table'[k] # i

Next == \/ \E k \in Keys, i \in Items : Enter(k, i)
        \/ \E k \in Keys : Clear(k)
        \/ \E i \in Items : Retire(i)

Spec == Init /\ [][Next]_vars

(* Whatever the table lists is live. *)
Sound == \A k \in Keys, i \in Items : table[k] = i => stage[i] = "live"
=============================================================================

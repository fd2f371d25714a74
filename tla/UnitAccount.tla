---------------------------- MODULE UnitAccount ----------------------------
(***************************************************************************)
(* What a pool may rely on when its units are cleaned up: the chain that   *)
(* deletes an allocation unit has first given its place back               *)
(* (_delete_allocation_unit decrements Pool.size in one transaction and    *)
(* deletes the unit in the next), and no chain gives a place back twice.   *)
(* It is not promised that a debit is followed by the deletion, nor that a *)
(* unit is debited by one chain only.                                      *)
(***************************************************************************)
CONSTANTS
    Unit,       \* allocation units
    Chain       \* their cleanup chains

VARIABLES
    gone,       \* the units that were deleted
    debited     \* for each unit, the chains that decremented Pool.size for it

vars == <<gone, debited>>

Init == gone = {} /\ debited = [u \in Unit |-> {}]

Debit(u, c) ==
    /\ \A v \in Unit : c \notin debited[v]
    /\ debited' = [debited EXCEPT ![u] = @ \cup {c}]
    /\ UNCHANGED gone

Close(u, c) ==
    /\ u \notin gone /\ c \in debited[u]
    /\ gone' = gone \cup {u}
    /\ UNCHANGED debited

Next == \E u \in Unit, c \in Chain : Debit(u, c) \/ Close(u, c)

Spec == Init /\ [][Next]_vars

(* A unit that is gone has been taken off its pool's size at least once.   *)
PaidFor == \A u \in gone : debited[u] # {}
=============================================================================

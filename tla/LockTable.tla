----------------------------- MODULE LockTable -----------------------------
(***************************************************************************)
(* What a sandbox lock promises, however it is taken: it is given to one   *)
(* user at a time, on a sandbox that exists, and until it is released the  *)
(* sandbox is neither deleted nor replaced.                                *)
(***************************************************************************)
CONSTANTS
    Sandbox,    \* sandbox keys
    Holder,     \* whoever a lock may belong to
    Free        \* nobody

VARIABLES
    present,    \* the sandboxes that exist
    holder      \* who holds the lock of each

vars == <<present, holder>>

Init == present = {} /\ holder = [s \in Sandbox |-> Free]

Lock(s, h) ==
    /\ s \in present /\ holder[s] = Free
    /\ holder' = [holder EXCEPT ![s] = h]
    /\ UNCHANGED present

Unlock(s) ==
    /\ holder[s] # Free
    /\ holder' = [holder EXCEPT ![s] = Free]
    /\ UNCHANGED present

\* Sandboxes come and go, the locked ones stay.
Replace ==
    /\ present' \in SUBSET Sandbox
    /\ {s \in Sandbox : holder[s] # Free} \subseteq present'
    /\ UNCHANGED holder

Next ==
    \/ Replace
    \/ \E s \in Sandbox : Unlock(s)
    \/ \E s \in Sandbox, h \in Holder : Lock(s, h)

Spec == Init /\ [][Next]_vars

(* A lock never points at a sandbox that is gone.                          *)
LockedPresent == \A s \in Sandbox : holder[s] # Free => s \in present
=============================================================================

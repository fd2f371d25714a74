-------------------------- MODULE LockTable_proofs --------------------------
(***************************************************************************)
(* What a lock table promises, proved for every implementation of it: the  *)
(* unit and the pool refine LockTable.                                     *)
(***************************************************************************)
EXTENDS LockTable, TLAPS

\* The locks are those of the sandboxes: no key appears or disappears.
LockInv == DOMAIN holder = Sandbox /\ LockedPresent

\* A step that locks, unlocks or replaces keeps locked sandboxes present.
LEMMA LockTableInductive == LockInv /\ [Next]_vars => LockInv'
<1> SUFFICES ASSUME LockInv, [Next]_vars PROVE LockInv'
  OBVIOUS
<1> USE DEF LockInv, LockedPresent
<1>1. CASE Replace
  BY <1>1 DEF Replace
<1>2. ASSUME NEW s \in Sandbox, Unlock(s) PROVE LockInv'
  BY <1>2 DEF Unlock
<1>3. ASSUME NEW s \in Sandbox, NEW h \in Holder, Lock(s, h) PROVE LockInv'
  BY <1>3 DEF Lock
<1>4. CASE UNCHANGED vars
  BY <1>4 DEF vars
<1> QED BY <1>1, <1>2, <1>3, <1>4 DEF Next

(* A lock never points at a sandbox that is gone, whatever is locked,       *)
(* unlocked, created and deleted (the one-to-one key of SandboxLock).       *)
THEOREM LockedPresentTheorem == Spec => []LockedPresent
<1>1. Init => LockInv
  BY DEF Init, LockInv, LockedPresent
<1>2. LockInv => LockedPresent
  BY DEF LockInv
<1> QED BY <1>1, <1>2, LockTableInductive, PTL DEF Spec
=============================================================================

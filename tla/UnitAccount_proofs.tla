------------------------- MODULE UnitAccount_proofs -------------------------
(***************************************************************************)
(* What the account of a unit is worth to its pool, proved for every       *)
(* implementation of it: PoolLedger and UnitLifecycle refine UnitAccount.  *)
(***************************************************************************)
EXTENDS UnitAccount, TLAPS

\* The account books the units, and those that are gone have been paid for.
PaidInv == DOMAIN debited = Unit /\ gone \subseteq Unit /\ PaidFor

\* Neither a debit nor a deletion leaves an unpaid unit behind.
LEMMA PaidInductive == PaidInv /\ [Next]_vars => PaidInv'
<1> SUFFICES ASSUME PaidInv, [Next]_vars PROVE PaidInv'
  OBVIOUS
<1> USE DEF PaidInv, PaidFor
<1>1. ASSUME NEW u \in Unit, NEW c \in Chain, Debit(u, c) PROVE PaidInv'
  BY <1>1 DEF Debit
<1>2. ASSUME NEW u \in Unit, NEW c \in Chain, Close(u, c) PROVE PaidInv'
  BY <1>2 DEF Close
<1>3. CASE UNCHANGED vars
  BY <1>3 DEF vars
<1> QED BY <1>1, <1>2, <1>3 DEF Next

(* A deleted unit has been taken off its pool's size by at least one chain. *)
THEOREM PaidForTheorem == Spec => []PaidFor
<1>1. Init => PaidInv
  BY DEF Init, PaidInv, PaidFor
<1>2. PaidInv => PaidFor
  BY DEF PaidInv
<1> QED BY <1>1, <1>2, PaidInductive, PTL DEF Spec
=============================================================================

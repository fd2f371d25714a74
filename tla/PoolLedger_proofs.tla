------------------------- MODULE PoolLedger_proofs -------------------------
(* Theorems about PoolLedger, for every number of units, cleanup chains and *)
(* web threads, and whatever counts and sizes clients ask for.              *)
EXTENDS PoolLedger, FiniteSetTheorems, TLAPS

-----------------------------------------------------------------------------
(* The invariant *)

(* A chain debits the pool before it deletes its unit, once each, and has   *)
(* a unit from the moment it is queued.                                     *)
FinsInOrder == \A c \in Chain :
    /\ fin[c].st \in {"new", "queued"} => c \notin debits
    /\ fin[c].st = "debited" => c \in debits \ closed
    /\ fin[c].st # "new" => fin[c].unit \in Unit

(* Without a stale copy, a pool whose key-pairs are gone, or about to go,   *)
(* has no row and no units.                                                 *)
KeysInv == ~lost =>
    /\ reaping => ~pool /\ units = {}
    /\ phase = "open" => keys \/ (~pool /\ units = {})

LedgerInv == TypeOK /\ FinsInOrder /\ SizeCoversUnits /\ KeysInv

-----------------------------------------------------------------------------
(* Steps, by what they leave alone *)

\* The steps that change neither finalizers nor the history of the units.
LEMMA QuietSteps ==
    ASSUME Create \/ PatchUnit \/ LockPool \/ UnlockPool \/ DeletePool \/ DeleteKeys
           \/ CreateUnits
    PROVE  UNCHANGED <<fin, debits, closed, thread>>
BY DEF Create, CreateInvalid, CreateSave, CreateKeypair, PatchUnit, LockPool, UnlockPool,
       DeletePool, DeleteKeys, CreateUnits

-----------------------------------------------------------------------------
(* Types *)

\* Creating a pool keeps the types.
LEMMA CreateType == ASSUME TypeOK, Create PROVE TypeOK'
<1>1. CASE CreateInvalid
  BY <1>1 DEF CreateInvalid, TypeOK
<1>2. CASE CreateSave
  BY <1>2 DEF CreateSave, SaveCopy, TypeOK
<1>3. CASE CreateKeypair
  BY <1>3 DEF CreateKeypair, DeleteRow, poolrow, TypeOK
<1> QED BY <1>1, <1>2, <1>3 DEF Create

\* Requests that create units keep the types: the column is unsigned.
LEMMA CreateUnitsType == ASSUME TypeOK, CreateUnits PROVE TypeOK'
<1>1. PICK n \in Counts \cup {max - size} :
        /\ size + n <= max /\ size + n >= 0
        /\ \E S \in SUBSET (Unit \ used) :
              /\ Cardinality(S) = IF n > 0 THEN n ELSE 0
              /\ units' = units \cup S
              /\ used' = used \cup S
        /\ size' = size + n
        /\ lost' = (lost \/ n < 0)
  BY DEF CreateUnits
<1>2. n \in Int
  BY LedgerAssumption DEF TypeOK
<1>3. size' \in Nat
  BY <1>1, <1>2 DEF TypeOK
<1>4. PICK S \in SUBSET (Unit \ used) : units' = units \cup S /\ used' = used \cup S
  BY <1>1
<1>5. lost' \in BOOLEAN
  BY <1>1
<1> QED BY <1>3, <1>4, <1>5 DEF CreateUnits, TypeOK

\* So do the requests that touch the pool as a whole.
LEMMA PoolType ==
    ASSUME TypeOK, PatchUnit \/ LockPool \/ UnlockPool \/ DeletePool \/ DeleteKeys
    PROVE  TypeOK'
<1>1. CASE PatchUnit
  BY <1>1 DEF PatchUnit, poolrow, TypeOK
<1>2. CASE LockPool \/ UnlockPool
  BY <1>2 DEF LockPool, UnlockPool, poolrow, TypeOK
<1>3. CASE DeletePool
  BY <1>3 DEF DeletePool, DeleteRow, TypeOK
<1>4. CASE DeleteKeys
  BY <1>4 DEF DeleteKeys, poolrow, TypeOK
<1> QED BY <1>1, <1>2, <1>3, <1>4

\* A cleanup is queued for a unit that there is.
LEMMA EnqueueType ==
    ASSUME TypeOK, NEW u \in Unit, NEW del \in BOOLEAN, Enqueue(u, del)
    PROVE  fin' \in [Chain -> Fin]
<1>1. PICK c \in Chain :
        fin' = [fin EXCEPT ![c].st = "queued", ![c].unit = u, ![c].del = del]
  BY DEF Enqueue
<1>2. fin[c] \in Fin
  BY DEF TypeOK
<1>3. [fin[c] EXCEPT !.st = "queued", !.unit = u, !.del = del] \in Fin
  BY <1>2 DEF Fin
<1>4. fin' = [fin EXCEPT ![c] = [fin[c] EXCEPT !.st = "queued", !.unit = u, !.del = del]]
  BY <1>1
<1> QED BY <1>3, <1>4 DEF TypeOK

\* A web thread keeps the types.
LEMMA WebType == ASSUME TypeOK, NEW t \in Thread, Web(t) PROVE TypeOK'
<1>1. thread[t] \in Copy /\ Idle \in Copy /\ units \in SUBSET Unit
  BY DEF TypeOK, Copy, Idle
<1>2. CASE PatchRead(t)
  BY <1>1, <1>2 DEF PatchRead, poolrow, TypeOK, Copy
<1>3. CASE PatchSave(t)
  <2>1. [Idle EXCEPT !.op = "recount"] \in Copy
    BY DEF Idle, Copy
  <2>2. thread' \in [Thread -> Copy]
    BY <1>1, <1>3, <2>1 DEF PatchSave, TypeOK
  <2>3. PICK m \in Sizes : SaveCopy(thread[t].size, m)
    BY <1>3 DEF PatchSave
  <2>4. thread[t].size \in Nat
    BY <1>1 DEF Copy
  <2>5. pool' \in BOOLEAN /\ size' \in Nat /\ max' \in Sizes /\ lost' \in BOOLEAN
    BY <2>3, <2>4 DEF SaveCopy
  <2> QED BY <1>3, <2>2, <2>5 DEF PatchSave, TypeOK
<1>4. CASE RecountRead(t)
  BY <1>1, <1>4 DEF RecountRead, poolrow, TypeOK, Copy
<1>5. CASE RecountSave(t)
  <2>1. IsFiniteSet(units)
    BY <1>1, LedgerAssumption, FS_Subset
  <2>2. Cardinality(units) \in Nat
    BY <2>1, FS_CardinalityType
  <2>3. size' \in Nat
    BY <1>5, <2>2 DEF RecountSave, Recount, TypeOK
  <2> QED BY <1>1, <1>5, <2>3 DEF RecountSave, TypeOK
<1>6. CASE ForceDelete(t)
  BY <1>1, <1>6 DEF ForceDelete, poolrow, TypeOK, Copy
<1>7. CASE ForceUnit(t)
  <2>1. fin' \in [Chain -> Fin]
    <3>1. ASSUME NEW u \in thread[t].todo, Enqueue(u, TRUE) PROVE fin' \in [Chain -> Fin]
      <4>1. u \in Unit
        BY <1>1 DEF Copy
      <4> QED BY <3>1, <4>1, EnqueueType
    <3> QED BY <1>7, <3>1 DEF ForceUnit, TypeOK
  <2>2. thread' \in [Thread -> Copy]
    <3>1. CASE thread' = [thread EXCEPT ![t] = Idle]
      BY <1>1, <3>1 DEF TypeOK
    <3>2. ASSUME NEW u, thread' = [thread EXCEPT ![t].todo = @ \ {u}]
          PROVE  thread' \in [Thread -> Copy]
      BY <1>1, <3>2 DEF TypeOK, Copy
    <3> QED BY <1>7, <3>1, <3>2 DEF ForceUnit
  <2> QED BY <1>7, <2>1, <2>2 DEF ForceUnit, poolrow, TypeOK
<1> QED BY <1>2, <1>3, <1>4, <1>5, <1>6, <1>7 DEF Web

\* A finalizer keeps the types.
LEMMA FinalType == ASSUME TypeOK, FinsInOrder, NEW c \in Chain, Final(c) PROVE TypeOK'
<1>1. Finish(c) => fin' \in [Chain -> Fin]
  <2>1. fin[c] \in Fin
    BY DEF TypeOK
  <2>2. [fin[c] EXCEPT !.st = "done", !.left = 0] \in Fin
    BY <2>1 DEF Fin
  <2> QED BY <2>2 DEF Finish, TypeOK
<1>2. CASE Debit(c)
  <2>1. CASE CanDebit
    <3>1. size - 1 \in Nat
      BY <2>1 DEF CanDebit, TypeOK
    <3>2. fin' \in [Chain -> Fin]
      BY <1>2, <2>1, <3>1 DEF Debit, TypeOK, Fin
    <3> QED BY <1>2, <2>1, <3>1, <3>2 DEF Debit, TypeOK
  <2>2. CASE ~CanDebit
    BY <1>1, <1>2, <2>2 DEF Debit, TypeOK
  <2> QED BY <2>1, <2>2
<1>3. CASE CloseUnit(c)
  <2>1. fin' \in [Chain -> Fin]
    <3>1. [fin EXCEPT ![c].st = "purge"] \in [Chain -> Fin]
      BY DEF TypeOK, Fin
    <3> QED BY <1>1, <1>3, <3>1 DEF CloseUnit
  <2>2. units' \subseteq units /\ closed' \subseteq closed \cup {c}
    BY <1>3 DEF CloseUnit
  <2>3. c \in debits
    BY <1>3 DEF CloseUnit, FinsInOrder
  <2> QED BY <1>3, <2>1, <2>2, <2>3 DEF CloseUnit, poolrow, TypeOK
<1>4. CASE Purge(c)
  BY <1>1, <1>4 DEF Purge, DeleteRow, poolrow, TypeOK
<1> QED BY <1>2, <1>3, <1>4 DEF Final

\* Every variable keeps its type.
LEMMA TypeInductive == TypeOK /\ FinsInOrder /\ [Next]_vars => TypeOK'
<1> SUFFICES ASSUME TypeOK, FinsInOrder, [Next]_vars PROVE TypeOK'
  OBVIOUS
<1>1. CASE RequestCleanup
  <2>1. PICK u \in units : Enqueue(u, FALSE)
    BY <1>1 DEF RequestCleanup
  <2>2. u \in Unit
    BY DEF TypeOK
  <2>3. fin' \in [Chain -> Fin]
    BY <2>1, <2>2, EnqueueType
  <2> QED BY <1>1, <2>3 DEF RequestCleanup, poolrow, TypeOK
<1>2. CASE UNCHANGED vars
  BY <1>2 DEF vars, poolrow, TypeOK
<1> QED BY <1>1, <1>2, CreateType, CreateUnitsType, PoolType, WebType, FinalType DEF Next

-----------------------------------------------------------------------------
(* The order of a finalizer's steps *)

\* A chain that is queued for a unit has neither debited nor deleted it.
LEMMA EnqueueInOrder ==
    ASSUME TypeOK, FinsInOrder, NEW u \in Unit, NEW del, Enqueue(u, del),
           UNCHANGED <<debits, closed>>
    PROVE  FinsInOrder'
<1>1. PICK c \in Chain :
        /\ fin[c].st = "new"
        /\ fin' = [fin EXCEPT ![c].st = "queued", ![c].unit = u, ![c].del = del]
  BY DEF Enqueue
<1>2. fin'[c].st = "queued" /\ fin'[c].unit = u
  BY <1>1 DEF TypeOK, Fin
<1>3. \A d \in Chain \ {c} : fin'[d] = fin[d]
  BY <1>1 DEF TypeOK
<1>4. c \notin debits
  BY <1>1 DEF FinsInOrder
<1> QED BY <1>2, <1>3, <1>4 DEF FinsInOrder

\* The web threads queue cleanups and write the pool row, no more.
LEMMA WebQueues ==
    ASSUME TypeOK, NEW t \in Thread, Web(t)
    PROVE  /\ UNCHANGED <<debits, closed>>
           /\ fin' = fin \/ \E u \in Unit : Enqueue(u, TRUE)
<1>1. thread[t].todo \subseteq Unit
  BY DEF TypeOK, Copy
<1> QED BY <1>1 DEF Web, PatchRead, PatchSave, RecountRead, RecountSave, ForceDelete, ForceUnit

\* A finalizer debits the pool first and deletes its unit next.
LEMMA FinalInOrder ==
    ASSUME TypeOK, FinsInOrder, NEW c \in Chain, Final(c) PROVE FinsInOrder'
<1>1. fin[c] \in Fin
  BY DEF TypeOK
<1>2. \A d \in Chain \ {c} : fin'[d] = fin[d]
  BY DEF Final, Debit, CloseUnit, Purge, Finish, TypeOK
<1>3. fin'[c].unit = fin[c].unit
  BY <1>1 DEF Final, Debit, CloseUnit, Purge, Finish, TypeOK, Fin
<1>4. Finish(c) => fin'[c].st = "done"
  BY <1>1 DEF Finish, TypeOK, Fin
<1>5. fin[c].unit \in Unit
  BY DEF Final, Debit, CloseUnit, Purge, FinsInOrder
<1>6. CASE Debit(c)
  <2>1. CASE CanDebit
    <3>1. fin'[c].st = "debited" /\ debits' = debits \cup {c} /\ closed' = closed
      BY <1>1, <1>6, <2>1 DEF Debit, TypeOK, Fin
    <3>2. c \notin closed
      BY <1>6 DEF Debit, FinsInOrder, TypeOK
    <3> QED BY <1>2, <1>3, <1>5, <3>1, <3>2 DEF FinsInOrder
  <2>2. CASE ~CanDebit
    BY <1>2, <1>3, <1>4, <1>5, <1>6, <2>2 DEF Debit, FinsInOrder
  <2> QED BY <2>1, <2>2
<1>7. CASE CloseUnit(c)
  <2>1. fin'[c].st \in {"done", "purge"}
    BY <1>1, <1>4, <1>7 DEF CloseUnit, TypeOK, Fin
  <2>2. debits' = debits /\ closed' \subseteq closed \cup {c}
    BY <1>7 DEF CloseUnit
  <2> QED BY <1>2, <1>3, <1>5, <2>1, <2>2 DEF FinsInOrder
<1>8. CASE Purge(c)
  <2>1. UNCHANGED <<debits, closed>>
    BY <1>8 DEF Purge
  <2> QED BY <1>2, <1>3, <1>4, <1>5, <1>8, <2>1 DEF Purge, FinsInOrder
<1> QED BY <1>6, <1>7, <1>8 DEF Final

\* Every step keeps the order.
LEMMA OrderInductive == TypeOK /\ FinsInOrder /\ [Next]_vars => FinsInOrder'
<1> SUFFICES ASSUME TypeOK, FinsInOrder, [Next]_vars PROVE FinsInOrder'
  OBVIOUS
<1>1. CASE UNCHANGED <<fin, debits, closed>>
  BY <1>1 DEF FinsInOrder
<1>2. CASE RequestCleanup
  <2>1. PICK u \in units : Enqueue(u, FALSE)
    BY <1>2 DEF RequestCleanup
  <2>2. u \in Unit /\ UNCHANGED <<debits, closed>>
    BY <1>2 DEF TypeOK, RequestCleanup
  <2> QED BY <2>1, <2>2, EnqueueInOrder
<1>3. ASSUME NEW t \in Thread, Web(t) PROVE FinsInOrder'
  BY <1>1, <1>3, WebQueues, EnqueueInOrder
<1>4. CASE UNCHANGED vars
  BY <1>1, <1>4 DEF vars
<1> QED BY <1>1, <1>2, <1>3, <1>4, QuietSteps, FinalInOrder DEF Next

-----------------------------------------------------------------------------
(* The size *)

\* The units and the finalizers between their two steps can be counted.
LEMMA Countable ==
    ASSUME TypeOK
    PROVE  /\ IsFiniteSet(units) /\ Cardinality(units) \in Nat
           /\ IsFiniteSet(debits \ closed) /\ Cardinality(debits \ closed) \in Nat
<1>1. IsFiniteSet(units) /\ IsFiniteSet(debits \ closed)
  BY LedgerAssumption, FS_Subset DEF TypeOK
<1> QED BY <1>1, FS_CardinalityType

\* Units that go, and places that are added, never overbook the pool.
LEMMA SizeStays ==
    ASSUME TypeOK, TypeOK', SizeCoversUnits, UNCHANGED <<debits, closed>>,
           lost' \in BOOLEAN, ~lost' => ~lost /\ units' \subseteq units /\ size <= size'
    PROVE  SizeCoversUnits'
<1> SUFFICES ASSUME ~lost' PROVE Cardinality(units') <= size' + Cardinality(debits \ closed)
  BY DEF SizeCoversUnits
<1>1. Cardinality(units') <= Cardinality(units) /\ Cardinality(units') \in Nat
  BY Countable, FS_Subset, FS_CardinalityType
<1>2. Cardinality(units) <= size + Cardinality(debits \ closed)
  BY DEF SizeCoversUnits
<1>3. size \in Nat /\ size' \in Nat
  BY DEF TypeOK
<1> QED BY <1>1, <1>2, <1>3, Countable

\* Units are created together with their places.
LEMMA CreateUnitsSize ==
    ASSUME TypeOK, SizeCoversUnits, CreateUnits PROVE SizeCoversUnits'
<1> SUFFICES ASSUME ~lost' PROVE Cardinality(units') <= size' + Cardinality(debits \ closed)
  BY DEF SizeCoversUnits, CreateUnits
<1>1. PICK n \in Counts \cup {max - size}, S \in SUBSET (Unit \ used) :
        /\ Cardinality(S) = IF n > 0 THEN n ELSE 0
        /\ units' = units \cup S
        /\ size' = size + n
        /\ lost' = (lost \/ n < 0)
  BY DEF CreateUnits
<1>2. n \in Int /\ size \in Nat
  BY LedgerAssumption DEF TypeOK
<1>3. ~lost /\ n >= 0
  <2>1. ~lost /\ ~(n < 0)
    BY <1>1, Zenon
  <2> QED BY <1>2, <2>1
<1>4. IsFiniteSet(S) /\ Cardinality(S) = n
  <2>1. IsFiniteSet(S)
    BY LedgerAssumption, FS_Subset
  <2> QED BY <1>1, <1>2, <1>3, <2>1
<1>5. Cardinality(units \cup S) <= Cardinality(units) + n
  <2>1. Cardinality(units \cup S) = Cardinality(units) + Cardinality(S) - Cardinality(units \cap S)
    BY <1>4, Countable, FS_Union
  <2>2. Cardinality(units \cap S) \in Nat
    BY Countable, FS_Intersection, FS_CardinalityType
  <2> QED BY <1>2, <1>4, <2>1, <2>2, Countable
<1>6. Cardinality(units) <= size + Cardinality(debits \ closed)
  BY <1>3 DEF SizeCoversUnits
<1>7. Cardinality(units \cup S) \in Nat
  BY <1>4, Countable, FS_Union, FS_CardinalityType
<1> QED BY <1>1, <1>2, <1>5, <1>6, <1>7, Countable

\* A finalizer's debit is open until it has deleted its unit.
LEMMA FinalSize ==
    ASSUME TypeOK, TypeOK', FinsInOrder, SizeCoversUnits, NEW c \in Chain, Final(c)
    PROVE  SizeCoversUnits'
<1> DEFINE Open == debits \ closed
<1>0. size \in Nat /\ lost \in BOOLEAN /\ lost' = lost
  BY DEF TypeOK, Final, Debit, CloseUnit, Purge
<1>1. CASE Debit(c) /\ CanDebit
  <2>1. size' = size - 1 /\ debits' = debits \cup {c} /\ closed' = closed /\ units' = units
    BY <1>1 DEF Debit
  <2>2. c \notin debits /\ c \notin closed
    BY <1>1 DEF Debit, FinsInOrder, TypeOK
  <2>3. debits' \ closed' = Open \cup {c} /\ c \notin Open
    BY <2>1, <2>2
  <2>4. Cardinality(Open \cup {c}) = Cardinality(Open) + 1
    BY <2>3, Countable, FS_AddElement
  <2>5. size' + Cardinality(debits' \ closed') = size + Cardinality(Open)
    BY <1>0, <2>1, <2>3, <2>4, Countable
  <2> QED BY <1>0, <2>1, <2>5 DEF SizeCoversUnits
<1>2. CASE CloseUnit(c) /\ units' # units
  <2> DEFINE u == fin[c].unit
  <2>1. u \in units /\ units' = units \ {u} /\ closed' = closed \cup {c}
    BY <1>2 DEF CloseUnit
  <2>2. c \in Open
    BY <1>2 DEF CloseUnit, FinsInOrder
  <2>3. debits' = debits /\ size' = size
    BY <1>2 DEF CloseUnit, poolrow
  <2>4. debits' \ closed' = Open \ {c}
    BY <2>1, <2>3
  <2>5. Cardinality(Open \ {c}) = Cardinality(Open) - 1
    BY <2>2, Countable, FS_RemoveElement
  <2>6. Cardinality(units \ {u}) = Cardinality(units) - 1
    BY <2>1, Countable, FS_RemoveElement
  <2> HIDE DEF u
  <2>7. ~lost => Cardinality(units) <= size + Cardinality(Open)
    BY DEF SizeCoversUnits
  <2>8. ~lost => Cardinality(units') <= size' + Cardinality(debits' \ closed')
    BY <1>0, <2>1, <2>3, <2>4, <2>5, <2>6, <2>7, Countable
  <2> QED BY <1>0, <2>8 DEF SizeCoversUnits
<1>3. CASE ~(Debit(c) /\ CanDebit) /\ ~(CloseUnit(c) /\ units' # units)
  <2>1. UNCHANGED <<debits, size>> /\ units' = units
    BY <1>3 DEF Final, Debit, CloseUnit, Purge, DeleteRow, poolrow
  <2>2. closed' = closed
    BY <1>3 DEF Final, Debit, CloseUnit, Purge
  <2> QED BY <1>0, <2>1, <2>2 DEF SizeCoversUnits
<1> QED BY <1>1, <1>2, <1>3

\* Every step keeps the size in line with the units.
LEMMA SizeInductive ==
    TypeOK /\ TypeOK' /\ FinsInOrder /\ SizeCoversUnits /\ [Next]_vars => SizeCoversUnits'
<1> SUFFICES ASSUME TypeOK, TypeOK', FinsInOrder, SizeCoversUnits, [Next]_vars
             PROVE  SizeCoversUnits'
  OBVIOUS
<1>1. size \in Nat /\ lost' \in BOOLEAN
  BY DEF TypeOK
<1>2. CASE UNCHANGED <<units, size, debits, closed, lost>>
  BY <1>2 DEF SizeCoversUnits
<1>3. ASSUME NEW s \in Nat, NEW m, SaveCopy(s, m), UNCHANGED <<units, debits, closed>>
      PROVE  SizeCoversUnits'
  <2>1. ~lost' => ~lost /\ ~(s < size) /\ size' = s
    BY <1>3 DEF SaveCopy
  <2>2. ~(s < size) => size <= s
    BY <1>1
  <2> QED BY <1>1, <1>3, <2>1, <2>2, SizeStays
<1>4. CASE Create
  BY <1>2, <1>3, <1>4 DEF Create, CreateInvalid, CreateSave, CreateKeypair, DeleteRow, poolrow
<1>5. CASE PatchUnit
  <2>1. lost' = TRUE
    BY <1>5 DEF PatchUnit
  <2> QED BY <2>1 DEF SizeCoversUnits
<1>6. CASE RequestCleanup \/ LockPool \/ UnlockPool \/ DeletePool \/ DeleteKeys
  BY <1>2, <1>6 DEF RequestCleanup, LockPool, UnlockPool, DeletePool, DeleteRow, DeleteKeys,
       poolrow
<1>7. ASSUME NEW t \in Thread, Web(t) PROVE SizeCoversUnits'
  <2>1. CASE PatchSave(t)
    <3>1. thread[t].size \in Nat
      BY DEF TypeOK, Copy
    <3> QED BY <1>3, <2>1, <3>1 DEF PatchSave
  <2>2. CASE RecountSave(t)
    <3>1. CASE pool
      <4>1. size' = Cardinality(units) /\ units' = units /\ UNCHANGED <<debits, closed>>
        BY <2>2, <3>1 DEF RecountSave, Recount
      <4>2. Cardinality(units) <= Cardinality(units) + Cardinality(debits \ closed)
        BY Countable
      <4> QED BY <4>1, <4>2 DEF SizeCoversUnits
    <3>2. CASE ~pool
      BY <1>2, <2>2, <3>2 DEF RecountSave
    <3> QED BY <3>1, <3>2
  <2>3. CASE PatchRead(t) \/ RecountRead(t) \/ ForceDelete(t) \/ ForceUnit(t)
    BY <1>2, <2>3 DEF PatchRead, RecountRead, ForceDelete, ForceUnit, poolrow
  <2> QED BY <1>7, <2>1, <2>2, <2>3 DEF Web
<1>8. CASE UNCHANGED vars
  BY <1>2, <1>8 DEF vars, poolrow
<1> QED BY <1>4, <1>5, <1>6, <1>7, <1>8, CreateUnitsSize, FinalSize DEF Next

-----------------------------------------------------------------------------
(* The key-pairs *)

\* Every step keeps what is known of a pool without key-pairs.
LEMMA KeysInductive == TypeOK /\ KeysInv /\ [Next]_vars => KeysInv'
<1> SUFFICES ASSUME TypeOK, KeysInv, [Next]_vars PROVE KeysInv'
  OBVIOUS
<1>1. CASE UNCHANGED <<lost, reaping, keys, phase, pool>> /\ units' \subseteq units
  BY <1>1 DEF KeysInv
<1>2. ASSUME NEW s, NEW m, SaveCopy(s, m), UNCHANGED <<reaping, keys, units>>,
             phase' = phase \/ phase' # "open"
      PROVE  KeysInv'
  <2>1. ~lost' => ~lost /\ pool /\ pool'
    BY <1>2 DEF SaveCopy
  <2> QED BY <1>2, <2>1 DEF KeysInv
<1>3. CASE Create
  <2>1. CASE CreateInvalid
    <3>1. phase' # "open" /\ (pool' => pool) /\ UNCHANGED <<reaping, units, lost>>
      BY <2>1 DEF CreateInvalid
    <3> QED BY <3>1 DEF KeysInv
  <2>2. CASE CreateSave
    <3>1. phase' # "open" /\ UNCHANGED <<reaping, keys, units>>
      BY <2>2 DEF CreateSave
    <3> QED BY <1>2, <2>2, <3>1 DEF CreateSave
  <2>3. CASE CreateKeypair
    <3>1. UNCHANGED <<units, lost>>
      BY <2>3 DEF CreateKeypair
    <3>2. CASE phase' = "open"
      BY <2>3, <3>1, <3>2 DEF CreateKeypair, KeysInv, poolrow
    <3>3. CASE phase' # "open"
      BY <2>3, <3>1, <3>3 DEF CreateKeypair, Deletable, DeleteRow, KeysInv, poolrow
    <3> QED BY <3>2, <3>3
  <2> QED BY <1>3, <2>1, <2>2, <2>3 DEF Create
<1>4. CASE CreateUnits
  <2>1. pool /\ pool' = pool /\ UNCHANGED <<phase, keys, reaping>>
    BY <1>4 DEF CreateUnits
  <2>2. ~lost' => ~lost
    BY <1>4 DEF CreateUnits
  <2> QED BY <2>1, <2>2 DEF KeysInv
<1>5. CASE PatchUnit
  BY <1>5 DEF PatchUnit, KeysInv
<1>6. CASE RequestCleanup \/ LockPool \/ UnlockPool
  BY <1>1, <1>6 DEF RequestCleanup, LockPool, UnlockPool, poolrow
<1>7. ASSUME Deletable, DeleteRow, UNCHANGED <<phase, keys, units, lost>> PROVE KeysInv'
  BY <1>7 DEF Deletable, DeleteRow, KeysInv
<1>8. CASE DeletePool
  BY <1>7, <1>8 DEF DeletePool
<1>9. CASE DeleteKeys
  BY <1>9 DEF DeleteKeys, KeysInv, poolrow
<1>10. ASSUME NEW t \in Thread, Web(t) PROVE KeysInv'
  <2>1. CASE PatchSave(t)
    BY <1>2, <2>1 DEF PatchSave
  <2>2. CASE PatchRead(t) \/ RecountRead(t) \/ RecountSave(t) \/ ForceDelete(t) \/ ForceUnit(t)
    BY <1>1, <2>2 DEF PatchRead, RecountRead, RecountSave, ForceDelete, ForceUnit, poolrow
  <2> QED BY <1>10, <2>1, <2>2 DEF Web
<1>11. ASSUME NEW c \in Chain, Final(c) PROVE KeysInv'
  <2>1. CASE Debit(c)
    BY <1>1, <2>1 DEF Debit
  <2>2. CASE CloseUnit(c)
    BY <1>1, <2>2 DEF CloseUnit, poolrow
  <2>3. CASE Purge(c)
    BY <1>1, <1>7, <2>3 DEF Purge, poolrow
  <2> QED BY <1>11, <2>1, <2>2, <2>3 DEF Final
<1>12. CASE UNCHANGED vars
  BY <1>1, <1>12 DEF vars, poolrow
<1> QED BY <1>3, <1>4, <1>5, <1>6, <1>8, <1>9, <1>10, <1>11, <1>12 DEF Next

-----------------------------------------------------------------------------
(* Theorems *)

\* The invariant holds when create_pool has inserted the row.
LEMMA LedgerInitially == Init => LedgerInv
<1> SUFFICES ASSUME Init PROVE LedgerInv
  OBVIOUS
<1>1. TypeOK
  <2>1. Idle \in Copy
    BY DEF Idle, Copy
  <2>2. [st |-> "new", unit |-> None, del |-> FALSE, left |-> 0] \in Fin
    BY DEF Fin
  <2> QED BY <2>1, <2>2 DEF Init, TypeOK
<1>2. FinsInOrder
  BY DEF Init, FinsInOrder
<1>3. SizeCoversUnits
  <2>1. units = {} /\ size = 0 /\ debits \ closed = {}
    BY DEF Init
  <2> QED BY <2>1, FS_EmptySet DEF SizeCoversUnits
<1>4. KeysInv
  BY DEF Init, KeysInv
<1> QED BY <1>1, <1>2, <1>3, <1>4 DEF LedgerInv

\* And always after.
LEMMA LedgerAlways == Spec => []LedgerInv
<1>1. LedgerInv /\ [Next]_vars => LedgerInv'
  BY TypeInductive, OrderInductive, SizeInductive, KeysInductive DEF LedgerInv
<1> QED BY <1>1, LedgerInitially, PTL DEF Spec

(* The ledger keeps its types: the unsigned size never drops below 0, and   *)
(* only chains that debited the pool delete a unit.                         *)
THEOREM TypeCorrect == Spec => []TypeOK
<1>1. LedgerInv => TypeOK
  BY DEF LedgerInv
<1> QED BY <1>1, LedgerAlways, PTL

(* The pool is only overbooked by a stale copy of its row, a negative count *)
(* or a unit that is saved again after its deletion.                        *)
THEOREM SizeTheorem == Spec => []SizeCoversUnits
<1>1. LedgerInv => SizeCoversUnits
  BY DEF LedgerInv
<1> QED BY <1>1, LedgerAlways, PTL

(* Units never stay behind in a pool whose key-pairs were deleted.          *)
THEOREM KeysTheorem == Spec => []KeysOutliveUnits
<1>1. LedgerInv => KeysOutliveUnits
  BY DEF LedgerInv, KeysInv, KeysOutliveUnits
<1> QED BY <1>1, LedgerAlways, PTL

-----------------------------------------------------------------------------
(* Refinement *)

\* Each step does one thing to the accounts, or nothing at all.
LEMMA AccountSteps ==
    ASSUME TypeOK, FinsInOrder, [Next]_vars
    PROVE  \/ /\ UNCHANGED <<debits, closed>>
              /\ \A c \in debits : fin'[c].unit = fin[c].unit
           \/ \E c \in Chain : Final(c) /\ \A d \in Chain : fin'[d].unit = fin[d].unit
<1> DEFINE Quiet == /\ UNCHANGED <<debits, closed>>
                    /\ \A c \in debits : fin'[c].unit = fin[c].unit
<1>1. CASE UNCHANGED <<fin, debits, closed>>
  BY <1>1
<1>2. ASSUME NEW u, NEW del, Enqueue(u, del), UNCHANGED <<debits, closed>> PROVE Quiet
  <2>1. PICK c \in Chain :
          /\ fin[c].st = "new"
          /\ fin' = [fin EXCEPT ![c].st = "queued", ![c].unit = u, ![c].del = del]
    BY <1>2 DEF Enqueue
  <2>2. c \notin debits /\ debits \subseteq Chain
    BY <2>1 DEF FinsInOrder, TypeOK
  <2> QED BY <1>2, <2>1, <2>2 DEF TypeOK
<1>3. CASE RequestCleanup
  BY <1>2, <1>3 DEF RequestCleanup
<1>4. ASSUME NEW t \in Thread, Web(t) PROVE Quiet
  BY <1>1, <1>2, <1>4, WebQueues
<1>5. ASSUME NEW c \in Chain, Final(c)
      PROVE  \E e \in Chain : Final(e) /\ \A d \in Chain : fin'[d].unit = fin[d].unit
  <2>1. fin[c] \in Fin
    BY DEF TypeOK
  <2>2. \A d \in Chain : fin'[d].unit = fin[d].unit
    BY <1>5, <2>1 DEF Final, Debit, CloseUnit, Purge, Finish, TypeOK, Fin
  <2> QED BY <1>5, <2>2
<1>6. CASE UNCHANGED vars
  BY <1>1, <1>6 DEF vars
<1>7. CASE \/ Create \/ PatchUnit \/ LockPool \/ UnlockPool \/ DeletePool \/ DeleteKeys
           \/ CreateUnits
  BY <1>1, <1>7, QuietSteps
<1> QED BY <1>3, <1>4, <1>5, <1>6, <1>7 DEF Next

(* Each unit's account is kept: its deletion comes after a debit for it, no *)
(* chain debits twice, and the account is never touched otherwise.          *)
THEOREM AccountRefinement == Spec => AccountsKept
<1> DEFINE Booked == [u \in Unit |-> {c \in debits : fin[c].unit = u}]
<1>1. Init => Account!Init
  BY DEF Init, Account!Init, Closed
<1>2. LedgerInv /\ LedgerInv' /\ [Next]_vars => [Account!Next]_(Account!vars)
  <2> SUFFICES ASSUME LedgerInv, LedgerInv', [Next]_vars PROVE [Account!Next]_(Account!vars)
    OBVIOUS
  <2>1. TypeOK /\ FinsInOrder /\ closed \subseteq debits /\ debits \subseteq Chain
    BY DEF LedgerInv, TypeOK
  <2>2. CASE /\ UNCHANGED <<debits, closed>>
             /\ \A c \in debits : fin'[c].unit = fin[c].unit
    <3>1. Closed' = Closed
      BY <2>1, <2>2 DEF Closed
    <3>2. Booked' = Booked
      BY <2>2
    <3> QED BY <3>1, <3>2 DEF Account!vars
  <2>3. ASSUME NEW c \in Chain, Final(c), \A d \in Chain : fin'[d].unit = fin[d].unit
        PROVE  [Account!Next]_(Account!vars)
    <3>1. PICK u \in Unit : u = fin[c].unit
      BY <2>1, <2>3 DEF Final, Debit, CloseUnit, Purge, FinsInOrder
    <3>2. closed' = closed => Closed' = Closed
      BY <2>1, <2>3 DEF Closed
    <3>3. CASE Debit(c) /\ CanDebit
      <4>1. debits' = debits \cup {c} /\ closed' = closed
        BY <3>3 DEF Debit
      <4>2. c \notin debits
        BY <2>1, <3>3 DEF Debit, FinsInOrder
      <4>3. Booked' = [Booked EXCEPT ![u] = @ \cup {c}]
        BY <2>1, <2>3, <3>1, <4>1
      <4>4. \A v \in Unit : c \notin Booked[v]
        BY <4>2
      <4>5. Account!Debit(u, c)
        BY <3>2, <4>1, <4>3, <4>4 DEF Account!Debit
      <4> QED BY <3>1, <4>5 DEF Account!Next
    <3>4. CASE CloseUnit(c) /\ closed' # closed
      <4>1. closed' = closed \cup {c} /\ debits' = debits
        BY <3>4 DEF CloseUnit
      <4>2. c \in Booked[u]
        BY <2>1, <3>1, <3>4 DEF CloseUnit, FinsInOrder
      <4>3. Closed' = Closed \cup {u}
        <5>1. Closed' = {fin'[d].unit : d \in closed'}
          BY DEF Closed
        <5>2. \A d \in closed' : fin'[d].unit = fin[d].unit
          BY <2>1, <2>3, <4>1
        <5>3. Closed' = {fin[d].unit : d \in closed \cup {c}}
          BY <4>1, <5>1, <5>2
        <5> QED BY <3>1, <5>3 DEF Closed
      <4>4. Booked' = Booked
        BY <2>1, <2>3, <4>1
      <4>5. CASE u \in Closed
        BY <4>3, <4>4, <4>5 DEF Account!vars
      <4>6. CASE u \notin Closed
        <5>1. Account!Close(u, c)
          BY <4>2, <4>3, <4>4, <4>6 DEF Account!Close
        <5> QED BY <3>1, <5>1 DEF Account!Next
      <4> QED BY <4>5, <4>6
    <3>5. CASE UNCHANGED <<debits, closed>>
      BY <2>1, <2>2, <2>3, <3>5
    <3>6. \/ Debit(c) /\ CanDebit
          \/ CloseUnit(c) /\ closed' # closed
          \/ UNCHANGED <<debits, closed>>
      BY <2>3 DEF Final, Debit, CloseUnit, Purge
    <3> QED BY <3>3, <3>4, <3>5, <3>6
  <2> QED BY <2>1, <2>2, <2>3, AccountSteps
<1> QED BY <1>1, <1>2, LedgerAlways, PTL DEF Spec, AccountsKept, Account!Spec
=============================================================================

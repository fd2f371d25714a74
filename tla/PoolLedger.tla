----------------------------- MODULE PoolLedger -----------------------------
(***************************************************************************)
(* One pool: its row, whose `size` counts allocation units next to the     *)
(* units themselves, and everybody who writes that row.  Creation and the  *)
(* finalizers of cleanup chains take the row lock (select_for_update);     *)
(* create_pool and PATCH save a copy of the whole row they read earlier.   *)
(***************************************************************************)
EXTENDS Integers, FiniteSets

CONSTANTS
    Unit,       \* allocation units that may be created
    Chain,      \* cleanup chains, each for one unit
    Thread,     \* web threads that hold a copy of the pool across two steps
    Counts,     \* what a client may send as ?count=
    Sizes,      \* what a client may send as max_size
    None        \* no unit

ASSUME LedgerAssumption ==
    /\ IsFiniteSet(Unit) /\ IsFiniteSet(Chain)
    /\ Counts \subseteq Int
    /\ Sizes \subseteq Nat \ {0}        \* validate_max_size

VARIABLES
    phase,   \* how far create_pool is
    pool,    \* the Pool row exists
    size,    \* Pool.size
    max,     \* Pool.max_size
    locked,  \* a PoolLock row points at the pool
    keys,    \* the management key-pairs exist in the cloud
    reaping, \* delete_pool has deleted the row, the key-pairs are next
    units,   \* the allocation unit rows
    used,    \* the unit keys handed out so far
    fin,     \* the finalizers of the cleanup chains
    thread,  \* the web threads
    debits,  \* history: chains that decremented size
    closed,  \* history: chains that then deleted their unit
    lost     \* history: a write took places off `size` that units still use,
             \* or inserted a deleted row again

poolrow == <<pool, size, max>>
vars == <<phase, poolrow, locked, keys, reaping, units, used, fin, thread,
          debits, closed, lost>>

(* A finalizer: the unit of its chain, whether the pool goes with its last *)
(* unit, and the size it wrote.                                            *)
Fin == [st : {"new", "queued", "debited", "purge", "done"},
        unit : Unit \cup {None}, del : BOOLEAN, left : Nat]

(* A web thread: the size in its copy of the row (it may save any max_size  *)
(* the client sends), and the units it has left to clean up.               *)
Copy == [op : {"idle", "patch", "recount", "force"}, size : Nat, todo : SUBSET Unit]
Idle == [op |-> "idle", size |-> 0, todo |-> {}]

TypeOK ==
    /\ phase \in {"validate", "keypair", "open", "failed"}
    /\ pool \in BOOLEAN /\ size \in Nat /\ max \in Sizes
    /\ locked \in BOOLEAN /\ keys \in BOOLEAN /\ reaping \in BOOLEAN
    /\ units \in SUBSET used /\ used \in SUBSET Unit
    /\ fin \in [Chain -> Fin]
    /\ thread \in [Thread -> Copy]
    /\ debits \in SUBSET Chain /\ closed \in SUBSET debits
    /\ lost \in BOOLEAN

(* create_pool has inserted the row; nothing is validated yet.             *)
Init ==
    /\ phase = "validate"
    /\ pool = TRUE /\ size = 0 /\ max \in Sizes
    /\ locked = FALSE /\ keys = FALSE /\ reaping = FALSE
    /\ units = {} /\ used = {}
    /\ fin = [c \in Chain |-> [st |-> "new", unit |-> None, del |-> FALSE, left |-> 0]]
    /\ thread = [t \in Thread |-> Idle]
    /\ debits = {} /\ closed = {} /\ lost = FALSE

-----------------------------------------------------------------------------
(* The pool row *)

\* Mutant: units do not protect their pool.
DeletableIfUnlocked == ~locked

\* PROTECT: a lock or a unit refuses the deletion of the row.
Deletable == units = {} /\ ~locked

(* pool.save() of a copy: an update of every column, or, when the row is   *)
(* gone, an insert.                                                        *)
SaveCopy(s, m) ==
    /\ pool' = TRUE /\ size' = s /\ max' = m
    /\ lost' = (lost \/ s < size \/ ~pool)

(* delete_pool: first the row, then the key-pairs.                         *)
DeleteRow ==
    /\ pool' = FALSE /\ reaping' = TRUE
    /\ UNCHANGED <<size, max>>

(* The key-pairs go; a failure is only logged.                             *)
DeleteKeys ==
    /\ reaping
    /\ reaping' = FALSE
    /\ keys' \in {keys, FALSE}
    /\ UNCHANGED <<phase, poolrow, locked, units, used, fin, thread, debits, closed, lost>>

-----------------------------------------------------------------------------
(* create_pool *)

(* The definition is invalid: the bare row is deleted if nothing holds it. *)
CreateInvalid ==
    /\ phase = "validate"
    /\ phase' = "failed"
    /\ pool' = (pool /\ ~Deletable)
    /\ UNCHANGED <<size, max, locked, keys, reaping, units, used, fin, thread, debits, closed, lost>>

(* The generated keys are saved with the copy made at the start.           *)
CreateSave ==
    /\ phase = "validate"
    /\ phase' = "keypair"
    /\ \E m \in Sizes : SaveCopy(0, m)
    /\ UNCHANGED <<locked, keys, reaping, units, used, fin, thread, debits, closed>>

CreateKeypair ==
    /\ phase = "keypair"
    /\ \/ /\ phase' = "open"
          /\ keys' = TRUE
          /\ UNCHANGED <<poolrow, reaping>>
       \/ /\ phase' = "failed"
          /\ keys' \in BOOLEAN          \* one of the two may have been made
          /\ IF Deletable THEN DeleteRow ELSE UNCHANGED <<poolrow, reaping>>
    /\ UNCHANGED <<locked, units, used, fin, thread, debits, closed, lost>>

-----------------------------------------------------------------------------
(* Requests *)

(* create_sandboxes_in_pool, one transaction under the row lock.  Without  *)
(* ?count= it fills the pool up.  The column is unsigned.                  *)
CreateUnits ==
    /\ pool
    /\ \E n \in Counts \cup {max - size} :
          /\ size + n <= max /\ size + n >= 0
          /\ \E S \in SUBSET (Unit \ used) :
                /\ Cardinality(S) = IF n > 0 THEN n ELSE 0
                /\ units' = units \cup S
                /\ used' = used \cup S
          /\ size' = size + n
          /\ lost' = (lost \/ n < 0)
    /\ UNCHANGED <<phase, pool, max, locked, keys, reaping, fin, thread, debits, closed>>

(* PATCH: the row is read, then saved as a whole with the new max_size.    *)
PatchRead(t) ==
    /\ pool /\ thread[t].op = "idle"
    /\ thread' = [thread EXCEPT ![t].op = "patch", ![t].size = size]
    /\ UNCHANGED <<phase, poolrow, locked, keys, reaping, units, used, fin, debits, closed, lost>>

(* The answer is serialized from the copy, and get_size counts the units   *)
(* again when that copy says 0.                                            *)
PatchSave(t) ==
    /\ thread[t].op = "patch"
    /\ \E m \in Sizes : SaveCopy(thread[t].size, m)
    /\ thread' = [thread EXCEPT ![t] =
                    IF @.size = 0 THEN [Idle EXCEPT !.op = "recount"] ELSE Idle]
    /\ UNCHANGED <<phase, locked, keys, reaping, units, used, fin, debits, closed>>

\* Mutant: units that are about to be cleaned up are not counted.
RecountIdle == Cardinality({u \in units : \A c \in Chain : fin[c].unit # u})

Recount == Cardinality(units)

(* get_size of any listing that shows the pool: 0 was read, so count.      *)
RecountRead(t) ==
    /\ pool /\ size = 0 /\ thread[t].op = "idle"
    /\ thread' = [thread EXCEPT ![t].op = "recount"]
    /\ UNCHANGED <<phase, poolrow, locked, keys, reaping, units, used, fin, debits, closed, lost>>

RecountSave(t) ==
    /\ thread[t].op = "recount"
    /\ size' = IF pool THEN Recount ELSE size
    /\ thread' = [thread EXCEPT ![t] = Idle]
    /\ UNCHANGED <<phase, pool, max, locked, keys, reaping, units, used, fin, debits, closed, lost>>

LockPool ==
    /\ pool /\ ~locked
    /\ locked' = TRUE
    /\ UNCHANGED <<phase, poolrow, keys, reaping, units, used, fin, thread, debits, closed, lost>>

UnlockPool ==
    /\ locked
    /\ locked' = FALSE
    /\ UNCHANGED <<phase, poolrow, keys, reaping, units, used, fin, thread, debits, closed, lost>>

(* DELETE of the pool; with ?force=true only when the size is 0.           *)
DeletePool ==
    /\ pool /\ Deletable
    /\ DeleteRow
    /\ UNCHANGED <<phase, locked, keys, units, used, fin, thread, debits, closed, lost>>

(* DELETE with ?force=true: a forced cleanup request for every unit.       *)
ForceDelete(t) ==
    /\ pool /\ size > 0 /\ thread[t].op = "idle"
    /\ thread' = [thread EXCEPT ![t].op = "force", ![t].todo = units]
    /\ UNCHANGED <<phase, poolrow, locked, keys, reaping, units, used, fin, debits, closed, lost>>

\* The units that were deleted by a finalizer.
Closed == {fin[c].unit : c \in closed}

(* A unit inserted again has no allocation request: its cleanup is refused. *)
Enqueue(u, del) ==
    /\ u \notin Closed
    /\ \E c \in Chain :
          /\ fin[c].st = "new"
          /\ fin' = [fin EXCEPT ![c].st = "queued", ![c].unit = u, ![c].del = del]

(* One unit of the loop: queued, skipped as already being cleaned up, or   *)
(* refused, which ends the loop.                                           *)
ForceUnit(t) ==
    /\ thread[t].op = "force"
    /\ IF thread[t].todo = {}
       THEN thread' = [thread EXCEPT ![t] = Idle] /\ UNCHANGED fin
       ELSE \E u \in thread[t].todo :
              \/ /\ Enqueue(u, TRUE)
                 /\ thread' = [thread EXCEPT ![t].todo = @ \ {u}]
              \/ /\ thread' = [thread EXCEPT ![t].todo = @ \ {u}]
                 /\ \E c \in Chain : fin[c].unit = u /\ fin[c].st = "queued"
                 /\ UNCHANGED fin
              \/ /\ thread' = [thread EXCEPT ![t] = Idle]
                 /\ UNCHANGED fin
    /\ UNCHANGED <<phase, poolrow, locked, keys, reaping, units, used, debits, closed, lost>>

(* A cleanup request for one unit.                                         *)
RequestCleanup ==
    /\ \E u \in units : Enqueue(u, FALSE)
    /\ UNCHANGED <<phase, poolrow, locked, keys, reaping, units, used, thread, debits, closed, lost>>

(* PATCH of a unit's comment saves the row that was read; a unit deleted    *)
(* since then is inserted again, without its requests, and not counted.     *)
PatchUnit ==
    /\ pool
    /\ \E u \in used \ units : units' = units \cup {u}
    /\ lost' = TRUE
    /\ UNCHANGED <<phase, poolrow, locked, keys, reaping, used, fin, thread, debits, closed>>

-----------------------------------------------------------------------------
(* _delete_allocation_unit, the finalizer of a cleanup chain *)

Finish(c) == fin' = [fin EXCEPT ![c].st = "done", ![c].left = 0]

\* Mutant: the unsigned column is not checked.
CanDebitBelowZero == pool

CanDebit == pool /\ size > 0

\* Mutant: when the size cannot be decremented the unit is deleted anyway.
DebitIfPossible(c) ==
    /\ fin[c].st = "queued"
    /\ fin' = [fin EXCEPT ![c].st = "debited"]
    /\ IF CanDebit
       THEN size' = size - 1 /\ debits' = debits \cup {c}
       ELSE UNCHANGED <<size, debits>>
    /\ UNCHANGED <<phase, pool, max, locked, keys, reaping, units, used, thread, closed, lost>>

(* First transaction; at 0 the column refuses, without the row it fails.   *)
Debit(c) ==
    /\ fin[c].st = "queued"
    /\ IF CanDebit
       THEN /\ size' = size - 1
            /\ fin' = [fin EXCEPT ![c].st = "debited", ![c].left = size - 1]
            /\ debits' = debits \cup {c}
       ELSE Finish(c) /\ UNCHANGED <<size, debits>>
    /\ UNCHANGED <<phase, pool, max, locked, keys, reaping, units, used, thread, closed, lost>>

(* The unit is deleted, unless its sandbox has come back and protects it   *)
(* (see UnitLifecycle) or the worker dies here.                            *)
CloseUnit(c) ==
    /\ fin[c].st = "debited"
    /\ \/ /\ units' = units \ {fin[c].unit}
          /\ closed' = IF fin[c].unit \in units THEN closed \cup {c} ELSE closed
          /\ IF fin[c].del /\ fin[c].left = 0
             THEN fin' = [fin EXCEPT ![c].st = "purge"] ELSE Finish(c)
       \/ Finish(c) /\ UNCHANGED <<units, closed>>
    /\ UNCHANGED <<phase, poolrow, locked, keys, reaping, used, thread, debits, lost>>

(* The last finalizer of a forced deletion deletes the pool, if it may.    *)
Purge(c) ==
    /\ fin[c].st = "purge"
    /\ Finish(c)
    /\ IF Deletable THEN DeleteRow ELSE UNCHANGED <<poolrow, reaping>>
    /\ UNCHANGED <<phase, locked, keys, units, used, thread, debits, closed, lost>>

-----------------------------------------------------------------------------
Create  == CreateInvalid \/ CreateSave \/ CreateKeypair
Web(t)  == PatchRead(t) \/ PatchSave(t) \/ RecountRead(t) \/ RecountSave(t)
           \/ ForceDelete(t) \/ ForceUnit(t)
Final(c) == Debit(c) \/ CloseUnit(c) \/ Purge(c)

Next ==
    \/ Create
    \/ CreateUnits
    \/ RequestCleanup
    \/ PatchUnit
    \/ LockPool
    \/ UnlockPool
    \/ DeletePool
    \/ DeleteKeys
    \/ \E t \in Thread : Web(t)
    \/ \E c \in Chain : Final(c)

Spec == Init /\ [][Next]_vars

-----------------------------------------------------------------------------
(* Properties *)

(* The size falls short of the units only by what finalizers that have not *)
(* deleted their unit took off it; whoever overbooks the pool otherwise    *)
(* wrote a stale copy of the row or asked for a negative number of units.  *)
SizeCoversUnits ==
    ~lost => Cardinality(units) <= size + Cardinality(debits \ closed)

(* Units are never left behind in a pool whose key-pairs were deleted: the *)
(* row goes first, and nothing but a stale copy brings it back.            *)
KeysOutliveUnits == phase = "open" /\ units # {} /\ ~lost => keys

(* Every unit keeps the account its cleanup chains promise (UnitAccount).  *)
Account == INSTANCE UnitAccount WITH
    gone <- Closed,
    debited <- [u \in Unit |-> {c \in debits : fin[c].unit = u}]
AccountsKept == Account!Spec

(* "Maximum amount of Allocation Units associated with this pool."         *)
(* (models.py:29): no more units than max_size.                            *)
WithinMaxSize == Cardinality(units) <= max

(* 'Pool deleted from DB by final cleanup finishing'                       *)
(* (request_handlers.py:506): when a forced deletion has cleaned up every  *)
(* unit and all finalizers are done, the pool is gone.                     *)
ForcedPoolGone ==
    /\ used # {} /\ units = {} /\ ~locked
    /\ \A c \in Chain : fin[c].st = "done" /\ fin[c].del
    => ~pool
=============================================================================

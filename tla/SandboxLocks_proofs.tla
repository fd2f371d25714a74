------------------------ MODULE SandboxLocks_proofs ------------------------
(* Theorems about SandboxLocks, for every set of sandboxes, users and web  *)
(* threads.                                                                *)
EXTENDS SandboxLocks, FiniteSetTheorems, WellFoundedInduction, TLAPS

-----------------------------------------------------------------------------
(* The invariant *)

(* What a request in progress looks like: only the locking requests hold    *)
(* or await rows, and the sandbox picked is one whose row is held.          *)
Shape == \A t \in Thread :
    /\ thread[t].at # "check" => thread[t].op \in {"get", "direct"}
    /\ thread[t].at = "check" => thread[t].rows = {} /\ thread[t].got = {}
    /\ thread[t].at = "insert" => thread[t].pick \subseteq thread[t].got

(* The row locks are those of the rows each request has got.                *)
RowsHeld == \A t \in Thread, s \in Sandbox : s \in thread[t].got <=> held[s] = t

(* A row that is held is still the row that was selected.                   *)
StillSelected == \A t \in Thread : \A s \in thread[t].got :
    row[s] # "absent" /\ (thread[t].op = "get" => row[s] = "ready")

(* The sandbox picked is not locked: its row is held, and a lock is only    *)
(* inserted by whoever holds the row.                                       *)
PickIsFree == \A t \in Thread : thread[t].at = "insert" =>
    \A s \in thread[t].pick : lock[s] = Nobody

(* The rows a request has got come before those it waits for.               *)
InOrder == \A t \in Thread : \A r \in thread[t].rows, g \in thread[t].got : g < r

(* A lock has its sandbox.                                                  *)
LockHasRow == \A s \in Sandbox : lock[s] # Nobody => row[s] # "absent"

LocksInv ==
    TypeOK /\ Shape /\ RowsHeld /\ StillSelected /\ PickIsFree /\ InOrder /\ LockHasRow

-----------------------------------------------------------------------------
(* Types *)

\* No request is a request like any other.
LEMMA IdleType == Idle \in Request
BY DEF Idle, Request, Owner

\* Every variable keeps its type.
LEMMA TypeInductive == TypeOK /\ [Next]_vars => TypeOK'
<1> SUFFICES ASSUME TypeOK, [Next]_vars PROVE TypeOK'
  OBVIOUS
<1> USE IdleType
<1>1. ASSUME NEW t \in Thread, Start(t) PROVE TypeOK'
  <2>1. thread[t] \in Request /\ Staff \subseteq User
    BY LocksAssumption DEF TypeOK
  <2>2. CASE Get(t)
    <3>1. PICK u \in Owner :
            thread' = [thread EXCEPT ![t] = [Idle EXCEPT !.op = "get", !.user = u]]
      BY <2>2 DEF Get
    <3>2. [Idle EXCEPT !.op = "get", !.user = u] \in Request
      BY DEF Idle, Request
    <3> QED BY <2>2, <3>1, <3>2 DEF Get, TypeOK
  <2>3. CASE Direct(t)
    <3>1. PICK u \in Staff \cup {Anonymous}, s \in Sandbox :
            thread' = [thread EXCEPT ![t] =
                [Idle EXCEPT !.op = "direct", !.user = u, !.at = "rows", !.rows = {s}]]
      BY <2>3 DEF Direct
    <3>2. u \in Owner
      BY <2>1 DEF Owner
    <3>3. [Idle EXCEPT !.op = "direct", !.user = u, !.at = "rows", !.rows = {s}] \in Request
      BY <3>2 DEF Idle, Request
    <3> QED BY <2>3, <3>1, <3>3 DEF Direct, TypeOK
  <2>4. CASE Unlock(t)
    <3>1. PICK s \in Sandbox :
            thread' = [thread EXCEPT ![t] = [Idle EXCEPT !.op = "unlock", !.pick = {s}]]
      BY <2>4 DEF Unlock
    <3>2. [Idle EXCEPT !.op = "unlock", !.pick = {s}] \in Request
      BY DEF Idle, Request, Owner
    <3> QED BY <2>4, <3>1, <3>2 DEF Unlock, TypeOK
  <2> QED BY <1>1, <2>2, <2>3, <2>4 DEF Start
<1>2. ASSUME NEW t \in Thread, Step(t) PROVE TypeOK'
  <2>1. thread[t] \in Request
    BY DEF TypeOK
  <2>2. Leave(t) => /\ held' \in [Sandbox -> Thread \cup {Nobody}]
                    /\ thread' \in [Thread -> Request]
    BY DEF Leave, Release, TypeOK
  <2>3. CASE CheckOwn(t)
    <3>1. CASE Leave(t)
      BY <2>2, <2>3, <3>1 DEF CheckOwn, TypeOK
    <3>2. CASE UNCHANGED held
      <4>1. {s \in Sandbox : row[s] = "ready"} \in SUBSET Sandbox
        OBVIOUS
      <4> QED BY <2>1, <2>2, <2>3, <3>2, <4>1 DEF CheckOwn, TypeOK, Request
    <3> QED BY <2>3, <3>1, <3>2 DEF CheckOwn
  <2>4. CASE LockRow(t)
    BY <2>1, <2>4 DEF LockRow, Guard, TypeOK, Request
  <2>5. CASE Pick(t)
    BY <2>1, <2>2, <2>5 DEF Pick, TypeOK, Request
  <2>6. CASE Insert(t)
    <3>1. thread[t].user \in Owner
      BY <2>1 DEF Request
    <3> QED BY <2>2, <2>6, <3>1 DEF Insert, TypeOK
  <2>7. CASE UnlockDelete(t)
    BY <2>2, <2>7 DEF UnlockDelete, TypeOK
  <2> QED BY <1>2, <2>3, <2>4, <2>5, <2>6, <2>7 DEF Step
<1>3. ASSUME NEW s \in Sandbox, Build(s) \/ MarkReady(s) \/ Delete(s) PROVE TypeOK'
  BY <1>3 DEF Build, MarkReady, Delete, TypeOK
<1>4. CASE UNCHANGED vars
  BY <1>4 DEF vars, TypeOK
<1> QED BY <1>1, <1>2, <1>3, <1>4 DEF Next

(* The rows, locks and requests have their types, whoever locks what.       *)
THEOREM TypeCorrect == Spec => []TypeOK
<1>1. Init => TypeOK
  BY IdleType DEF Init, TypeOK
<1> QED BY <1>1, TypeInductive, PTL DEF Spec

-----------------------------------------------------------------------------
(* The invariant is inductive. *)

\* The types of a request's fields.
LEMMA RequestType ==
    ASSUME TypeOK, NEW t \in Thread
    PROVE  /\ thread[t] \in Request
           /\ thread[t].rows \subseteq Sandbox /\ thread[t].got \subseteq Sandbox
           /\ thread[t].pick \subseteq Sandbox /\ thread[t].user \in Owner
BY DEF TypeOK, Request

\* A transaction that ends takes nothing from the others.
LEMMA LeaveKeeps ==
    ASSUME LocksInv, TypeOK', NEW t \in Thread, Leave(t), UNCHANGED row,
           \A u \in Thread : thread[u].at = "insert" /\ u # t =>
               \A s \in thread[u].pick : lock'[s] = Nobody,
           \A s \in Sandbox : lock'[s] # Nobody => row[s] # "absent"
    PROVE  LocksInv'
<1>1. thread'[t] = Idle /\ \A u \in Thread \ {t} : thread'[u] = thread[u]
  BY DEF Leave, LocksInv, TypeOK
<1>2. \A s \in Sandbox : held'[s] = IF held[s] = t THEN Nobody ELSE held[s]
  BY DEF Leave, Release
<1>3. Idle.at = "check" /\ Idle.rows = {} /\ Idle.got = {}
  BY DEF Idle
<1>4. Shape'
  BY <1>1, <1>3 DEF Shape, LocksInv
<1>5. RowsHeld'
  <2> SUFFICES ASSUME NEW u \in Thread, NEW s \in Sandbox
               PROVE  s \in thread'[u].got <=> held'[s] = u
    BY DEF RowsHeld
  <2>1. s \in thread[u].got <=> held[s] = u
    BY DEF LocksInv, RowsHeld
  <2>2. CASE u = t
    BY <1>1, <1>2, <1>3, <2>2, LocksAssumption
  <2>3. CASE u # t
    BY <1>1, <1>2, <2>1, <2>3, LocksAssumption
  <2> QED BY <2>2, <2>3
<1>6. StillSelected' /\ InOrder'
  BY <1>1, <1>3 DEF StillSelected, InOrder, LocksInv
<1>7. PickIsFree' /\ LockHasRow'
  BY <1>1, <1>3 DEF PickIsFree, LockHasRow
<1> QED BY <1>4, <1>5, <1>6, <1>7 DEF LocksInv

(* As long as a request only moves on with the rows it has got, the rows    *)
(* and locks being as they were, only its own picture must be looked at.    *)
LEMMA MoveKeeps ==
    ASSUME LocksInv, TypeOK', NEW t \in Thread, UNCHANGED <<row, lock, held>>,
           \A u \in Thread \ {t} : thread'[u] = thread[u],
           thread'[t].got = thread[t].got,
           thread'[t].at # "check" => thread'[t].op \in {"get", "direct"},
           thread'[t].at = "check" => thread'[t].rows = {} /\ thread'[t].got = {},
           thread'[t].at = "insert" =>
               /\ thread'[t].pick \subseteq thread[t].got
               /\ \A s \in thread'[t].pick : lock[s] = Nobody,
           thread[t].got = {} \/ (/\ thread'[t].rows \subseteq thread[t].rows
                                  /\ thread'[t].op = thread[t].op)
    PROVE  LocksInv'
<1>1. Shape' /\ PickIsFree'
  BY DEF Shape, PickIsFree, LocksInv
<1>2. RowsHeld' /\ LockHasRow'
  BY DEF RowsHeld, LockHasRow, LocksInv
<1>3. StillSelected' /\ InOrder'
  BY DEF StillSelected, InOrder, LocksInv
<1> QED BY <1>1, <1>2, <1>3 DEF LocksInv

\* A request begins with no rows.
LEMMA StartKeeps ==
    ASSUME LocksInv, TypeOK', NEW t \in Thread, Start(t)
    PROVE  LocksInv'
<1> DEFINE new == thread'[t]
<1>1. /\ \/ new.at = "check" /\ new.rows = {}
         \/ new.at = "rows" /\ new.op = "direct"
      /\ new.got = {}
      /\ \A u \in Thread \ {t} : thread'[u] = thread[u]
      /\ thread[t].op = "idle" /\ UNCHANGED <<row, lock, held>>
  <2>1. ASSUME NEW u \in Owner,
               thread' = [thread EXCEPT ![t] = [Idle EXCEPT !.op = "get", !.user = u]]
        PROVE  /\ new.at = "check" /\ new.rows = {} /\ new.got = {}
               /\ \A v \in Thread \ {t} : thread'[v] = thread[v]
    BY <2>1 DEF Idle, LocksInv, TypeOK
  <2>2. ASSUME NEW u, NEW s \in Sandbox,
               thread' = [thread EXCEPT ![t] =
                  [Idle EXCEPT !.op = "direct", !.user = u, !.at = "rows", !.rows = {s}]]
        PROVE  /\ new.at = "rows" /\ new.op = "direct" /\ new.got = {}
               /\ \A v \in Thread \ {t} : thread'[v] = thread[v]
    BY <2>2 DEF Idle, LocksInv, TypeOK
  <2>3. ASSUME NEW s \in Sandbox,
               thread' = [thread EXCEPT ![t] = [Idle EXCEPT !.op = "unlock", !.pick = {s}]]
        PROVE  /\ new.at = "check" /\ new.rows = {} /\ new.got = {}
               /\ \A v \in Thread \ {t} : thread'[v] = thread[v]
    BY <2>3 DEF Idle, LocksInv, TypeOK
  <2>4. CASE Get(t)
    BY <2>1, <2>4 DEF Get
  <2>5. CASE Direct(t)
    BY <2>2, <2>5 DEF Direct
  <2>6. CASE Unlock(t)
    BY <2>3, <2>6 DEF Unlock
  <2> QED BY <2>4, <2>5, <2>6 DEF Start
<1> HIDE DEF new
<1>2. thread[t].at = "check" /\ thread[t].got = {}
  <2>1. thread[t].op \notin {"get", "direct"}
    BY <1>1
  <2> QED BY <2>1 DEF LocksInv, Shape
<1>3. new.got = thread[t].got
  BY <1>1, <1>2
<1> QED BY <1>1, <1>2, <1>3, MoveKeeps DEF new

\* The rows are locked one by one, in order, each as it was selected.
LEMMA LockRowKeeps ==
    ASSUME LocksInv, TypeOK', NEW t \in Thread, LockRow(t)
    PROVE  LocksInv'
<1>1. PICK s \in Sandbox :
        /\ Takes(t, s) /\ held[s] = Nobody
        /\ \/ /\ Selects(t, s) /\ Guard(t, s)
              /\ thread' = [thread EXCEPT ![t].rows = @ \ {s}, ![t].got = @ \cup {s}]
           \/ /\ thread' = [thread EXCEPT ![t].rows = @ \ {s}]
              /\ UNCHANGED held
  BY DEF LockRow
<1>2. thread[t].at = "rows" /\ UNCHANGED <<row, lock>>
  BY DEF LockRow
<1>3. /\ \A u \in Thread \ {t} : thread'[u] = thread[u]
      /\ thread'[t].rows = thread[t].rows \ {s}
      /\ thread'[t].op = thread[t].op /\ thread'[t].at = "rows"
      /\ \/ thread'[t].got = thread[t].got /\ held' = held
         \/ /\ Selects(t, s) /\ thread'[t].got = thread[t].got \cup {s}
            /\ held' = [held EXCEPT ![s] = t]
  BY <1>1, <1>2, RequestType DEF Guard, LocksInv, TypeOK, Request
<1>4. thread[t].op \in {"get", "direct"}
  BY <1>2 DEF LocksInv, Shape
<1>5. CASE thread'[t].got = thread[t].got /\ held' = held
  <2>1. thread'[t].at # "check" /\ thread'[t].at # "insert"
    BY <1>3
  <2> QED BY <1>2, <1>3, <1>4, <1>5, <2>1, MoveKeeps
<1>6. CASE /\ Selects(t, s) /\ thread'[t].got = thread[t].got \cup {s}
           /\ held' = [held EXCEPT ![s] = t]
  <2>1. Shape' /\ PickIsFree' /\ LockHasRow'
    BY <1>2, <1>3, <1>4 DEF Shape, PickIsFree, LockHasRow, LocksInv
  <2>2. RowsHeld'
    BY <1>1, <1>3, <1>6, LocksAssumption DEF RowsHeld, LocksInv, TypeOK
  <2>3. StillSelected'
    BY <1>2, <1>3, <1>4, <1>6 DEF StillSelected, LocksInv, Selects
  <2>4. InOrder'
    <3>1. thread[t].rows \subseteq Nat /\ s \in Nat
      BY RequestType, LocksAssumption DEF LocksInv
    <3>2. \A r \in thread[t].rows \ {s} : s < r
      BY <1>1, <3>1 DEF Takes
    <3> QED BY <1>3, <1>6, <3>2 DEF InOrder, LocksInv
  <2> QED BY <2>1, <2>2, <2>3, <2>4 DEF LocksInv
<1> QED BY <1>3, <1>5, <1>6

\* Each step of a locking request keeps what its later steps rely on.
LEMMA StepKeeps ==
    ASSUME LocksInv, TypeOK', NEW t \in Thread, Step(t)
    PROVE  LocksInv'
<1> TypeOK
  BY DEF LocksInv
<1>1. CASE Leave(t) /\ UNCHANGED <<row, lock>>
  BY <1>1, LeaveKeeps DEF LocksInv, PickIsFree, LockHasRow
<1>2. CASE CheckOwn(t)
  <2>1. CASE /\ thread' = [thread EXCEPT ![t].at = "rows",
                             ![t].rows = {s \in Sandbox : row[s] = "ready"}]
             /\ UNCHANGED held
    <3>1. /\ thread'[t].got = thread[t].got /\ thread'[t].at = "rows"
          /\ thread'[t].op = thread[t].op
          /\ \A u \in Thread \ {t} : thread'[u] = thread[u]
      BY <2>1, RequestType DEF TypeOK, Request
    <3>2. thread[t].op = "get" /\ thread[t].at = "check" /\ UNCHANGED <<row, lock>>
      BY <1>2 DEF CheckOwn
    <3>3. thread[t].got = {}
      BY <3>2 DEF LocksInv, Shape
    <3> QED BY <2>1, <3>1, <3>2, <3>3, MoveKeeps
  <2> QED BY <1>1, <1>2, <2>1 DEF CheckOwn
<1>3. CASE LockRow(t)
  BY <1>3, LockRowKeeps
<1>4. CASE Pick(t)
  <2>1. ASSUME NEW s \in thread[t].got, lock[s] = Nobody, UNCHANGED held,
               thread' = [thread EXCEPT ![t].at = "insert", ![t].pick = {s}]
        PROVE  LocksInv'
    <3>1. /\ thread'[t].got = thread[t].got /\ thread'[t].rows = thread[t].rows
          /\ thread'[t].op = thread[t].op
          /\ thread'[t].at = "insert" /\ thread'[t].pick = {s}
          /\ \A u \in Thread \ {t} : thread'[u] = thread[u]
      BY <2>1, RequestType DEF TypeOK, Request
    <3>2. thread[t].at = "rows" /\ UNCHANGED <<row, lock>>
      BY <1>4 DEF Pick
    <3>3. thread[t].op \in {"get", "direct"}
      BY <3>2 DEF LocksInv, Shape
    <3> QED BY <2>1, <3>1, <3>2, <3>3, MoveKeeps
  <2> QED BY <1>1, <1>4, <2>1 DEF Pick
<1>5. CASE Insert(t)
  <2>1. PICK s \in thread[t].pick : lock' = [lock EXCEPT ![s] = thread[t].user]
    BY <1>5 DEF Insert
  <2>2. s \in Sandbox /\ s \in thread[t].got
    BY <1>5, RequestType DEF Insert, LocksInv, Shape
  <2>3. ASSUME NEW u \in Thread, thread[u].at = "insert", u # t, NEW r \in thread[u].pick
        PROVE  lock'[r] = Nobody
    <3>1. r \in Sandbox /\ r \in thread[u].got
      BY <2>3, RequestType DEF LocksInv, Shape
    <3>2. r # s
      BY <2>2, <2>3, <3>1 DEF LocksInv, RowsHeld
    <3> QED BY <2>1, <2>2, <2>3, <3>1, <3>2 DEF LocksInv, PickIsFree, TypeOK
  <2>4. \A r \in Sandbox : lock'[r] # Nobody => row[r] # "absent"
    BY <2>1, <2>2 DEF LocksInv, StillSelected, LockHasRow, TypeOK
  <2> QED BY <1>5, <2>3, <2>4, LeaveKeeps DEF Insert
<1>6. CASE UnlockDelete(t)
  <2>1. PICK s \in thread[t].pick : lock' = [lock EXCEPT ![s] = Nobody]
    BY <1>6 DEF UnlockDelete
  <2>2. \A r \in Sandbox : lock'[r] \in {lock[r], Nobody}
    BY <2>1 DEF TypeOK
  <2>3. \A u \in Thread : thread[u].pick \subseteq Sandbox
    BY RequestType
  <2> QED BY <1>6, <2>2, <2>3, LeaveKeeps DEF UnlockDelete, LocksInv, PickIsFree, LockHasRow
<1> QED BY <1>2, <1>3, <1>4, <1>5, <1>6 DEF Step

\* A held row is neither deleted nor changed, a locked one not deleted.
LEMMA SandboxKeeps ==
    ASSUME LocksInv, TypeOK', NEW s \in Sandbox, Build(s) \/ MarkReady(s) \/ Delete(s)
    PROVE  LocksInv'
<1>1. UNCHANGED <<lock, held, thread>> /\ \A r \in Sandbox \ {s} : row'[r] = row[r]
  BY DEF Build, MarkReady, Delete, LocksInv, TypeOK
<1>2. \A t \in Thread : thread[t].got \subseteq Sandbox
  BY RequestType DEF LocksInv
<1>3. \A t \in Thread : s \notin thread[t].got
  BY LocksAssumption DEF Build, MarkReady, Delete, LocksInv, RowsHeld, StillSelected
<1>4. StillSelected'
  BY <1>1, <1>2, <1>3 DEF StillSelected, LocksInv
<1>5. LockHasRow'
  BY <1>1 DEF Build, MarkReady, Delete, LockHasRow, LocksInv, TypeOK
<1>6. Shape' /\ RowsHeld' /\ PickIsFree' /\ InOrder'
  BY <1>1 DEF LocksInv, Shape, RowsHeld, PickIsFree, InOrder
<1> QED BY <1>4, <1>5, <1>6 DEF LocksInv

\* Every step keeps the invariant.
LEMMA LocksInductive == LocksInv /\ [Next]_vars => LocksInv'
<1> SUFFICES ASSUME LocksInv, [Next]_vars PROVE LocksInv'
  OBVIOUS
<1>1. TypeOK'
  BY TypeInductive DEF LocksInv
<1>2. CASE UNCHANGED vars
  BY <1>2 DEF vars, LocksInv, TypeOK, Shape, RowsHeld, StillSelected, PickIsFree, InOrder,
       LockHasRow
<1> QED BY <1>1, <1>2, StartKeeps, StepKeeps, SandboxKeeps DEF Next

\* It holds before the first request.
LEMMA LocksInitially == Init => LocksInv
<1> SUFFICES ASSUME Init PROVE LocksInv
  OBVIOUS
<1>1. TypeOK
  BY IdleType DEF Init, TypeOK
<1>2. \A t \in Thread : thread[t].at = "check" /\ thread[t].rows = {} /\ thread[t].got = {}
  BY DEF Init, Idle
<1>3. \A s \in Sandbox : lock[s] = Nobody /\ held[s] = Nobody
  BY DEF Init
<1> QED BY <1>1, <1>2, <1>3, LocksAssumption
      DEF LocksInv, Shape, RowsHeld, StillSelected, PickIsFree, InOrder, LockHasRow

\* It always holds.
LEMMA LocksAlways == Spec => []LocksInv
BY LocksInitially, LocksInductive, PTL DEF Spec

(* Whoever is about to insert a lock for a sandbox finds it as the query    *)
(* did: there, ready for a trainee, and without a lock.                     *)
THEOREM HandoutsTheorem == Spec => []HandoutsHold
<1>1. LocksInv => HandoutsHold
  BY DEF LocksInv, Shape, StillSelected, PickIsFree, HandoutsHold
<1> QED BY <1>1, LocksAlways, PTL

-----------------------------------------------------------------------------
(* No deadlock *)

\* A nonempty set of sandbox keys has a first.
LEMMA FirstSandbox ==
    ASSUME NEW S \in SUBSET Sandbox, S # {}
    PROVE  \E m \in S : \A s \in S : m <= s
<1>1. S \subseteq Nat
  BY LocksAssumption
<1>2. PICK m \in S : \A s \in S : <<s, m>> \notin OpToRel(<, Nat)
  BY <1>1, NatLessThanWellFounded, WFMin
<1>3. \A s \in S : ~(s < m)
  BY <1>1, <1>2 DEF OpToRel
<1> QED BY <1>1, <1>3

\* And a last: the least of the sets of what comes after one of them.
LEMMA LastSandbox ==
    ASSUME NEW S \in SUBSET Sandbox, S # {}
    PROVE  \E m \in S : \A s \in S : s <= m
<1> DEFINE After(s) == {r \in S : s < r}
           Tails == {After(s) : s \in S}
<1>1. S \subseteq Nat /\ IsFiniteSet(S)
  BY LocksAssumption, FS_Subset
<1>2. Tails \subseteq SUBSET S /\ Tails # {}
  OBVIOUS
<1>3. IsWellFoundedOn(StrictSubsetOrdering(S), SUBSET S)
  BY <1>1, FS_StrictSubsetOrderingWellFounded, FS_FiniteSubsetsOfFinite
<1>4. PICK T \in Tails : \A U \in Tails : <<U, T>> \notin StrictSubsetOrdering(S)
  BY <1>2, <1>3, WFMin
<1>5. PICK m \in S : T = After(m)
  OBVIOUS
<1>6. ASSUME NEW s \in S, m < s PROVE FALSE
  <2>1. s \in Nat /\ m \in Nat /\ \A r \in S : r \in Nat
    BY <1>1
  <2>2. s \in After(m) /\ s \notin After(s)
    BY <1>6, <2>1
  <2>3. \A r \in S : s < r => m < r
    BY <1>6, <2>1
  <2>4. After(s) \subseteq After(m)
    BY <2>3
  <2>5. <<After(s), After(m)>> \in StrictSubsetOrdering(S)
    BY <1>2, <2>2, <2>4 DEF StrictSubsetOrdering
  <2> QED BY <1>4, <1>5, <2>5
<1> QED BY <1>1, <1>6

\* Whoever keeps a blocked request waiting, in a circle of them, waits for a
\* later row itself.
LEMMA WaitsForLater ==
    ASSUME LocksInv, NEW S \in SUBSET Thread, \A t \in S : Blocked(t, S), NEW t \in S
    PROVE  \E s \in Sandbox : Takes(t, s) /\ \E u \in S, r \in Sandbox : Takes(u, r) /\ s < r
<1>1. ASSUME NEW u \in S PROVE \E s \in Sandbox : Takes(u, s)
  <2>1. thread[u].rows \in SUBSET Sandbox /\ thread[u].rows # {}
    BY RequestType DEF Blocked, LocksInv
  <2> QED BY <2>1, FirstSandbox DEF Takes
<1>2. PICK s \in Sandbox : Takes(t, s)
  BY <1>1
<1>3. held[s] \in S \ {t}
  BY <1>2 DEF Blocked
<1>4. PICK u \in S : held[s] = u
  BY <1>3
<1>5. s \in thread[u].got
  BY <1>4 DEF LocksInv, RowsHeld
<1>6. PICK r \in Sandbox : Takes(u, r)
  BY <1>1
<1>7. s < r
  BY <1>5, <1>6 DEF LocksInv, InOrder, Takes
<1> QED BY <1>2, <1>6, <1>7

(* The row locks are taken in id order, so no set of transactions waits for *)
(* one another in a circle: of those that wait, the one that awaits the     *)
(* last row waits for somebody else.                                        *)
THEOREM NoDeadlockTheorem == Spec => []NoRowDeadlock
<1>1. LocksInv => NoRowDeadlock
  <2> SUFFICES ASSUME LocksInv, NEW S \in SUBSET Thread, S # {}, \A t \in S : Blocked(t, S)
               PROVE  FALSE
    BY DEF NoRowDeadlock
  <2> DEFINE Awaited == {s \in Sandbox : \E t \in S : Takes(t, s)}
  <2>1. Awaited # {}
    BY WaitsForLater
  <2>2. PICK m \in Awaited : \A s \in Awaited : s <= m
    BY <2>1, LastSandbox
  <2>3. PICK t \in S : Takes(t, m)
    OBVIOUS
  <2>4. PICK s \in Sandbox, u \in S, r \in Sandbox : Takes(t, s) /\ Takes(u, r) /\ s < r
    BY WaitsForLater
  <2>5. s = m
    <3>1. thread[t].rows \subseteq Nat
      BY RequestType, LocksAssumption DEF LocksInv
    <3> QED BY <2>3, <2>4, <3>1 DEF Takes
  <2>6. r <= m /\ r \in Nat /\ s \in Nat
    BY <2>2, <2>4, LocksAssumption
  <2> QED BY <2>4, <2>5, <2>6
<1> QED BY <1>1, LocksAlways, PTL

-----------------------------------------------------------------------------
(* Refinement *)

\* Steps that touch no lock row: a sandbox comes, or an unlocked one goes.
LEMMA ReplaceMaps ==
    ASSUME UNCHANGED lock, LocksInv, LocksInv'
    PROVE  Locks!Replace
BY DEF Locks!Replace, LocksInv, LockHasRow

(* The lock rows are a lock table: what LockTable promises of locks and     *)
(* sandboxes holds of every transaction that touches them.                  *)
THEOREM LocksRefinement == Spec => LocksKept
<1>1. Init => Locks!Init
  BY DEF Init, Locks!Init
<1>2. LocksInv /\ LocksInv' /\ [Next]_vars => [Locks!Next]_(Locks!vars)
  <2> SUFFICES ASSUME LocksInv, LocksInv', [Next]_vars PROVE [Locks!Next]_(Locks!vars)
    OBVIOUS
  <2>1. CASE UNCHANGED lock
    BY <2>1, ReplaceMaps DEF Locks!Next
  <2>2. ASSUME NEW t \in Thread, Insert(t) PROVE Locks!Next
    <3>1. PICK s \in thread[t].pick : lock' = [lock EXCEPT ![s] = thread[t].user]
      BY <2>2 DEF Insert
    <3>2. s \in Sandbox /\ thread[t].user \in Owner
      BY RequestType DEF LocksInv
    <3>3. lock[s] = Nobody /\ row[s] # "absent"
      BY <2>2 DEF Insert, LocksInv, Shape, PickIsFree, StillSelected
    <3>4. UNCHANGED row
      BY <2>2 DEF Insert
    <3>5. Locks!Lock(s, thread[t].user)
      BY <3>1, <3>2, <3>3, <3>4 DEF Locks!Lock
    <3> QED BY <3>2, <3>5 DEF Locks!Next
  <2>3. ASSUME NEW t \in Thread, UnlockDelete(t) PROVE [Locks!Next]_(Locks!vars)
    <3>1. PICK s \in thread[t].pick : lock' = [lock EXCEPT ![s] = Nobody]
      BY <2>3 DEF UnlockDelete
    <3>2. s \in Sandbox
      BY RequestType DEF LocksInv
    <3>3. UNCHANGED row
      BY <2>3 DEF UnlockDelete
    <3>4. CASE lock[s] = Nobody
      <4>1. lock' = lock
        BY <3>1, <3>2, <3>4 DEF LocksInv, TypeOK
      <4> QED BY <3>3, <4>1 DEF Locks!vars
    <3>5. CASE lock[s] # Nobody
      <4>1. Locks!Unlock(s)
        BY <3>1, <3>2, <3>3, <3>5 DEF Locks!Unlock
      <4> QED BY <3>2, <4>1 DEF Locks!Next
    <3> QED BY <3>4, <3>5
  <2>4. ASSUME NEW t \in Thread, Start(t) \/ CheckOwn(t) \/ LockRow(t) \/ Pick(t)
        PROVE  UNCHANGED lock
    BY <2>4 DEF Start, Get, Direct, Unlock, CheckOwn, LockRow, Pick
  <2>5. ASSUME NEW s \in Sandbox, Build(s) \/ MarkReady(s) \/ Delete(s)
        PROVE  UNCHANGED lock
    BY <2>5 DEF Build, MarkReady, Delete
  <2>6. CASE UNCHANGED vars
    BY <2>1, <2>6 DEF vars
  <2> QED BY <2>1, <2>2, <2>3, <2>4, <2>5, <2>6 DEF Next, Step
<1> QED BY <1>1, <1>2, LocksAlways, PTL DEF Spec, LocksKept, Locks!Spec
=============================================================================

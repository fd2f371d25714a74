---------------------------- MODULE SandboxLocks ----------------------------
(***************************************************************************)
(* Locking the sandboxes of one pool: trainees who ask for any free one    *)
(* (get_unlocked_sandbox), instructors who lock a given one (lock_sandbox) *)
(* or unlock it, and the requests that create and delete sandboxes.  The   *)
(* transactions run under READ COMMITTED: a SELECT ... FOR UPDATE sees the *)
(* rows committed when it started and locks them one by one, in id order,  *)
(* waiting for whoever holds one; commit or rollback releases them all.    *)
(***************************************************************************)
EXTENDS Naturals, FiniteSets

CONSTANTS
    Sandbox,    \* sandbox keys, in the order of ORDER BY id
    User,
    Staff,      \* the users who may lock a sandbox of their choice
    Thread,     \* web threads in a locking request
    Nobody      \* no user: an anonymous request, or no lock

ASSUME LocksAssumption == 
    /\ Sandbox \subseteq Nat /\ IsFiniteSet(Sandbox)
    /\ Staff \subseteq User
    /\ Nobody \notin User \cup Thread

\* The created_by of a lock; an anonymous client's lock has none.
Anonymous == "anonymous"
Owner == User \cup {Anonymous}

VARIABLES
    row,     \* the Sandbox rows: absent, building or ready
    lock,    \* the SandboxLock rows: who created the lock, or Nobody
    held,    \* the thread whose transaction holds the row lock
    thread   \* the web threads

vars == <<row, lock, held, thread>>

(* A request in progress: `rows` are the rows its query has yet to lock,   *)
(* `got` those it holds, `pick` the sandbox it is about to lock.           *)
Request == [op : {"idle", "get", "direct", "unlock"},
            at : {"check", "rows", "insert"},
            user : Owner,
            rows : SUBSET Sandbox, got : SUBSET Sandbox, pick : SUBSET Sandbox]
Idle == [op |-> "idle", at |-> "check", user |-> Anonymous,
         rows |-> {}, got |-> {}, pick |-> {}]

TypeOK ==
    /\ row \in [Sandbox -> {"absent", "building", "ready"}]
    /\ lock \in [Sandbox -> Owner \cup {Nobody}]
    /\ held \in [Sandbox -> Thread \cup {Nobody}]
    /\ thread \in [Thread -> Request]

Init ==
    /\ row = [s \in Sandbox |-> "absent"]
    /\ lock = [s \in Sandbox |-> Nobody]
    /\ held = [s \in Sandbox |-> Nobody]
    /\ thread = [t \in Thread |-> Idle]

-----------------------------------------------------------------------------
(* Row locks *)

\* Mutant: the queryset is not ordered.
TakesAny(t, s) == s \in thread[t].rows

Takes(t, s) == s \in thread[t].rows /\ \A r \in thread[t].rows : s <= r

\* Mutant: the row lock is kept for the user instead of the transaction.
GuardByUser(t, s) == held' = [held EXCEPT ![s] = thread[t].user]

\* Mutant: select_for_update is dropped.
Unguarded(t, s) == UNCHANGED held

Guard(t, s) == held' = [held EXCEPT ![s] = t]

\* The transaction ends.
Release(t) == held' = [s \in Sandbox |-> IF held[s] = t THEN Nobody ELSE held[s]]
Leave(t) == Release(t) /\ thread' = [thread EXCEPT ![t] = Idle]

\* Mutant: what the query saw when it started is taken for granted.
SelectsSeen(t, s) == TRUE

\* The rows a waiting query finds when it gets the lock are checked again.
Selects(t, s) == row[s] = "ready" \/ (thread[t].op = "direct" /\ row[s] = "building")

-----------------------------------------------------------------------------
(* get_unlocked_sandbox, for a trainee who has passed the pool's token.    *)

Get(t) ==
    /\ thread[t].op = "idle"
    /\ \E u \in Owner : thread' = [thread EXCEPT ![t] = [Idle EXCEPT !.op = "get", !.user = u]]
    /\ UNCHANGED <<row, lock, held>>

(* _has_locked_sandbox                                                     *)
Owns(u) == u \in User /\ \E s \in Sandbox : row[s] = "ready" /\ lock[s] = u

(* The query for the user's own lock finds none, so it locks no row; the   *)
(* query for all ready sandboxes starts.                                   *)
CheckOwn(t) ==
    /\ thread[t].op = "get" /\ thread[t].at = "check"
    /\ IF Owns(thread[t].user)
       THEN Leave(t)
       ELSE /\ thread' = [thread EXCEPT ![t].at = "rows",
                             ![t].rows = {s \in Sandbox : row[s] = "ready"}]
            /\ UNCHANGED held
    /\ UNCHANGED <<row, lock>>

(* lock_sandbox: the sandbox the view read is queried again.               *)
Direct(t) ==
    /\ thread[t].op = "idle"
    /\ \E u \in Staff \cup {Anonymous}, s \in Sandbox :
          /\ row[s] # "absent"
          /\ thread' = [thread EXCEPT ![t] =
                [Idle EXCEPT !.op = "direct", !.user = u, !.at = "rows", !.rows = {s}]]
    /\ UNCHANGED <<row, lock, held>>

LockRow(t) ==
    /\ thread[t].at = "rows"
    /\ \E s \in Sandbox :
          /\ Takes(t, s) /\ held[s] = Nobody
          /\ IF Selects(t, s)
             THEN /\ Guard(t, s)
                  /\ thread' = [thread EXCEPT ![t].rows = @ \ {s}, ![t].got = @ \cup {s}]
             ELSE /\ thread' = [thread EXCEPT ![t].rows = @ \ {s}]
                  /\ UNCHANGED held
    /\ UNCHANGED <<row, lock>>

(* hasattr(sandbox, 'lock'): the first sandbox without one, or an answer   *)
(* that there is none.                                                     *)
Pick(t) ==
    LET free == {s \in thread[t].got : lock[s] = Nobody} IN
    /\ thread[t].at = "rows" /\ thread[t].rows = {}
    /\ IF free = {}
       THEN Leave(t)
       ELSE /\ \E s \in free :
                  /\ \A r \in free : s <= r
                  /\ thread' = [thread EXCEPT ![t].at = "insert", ![t].pick = {s}]
            /\ UNCHANGED held
    /\ UNCHANGED <<row, lock>>

(* SandboxLock.objects.create and commit.                                  *)
Insert(t) ==
    /\ thread[t].at = "insert"
    /\ \E s \in thread[t].pick : lock' = [lock EXCEPT ![s] = thread[t].user]
    /\ Leave(t)
    /\ UNCHANGED row

-----------------------------------------------------------------------------
(* Everybody else *)

(* Unlocking reads that there is a lock, then deletes whatever lock the    *)
(* sandbox has; a forced cleanup deletes the lock it read.                 *)
Unlock(t) ==
    /\ thread[t].op = "idle"
    /\ \E s \in Sandbox :
          /\ lock[s] # Nobody
          /\ thread' = [thread EXCEPT ![t] = [Idle EXCEPT !.op = "unlock", !.pick = {s}]]
    /\ UNCHANGED <<row, lock, held>>

UnlockDelete(t) ==
    /\ thread[t].op = "unlock"
    /\ \E s \in thread[t].pick : lock' = [lock EXCEPT ![s] = Nobody]
    /\ Leave(t)
    /\ UNCHANGED row

(* The create job inserts the row, the finalizer marks it ready, a cleanup *)
(* or a restart deletes it: each waits for the row lock, and a SandboxLock *)
(* row refuses the deletion.  A deleted key may come back: a late finalizer *)
(* inserts its sandbox again (see UnitLifecycle).                          *)
Build(s) ==
    /\ row[s] = "absent"
    /\ row' = [row EXCEPT ![s] = "building"]
    /\ UNCHANGED <<lock, held, thread>>

MarkReady(s) ==
    /\ row[s] = "building" /\ held[s] = Nobody
    /\ row' = [row EXCEPT ![s] = "ready"]
    /\ UNCHANGED <<lock, held, thread>>

Delete(s) ==
    /\ row[s] # "absent" /\ held[s] = Nobody /\ lock[s] = Nobody
    /\ row' = [row EXCEPT ![s] = "absent"]
    /\ UNCHANGED <<lock, held, thread>>

-----------------------------------------------------------------------------
Start(t) == Get(t) \/ Direct(t) \/ Unlock(t)
Step(t)  == CheckOwn(t) \/ LockRow(t) \/ Pick(t) \/ Insert(t) \/ UnlockDelete(t)

Next ==
    \/ \E t \in Thread : Start(t) \/ Step(t)
    \/ \E s \in Sandbox : Build(s) \/ MarkReady(s) \/ Delete(s)

Spec == Init /\ [][Next]_vars

-----------------------------------------------------------------------------
(* Properties *)

(* Nobody is handed a sandbox that is locked, deleted or not ready: what    *)
(* the loop of get_unlocked_sandbox saw still holds when the lock row is    *)
(* inserted, so the one-to-one constraint never refuses it.                 *)
HandoutsHold ==
    \A t \in Thread : thread[t].at = "insert" =>
        \A s \in thread[t].pick :
            /\ lock[s] = Nobody
            /\ row[s] # "absent"
            /\ thread[t].op = "get" => row[s] = "ready"

(* The transactions never wait for each other in a circle: all of them     *)
(* lock the rows in id order.                                              *)
Blocked(t, S) ==
    /\ thread[t].at = "rows" /\ thread[t].rows # {}
    /\ \A s \in Sandbox : Takes(t, s) => held[s] \in S \ {t}
NoRowDeadlock == \A S \in (SUBSET Thread) \ {{}} : \E t \in S : ~Blocked(t, S)

(* All locking, as its users see it, is that of a lock table.               *)
Locks == INSTANCE LockTable WITH
    Holder <- Owner, Free <- Nobody,
    present <- {s \in Sandbox : row[s] # "absent"}, holder <- lock
LocksKept == Locks!Spec

(* 'You already have a sandbox assigned. Use that one or ask your tutor for *)
(* help.' (pools.py:219-221): of the ready sandboxes a trainee's request    *)
(* has locked the rows of, no second one becomes the trainee's.             *)
OneSandboxPerTrainee ==
    [][\A t \in Thread, u \in User :
          thread[t].op = "get" /\ thread[t].user = u /\ Insert(t)
          => Cardinality({s \in thread[t].got : lock'[s] = u}) <= 1]_vars
=============================================================================

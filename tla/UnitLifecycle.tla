--------------------------- MODULE UnitLifecycle ---------------------------
(***************************************************************************)
(* The life of ONE sandbox allocation unit: the database rows the web      *)
(* threads and the RQ workers share, the chains of RQ jobs that allocate,  *)
(* restart and clean the unit up, and the cloud stack they build and tear  *)
(* down.                                                                   *)
(*                                                                         *)
(* A chain is what one `enqueue_request` or `restart_request` starts: a    *)
(* create job on the default queue, then up to three stage jobs, each      *)
(* depending on the one before, then a finalizer.  Its jobs carry pickled  *)
(* copies of the rows they work on, so a job may save a row that somebody  *)
(* else has deleted or replaced meanwhile.  Django's save() then inserts   *)
(* the row again, unless a unique or a foreign key constraint refuses it.  *)
(***************************************************************************)
EXTENDS Naturals, FiniteSets

CONSTANTS
    Alloc,      \* chains that allocate: the first one, and one per restart
    First,      \* the chain queued when the unit is created
    Clean,      \* chains that clean up, one per accepted cleanup request
    Web,        \* gunicorn threads serving requests about this unit
    MaxCrashes, \* how many workers may die in the middle of a job
    None        \* the key of a row that does not exist

ASSUME LifecycleAssumption ==
    /\ First \in Alloc
    /\ Alloc \cap Clean = {}
    /\ None \notin Alloc \cup Clean
    /\ MaxCrashes \in Nat

Chains == Alloc \cup Clean
Kinds  == {"alloc", "clean"}
Kind(c) == IF c \in Alloc THEN "alloc" ELSE "clean"

(* Positions in a chain.  Allocation runs stack, networking, user; cleanup *)
(* runs user, networking, stack.  Both are cancelled from 3 down to 1.     *)
Create == 0
Stages == 1..3
Final  == 4
Builds(c, k) == c \in Alloc /\ k = 1
Destroys(c, k) == c \in Clean /\ k = 3

(* A stage row: the chain that created it, what start, end, failed and     *)
(* finished say together (the StageState of requests.py), and whether its  *)
(* RQJob row exists.                                                       *)
StageState == {"IN_QUEUE", "RUNNING", "FINISHED", "FAILED"}
Row == [id : Chains \cup {None}, state : StageState, rq : BOOLEAN]
NoRow == [id |-> None, state |-> "IN_QUEUE", rq |-> FALSE]
NoRows == [k \in Stages |-> NoRow]
Fresh(c) == [id |-> c, state |-> "IN_QUEUE", rq |-> TRUE]

(* A chain: the position of the only job that can run, what became of it,  *)
(* the positions of the jobs still deferred behind it, and the pickled key *)
(* it works with (a restart: the old sandbox; a cleanup: its request).     *)
Job == [at : 0..4, st : {"new", "queued", "running", "failed", "dead", "done"},
        rest : SUBSET (1..4), ref : Chains \cup {None}]
NewJob == [at |-> Create, st |-> "new", rest |-> {}, ref |-> None]

(* A web thread in the middle of a handler: how many stages it has yet to  *)
(* cancel, the keys of the unfinished ones, the sandbox and the cleanup    *)
(* request, all as it read them.                                           *)
Thread == [op : {"idle", "cancel", "cancel_cleanup", "cleanup", "force"},
           todo : 0..3, snap : [Stages -> Chains \cup {None}],
           sb : Alloc \cup {None}, req : Clean \cup {None}]
NoSnap == [k \in Stages |-> None]
Idle == [op |-> "idle", todo |-> 0, snap |-> NoSnap, sb |-> None, req |-> None]

VARIABLES
    unit,     \* the SandboxAllocationUnit and AllocationRequest rows exist
    ghost,    \* the unit was deleted, but a row of its own exists again
    sandbox,  \* the Sandbox row: its key (the chain that made it) and ready
    lock,     \* a SandboxLock row points at the sandbox
    creq,     \* the CleanupRequest row: the chain that created it
    stage,    \* the stage rows of the two requests
    job,      \* the chains, as Redis and the workers hold them
    web,      \* the web threads
    stack,    \* "up" as soon as cloud resources of the unit may exist
    debited,  \* the cleanup chains whose finalizer decremented Pool.size
    crashed,  \* the chains whose worker died
    passed,   \* history: the stages each allocation chain completed
    overlap   \* history: a stack was worked on while a cleanup chain existed

rows == <<unit, ghost, sandbox, lock, creq, stage>>
vars == <<rows, job, web, stack, debited, crashed, passed, overlap>>

TypeOK ==
    /\ unit \in BOOLEAN /\ ghost \in BOOLEAN
    /\ sandbox \in [id : Alloc \cup {None}, ready : BOOLEAN]
    /\ lock \in BOOLEAN
    /\ creq \in Clean \cup {None}
    /\ stage \in [Kinds -> [Stages -> Row]]
    /\ job \in [Chains -> Job]
    /\ web \in [Web -> Thread]
    /\ stack \in {"none", "up"}
    /\ debited \in SUBSET Clean
    /\ crashed \in SUBSET Chains
    /\ passed \in [Alloc -> SUBSET Stages]
    /\ overlap \in BOOLEAN

(* create_allocations_requests has committed the unit and its request, and *)
(* its on_commit hook has queued the create job of the first chain.        *)
Init ==
    /\ unit = TRUE /\ ghost = FALSE
    /\ sandbox = [id |-> None, ready |-> FALSE]
    /\ lock = FALSE
    /\ creq = None
    /\ stage = [kd \in Kinds |-> NoRows]
    /\ job = [c \in Chains |->
                IF c = First THEN [NewJob EXCEPT !.st = "queued"] ELSE NewJob]
    /\ web = [w \in Web |-> Idle]
    /\ stack = "none"
    /\ debited = {}
    /\ crashed = {}
    /\ passed = [c \in Alloc |-> {}]
    /\ overlap = FALSE

-----------------------------------------------------------------------------
(* Rows *)

Exists(kd) == \A k \in Stages : stage[kd][k].id # None
Unfinished(kd, k) ==
    stage[kd][k].id # None /\ stage[kd][k].state \in {"IN_QUEUE", "RUNNING"}
AllFinished(kd) == \A k \in Stages : ~Unfinished(kd, k)

\* Mutant: the request the row points at is not required to exist.
CanSaveAnyway(c, k) == stage[Kind(c)][k].id \in {c, None}

\* What the foreign key of a sandbox or a cleanup request needs.
UnitRow == unit \/ ghost

(* save() of the copy that chain c holds of its stage at k: the request it *)
(* points at must exist, and no other row may occupy the one-to-one slot.  *)
CanSave(c, k) ==
    /\ c \in Alloc => unit
    /\ c \in Clean => creq # None /\ creq = job[c].ref
    /\ stage[Kind(c)][k].id \in {c, None}

(* A row inserted again has lost its RQJob row to the cascade.             *)
Save(c, k, state) ==
    stage' = [stage EXCEPT ![Kind(c)][k] =
                [id |-> c, state |-> state, rq |-> @.id = c /\ @.rq]]

-----------------------------------------------------------------------------
(* RQ: a job is queued once the job it depends on has finished; a failed   *)
(* or deleted job never releases the jobs behind it.                       *)

Set(c, st) == job' = [job EXCEPT ![c].st = st]

(* The job of chain c fails or is lost: what is deferred behind it in Redis *)
(* stays deferred for ever, which here is to have nothing behind it.        *)
Kill(c) == job' = [job EXCEPT ![c].st = "dead", ![c].rest = {}, ![c].ref = None]

(* The job at job[c].at has finished: release its dependent, if any is left. *)
Release(c) ==
    IF job[c].rest = {}
    THEN Kill(c)
    ELSE \E p \in job[c].rest :
            /\ \A q \in job[c].rest : p <= q
            /\ job' = [job EXCEPT ![c].at = p, ![c].st = "queued",
                                  ![c].rest = @ \ {p}]

\* Mutant: dependents of a deleted job move up instead of disappearing.
CutOnly(j, D) ==
    [j EXCEPT !.st = IF j.at \in D /\ @ = "queued" THEN "dead" ELSE @,
              !.rest = @ \ D]

(* Job.delete(delete_dependents=True) on the jobs of chain j at the        *)
(* positions D: a queued job disappears, a running one goes on alone.      *)
Cut(j, D) ==
    [j EXCEPT !.st = IF j.at \in D /\ @ = "queued" THEN "dead" ELSE @,
              !.rest = {p \in @ : \A k \in D : k >= j.at => p < k}]

\* Mutant: the lock is not looked at.
ProtectedNever(i) == FALSE

(* A lock row refuses the deletion of the sandbox it points at.            *)
Protected(i) == lock /\ sandbox.id = i

-----------------------------------------------------------------------------
(* Allocation and restart: the create jobs *)

(* _create_allocation_jobs: the sandbox, the three stage rows and their    *)
(* jobs.  The finalizer keeps the sandbox row as it was here.              *)
CreateAllocation ==
    /\ job[First].at = Create /\ job[First].st = "queued"
    /\ sandbox' = [id |-> First, ready |-> FALSE]
    /\ stage' = [stage EXCEPT !["alloc"] = [k \in Stages |-> Fresh(First)]]
    /\ job' = [job EXCEPT ![First].at = 1, ![First].rest = {2, 3, Final}]
    /\ UNCHANGED <<unit, ghost, lock, creq, web, stack, debited, crashed, passed, overlap>>

(* restart_allocation_stages validates nothing: it queues the job.         *)
RequestRestart ==
    /\ UnitRow
    /\ \E c \in Alloc \ {First} :
          /\ job[c].st = "new"
          /\ Set(c, "queued")
    /\ UNCHANGED <<rows, web, stack, debited, crashed, passed, overlap>>

(* _create_restart_jobs, up to the NetBird teardown: the old sandbox is    *)
(* read and must exist.                                                    *)
RestartBegin(c) ==
    /\ c \in Alloc \ {First}
    /\ job[c].at = Create /\ job[c].st = "queued"
    /\ IF unit /\ sandbox.id # None
       THEN job' = [job EXCEPT ![c].st = "running", ![c].ref = sandbox.id]
       ELSE Kill(c)
    /\ UNCHANGED <<rows, web, stack, debited, crashed, passed, overlap>>

(* _restart_stage_handlers repeats the failed stages, and only when the    *)
(* user stage is one of them.                                              *)
Failed(k) == stage["alloc"][k].state = "FAILED"
Restartable == AllFinished("alloc") /\ Exists("alloc") /\ Failed(3)
\* Mutant: a failed networking stage is not repeated.
ToRestartSkipsNetworking == {k \in {1} : Failed(k)} \cup {3}

ToRestart == {k \in {1, 2} : Failed(k)} \cup {3}

(* _create_restart_jobs after the teardown: a lock protects the old row,   *)
(* a row somebody else made occupies the slot; then the new sandbox is     *)
(* saved, and only then are the stages validated and recreated.            *)
RestartApply(c) ==
    /\ c \in Alloc /\ job[c].at = Create /\ job[c].st = "running"
    /\ IF UnitRow /\ sandbox.id \in {job[c].ref, None} /\ ~Protected(job[c].ref)
       THEN /\ sandbox' = [id |-> c, ready |-> FALSE]
            /\ IF Restartable
               THEN /\ stage' = [stage EXCEPT !["alloc"] =
                          [k \in Stages |-> IF k \in ToRestart THEN Fresh(c) ELSE @[k]]]
                    /\ \E p \in ToRestart :
                          /\ \A q \in ToRestart : p <= q
                          /\ job' = [job EXCEPT ![c].at = p, ![c].st = "queued",
                                        ![c].ref = None,
                                        ![c].rest = (ToRestart \cup {Final}) \ {p}]
               ELSE Kill(c) /\ UNCHANGED stage
       ELSE Kill(c) /\ UNCHANGED <<sandbox, stage>>
    /\ UNCHANGED <<unit, ghost, lock, creq, web, stack, debited, crashed, passed, overlap>>

-----------------------------------------------------------------------------
(* StageHandler.execute in a worker *)

\* A stack is worked on by chain c while a cleanup chain has been created.
Overlaps(c, k) == Builds(c, k) /\ \E d \in Clean : job[d].at >= 1

(* The start time is saved; a refused save fails the job at once.          *)
StageStart(c) ==
    LET k == job[c].at IN
    /\ k \in Stages /\ job[c].st = "queued"
    /\ IF CanSave(c, k)
       THEN /\ Save(c, k, "RUNNING")
            /\ Set(c, "running")
            /\ stack' = IF Builds(c, k) THEN "up" ELSE stack
            /\ overlap' = (overlap \/ Overlaps(c, k))
       ELSE Kill(c) /\ UNCHANGED <<stage, stack, overlap>>
    /\ UNCHANGED <<unit, ghost, sandbox, lock, creq, web, debited, crashed, passed>>

(* _execute returns; the finally block saves the finished row, and RQ      *)
(* releases the next job unless that save was refused.                     *)
StageOk(c) ==
    LET k == job[c].at IN
    /\ k \in Stages /\ job[c].st = "running"
    /\ IF CanSave(c, k)
       THEN Save(c, k, "FINISHED") /\ Release(c)
       ELSE Kill(c) /\ UNCHANGED stage
    /\ stack' = IF Builds(c, k) THEN "up"
                ELSE IF Destroys(c, k) THEN "none" ELSE stack
    /\ overlap' = (overlap \/ Overlaps(c, k))
    /\ passed' = IF c \in Alloc /\ CanSave(c, k)
                 THEN [passed EXCEPT ![c] = @ \cup {k}] ELSE passed
    /\ UNCHANGED <<unit, ghost, sandbox, lock, creq, web, debited, crashed>>

(* _execute raises: the row is saved as failed and the job fails.  A build *)
(* that fails deletes its own stack, and that deletion may fail too.       *)
StageFail(c) ==
    LET k == job[c].at IN
    /\ k \in Stages /\ job[c].st = "running"
    /\ ~(c \in Clean /\ k = 1)          \* user cleanup does nothing
    /\ IF CanSave(c, k)
       THEN Save(c, k, "FAILED") /\ Set(c, "failed")
       ELSE Kill(c) /\ UNCHANGED stage
    /\ stack' \in IF Builds(c, k) THEN {"none", "up"} ELSE {stack}
    /\ overlap' = (overlap \/ Overlaps(c, k))
    /\ UNCHANGED <<unit, ghost, sandbox, lock, creq, web, debited, crashed, passed>>

(* request_exception_handler: find the request by the RQJob row and cancel *)
(* what is left of it.  Without the row nothing is cancelled.              *)
ExceptionHandler(c) ==
    LET kd == Kind(c)
        known == stage[kd][job[c].at].id = c /\ stage[kd][job[c].at].rq
        hit(k) == known /\ Unfinished(kd, k)
        D(i) == {k \in Stages : hit(k) /\ stage[kd][k].id = i /\ stage[kd][k].rq}
    IN
    /\ job[c].st = "failed"
    /\ job' = [[i \in Chains |-> Cut(job[i], D(i))] EXCEPT ![c].st = "dead"]
    /\ stage' = [stage EXCEPT ![kd] =
           [k \in Stages |-> IF hit(k) THEN [@[k] EXCEPT !.state = "FAILED"] ELSE @[k]]]
    /\ UNCHANGED <<unit, ghost, sandbox, lock, creq, web, stack, debited, crashed, passed, overlap>>

(* The worker process dies: nothing is saved, no handler runs, and RQ has  *)
(* no retry configured.                                                    *)
WorkerCrash(c) ==
    /\ job[c].st \in {"running", "failed"}
    /\ Cardinality(crashed) < MaxCrashes
    /\ crashed' = crashed \cup {c}
    /\ Kill(c)
    /\ UNCHANGED <<rows, web, stack, debited, passed, overlap>>

\* Mutant: every chain is given the finalizer of an allocation.
MarkReadyAnyChain(c) ==
    /\ job[c].at = Final /\ job[c].st = "queued"
    /\ IF UnitRow /\ sandbox.id \in {c, None}
       THEN sandbox' = [id |-> c, ready |-> TRUE] /\ Set(c, "done")
       ELSE Kill(c) /\ UNCHANGED sandbox
    /\ UNCHANGED <<unit, ghost, lock, creq, stage, web, stack, debited, crashed, passed, overlap>>

(* _mark_sandbox_as_ready saves the pickled sandbox: an update, or an      *)
(* insert when the row is gone, or a refusal.                              *)
MarkReady(c) ==
    /\ c \in Alloc /\ job[c].at = Final /\ job[c].st = "queued"
    /\ IF UnitRow /\ sandbox.id \in {c, None}
       THEN sandbox' = [id |-> c, ready |-> TRUE] /\ Set(c, "done")
       ELSE Kill(c) /\ UNCHANGED sandbox
    /\ UNCHANGED <<unit, ghost, lock, creq, stage, web, stack, debited, crashed, passed, overlap>>

-----------------------------------------------------------------------------
(* Cancelling a request *)

Target(op) == IF op = "cancel_cleanup" THEN "clean" ELSE "alloc"
\* Mutant: off by one, the last stage is not cancelled.
BusyButTheLast(w, op, todo, sb, req) ==
    web' = [web EXCEPT ![w] =
        [op |-> op, todo |-> todo, sb |-> sb, req |-> req,
         snap |-> [k \in Stages |-> IF k < todo /\ Unfinished(Target(op), k)
                                    THEN stage[Target(op)][k].id ELSE None]]]

Busy(w, op, todo, sb, req) ==
    web' = [web EXCEPT ![w] =
        [op |-> op, todo |-> todo, sb |-> sb, req |-> req,
         snap |-> [k \in Stages |-> IF k <= todo /\ Unfinished(Target(op), k)
                                    THEN stage[Target(op)][k].id ELSE None]]]
Leave(w) == web' = [web EXCEPT ![w] = Idle]

(* cancel_request refuses a finished request and reads the stage rows.     *)
CancelAllocation(w) ==
    /\ web[w].op = "idle" /\ unit /\ Exists("alloc") /\ ~AllFinished("alloc")
    /\ Busy(w, "cancel", 3, None, None)
    /\ UNCHANGED <<rows, job, stack, debited, crashed, passed, overlap>>

CancelCleanup(w) ==
    /\ web[w].op = "idle" /\ creq # None /\ Exists("clean") /\ ~AllFinished("clean")
    /\ Busy(w, "cancel_cleanup", 3, None, None)
    /\ UNCHANGED <<rows, job, stack, debited, crashed, passed, overlap>>

(* StageHandler.cancel on the copy read above: delete the job and save the *)
(* copy as failed; a refused save ends the handler, and so does a process   *)
(* or a container of a running stage that cannot be stopped.               *)
CancelStage(w) ==
    LET t  == web[w]
        k  == t.todo
        s  == t.snap[k]
        row == stage[Target(t.op)][k]
        next == IF k = 1 /\ t.op # "force" THEN Idle
                ELSE [t EXCEPT !.todo = k - 1, !.snap[k] = None]
    IN
    /\ k # 0
    /\ IF s = None
       THEN /\ web' = [web EXCEPT ![w] = next]
            /\ UNCHANGED <<stage, job>>
       ELSE IF CanSave(s, k)
       THEN /\ \/ web' = [web EXCEPT ![w] = next]
               \/ Target(t.op) = "alloc" /\ row.state = "RUNNING" /\ Leave(w)
            /\ Save(s, k, "FAILED")
            /\ job' = [job EXCEPT ![s] =
                         IF row.id = s /\ row.rq THEN Cut(@, {k}) ELSE @]
       ELSE /\ Leave(w)
            /\ UNCHANGED <<stage, job>>
    /\ UNCHANGED <<unit, ghost, sandbox, lock, creq, stack, debited, crashed, passed, overlap>>

-----------------------------------------------------------------------------
(* Cleanup: the web thread *)

FirstStageRunning == stage["alloc"][1].state = "RUNNING"

(* create_cleanup_request: every check, on one look at the rows.           *)
CleanupCheck(w) ==
    /\ web[w].op = "idle" /\ unit
    /\ ~lock /\ Exists("alloc") /\ ~FirstStageRunning
    /\ AllFinished("alloc") /\ creq = None
    /\ Busy(w, "cleanup", 0, sandbox.id, None)
    /\ UNCHANGED <<rows, job, stack, debited, crashed, passed, overlap>>

(* create_cleanup_request_force: the lock is deleted before the check that *)
(* may still refuse; a running allocation is cancelled first.              *)
ForceCheck(w) ==
    /\ web[w].op = "idle" /\ unit /\ Exists("alloc")
    /\ creq # None => AllFinished("clean")
    /\ lock' = FALSE
    /\ IF FirstStageRunning
       THEN UNCHANGED web
       ELSE Busy(w, "force", IF AllFinished("alloc") THEN 0 ELSE 3, sandbox.id, creq)
    /\ UNCHANGED <<unit, ghost, sandbox, creq, stage, job, stack, debited, crashed, passed, overlap>>

(* After the NetBird teardown: delete the sandbox that was read, unless a  *)
(* new lock protects it, and queue the create job of a cleanup chain.      *)
CleanupDelete(w) ==
    LET t == web[w] IN
    /\ t.op \in {"cleanup", "force"} /\ t.todo = 0
    /\ Leave(w)
    /\ IF Protected(t.sb)
       THEN UNCHANGED <<sandbox, job>>
       ELSE /\ sandbox' = IF sandbox.id = t.sb
                          THEN [id |-> None, ready |-> FALSE] ELSE sandbox
            /\ \E c \in Clean :
                  /\ job[c].st = "new"
                  /\ job' = [job EXCEPT ![c].st = "queued", ![c].ref = t.req]
    /\ UNCHANGED <<unit, ghost, lock, creq, stage, stack, debited, crashed, passed, overlap>>

(* delete_cleanup_request: its stages go with it.                          *)
DeleteCleanup ==
    /\ creq # None /\ AllFinished("clean")
    /\ creq' = None
    /\ stage' = [stage EXCEPT !["clean"] = NoRows]
    /\ UNCHANGED <<unit, ghost, sandbox, lock, job, web, stack, debited, crashed, passed, overlap>>

-----------------------------------------------------------------------------
(* Cleanup: the workers *)

(* _create_cleanup_jobs: reuse the request that was read, or create one;   *)
(* a second request for the unit, or a vanished one, is refused.  The old  *)
(* stages are replaced.                                                    *)
CreateCleanup(c) ==
    /\ c \in Clean /\ job[c].at = Create /\ job[c].st = "queued"
    /\ IF UnitRow /\ creq = job[c].ref
       THEN /\ creq' = IF creq = None THEN c ELSE creq
            /\ stage' = [stage EXCEPT !["clean"] = [k \in Stages |-> Fresh(c)]]
            /\ job' = [job EXCEPT ![c].at = 1, ![c].rest = {2, 3, Final}, ![c].ref = creq']
       ELSE Kill(c) /\ UNCHANGED <<creq, stage>>
    /\ UNCHANGED <<unit, ghost, sandbox, lock, web, stack, debited, crashed, passed, overlap>>

\* Mutant: the pool's size is not decremented.
DebitNothing(c) ==
    /\ c \in Clean /\ job[c].at = Final /\ job[c].st = "queued"
    /\ Set(c, "running")
    /\ UNCHANGED <<rows, web, stack, debited, crashed, passed, overlap>>

(* _delete_allocation_unit, first transaction.                             *)
DebitPool(c) ==
    /\ c \in Clean /\ job[c].at = Final /\ job[c].st = "queued"
    /\ debited' = debited \cup {c}
    /\ Set(c, "running")
    /\ UNCHANGED <<rows, web, stack, crashed, passed, overlap>>

(* _delete_allocation_unit, the rest: a sandbox row protects the unit;     *)
(* otherwise both requests and their stages go with it.                    *)
DeleteUnit(c) ==
    /\ c \in Clean /\ job[c].at = Final /\ job[c].st = "running"
    /\ IF UnitRow /\ sandbox.id # None
       THEN Kill(c) /\ UNCHANGED rows
       ELSE /\ unit' = FALSE /\ ghost' = FALSE
            /\ creq' = None
            /\ stage' = [kd \in Kinds |-> NoRows]
            /\ Set(c, "done")
            /\ UNCHANGED <<sandbox, lock>>
    /\ UNCHANGED <<web, stack, debited, crashed, passed, overlap>>

(* PATCH of the unit's comment saves the whole row that was read: when the  *)
(* unit has been deleted since, the row is inserted again, without requests. *)
PatchUnit ==
    /\ ~UnitRow
    /\ ghost' = TRUE
    /\ UNCHANGED <<unit, sandbox, lock, creq, stage, job, web, stack, debited, crashed, passed, overlap>>

-----------------------------------------------------------------------------
(* Locks, as this unit sees them (SandboxLocks has the races for them).    *)

LockSandbox ==
    /\ sandbox.id # None /\ ~lock
    /\ lock' = TRUE
    /\ UNCHANGED <<unit, ghost, sandbox, creq, stage, job, web, stack, debited, crashed, passed, overlap>>

UnlockSandbox ==
    /\ lock
    /\ lock' = FALSE
    /\ UNCHANGED <<unit, ghost, sandbox, creq, stage, job, web, stack, debited, crashed, passed, overlap>>

-----------------------------------------------------------------------------
Worker(c) ==
    \/ StageStart(c) \/ StageOk(c) \/ StageFail(c) \/ ExceptionHandler(c)
    \/ RestartBegin(c) \/ RestartApply(c) \/ MarkReady(c)
    \/ CreateCleanup(c) \/ DebitPool(c) \/ DeleteUnit(c)

Request(w) ==
    CancelAllocation(w) \/ CancelCleanup(w) \/ CleanupCheck(w) \/ ForceCheck(w)

Continue(w) == CancelStage(w) \/ CleanupDelete(w)

Next ==
    \/ CreateAllocation
    \/ RequestRestart
    \/ DeleteCleanup
    \/ LockSandbox
    \/ UnlockSandbox
    \/ PatchUnit
    \/ \E c \in Chains : Worker(c) \/ WorkerCrash(c)
    \/ \E w \in Web : Request(w) \/ Continue(w)

Spec == Init /\ [][Next]_vars

(* Workers take queued jobs and every job has a timeout; a web thread that *)
(* has begun a handler runs it to its end.  Nobody has to ask for anything. *)
Fairness ==
    /\ WF_vars(CreateAllocation)
    /\ \A c \in Chains : WF_vars(Worker(c))
    /\ \A w \in Web : WF_vars(Continue(w))

FairSpec == Spec /\ Fairness

-----------------------------------------------------------------------------
(* Properties *)

(* A sandbox is ready only when its own chain completed the user stage, and *)
(* each earlier stage was completed by it or by the chain it restarted:     *)
(* _restart_stage_handlers repeats whatever failed, and the finalizer waits *)
(* for the stages.                                                          *)
ReadyEarned ==
    sandbox.ready =>
        /\ 3 \in passed[sandbox.id]
        /\ \A k \in Stages : \E c \in Alloc : k \in passed[c]

(* Once the unit is deleted its allocation stages never come back, and      *)
(* neither does anything else of it unless a late PATCH has made a ghost of *)
(* it: other saves of stale copies, by workers and web threads, are refused. *)
GoneIsGone ==
    ~unit => /\ stage["alloc"] = NoRows
             /\ ~ghost => /\ sandbox.id = None /\ ~lock
                          /\ creq = None /\ stage["clean"] = NoRows

(* The cloud stack outlives the unit only if an allocation chain worked on  *)
(* it while a cleanup chain existed: the finalizer runs after the stack     *)
(* stage of its own chain succeeded, never after a failed or cancelled one. *)
OrphanNeedsOverlap == ~unit /\ stack = "up" => overlap

(* A sandbox somebody holds is never deleted or replaced under the lock: a  *)
(* restart or a cleanup that read it before it was locked is refused.       *)
LockedStays == [][lock /\ lock' => sandbox'.id = sandbox.id]_vars

(* What the lock of this unit's sandbox promises is what every lock does    *)
(* (LockTable), through restarts, cleanups and late finalizers.             *)
Locks == INSTANCE LockTable WITH
    Sandbox <- Alloc, Holder <- {TRUE}, Free <- FALSE,
    present <- {sandbox.id} \ {None},
    holder <- [a \in Alloc |-> lock /\ sandbox.id = a]
LocksKept == Locks!Spec

(* A stage that is not finished always has somebody left to finish it: its  *)
(* job or one before it is alive, an exception handler is about to cancel   *)
(* it, or a web thread is cancelling it; or a worker has died.              *)
Attended(kd, k) ==
    LET r == stage[kd][k]
        j == job[r.id]
    IN  \/ j.at = k /\ j.st \in {"queued", "running"}
        \/ j.at < k /\ j.st \in {"queued", "running"} /\ k \in j.rest
        \/ j.at < k /\ j.st = "failed" /\ stage[kd][j.at].id = r.id
        \/ \E w \in Web : /\ web[w].op # "idle" /\ web[w].todo >= k
                          /\ (web[w].op = "cancel_cleanup") = (kd = "clean")
NoStageForgotten ==
    \A kd \in Kinds, k \in Stages :
        Unfinished(kd, k) => Attended(kd, k) \/ stage[kd][k].id \in crashed

(* Every stage is eventually finished or deleted, whatever fails and        *)
(* whoever cancels, as long as no worker dies.                              *)
StagesSettle ==
    \A kd \in Kinds, k \in Stages :
        Unfinished(kd, k) ~> ~Unfinished(kd, k)

(* "All stages finished without failing. Only failed stages can be          *)
(* restarted." (request_handlers.py:346-348): a restart leaves the ready    *)
(* sandbox of an allocation without failed stages alone.                    *)
RestartSparesReady ==
    [][sandbox.ready /\ (\A k \in Stages : ~Failed(k))
          => sandbox'.id \in {sandbox.id, None}]_vars

(* The unit keeps the account its pool relies on (UnitAccount): whatever    *)
(* fails, crashes or is asked for twice, the unit is deleted only by a      *)
(* finalizer that decremented Pool.size before.                             *)
Account == INSTANCE UnitAccount WITH
    Unit <- {First}, Chain <- Clean,
    gone <- IF unit THEN {} ELSE {First},
    debited <- [u \in {First} |-> debited]
AccountKept == Account!Spec
=============================================================================

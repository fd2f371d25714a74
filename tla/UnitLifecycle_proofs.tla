----------------------- MODULE UnitLifecycle_proofs -----------------------
(* Theorems about UnitLifecycle, for every number of restarts, cleanup     *)
(* chains, web threads and crashes.                                        *)
EXTENDS UnitLifecycle, TLAPS

-----------------------------------------------------------------------------
(* The helpers keep the types. *)

(* Saving a stage row leaves a table of stage rows.                        *)
LEMMA SaveType ==
    ASSUME stage \in [Kinds -> [Stages -> Row]], NEW c \in Chains,
           NEW k \in Stages, NEW s \in StageState, Save(c, k, s)
    PROVE  stage' \in [Kinds -> [Stages -> Row]]
<1> DEFINE r == [id |-> c, state |-> s,
                 rq |-> stage[Kind(c)][k].id = c /\ stage[Kind(c)][k].rq]
<1>1. Kind(c) \in Kinds
  BY DEF Kind, Kinds
<1>2. r \in Row
  BY DEF Row
<1>3. stage' = [stage EXCEPT ![Kind(c)] = [stage[Kind(c)] EXCEPT ![k] = r]]
  BY DEF Save
<1>4. [stage[Kind(c)] EXCEPT ![k] = r] \in [Stages -> Row]
  <2> HIDE DEF r
  <2> QED BY <1>1, <1>2
<1> HIDE DEF r
<1> QED BY <1>1, <1>3, <1>4

(* The steps of a chain leave a table of chains.                           *)
LEMMA SetType ==
    ASSUME job \in [Chains -> Job], NEW c \in Chains,
           NEW s \in {"new", "queued", "running", "failed", "dead", "done"}, Set(c, s)
    PROVE  job' \in [Chains -> Job]
BY DEF Set, Job

\* A killed job leaves a table of chains.
LEMMA KillType ==
    ASSUME job \in [Chains -> Job], NEW c \in Chains, Kill(c)
    PROVE  job' \in [Chains -> Job]
<1> DEFINE j == [job[c] EXCEPT !.st = "dead", !.rest = {}, !.ref = None]
<1>1. j \in Job
  BY DEF Job
<1>2. job' = [job EXCEPT ![c] = j]
  BY DEF Kill
<1> HIDE DEF j
<1> QED BY <1>1, <1>2

\* Releasing the next job leaves a table of chains.
LEMMA ReleaseType ==
    ASSUME job \in [Chains -> Job], NEW c \in Chains, Release(c)
    PROVE  job' \in [Chains -> Job]
<1>1. CASE job[c].rest = {}
  BY <1>1, KillType DEF Release
<1>2. CASE job[c].rest # {}
  <2>1. PICK p \in job[c].rest :
          job' = [job EXCEPT ![c].at = p, ![c].st = "queued", ![c].rest = @ \ {p}]
    BY <1>2 DEF Release
  <2>2. /\ job[c] \in Job
        /\ p \in 1..4
        /\ job[c].rest \ {p} \in SUBSET (1..4)
    BY DEF Job
  <2>3. job' = [job EXCEPT ![c] = [at |-> p, st |-> "queued",
                                  rest |-> job[c].rest \ {p}, ref |-> job[c].ref]]
    BY <2>1, <2>2 DEF Job
  <2> QED BY <2>2, <2>3 DEF Job
<1> QED BY <1>1, <1>2

\* Deleting jobs of a chain leaves a chain.
LEMMA CutType ==
    ASSUME NEW j \in Job, NEW D
    PROVE  Cut(j, D) \in Job
BY DEF Cut, Job

(* The positions in a chain, its kinds and the rows it makes have the types *)
(* the variables are declared with.                                         *)
LEMMA Positions ==
    /\ Create \in 0..4 /\ Final \in 0..4 /\ Final \in 1..4
    /\ Stages \subseteq 1..4 /\ Stages \subseteq 0..4
    /\ "alloc" \in Kinds /\ "clean" \in Kinds
BY DEF Create, Final, Stages, Kinds

\* A row has the fields of a row.
LEMMA RowTypes ==
    /\ NoRow \in Row /\ NoRows \in [Stages -> Row]
    /\ \A c \in Chains : Fresh(c) \in Row
BY DEF NoRow, NoRows, Row, Fresh, StageState

\* The sandbox row has its two fields.
LEMMA SandboxType ==
    \A i \in Alloc \cup {None}, b \in BOOLEAN :
        [id |-> i, ready |-> b] \in [id : Alloc \cup {None}, ready : BOOLEAN]
OBVIOUS

(* Beginning and leaving a handler leaves a table of threads.              *)
LEMMA ThreadType ==
    ASSUME TypeOK, NEW w \in Web,
           NEW op \in {"idle", "cancel", "cancel_cleanup", "cleanup", "force"},
           NEW todo \in 0..3, NEW sb \in Alloc \cup {None}, NEW req \in Clean \cup {None},
           Busy(w, op, todo, sb, req)
    PROVE  web' \in [Web -> Thread]
<1> DEFINE snap == [k \in Stages |-> IF k <= todo /\ Unfinished(Target(op), k)
                                    THEN stage[Target(op)][k].id ELSE None]
<1>1. Target(op) \in Kinds
  BY DEF Target, Kinds
<1>2. \A k \in Stages : stage[Target(op)][k].id \in Chains \cup {None}
  BY <1>1 DEF TypeOK, Row
<1>3. snap \in [Stages -> Chains \cup {None}]
  BY <1>2
<1>4. web' = [web EXCEPT ![w] = [op |-> op, todo |-> todo, sb |-> sb, req |-> req,
                                snap |-> snap]]
  BY DEF Busy
<1> HIDE DEF snap
<1>5. [op |-> op, todo |-> todo, sb |-> sb, req |-> req, snap |-> snap] \in Thread
  BY <1>3 DEF Thread
<1> QED BY <1>4, <1>5 DEF TypeOK

\* Leaving a handler leaves a table of threads.
LEMMA LeaveType ==
    ASSUME TypeOK, NEW w \in Web, Leave(w)
    PROVE  web' \in [Web -> Thread]
<1>1. Idle \in Thread
  BY DEF Idle, NoSnap, Thread
<1> QED BY <1>1 DEF Leave, TypeOK

-----------------------------------------------------------------------------
(* Every variable keeps its type, whatever the jobs and handlers do.       *)
LEMMA TypeInductive == TypeOK /\ [Next]_vars => TypeOK'
<1> SUFFICES ASSUME TypeOK, [Next]_vars PROVE TypeOK'
  OBVIOUS
<1> USE Positions, RowTypes
<1>1. CASE CreateAllocation
  <2>1. First \in Alloc /\ First \in Chains
    BY LifecycleAssumption DEF Chains
  <2>2. stage' \in [Kinds -> [Stages -> Row]]
    BY <1>1, <2>1 DEF CreateAllocation, TypeOK
  <2>3. job' \in [Chains -> Job]
    <3> DEFINE j == [job[First] EXCEPT !.at = 1, !.rest = {2, 3, Final}]
    <3>1. j \in Job
      <4>1. {2, 3, Final} \in SUBSET (1..4)
        BY DEF Final
      <4>2. job[First] \in Job /\ 1 \in 0..4
        BY <2>1 DEF TypeOK
      <4> QED BY <4>1, <4>2 DEF Job
    <3>2. job' = [job EXCEPT ![First] = j]
      BY <1>1 DEF CreateAllocation
    <3> QED BY <2>1, <3>1, <3>2 DEF TypeOK
  <2> QED BY <1>1, <2>1, <2>2, <2>3 DEF CreateAllocation, TypeOK
<1>2. CASE RequestRestart
  <2>1. job' \in [Chains -> Job]
    BY <1>2, SetType DEF RequestRestart, TypeOK, Chains
  <2> QED BY <1>2, <2>1 DEF RequestRestart, TypeOK, rows
<1>3. CASE DeleteCleanup
  BY <1>3 DEF DeleteCleanup, TypeOK
<1>4. CASE LockSandbox
  BY <1>4 DEF LockSandbox, TypeOK
<1>5. CASE UnlockSandbox \/ PatchUnit
  BY <1>5 DEF UnlockSandbox, PatchUnit, TypeOK
<1>6. ASSUME NEW c \in Chains, Worker(c) PROVE TypeOK'
  <2>1. CASE StageStart(c)
    <3> DEFINE k == job[c].at
    <3>1. stage' \in [Kinds -> [Stages -> Row]]
      BY <2>1, SaveType DEF StageStart, TypeOK, StageState
    <3>2. job' \in [Chains -> Job]
      BY <2>1, SetType, KillType DEF StageStart, TypeOK
    <3> QED BY <2>1, <3>1, <3>2 DEF StageStart, TypeOK, Overlaps
  <2>2. CASE StageOk(c)
    <3>1. stage' \in [Kinds -> [Stages -> Row]]
      BY <2>2, SaveType DEF StageOk, TypeOK, StageState
    <3>2. job' \in [Chains -> Job]
      BY <2>2, ReleaseType, KillType DEF StageOk, TypeOK
    <3>3. passed' \in [Alloc -> SUBSET Stages]
      BY <2>2 DEF StageOk, TypeOK
    <3> QED BY <2>2, <3>1, <3>2, <3>3 DEF StageOk, TypeOK, Overlaps
  <2>3. CASE StageFail(c)
    <3>1. stage' \in [Kinds -> [Stages -> Row]]
      BY <2>3, SaveType DEF StageFail, TypeOK, StageState
    <3>2. job' \in [Chains -> Job]
      BY <2>3, SetType, KillType DEF StageFail, TypeOK
    <3> QED BY <2>3, <3>1, <3>2 DEF StageFail, TypeOK, Overlaps
  <2>4. CASE ExceptionHandler(c)
    <3> DEFINE kd == Kind(c)
               known == stage[kd][job[c].at].id = c /\ stage[kd][job[c].at].rq
               hit(k) == known /\ Unfinished(kd, k)
               D(i) == {k \in Stages : hit(k) /\ stage[kd][k].id = i /\ stage[kd][k].rq}
               cut == [i \in Chains |-> Cut(job[i], D(i))]
               row(k) == IF hit(k) THEN [stage[kd][k] EXCEPT !.state = "FAILED"]
                         ELSE stage[kd][k]
    <3>1. job' \in [Chains -> Job]
      <4>1. cut \in [Chains -> Job]
        BY CutType DEF TypeOK
      <4>2. job' = [cut EXCEPT ![c].st = "dead"]
        BY <2>4 DEF ExceptionHandler
      <4> HIDE DEF cut
      <4> QED BY <4>1, <4>2 DEF Job
    <3>2. stage' \in [Kinds -> [Stages -> Row]]
      <4>1. kd \in Kinds
        BY DEF Kind, Kinds
      <4>2. \A k \in Stages : stage[kd][k] \in Row
        BY <4>1 DEF TypeOK
      <4>3. \A k \in Stages : row(k) \in Row
        BY <4>2 DEF Row, StageState
      <4>4. stage' = [stage EXCEPT ![kd] = [k \in Stages |-> row(k)]]
        BY <2>4 DEF ExceptionHandler
      <4> HIDE DEF row, kd
      <4> QED BY <4>1, <4>3, <4>4 DEF TypeOK
    <3> QED BY <2>4, <3>1, <3>2 DEF ExceptionHandler, TypeOK
  <2>5. CASE RestartBegin(c)
    <3>1. sandbox.id \in Chains \cup {None}
      BY DEF TypeOK, Chains
    <3>2. job' \in [Chains -> Job]
      <4>1. CASE Kill(c)
        BY <4>1, KillType DEF TypeOK
      <4>2. CASE job' = [job EXCEPT ![c].st = "running", ![c].ref = sandbox.id]
        <5>1. [job[c] EXCEPT !.st = "running", !.ref = sandbox.id] \in Job
          <6>1. job[c] \in Job
            BY DEF TypeOK
          <6> QED BY <3>1, <6>1 DEF Job
        <5>2. job' = [job EXCEPT ![c] = [job[c] EXCEPT !.st = "running", !.ref = sandbox.id]]
          BY <4>2
        <5> QED BY <5>1, <5>2 DEF TypeOK
      <4> QED BY <2>5, <4>1, <4>2 DEF RestartBegin
    <3> QED BY <2>5, <3>2 DEF RestartBegin, TypeOK, rows
  <2>6. CASE RestartApply(c)
    <3> DEFINE new == [k \in Stages |-> IF k \in ToRestart THEN Fresh(c) ELSE stage["alloc"][k]]
               next(p) == [job[c] EXCEPT !.at = p, !.st = "queued", !.ref = None,
                                         !.rest = (ToRestart \cup {Final}) \ {p}]
    <3>1. stage' \in [Kinds -> [Stages -> Row]]
      <4>1. new \in [Stages -> Row]
        BY DEF TypeOK
      <4>2. stage' = [stage EXCEPT !["alloc"] = new] \/ stage' = stage
        BY <2>6 DEF RestartApply
      <4> HIDE DEF new
      <4> QED BY <4>1, <4>2 DEF TypeOK
    <3>2. job' \in [Chains -> Job]
      <4>1. ToRestart \subseteq 1..3 /\ (ToRestart \cup {Final}) \subseteq 1..4
        BY DEF ToRestart, Final
      <4>2. \A p \in ToRestart : next(p) \in Job
        <5> TAKE p \in ToRestart
        <5>1. p \in 0..4 /\ (ToRestart \cup {Final}) \ {p} \in SUBSET (1..4)
          BY <4>1
        <5>2. job[c] \in Job
          BY DEF TypeOK
        <5> QED BY <5>1, <5>2 DEF Job
      <4>3. Kill(c) \/ \E p \in ToRestart :
              job' = [job EXCEPT ![c].at = p, ![c].st = "queued", ![c].ref = None,
                                ![c].rest = (ToRestart \cup {Final}) \ {p}]
        BY <2>6 DEF RestartApply
      <4>4. Kill(c) \/ \E p \in ToRestart : job' = [job EXCEPT ![c] = next(p)]
        <5>1. ASSUME NEW p \in ToRestart,
                     job' = [job EXCEPT ![c].at = p, ![c].st = "queued", ![c].ref = None,
                                       ![c].rest = (ToRestart \cup {Final}) \ {p}]
              PROVE  job' = [job EXCEPT ![c] = next(p)]
          BY <5>1
        <5> QED BY <4>3, <5>1
      <4> HIDE DEF next
      <4> QED BY <4>2, <4>4, KillType DEF TypeOK
    <3>3. sandbox' \in [id : Alloc \cup {None}, ready : BOOLEAN]
      <4>1. sandbox' = sandbox \/ sandbox' = [id |-> c, ready |-> FALSE]
        BY <2>6 DEF RestartApply
      <4> QED BY <2>6, <4>1, SandboxType DEF RestartApply, TypeOK
    <3> QED BY <2>6, <3>1, <3>2, <3>3 DEF RestartApply, TypeOK
  <2>7. CASE MarkReady(c)
    <3>1. job' \in [Chains -> Job]
      BY <2>7, SetType, KillType DEF MarkReady, TypeOK
    <3>2. sandbox' = sandbox \/ sandbox' = [id |-> c, ready |-> TRUE]
      BY <2>7 DEF MarkReady
    <3>3. sandbox' \in [id : Alloc \cup {None}, ready : BOOLEAN]
      BY <2>7, <3>2, SandboxType DEF MarkReady, TypeOK
    <3> QED BY <2>7, <3>1, <3>3 DEF MarkReady, TypeOK
  <2>8. CASE CreateCleanup(c)
    <3>1. creq' \in Clean \cup {None}
      BY <2>8 DEF CreateCleanup, TypeOK
    <3>2. stage' \in [Kinds -> [Stages -> Row]]
      <4> DEFINE new == [k \in Stages |-> Fresh(c)]
      <4>1. new \in [Stages -> Row]
        OBVIOUS
      <4>2. stage' = [stage EXCEPT !["clean"] = new] \/ stage' = stage
        BY <2>8 DEF CreateCleanup
      <4> HIDE DEF new
      <4> QED BY <4>1, <4>2 DEF TypeOK
    <3>3. job' \in [Chains -> Job]
      <4>1. CASE Kill(c)
        BY <4>1, KillType DEF TypeOK
      <4>2. CASE job' = [job EXCEPT ![c].at = 1, ![c].rest = {2, 3, Final}, ![c].ref = creq']
        <5>1. 1 \in 0..4 /\ {2, 3, Final} \in SUBSET (1..4) /\ creq' \in Chains \cup {None}
          BY <3>1 DEF Final, Chains
        <5>2. job[c] \in Job
          BY DEF TypeOK
        <5>3. [job[c] EXCEPT !.at = 1, !.rest = {2, 3, Final}, !.ref = creq'] \in Job
          BY <5>1, <5>2 DEF Job
        <5>4. job' = [job EXCEPT ![c] =
                        [job[c] EXCEPT !.at = 1, !.rest = {2, 3, Final}, !.ref = creq']]
          BY <4>2
        <5> QED BY <5>3, <5>4 DEF TypeOK
      <4> QED BY <2>8, <4>1, <4>2 DEF CreateCleanup
    <3> QED BY <2>8, <3>1, <3>2, <3>3 DEF CreateCleanup, TypeOK
  <2>9. CASE DebitPool(c)
    <3>1. job' \in [Chains -> Job]
      BY <2>9, SetType DEF DebitPool, TypeOK
    <3> QED BY <2>9, <3>1 DEF DebitPool, TypeOK, rows
  <2>10. CASE DeleteUnit(c)
    <3>1. job' \in [Chains -> Job]
      BY <2>10, SetType, KillType DEF DeleteUnit, TypeOK
    <3> QED BY <2>10, <3>1 DEF DeleteUnit, TypeOK, rows
  <2> QED BY <1>6, <2>1, <2>2, <2>3, <2>4, <2>5, <2>6, <2>7, <2>8, <2>9, <2>10 DEF Worker
<1>7. ASSUME NEW c \in Chains, WorkerCrash(c) PROVE TypeOK'
  <2>1. job' \in [Chains -> Job]
    BY <1>7, KillType DEF WorkerCrash, TypeOK
  <2> QED BY <1>7, <2>1 DEF WorkerCrash, TypeOK, rows
<1>8. ASSUME NEW w \in Web, Request(w) PROVE TypeOK'
  <2>1. CASE CancelAllocation(w)
    <3>1. web' \in [Web -> Thread]
      BY <2>1, ThreadType DEF CancelAllocation
    <3> QED BY <2>1, <3>1 DEF CancelAllocation, TypeOK, rows
  <2>2. CASE CancelCleanup(w)
    <3>1. web' \in [Web -> Thread]
      BY <2>2, ThreadType DEF CancelCleanup
    <3> QED BY <2>2, <3>1 DEF CancelCleanup, TypeOK, rows
  <2>3. CASE CleanupCheck(w)
    <3>1. sandbox.id \in Alloc \cup {None}
      BY DEF TypeOK
    <3>2. Busy(w, "cleanup", 0, sandbox.id, None)
      BY <2>3 DEF CleanupCheck
    <3>3. web' \in [Web -> Thread]
      BY <3>1, <3>2, ThreadType
    <3> QED BY <2>3, <3>3 DEF CleanupCheck, TypeOK, rows
  <2>4. CASE ForceCheck(w)
    <3>1. sandbox.id \in Alloc \cup {None} /\ creq \in Clean \cup {None}
      BY DEF TypeOK
    <3>2. (IF AllFinished("alloc") THEN 0 ELSE 3) \in 0..3
      OBVIOUS
    <3>3. web' \in [Web -> Thread]
      BY <2>4, <3>1, <3>2, ThreadType DEF ForceCheck, TypeOK
    <3> QED BY <2>4, <3>3 DEF ForceCheck, TypeOK
  <2> QED BY <1>8, <2>1, <2>2, <2>3, <2>4 DEF Request
<1>9. ASSUME NEW w \in Web, Continue(w) PROVE TypeOK'
  <2>1. CASE CancelStage(w)
    <3> DEFINE t == web[w]
               k == t.todo
               s == t.snap[k]
               next == IF k = 1 /\ t.op # "force" THEN Idle
                       ELSE [t EXCEPT !.todo = k - 1, !.snap[k] = None]
    <3>1. t \in Thread /\ k \in Stages /\ s \in Chains \cup {None}
      BY <2>1 DEF CancelStage, TypeOK, Thread, Stages
    <3>2. next \in Thread
      <4>1. Idle \in Thread
        BY DEF Idle, NoSnap, Thread
      <4>2. k - 1 \in 0..3
        BY <3>1 DEF Stages
      <4>3. [t.snap EXCEPT ![k] = None] \in [Stages -> Chains \cup {None}]
        BY <3>1 DEF Thread
      <4>4. [t EXCEPT !.todo = k - 1, !.snap = [t.snap EXCEPT ![k] = None]] \in Thread
        BY <3>1, <4>2, <4>3 DEF Thread
      <4> QED BY <4>1, <4>4
    <3>3. web' \in [Web -> Thread]
      <4>1. web' = [web EXCEPT ![w] = next] \/ Leave(w)
        BY <2>1 DEF CancelStage
      <4> HIDE DEF next
      <4> QED BY <4>1, <3>2, LeaveType DEF TypeOK
    <3>4. CASE s # None /\ CanSave(s, k)
      <4>1. s \in Chains /\ Save(s, k, "FAILED")
        BY <2>1, <3>1, <3>4 DEF CancelStage
      <4>2. stage' \in [Kinds -> [Stages -> Row]]
        BY <3>1, <4>1, SaveType DEF TypeOK, StageState
      <4>3. job' \in [Chains -> Job]
        <5>1. job[s] \in Job /\ Cut(job[s], {k}) \in Job
          BY <4>1, CutType DEF TypeOK
        <5>2. PICK j \in Job : job' = [job EXCEPT ![s] = j]
          BY <2>1, <3>4, <5>1 DEF CancelStage
        <5> QED BY <4>1, <5>2 DEF TypeOK
      <4> QED BY <2>1, <3>3, <4>2, <4>3 DEF CancelStage, TypeOK
    <3>5. CASE ~(s # None /\ CanSave(s, k))
      BY <2>1, <3>3, <3>5 DEF CancelStage, TypeOK
    <3> QED BY <3>4, <3>5
  <2>2. CASE CleanupDelete(w)
    <3>1. web[w].req \in Chains \cup {None}
      BY DEF TypeOK, Thread, Chains
    <3>2. job' \in [Chains -> Job]
      <4>1. CASE UNCHANGED job
        BY <4>1 DEF TypeOK
      <4>2. CASE \E c \in Clean : job' = [job EXCEPT ![c].st = "queued", ![c].ref = web[w].req]
        <5>1. PICK c \in Clean : job' = [job EXCEPT ![c].st = "queued", ![c].ref = web[w].req]
          BY <4>2
        <5>2. c \in Chains /\ job[c] \in Job
          BY DEF TypeOK, Chains
        <5>3. [job[c] EXCEPT !.st = "queued", !.ref = web[w].req] \in Job
          BY <3>1, <5>2 DEF Job
        <5>4. job' = [job EXCEPT ![c] = [job[c] EXCEPT !.st = "queued", !.ref = web[w].req]]
          BY <5>1
        <5> QED BY <5>2, <5>3, <5>4 DEF TypeOK
      <4> QED BY <2>2, <4>1, <4>2 DEF CleanupDelete
    <3>3. web' \in [Web -> Thread]
      BY <2>2, LeaveType DEF CleanupDelete
    <3>4. sandbox' \in [id : Alloc \cup {None}, ready : BOOLEAN]
      <4>1. sandbox' = sandbox \/ sandbox' = [id |-> None, ready |-> FALSE]
        BY <2>2 DEF CleanupDelete
      <4> QED BY <4>1, SandboxType DEF TypeOK
    <3> QED BY <2>2, <3>2, <3>3, <3>4 DEF CleanupDelete, TypeOK
  <2> QED BY <1>9, <2>1, <2>2 DEF Continue
<1>10. CASE UNCHANGED vars
  BY <1>10 DEF TypeOK, vars, rows
<1> QED BY <1>1, <1>2, <1>3, <1>4, <1>5, <1>6, <1>7, <1>8, <1>9, <1>10 DEF Next

\* Every variable has its type when the unit has been created.
LEMMA TypeInitially == Init => TypeOK
<1> SUFFICES ASSUME Init PROVE TypeOK
  OBVIOUS
<1>1. job \in [Chains -> Job]
  BY DEF Init, NewJob, Job, Create
<1>2. stage \in [Kinds -> [Stages -> Row]]
  BY RowTypes DEF Init
<1>3. web \in [Web -> Thread]
  BY DEF Init, Idle, NoSnap, Thread
<1> QED BY <1>1, <1>2, <1>3 DEF Init, TypeOK

(* The type invariant of the unit, its job chains and its web threads.     *)
THEOREM TypeCorrect == Spec => []TypeOK
<1> QED BY TypeInitially, TypeInductive, PTL DEF Spec

-----------------------------------------------------------------------------
(* What a step does to a chain *)

\* The chain loses jobs from its end, or none, and none begins.
Trimmed(j, i) ==
    /\ i.at = j.at
    /\ i.rest \subseteq j.rest
    /\ \A p \in i.rest, q \in j.rest : q < p => q \in i.rest
Spared(j, i) == Trimmed(j, i) /\ i.st \in {j.st, "dead"}

\* The job that can run changes its status, the chain does not.
Becomes(d, st) == job'[d].at = job[d].at /\ job'[d].rest = job[d].rest /\ job'[d].st = st

\* The job at p is queued, and others behind it.
Queues(d, p, behind) == job'[d].at = p /\ job'[d].rest = behind /\ job'[d].st = "queued"

\* Everything that can happen to the chain d.
Begins(d) == Queues(d, 1, {2, 3, 4}) /\ (CreateCleanup(d) \/ (d = First /\ CreateAllocation))
Restarts(d) ==
    /\ RestartApply(d) /\ Restartable
    /\ \E p \in ToRestart :
          /\ \A q \in ToRestart : p <= q
          /\ Queues(d, p, (ToRestart \cup {4}) \ {p})
Passes(d) ==
    /\ StageOk(d) /\ CanSave(d, job[d].at)
    /\ \E p \in job[d].rest :
          /\ \A q \in job[d].rest : p <= q
          /\ Queues(d, p, job[d].rest \ {p})
JobStep(d) ==
    \/ Spared(job[d], job'[d])
    \/ Becomes(d, "queued") /\ job[d].st = "new" /\ (d \in Alloc \/ \E w \in Web : CleanupDelete(w))
    \/ Becomes(d, "running") /\ \/ StageStart(d)
                                \/ RestartBegin(d) /\ sandbox.id # None
                                \/ DebitPool(d)
    \/ Becomes(d, "failed") /\ StageFail(d)
    \/ Becomes(d, "done") /\ (MarkReady(d) \/ DeleteUnit(d))
    \/ Begins(d)
    \/ Restarts(d)
    \/ Passes(d)

\* Killing a job cuts off the tail of its chain.
LEMMA KillSpares ==
    ASSUME job \in [Chains -> Job], NEW c \in Chains, Kill(c), NEW d \in Chains
    PROVE  Spared(job[d], job'[d])
BY DEF Kill, Spared, Trimmed, Job

\* Deleting jobs cuts off the tail of a chain.
LEMMA CutSpares ==
    ASSUME NEW j \in Job, NEW D \in SUBSET Stages
    PROVE  Spared(j, Cut(j, D))
BY DEF Spared, Trimmed, Cut, Job, Stages

\* A change of status touches one chain.
LEMMA SetBecomes ==
    ASSUME job \in [Chains -> Job], NEW c \in Chains, NEW st, Set(c, st), NEW d \in Chains
    PROVE  job'[d] = job[d] \/ (d = c /\ Becomes(d, st))
BY DEF Set, Becomes, Job

\* So does a change of its key.
LEMMA NewFields ==
    ASSUME job \in [Chains -> Job], NEW c \in Chains, NEW st, NEW ref,
           job' = [job EXCEPT ![c].st = st, ![c].ref = ref], NEW d \in Chains
    PROVE  job'[d] = job[d] \/ (d = c /\ Becomes(d, st))
<1>1. CASE c # d
  BY <1>1
<1>2. CASE c = d
  <2>1. job[c] \in Job
    OBVIOUS
  <2>2. job'[c] = [job[c] EXCEPT !.st = st, !.ref = ref]
    OBVIOUS
  <2> QED BY <1>2, <2>1, <2>2 DEF Job, Becomes
<1> QED BY <1>1, <1>2

\* Releasing a job touches one chain.
LEMMA ReleaseQueues ==
    ASSUME job \in [Chains -> Job], NEW c \in Chains, Release(c), NEW d \in Chains
    PROVE  \/ Spared(job[d], job'[d])
           \/ d = c /\ \E p \in job[d].rest :
                          /\ \A q \in job[d].rest : p <= q
                          /\ Queues(d, p, job[d].rest \ {p})
<1>1. CASE job[c].rest = {}
  BY <1>1, KillSpares DEF Release
<1>2. CASE job[c].rest # {}
  <2>1. PICK p \in job[c].rest :
          /\ \A q \in job[c].rest : p <= q
          /\ job' = [job EXCEPT ![c].at = p, ![c].st = "queued", ![c].rest = @ \ {p}]
    BY <1>2 DEF Release
  <2>2. d = c => Queues(d, p, job[d].rest \ {p})
    BY <2>1 DEF Job, Queues
  <2>3. d # c => job'[d] = job[d]
    BY <2>1
  <2> QED BY <2>1, <2>2, <2>3 DEF Spared, Trimmed
<1> QED BY <1>1, <1>2

\* What one step may do to a chain.
LEMMA JobSteps ==
    ASSUME TypeOK, [Next]_vars, NEW d \in Chains
    PROVE  JobStep(d)
<1> job \in [Chains -> Job] /\ job[d] \in Job /\ First \in Chains
  BY LifecycleAssumption DEF TypeOK, Chains
<1>1. ASSUME job'[d] = job[d] PROVE JobStep(d)
  BY <1>1 DEF JobStep, Spared, Trimmed
<1>2. ASSUME NEW c \in Chains, Kill(c) PROVE JobStep(d)
  BY <1>2, KillSpares DEF JobStep
<1>3. CASE CreateAllocation
  <2>1. job' = [job EXCEPT ![First].at = 1, ![First].rest = {2, 3, Final}]
    BY <1>3 DEF CreateAllocation
  <2>2. d # First => job'[d] = job[d]
    BY <2>1
  <2>3. d = First => Queues(d, 1, {2, 3, 4})
    BY <1>3, <2>1 DEF CreateAllocation, Job, Queues, Final
  <2> QED BY <1>1, <1>3, <2>2, <2>3 DEF JobStep, Begins
<1>4. CASE RequestRestart
  <2>1. PICK c \in Alloc \ {First} : job[c].st = "new" /\ Set(c, "queued")
    BY <1>4 DEF RequestRestart
  <2> QED BY <1>1, <2>1, SetBecomes DEF JobStep, Chains
<1>5. CASE DeleteCleanup \/ LockSandbox \/ UnlockSandbox \/ PatchUnit \/ UNCHANGED vars
  BY <1>1, <1>5 DEF DeleteCleanup, LockSandbox, UnlockSandbox, PatchUnit, vars
<1>6. ASSUME NEW c \in Chains, Worker(c) PROVE JobStep(d)
  <2>1. CASE StageStart(c)
    BY <1>1, <1>2, <2>1, SetBecomes DEF StageStart, JobStep
  <2>2. CASE StageOk(c)
    BY <1>2, <2>2, ReleaseQueues DEF StageOk, JobStep, Passes
  <2>3. CASE StageFail(c)
    BY <1>1, <1>2, <2>3, SetBecomes DEF StageFail, JobStep
  <2>4. CASE ExceptionHandler(c)
    <3>1. PICK D \in SUBSET Stages : Spared(Cut(job[d], D), job'[d])
      <4> DEFINE kd == Kind(c)
                 known == stage[kd][job[c].at].id = c /\ stage[kd][job[c].at].rq
                 hit(k) == known /\ Unfinished(kd, k)
                 D(i) == {k \in Stages : hit(k) /\ stage[kd][k].id = i /\ stage[kd][k].rq}
                 cut == [i \in Chains |-> Cut(job[i], D(i))]
      <4>1. job' = [cut EXCEPT ![c].st = "dead"]
        BY <2>4 DEF ExceptionHandler
      <4>2. cut[d] = Cut(job[d], D(d)) /\ cut[d] \in Job
        BY CutType
      <4>3. D(d) \in SUBSET Stages
        OBVIOUS
      <4>4. cut \in [Chains -> Job]
        BY CutType
      <4>5. Spared(cut[d], job'[d])
        <5> HIDE DEF cut
        <5> QED BY <4>1, <4>2, <4>4 DEF Spared, Trimmed, Job
      <4> HIDE DEF cut, D
      <4> QED BY <4>2, <4>3, <4>5
    <3>2. Spared(job[d], Cut(job[d], D))
      BY CutSpares
    <3>3. Spared(job[d], job'[d])
      BY <3>1, <3>2 DEF Spared, Trimmed
    <3> QED BY <3>3 DEF JobStep
  <2>5. CASE RestartBegin(c)
    <3>1. CASE Kill(c)
      BY <1>2, <3>1
    <3>2. CASE job' = [job EXCEPT ![c].st = "running", ![c].ref = sandbox.id]
      <4>1. CASE sandbox.id # None
        BY <1>1, <2>5, <3>2, <4>1, NewFields DEF JobStep
      <4>2. CASE sandbox.id = None
        BY <1>2, <2>5, <4>2 DEF RestartBegin
      <4> QED BY <4>1, <4>2
    <3> QED BY <2>5, <3>1, <3>2 DEF RestartBegin
  <2>6. CASE RestartApply(c)
    <3>1. CASE Kill(c)
      BY <1>2, <3>1
    <3>2. ASSUME Restartable, NEW p \in ToRestart, \A q \in ToRestart : p <= q,
                 job' = [job EXCEPT ![c].at = p, ![c].st = "queued", ![c].ref = None,
                                    ![c].rest = (ToRestart \cup {Final}) \ {p}]
          PROVE  JobStep(d)
      <4>1. d # c => job'[d] = job[d]
        BY <3>2
      <4>2. d = c => Queues(d, p, (ToRestart \cup {4}) \ {p})
        BY <3>2 DEF Job, Queues, Final
      <4> QED BY <1>1, <2>6, <3>2, <4>1, <4>2 DEF JobStep, Restarts
    <3> QED BY <2>6, <3>1, <3>2 DEF RestartApply
  <2>7. CASE MarkReady(c)
    BY <1>1, <1>2, <2>7, SetBecomes DEF MarkReady, JobStep
  <2>8. CASE CreateCleanup(c)
    <3>1. CASE Kill(c)
      BY <1>2, <3>1
    <3>2. CASE job' = [job EXCEPT ![c].at = 1, ![c].rest = {2, 3, Final}, ![c].ref = creq']
      <4>1. d # c => job'[d] = job[d]
        BY <3>2
      <4>2. d = c => Queues(d, 1, {2, 3, 4})
        BY <2>8, <3>2 DEF CreateCleanup, Job, Queues, Final
      <4> QED BY <1>1, <2>8, <4>1, <4>2 DEF JobStep, Begins
    <3> QED BY <2>8, <3>1, <3>2 DEF CreateCleanup
  <2>9. CASE DebitPool(c)
    BY <1>1, <2>9, SetBecomes DEF DebitPool, JobStep
  <2>10. CASE DeleteUnit(c)
    BY <1>1, <1>2, <2>10, SetBecomes DEF DeleteUnit, JobStep
  <2> QED BY <1>6, <2>1, <2>2, <2>3, <2>4, <2>5, <2>6, <2>7, <2>8, <2>9, <2>10 DEF Worker
<1>7. ASSUME NEW c \in Chains, WorkerCrash(c) PROVE JobStep(d)
  BY <1>2, <1>7 DEF WorkerCrash
<1>8. ASSUME NEW w \in Web, Request(w) PROVE JobStep(d)
  BY <1>1, <1>8 DEF Request, CancelAllocation, CancelCleanup, CleanupCheck, ForceCheck
<1>9. ASSUME NEW w \in Web, Continue(w) PROVE JobStep(d)
  <2>1. CASE CancelStage(w)
    <3> DEFINE t == web[w]
               k == t.todo
               s == t.snap[k]
    <3>1. k \in Stages
      BY <2>1 DEF CancelStage, TypeOK, Thread, Stages
    <3>2. job' = job \/ job' = [job EXCEPT ![s] = Cut(@, {k})] \/ job' = [job EXCEPT ![s] = @]
      BY <2>1 DEF CancelStage
    <3>3. job'[d] = job[d] \/ job'[d] = Cut(job[d], {k})
      BY <3>2
    <3>4. Spared(job[d], Cut(job[d], {k}))
      BY <3>1, CutSpares
    <3> QED BY <1>1, <3>3, <3>4 DEF JobStep
  <2>2. CASE CleanupDelete(w)
    <3>1. job' = job \/ \E c \in Clean : /\ job[c].st = "new"
            /\ job' = [job EXCEPT ![c].st = "queued", ![c].ref = web[w].req]
      BY <2>2 DEF CleanupDelete
    <3> QED BY <1>1, <2>2, <3>1, NewFields DEF JobStep, Chains
  <2> QED BY <1>9, <2>1, <2>2 DEF Continue
<1> QED BY <1>3, <1>4, <1>5, <1>6, <1>7, <1>8, <1>9 DEF Next

-----------------------------------------------------------------------------
(* Why an orphaned stack needs an overlap: the finalizer of a cleanup chain *)
(* can only be released by the stack stage right before it, which destroyed *)
(* the stack, and whoever builds one later overlaps with that very chain.   *)

\* The jobs behind a cleanup job are the next ones, without a gap.
Gapless(j) ==
    \A p \in j.rest :
        j.at < p /\ \A q \in 1..4 : j.at < q /\ q < p => q \in j.rest
Contiguous == \A c \in Clean : Gapless(job[c])

\* A finalizer is reached with the stack destroyed.
FinalDestroyed ==
    \A c \in Clean : job[c].at = Final /\ stack = "up" => overlap

\* Only a finalizer deletes the unit.
GoneByFinal == ~unit => \E c \in Clean : job[c].at = Final

OrphanInv == TypeOK /\ Contiguous /\ FinalDestroyed /\ GoneByFinal

\* A chain whose tail is cut off has no gap.
LEMMA TrimmedGapless ==
    ASSUME NEW j \in Job, NEW i \in Job, Gapless(j), Trimmed(j, i)
    PROVE  Gapless(i)
BY DEF Gapless, Trimmed, Job

(* A gapless chain releases the job at the next position.                  *)
LEMMA PassesNext ==
    ASSUME TypeOK, NEW d \in Chains, Passes(d), Gapless(job[d])
    PROVE  /\ job[d].at \in 1..3
           /\ job[d].at + 1 \in job[d].rest
           /\ job'[d].at = job[d].at + 1
           /\ job'[d].rest = job[d].rest \ {job[d].at + 1}
<1>1. PICK p \in job[d].rest :
        /\ \A q \in job[d].rest : p <= q
        /\ Queues(d, p, job[d].rest \ {p})
  BY DEF Passes
<1>2. /\ job[d].at \in 1..3 /\ job[d].rest \subseteq 1..4
      /\ job[d].at < p /\ \A q \in 1..4 : job[d].at < q /\ q < p => q \in job[d].rest
  BY DEF Passes, StageOk, TypeOK, Job, Gapless, Stages
<1>3. p = job[d].at + 1
  <2>1. job[d].at + 1 \in 1..4 /\ p \in 1..4
    BY <1>2
  <2> QED BY <1>1, <1>2, <2>1
<1> QED BY <1>1, <1>2, <1>3 DEF Queues

\* A chain at its finalizer stays there; it gets there by destroying the stack.
LEMMA FinalSteps ==
    ASSUME TypeOK, Contiguous, [Next]_vars, NEW d \in Clean
    PROVE  /\ job[d].at = Final => job'[d].at = Final
           /\ job'[d].at = Final /\ job[d].at # Final =>
                 StageOk(d) /\ job[d].at = 3
<1>1. d \in Chains /\ JobStep(d)
  BY JobSteps DEF Chains
<1>2. CASE job'[d].at = job[d].at
  BY <1>2
<1>3. CASE Begins(d)
  BY <1>3, LifecycleAssumption DEF Begins, Queues, CreateCleanup, Create, Final
<1>4. CASE Passes(d)
  <2>1. job[d].at \in 1..3 /\ job'[d].at = job[d].at + 1
    BY <1>1, <1>4, PassesNext DEF Contiguous
  <2> QED BY <1>4, <2>1 DEF Passes, Final
<1>5. ~Restarts(d)
  BY LifecycleAssumption DEF Restarts, RestartApply
<1> QED BY <1>1, <1>2, <1>3, <1>4, <1>5 DEF JobStep, Spared, Trimmed, Becomes

\* The stack comes up only under the overlap flag of every chain at work.
LEMMA StackSteps ==
    ASSUME TypeOK, [Next]_vars, NEW d \in Clean, job[d].at = Final,
           stack' = "up", stack # "up"
    PROVE  overlap'
<1>1. PICK c \in Chains : StageStart(c) \/ StageOk(c) \/ StageFail(c)
  BY DEF Next, Worker, Request, Continue, CreateAllocation, RequestRestart, DeleteCleanup,
         LockSandbox, UnlockSandbox, ExceptionHandler, RestartBegin, RestartApply,
         MarkReady, CreateCleanup, DebitPool, DeleteUnit, WorkerCrash, CancelAllocation,
         CancelCleanup, CleanupCheck, ForceCheck, CancelStage, CleanupDelete, PatchUnit, vars, Protected
<1>2. Builds(c, job[c].at) /\ overlap' = (overlap \/ Overlaps(c, job[c].at))
  BY <1>1 DEF StageStart, StageOk, StageFail
<1>3. job[d].at >= 1
  BY DEF Final
<1>4. Overlaps(c, job[c].at)
  BY <1>2, <1>3 DEF Overlaps
<1> QED BY <1>2, <1>4, Zenon

\* The overlap flag is never taken back.
LEMMA OverlapStays == TypeOK /\ [Next]_vars /\ overlap => overlap'
BY DEF Next, Worker, Request, Continue, CreateAllocation, RequestRestart, DeleteCleanup,
       LockSandbox, UnlockSandbox, StageStart, StageOk, StageFail, ExceptionHandler,
       RestartBegin, RestartApply, MarkReady, CreateCleanup, DebitPool, DeleteUnit,
       WorkerCrash, CancelAllocation, CancelCleanup, CleanupCheck, ForceCheck,
       CancelStage, CleanupDelete, PatchUnit, vars

\* Only a finalizer deletes the unit.
LEMMA UnitGoes ==
    ASSUME TypeOK, [Next]_vars, unit, ~unit'
    PROVE  \E c \in Clean : job[c].at = Final
BY DEF Next, Worker, Request, Continue, CreateAllocation, RequestRestart, DeleteCleanup,
       LockSandbox, UnlockSandbox, StageStart, StageOk, StageFail, ExceptionHandler,
       RestartBegin, RestartApply, MarkReady, CreateCleanup, DebitPool, DeleteUnit,
       WorkerCrash, CancelAllocation, CancelCleanup, CleanupCheck, ForceCheck,
       CancelStage, CleanupDelete, PatchUnit, UnitRow, vars, rows

\* Every step keeps the invariant behind OrphanNeedsOverlap.
LEMMA OrphanInductive == OrphanInv /\ [Next]_vars => OrphanInv'
<1> SUFFICES ASSUME OrphanInv, [Next]_vars PROVE OrphanInv'
  OBVIOUS
<1> TypeOK /\ Contiguous /\ FinalDestroyed /\ GoneByFinal
  BY DEF OrphanInv
<1>1. TypeOK'
  BY TypeInductive
<1>2. Contiguous'
  <2> SUFFICES ASSUME NEW c \in Clean PROVE Gapless(job'[c])
    BY DEF Contiguous
  <2>1. job[c] \in Job /\ job'[c] \in Job /\ Gapless(job[c])
    BY <1>1 DEF TypeOK, Contiguous, Chains
  <2>2. CASE Trimmed(job[c], job'[c])
    BY <2>1, <2>2, TrimmedGapless
  <2>3. CASE Begins(c)
    BY <2>3 DEF Begins, Queues, Gapless
  <2>4. CASE Passes(c)
    <3>1. /\ job[c].at \in 1..3 /\ job'[c].at = job[c].at + 1
          /\ job'[c].rest = job[c].rest \ {job[c].at + 1}
      BY <2>1, <2>4, PassesNext DEF Chains
    <3> QED BY <2>1, <3>1 DEF Gapless, Job
  <2>5. ~Restarts(c) /\ JobStep(c)
    BY JobSteps, LifecycleAssumption DEF Restarts, RestartApply, Chains
  <2> QED BY <2>2, <2>3, <2>4, <2>5 DEF JobStep, Spared, Trimmed, Becomes
<1>3. FinalDestroyed'
  <2> SUFFICES ASSUME NEW c \in Clean, job'[c].at = Final, stack' = "up" PROVE overlap'
    BY DEF FinalDestroyed
  <2>1. CASE job[c].at = Final
    BY <2>1, StackSteps, OverlapStays DEF FinalDestroyed
  <2>2. CASE job[c].at # Final
    <3>1. StageOk(c) /\ job[c].at = 3 /\ c \in Chains /\ c \notin Alloc
      BY <2>2, FinalSteps, LifecycleAssumption DEF Chains
    <3> QED BY <3>1 DEF StageOk, Builds, Destroys
  <2> QED BY <2>1, <2>2
<1>4. GoneByFinal'
  <2> SUFFICES ASSUME ~unit' PROVE \E c \in Clean : job'[c].at = Final
    BY DEF GoneByFinal
  <2>1. \E c \in Clean : job[c].at = Final
    BY UnitGoes DEF GoneByFinal
  <2> QED BY <2>1, FinalSteps
<1> QED BY <1>1, <1>2, <1>3, <1>4 DEF OrphanInv

\* The invariant behind OrphanNeedsOverlap holds at first.
LEMMA OrphanInitially == Init => OrphanInv
<1> SUFFICES ASSUME Init PROVE OrphanInv
  OBVIOUS
<1>1. \A c \in Clean : job[c].at = Create /\ job[c].rest = {}
  BY DEF Init, NewJob, Chains
<1> QED BY <1>1, TypeInitially
    DEF Init, OrphanInv, Contiguous, Gapless, FinalDestroyed, GoneByFinal, Create, Final

(* Cloud resources outlive their unit only if an allocation chain worked on *)
(* the stack while a cleanup chain existed.                                 *)
THEOREM OrphanTheorem == Spec => []OrphanNeedsOverlap
<1>1. OrphanInv => OrphanNeedsOverlap
  BY DEF OrphanInv, FinalDestroyed, GoneByFinal, OrphanNeedsOverlap
<1> QED BY <1>1, OrphanInitially, OrphanInductive, PTL DEF Spec

-----------------------------------------------------------------------------
(* Why a locked sandbox stays: a lock points at a sandbox, whoever deletes  *)
(* or replaces one has looked at the lock, and the first create job finds   *)
(* none, because no restart gets anywhere before it.                        *)

FirstFindsNone ==
    job[First].at = Create =>
        /\ sandbox.id = None
        /\ \A c \in Alloc : job[c].at = Create /\ job[c].st # "running"

LockHasSandbox == lock => sandbox.id # None

LockInv == TypeOK /\ FirstFindsNone /\ LockHasSandbox

\* The lock and the sandbox never change under each other.
Apart ==
    \/ sandbox'.id = sandbox.id /\ lock' = lock
    \/ lock = FALSE /\ lock' = FALSE
    \/ sandbox'.id = sandbox.id /\ sandbox.id # None /\ lock' = ~lock

\* No step takes the sandbox away under its lock.
LEMMA LockSteps == LockInv /\ [Next]_vars => Apart
<1> SUFFICES ASSUME LockInv, [Next]_vars PROVE Apart
  OBVIOUS
<1> TypeOK /\ FirstFindsNone /\ LockHasSandbox
  BY DEF LockInv
<1> lock \in BOOLEAN /\ (lock => sandbox.id # None)
  BY DEF TypeOK, LockHasSandbox
<1>1. ASSUME UNCHANGED <<sandbox, lock>> PROVE Apart
  BY <1>1 DEF Apart
<1>2. CASE CreateAllocation
  BY <1>2 DEF CreateAllocation, FirstFindsNone, LockHasSandbox, Apart
<1>3. CASE LockSandbox
  BY <1>3 DEF LockSandbox, Apart
<1>4. CASE UnlockSandbox
  BY <1>4 DEF UnlockSandbox, Apart
<1>5. CASE RequestRestart \/ DeleteCleanup \/ PatchUnit \/ UNCHANGED vars
  BY <1>1, <1>5 DEF RequestRestart, DeleteCleanup, PatchUnit, vars, rows
<1>6. ASSUME NEW c \in Chains, Worker(c) PROVE Apart
  <2>1. CASE RestartApply(c)
    BY <2>1 DEF RestartApply, Protected, Apart
  <2>2. CASE MarkReady(c)
    BY <2>2 DEF MarkReady, Apart
  <2>3. CASE ~RestartApply(c) /\ ~MarkReady(c)
    BY <1>1, <1>6, <2>3 DEF Worker, StageStart, StageOk, StageFail, ExceptionHandler,
         RestartBegin, CreateCleanup, DebitPool, DeleteUnit, rows
  <2> QED BY <2>1, <2>2, <2>3
<1>7. ASSUME NEW c \in Chains, WorkerCrash(c) PROVE Apart
  BY <1>1, <1>7 DEF WorkerCrash, rows
<1>8. ASSUME NEW w \in Web, Request(w) PROVE Apart
  <2>1. CASE ForceCheck(w)
    BY <2>1 DEF ForceCheck, Apart
  <2>2. CASE ~ForceCheck(w)
    BY <1>1, <1>8, <2>2 DEF Request, CancelAllocation, CancelCleanup, CleanupCheck, rows
  <2> QED BY <2>1, <2>2
<1>9. ASSUME NEW w \in Web, Continue(w) PROVE Apart
  <2>1. CASE CleanupDelete(w)
    BY <2>1 DEF CleanupDelete, Protected, Apart
  <2>2. CASE CancelStage(w)
    BY <1>1, <2>2 DEF CancelStage
  <2> QED BY <1>9, <2>1, <2>2 DEF Continue
<1> QED BY <1>2, <1>3, <1>4, <1>5, <1>6, <1>7, <1>8, <1>9 DEF Next

\* The invariant behind the lock theorems holds at first.
LEMMA LockInitially == Init => LockInv
<1> SUFFICES ASSUME Init PROVE LockInv
  OBVIOUS
<1>1. \A c \in Alloc : job[c].at = Create /\ job[c].st # "running"
  BY DEF Init, NewJob, Chains
<1> QED BY <1>1, TypeInitially DEF Init, LockInv, FirstFindsNone, LockHasSandbox

\* Nothing takes a chain back to its create job.
Onward(j, i) == i.at = Create => j.at = Create
\* The job is not one that starts running.
Rests(j, i) == i.at = j.at /\ (i.st = "running" => j.st = "running")

\* What a step does to the chain d, if the first create job has not run.
LEMMA AllocSteps ==
    ASSUME TypeOK, [Next]_vars, NEW d \in Alloc
    PROVE  /\ Onward(job[d], job'[d])
           /\ \/ Rests(job[d], job'[d])
              \/ job[d].at # Create
              \/ RestartBegin(d) /\ sandbox.id # None
              \/ RestartApply(d)
              \/ d = First /\ CreateAllocation
<1>1. d \in Chains /\ d \notin Clean /\ job[d] \in Job
  BY LifecycleAssumption DEF Chains, TypeOK
<1>2. JobStep(d)
  BY <1>1, JobSteps
<1>3. CASE Spared(job[d], job'[d])
  BY <1>3 DEF Spared, Trimmed, Rests, Onward
<1>4. ASSUME NEW st, Becomes(d, st),
             st # "running" \/ StageStart(d) \/ (RestartBegin(d) /\ sandbox.id # None)
      PROVE  /\ Onward(job[d], job'[d])
             /\ \/ Rests(job[d], job'[d]) \/ job[d].at # Create
                \/ RestartBegin(d) /\ sandbox.id # None
  BY <1>4 DEF Becomes, Rests, Onward, StageStart, Stages, Create
<1>5. CASE Begins(d) \/ Restarts(d) \/ Passes(d)
  <2>1. job'[d].at # Create
    <3>1. \A p \in job[d].rest \cup ToRestart \cup {1} : p # 0
      BY <1>1 DEF Job, ToRestart
    <3> QED BY <1>5, <3>1 DEF Begins, Restarts, Passes, Queues, Create
  <2>2. Passes(d) => job[d].at # Create
    BY DEF Passes, StageOk, Stages, Create
  <2>3. ~CreateCleanup(d)
    BY <1>1 DEF CreateCleanup
  <2> QED BY <1>5, <2>1, <2>2, <2>3 DEF Begins, Restarts, Onward
<1>6. ~DebitPool(d)
  BY <1>1 DEF DebitPool
<1>7. CASE /\ Becomes(d, "running")
           /\ StageStart(d) \/ (RestartBegin(d) /\ sandbox.id # None)
  BY <1>4, <1>7
<1>8. CASE Becomes(d, "queued")
  BY <1>4, <1>8
<1>9. CASE Becomes(d, "failed") \/ Becomes(d, "done")
  BY <1>4, <1>9
<1> QED BY <1>2, <1>3, <1>5, <1>6, <1>7, <1>8, <1>9 DEF JobStep

\* While the first create job waits, only it can make a sandbox.
LEMMA SandboxSteps ==
    ASSUME TypeOK, [Next]_vars, sandbox.id = None, sandbox'.id # None
    PROVE  CreateAllocation \/ \E c \in Alloc : RestartApply(c) \/ MarkReady(c)
<1>1. CASE \/ RequestRestart \/ DeleteCleanup \/ LockSandbox \/ UnlockSandbox
           \/ PatchUnit \/ UNCHANGED vars
  BY <1>1 DEF RequestRestart, DeleteCleanup, LockSandbox, UnlockSandbox, PatchUnit, vars, rows
<1>2. ASSUME NEW c \in Chains, Worker(c) PROVE RestartApply(c) \/ MarkReady(c)
  BY <1>2 DEF Worker, StageStart, StageOk, StageFail, ExceptionHandler, RestartBegin,
       CreateCleanup, DebitPool, DeleteUnit, rows
<1>3. ASSUME NEW c \in Chains PROVE ~WorkerCrash(c)
  BY <1>3 DEF WorkerCrash, rows
<1>4. ASSUME NEW w \in Web PROVE ~Request(w)
  BY <1>4 DEF Request, CancelAllocation, CancelCleanup, CleanupCheck, ForceCheck, rows
<1>5. ASSUME NEW w \in Web PROVE ~Continue(w)
  BY <1>5 DEF Continue, CancelStage, CleanupDelete
<1>6. \A c : RestartApply(c) \/ MarkReady(c) => c \in Alloc
  BY DEF RestartApply, MarkReady
<1> QED BY <1>1, <1>2, <1>3, <1>4, <1>5, <1>6 DEF Next

\* Every step keeps the invariant behind the lock theorems.
LEMMA LockInductive == LockInv /\ [Next]_vars => LockInv'
<1> SUFFICES ASSUME LockInv, [Next]_vars PROVE LockInv'
  OBVIOUS
<1> TypeOK /\ FirstFindsNone /\ LockHasSandbox
  BY DEF LockInv
<1>1. TypeOK'
  BY TypeInductive
<1>2. LockHasSandbox'
  BY LockSteps DEF Apart, LockHasSandbox
<1>3. FirstFindsNone'
  <2> SUFFICES ASSUME job'[First].at = Create
               PROVE  /\ sandbox'.id = None
                      /\ \A c \in Alloc : job'[c].at = Create /\ job'[c].st # "running"
    BY DEF FirstFindsNone
  <2>1. First \in Alloc /\ First \in Chains /\ job \in [Chains -> Job]
    BY LifecycleAssumption DEF Chains, TypeOK
  <2>2. job[First].at = Create
    BY <2>1, AllocSteps DEF Onward
  <2>3. sandbox.id = None /\ \A c \in Alloc : job[c].at = Create /\ job[c].st # "running"
    BY <2>2 DEF FirstFindsNone
  <2>4. ~CreateAllocation
    <3>1. CreateAllocation => job'[First].at = 1
      BY <2>1 DEF CreateAllocation, Job
    <3> QED BY <3>1 DEF Create
  <2>5. \A c \in Alloc : ~RestartApply(c) /\ ~MarkReady(c)
    <3>1. Create # Final
      BY DEF Create, Final
    <3>2. \A c \in Alloc : ~RestartApply(c)
      BY <2>3 DEF RestartApply
    <3>3. \A c \in Alloc : ~MarkReady(c)
      BY <2>3, <3>1 DEF MarkReady
    <3> QED BY <3>2, <3>3
  <2>6. sandbox'.id = None
    BY <2>3, <2>4, <2>5, SandboxSteps
  <2>7. ASSUME NEW c \in Alloc PROVE job'[c].at = Create /\ job'[c].st # "running"
    <3>1. Rests(job[c], job'[c])
      BY <2>3, <2>4, <2>5, AllocSteps
    <3> QED BY <2>3, <3>1 DEF Rests
  <2> QED BY <2>6, <2>7
<1> QED BY <1>1, <1>2, <1>3 DEF LockInv

(* A sandbox is never deleted or replaced under its lock.                  *)
THEOREM LockTheorem == Spec => LockedStays
<1>1. LockInv /\ [Next]_vars => (lock /\ lock' => sandbox'.id = sandbox.id)
  BY LockSteps DEF Apart
<1>2. Spec => []LockInv
  BY LockInitially, LockInductive, PTL DEF Spec
<1> QED BY <1>1, <1>2, PTL DEF Spec, LockedStays

(* The lock of the unit's sandbox keeps the promises of a lock table.      *)
THEOREM LockRefinement == Spec => LocksKept
<1>1. Init => Locks!Init
  <2> SUFFICES ASSUME Init PROVE Locks!Init
    OBVIOUS
  <2> QED BY DEF Init, Locks!Init
<1>2. LockInv /\ [Next]_vars => [Locks!Next]_(Locks!vars)
  <2> SUFFICES ASSUME LockInv, [Next]_vars PROVE [Locks!Next]_(Locks!vars)
    OBVIOUS
  <2>1. sandbox.id \in Alloc \cup {None} /\ sandbox'.id \in Alloc \cup {None} /\ lock \in BOOLEAN
    BY LockInductive DEF LockInv, TypeOK
  <2>2. CASE sandbox'.id = sandbox.id /\ lock' = lock
    BY <2>2 DEF Locks!vars
  <2>3. CASE lock = FALSE /\ lock' = FALSE
    <3>1. Locks!Replace
      BY <2>1, <2>3 DEF Locks!Replace
    <3> QED BY <3>1 DEF Locks!Next
  <2>4. CASE sandbox'.id = sandbox.id /\ sandbox.id # None /\ lock' = ~lock
    <3>1. PICK s \in Alloc : s = sandbox.id
      BY <2>1, <2>4
    <3>2. CASE lock = FALSE
      <4>1. Locks!Lock(s, TRUE)
        BY <2>4, <3>1, <3>2 DEF Locks!Lock
      <4> QED BY <4>1 DEF Locks!Next
    <3>3. CASE lock = TRUE
      <4>1. Locks!Unlock(s)
        BY <2>4, <3>1, <3>3 DEF Locks!Unlock
      <4> QED BY <4>1 DEF Locks!Next
    <3> QED BY <2>1, <3>2, <3>3
  <2> QED BY <2>2, <2>3, <2>4, LockSteps DEF Apart
<1>3. Spec => []LockInv
  BY LockInitially, LockInductive, PTL DEF Spec
<1> QED BY <1>1, <1>2, <1>3, PTL DEF Spec, LocksKept, Locks!Spec

-----------------------------------------------------------------------------
(* Why the account of the unit is kept: a finalizer debits the pool once,   *)
(* as its first step, and its second is the only one that deletes the unit. *)

DebitedFirst == \A c \in Clean :
    /\ c \in debited => job[c].at = Final /\ job[c].st \in {"running", "done", "dead"}
    /\ job[c].at = Final /\ job[c].st = "running" => c \in debited

AccountInv == TypeOK /\ DebitedFirst

\* What a step does to the account.
LEMMA AccountSteps ==
    ASSUME TypeOK, [Next]_vars
    PROVE  \/ UNCHANGED <<unit, debited>>
           \/ \E c \in Clean : DebitPool(c)
           \/ unit' = FALSE /\ debited' = debited /\ \E c \in Clean : DeleteUnit(c)
<1>1. CASE \/ CreateAllocation \/ RequestRestart \/ DeleteCleanup \/ LockSandbox
           \/ UnlockSandbox \/ PatchUnit \/ UNCHANGED vars
  BY <1>1 DEF CreateAllocation, RequestRestart, DeleteCleanup, LockSandbox, UnlockSandbox,
       PatchUnit, vars, rows
<1>2. ASSUME NEW c \in Chains, Worker(c), ~DebitPool(c), ~DeleteUnit(c)
      PROVE  UNCHANGED <<unit, debited>>
  BY <1>2 DEF Worker, StageStart, StageOk, StageFail, ExceptionHandler, RestartBegin,
       RestartApply, MarkReady, CreateCleanup, rows
<1>3. ASSUME NEW c \in Chains, WorkerCrash(c) PROVE UNCHANGED <<unit, debited>>
  BY <1>3 DEF WorkerCrash, rows
<1>4. ASSUME NEW w \in Web, Request(w) \/ Continue(w) PROVE UNCHANGED <<unit, debited>>
  BY <1>4 DEF Request, CancelAllocation, CancelCleanup, CleanupCheck, ForceCheck, Continue,
       CancelStage, CleanupDelete, rows
<1>5. ASSUME NEW c \in Chains, DeleteUnit(c)
      PROVE  c \in Clean /\ debited' = debited /\ (unit' = unit \/ unit' = FALSE)
  BY <1>5 DEF DeleteUnit, rows
<1>6. ASSUME NEW c \in Chains, DebitPool(c) PROVE c \in Clean
  BY <1>6 DEF DebitPool
<1> QED BY <1>1, <1>2, <1>3, <1>4, <1>5, <1>6 DEF Next

\* Every step keeps a finalizer's order.
LEMMA AccountInductive == AccountInv /\ [Next]_vars => AccountInv'
<1> SUFFICES ASSUME AccountInv, [Next]_vars PROVE AccountInv'
  OBVIOUS
<1>1. TypeOK /\ DebitedFirst /\ TypeOK'
  BY TypeInductive DEF AccountInv
<1>2. ASSUME NEW c \in Clean
      PROVE  /\ c \in debited' => job'[c].at = Final /\ job'[c].st \in {"running", "done", "dead"}
             /\ job'[c].at = Final /\ job'[c].st = "running" => c \in debited'
  <2>1. c \in Chains /\ c \notin Alloc /\ JobStep(c)
    BY <1>1, JobSteps, LifecycleAssumption DEF Chains
  <2>2. /\ c \in debited => job[c].at = Final /\ job[c].st \in {"running", "done", "dead"}
        /\ job[c].at = Final /\ job[c].st = "running" => c \in debited
    BY <1>1 DEF DebitedFirst
  <2>3. CASE DebitPool(c)
    <3>1. job'[c].at = Final /\ job'[c].st = "running"
      BY <1>1, <2>1, <2>3 DEF DebitPool, Set, TypeOK, Job
    <3> QED BY <2>3, <3>1 DEF DebitPool
  <2>4. CASE ~DebitPool(c)
    <3>1. c \in debited' <=> c \in debited
      BY <1>1, <2>4, AccountSteps DEF DebitPool
    <3>2. CASE Spared(job[c], job'[c])
      BY <2>2, <3>1, <3>2 DEF Spared, Trimmed
    <3>3. CASE Becomes(c, "queued") /\ job[c].st = "new"
      BY <2>2, <3>1, <3>3 DEF Becomes
    <3>4. CASE Becomes(c, "running") /\ (StageStart(c) \/ RestartBegin(c))
      <4>1. job[c].at # Final
        BY <3>4 DEF StageStart, RestartBegin, Stages, Create, Final
      <4> QED BY <2>2, <3>1, <3>4, <4>1 DEF Becomes
    <3>5. CASE Becomes(c, "failed") /\ StageFail(c)
      <4>1. job[c].at # Final
        BY <3>5 DEF StageFail, Stages, Final
      <4> QED BY <2>2, <3>1, <3>5, <4>1 DEF Becomes
    <3>6. CASE Becomes(c, "done") /\ (MarkReady(c) \/ DeleteUnit(c))
      BY <2>1, <2>2, <3>1, <3>6 DEF Becomes, MarkReady, DeleteUnit
    <3>7. CASE Begins(c) \/ Passes(c)
      <4>1. job[c].at # Final /\ job'[c].st = "queued"
        BY <2>1, <3>7, LifecycleAssumption
          DEF Begins, Passes, Queues, CreateCleanup, StageOk, Stages, Create, Final
      <4> QED BY <2>2, <3>1, <4>1
    <3>8. ~Restarts(c)
      BY <2>1 DEF Restarts, RestartApply
    <3> QED BY <2>1, <2>4, <3>2, <3>3, <3>4, <3>5, <3>6, <3>7, <3>8 DEF JobStep
  <2> QED BY <2>3, <2>4
<1> QED BY <1>1, <1>2 DEF AccountInv, DebitedFirst

(* Whatever fails, crashes or is asked for twice, the unit is deleted only  *)
(* by a cleanup chain that has debited the pool, and no chain debits twice. *)
THEOREM AccountRefinement == Spec => AccountKept
<1>1. Init => AccountInv /\ Account!Init
  <2> SUFFICES ASSUME Init PROVE AccountInv /\ Account!Init
    OBVIOUS
  <2>1. \A c \in Clean : job[c].at = Create
    BY DEF Init, NewJob, Chains
  <2>2. AccountInv
    BY <2>1, TypeInitially DEF Init, AccountInv, DebitedFirst, Create, Final
  <2> QED BY <2>2 DEF Init, Account!Init
<1>2. AccountInv /\ [Next]_vars => [Account!Next]_(Account!vars)
  <2> SUFFICES ASSUME AccountInv, [Next]_vars PROVE [Account!Next]_(Account!vars)
    OBVIOUS
  <2>1. TypeOK /\ DebitedFirst
    BY DEF AccountInv
  <2>2. CASE UNCHANGED <<unit, debited>>
    BY <2>2 DEF Account!vars
  <2>3. ASSUME NEW c \in Clean, DebitPool(c) PROVE Account!Next
    <3>1. c \notin debited /\ debited' = debited \cup {c} /\ unit' = unit
      BY <2>1, <2>3 DEF DebitPool, DebitedFirst, rows
    <3>2. Account!Debit(First, c)
      BY <3>1 DEF Account!Debit
    <3> QED BY <3>2 DEF Account!Next
  <2>4. ASSUME NEW c \in Clean, DeleteUnit(c), unit' = FALSE, debited' = debited
        PROVE  [Account!Next]_(Account!vars)
    <3>1. CASE unit
      <4>1. c \in debited
        BY <2>1, <2>4 DEF DeleteUnit, DebitedFirst
      <4>2. Account!Close(First, c)
        BY <2>4, <3>1, <4>1 DEF Account!Close
      <4> QED BY <4>2 DEF Account!Next
    <3>2. CASE ~unit
      BY <2>4, <3>2 DEF Account!vars
    <3> QED BY <3>1, <3>2
  <2> QED BY <2>1, <2>2, <2>3, <2>4, AccountSteps
<1>3. Spec => []AccountInv
  BY <1>1, AccountInductive, PTL DEF Spec
<1> QED BY <1>1, <1>2, <1>3, PTL DEF Spec, AccountKept, Account!Spec

-----------------------------------------------------------------------------
(* Why what is gone stays gone: every save of a stage, a sandbox or a       *)
(* cleanup request needs the row it points at, and the first create job,    *)
(* which looks at nothing, has run before anybody could ask for a cleanup.  *)

FirstAlone == job[First].at = Create =>
    /\ unit /\ stage["alloc"] = NoRows /\ creq = None
    /\ \A w \in Web : web[w] = Idle
    /\ \A c \in Clean : job[c].at = Create /\ job[c].st \in {"new", "dead"}

GoneInv == LockInv /\ FirstAlone /\ GoneIsGone

\* A save touches the rows of one request.
LEMMA SaveTouches ==
    ASSUME TypeOK, NEW c \in Chains, NEW k, NEW st, Save(c, k, st), NEW kd \in Kinds, kd # Kind(c)
    PROVE  stage'[kd] = stage[kd]
<1>1. stage' = [stage EXCEPT ![Kind(c)] = [stage[Kind(c)] EXCEPT ![k] =
         [id |-> c, state |-> st, rq |-> stage[Kind(c)][k].id = c /\ stage[Kind(c)][k].rq]]]
  BY DEF Save
<1> QED BY <1>1 DEF TypeOK

\* A stage job saves its own stage, or nothing.
LEMMA StageSaves ==
    ASSUME TypeOK, NEW c \in Chains, StageStart(c) \/ StageOk(c) \/ StageFail(c)
    PROVE  \/ UNCHANGED stage
           \/ /\ job[c].at \in Stages /\ CanSave(c, job[c].at)
              /\ \E st \in StageState : Save(c, job[c].at, st)
BY DEF StageStart, StageOk, StageFail, StageState

\* So does the cancellation of a stage.
LEMMA CancelSaves ==
    ASSUME TypeOK, NEW w \in Web, CancelStage(w)
    PROVE  \/ UNCHANGED stage
           \/ \E c \in Chains, k \in Stages :
                 /\ web[w].todo = k /\ web[w].snap[k] = c
                 /\ CanSave(c, k) /\ Save(c, k, "FAILED")
<1>1. web[w].todo \in Stages /\ web[w].snap[web[w].todo] \in Chains \cup {None}
  BY DEF CancelStage, TypeOK, Thread, Stages
<1> QED BY <1>1 DEF CancelStage

\* A restart replaces allocation stages only, and only failed ones.
LEMMA RestartStages ==
    ASSUME TypeOK, NEW c \in Chains, RestartApply(c)
    PROVE  /\ stage'["clean"] = stage["clean"]
           /\ Restartable \/ UNCHANGED stage
<1> DEFINE new == [k \in Stages |-> IF k \in ToRestart THEN Fresh(c) ELSE stage["alloc"][k]]
<1>1. stage' = [stage EXCEPT !["alloc"] = new] \/ stage' = stage
  BY Zenon DEF RestartApply
<1>2. "clean" \in Kinds /\ stage \in [Kinds -> [Stages -> Row]]
  BY Positions DEF TypeOK
<1>3. Restartable \/ stage' = stage
  BY Zenon DEF RestartApply
<1> HIDE DEF new
<1> QED BY <1>1, <1>2, <1>3

\* The create job of a cleanup replaces the stages of a cleanup.
LEMMA CleanupStages ==
    ASSUME TypeOK, NEW c \in Chains, CreateCleanup(c)
    PROVE  stage'["alloc"] = stage["alloc"]
<1> DEFINE new == [k \in Stages |-> Fresh(c)]
<1>1. UNCHANGED stage \/ stage' = [stage EXCEPT !["clean"] = new]
  BY DEF CreateCleanup
<1>2. "alloc" \in Kinds /\ stage \in [Kinds -> [Stages -> Row]]
  BY Positions DEF TypeOK
<1> HIDE DEF new
<1> QED BY <1>1, <1>2

(* A request without stages stays without, if no chain can save one and no *)
(* create job makes them.                                                  *)
LEMMA NoRowsStay ==
    ASSUME TypeOK, [Next]_vars, NEW kd \in Kinds, stage[kd] = NoRows,
           \/ \A c \in Chains : Kind(c) = kd => \A k \in Stages : ~CanSave(c, k)
           \/ /\ \A c \in Chains : ~(StageStart(c) \/ StageOk(c) \/ StageFail(c))
              /\ \A w \in Web : ~CancelStage(w),
           kd = "alloc" => ~CreateAllocation,
           kd = "clean" => \A c \in Clean : CreateCleanup(c) => UNCHANGED stage
    PROVE  stage'[kd] = NoRows
<1>0. /\ "alloc" \in Kinds /\ "clean" \in Kinds /\ stage \in [Kinds -> [Stages -> Row]]
      /\ \A k \in Stages : stage[kd][k].id = None
      /\ 1 \in Stages
  BY Positions DEF TypeOK, NoRows, NoRow, Stages
<1>1. CASE UNCHANGED stage
  BY <1>1
<1>2. CASE CreateAllocation
  BY <1>0, <1>2 DEF CreateAllocation, Kinds
<1>3. CASE RequestRestart \/ LockSandbox \/ UnlockSandbox \/ PatchUnit \/ UNCHANGED vars
  BY <1>1, <1>3 DEF RequestRestart, LockSandbox, UnlockSandbox, PatchUnit, vars, rows
<1>4. CASE DeleteCleanup
  BY <1>0, <1>4 DEF DeleteCleanup, Kinds
<1>5. ASSUME NEW c \in Chains, NEW k \in Stages, NEW st, CanSave(c, k), Save(c, k, st),
             \A i \in Chains : Kind(i) = kd => \A p \in Stages : ~CanSave(i, p)
      PROVE  stage'[kd] = NoRows
  BY <1>5, SaveTouches
<1>6. ASSUME NEW c \in Chains, Worker(c) PROVE stage'[kd] = NoRows
  <2>1. CASE StageStart(c) \/ StageOk(c) \/ StageFail(c)
    BY <1>1, <1>5, <2>1, StageSaves
  <2>2. CASE ExceptionHandler(c)
    <3> DEFINE of == Kind(c)
               known == stage[of][job[c].at].id = c /\ stage[of][job[c].at].rq
               hit(k) == known /\ Unfinished(of, k)
               new == [k \in Stages |-> IF hit(k) THEN [stage[of][k] EXCEPT !.state = "FAILED"]
                                        ELSE stage[of][k]]
    <3>1. stage' = [stage EXCEPT ![of] = new]
      BY <2>2 DEF ExceptionHandler
    <3>2. kd = of => new = stage[of]
      <4>1. kd = of => \A k \in Stages : ~hit(k)
        BY <1>0 DEF Unfinished
      <4>2. kd = of => stage[of] \in [Stages -> Row]
        BY <1>0
      <4> QED BY <4>1, <4>2
    <3> HIDE DEF new, of
    <3> QED BY <1>0, <3>1, <3>2
  <2>3. CASE RestartApply(c)
    <3>1. ~(Restartable /\ kd = "alloc")
      BY <1>0 DEF Restartable, Exists
    <3>2. UNCHANGED stage \/ (kd = "clean" => stage'[kd] = stage[kd])
      BY <1>0, <2>3, RestartStages
    <3>3. kd = "alloc" => UNCHANGED stage
      BY <2>3, <3>1, RestartStages
    <3> QED BY <1>1, <3>2, <3>3 DEF Kinds
  <2>4. CASE CreateCleanup(c)
    <3>1. c \in Clean
      BY <2>4, Zenon DEF CreateCleanup
    <3>2. kd = "alloc" => stage'[kd] = stage[kd]
      BY <1>0, <2>4, CleanupStages
    <3> QED BY <1>1, <2>4, <3>1, <3>2 DEF Kinds
  <2>5. CASE DeleteUnit(c)
    BY <1>1, <2>5 DEF DeleteUnit, rows
  <2>6. CASE RestartBegin(c) \/ MarkReady(c) \/ DebitPool(c)
    BY <1>1, <2>6 DEF RestartBegin, MarkReady, DebitPool, rows
  <2> QED BY <1>6, <2>1, <2>2, <2>3, <2>4, <2>5, <2>6 DEF Worker
<1>7. ASSUME NEW c \in Chains, WorkerCrash(c) PROVE stage'[kd] = NoRows
  BY <1>1, <1>7 DEF WorkerCrash, rows
<1>8. ASSUME NEW w \in Web, Request(w) PROVE stage'[kd] = NoRows
  BY <1>1, <1>8 DEF Request, CancelAllocation, CancelCleanup, CleanupCheck, ForceCheck, rows
<1>9. ASSUME NEW w \in Web, Continue(w) PROVE stage'[kd] = NoRows
  <2>1. CASE CancelStage(w)
    BY <1>1, <1>5, <2>1, CancelSaves
  <2>2. CASE CleanupDelete(w)
    BY <1>1, <2>2 DEF CleanupDelete
  <2> QED BY <1>9, <2>1, <2>2 DEF Continue
<1> QED BY <1>2, <1>3, <1>4, <1>6, <1>7, <1>8, <1>9 DEF Next

\* What a save needs beside its slot.
LEMMA SaveNeeds ==
    ASSUME NEW c \in Chains, NEW k, CanSave(c, k)
    PROVE  (Kind(c) = "alloc" => unit) /\ (Kind(c) = "clean" => creq # None)
BY DEF CanSave, Kind, Chains

\* A cleanup request is made by its create job only, and needs a unit.
LEMMA RequestSteps ==
    ASSUME TypeOK, [Next]_vars, creq = None, creq' # None
    PROVE  \E c \in Clean : CreateCleanup(c) /\ UnitRow
<1>1. CASE \/ CreateAllocation \/ RequestRestart \/ DeleteCleanup \/ LockSandbox
           \/ UnlockSandbox \/ PatchUnit \/ UNCHANGED vars
  BY <1>1 DEF CreateAllocation, RequestRestart, DeleteCleanup, LockSandbox, UnlockSandbox,
       PatchUnit, vars, rows
<1>2. ASSUME NEW c \in Chains, Worker(c) PROVE c \in Clean /\ CreateCleanup(c) /\ UnitRow
  <2>1. CASE CreateCleanup(c)
    BY <2>1 DEF CreateCleanup
  <2>2. CASE DeleteUnit(c)
    BY <2>2 DEF DeleteUnit, rows
  <2>3. CASE StageStart(c) \/ StageOk(c) \/ StageFail(c) \/ ExceptionHandler(c)
    BY <2>3 DEF StageStart, StageOk, StageFail, ExceptionHandler
  <2>4. CASE RestartBegin(c) \/ RestartApply(c) \/ MarkReady(c) \/ DebitPool(c)
    <3>1. creq' = creq
      BY <2>4, Zenon DEF RestartBegin, RestartApply, MarkReady, DebitPool, rows
    <3> QED BY <3>1
  <2> QED BY <1>2, <2>1, <2>2, <2>3, <2>4 DEF Worker
<1>3. ASSUME NEW c \in Chains PROVE ~WorkerCrash(c)
  BY <1>3 DEF WorkerCrash, rows
<1>4. ASSUME NEW w \in Web PROVE ~Request(w)
  BY <1>4 DEF Request, CancelAllocation, CancelCleanup, CleanupCheck, ForceCheck, rows
<1>5. ASSUME NEW w \in Web PROVE ~Continue(w)
  BY <1>5 DEF Continue, CancelStage, CleanupDelete
<1> QED BY <1>1, <1>2, <1>3, <1>4, <1>5 DEF Next

\* The first create job is not undone.
LEMMA FirstStays ==
    ASSUME TypeOK, [Next]_vars
    PROVE  job'[First].at = Create => job[First].at = Create /\ ~CreateAllocation
<1>1. First \in Alloc /\ First \in Chains
  BY LifecycleAssumption DEF Chains
<1>2. CreateAllocation => job'[First].at = 1
  BY <1>1 DEF CreateAllocation, TypeOK, Job
<1> QED BY <1>1, <1>2, AllocSteps DEF Onward, Create

(* While the first create job waits, no request is there to be cleaned up  *)
(* or cancelled, so no handler and no cleanup chain gets anywhere.         *)
LEMMA FirstAloneStays ==
    ASSUME TypeOK, FirstFindsNone, FirstAlone, [Next]_vars
    PROVE  FirstAlone'
<1> SUFFICES ASSUME job'[First].at = Create
             PROVE  /\ unit' /\ stage'["alloc"] = NoRows /\ creq' = None
                    /\ \A w \in Web : web'[w] = Idle
                    /\ \A c \in Clean : job'[c].at = Create /\ job'[c].st \in {"new", "dead"}
  BY DEF FirstAlone
<1>1. /\ job[First].at = Create /\ ~CreateAllocation
      /\ First \in Alloc /\ First \in Chains /\ Create # Final /\ Create \notin Stages
  BY FirstStays, LifecycleAssumption DEF Chains, Create, Final, Stages
<1>2. /\ unit /\ stage["alloc"] = NoRows /\ creq = None /\ sandbox.id = None
      /\ \A w \in Web : web[w] = Idle
      /\ \A c \in Clean : job[c].at = Create /\ job[c].st \in {"new", "dead"}
      /\ \A c \in Alloc : job[c].at = Create /\ job[c].st # "running"
  BY <1>1 DEF FirstAlone, FirstFindsNone
<1>3. \A c \in Chains : job[c].at = Create /\ ~(c \in Clean /\ job[c].st = "queued")
  BY <1>2 DEF Chains
<1>4. ASSUME NEW c \in Chains
      PROVE  /\ ~StageStart(c) /\ ~StageOk(c) /\ ~StageFail(c) /\ ~CreateCleanup(c)
             /\ ~DebitPool(c) /\ ~DeleteUnit(c) /\ ~RestartApply(c) /\ ~MarkReady(c)
  <2>1. ~StageStart(c) /\ ~StageOk(c) /\ ~StageFail(c)
    BY <1>1, <1>3 DEF StageStart, StageOk, StageFail
  <2>2. ~CreateCleanup(c) /\ ~DebitPool(c) /\ ~DeleteUnit(c) /\ ~MarkReady(c)
    BY <1>1, <1>3, Zenon DEF CreateCleanup, DebitPool, DeleteUnit, MarkReady
  <2>3. ~RestartApply(c)
    BY <1>2, Zenon DEF RestartApply
  <2> QED BY <2>1, <2>2, <2>3
<1>5. ~Exists("alloc")
  <2>1. stage["alloc"][1].id = None /\ 1 \in Stages
    BY <1>2 DEF NoRows, NoRow, Stages
  <2> QED BY <2>1 DEF Exists
<1>6. ASSUME NEW w \in Web PROVE ~Request(w) /\ ~Continue(w)
  <2>1. web[w].op = "idle" /\ web[w].todo = 0
    BY <1>2 DEF Idle
  <2>2. ~Request(w)
    BY <1>2, <1>5, Zenon DEF Request, CancelAllocation, CancelCleanup, CleanupCheck, ForceCheck
  <2>3. ~Continue(w)
    BY <2>1, Zenon DEF Continue, CancelStage, CleanupDelete
  <2> QED BY <2>2, <2>3
<1>7. unit'
  BY <1>2, <1>4, AccountSteps DEF Chains
<1>8. creq' = None
  BY <1>2, <1>4, RequestSteps DEF Chains
<1>9. stage'["alloc"] = NoRows
  <2>1. "alloc" \in Kinds /\ \A w \in Web : ~CancelStage(w)
    BY <1>6 DEF Kinds, Continue
  <2> QED BY <1>1, <1>2, <1>4, <2>1, NoRowsStay
<1>10. \A w \in Web : web'[w] = Idle
  <2>1. ASSUME NEW c \in Chains, ExceptionHandler(c) \/ RestartBegin(c) \/ WorkerCrash(c)
        PROVE  web' = web
    BY <2>1, Zenon DEF ExceptionHandler, RestartBegin, WorkerCrash
  <2>2. CASE \/ RequestRestart \/ DeleteCleanup \/ LockSandbox \/ UnlockSandbox
             \/ PatchUnit \/ UNCHANGED vars
    BY <1>2, <2>2 DEF RequestRestart, DeleteCleanup, LockSandbox, UnlockSandbox, PatchUnit, vars
  <2>3. ASSUME NEW c \in Chains, Worker(c) PROVE web' = web
    BY <1>4, <2>1, <2>3 DEF Worker
  <2> QED BY <1>1, <1>2, <1>6, <2>1, <2>2, <2>3 DEF Next
<1>11. ASSUME NEW c \in Clean PROVE job'[c].at = Create /\ job'[c].st \in {"new", "dead"}
  <2>1. c \in Chains /\ c \notin Alloc /\ JobStep(c)
    BY JobSteps, LifecycleAssumption DEF Chains
  <2>2. Spared(job[c], job'[c])
    <3>1. ~\E w \in Web : CleanupDelete(w)
      BY <1>6 DEF Continue
    <3>2. ~RestartBegin(c)
      BY <2>1 DEF RestartBegin
    <3>3. ~Begins(c) /\ ~Restarts(c) /\ ~Passes(c)
      BY <1>1, <1>4, <2>1, Zenon DEF Begins, Restarts, Passes
    <3> QED BY <1>4, <2>1, <3>1, <3>2, <3>3 DEF JobStep
  <2> QED BY <1>2, <2>2 DEF Spared, Trimmed
<1> QED BY <1>7, <1>8, <1>9, <1>10, <1>11

\* A ghost goes only when it is deleted like a unit.
LEMMA GhostGoes ==
    ASSUME TypeOK, [Next]_vars, ghost, ~ghost'
    PROVE  \E c \in Clean : DeleteUnit(c)
<1>1. CASE \/ CreateAllocation \/ RequestRestart \/ DeleteCleanup \/ LockSandbox
           \/ UnlockSandbox \/ PatchUnit \/ UNCHANGED vars
  BY <1>1 DEF CreateAllocation, RequestRestart, DeleteCleanup, LockSandbox, UnlockSandbox,
       PatchUnit, vars, rows
<1>2. ASSUME NEW c \in Chains, Worker(c) PROVE c \in Clean /\ DeleteUnit(c)
  <2>1. CASE \/ StageStart(c) \/ StageOk(c) \/ StageFail(c) \/ ExceptionHandler(c)
             \/ RestartBegin(c) \/ RestartApply(c) \/ MarkReady(c) \/ CreateCleanup(c)
             \/ DebitPool(c)
    <3>1. ghost' = ghost
      BY <2>1, Zenon DEF StageStart, StageOk, StageFail, ExceptionHandler, RestartBegin,
           RestartApply, MarkReady, CreateCleanup, DebitPool, rows
    <3> QED BY <3>1
  <2>2. CASE DeleteUnit(c)
    BY <2>2, Zenon DEF DeleteUnit
  <2> QED BY <1>2, <2>1, <2>2 DEF Worker
<1>3. ASSUME NEW c \in Chains PROVE ~WorkerCrash(c)
  BY <1>3 DEF WorkerCrash, rows
<1>4. ASSUME NEW w \in Web PROVE ~Request(w)
  BY <1>4 DEF Request, CancelAllocation, CancelCleanup, CleanupCheck, ForceCheck, rows
<1>5. ASSUME NEW w \in Web PROVE ~Continue(w)
  BY <1>5 DEF Continue, CancelStage, CleanupDelete
<1> QED BY <1>1, <1>2, <1>3, <1>4, <1>5 DEF Next

\* Deleting the unit or its ghost leaves nothing behind.
LEMMA DeletedWhole ==
    ASSUME TypeOK, LockHasSandbox', NEW c \in Clean, DeleteUnit(c),
           UnitRow, ~unit', ~ghost'
    PROVE  /\ stage'["alloc"] = NoRows /\ stage'["clean"] = NoRows
           /\ sandbox'.id = None /\ ~lock' /\ creq' = None
<1>1. /\ ~(UnitRow /\ sandbox.id # None)
      /\ creq' = None /\ stage' = [kd \in Kinds |-> NoRows] /\ sandbox' = sandbox
  <2>1. UNCHANGED rows => unit' = unit /\ ghost' = ghost
    BY DEF rows
  <2> QED BY <2>1 DEF DeleteUnit, UnitRow
<1>2. "alloc" \in Kinds /\ "clean" \in Kinds
  BY DEF Kinds
<1> QED BY <1>1, <1>2 DEF LockHasSandbox

\* Without a unit or a ghost nothing of it is made again.
LEMMA GoneStays ==
    ASSUME LockInv, FirstAlone, GoneIsGone, ~unit, [Next]_vars
    PROVE  /\ stage'["alloc"] = NoRows
           /\ ~ghost => /\ sandbox'.id = None /\ creq' = None
                        /\ stage'["clean"] = NoRows
<1>1. /\ TypeOK /\ stage["alloc"] = NoRows /\ ~CreateAllocation
      /\ "alloc" \in Kinds /\ "clean" \in Kinds
  <2>1. job[First].at # Create
    BY DEF FirstAlone
  <2> QED BY <2>1 DEF LockInv, GoneIsGone, CreateAllocation, Kinds
<1>2. stage'["alloc"] = NoRows
  <2>1. \A c \in Chains : Kind(c) = "alloc" => \A k \in Stages : ~CanSave(c, k)
    BY SaveNeeds
  <2> QED BY <1>1, <2>1, NoRowsStay
<1>3. ASSUME ~ghost
      PROVE  sandbox'.id = None /\ creq' = None /\ stage'["clean"] = NoRows
  <2>1. ~UnitRow /\ sandbox.id = None /\ creq = None /\ stage["clean"] = NoRows
    BY <1>3 DEF UnitRow, GoneIsGone
  <2>2. ASSUME NEW c \in Alloc, RestartApply(c) \/ MarkReady(c) PROVE sandbox' = sandbox
    BY <2>1, <2>2, Zenon DEF RestartApply, MarkReady
  <2>3. sandbox'.id = None
    BY <1>1, <2>1, <2>2, SandboxSteps
  <2>4. creq' = None
    BY <1>1, <2>1, RequestSteps
  <2>5. stage'["clean"] = NoRows
    <3>1. \A c \in Chains : Kind(c) = "clean" => \A k \in Stages : ~CanSave(c, k)
      BY <2>1, SaveNeeds
    <3>2. \A c \in Clean : CreateCleanup(c) => UNCHANGED stage
      BY <2>1, Zenon DEF CreateCleanup
    <3> QED BY <1>1, <2>1, <3>1, <3>2, NoRowsStay
  <2> QED BY <2>3, <2>4, <2>5
<1> QED BY <1>2, <1>3

\* Every step keeps what is gone gone.
LEMMA GoneInductive == GoneInv /\ [Next]_vars => GoneInv'
<1> SUFFICES ASSUME GoneInv, [Next]_vars PROVE GoneInv'
  OBVIOUS
<1>1. /\ LockInv /\ FirstAlone /\ GoneIsGone /\ LockInv'
      /\ TypeOK /\ FirstFindsNone /\ LockHasSandbox'
  BY LockInductive DEF GoneInv, LockInv
<1>2. FirstAlone'
  BY <1>1, FirstAloneStays
<1>3. GoneIsGone'
  <2> SUFFICES ASSUME ~unit'
               PROVE  /\ stage'["alloc"] = NoRows
                      /\ ~ghost' => /\ sandbox'.id = None /\ ~lock'
                                    /\ creq' = None /\ stage'["clean"] = NoRows
    BY DEF GoneIsGone
  <2>1. CASE unit
    <3>0. \A c \in Clean : DebitPool(c) => unit' = unit
      BY DEF DebitPool, rows
    <3>1. PICK c \in Clean : DeleteUnit(c)
      BY <1>1, <2>1, <3>0, AccountSteps
    <3>2. ~ghost'
      <4>1. UNCHANGED rows => unit' = unit
        BY DEF rows
      <4> QED BY <2>1, <3>1, <4>1 DEF DeleteUnit
    <3> QED BY <1>1, <2>1, <3>1, <3>2, DeletedWhole DEF UnitRow
  <2>2. CASE ~unit
    <3>1. CASE ghost /\ ~ghost'
      <4>1. PICK c \in Clean : DeleteUnit(c)
        BY <1>1, <3>1, GhostGoes
      <4> QED BY <1>1, <3>1, <4>1, DeletedWhole DEF UnitRow
    <3>2. CASE ~ghost
      BY <1>1, <2>2, <3>2, GoneStays DEF LockHasSandbox
    <3>3. CASE ghost'
      BY <1>1, <2>2, <3>3, GoneStays
    <3> QED BY <3>1, <3>2, <3>3
  <2> QED BY <2>1, <2>2
<1> QED BY <1>1, <1>2, <1>3 DEF GoneInv

\* When the unit is created, nothing of it is gone.
LEMMA GoneInitially == Init => GoneInv
<1> SUFFICES ASSUME Init PROVE GoneInv
  OBVIOUS
<1>1. FirstAlone
  <2>1. \A c \in Clean : job[c].at = Create /\ job[c].st = "new"
    BY LifecycleAssumption DEF Init, NewJob, Chains
  <2>2. stage["alloc"] = NoRows
    BY Positions DEF Init
  <2> QED BY <2>1, <2>2 DEF Init, FirstAlone
<1> QED BY <1>1, LockInitially DEF Init, GoneInv, GoneIsGone

(* Once the unit is deleted, no late save brings anything of it back, but   *)
(* for what hangs on the ghost a late PATCH makes.                         *)
THEOREM GoneTheorem == Spec => []GoneIsGone
<1>1. GoneInv => GoneIsGone
  BY DEF GoneInv
<1> QED BY <1>1, GoneInitially, GoneInductive, PTL DEF Spec

-----------------------------------------------------------------------------
(* What a step does to a stage row *)

\* The row of chain c at k after a save in the given state.
Saved(c, k, st) ==
    [id |-> c, state |-> st, rq |-> stage[Kind(c)][k].id = c /\ stage[Kind(c)][k].rq]

\* Who saves the row of chain c at k, and in which state.
Saves(c, k, st) ==
    /\ CanSave(c, k)
    /\ \/ /\ job[c].at = k
          /\ \/ StageStart(c) /\ st = "RUNNING"
             \/ StageOk(c) /\ st = "FINISHED"
             \/ StageFail(c) /\ st = "FAILED"
       \/ /\ st = "FAILED"
          /\ \E w \in Web : CancelStage(w) /\ web[w].todo = k /\ web[w].snap[k] = c

\* Everything that can happen to a row.
RowStep(kd, k) ==
    \/ stage'[kd][k] = stage[kd][k]
    \/ /\ stage'[kd][k] = NoRow
       /\ kd = "alloc" => ~unit'
       /\ kd = "clean" => creq' = None
    \/ \E c \in Chains : /\ Kind(c) = kd /\ stage'[kd][k] = Fresh(c)
                         /\ Begins(c) \/ (Restarts(c) /\ k \in ToRestart)
    \/ \E c \in Chains, st \in StageState :
          Kind(c) = kd /\ Saves(c, k, st) /\ stage'[kd][k] = Saved(c, k, st)
    \/ /\ Unfinished(kd, k) /\ stage'[kd][k] = [stage[kd][k] EXCEPT !.state = "FAILED"]
       /\ \E c \in Chains : ExceptionHandler(c) /\ Kind(c) = kd

\* A save changes one row.
LEMMA SaveChanges ==
    ASSUME TypeOK, NEW c \in Chains, NEW i \in Stages, NEW st, Save(c, i, st),
           NEW kd \in Kinds, NEW k \in Stages
    PROVE  \/ stage'[kd][k] = stage[kd][k]
           \/ kd = Kind(c) /\ k = i /\ stage'[kd][k] = Saved(c, k, st)
<1>1. stage' = [stage EXCEPT ![Kind(c)] = [stage[Kind(c)] EXCEPT ![i] = Saved(c, i, st)]]
  BY DEF Save, Saved
<1>2. stage \in [Kinds -> [Stages -> Row]]
  BY DEF TypeOK
<1> QED BY <1>1, <1>2

\* The create job of the first chain makes the allocation rows.
LEMMA AllocationRows ==
    ASSUME TypeOK, CreateAllocation, NEW kd \in Kinds, NEW k \in Stages
    PROVE  RowStep(kd, k)
<1>1. First \in Chains /\ Kind(First) = "alloc" /\ job[First] \in Job
  BY LifecycleAssumption DEF Chains, Kind, TypeOK
<1>2. Begins(First)
  BY <1>1 DEF Begins, Queues, CreateAllocation, TypeOK, Job, Final
<1>3. kd = "alloc" => stage'[kd][k] = Fresh(First)
  BY DEF CreateAllocation, TypeOK
<1>4. kd # "alloc" => stage'[kd] = stage[kd]
  BY DEF CreateAllocation, TypeOK
<1> QED BY <1>1, <1>2, <1>3, <1>4 DEF RowStep

\* A restart makes the rows of the stages it repeats.
LEMMA RestartRows ==
    ASSUME TypeOK, NEW c \in Chains, RestartApply(c), Restartable, stage' # stage,
           NEW kd \in Kinds, NEW k \in Stages
    PROVE  RowStep(kd, k)
<1> DEFINE new == [i \in Stages |-> IF i \in ToRestart THEN Fresh(c) ELSE stage["alloc"][i]]
<1>1. stage' = [stage EXCEPT !["alloc"] = new]
  BY Zenon DEF RestartApply
<1>2. /\ Kind(c) = "alloc" /\ "alloc" \in Kinds /\ stage \in [Kinds -> [Stages -> Row]]
      /\ job \in [Chains -> Job]
  BY Positions, Zenon DEF RestartApply, Kind, TypeOK
<1>3. Restarts(c)
  <2>2. PICK p \in ToRestart :
          /\ \A q \in ToRestart : p <= q
          /\ job' = [job EXCEPT ![c].at = p, ![c].st = "queued", ![c].ref = None,
                              ![c].rest = (ToRestart \cup {Final}) \ {p}]
    BY Zenon DEF RestartApply
  <2>3. Queues(c, p, (ToRestart \cup {4}) \ {p})
    BY <1>2, <2>2 DEF Job, Queues, Final
  <2> QED BY <2>2, <2>3 DEF Restarts
<1>4. kd = "alloc" => stage'[kd][k] = new[k]
  <2> HIDE DEF new
  <2> QED BY <1>1, <1>2
<1>5. kd # "alloc" => stage'[kd] = stage[kd]
  <2> HIDE DEF new
  <2> QED BY <1>1, <1>2
<1> QED BY <1>2, <1>3, <1>4, <1>5 DEF RowStep

\* The create job of a cleanup makes the cleanup rows.
LEMMA CleanupRows ==
    ASSUME TypeOK, NEW c \in Chains, CreateCleanup(c), NEW kd \in Kinds, NEW k \in Stages
    PROVE  RowStep(kd, k)
<1>1. CASE stage' = stage
  BY <1>1 DEF RowStep
<1>2. CASE stage' # stage
  <2> DEFINE new == [i \in Stages |-> Fresh(c)]
  <2>1. /\ stage' = [stage EXCEPT !["clean"] = new]
        /\ job' = [job EXCEPT ![c].at = 1, ![c].rest = {2, 3, Final}, ![c].ref = creq']
        /\ job[c].st = "queued" /\ c \in Clean
    BY <1>2, Zenon DEF CreateCleanup
  <2>2. /\ Kind(c) = "clean" /\ stage \in [Kinds -> [Stages -> Row]] /\ job \in [Chains -> Job]
    BY <2>1, LifecycleAssumption DEF Kind, TypeOK
  <2>3. Begins(c)
    BY <2>1, <2>2 DEF Begins, Queues, Job, Final
  <2>4. (kd = "clean" => stage'[kd] = new) /\ (kd # "clean" => stage'[kd] = stage[kd])
    <3> HIDE DEF new
    <3> QED BY <2>1, <2>2
  <2> QED BY <2>2, <2>3, <2>4 DEF RowStep
<1> QED BY <1>1, <1>2

\* A handler fails what is left of a request.
LEMMA HandlerRows ==
    ASSUME TypeOK, NEW c \in Chains, ExceptionHandler(c), NEW kd \in Kinds, NEW k \in Stages
    PROVE  RowStep(kd, k)
<1> DEFINE of == Kind(c)
           known == stage[of][job[c].at].id = c /\ stage[of][job[c].at].rq
           hit(i) == known /\ Unfinished(of, i)
           new == [i \in Stages |-> IF hit(i) THEN [stage[of][i] EXCEPT !.state = "FAILED"]
                                    ELSE stage[of][i]]
<1>1. stage' = [stage EXCEPT ![of] = new]
  BY DEF ExceptionHandler
<1>2. new[k] = stage[of][k] \/ (Unfinished(of, k) /\ new[k] = [stage[of][k] EXCEPT !.state = "FAILED"])
  OBVIOUS
<1>3. stage'[kd][k] = stage[kd][k] \/ (kd = of /\ stage'[kd][k] = new[k])
  <2> HIDE DEF new, of
  <2> QED BY <1>1 DEF TypeOK
<1> HIDE DEF new
<1> QED BY <1>2, <1>3 DEF RowStep

\* What one step may do to a row.
LEMMA RowSteps ==
    ASSUME TypeOK, [Next]_vars, NEW kd \in Kinds, NEW k \in Stages
    PROVE  RowStep(kd, k)
<1>1. CASE UNCHANGED stage
  BY <1>1 DEF RowStep
<1>2. CASE RequestRestart \/ LockSandbox \/ UnlockSandbox \/ PatchUnit \/ UNCHANGED vars
  BY <1>1, <1>2 DEF RequestRestart, LockSandbox, UnlockSandbox, PatchUnit, vars, rows
<1>3. CASE DeleteCleanup
  BY <1>3 DEF DeleteCleanup, RowStep, NoRows, TypeOK
<1>4. ASSUME NEW c \in Chains, Worker(c) PROVE RowStep(kd, k)
  <2>1. ASSUME NEW st \in StageState, job[c].at \in Stages, CanSave(c, job[c].at),
               Save(c, job[c].at, st),
               \/ StageStart(c) /\ st = "RUNNING"
               \/ StageOk(c) /\ st = "FINISHED"
               \/ StageFail(c) /\ st = "FAILED"
        PROVE  RowStep(kd, k)
    <3>1. CASE stage'[kd][k] = stage[kd][k]
      BY <3>1 DEF RowStep
    <3>2. CASE kd = Kind(c) /\ k = job[c].at /\ stage'[kd][k] = Saved(c, k, st)
      <4>1. Saves(c, k, st)
        BY <2>1, <3>2 DEF Saves
      <4> QED BY <3>2, <4>1 DEF RowStep
    <3> QED BY <2>1, <3>1, <3>2, SaveChanges
  <2>2. CASE StageStart(c)
    BY <1>1, <2>1, <2>2, Zenon DEF StageStart, StageState
  <2>3. CASE StageOk(c)
    BY <1>1, <2>1, <2>3, Zenon DEF StageOk, StageState
  <2>4. CASE StageFail(c)
    BY <1>1, <2>1, <2>4, Zenon DEF StageFail, StageState
  <2>5. CASE ExceptionHandler(c)
    BY <2>5, HandlerRows
  <2>6. CASE RestartApply(c)
    BY <1>1, <2>6, RestartStages, RestartRows
  <2>7. CASE CreateCleanup(c)
    BY <2>7, CleanupRows
  <2>8. CASE DeleteUnit(c)
    <3>1. \/ UNCHANGED stage
          \/ stage' = [i \in Kinds |-> NoRows] /\ ~unit' /\ creq' = None
      BY <2>8, Zenon DEF DeleteUnit, rows
    <3> QED BY <1>1, <3>1 DEF RowStep, NoRows
  <2>9. CASE RestartBegin(c) \/ MarkReady(c) \/ DebitPool(c)
    BY <1>1, <2>9 DEF RestartBegin, MarkReady, DebitPool, rows
  <2> QED BY <1>4, <2>2, <2>3, <2>4, <2>5, <2>6, <2>7, <2>8, <2>9 DEF Worker
<1>5. ASSUME NEW c \in Chains, WorkerCrash(c) PROVE RowStep(kd, k)
  BY <1>1, <1>5 DEF WorkerCrash, rows
<1>6. ASSUME NEW w \in Web, Request(w) PROVE RowStep(kd, k)
  BY <1>1, <1>6 DEF Request, CancelAllocation, CancelCleanup, CleanupCheck, ForceCheck, rows
<1>7. ASSUME NEW w \in Web, Continue(w) PROVE RowStep(kd, k)
  <2>1. CASE CancelStage(w)
    <3>1. CASE UNCHANGED stage
      BY <1>1, <3>1
    <3>2. ASSUME NEW c \in Chains, NEW i \in Stages, web[w].todo = i, web[w].snap[i] = c,
                 CanSave(c, i), Save(c, i, "FAILED")
          PROVE  RowStep(kd, k)
      <4>1. CASE stage'[kd][k] = stage[kd][k]
        BY <4>1 DEF RowStep
      <4>2. CASE kd = Kind(c) /\ k = i /\ stage'[kd][k] = Saved(c, k, "FAILED")
        BY <2>1, <3>2, <4>2 DEF RowStep, Saves, StageState
      <4> QED BY <3>2, <4>1, <4>2, SaveChanges
    <3> QED BY <2>1, <3>1, <3>2, CancelSaves
  <2>2. CASE CleanupDelete(w)
    BY <1>1, <2>2 DEF CleanupDelete
  <2> QED BY <1>7, <2>1, <2>2 DEF Continue
<1> QED BY <1>2, <1>3, <1>4, <1>5, <1>6, <1>7, AllocationRows DEF Next

-----------------------------------------------------------------------------
(* Why a ready sandbox was earned: a finished row was completed by somebody, *)
(* a restart leaves out finished rows only, and a chain comes to its         *)
(* finalizer through every stage it has.                                     *)

\* Some chain completed the stage at k.
Completed(k) == \E c \in Alloc : k \in passed[c]

FinishedCompleted ==
    \A k \in Stages : stage["alloc"][k].id # None /\ stage["alloc"][k].state = "FINISHED"
                      => Completed(k)

\* The jobs behind a job come later in the chain.
RestAfter == \A c \in Chains : \A p \in job[c].rest : job[c].at < p

\* What a chain with a finalizer still has to do, or need not do any more.
Ahead(j) == {j.at} \cup j.rest
FinalCovers == \A c \in Alloc : Final \in Ahead(job[c]) =>
    /\ 3 \in Ahead(job[c]) \/ 3 \in passed[c]
    /\ \A k \in Stages : k \in Ahead(job[c]) \/ Completed(k)

\* A ready sandbox is there.
ReadyExists == sandbox.ready => sandbox.id # None

EarnedInv ==
    TypeOK /\ RestAfter /\ FinishedCompleted /\ FinalCovers /\ ReadyExists /\ ReadyEarned

\* Every step keeps the order of a chain.
LEMMA RestStaysAfter == TypeOK /\ RestAfter /\ [Next]_vars => RestAfter'
<1> SUFFICES ASSUME TypeOK, RestAfter, [Next]_vars, NEW c \in Chains, NEW q \in job'[c].rest
             PROVE  job'[c].at < q
  BY DEF RestAfter
<1>1. /\ JobStep(c) /\ job[c] \in Job /\ job'[c] \in Job
      /\ \A p \in job[c].rest : job[c].at < p
  BY JobSteps, TypeInductive DEF RestAfter, TypeOK
<1>2. CASE job'[c].at = job[c].at /\ job'[c].rest \subseteq job[c].rest
  BY <1>1, <1>2
<1>3. CASE Begins(c)
  BY <1>3 DEF Begins, Queues
<1>4. CASE Restarts(c)
  BY <1>4 DEF Restarts, Queues, ToRestart
<1>5. CASE Passes(c)
  BY <1>1, <1>5 DEF Passes, Queues, Job
<1> QED BY <1>1, <1>2, <1>3, <1>4, <1>5 DEF JobStep, Spared, Trimmed, Becomes

\* The stages a chain completed are never taken back, and grow as it goes on.
LEMMA PassedGrows ==
    ASSUME TypeOK, [Next]_vars, NEW c \in Alloc
    PROVE  /\ passed[c] \subseteq passed'[c]
           /\ StageOk(c) /\ CanSave(c, job[c].at) => job[c].at \in passed'[c]
<1>0. StageOk(c) /\ CanSave(c, job[c].at) => job[c].at \in passed'[c]
  BY DEF StageOk, TypeOK
<1>1. CASE \/ CreateAllocation \/ RequestRestart \/ DeleteCleanup \/ LockSandbox
           \/ UnlockSandbox \/ PatchUnit \/ UNCHANGED vars
  BY <1>0, <1>1 DEF CreateAllocation, RequestRestart, DeleteCleanup, LockSandbox, UnlockSandbox,
       PatchUnit, vars
<1>2. ASSUME NEW d \in Chains, Worker(d), ~StageOk(d) PROVE passed' = passed
  BY <1>2, Zenon DEF Worker, StageStart, StageFail, ExceptionHandler, RestartBegin, RestartApply,
       MarkReady, CreateCleanup, DebitPool, DeleteUnit
<1>3. ASSUME NEW d \in Chains, StageOk(d) PROVE passed[c] \subseteq passed'[c]
  BY <1>3 DEF StageOk, TypeOK
<1>4. ASSUME NEW d \in Chains, WorkerCrash(d) PROVE passed' = passed
  BY <1>4 DEF WorkerCrash
<1>5. ASSUME NEW w \in Web, Request(w) \/ Continue(w) PROVE passed' = passed
  BY <1>5, Zenon DEF Request, CancelAllocation, CancelCleanup, CleanupCheck, ForceCheck, Continue,
       CancelStage, CleanupDelete
<1> QED BY <1>0, <1>1, <1>2, <1>3, <1>4, <1>5 DEF Next

\* So is what anybody completed.
LEMMA CompletedStays ==
    ASSUME TypeOK, [Next]_vars, NEW k \in Stages
    PROVE  /\ Completed(k) => Completed(k)'
           /\ \A c \in Alloc : StageOk(c) /\ CanSave(c, job[c].at) /\ job[c].at = k => Completed(k)'
BY PassedGrows DEF Completed

\* Who makes a sandbox ready.
LEMMA ReadySteps ==
    ASSUME TypeOK, [Next]_vars, sandbox'.ready
    PROVE  \/ sandbox' = sandbox
           \/ \E c \in Alloc : job[c].at = Final /\ sandbox'.id = c
<1>1. CASE \/ RequestRestart \/ DeleteCleanup \/ LockSandbox \/ UnlockSandbox
           \/ PatchUnit \/ UNCHANGED vars
  BY <1>1 DEF RequestRestart, DeleteCleanup, LockSandbox, UnlockSandbox, PatchUnit, vars, rows
<1>2. ~CreateAllocation
  BY DEF CreateAllocation
<1>3. ASSUME NEW c \in Chains, Worker(c)
      PROVE  sandbox' = sandbox \/ (c \in Alloc /\ job[c].at = Final /\ sandbox'.id = c)
  <2>1. CASE MarkReady(c)
    BY <2>1 DEF MarkReady
  <2>2. CASE RestartApply(c)
    <3>1. sandbox' = sandbox \/ sandbox' = [id |-> c, ready |-> FALSE]
      BY <2>2, Zenon DEF RestartApply
    <3> QED BY <3>1
  <2>3. CASE ~MarkReady(c) /\ ~RestartApply(c)
    BY <1>3, <2>3, Zenon DEF Worker, StageStart, StageOk, StageFail, ExceptionHandler,
         RestartBegin, CreateCleanup, DebitPool, DeleteUnit, rows
  <2> QED BY <2>1, <2>2, <2>3
<1>4. ASSUME NEW c \in Chains, WorkerCrash(c) PROVE sandbox' = sandbox
  BY <1>4 DEF WorkerCrash, rows
<1>5. ASSUME NEW w \in Web, Request(w) PROVE sandbox' = sandbox
  BY <1>5 DEF Request, CancelAllocation, CancelCleanup, CleanupCheck, ForceCheck, rows
<1>6. ASSUME NEW w \in Web, Continue(w) PROVE sandbox' = sandbox
  BY <1>6 DEF Continue, CancelStage, CleanupDelete
<1> QED BY <1>1, <1>2, <1>3, <1>4, <1>5, <1>6 DEF Next

\* A row is finished only by completing its stage.
LEMMA FinishedInductive ==
    ASSUME TypeOK, FinishedCompleted, [Next]_vars
    PROVE  FinishedCompleted'
<1> SUFFICES ASSUME NEW k \in Stages, stage'["alloc"][k].id # None,
                    stage'["alloc"][k].state = "FINISHED"
             PROVE  Completed(k)'
  BY DEF FinishedCompleted
<1>1. "alloc" \in Kinds /\ stage["alloc"][k] \in Row
  BY Positions DEF TypeOK
<1>2. RowStep("alloc", k)
  BY <1>1, RowSteps
<1>3. CASE stage'["alloc"][k] = stage["alloc"][k]
  BY <1>3, CompletedStays DEF FinishedCompleted
<1>4. ASSUME NEW c \in Chains, NEW st \in StageState, Kind(c) = "alloc", Saves(c, k, st),
             stage'["alloc"][k] = Saved(c, k, st)
      PROVE  Completed(k)'
  <2>1. c \in Alloc /\ st = "FINISHED"
    BY <1>4 DEF Kind, Saved
  <2>2. job[c].at = k /\ StageOk(c) /\ CanSave(c, k)
    BY <1>4, <2>1 DEF Saves
  <2> QED BY <2>1, <2>2, CompletedStays
<1>5. stage'["alloc"][k] # NoRow /\ \A c : stage'["alloc"][k] # Fresh(c)
  BY DEF NoRow, Fresh
<1>6. stage'["alloc"][k] # [stage["alloc"][k] EXCEPT !.state = "FAILED"]
  BY <1>1 DEF Row
<1> QED BY <1>2, <1>3, <1>4, <1>5, <1>6 DEF RowStep

\* A restart leaves out only what somebody completed.
LEMMA LeftOut ==
    ASSUME TypeOK, FinishedCompleted, Restartable, NEW k \in Stages, k \notin ToRestart
    PROVE  Completed(k)
<1>1. /\ stage["alloc"][k] \in Row /\ stage["alloc"][k].id # None
      /\ stage["alloc"][k].state \notin {"IN_QUEUE", "RUNNING"}
  BY Positions DEF Restartable, AllFinished, Exists, Unfinished, TypeOK
<1>2. stage["alloc"][k].state # "FAILED"
  BY DEF ToRestart, Failed, Stages
<1> QED BY <1>1, <1>2 DEF Row, StageState, FinishedCompleted

\* Every step keeps what a finalizer promises.
LEMMA CoversInductive ==
    ASSUME TypeOK, RestAfter, FinishedCompleted, FinalCovers, [Next]_vars
    PROVE  FinalCovers'
<1> SUFFICES ASSUME NEW c \in Alloc, Final \in Ahead(job'[c])
             PROVE  /\ 3 \in Ahead(job'[c]) \/ 3 \in passed'[c]
                    /\ \A k \in Stages : k \in Ahead(job'[c]) \/ Completed(k)'
  BY DEF FinalCovers
<1>1. /\ c \in Chains /\ JobStep(c) /\ job[c] \in Job /\ job'[c] \in Job
      /\ \A p \in job[c].rest : job[c].at < p
      /\ \A k \in Stages : Completed(k) => Completed(k)'
      /\ 3 \in passed[c] => 3 \in passed'[c]
  BY JobSteps, TypeInductive, CompletedStays, PassedGrows DEF RestAfter, TypeOK, Chains
<1>2. CASE Ahead(job'[c]) = Ahead(job[c])
  BY <1>1, <1>2 DEF FinalCovers
<1>3. CASE Trimmed(job[c], job'[c])
  <2>1. job[c].at = Final => job[c].rest = {}
    BY <1>1 DEF Job, Final
  <2>2. CASE job[c].at # Final
    <3>1. Final \in job'[c].rest
      BY <1>3, <2>2 DEF Ahead, Trimmed
    <3>2. job'[c].rest = job[c].rest
      BY <1>1, <1>3, <3>1 DEF Trimmed, Job, Final
    <3> QED BY <1>2, <1>3, <3>2 DEF Ahead, Trimmed
  <2> QED BY <1>2, <1>3, <2>1, <2>2 DEF Ahead, Trimmed
<1>4. CASE Begins(c)
  BY <1>4 DEF Begins, Queues, Ahead, Stages
<1>5. CASE Restarts(c)
  <2>1. /\ Ahead(job'[c]) = ToRestart \cup {4} /\ 3 \in ToRestart
        /\ Restartable
    BY <1>5 DEF Restarts, Queues, Ahead, ToRestart
  <2> QED BY <1>1, <2>1, LeftOut
<1>6. CASE Passes(c)
  <2>1. PICK p \in job[c].rest : Queues(c, p, job[c].rest \ {p})
    BY <1>6 DEF Passes
  <2>2. Ahead(job'[c]) = job[c].rest /\ Ahead(job[c]) = job[c].rest \cup {job[c].at}
    BY <2>1 DEF Queues, Ahead
  <2>3. /\ 3 \in Ahead(job[c]) \/ 3 \in passed[c]
        /\ \A k \in Stages : k \in Ahead(job[c]) \/ Completed(k)
    BY <2>2 DEF FinalCovers
  <2>4. job[c].at \in passed'[c] /\ \A k \in Stages : job[c].at = k => Completed(k)'
    BY <1>6, PassedGrows, CompletedStays DEF Passes
  <2> QED BY <1>1, <2>2, <2>3, <2>4
<1> QED BY <1>1, <1>2, <1>3, <1>4, <1>5, <1>6 DEF JobStep, Spared, Becomes, Ahead

\* Every step keeps a ready sandbox earned.
LEMMA EarnedInductive == EarnedInv /\ [Next]_vars => EarnedInv'
<1> SUFFICES ASSUME EarnedInv, [Next]_vars PROVE EarnedInv'
  OBVIOUS
<1>1. /\ TypeOK /\ RestAfter /\ FinishedCompleted /\ FinalCovers /\ ReadyExists /\ ReadyEarned
      /\ TypeOK' /\ RestAfter' /\ FinishedCompleted' /\ FinalCovers'
  BY TypeInductive, RestStaysAfter, FinishedInductive, CoversInductive DEF EarnedInv
<1>2. ASSUME sandbox'.ready
      PROVE  /\ sandbox'.id # None /\ 3 \in passed'[sandbox'.id]
             /\ \A k \in Stages : Completed(k)'
  <2>1. CASE sandbox' = sandbox
    <3>1. /\ 3 \in passed[sandbox.id] /\ \A k \in Stages : Completed(k)
      BY <1>1, <1>2, <2>1 DEF ReadyEarned, Completed
    <3>2. sandbox.id \in Alloc
      BY <1>1, <1>2, <2>1 DEF ReadyExists, TypeOK
    <3> QED BY <1>1, <2>1, <3>1, <3>2, PassedGrows, CompletedStays, LifecycleAssumption
  <2>2. ASSUME NEW c \in Alloc, job[c].at = Final, sandbox'.id = c
        PROVE  /\ sandbox'.id # None /\ 3 \in passed'[sandbox'.id]
               /\ \A k \in Stages : Completed(k)'
    <3>1. Ahead(job[c]) = {Final}
      BY <1>1, <2>2 DEF RestAfter, Ahead, TypeOK, Job, Chains, Final
    <3>2. 3 \in passed[c] /\ \A k \in Stages : Completed(k)
      BY <1>1, <3>1 DEF FinalCovers, Final, Stages
    <3> QED BY <1>1, <2>2, <3>2, PassedGrows, CompletedStays, LifecycleAssumption
  <2> QED BY <1>1, <1>2, <2>1, <2>2, ReadySteps
<1>3. ReadyEarned' /\ ReadyExists'
  BY <1>2 DEF ReadyEarned, ReadyExists, Completed
<1> QED BY <1>1, <1>3 DEF EarnedInv

\* Before anything has run nothing is ready.
LEMMA EarnedInitially == Init => EarnedInv
<1> SUFFICES ASSUME Init PROVE EarnedInv
  OBVIOUS
<1>1. \A c \in Chains : job[c].at = Create /\ job[c].rest = {}
  BY DEF Init, NewJob
<1>2. stage["alloc"] = NoRows
  BY Positions DEF Init
<1>3. FinalCovers /\ RestAfter
  BY <1>1 DEF FinalCovers, RestAfter, Ahead, Chains, Create, Final
<1>4. FinishedCompleted
  BY <1>2 DEF FinishedCompleted, NoRows, NoRow
<1> QED BY <1>3, <1>4, TypeInitially DEF Init, EarnedInv, ReadyExists, ReadyEarned

(* A sandbox is ready only when its own chain completed the user stage and  *)
(* every stage was completed, by it or by a chain before it.               *)
THEOREM EarnedTheorem == Spec => []ReadyEarned
<1>1. EarnedInv => ReadyEarned
  BY DEF EarnedInv
<1> QED BY <1>1, EarnedInitially, EarnedInductive, PTL DEF Spec

-----------------------------------------------------------------------------
(* Why no stage is forgotten.  A row that is not finished belongs to a chain *)
(* that holds every stage it still has to run, so its next save cannot be    *)
(* refused; and a cancellation works from the last stage down, so it never   *)
(* cuts off a job whose row it leaves behind.                                *)

\* Requests come with all their stages, and stages with their RQJob rows.
RowsWhole ==
    /\ unit /\ job[First].at # Create => Exists("alloc")
    /\ creq # None => Exists("clean")
    /\ creq = None => stage["clean"] = NoRows
    /\ \A kd \in Kinds, k \in Stages : stage[kd][k].id # None => stage[kd][k].rq

\* A row, and the key a web thread has read from one, is that of a chain which
\* has begun.
Begun(i, kd) == i # None => Kind(i) = kd /\ job[i].at # Create
OwnersBegun ==
    /\ \A kd \in Kinds, k \in Stages : Begun(stage[kd][k].id, kd)
    /\ \A w \in Web, k \in Stages : Begun(web[w].snap[k], Target(web[w].op))

\* A finished stage is not waiting to be run.
SettledNotQueued == \A kd \in Kinds, k \in Stages :
    LET c == stage[kd][k].id IN
    c # None /\ ~Unfinished(kd, k) =>
        k \notin job[c].rest /\ ~(job[c].at = k /\ job[c].st = "queued")

\* A chain that nobody has queued yet waits for its create job.
NewWaits == \A c \in Chains : job[c].st = "new" => job[c].at = Create

\* The chain that made the cleanup stages works for the request that is there.
RequestHeld == \A k \in Stages :
    LET c == stage["clean"][k].id IN
    c # None => job[c].st = "dead" \/ job[c].ref = creq

\* A web thread cancels the stages of a chain from the last one down.
CancelsDown == \A w \in Web, k \in Stages :
    LET kd == Target(web[w].op)
        s  == web[w].snap[k]
    IN  /\ k > web[w].todo => s = None
        /\ s # None => \A i \in Stages :
               web[w].snap[i] = None /\ stage[kd][i].id = s => ~Unfinished(kd, i)

\* The chain of a row has the row's job ahead of it, and rows for all its jobs.
Holds(c, kd, k) ==
    /\ job[c].at \in Stages
    /\ \A p \in Stages : p \in Ahead(job[c]) => stage[kd][p].id = c
    /\ \/ job[c].st \in {"queued", "running"} /\ k \in Ahead(job[c])
       \/ job[c].st = "failed" /\ job[c].at < k
Held == \A kd \in Kinds, k \in Stages :
    LET c == stage[kd][k].id IN
    Unfinished(kd, k) /\ c \notin crashed => Holds(c, kd, k)

SettleInv ==
    /\ GoneInv /\ RestAfter /\ NewWaits /\ RowsWhole /\ OwnersBegun
    /\ SettledNotQueued /\ RequestHeld /\ CancelsDown /\ Held

\* Nothing takes a chain back, wakes it up or makes it new.
LEMMA ChainsGoOn ==
    ASSUME TypeOK, [Next]_vars, NEW c \in Chains
    PROVE  /\ job'[c].at = Create => job[c].at = Create
           /\ job[c].st = "dead" => job'[c].st = "dead" \/ job[c].at = Create
           /\ job'[c].st = "new" => job[c].st = "new" /\ job'[c].at = job[c].at
<1>1. JobStep(c) /\ job[c] \in Job
  BY JobSteps DEF TypeOK
<1>2. CASE Spared(job[c], job'[c])
  BY <1>2 DEF Spared, Trimmed
<1>3. CASE Begins(c) \/ Restarts(c) \/ Passes(c)
  <2>1. \A p \in job[c].rest \cup ToRestart \cup {1} : p # Create
    BY <1>1 DEF Job, ToRestart, Create
  <2>2. job'[c].at # Create /\ job'[c].st = "queued"
    BY <1>3, <2>1 DEF Begins, Restarts, Passes, Queues
  <2>3. Begins(c) \/ Restarts(c) => job[c].at = Create
    BY Zenon DEF Begins, Restarts, RestartApply, CreateCleanup, CreateAllocation
  <2>4. Passes(c) => job[c].st = "running"
    BY DEF Passes, StageOk
  <2> QED BY <1>3, <2>2, <2>3, <2>4
<1>4. CASE Becomes(c, "queued") /\ job[c].st = "new"
  BY <1>4 DEF Becomes
<1>5. CASE Becomes(c, "running") /\ (StageStart(c) \/ RestartBegin(c) \/ DebitPool(c))
  BY <1>5 DEF Becomes, StageStart, RestartBegin, DebitPool
<1>6. CASE Becomes(c, "failed") /\ StageFail(c)
  BY <1>6 DEF Becomes, StageFail
<1>7. CASE Becomes(c, "done") /\ (MarkReady(c) \/ DeleteUnit(c))
  BY <1>7 DEF Becomes, MarkReady, DeleteUnit
<1> QED BY <1>1, <1>2, <1>3, <1>4, <1>5, <1>6, <1>7 DEF JobStep

\* A chain that has begun has begun for good.
LEMMA BegunStays ==
    ASSUME TypeOK, [Next]_vars, NEW i \in Chains \cup {None}, NEW kd, Begun(i, kd)
    PROVE  i # None => Kind(i) = kd /\ job'[i].at # Create
BY ChainsGoOn DEF Begun

\* While the request exists, nobody saves into a slot that is empty.
LEMMA OwnSlot ==
    ASSUME TypeOK, FirstFindsNone, FirstAlone, RowsWhole,
           NEW c \in Chains, NEW k \in Stages, NEW st, Saves(c, k, st)
    PROVE  /\ stage[Kind(c)][k].id = c
           /\ stage[Kind(c)][k].rq
<1>1. CanSave(c, k) /\ c # None /\ Kind(c) \in Kinds
  BY LifecycleAssumption DEF Saves, Chains, Kind, Kinds
<1>2. CASE stage[Kind(c)][k].id = c
  BY <1>1, <1>2 DEF RowsWhole
<1>3. CASE stage[Kind(c)][k].id = None
  <2>1. ~Exists(Kind(c))
    BY <1>3 DEF Exists
  <2>2. c \notin Clean
    BY <1>1, <2>1, LifecycleAssumption DEF CanSave, RowsWhole, Kind
  <2>3. c \in Alloc /\ unit /\ job[First].at = Create
    BY <1>1, <2>1, <2>2 DEF Chains, CanSave, RowsWhole, Kind
  <2>4. job[c].at = Create /\ \A w \in Web : web[w] = Idle
    BY <2>3 DEF FirstFindsNone, FirstAlone
  <2>5. job[c].at # k /\ \A w \in Web : web[w].todo # k
    BY <2>4 DEF Create, Idle, Stages
  <2> QED BY <2>5 DEF Saves
<1> QED BY <1>1, <1>2, <1>3 DEF CanSave

\* A chain that begins has all the rows of its request.
LEMMA BeginsWhole ==
    ASSUME TypeOK, NEW c \in Chains, Begins(c), NEW k \in Stages
    PROVE  /\ stage'[Kind(c)][k] = Fresh(c)
           /\ Kind(c) = "clean" => creq' # None /\ job'[c].ref = creq'
<1>1. "alloc" \in Kinds /\ "clean" \in Kinds /\ stage \in [Kinds -> [Stages -> Row]]
      /\ job \in [Chains -> Job]
  BY Positions DEF TypeOK
<1>2. CASE c = First /\ CreateAllocation
  <2>1. Kind(c) = "alloc"
    BY <1>2, LifecycleAssumption DEF Kind
  <2>2. stage'["alloc"][k] = Fresh(c)
    BY <1>1, <1>2 DEF CreateAllocation
  <2> QED BY <2>1, <2>2
<1>3. CASE CreateCleanup(c)
  <2> DEFINE new == [i \in Stages |-> Fresh(c)]
  <2>1. Kind(c) = "clean" /\ c \in Clean /\ c # None
    BY <1>3, LifecycleAssumption, Zenon DEF CreateCleanup, Kind
  <2>2. ~Kill(c)
    <3>1. Kill(c) => job'[c].st = "dead"
      BY <1>1 DEF Kill, Job
    <3> QED BY <3>1 DEF Begins, Queues
  <2>3. /\ stage' = [stage EXCEPT !["clean"] = new]
        /\ creq' = IF creq = None THEN c ELSE creq
        /\ job' = [job EXCEPT ![c].at = 1, ![c].rest = {2, 3, Final}, ![c].ref = creq']
    BY <1>3, <2>2, Zenon DEF CreateCleanup
  <2>4. stage'["clean"] = new
    <3> HIDE DEF new
    <3> QED BY <1>1, <2>3
  <2>5. job'[c].ref = creq'
    BY <1>1, <2>3 DEF Job
  <2> QED BY <2>1, <2>3, <2>4, <2>5
<1> QED BY <1>2, <1>3 DEF Begins

\* A restart has the rows of the stages it repeats, and leaves the others.
LEMMA RestartsWhole ==
    ASSUME TypeOK, NEW c \in Chains, Restarts(c), NEW k \in Stages
    PROVE  /\ Kind(c) = "alloc"
           /\ stage'["alloc"][k] = IF k \in ToRestart THEN Fresh(c) ELSE stage["alloc"][k]
<1> DEFINE new == [i \in Stages |-> IF i \in ToRestart THEN Fresh(c) ELSE stage["alloc"][i]]
<1>1. "alloc" \in Kinds /\ stage \in [Kinds -> [Stages -> Row]] /\ job \in [Chains -> Job]
  BY Positions DEF TypeOK
<1>2. RestartApply(c) /\ Restartable
  BY DEF Restarts
<1>3. ~Kill(c)
  <2>1. Kill(c) => job'[c].st = "dead"
    BY <1>1 DEF Kill, Job
  <2> QED BY <2>1 DEF Restarts, Queues
<1>4. stage' = [stage EXCEPT !["alloc"] = new] /\ c \in Alloc
  BY <1>2, <1>3, Zenon DEF RestartApply
<1>5. stage'["alloc"] = new
  <2> HIDE DEF new
  <2> QED BY <1>1, <1>4
<1> QED BY <1>4, <1>5 DEF Kind

\* What a request reads when it begins a cancellation.
Reads(kd, n) == [k \in Stages |-> IF k <= n /\ Unfinished(kd, k) THEN stage[kd][k].id ELSE None]

\* Everything that can happen to a web thread.
WebStep(w) ==
    \/ web'[w] = web[w]
    \/ web'[w] = Idle
    \/ /\ web[w].todo \in Stages
       /\ web'[w] = [web[w] EXCEPT !.todo = web[w].todo - 1, !.snap[web[w].todo] = None]
       /\ web[w].snap[web[w].todo] = None \/ \E c \in Chains :
             /\ web[w].snap[web[w].todo] = c /\ CanSave(c, web[w].todo)
             /\ Save(c, web[w].todo, "FAILED")
    \/ /\ UNCHANGED stage /\ web'[w].todo \in {0, 3}
       /\ web'[w].snap = Reads(Target(web'[w].op), web'[w].todo)

\* A request that begins a cancellation reads the rows once.
LEMMA BusyReads ==
    ASSUME TypeOK, NEW w \in Web, NEW op, NEW n \in {0, 3}, NEW sb, NEW req,
           Busy(w, op, n, sb, req), UNCHANGED stage, NEW v \in Web
    PROVE  WebStep(v)
<1>1. v # w => web'[v] = web[v]
  BY DEF Busy, TypeOK
<1>2. web'[w] = [op |-> op, todo |-> n, sb |-> sb, req |-> req, snap |-> Reads(Target(op), n)]
  BY DEF Busy, Reads, TypeOK
<1>3. /\ web'[w].todo = n /\ web'[w].op = op /\ web'[w].snap = Reads(Target(op), n)
  BY <1>2
<1> QED BY <1>1, <1>3 DEF WebStep

\* What one step may do to a web thread.
LEMMA WebSteps ==
    ASSUME TypeOK, [Next]_vars, NEW v \in Web
    PROVE  WebStep(v)
<1>1. ASSUME UNCHANGED web PROVE WebStep(v)
  BY <1>1 DEF WebStep
<1>2. CASE \/ CreateAllocation \/ RequestRestart \/ DeleteCleanup \/ LockSandbox
           \/ UnlockSandbox \/ PatchUnit \/ UNCHANGED vars
  BY <1>1, <1>2 DEF CreateAllocation, RequestRestart, DeleteCleanup, LockSandbox,
       UnlockSandbox, PatchUnit, vars
<1>3. ASSUME NEW c \in Chains, Worker(c) \/ WorkerCrash(c) PROVE UNCHANGED web
  BY <1>3, Zenon DEF Worker, StageStart, StageOk, StageFail, ExceptionHandler, RestartBegin,
       RestartApply, MarkReady, CreateCleanup, DebitPool, DeleteUnit, WorkerCrash
<1>4. ASSUME NEW w \in Web, Request(w) PROVE WebStep(v)
  <2>1. CASE CancelAllocation(w)
    BY <2>1, BusyReads DEF CancelAllocation, rows
  <2>2. CASE CancelCleanup(w)
    BY <2>2, BusyReads DEF CancelCleanup, rows
  <2>3. CASE CleanupCheck(w)
    BY <2>3, BusyReads DEF CleanupCheck, rows
  <2>4. CASE ForceCheck(w)
    <3>1. (IF AllFinished("alloc") THEN 0 ELSE 3) \in {0, 3}
      OBVIOUS
    <3> QED BY <1>1, <2>4, <3>1, BusyReads DEF ForceCheck
  <2> QED BY <1>4, <2>1, <2>2, <2>3, <2>4 DEF Request
<1>5. ASSUME NEW w \in Web, Leave(w) PROVE WebStep(v)
  BY <1>5 DEF Leave, WebStep, TypeOK
<1>6. ASSUME NEW w \in Web, CancelStage(w) PROVE WebStep(v)
  <2> DEFINE t == web[w]
             k == t.todo
             s == t.snap[k]
             down == [t EXCEPT !.todo = k - 1, !.snap[k] = None]
             next == IF k = 1 /\ t.op # "force" THEN Idle ELSE down
  <2>1. k \in Stages /\ s \in Chains \cup {None}
    BY <1>6 DEF CancelStage, TypeOK, Thread, Stages
  <2>2. \/ Leave(w)
        \/ web' = [web EXCEPT ![w] = next] /\ (s = None \/ (CanSave(s, k) /\ Save(s, k, "FAILED")))
    BY <1>6 DEF CancelStage
  <2>3. next = Idle \/ next = down
    OBVIOUS
  <2>4. CASE web' = [web EXCEPT ![w] = next] /\ (s = None \/ (CanSave(s, k) /\ Save(s, k, "FAILED")))
    <3>1. v # w => web'[v] = web[v]
      BY <2>4
    <3>2. web'[w] = next
      BY <2>4 DEF TypeOK
    <3> QED BY <2>1, <2>3, <2>4, <3>1, <3>2 DEF WebStep
  <2> QED BY <1>5, <2>2, <2>4
<1>7. ASSUME NEW w \in Web, Continue(w) PROVE WebStep(v)
  BY <1>5, <1>6, <1>7 DEF Continue, CleanupDelete
<1> QED BY <1>1, <1>2, <1>3, <1>4, <1>7 DEF Next

\* What the lemmas below assume of the state before the step.
Before ==
    /\ TypeOK /\ TypeOK' /\ FirstFindsNone /\ FirstAlone /\ RestAfter /\ NewWaits /\ RowsWhole
    /\ OwnersBegun /\ SettledNotQueued /\ RequestHeld /\ CancelsDown /\ GoneIsGone

\* A row keeps its owner, or gets one that has just begun, or goes.
LEMMA OwnerSteps ==
    ASSUME Before, [Next]_vars, NEW kd \in Kinds, NEW k \in Stages
    PROVE  \/ stage'[kd][k].id = stage[kd][k].id /\ (stage[kd][k].rq => stage'[kd][k].rq)
           \/ /\ stage'[kd][k].id = None
              /\ kd = "alloc" => ~unit'
              /\ kd = "clean" => creq' = None
           \/ \E c \in Chains : /\ Kind(c) = kd /\ stage'[kd][k] = Fresh(c)
                                /\ Begins(c) \/ (Restarts(c) /\ k \in ToRestart)
<1>1. RowStep(kd, k) /\ stage[kd][k] \in Row
  BY RowSteps DEF Before, TypeOK
<1>2. ASSUME NEW c \in Chains, NEW st \in StageState, Kind(c) = kd, Saves(c, k, st),
             stage'[kd][k] = Saved(c, k, st)
      PROVE  stage'[kd][k].id = stage[kd][k].id /\ (stage[kd][k].rq => stage'[kd][k].rq)
  <2>1. stage[kd][k].id = c /\ stage[kd][k].rq = TRUE
    BY <1>1, <1>2, OwnSlot DEF Before, Row
  <2>2. Saved(c, k, st) = [id |-> c, state |-> st, rq |-> TRUE]
    BY <1>2, <2>1 DEF Saved
  <2> QED BY <1>2, <2>1, <2>2
<1>3. CASE stage'[kd][k] = [stage[kd][k] EXCEPT !.state = "FAILED"]
  BY <1>1, <1>3 DEF Row
<1>4. NoRow.id = None
  BY DEF NoRow
<1> QED BY <1>1, <1>2, <1>3, <1>4 DEF RowStep

\* The owners of rows have begun, and so have the chains the threads know.
LEMMA OwnersStayBegun ==
    ASSUME Before, [Next]_vars
    PROVE  OwnersBegun'
<1> DEFINE Has(i, kd) == i # None => Kind(i) = kd /\ job'[i].at # Create
<1>1. ASSUME NEW kd \in Kinds, NEW k \in Stages PROVE Has(stage'[kd][k].id, kd)
  <2>1. stage[kd][k].id \in Chains \cup {None} /\ Begun(stage[kd][k].id, kd)
    BY DEF Before, TypeOK, Row, OwnersBegun
  <2>2. ASSUME NEW c \in Chains, Begins(c) \/ Restarts(c) PROVE job'[c].at # Create
    BY <2>2 DEF Begins, Restarts, Queues, ToRestart, Create
  <2>3. CASE stage'[kd][k].id = stage[kd][k].id
    BY <2>1, <2>3, BegunStays DEF Before
  <2>4. \A c \in Chains : Fresh(c).id = c
    BY DEF Fresh
  <2> HIDE DEF Has
  <2>5. CASE stage'[kd][k].id = None
    BY <2>5 DEF Has
  <2>6. ASSUME NEW c \in Chains, Kind(c) = kd, stage'[kd][k] = Fresh(c), Begins(c) \/ Restarts(c)
        PROVE  Has(stage'[kd][k].id, kd)
    BY <2>2, <2>4, <2>6 DEF Has
  <2> QED BY <2>3, <2>5, <2>6, OwnerSteps
<1>2. ASSUME NEW w \in Web, NEW k \in Stages PROVE Has(web'[w].snap[k], Target(web'[w].op))
  <2>1. /\ web[w] \in Thread /\ Begun(web[w].snap[k], Target(web[w].op))
        /\ web[w].snap[k] \in Chains \cup {None}
    BY DEF Before, TypeOK, Thread, OwnersBegun
  <2>2. CASE web'[w].snap[k] = web[w].snap[k] /\ web'[w].op = web[w].op
    BY <2>1, <2>2, BegunStays DEF Before
  <2>3. CASE web'[w].snap[k] = None
    BY <2>3
  <2>4. CASE UNCHANGED stage /\ web'[w].snap = Reads(Target(web'[w].op), web'[w].todo)
    <3>1. Target(web'[w].op) \in Kinds
      BY DEF Target, Kinds
    <3>2. web'[w].snap[k] \in {None, stage'[Target(web'[w].op)][k].id}
      BY <2>4 DEF Reads
    <3> HIDE DEF Has
    <3> QED BY <1>1, <2>3, <3>1, <3>2
  <2>5. CASE web'[w] = Idle
    <3>1. web'[w].snap[k] = None
      BY <2>5 DEF Idle, NoSnap
    <3> QED BY <2>3, <3>1
  <2>6. ASSUME web[w].todo \in Stages,
               web'[w] = [web[w] EXCEPT !.todo = web[w].todo - 1, !.snap[web[w].todo] = None]
        PROVE  web'[w].snap[k] \in {None, web[w].snap[k]} /\ web'[w].op = web[w].op
    BY <2>1, <2>6 DEF Thread
  <2>7. \/ web'[w] = web[w]
        \/ web'[w] = Idle
        \/ /\ web[w].todo \in Stages
           /\ web'[w] = [web[w] EXCEPT !.todo = web[w].todo - 1, !.snap[web[w].todo] = None]
        \/ UNCHANGED stage /\ web'[w].snap = Reads(Target(web'[w].op), web'[w].todo)
    BY WebSteps, Zenon DEF Before, WebStep
  <2> HIDE DEF Has
  <2> QED BY <2>2, <2>3, <2>4, <2>5, <2>6, <2>7
<1> QED BY <1>1, <1>2 DEF OwnersBegun, Begun

\* The request of a cleanup stays as it is, until it is deleted with its rows.
LEMMA RequestStays ==
    ASSUME TypeOK, [Next]_vars, creq # None
    PROVE  creq' = creq \/ (creq' = None /\ stage'["clean"] = NoRows)
<1>1. "clean" \in Kinds /\ stage \in [Kinds -> [Stages -> Row]]
  BY Positions DEF TypeOK
<1>2. CASE \/ CreateAllocation \/ RequestRestart \/ LockSandbox \/ UnlockSandbox
           \/ PatchUnit \/ UNCHANGED vars
  BY <1>2 DEF CreateAllocation, RequestRestart, LockSandbox, UnlockSandbox, PatchUnit, vars, rows
<1>3. CASE DeleteCleanup
  BY <1>1, <1>3 DEF DeleteCleanup
<1>4. ASSUME NEW c \in Chains, Worker(c)
      PROVE  creq' = creq \/ (creq' = None /\ stage'["clean"] = NoRows)
  <2>1. CASE DeleteUnit(c)
    <3>1. UNCHANGED rows \/ (creq' = None /\ stage' = [kd \in Kinds |-> NoRows])
      BY <2>1, Zenon DEF DeleteUnit
    <3> QED BY <1>1, <3>1 DEF rows
  <2>2. CASE ~DeleteUnit(c)
    BY <1>4, <2>2, Zenon DEF Worker, StageStart, StageOk, StageFail, ExceptionHandler,
         RestartBegin, RestartApply, MarkReady, CreateCleanup, DebitPool, rows
  <2> QED BY <2>1, <2>2
<1>5. ASSUME NEW c \in Chains, WorkerCrash(c) PROVE creq' = creq
  BY <1>5 DEF WorkerCrash, rows
<1>6. ASSUME NEW w \in Web, Request(w) \/ Continue(w) PROVE creq' = creq
  BY <1>6 DEF Request, CancelAllocation, CancelCleanup, CleanupCheck, ForceCheck, Continue,
       CancelStage, CleanupDelete, rows
<1> QED BY <1>2, <1>3, <1>4, <1>5, <1>6 DEF Next

\* The requests keep their stages, and the stages their RQJob rows.
LEMMA RowsStayWhole ==
    ASSUME Before, [Next]_vars
    PROVE  RowsWhole'
<1> USE DEF Before
<1>0. "alloc" \in Kinds /\ "clean" \in Kinds /\ First \in Alloc
  BY LifecycleAssumption DEF Kinds
<1>1. \A c \in Chains : c # None /\ Fresh(c).id = c /\ Fresh(c).rq
  BY LifecycleAssumption DEF Fresh, Chains
<1>2. ASSUME unit', job'[First].at # Create, NEW k \in Stages PROVE stage'["alloc"][k].id # None
  <2>1. unit
    <3>1. \A c \in Clean : DebitPool(c) => unit' = unit
      BY DEF DebitPool, rows
    <3> QED BY <1>2, <3>1, AccountSteps
  <2>2. CASE job[First].at = Create
    <3>1. CreateAllocation
      <4>1. ~RestartBegin(First) /\ ~RestartApply(First)
        BY <1>0, <2>2 DEF RestartBegin, RestartApply, FirstFindsNone
      <4> QED BY <1>0, <1>2, <2>2, <4>1, AllocSteps DEF Rests
    <3>2. stage'["alloc"][k] = Fresh(First)
      BY <1>0, <3>1 DEF CreateAllocation, TypeOK
    <3> QED BY <1>0, <1>1, <3>2 DEF Chains
  <2>3. CASE job[First].at # Create
    <3>1. stage["alloc"][k].id # None
      BY <2>1, <2>3 DEF RowsWhole, Exists
    <3> QED BY <1>0, <1>1, <1>2, <3>1, OwnerSteps
  <2> QED BY <2>2, <2>3
<1>3. ASSUME creq' # None, NEW k \in Stages PROVE stage'["clean"][k].id # None
  <2>1. CASE creq = None
    <3>1. PICK c \in Clean : CreateCleanup(c)
      BY <1>3, <2>1, RequestSteps
    <3> DEFINE new == [i \in Stages |-> Fresh(c)]
    <3>2. stage' = [stage EXCEPT !["clean"] = new]
      BY <1>3, <2>1, <3>1, Zenon DEF CreateCleanup
    <3>3. stage'["clean"] = new
      <4> HIDE DEF new
      <4> QED BY <1>0, <3>2 DEF TypeOK
    <3> QED BY <1>1, <3>3 DEF Chains
  <2>2. CASE creq # None
    <3>1. stage["clean"][k].id # None
      BY <2>2 DEF RowsWhole, Exists
    <3> QED BY <1>0, <1>1, <1>3, <3>1, OwnerSteps
  <2> QED BY <2>1, <2>2
<1>4. ASSUME creq' = None PROVE stage'["clean"] = NoRows
  <2>1. CASE creq = None
    <3>1. stage["clean"] = NoRows
      BY <2>1 DEF RowsWhole
    <3>2. \A c \in Chains : Kind(c) = "clean" => \A k \in Stages : ~CanSave(c, k)
      BY <2>1, SaveNeeds
    <3>3. ASSUME NEW c \in Clean, CreateCleanup(c) PROVE UNCHANGED stage
      <4>1. c # None
        BY LifecycleAssumption
      <4> QED BY <1>4, <2>1, <3>3, <4>1, Zenon DEF CreateCleanup
    <3> QED BY <1>0, <3>1, <3>2, <3>3, NoRowsStay
  <2>2. CASE creq # None
    BY <1>4, <2>2, RequestStays
  <2> QED BY <2>1, <2>2
<1>5. ASSUME NEW kd \in Kinds, NEW k \in Stages, stage'[kd][k].id # None PROVE stage'[kd][k].rq
  <2>1. CASE stage'[kd][k].id = stage[kd][k].id /\ (stage[kd][k].rq => stage'[kd][k].rq)
    BY <1>5, <2>1 DEF RowsWhole
  <2> QED BY <1>1, <1>5, <2>1, OwnerSteps
<1> QED BY <1>2, <1>3, <1>4, <1>5 DEF RowsWhole, Exists

\* What the handler of the failed job of e finds, and the jobs of c it deletes.
Known(e) == stage[Kind(e)][job[e].at].id = e /\ stage[Kind(e)][job[e].at].rq
Hits(e, c) == {k \in Stages : /\ Known(e) /\ Unfinished(Kind(e), k)
                              /\ stage[Kind(e)][k].id = c /\ stage[Kind(e)][k].rq}

\* The handler deletes the jobs of the rows it fails.
LEMMA HandlerCuts ==
    ASSUME TypeOK, NEW e \in Chains, ExceptionHandler(e), NEW c \in Chains
    PROVE  /\ job'[c].at = Cut(job[c], Hits(e, c)).at
           /\ job'[c].rest = Cut(job[c], Hits(e, c)).rest
           /\ job'[c].st = IF c = e THEN "dead" ELSE Cut(job[c], Hits(e, c)).st
<1> DEFINE cut == [i \in Chains |-> Cut(job[i], Hits(e, i))]
<1>1. job' = [cut EXCEPT ![e].st = "dead"]
  BY DEF ExceptionHandler, Hits, Known
<1>2. cut \in [Chains -> Job] /\ cut[c] = Cut(job[c], Hits(e, c))
  BY CutType DEF TypeOK
<1> HIDE DEF cut
<1> QED BY <1>1, <1>2 DEF Job

\* The handler fails every unfinished row of a request it finds, and no other.
LEMMA HandlerFails ==
    ASSUME TypeOK, NEW e \in Chains, ExceptionHandler(e), NEW kd \in Kinds, NEW k \in Stages
    PROVE  stage'[kd][k] = IF kd = Kind(e) /\ Known(e) /\ Unfinished(kd, k)
                           THEN [stage[kd][k] EXCEPT !.state = "FAILED"] ELSE stage[kd][k]
<1> DEFINE new == [i \in Stages |-> IF Known(e) /\ Unfinished(Kind(e), i)
                                   THEN [stage[Kind(e)][i] EXCEPT !.state = "FAILED"]
                                   ELSE stage[Kind(e)][i]]
<1>1. stage' = [stage EXCEPT ![Kind(e)] = new]
  BY DEF ExceptionHandler, Known
<1>2. stage'[kd] = IF kd = Kind(e) THEN new ELSE stage[kd]
  <2> HIDE DEF new
  <2> QED BY <1>1 DEF TypeOK
<1> QED BY <1>2

\* A deleted job is neither queued nor behind another.
LEMMA CutSettles ==
    ASSUME NEW j \in Job, NEW D \in SUBSET Stages, NEW k \in D, \A p \in j.rest : j.at < p
    PROVE  /\ k \notin Cut(j, D).rest
           /\ Cut(j, D).at = k => Cut(j, D).st # "queued"
<1>1. k \in 1..3
  BY DEF Stages
<1> QED BY <1>1 DEF Cut, Job

\* A finished stage does not come up again.
LEMMA SettledChain ==
    ASSUME Before, [Next]_vars, NEW c \in Chains, NEW k \in Stages, job[c].at # Create,
           k \notin job[c].rest, ~(job[c].at = k /\ job[c].st = "queued")
    PROVE  k \notin job'[c].rest /\ ~(job'[c].at = k /\ job'[c].st = "queued")
<1>1. JobStep(c) /\ job[c].st # "new"
  BY JobSteps DEF Before, NewWaits
<1>2. ~Begins(c) /\ ~Restarts(c)
  BY Zenon DEF Begins, Restarts, RestartApply, CreateCleanup, CreateAllocation
<1>3. CASE Passes(c)
  BY <1>3 DEF Passes, Queues
<1> QED BY <1>1, <1>2, <1>3 DEF JobStep, Spared, Trimmed, Becomes

\* A cancellation deletes the job of the row it fails.
LEMMA CancelCuts ==
    ASSUME Before, NEW w \in Web, CancelStage(w), NEW c \in Chains, NEW k \in Stages,
           web[w].todo = k, web[w].snap[k] = c, CanSave(c, k), stage[Kind(c)][k].id = c
    PROVE  /\ job' = [job EXCEPT ![c] = Cut(job[c], {k})]
           /\ Kind(c) = Target(web[w].op)
<1>1. c # None /\ Kind(c) = Target(web[w].op) /\ Kind(c) \in Kinds
  BY LifecycleAssumption DEF Before, OwnersBegun, Begun, Chains, Kind, Kinds
<1>2. stage[Kind(c)][k].rq
  BY <1>1 DEF Before, RowsWhole
<1> QED BY <1>1, <1>2 DEF CancelStage

\* Finished stages are not waiting to be run, whatever the step.
LEMMA SettledStays ==
    ASSUME Before, [Next]_vars
    PROVE  SettledNotQueued'
<1> SUFFICES ASSUME NEW kd \in Kinds, NEW k \in Stages, NEW c \in Chains,
                    stage'[kd][k].id = c, ~Unfinished(kd, k)'
             PROVE  k \notin job'[c].rest /\ ~(job'[c].at = k /\ job'[c].st = "queued")
  <2>1. \A kd \in Kinds, k \in Stages : stage'[kd][k].id \in Chains \cup {None}
    BY DEF Before, TypeOK, Row
  <2> QED BY <2>1 DEF SettledNotQueued
<1> DEFINE Goal == k \notin job'[c].rest /\ ~(job'[c].at = k /\ job'[c].st = "queued")
<1> SUFFICES Goal
  OBVIOUS
<1>0. /\ TypeOK /\ job[c] \in Job /\ stage[kd][k] \in Row /\ c # None
      /\ \A p \in job[c].rest : job[c].at < p
      /\ stage'[kd][k].state \notin {"IN_QUEUE", "RUNNING"}
  BY LifecycleAssumption DEF Before, TypeOK, RestAfter, Unfinished, Chains
<1>1. ASSUME k \notin job[c].rest, ~(job[c].at = k /\ job[c].st = "queued"), job[c].at # Create
      PROVE  Goal
  BY <1>1, SettledChain
<1>2. CASE stage'[kd][k] = stage[kd][k]
  <2>1. job[c].at # Create
    BY <1>0, <1>2 DEF Before, OwnersBegun, Begun
  <2>2. ~Unfinished(kd, k)
    BY <1>2 DEF Unfinished
  <2>3. k \notin job[c].rest /\ ~(job[c].at = k /\ job[c].st = "queued")
    BY <1>0, <1>2, <2>2 DEF Before, SettledNotQueued
  <2> QED BY <1>1, <2>1, <2>3
<1>3. ASSUME NEW st \in StageState, Kind(c) = kd, Saves(c, k, st),
             stage'[kd][k] = Saved(c, k, st)
      PROVE  Goal
  <2>1. st # "RUNNING" /\ stage[kd][k].id = c
    BY <1>0, <1>3, OwnSlot DEF Before, Saved
  <2>2. CASE job[c].at = k /\ (StageOk(c) \/ StageFail(c))
    <3>1. job[c].st = "running"
      BY <2>2 DEF StageOk, StageFail
    <3> QED BY <1>0, <1>1, <2>2, <3>1 DEF Stages, Create, Job
  <2>3. ASSUME NEW w \in Web, CancelStage(w), web[w].todo = k, web[w].snap[k] = c PROVE Goal
    <3>1. job' = [job EXCEPT ![c] = Cut(job[c], {k})]
      BY <1>3, <2>1, <2>3, CancelCuts DEF Saves
    <3>2. job'[c] = Cut(job[c], {k})
      BY <3>1 DEF Before, TypeOK
    <3> QED BY <1>0, <3>2, CutSettles
  <2> QED BY <1>3, <2>1, <2>2, <2>3 DEF Saves
<1>4. ASSUME NEW e \in Chains, ExceptionHandler(e), Kind(e) = kd, stage'[kd][k] # stage[kd][k]
      PROVE  Goal
  <2>1. /\ Known(e) /\ Unfinished(kd, k)
        /\ stage'[kd][k] = [stage[kd][k] EXCEPT !.state = "FAILED"]
    BY <1>0, <1>4, HandlerFails
  <2>3. stage[kd][k].id = c
    BY <1>0, <2>1 DEF Row
  <2>2. k \in Hits(e, c)
    BY <1>0, <1>4, <2>1, <2>3 DEF Hits, Before, RowsWhole
  <2>4. Hits(e, c) \in SUBSET Stages
    BY DEF Hits
  <2> QED BY <1>0, <1>4, <2>2, <2>4, HandlerCuts, CutSettles
<1>5. RowStep(kd, k)
  BY <1>0, RowSteps
<1>6. stage'[kd][k] # NoRow /\ \A d : stage'[kd][k] # Fresh(d)
  BY <1>0 DEF NoRow, Fresh
<1>7. ASSUME NEW d \in Chains, NEW st \in StageState, stage'[kd][k] = Saved(d, k, st) PROVE d = c
  BY <1>7 DEF Saved
<1> HIDE DEF Goal
<1>8. CASE stage'[kd][k] # stage[kd][k]
  <2>1. CASE \E d \in Chains, st \in StageState :
               Kind(d) = kd /\ Saves(d, k, st) /\ stage'[kd][k] = Saved(d, k, st)
    BY <1>3, <1>7, <2>1
  <2>2. CASE \E e \in Chains : ExceptionHandler(e) /\ Kind(e) = kd
    BY <1>4, <1>8, <2>2
  <2> QED BY <1>5, <1>6, <1>8, <2>1, <2>2, Zenon DEF RowStep
<1> QED BY <1>2, <1>8

\* A chain that has begun keeps its key as long as it lives.
LEMMA RefStays ==
    ASSUME TypeOK, NewWaits, [Next]_vars, NEW c \in Chains, job[c].at # Create
    PROVE  job'[c].ref = job[c].ref \/ job'[c].st = "dead"
<1> DEFINE Goal == job'[c].ref = job[c].ref \/ job'[c].st = "dead"
<1>0. job \in [Chains -> Job] /\ job[c] \in Job /\ First \in Chains
  BY LifecycleAssumption DEF TypeOK, Chains
<1>2. ASSUME NEW d \in Chains, Kill(d) PROVE Goal
  <2>1. CASE d = c
    BY <1>0, <1>2, <2>1 DEF Kill, Job
  <2>2. CASE d # c
    BY <1>0, <1>2, <2>2 DEF Kill
  <2> QED BY <2>1, <2>2
<1>3. ASSUME NEW d \in Chains, NEW st, Set(d, st) PROVE Goal
  BY <1>0, <1>3 DEF Set, Job
<1>4. CASE \/ RequestRestart \/ DeleteCleanup \/ LockSandbox \/ UnlockSandbox \/ PatchUnit
           \/ UNCHANGED vars
  BY <1>3, <1>4 DEF RequestRestart, DeleteCleanup, LockSandbox, UnlockSandbox, PatchUnit, vars,
       Chains
<1>5. CASE CreateAllocation
  BY <1>0, <1>5 DEF CreateAllocation, Job
<1>6. ASSUME NEW d \in Chains, Worker(d) PROVE Goal
  <2>1. CASE StageStart(d) \/ StageFail(d) \/ MarkReady(d) \/ DebitPool(d) \/ DeleteUnit(d)
    BY <1>2, <1>3, <2>1, Zenon DEF StageStart, StageFail, MarkReady, DebitPool, DeleteUnit
  <2>2. CASE StageOk(d)
    <3>1. Kill(d) \/ Release(d)
      BY <2>2 DEF StageOk
    <3>2. CASE Release(d) /\ ~Kill(d)
      <4>1. PICK p \in job[d].rest :
               job' = [job EXCEPT ![d].at = p, ![d].st = "queued", ![d].rest = @ \ {p}]
        BY <3>2, Zenon DEF Release
      <4>2. job'[c].ref = job[c].ref
        BY <1>0, <4>1 DEF Job
      <4> QED BY <4>2
    <3> QED BY <1>2, <3>1, <3>2
  <2>3. CASE ExceptionHandler(d)
    <3> DEFINE cut == [i \in Chains |-> Cut(job[i], Hits(d, i))]
    <3>1. job' = [cut EXCEPT ![d].st = "dead"]
      BY <2>3 DEF ExceptionHandler, Hits, Known
    <3>2. cut \in [Chains -> Job] /\ cut[c].ref = job[c].ref
      <4>1. \A i \in Chains : Hits(d, i) \in SUBSET Stages
        BY DEF Hits
      <4>2. \A i \in Chains : Cut(job[i], Hits(d, i)) \in Job
        BY <1>0, <4>1, CutType
      <4>3. cut[c].ref = job[c].ref
        BY <1>0 DEF Cut, Job
      <4> QED BY <4>2, <4>3
    <3> HIDE DEF cut
    <3> QED BY <3>1, <3>2 DEF Job
  <2>4. CASE RestartBegin(d) \/ RestartApply(d) \/ CreateCleanup(d)
    <3>1. job[d].at = Create
      BY <2>4, Zenon DEF RestartBegin, RestartApply, CreateCleanup
    <3>2. d # c
      BY <3>1
    <3>3. \A e \in Chains : e # d => job'[e] = job[e]
      BY <1>0, <2>4, Zenon DEF RestartBegin, RestartApply, CreateCleanup, Kill
    <3> QED BY <3>2, <3>3
  <2> QED BY <1>6, <2>1, <2>2, <2>3, <2>4 DEF Worker
<1>7. ASSUME NEW d \in Chains, WorkerCrash(d) PROVE Goal
  BY <1>2, <1>7 DEF WorkerCrash
<1>8. ASSUME NEW w \in Web, Request(w) PROVE Goal
  BY <1>8 DEF Request, CancelAllocation, CancelCleanup, CleanupCheck, ForceCheck
<1>9. ASSUME NEW w \in Web, Continue(w) PROVE Goal
  <2>1. CASE CancelStage(w)
    <3> DEFINE k == web[w].todo
               s == web[w].snap[k]
    <3>1. job' = job \/ job' = [job EXCEPT ![s] = Cut(@, {k})] \/ job' = [job EXCEPT ![s] = @]
      BY <2>1 DEF CancelStage
    <3>2. job'[c] = job[c] \/ job'[c] = Cut(job[c], {k})
      BY <1>0, <3>1
    <3>3. Cut(job[c], {k}).ref = job[c].ref
      BY <1>0 DEF Cut, Job
    <3> QED BY <3>2, <3>3
  <2>2. CASE CleanupDelete(w)
    <3>1. job' = job \/ \E d \in Clean : /\ job[d].st = "new"
            /\ job' = [job EXCEPT ![d].st = "queued", ![d].ref = web[w].req]
      BY <2>2 DEF CleanupDelete
    <3> QED BY <1>0, <3>1 DEF NewWaits, Chains
  <2> QED BY <1>9, <2>1, <2>2 DEF Continue
<1> QED BY <1>4, <1>5, <1>6, <1>7, <1>8, <1>9 DEF Next

\* The chain of the cleanup stages keeps working for the request they are of.
LEMMA RequestStaysHeld ==
    ASSUME Before, [Next]_vars
    PROVE  RequestHeld'
<1> SUFFICES ASSUME NEW k \in Stages, NEW c \in Chains, stage'["clean"][k].id = c
             PROVE  job'[c].st = "dead" \/ job'[c].ref = creq'
  <2>1. \A k \in Stages : stage'["clean"][k].id \in Chains \cup {None}
    BY Positions DEF Before, TypeOK, Row
  <2> QED BY <2>1 DEF RequestHeld
<1>0. /\ "clean" \in Kinds /\ c # None /\ stage["clean"][k].id \in Chains \cup {None}
      /\ \A d \in Chains : Fresh(d).id = d
  BY Positions, LifecycleAssumption DEF Before, TypeOK, Row, Chains, Fresh
<1>1. CASE stage["clean"][k].id = c
  <2>1. /\ job[c].at # Create
        /\ job[c].st = "dead" \/ job[c].ref = creq
    BY <1>0, <1>1 DEF Before, OwnersBegun, Begun, RequestHeld
  <2>2. creq # None
    <3>1. stage["clean"] # NoRows
      BY <1>0, <1>1 DEF NoRows, NoRow
    <3> QED BY <3>1 DEF Before, RowsWhole
  <2>3. creq' = creq
    <3>1. stage'["clean"] # NoRows
      BY <1>0 DEF NoRows, NoRow
    <3> QED BY <2>2, <3>1, RequestStays DEF Before
  <2>4. CASE job[c].st = "dead"
    BY <2>1, <2>4, ChainsGoOn DEF Before
  <2>5. CASE job[c].ref = creq
    BY <2>1, <2>3, <2>5, RefStays DEF Before
  <2> QED BY <2>1, <2>4, <2>5
<1>2. ASSUME NEW d \in Chains, Kind(d) = "clean", stage'["clean"][k] = Fresh(d),
             Begins(d) \/ Restarts(d)
      PROVE  job'[c].st = "dead" \/ job'[c].ref = creq'
  <2>1. d = c
    BY <1>0, <1>2
  <2>2. ~Restarts(d)
    BY <1>2, RestartsWhole DEF Before
  <2> QED BY <1>2, <2>1, <2>2, BeginsWhole DEF Before
<1> QED BY <1>0, <1>1, <1>2, OwnerSteps

\* A chain that has begun gets no row to finish that it did not have.
LEMMA NoNewWork ==
    ASSUME Before, [Next]_vars, NEW kd \in Kinds, NEW i \in Stages, NEW s \in Chains,
           job[s].at # Create, stage'[kd][i].id = s, Unfinished(kd, i)'
    PROVE  stage[kd][i].id = s /\ Unfinished(kd, i)
<1>0. /\ TypeOK /\ s # None /\ stage[kd][i] \in Row
      /\ stage'[kd][i].state \in {"IN_QUEUE", "RUNNING"}
  BY LifecycleAssumption DEF Before, TypeOK, Unfinished, Chains
<1>1. CASE stage'[kd][i] = stage[kd][i]
  BY <1>1 DEF Unfinished
<1>2. ASSUME NEW c \in Chains, stage'[kd][i] = Fresh(c), Begins(c) \/ Restarts(c) PROVE FALSE
  <2>1. c = s
    BY <1>2 DEF Fresh
  <2> QED BY <1>2, <2>1, Zenon DEF Begins, Restarts, RestartApply, CreateCleanup, CreateAllocation
<1>3. ASSUME NEW c \in Chains, NEW st \in StageState, Kind(c) = kd, Saves(c, i, st),
             stage'[kd][i] = Saved(c, i, st)
      PROVE  stage[kd][i].id = s /\ Unfinished(kd, i)
  <2>1. c = s /\ st \in {"IN_QUEUE", "RUNNING"}
    BY <1>0, <1>3 DEF Saved
  <2>2. StageStart(s) /\ job[s].at = i
    BY <1>3, <2>1 DEF Saves
  <2>3. stage[kd][i].id = s
    BY <1>3, <2>1, OwnSlot DEF Before
  <2>4. job[s].st = "queued"
    BY <2>2 DEF StageStart
  <2> QED BY <1>0, <2>2, <2>3, <2>4 DEF Before, SettledNotQueued
<1>4. stage'[kd][i] # NoRow /\ stage'[kd][i] # [stage[kd][i] EXCEPT !.state = "FAILED"]
  BY <1>0 DEF NoRow, Row
<1> QED BY <1>0, <1>1, <1>2, <1>3, <1>4, RowSteps DEF RowStep

\* A cancellation goes on downwards.
LEMMA CancelsGoDown ==
    ASSUME Before, [Next]_vars
    PROVE  CancelsDown'
<1> DEFINE Open(of, i) == stage'[of][i].id # None /\ stage'[of][i].state \in {"IN_QUEUE", "RUNNING"}
<1> SUFFICES ASSUME NEW w \in Web, NEW k \in Stages
             PROVE  /\ k > web'[w].todo => web'[w].snap[k] = None
                    /\ web'[w].snap[k] # None => \A i \in Stages :
                          web'[w].snap[i] = None
                          /\ stage'[Target(web'[w].op)][i].id = web'[w].snap[k]
                          => ~Open(Target(web'[w].op), i)
  BY DEF CancelsDown, Unfinished
<1> DEFINE kd == Target(web[w].op)
           s  == web[w].snap[k]
           Down(v) == k > v.todo => v.snap[k] = None
           Left(v) == v.snap[k] # None => \A i \in Stages :
                         v.snap[i] = None /\ stage'[Target(v.op)][i].id = v.snap[k]
                         => ~Open(Target(v.op), i)
<1> SUFFICES Down(web'[w]) /\ Left(web'[w])
  OBVIOUS
<1>0. /\ TypeOK /\ web[w] \in Thread /\ kd \in Kinds /\ Down(web[w])
      /\ \A i \in Stages : Begun(web[w].snap[i], kd) /\ web[w].snap[i] \in Chains \cup {None}
  BY DEF Before, TypeOK, Thread, Target, Kinds, CancelsDown, OwnersBegun
<1>1. ASSUME s # None, NEW i \in Stages, web[w].snap[i] = None, stage'[kd][i].id = s
      PROVE  ~Open(kd, i)
  <2>1. s \in Chains /\ job[s].at # Create
    BY <1>0, <1>1 DEF Begun
  <2>2. stage[kd][i].id = s => ~Unfinished(kd, i)
    BY <1>1 DEF Before, CancelsDown
  <2>3. ASSUME NEW of \in Kinds, NEW c \in Chains, job[c].at # Create, stage'[of][i].id = c,
               Open(of, i)
        PROVE  stage[of][i].id = c /\ Unfinished(of, i)
    BY <2>3, NoNewWork DEF Unfinished
  <2> QED BY <1>0, <1>1, <2>1, <2>2, <2>3
<1>2. CASE web'[w] = web[w]
  BY <1>0, <1>1, <1>2
<1>3. CASE web'[w] = Idle
  BY <1>3 DEF Idle, NoSnap
<1>4. ASSUME web[w].todo \in Stages,
             web'[w] = [web[w] EXCEPT !.todo = web[w].todo - 1, !.snap[web[w].todo] = None],
             web[w].snap[web[w].todo] = None \/ \E c \in Chains :
               /\ web[w].snap[web[w].todo] = c /\ CanSave(c, web[w].todo)
               /\ Save(c, web[w].todo, "FAILED")
      PROVE  Down(web'[w]) /\ Left(web'[w])
  <2> DEFINE n == web[w].todo
  <2>1. /\ web'[w].todo = n - 1 /\ web'[w].op = web[w].op /\ web'[w].snap[n] = None
        /\ \A i \in Stages : i # n => web'[w].snap[i] = web[w].snap[i]
    BY <1>0, <1>4 DEF Thread
  <2>2. Down(web'[w])
    <3>1. n \in 1..3 /\ k \in 1..3
      BY <1>4 DEF Stages
    <3> QED BY <1>0, <2>1, <3>1
  <2>3. ASSUME web'[w].snap[k] # None, NEW i \in Stages, web'[w].snap[i] = None,
               stage'[kd][i].id = web'[w].snap[k]
        PROVE  ~Open(kd, i)
    <3>1. k # n /\ web'[w].snap[k] = s
      BY <2>1, <2>3
    <3>2. CASE web[w].snap[i] = None
      BY <1>1, <2>3, <3>1, <3>2
    <3>3. CASE web[w].snap[i] # None
      <4>1. i = n
        BY <2>1, <2>3, <3>3
      <4>2. PICK c \in Chains : web[w].snap[n] = c /\ CanSave(c, n) /\ Save(c, n, "FAILED")
        BY <1>4, <3>3, <4>1
      <4>3. Kind(c) = kd
        BY <1>0, <1>4, <3>3, <4>1, <4>2 DEF Begun
      <4>4. stage'[kd][n].state = "FAILED"
        BY <1>0, <1>4, <4>2, <4>3 DEF Save, TypeOK
      <4> QED BY <4>1, <4>4
    <3> QED BY <3>2, <3>3
  <2> QED BY <2>1, <2>2, <2>3
<1>5. ASSUME UNCHANGED stage, web'[w].todo \in {0, 3},
             web'[w].snap = Reads(Target(web'[w].op), web'[w].todo)
      PROVE  Down(web'[w]) /\ Left(web'[w])
  <2> DEFINE to == Target(web'[w].op)
             n  == web'[w].todo
  <2>1. \A i \in Stages : web'[w].snap[i] =
           IF i <= n /\ Unfinished(to, i) THEN stage[to][i].id ELSE None
    BY <1>5 DEF Reads
  <2>2. k \in 1..3 /\ \A i \in Stages : i \in 1..3
    BY DEF Stages
  <2>3. Down(web'[w])
    BY <1>5, <2>1, <2>2
  <2>4. ASSUME web'[w].snap[k] # None, NEW i \in Stages, web'[w].snap[i] = None,
               stage'[to][i].id = web'[w].snap[k]
        PROVE  ~Open(to, i)
    <3>1. n = 3
      BY <1>5, <2>1, <2>2, <2>4
    <3>2. ~Unfinished(to, i)
      BY <1>5, <2>1, <2>2, <2>4, <3>1
    <3> QED BY <1>5, <3>2 DEF Unfinished
  <2> QED BY <2>3, <2>4
<1>6. WebStep(w)
  BY <1>0, WebSteps
<1> HIDE DEF Down, Left
<1> QED BY <1>2, <1>3, <1>4, <1>5, <1>6, Zenon DEF WebStep

\* The chain is as it was.
Same(c) == job'[c].at = job[c].at /\ job'[c].st = job[c].st /\ job'[c].rest = job[c].rest

\* Who can change a chain that has come to a stage.
LEMMA WhoMoves ==
    ASSUME TypeOK, [Next]_vars, NEW c \in Chains, job[c].at \in Stages, job[c].st # "new"
    PROVE  \/ Same(c)
           \/ StageStart(c) \/ StageOk(c) \/ StageFail(c)
           \/ c \in crashed'
           \/ \E e \in Chains : ExceptionHandler(e)
           \/ \E w \in Web, i \in Stages :
                 CancelStage(w) /\ web[w].todo = i /\ web[w].snap[i] = c /\ CanSave(c, i)
<1>0. job \in [Chains -> Job] /\ First \in Chains /\ job[c].at \notin {Create, Final}
  BY LifecycleAssumption DEF TypeOK, Chains, Stages, Create, Final
<1>1. CASE \/ RequestRestart \/ DeleteCleanup \/ LockSandbox \/ UnlockSandbox \/ PatchUnit
           \/ UNCHANGED vars
  <2>1. job'[c] = job[c]
    BY <1>0, <1>1 DEF RequestRestart, DeleteCleanup, LockSandbox, UnlockSandbox, PatchUnit, vars, Set
  <2> QED BY <2>1 DEF Same
<1>2. CASE CreateAllocation
  BY <1>0, <1>2 DEF CreateAllocation, Same
<1>3. ASSUME NEW d \in Chains, Worker(d), d # c, ~ExceptionHandler(d) PROVE Same(c)
  <2>1. job'[c] = job[c]
    BY <1>0, <1>3, Zenon DEF Worker, StageStart, StageOk, StageFail, RestartBegin, RestartApply,
         MarkReady, CreateCleanup, DebitPool, DeleteUnit, Kill, Set, Release
  <2> QED BY <2>1 DEF Same
<1>4. CASE Worker(c)
  BY <1>0, <1>4, Zenon DEF Worker, RestartBegin, RestartApply, MarkReady, CreateCleanup,
       DebitPool, DeleteUnit
<1>5. ASSUME NEW d \in Chains, WorkerCrash(d) PROVE Same(c) \/ c \in crashed'
  BY <1>0, <1>5 DEF WorkerCrash, Kill, Same
<1>6. ASSUME NEW w \in Web, Request(w) PROVE Same(c)
  BY <1>6 DEF Request, CancelAllocation, CancelCleanup, CleanupCheck, ForceCheck, Same
<1>7. ASSUME NEW w \in Web, CancelStage(w),
             ~\E i \in Stages : web[w].todo = i /\ web[w].snap[i] = c /\ CanSave(c, i)
      PROVE  Same(c)
  <2> DEFINE k == web[w].todo
             s == web[w].snap[k]
  <2>1. k \in Stages
    BY <1>7 DEF CancelStage, TypeOK, Thread, Stages
  <2>2. \/ job' = job
        \/ CanSave(s, k) /\ (job' = [job EXCEPT ![s] = Cut(@, {k})] \/ job' = [job EXCEPT ![s] = @])
    BY <1>7 DEF CancelStage
  <2>3. s = c => ~CanSave(s, k)
    BY <1>7, <2>1
  <2>4. job'[c] = job[c]
    BY <1>0, <2>2, <2>3
  <2> QED BY <2>4 DEF Same
<1>8. ASSUME NEW w \in Web, CleanupDelete(w) PROVE Same(c)
  <2>1. job' = job \/ \E d \in Clean : /\ job[d].st = "new"
            /\ job' = [job EXCEPT ![d].st = "queued", ![d].ref = web[w].req]
    BY <1>8 DEF CleanupDelete
  <2>2. job'[c] = job[c]
    BY <1>0, <2>1
  <2> QED BY <2>2 DEF Same
<1> QED BY <1>1, <1>2, <1>3, <1>4, <1>5, <1>6, <1>7, <1>8, Zenon DEF Next, Continue

\* Whoever died stays dead.
LEMMA CrashedStay == [Next]_vars => crashed \subseteq crashed'
<1> SUFFICES ASSUME [Next]_vars PROVE crashed \subseteq crashed'
  OBVIOUS
<1>1. CASE \/ CreateAllocation \/ RequestRestart \/ DeleteCleanup \/ LockSandbox
           \/ UnlockSandbox \/ PatchUnit \/ UNCHANGED vars
  BY <1>1 DEF CreateAllocation, RequestRestart, DeleteCleanup, LockSandbox, UnlockSandbox,
       PatchUnit, vars
<1>2. ASSUME NEW d \in Chains, Worker(d) PROVE crashed' = crashed
  BY <1>2, Zenon DEF Worker, StageStart, StageOk, StageFail, ExceptionHandler, RestartBegin,
       RestartApply, MarkReady, CreateCleanup, DebitPool, DeleteUnit
<1>3. ASSUME NEW d \in Chains, WorkerCrash(d) PROVE crashed \subseteq crashed'
  BY <1>3 DEF WorkerCrash
<1>4. ASSUME NEW w \in Web, Request(w) \/ Continue(w) PROVE crashed' = crashed
  BY <1>4, Zenon DEF Request, CancelAllocation, CancelCleanup, CleanupCheck, ForceCheck, Continue,
       CancelStage, CleanupDelete
<1> QED BY <1>1, <1>2, <1>3, <1>4 DEF Next

\* The rows of a request with an unfinished stage keep their owner, or all go.
LEMMA OwnersKept ==
    ASSUME Before, RowsWhole', GoneIsGone', [Next]_vars, NEW kd \in Kinds, NEW k \in Stages,
           NEW c \in Chains, job[c].at # Create, Unfinished(kd, k), stage'[kd][k].id = c,
           NEW p \in Stages, stage[kd][p].id = c
    PROVE  stage'[kd][p].id = c
<1>0. c # None /\ \A d \in Chains : Fresh(d).id = d
  BY LifecycleAssumption DEF Fresh, Chains
<1>1. ~(kd = "alloc" /\ ~unit')
  <2>1. ASSUME kd = "alloc", ~unit' PROVE stage'["alloc"] = NoRows
    BY <2>1 DEF GoneIsGone
  <2> QED BY <1>0, <2>1 DEF NoRows, NoRow
<1>2. ~(kd = "clean" /\ creq' = None)
  <2>1. ASSUME kd = "clean", creq' = None PROVE stage'["clean"] = NoRows
    BY <2>1 DEF RowsWhole
  <2> QED BY <1>0, <2>1 DEF NoRows, NoRow
<1>3. ASSUME NEW d \in Chains, Kind(d) = kd, Begins(d) PROVE stage'[kd][p].id = c
  <2>1. stage'[kd][k] = Fresh(d) /\ stage'[kd][p] = Fresh(d)
    BY <1>3, BeginsWhole DEF Before
  <2> QED BY <1>0, <2>1
<1>4. ASSUME NEW d \in Chains, Kind(d) = kd, Restarts(d) PROVE FALSE
  BY <1>4, RestartsWhole DEF Restarts, Restartable, AllFinished, Before
<1> QED BY <1>1, <1>2, <1>3, <1>4, OwnerSteps DEF Kinds

\* The owner of an unfinished row can save what its job has reached.
LEMMA HolderSaves ==
    ASSUME Before, NEW kd \in Kinds, NEW k \in Stages, NEW c \in Chains,
           stage[kd][k].id = c, job[c].st # "dead", job[c].at \in Stages,
           stage[kd][job[c].at].id = c
    PROVE  CanSave(c, job[c].at) /\ Kind(c) = kd
<1>1. c # None /\ Kind(c) = kd
  BY LifecycleAssumption DEF Before, OwnersBegun, Begun, Chains
<1>2. stage[kd] # NoRows
  BY <1>1 DEF NoRows, NoRow
<1>3. CASE kd = "alloc"
  <2>1. c \in Alloc /\ c \notin Clean /\ unit
    BY <1>1, <1>2, <1>3, LifecycleAssumption DEF Kind, Before, GoneIsGone
  <2> QED BY <1>1, <2>1 DEF CanSave
<1>4. CASE kd = "clean"
  <2>1. c \notin Alloc /\ creq # None /\ creq = job[c].ref
    BY <1>1, <1>2, <1>4 DEF Kind, Before, RowsWhole, RequestHeld
  <2> QED BY <1>1, <2>1 DEF CanSave
<1> QED BY <1>1, <1>3, <1>4 DEF Kinds

\* A chain that begins, or begins again, holds all it has to do.
LEMMA FreshHolds ==
    ASSUME TypeOK, NEW c \in Chains, NEW k \in Stages,
           Begins(c) \/ (Restarts(c) /\ k \in ToRestart)
    PROVE  /\ job'[c].at \in Stages /\ job'[c].st = "queued"
           /\ k = job'[c].at \/ k \in job'[c].rest
           /\ \A p \in Stages : p = job'[c].at \/ p \in job'[c].rest => stage'[Kind(c)][p].id = c
<1>0. Fresh(c).id = c
  BY DEF Fresh
<1>1. CASE Begins(c)
  <2>1. \A p \in Stages : stage'[Kind(c)][p].id = c
    BY <1>0, <1>1, BeginsWhole
  <2> QED BY <1>1, <2>1 DEF Begins, Queues, Stages
<1>2. CASE Restarts(c) /\ k \in ToRestart
  <2>1. PICK q \in ToRestart : Queues(c, q, (ToRestart \cup {4}) \ {q})
    BY <1>2 DEF Restarts
  <2>2. \A p \in Stages : p \in ToRestart => stage'[Kind(c)][p].id = c
    <3> SUFFICES ASSUME NEW p \in Stages, p \in ToRestart PROVE stage'[Kind(c)][p].id = c
      OBVIOUS
    <3>1. Kind(c) = "alloc" /\ stage'["alloc"][p] = Fresh(c)
      BY <1>2, RestartsWhole
    <3> QED BY <1>0, <3>1
  <2>3. \A p \in Stages : p # 4
    BY DEF Stages
  <2>4. ToRestart \subseteq Stages
    BY DEF ToRestart, Stages
  <2> QED BY <1>2, <2>1, <2>2, <2>3, <2>4 DEF Queues
<1> QED BY <1>1, <1>2

\* What holding says of the state after the step.
Keeps(c, kd, k) ==
    /\ job'[c].at \in Stages
    /\ \A p \in Stages : p = job'[c].at \/ p \in job'[c].rest => stage'[kd][p].id = c
    /\ \/ job'[c].st \in {"queued", "running"} /\ (k = job'[c].at \/ k \in job'[c].rest)
       \/ job'[c].st = "failed" /\ job'[c].at < k

\* A stage job that runs on, returns or fails leaves the rest of its chain.
LEMMA StageKeeps ==
    ASSUME Before, [Next]_vars, NEW kd \in Kinds, NEW k \in Stages, NEW c \in Chains,
           Holds(c, kd, k), stage[kd][k].id = c, Unfinished(kd, k)',
           \A p \in Stages : stage[kd][p].id = c => stage'[kd][p].id = c,
           StageStart(c) \/ StageOk(c) \/ StageFail(c)
    PROVE  Keeps(c, kd, k)
<1> DEFINE at == job[c].at
<1>0. /\ TypeOK /\ job \in [Chains -> Job] /\ job[c] \in Job /\ at \in Stages
      /\ job[c].st \in {"queued", "running"} /\ (k = at \/ k \in job[c].rest)
      /\ \A p \in Stages : p = at \/ p \in job[c].rest => stage[kd][p].id = c
      /\ \A p \in job[c].rest : at < p
  <2>1. job[c].st \in {"queued", "running"}
    BY Zenon DEF StageStart, StageOk, StageFail
  <2> QED BY <2>1 DEF Before, TypeOK, RestAfter, Holds, Ahead
<1>1. CanSave(c, at) /\ Kind(c) = kd
  BY <1>0, HolderSaves
<1>2. ASSUME NEW st \in {"FINISHED", "FAILED"}, Save(c, at, st) PROVE k # at
  <2>1. stage'[kd][at].state = st
    BY <1>0, <1>1, <1>2 DEF Save, TypeOK
  <2> QED BY <2>1 DEF Unfinished
<1>3. CASE StageStart(c)
  <2>1. job'[c].at = at /\ job'[c].rest = job[c].rest /\ job'[c].st = "running"
    BY <1>0, <1>1, <1>3 DEF StageStart, Set, Job
  <2> QED BY <1>0, <2>1 DEF Keeps
<1>4. CASE StageOk(c)
  <2>1. Save(c, at, "FINISHED") /\ Release(c)
    BY <1>1, <1>4 DEF StageOk
  <2>2. k # at /\ k \in job[c].rest
    BY <1>0, <1>2, <2>1
  <2>3. PICK p \in job[c].rest :
          /\ \A q \in job[c].rest : p <= q
          /\ job' = [job EXCEPT ![c].at = p, ![c].st = "queued", ![c].rest = @ \ {p}]
    BY <2>1, <2>2, Zenon DEF Release
  <2>4. job'[c].at = p /\ job'[c].rest = job[c].rest \ {p} /\ job'[c].st = "queued"
    BY <1>0, <2>3 DEF Job
  <2>5. p \in Stages
    <3>1. p \in 1..4 /\ p <= k /\ k \in 1..3
      BY <1>0, <2>2, <2>3 DEF Job, Stages
    <3> QED BY <3>1 DEF Stages
  <2> QED BY <1>0, <2>2, <2>4, <2>5 DEF Keeps
<1>5. CASE StageFail(c)
  <2>1. Save(c, at, "FAILED") /\ Set(c, "failed")
    BY <1>1, <1>5 DEF StageFail
  <2>2. k # at /\ k \in job[c].rest
    BY <1>0, <1>2, <2>1
  <2>3. job'[c].at = at /\ job'[c].rest = job[c].rest /\ job'[c].st = "failed"
    BY <1>0, <2>1 DEF Set, Job
  <2> QED BY <1>0, <2>2, <2>3 DEF Keeps
<1> QED BY <1>3, <1>4, <1>5

\* A handler that leaves a row unfinished leaves its chain alone.
LEMMA HandlerKeeps ==
    ASSUME Before, [Next]_vars, NEW kd \in Kinds, NEW k \in Stages, NEW c \in Chains,
           Holds(c, kd, k), stage[kd][k].id = c, Unfinished(kd, k), Unfinished(kd, k)',
           \A p \in Stages : stage[kd][p].id = c => stage'[kd][p].id = c,
           NEW e \in Chains, ExceptionHandler(e)
    PROVE  Keeps(c, kd, k)
<1>0. /\ TypeOK /\ job[c] \in Job /\ job[c].at \in Stages /\ stage[kd][k] \in Row /\ c # None
      /\ \A p \in Stages : p = job[c].at \/ p \in job[c].rest => stage[kd][p].id = c
      /\ \/ job[c].st \in {"queued", "running"} /\ (k = job[c].at \/ k \in job[c].rest)
         \/ job[c].st = "failed" /\ job[c].at < k
  BY LifecycleAssumption DEF Before, TypeOK, Holds, Ahead, Chains
<1>1. Kind(c) = kd
  BY <1>0 DEF Before, OwnersBegun, Begun
<1>2. ~(Kind(e) = kd /\ Known(e))
  <2>1. ASSUME Kind(e) = kd, Known(e) PROVE stage'[kd][k].state = "FAILED"
    <3>1. stage'[kd][k] = [stage[kd][k] EXCEPT !.state = "FAILED"]
      BY <1>0, <2>1, HandlerFails
    <3> QED BY <1>0, <3>1 DEF Row
  <2> QED BY <2>1 DEF Unfinished
<1>3. c # e
  <2>1. stage[kd][job[c].at].id = c
    BY <1>0
  <2>2. stage[kd][job[c].at].rq
    BY <1>0, <2>1 DEF Before, RowsWhole
  <2> QED BY <1>1, <1>2, <2>1, <2>2 DEF Known
<1>4. Hits(e, c) = {}
  <2> SUFFICES ASSUME NEW p \in Hits(e, c) PROVE FALSE
    OBVIOUS
  <2>1. Known(e) /\ p \in Stages /\ stage[Kind(e)][p].id = c
    BY DEF Hits
  <2>2. Kind(e) \in Kinds
    BY DEF Kind, Kinds
  <2>3. Kind(c) = Kind(e)
    BY <1>0, <2>1, <2>2 DEF Before, OwnersBegun, Begun
  <2> QED BY <1>1, <1>2, <2>1, <2>3
<1>5. /\ Cut(job[c], {}).at = job[c].at /\ Cut(job[c], {}).st = job[c].st
      /\ Cut(job[c], {}).rest = job[c].rest
  BY <1>0 DEF Cut, Job
<1>6. job'[c].at = job[c].at /\ job'[c].st = job[c].st /\ job'[c].rest = job[c].rest
  <2>1. /\ job'[c].at = Cut(job[c], Hits(e, c)).at
        /\ job'[c].rest = Cut(job[c], Hits(e, c)).rest
        /\ job'[c].st = IF c = e THEN "dead" ELSE Cut(job[c], Hits(e, c)).st
    BY <1>0, HandlerCuts
  <2> QED BY <1>3, <1>4, <1>5, <2>1, Zenon
<1> QED BY <1>0, <1>6 DEF Keeps

\* A cancellation that leaves a row unfinished leaves the chain up to its job.
LEMMA CancelKeeps ==
    ASSUME Before, [Next]_vars, NEW kd \in Kinds, NEW k \in Stages, NEW c \in Chains,
           Holds(c, kd, k), stage[kd][k].id = c, Unfinished(kd, k), Unfinished(kd, k)',
           \A p \in Stages : stage[kd][p].id = c => stage'[kd][p].id = c,
           NEW w \in Web, NEW i \in Stages,
           CancelStage(w), web[w].todo = i, web[w].snap[i] = c, CanSave(c, i)
    PROVE  Keeps(c, kd, k)
<1>0. /\ TypeOK /\ job \in [Chains -> Job] /\ job[c] \in Job /\ job[c].at \in Stages /\ c # None
      /\ \A p \in Stages : p = job[c].at \/ p \in job[c].rest => stage[kd][p].id = c
      /\ \/ job[c].st \in {"queued", "running"} /\ (k = job[c].at \/ k \in job[c].rest)
         \/ job[c].st = "failed" /\ job[c].at < k
      /\ \A p \in job[c].rest : job[c].at < p
  BY LifecycleAssumption DEF Before, TypeOK, RestAfter, Holds, Ahead, Chains
<1>1. Kind(c) = kd /\ Target(web[w].op) = kd
  BY <1>0 DEF Before, OwnersBegun, Begun
<1>2. stage[Kind(c)][i].id = c
  <2>1. Saves(c, i, "FAILED")
    BY DEF Saves
  <2> QED BY <2>1, OwnSlot DEF Before
<1>3. job' = [job EXCEPT ![c] = Cut(job[c], {i})]
  BY <1>2, CancelCuts, SMTT(20)
<1>4. job'[c] = Cut(job[c], {i})
  BY <1>0, <1>3
<1>5. k # i
  <2>1. Save(c, i, "FAILED")
    BY <1>0 DEF CancelStage
  <2>2. stage'[kd][i].state = "FAILED"
    BY <1>0, <1>1, <2>1 DEF Save, TypeOK
  <2> QED BY <2>2 DEF Unfinished
<1>6. ~(k > i)
  <2>1. web[w].snap[k] # None
    BY <1>0, <1>1 DEF Before, CancelsDown
  <2> QED BY <2>1 DEF Before, CancelsDown
<1>7. i \in 1..3 /\ k \in 1..3 /\ job[c].at \in 1..3
  BY <1>0 DEF Stages
<1>8. k < i /\ job[c].at < i
  BY <1>0, <1>5, <1>6, <1>7
<1>9. /\ job'[c].at = job[c].at /\ job'[c].st = job[c].st
      /\ job'[c].rest = {p \in job[c].rest : p < i}
  BY <1>0, <1>4, <1>7, <1>8 DEF Cut, Job
<1> QED BY <1>0, <1>8, <1>9 DEF Keeps

\* Every chain keeps holding what it has to do.
LEMMA HeldStays ==
    ASSUME Before, RowsWhole', GoneIsGone', Held, [Next]_vars
    PROVE  Held'
<1> SUFFICES ASSUME NEW kd \in Kinds, NEW k \in Stages, NEW c \in Chains, stage'[kd][k].id = c,
                    Unfinished(kd, k)', c \notin crashed'
             PROVE  Keeps(c, kd, k)
  <2>1. \A kd \in Kinds, k \in Stages : stage'[kd][k].id \in Chains \cup {None}
    BY DEF Before, TypeOK, Row
  <2>2. \A kd \in Kinds, k \in Stages, c \in Chains : Keeps(c, kd, k) => Holds(c, kd, k)'
    BY DEF Keeps, Holds, Ahead
  <2> QED BY <2>1, <2>2 DEF Held, Unfinished
<1>0. TypeOK /\ c # None
  BY LifecycleAssumption DEF Before, Chains
<1>1. CASE job[c].at = Create
  <2>1. stage[kd][k].id # c
    BY <1>0, <1>1 DEF Before, OwnersBegun, Begun
  <2>2. PICK d \in Chains : /\ Kind(d) = kd /\ stage'[kd][k] = Fresh(d)
                            /\ Begins(d) \/ (Restarts(d) /\ k \in ToRestart)
    BY <1>0, <2>1, OwnerSteps
  <2>3. d = c
    BY <2>2 DEF Fresh
  <2> QED BY <1>0, <2>2, <2>3, FreshHolds DEF Keeps
<1>2. CASE job[c].at # Create
  <2>1. stage[kd][k].id = c /\ Unfinished(kd, k)
    BY <1>2, NoNewWork
  <2>2. Holds(c, kd, k)
    BY <2>1, CrashedStay DEF Held
  <2>3. \A p \in Stages : stage[kd][p].id = c => stage'[kd][p].id = c
    BY <1>2, <2>1, OwnersKept
  <2>4. CASE Same(c)
    BY <2>2, <2>3, <2>4 DEF Same, Holds, Ahead, Keeps
  <2>5. CASE StageStart(c) \/ StageOk(c) \/ StageFail(c)
    BY <2>1, <2>2, <2>3, <2>5, StageKeeps
  <2>6. ASSUME NEW e \in Chains, ExceptionHandler(e) PROVE Keeps(c, kd, k)
    BY <2>1, <2>2, <2>3, <2>6, HandlerKeeps
  <2>7. ASSUME NEW w \in Web, NEW i \in Stages, CancelStage(w), web[w].todo = i,
               web[w].snap[i] = c, CanSave(c, i)
        PROVE  Keeps(c, kd, k)
    BY <2>1, <2>2, <2>3, <2>7, CancelKeeps
  <2>8. job[c].at \in Stages /\ job[c].st # "new"
    BY <2>2 DEF Holds
  <2> QED BY <1>0, <2>4, <2>5, <2>6, <2>7, <2>8, WhoMoves
<1> QED BY <1>1, <1>2

\* Every step keeps the account of who has to finish what.
LEMMA SettleInductive == SettleInv /\ [Next]_vars => SettleInv'
<1> SUFFICES ASSUME SettleInv, [Next]_vars PROVE SettleInv'
  OBVIOUS
<1>1. GoneInv' /\ TypeOK'
  BY GoneInductive, TypeInductive DEF SettleInv, GoneInv, LockInv
<1>2. Before
  BY <1>1 DEF SettleInv, GoneInv, LockInv, Before
<1>3. RestAfter'
  BY <1>2, RestStaysAfter DEF Before
<1>4. NewWaits'
  <2> SUFFICES ASSUME NEW c \in Chains, job'[c].st = "new" PROVE job'[c].at = Create
    BY DEF NewWaits
  <2>1. job[c].st = "new" /\ job'[c].at = job[c].at
    BY <1>2, ChainsGoOn DEF Before
  <2> QED BY <1>2, <2>1 DEF Before, NewWaits
<1>5. RowsWhole' /\ OwnersBegun' /\ SettledNotQueued' /\ RequestHeld' /\ CancelsDown'
  BY <1>2, RowsStayWhole, OwnersStayBegun, SettledStays, RequestStaysHeld, CancelsGoDown
<1>6. GoneIsGone'
  BY <1>1 DEF GoneInv
<1>7. Held'
  BY <1>2, <1>5, <1>6, HeldStays DEF SettleInv
<1> QED BY <1>1, <1>3, <1>4, <1>5, <1>7 DEF SettleInv

\* At the beginning there is no row to finish.
LEMMA SettleInitially == Init => SettleInv
<1> SUFFICES ASSUME Init PROVE SettleInv
  OBVIOUS
<1>1. GoneInv
  BY GoneInitially
<1>2. /\ \A kd \in Kinds : stage[kd] = NoRows
      /\ \A kd \in Kinds, k \in Stages : stage[kd][k].id = None /\ ~Unfinished(kd, k)
  BY DEF Init, NoRows, NoRow, Unfinished
<1>3. \A w \in Web : /\ web[w].todo = 0 /\ \A k \in Stages : web[w].snap[k] = None
  BY DEF Init, Idle, NoSnap
<1>4. \A c \in Chains : job[c].at = Create /\ job[c].rest = {}
  BY DEF Init, NewJob
<1>5. First \in Chains /\ "clean" \in Kinds /\ creq = None
  BY LifecycleAssumption DEF Chains, Kinds, Init
<1>6. RestAfter /\ NewWaits /\ RowsWhole
  BY <1>2, <1>4, <1>5 DEF RestAfter, NewWaits, RowsWhole
<1>7. OwnersBegun /\ SettledNotQueued /\ RequestHeld /\ CancelsDown /\ Held
  BY <1>2, <1>3, <1>5 DEF OwnersBegun, Begun, SettledNotQueued, RequestHeld, CancelsDown, Held
<1> QED BY <1>1, <1>6, <1>7 DEF SettleInv

(* No stage is ever left unfinished with nobody to finish or cancel it,    *)
(* however a failing job, its exception handler and the web threads that   *)
(* cancel the same request interleave: only a dead worker forgets one.     *)
THEOREM SettleTheorem == Spec => []NoStageForgotten
<1>1. Spec => []SettleInv
  BY SettleInitially, SettleInductive, PTL DEF Spec
<1>2. SettleInv => NoStageForgotten
  <2> SUFFICES ASSUME SettleInv, NEW kd \in Kinds, NEW k \in Stages, Unfinished(kd, k),
                      stage[kd][k].id \notin crashed
               PROVE  Attended(kd, k)
    BY DEF NoStageForgotten
  <2> DEFINE c == stage[kd][k].id
  <2>1. c \in Chains /\ Holds(c, kd, k)
    <3>1. stage[kd][k] \in Row
      BY DEF SettleInv, GoneInv, LockInv, TypeOK
    <3> QED BY <3>1 DEF SettleInv, Held, Unfinished, Row
  <2>2. \A p \in job[c].rest : job[c].at < p
    BY <2>1 DEF SettleInv, RestAfter
  <2> QED BY <2>1, <2>2 DEF Holds, Ahead, Attended
<1> QED BY <1>1, <1>2, PTL

=============================================================================

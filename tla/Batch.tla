------------------------------- MODULE Batch -------------------------------
(***************************************************************************)
(* One batch of allocation units, from the job that creates their chains   *)
(* to the summary mail.  The create job enqueues the chain of one unit     *)
(* after the other while workers already run the first jobs; a stage       *)
(* spawns a terraform process or an Ansible container, records it, waits   *)
(* for it and releases it; a request can be cancelled at any time.         *)
(***************************************************************************)
EXTENDS RequestGroup, FiniteSets, Sequences

CONSTANTS
    MaxFaults,   \* bound: failures of the database, the queue, a container or a mail,
                 \* crashes and cancel requests, together
    EarlyUnits   \* bound: units that may be cancelled before their chain is enqueued

ASSUME BatchAssumption ==
    /\ Stage = {"stack", "net", "user"}
    /\ MaxFaults \in Nat /\ EarlyUnits \subseteq Unit

(* What the create job does for each unit: the sandbox and its stage rows,  *)
(* then each job and, in a separate step, the row that records its id.      *)
Loop == << <<"create", "stack">>, <<"enqueue", "stack">>, <<"record", "stack">>,
           <<"enqueue", "net">>, <<"record", "net">>,
           <<"enqueue", "user">>, <<"record", "user">> >>

VARIABLES
    pos,       \* steps of the create job done so far
    broken,    \* the create job failed
    stage,     \* the stage rows
    job,       \* the jobs
    w,         \* what the worker of a stage is doing
    live,      \* processes and containers that exist
    noted,     \* those whose id is recorded in the database
    faults,
    crashed,   \* units whose worker died
    dropped,   \* units with a job that failed before its id was recorded, or a
               \* cancellation that stopped half way
    early,     \* units cancelled or failed before their chain was enqueued
    excused    \* processes and containers left behind for a named cause

chainVars == <<pos, broken, stage, job, w, live, noted, faults, crashed,
               dropped, early, excused>>
vars == <<groupVars, chainVars>>

Done(u, what) ==
    \E n \in 1..Len(Loop) : Loop[n] = what /\ pos >= Len(Loop) * (u - 1) + n
Enqueued(u, j) == Done(u, <<"enqueue", j>>)
Recorded(u, s) == Done(u, <<"record", s>>)
Created(u) == Done(u, <<"create", "stack">>)
Complete(u) == Recorded(u, "user")

\* Where a worker is, whether all went well so far, whether a cancellation has
\* stopped its process or container, and the mails that are due.
State == [at : {"idle", "spawned", "recorded", "commit", "mail", "release", "failing",
                "failmail", "handler"},
          fine : BOOLEAN, hit : BOOLEAN, due : SUBSET {"failure", "summary"}]
Idle == [at |-> "idle", fine |-> TRUE, hit |-> FALSE, due |-> {}]

TypeOK ==
    /\ GroupTypeOK
    /\ pos \in 0 .. Len(Loop) * Count /\ broken \in BOOLEAN
    /\ stage \in [Unit -> [Stage -> {"pending", "running", "ok", "failed"}]]
    /\ job \in [Unit -> [Stage -> {"waiting", "free", "running", "ok", "failed", "deleted"}]]
    /\ w \in [Worker -> State]
    /\ live \cup noted \cup excused \subseteq Worker
    /\ faults \in 0..MaxFaults
    /\ crashed \cup dropped \cup early \subseteq Unit

Init ==
    /\ GroupInit
    /\ pos = 0 /\ broken = FALSE
    /\ stage = [u \in Unit |-> [s \in Stage |-> "pending"]]
    /\ job = [u \in Unit |-> [s \in Stage |-> "waiting"]]
    /\ w = [x \in Worker |-> Idle]
    /\ live = {} /\ noted = {} /\ faults = 0
    /\ crashed = {} /\ dropped = {} /\ early = {} /\ excused = {}

Fault == faults < MaxFaults /\ faults' = faults + 1
Unfinished(u) == {s \in Stage : stage[u][s] \in {"pending", "running"}}

-----------------------------------------------------------------------------
(* The create job *)

Needs(j) == CASE j = "net" -> {"stack"} [] j = "user" -> {"net"} [] OTHER -> {}
\* A job and all that depend on it.
Behind(j) == CASE j = "stack" -> Stage [] j = "net" -> {"net", "user"} [] OTHER -> {"user"}

\* Mutant: one step too many.
LoopOpenPast == ~broken /\ pos <= Len(Loop) * Count

LoopOpen == ~broken /\ pos < Len(Loop) * Count

\* A job enqueued behind a deleted one may be released at once by RQ.
LoopStep ==
    /\ LoopOpen
    /\ LET u == (pos \div Len(Loop)) + 1
           what == Loop[(pos % Len(Loop)) + 1]
       IN  job' \in IF what[1] = "enqueue" /\ \E j \in Needs(what[2]) : job[u][j] = "deleted"
                    THEN {job, [job EXCEPT ![u][what[2]] = "free"]} ELSE {job}
    /\ pos' = pos + 1
    /\ UNCHANGED <<groupVars, broken, stage, w, live, noted, faults, crashed,
                   dropped, early, excused>>

\* The queue or the database fails: the units behind are never created.
LoopFails ==
    /\ LoopOpen /\ Fault
    /\ broken' = TRUE
    /\ UNCHANGED <<groupVars, pos, stage, job, w, live, noted, crashed, dropped,
                   early, excused>>

-----------------------------------------------------------------------------
(* A job starts when those it depends on ended well. *)

\* Mutant: RQ releases a job when the one before it has ended in any way.
StartableAfterAny(u, j) ==
    /\ Enqueued(u, j)
    /\ \/ job[u][j] = "free"
       \/ job[u][j] = "waiting" /\ \A d \in Needs(j) : job[u][d] \in {"ok", "failed"}

Startable(u, j) ==
    /\ Enqueued(u, j)
    /\ \/ job[u][j] = "free"
       \/ job[u][j] = "waiting" /\ \A d \in Needs(j) : job[u][d] = "ok"

-----------------------------------------------------------------------------
(* The end of a stage *)

At(x, at) == w[x].at = at
IsStack(x) == x[2] = "stack"
Go(x, at, fine) == w' = [w EXCEPT ![x].at = at, ![x].fine = fine] /\ UNCHANGED <<stage, job>>

\* The stage row is saved; after an error RQ calls the exception handler.
Close(x, fine) ==
    /\ LET to == IF fine THEN "ok" ELSE "failed" IN
       /\ stage' = [stage EXCEPT ![x[1]][x[2]] = to]
       /\ job' = [job EXCEPT ![x[1]][x[2]] = IF @ = "running" THEN to ELSE @]
    /\ w' = [w EXCEPT ![x] = IF fine THEN Idle ELSE [Idle EXCEPT !.at = "handler"]]

-----------------------------------------------------------------------------
(* What the worker does in a stage *)

rest == <<pos, broken, crashed, dropped, early>>

\* on_allocation_fail reads the row of the group; without it, that is an error too.
Fail(x) ==
    \/ Refresh(x) /\ Go(x, "failing", FALSE)
    \/ group = Gone /\ Close(x, FALSE) /\ UNCHANGED groupVars

\* The start is saved; then create_stack, or the container with the playbook.
Start(x) ==
    LET u == x[1]
        s == x[2] IN
    /\ Startable(u, s)
    /\ job' = [job EXCEPT ![u][s] = "running"]
    /\ stage' = [stage EXCEPT ![u][s] = "running"]
    /\ w' = [w EXCEPT ![x].at = "spawned"]
    /\ live' = live \cup {x}
    /\ UNCHANGED <<groupVars, rest, noted, faults, excused>>

\* An error that is no CrczpException leaves the terraform process alone.
Abandon(x) ==
    IF IsStack(x) THEN Fail(x) /\ excused' = excused \cup {x}
    ELSE Go(x, "release", FALSE) /\ UNCHANGED <<groupVars, excused>>

Record(x) ==
    /\ At(x, "spawned")
    /\ \/ /\ Go(x, "recorded", TRUE) /\ noted' = noted \cup {x}
          /\ UNCHANGED <<groupVars, faults, excused>>
       \/ Fault /\ Abandon(x) /\ UNCHANGED noted
    /\ UNCHANGED <<rest, live>>

\* The job's own time limit ends before the one of the wait.
Timeout(x) ==
    /\ At(x, "recorded") /\ Fault /\ Abandon(x)
    /\ UNCHANGED <<rest, live, noted>>

\* Mutant: the networking stage is counted as well.
FinishCountsAll(x) ==
    /\ At(x, "recorded")
    /\ \/ ~w[x].hit /\ IsStack(x) /\ Close(x, TRUE) /\ live' = live \ {x} /\ UNCHANGED groupVars
       \/ ~w[x].hit /\ ~IsStack(x) /\ Refresh(x) /\ Go(x, "commit", TRUE) /\ UNCHANGED live
       \/ Go(x, "release", FALSE) /\ UNCHANGED <<live, groupVars>>
    /\ UNCHANGED <<rest, noted, faults, excused>>

\* The process or the playbook ends, well or not; on_allocation_end reads the row.
Finish(x) ==
    /\ At(x, "recorded")
    /\ \/ ~w[x].hit /\ IsStack(x) /\ Close(x, TRUE) /\ live' = live \ {x} /\ UNCHANGED groupVars
       \/ ~w[x].hit /\ x[2] = "net" /\ Go(x, "release", TRUE) /\ UNCHANGED <<live, groupVars>>
       \/ ~w[x].hit /\ x[2] = "user" /\ Refresh(x) /\ Go(x, "commit", TRUE) /\ UNCHANGED live
       \/ Go(x, "release", FALSE) /\ UNCHANGED <<live, groupVars>>
    /\ UNCHANGED <<rest, noted, faults, excused>>

chain == <<pos, broken, live, noted, crashed, dropped, early, excused>>

CommitEnd(x) ==
    /\ At(x, "commit")
    /\ Commit(x, FALSE)
    /\ Go(x, IF Due(x, FALSE) = {} THEN "release" ELSE "mail", TRUE)
    /\ UNCHANGED <<chain, faults>>

\* The summary is sent from inside the stage: a mail that fails is an error of it.
MailEnd(x) ==
    /\ At(x, "mail")
    /\ Summary
    /\ \/ Go(x, "release", TRUE) /\ UNCHANGED faults
       \/ Fault /\ Go(x, "release", FALSE)
    /\ UNCHANGED chain

\* Mutant: a failed playbook leaves its container.
ReleaseIfFine(x) ==
    /\ At(x, "release")
    /\ live' = IF w[x].fine \/ IsStack(x) THEN live \ {x} ELSE live
    /\ IF w[x].fine THEN Close(x, TRUE) /\ UNCHANGED groupVars ELSE Fail(x)
    /\ UNCHANGED <<rest, noted, faults, excused>>

\* The stack is deleted, or the container removed.  Removing what a cancel has
\* removed already fails too.
Release(x) ==
    /\ At(x, "release")
    /\ \/ /\ IsStack(x) \/ x \in live
          /\ live' = live \ {x}
          /\ IF w[x].fine THEN Close(x, TRUE) /\ UNCHANGED groupVars ELSE Fail(x)
          /\ UNCHANGED <<faults, excused>>
       \/ ~IsStack(x) /\ x \notin live /\ Fail(x) /\ UNCHANGED <<live, faults, excused>>
       \/ Fault /\ Fail(x) /\ excused' = excused \cup {x} /\ UNCHANGED live
    /\ UNCHANGED <<rest, noted>>

CommitFailure(x) ==
    /\ At(x, "failing")
    /\ Commit(x, TRUE)
    /\ IF Due(x, TRUE) = {} THEN Close(x, FALSE)
       ELSE /\ w' = [w EXCEPT ![x].at = "failmail", ![x].due = Due(x, TRUE)]
            /\ UNCHANGED <<stage, job>>
    /\ UNCHANGED <<chain, faults>>

\* If the mail about the failure cannot be sent the summary is not tried.
MailFailure(x) ==
    /\ At(x, "failmail")
    /\ \/ IF "summary" \in w[x].due THEN Summary /\ UNCHANGED faults
          ELSE UNCHANGED <<groupVars, faults>>
       \/ Fault /\ "failure" \in w[x].due /\ UNCHANGED groupVars
    /\ Close(x, FALSE)
    /\ UNCHANGED chain

-----------------------------------------------------------------------------
(* Dying workers, and requests to cancel *)

Crash(x) ==
    /\ w[x] # Idle /\ Fault
    /\ w' = [w EXCEPT ![x] = Idle]
    /\ tx' = [tx EXCEPT ![x] = Gone]
    /\ job' = [job EXCEPT ![x[1]][x[2]] = IF @ = "running" THEN "failed" ELSE @]
    /\ crashed' = crashed \cup {x[1]}
    /\ excused' = excused \cup (live \cap {x})
    /\ UNCHANGED <<group, counted, raced, summaries, pos, broken, stage, live, noted,
                   dropped, early>>

(* A cancellation takes every unfinished stage in turn: its job is deleted   *)
(* if its id is recorded, with those that depend on it; its process or       *)
(* container is stopped if that is recorded; its row is saved as failed.     *)
Boxes(u) == {<<u, k>> : k \in Unfinished(u) \ {"stack"}} \cap noted

Reach(u, reached) ==
    LET cut == UNION {Behind(k) : k \in {y \in reached : Recorded(u, y)}} IN
    /\ stage' = [stage EXCEPT ![u] = [k \in Stage |-> IF k \in reached THEN "failed" ELSE @[k]]]
    /\ job' = [job EXCEPT ![u] =
          [k \in Stage |-> IF k \in cut /\ Enqueued(u, k) /\ @[k] \notin {"ok", "failed"}
                           THEN "deleted" ELSE @[k]]]
    /\ early' = IF Complete(u) THEN early ELSE early \cup {u}

\* A terraform process is signalled on the host of the request: perhaps in vain.
CancelAll(u, workers) ==
    /\ Reach(u, Unfinished(u))
    /\ live' = live \ Boxes(u)
    /\ \E reached \in SUBSET ({<<u, "stack">>} \cap noted) :
          w' = [x \in Worker |->
                  IF workers[x].at = "recorded" /\ x[2] \in Unfinished(u)
                     /\ x \in Boxes(u) \cup reached
                  THEN [workers[x] EXCEPT !.hit = TRUE] ELSE workers[x]]
    /\ UNCHANGED dropped

\* A container that cannot be removed, or is gone already: the stages behind it
\* are not reached.
CancelHalf(u, workers) ==
    /\ \E x \in Boxes(u) : Reach(u, Unfinished(u) \ (Behind(x[2]) \ {x[2]}))
    /\ w' = workers
    /\ dropped' = dropped \cup {u}
    /\ UNCHANGED live

Cancel(u) ==
    /\ Created(u) /\ Unfinished(u) # {} /\ Fault
    /\ Complete(u) \/ u \in EarlyUnits
    /\ CancelAll(u, w) \/ CancelHalf(u, w)
    /\ UNCHANGED <<groupVars, pos, broken, noted, crashed, excused>>

\* Mutant: the handler looks for nothing.
HandleNothing(x) ==
    /\ At(x, "handler")
    /\ w' = [w EXCEPT ![x] = Idle]
    /\ UNCHANGED <<groupVars, pos, broken, stage, job, live, noted, faults, crashed,
                   dropped, early, excused>>

\* The exception handler finds the request by the recorded job id.
Handle(x) ==
    /\ At(x, "handler")
    /\ LET u == x[1]
           others == [w EXCEPT ![x] = Idle] IN
       \/ /\ Recorded(u, x[2])
          /\ \/ CancelAll(u, others) /\ UNCHANGED faults
             \/ Fault /\ CancelHalf(u, others)
       \/ /\ ~Recorded(u, x[2])
          /\ w' = others /\ dropped' = dropped \cup {u}
          /\ UNCHANGED <<stage, job, live, early, faults>>
    /\ UNCHANGED <<groupVars, pos, broken, noted, crashed, excused>>

-----------------------------------------------------------------------------
Work(x) ==
    \/ Start(x) \/ Record(x) \/ Finish(x) \/ Release(x)
    \/ CommitEnd(x) \/ MailEnd(x)
    \/ CommitFailure(x) \/ MailFailure(x) \/ Handle(x)
Next ==
    \/ LoopStep \/ LoopFails
    \/ \E u \in Unit : Cancel(u)
    \/ \E x \in Worker : Work(x) \/ Timeout(x) \/ Crash(x)

(* Workers take the jobs, and a playbook, a mail or a call of the container *)
(* runtime ends within its time limit; nobody has to cancel, or to crash.   *)
Spec == Init /\ [][Next]_vars
FairSpec ==
    /\ Spec /\ WF_vars(LoopStep \/ \E x \in Worker : Work(x))

-----------------------------------------------------------------------------
Twice == \E u \in Unit : counted[u] > 1
\* The allocation of a unit has failed, or its user playbook has ended.
Over(u) ==
    \/ \E s \in Stage : stage[u][s] = "failed" \/ ~w[<<u, s>>].fine
    \/ stage[u]["user"] = "ok"
    \/ w[<<u, "user">>].at \in {"commit", "mail", "release"}
    \/ u \in crashed

(* The summary says that all allocations have finished; it is not sent while *)
(* one is still at work, unless another was counted twice (its end, and then *)
(* the failure to remove its container).                                     *)
SummaryNotEarly == summaries > 0 => Twice \/ \A u \in Unit : Over(u)

(* Without a fault every unit is counted once, though each of its stages may *)
(* count it, unless a stage ran behind a failed one whose request was        *)
(* cancelled before the chain was enqueued.  Then one summary at most is     *)
(* sent, although a transaction that read the row before its deletion        *)
(* inserts it again.                                                         *)
CountedOnce ==
    /\ \A u \in Unit : counted[u] <= 1 \/ u \in early \/ faults > 0
    /\ summaries <= 1 \/ Twice

(* A process or container exists only while its worker sees to it, unless    *)
(* its removal failed, its worker died, or an error other than a             *)
(* CrczpException ended the stack stage.                                     *)
NothingLeftRunning == 
    \A x \in live : x \in excused \/ w[x].at \notin {"idle", "failing", "failmail", "handler"}

(* No stage runs behind one that did not end well, unless the request was    *)
(* cancelled or failed before the create job had enqueued the whole chain.   *)
OrderKept ==
    \A u \in Unit : \A s \in Stage :
        w[<<u, s>>].at \in {"spawned", "recorded"} /\ u \notin early =>
            \A k \in Needs(s) : job[u][k] = "ok"

(* When every unit was counted once, no two workers were in the group's row  *)
(* at the same time and nothing else failed, the summary is sent.            *)
SummaryComes ==
    <>(summaries > 0 \/ raced \/ Twice \/ faults > 0)

(* Every stage ends: it finishes, fails or is cancelled by the exception     *)
(* handler.  Left are those behind a job that failed before its id was       *)
(* recorded or a container that could not be removed, those of a worker that *)
(* died, and those never enqueued.                                           *)
ChainSettles ==
    \A u \in Unit : <>(Unfinished(u) = {} \/ broken \/ u \in dropped \cup crashed \cup early)
=============================================================================

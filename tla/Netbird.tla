------------------------------ MODULE Netbird ------------------------------
(***************************************************************************)
(* The NetBird objects of one sandbox.  A provisioning job on the ansible  *)
(* queue makes them over HTTP and records their ids in rows that cascade   *)
(* with the sandbox; a restart or a cleanup tears the recorded ones down   *)
(* within a time budget and then deletes the sandbox, whether or not the   *)
(* job is still at work.  A job that finds the sandbox gone at its end     *)
(* tears down what it holds in memory.                                     *)
(***************************************************************************)
EXTENDS Naturals, FiniteSets, SequencesExt

CONSTANTS
    Entrypoints,  \* the hosts that are VPN entrypoints, in definition order
    RouteCount,   \* how many routes each of them has
    Dns,          \* the definition has a vpn.dns block
    MaxFaults,    \* bound: failed or overdue calls, skipped jobs and crashes
    NoRow         \* no such row, or no copy of one

Hosts == ToSet(Entrypoints)
Access == "access"

ASSUME NetbirdAssumption ==
    /\ Access \notin Hosts /\ "dns" \notin Hosts
    /\ Entrypoints \in Seq(Hosts)
    /\ \A i, j \in 1..Len(Entrypoints) : Entrypoints[i] = Entrypoints[j] => i = j
    /\ RouteCount \in [Hosts -> Nat]
    /\ Dns \in BOOLEAN /\ MaxFaults \in Nat

(* An owner is a row: the access row, or the row of one entrypoint.  An    *)
(* object is named by its kind, its owner and, for a route, its position.  *)
Owners == Hosts \cup {Access}
Group(o) == <<"group", o, 0>>
Key(o) == <<"key", o, 0>>
Peer(o) == <<"peer", o, 0>>
Route(h, i) == <<"route", h, i>>
Policy(h) == <<"policy", h, 0>>
Nameservers == <<"dns", Access, 0>>
Routes(h) == {Route(h, i) : i \in 1..RouteCount[h]}
Recordable(o) == {Group(o), Key(o)} \cup
    IF o = Access THEN {Nameservers} ELSE Routes(o) \cup {Policy(o)}
Object == UNION {Recordable(o) \cup {Peer(o)} : o \in Owners}
OwnerOf(x) == x[2]

ASSUME RowAssumption == \A ids \in SUBSET Object : ids # NoRow

\* The groups named in the payload that creates an object.
Refs(x) == CASE x[1] = "key" -> {Group(OwnerOf(x))}
             [] x[1] = "dns" -> {Group(Access)}
             [] x[1] \in {"route", "policy"} -> {Group(OwnerOf(x)), Group(Access)}
             [] OTHER -> {}

VARIABLES
    sandbox,   \* the Sandbox row exists
    rows,      \* SandboxNetbirdAccess and SandboxNetbirdResources
    cloud,     \* the objects the NetBird server has
    job,       \* the provisioning job
    at,        \* its place in Script
    held,      \* its copies of the rows
    made,      \* ids of the routes it made and has not put into the copy yet
    user,      \* the user-ansible stage, which depends on the job
    keys,      \* owners whose setup key is out: in the VPN view or an inventory
    sweeper,   \* who tears down: nobody, a request or the job's end guard
    work,      \* the steps the teardown has left
    known,     \* the objects its copies of the rows named
    expired,   \* the request's time budget is spent
    late,      \* calls it started after that
    overlap,   \* a teardown began while the job was queued or running
    faults, crashed,
    excused    \* objects whose loss has a named cause

vars == <<sandbox, rows, cloud, job, at, held, made, user, keys, sweeper, work,
          known, expired, late, overlap, faults, crashed, excused>>
provVars == <<job, at, held, made>>
sweepVars == <<sweeper, work, known, expired, late>>

\* The rows that exist among `copies`, and the objects they name.
Copied(copies) == {o \in Owners : copies[o] # NoRow}
Named(copies) == UNION {copies[o] : o \in Copied(copies)}

-----------------------------------------------------------------------------
(* What the job does, step by step *)

Step(part, op, x) == [part |-> part, op |-> op, obj |-> x]

\* Makes one object and saves its id.
MakeAndSave(part, x) == <<Step(part, "post", x), Step(part, "save", x)>>

ProvisionAccess ==
    <<Step(Access, "row", Group(Access))>>
    \o MakeAndSave(Access, Group(Access)) \o MakeAndSave(Access, Key(Access))

ProvisionDns == IF Dns THEN MakeAndSave("dns", Nameservers) ELSE <<>>

\* All routes are made before their ids are saved together.
ProvisionEntrypoint(h) ==
    <<Step(h, "row", Group(h))>>
    \o MakeAndSave(h, Group(h)) \o MakeAndSave(h, Key(h))
    \o [i \in 1..RouteCount[h] |-> Step(h, "post", Route(h, i))]
    \o <<Step(h, "save", Route(h, 1))>>
    \o MakeAndSave(h, Policy(h))

Script == ProvisionAccess \o ProvisionDns \o
    FlattenSeq([i \in 1..Len(Entrypoints) |-> ProvisionEntrypoint(Entrypoints[i])])

\* Mutant: one step past the end guard.
PastTheGuard ==
    IF held[Access] = NoRow \/ Group(Access) \notin Named(held) THEN Len(Script) + 2
    ELSE at + 1

\* Where the job goes on when a step raises: to the next part, or to the end
\* guard when there is no access group to build on.
AfterFailure ==
    IF held[Access] = NoRow \/ Group(Access) \notin Named(held)
    THEN Len(Script) + 1
    ELSE CHOOSE n \in at + 1 .. Len(Script) + 1 :
            /\ n <= Len(Script) => Script[n].part # Script[at].part
            /\ \A m \in at + 1 .. n - 1 : Script[m].part = Script[at].part

-----------------------------------------------------------------------------
(* What a teardown does, step by step *)

\* A step, and whether the time budget is looked at before it.
Do(op, x, checked) == <<[op |-> op, obj |-> x, checked |-> checked]>>
DeleteIf(ids, x) == IF x \in ids THEN Do("delete", x, TRUE) ELSE <<>>
Peers(ids, o) ==
    IF Group(o) \in ids THEN Do("peers", Peer(o), Key(o) \notin ids) ELSE <<>>
\* Mutant: nothing is checked between the peers and the group.
UncheckedGroup(ids, o) ==
    (IF Group(o) \in ids THEN Do("delete", Group(o), FALSE) ELSE <<>>)
    \o Do("row", Group(o), Group(o) \notin ids)

GroupAndRow(ids, o) ==
    DeleteIf(ids, Group(o)) \o Do("row", Group(o), Group(o) \notin ids)

\* Mutant: the peers are listed before the key that lets them in is deleted.
PeersBeforeKey(ids) ==
    DeleteIf(ids, Nameservers) \o Peers(ids, Access)
    \o DeleteIf(ids, Key(Access)) \o GroupAndRow(ids, Access)

DestroyAccess(ids) ==
    DeleteIf(ids, Nameservers) \o DeleteIf(ids, Key(Access))
    \o Peers(ids, Access) \o GroupAndRow(ids, Access)

DestroyEntrypoint(h, ids) ==
    DeleteIf(ids, Policy(h))
    \o FlattenSeq([i \in 1..RouteCount[h] |-> DeleteIf(ids, Route(h, i))])
    \o DeleteIf(ids, Key(h)) \o Peers(ids, h) \o GroupAndRow(ids, h)

Sweep(copies) ==
    FlattenSeq([i \in 1..Len(Entrypoints) |->
        IF Entrypoints[i] \in Copied(copies)
        THEN DestroyEntrypoint(Entrypoints[i], copies[Entrypoints[i]]) ELSE <<>>])
    \o IF Access \in Copied(copies) THEN DestroyAccess(copies[Access]) ELSE <<>>

-----------------------------------------------------------------------------
Init ==
    /\ sandbox = TRUE
    /\ rows = [o \in Owners |-> NoRow]
    /\ cloud = {}
    /\ job = "queued" /\ at = 1 /\ made = {}
    /\ held = [o \in Owners |-> NoRow]
    /\ user = "deferred" /\ keys = {}
    /\ sweeper = "none" /\ work = <<>> /\ known = {}
    /\ expired = FALSE /\ late = 0
    /\ overlap = FALSE /\ faults = 0 /\ crashed = FALSE
    /\ excused = {}

Fault == faults < MaxFaults /\ faults' = faults + 1
\* What a teardown that overlaps the job never saw.
Unseen(ids) == IF overlap THEN ids \ known ELSE {}
Ended == job \in {"finished", "failed"}
Now == Script[at]
Working == job = "running" /\ at <= Len(Script)

-----------------------------------------------------------------------------
(* The provisioning job *)

\* Mutant: a definition that cannot be fetched fails the job.
JobStartRaises ==
    /\ job = "queued"
    /\ \/ sandbox /\ job' = "running" /\ UNCHANGED faults
       \/ Fault /\ job' = "failed"
    /\ UNCHANGED <<sandbox, rows, cloud, at, held, made, user, keys, sweepVars,
                   overlap, crashed, excused>>

\* The client, the definition and the sandbox are looked up before any call.
JobStart ==
    /\ job = "queued"
    /\ \/ /\ sandbox /\ (Hosts # {} \/ Dns)
          /\ job' = "running" /\ UNCHANGED faults
       \/ /\ ~sandbox \/ (Hosts = {} /\ ~Dns)
          /\ job' = "finished" /\ UNCHANGED faults
       \/ Fault /\ job' = "finished"
    /\ UNCHANGED <<sandbox, rows, cloud, at, held, made, user, keys, sweepVars,
                   overlap, crashed, excused>>

\* A step raises: what the job had of an entrypoint is read again from its row.
Raise(lost) ==
    LET h == Now.part IN
    /\ at' = AfterFailure /\ made' = {}
    /\ IF h \in Hosts
       THEN /\ held' = [held EXCEPT ![h] = rows[h]]
            /\ excused' = excused \cup lost \cup made \cup
                  (IF held[h] = NoRow THEN {}
                   ELSE IF rows[h] = NoRow THEN held[h] ELSE held[h] \ rows[h])
       ELSE UNCHANGED held /\ excused' = excused \cup lost

GetOrCreateRow ==
    /\ Working /\ Now.op = "row"
    /\ LET o == OwnerOf(Now.obj) IN
       \/ /\ sandbox
          /\ rows' = [rows EXCEPT ![o] = IF @ = NoRow THEN {} ELSE @]
          /\ held' = [held EXCEPT ![o] = rows'[o]]
          /\ at' = at + 1 /\ UNCHANGED <<made, excused>>
       \/ ~sandbox /\ Raise({}) /\ UNCHANGED rows
    /\ UNCHANGED <<sandbox, cloud, job, user, keys, sweepVars, overlap, faults, crashed>>

\* The call answers, fails, or makes the object and its answer is lost; the
\* server refuses a payload that names a missing group.
Create ==
    /\ Working /\ Now.op = "post"
    /\ LET x == Now.obj IN
       \/ /\ Refs(x) \subseteq cloud
          /\ cloud' = cloud \cup {x}
          /\ IF x[1] = "route"
             THEN made' = made \cup {x} /\ UNCHANGED held
             ELSE held' = [held EXCEPT ![OwnerOf(x)] = @ \cup {x}] /\ UNCHANGED made
          /\ at' = at + 1 /\ UNCHANGED <<excused, faults>>
       \/ ~(Refs(x) \subseteq cloud) /\ Raise({}) /\ UNCHANGED <<cloud, faults>>
       \/ Fault /\ Raise({}) /\ UNCHANGED cloud
       \/ Fault /\ Refs(x) \subseteq cloud /\ cloud' = cloud \cup {x} /\ Raise({x})
    /\ UNCHANGED <<sandbox, rows, job, user, keys, sweepVars, overlap, crashed>>

\* The VPN view shows the access key as soon as it is saved.
Shown(ids) == IF Key(Access) \in ids THEN {Access} ELSE {}

\* Saving a deleted row inserts it again, unless the sandbox is gone too.
Save ==
    /\ Working /\ Now.op = "save"
    /\ LET o == OwnerOf(Now.obj)
           ids == held[o] \cup made IN
       \/ /\ sandbox
          /\ rows' = [rows EXCEPT ![o] = ids] /\ keys' = keys \cup Shown(ids)
          /\ held' = [held EXCEPT ![o] = ids]
          /\ at' = at + 1 /\ made' = {} /\ UNCHANGED excused
       \/ ~sandbox /\ Raise({}) /\ UNCHANGED <<rows, keys>>
    /\ UNCHANGED <<sandbox, cloud, job, user, sweepVars, overlap, faults, crashed>>

\* The worker's memory goes with the job.
Forget == held' = [o \in Owners |-> NoRow] /\ made' = {} /\ at' = 1

\* Mutant: the end guard trusts the start guard.
EndGuardSkipped ==
    /\ job = "running" /\ at > Len(Script)
    /\ job' = "finished" /\ Forget
    /\ excused' = excused \cup IF sandbox THEN Unseen(Named(held) \ Named(rows)) ELSE {}
    /\ UNCHANGED <<sandbox, rows, cloud, user, keys, sweepVars, overlap, faults, crashed>>

EndGuard ==
    /\ job = "running" /\ at > Len(Script)
    /\ \/ /\ sandbox /\ job' = "finished" /\ Forget
          /\ excused' = excused \cup Unseen(Named(held) \ Named(rows))
          /\ UNCHANGED <<sweepVars, faults>>
       \/ /\ ~sandbox
          /\ job' = "sweeping" /\ sweeper' = "guard"
          /\ work' = Sweep(held) /\ known' = Named(held)
          /\ expired' = FALSE /\ UNCHANGED <<late, at, held, made, faults, excused>>
       \/ /\ Fault /\ job' = "finished" /\ Forget  \* the lookup itself fails
          /\ excused' = excused \cup
                IF sandbox THEN Unseen(Named(held) \ Named(rows)) ELSE cloud
          /\ UNCHANGED sweepVars
    /\ UNCHANGED <<sandbox, rows, cloud, user, keys, overlap, crashed>>

JobCrash ==
    /\ job \in {"running", "sweeping"} /\ Fault
    /\ job' = "failed" /\ crashed' = TRUE /\ Forget
    /\ excused' = excused \cup ((cloud \cap (Named(held) \cup made)) \ Named(rows))
    /\ sweeper' = IF sweeper = "guard" THEN "none" ELSE sweeper
    /\ work' = IF sweeper = "guard" THEN <<>> ELSE work
    /\ UNCHANGED <<sandbox, rows, cloud, user, keys, known, expired, late, overlap>>

\* Mutant: the stage depends on the stage before it only.
UserStageEarly ==
    /\ user = "deferred"
    /\ user' = "ran"
    /\ keys' = keys \cup {h \in Hosts : rows[h] # NoRow /\ Key(h) \in Named(rows)}
    /\ UNCHANGED <<sandbox, rows, cloud, provVars, sweepVars, overlap, faults,
                   crashed, excused>>

\* The user stage puts the recorded keys into its inventory.
UserStage ==
    /\ user = "deferred" /\ job = "finished"
    /\ user' = "ran"
    /\ keys' = keys \cup {h \in Hosts : rows[h] # NoRow /\ Key(h) \in Named(rows)}
    /\ UNCHANGED <<sandbox, rows, cloud, provVars, sweepVars, overlap, faults,
                   crashed, excused>>

\* A client registers into the key's group: the agent of an entrypoint with the
\* key of its inventory, a trainee with the one the VPN view shows.
Register(o) ==
    /\ o \in keys /\ Key(o) \in cloud /\ Peer(o) \notin cloud
    /\ cloud' = cloud \cup {Peer(o)}
    /\ UNCHANGED <<sandbox, rows, provVars, user, keys, sweepVars, overlap, faults,
                   crashed, excused>>

-----------------------------------------------------------------------------
(* The teardown before a restart or a cleanup, and the one of the end guard *)

\* A request reads the rows; without a client it goes on to delete the sandbox.
TeardownStart ==
    /\ sandbox /\ sweeper = "none"
    /\ overlap' = (overlap \/ ~Ended)
    /\ user' = IF user = "deferred" THEN "cancelled" ELSE user
    /\ sweeper' = "teardown" /\ expired' = FALSE /\ late' = 0
    /\ \/ /\ work' = Sweep(rows) /\ known' = Named(rows)
          /\ UNCHANGED <<faults, excused>>
       \/ /\ Fault /\ work' = <<>> /\ known' = {}
          /\ excused' = excused \cup Named(rows)
    /\ UNCHANGED <<sandbox, rows, cloud, provVars, keys, crashed>>

Next1 == Head(work)
Due == work # <<>> /\ ~(Next1.checked /\ expired)
\* A call answers, perhaps after the deadline of a request, or it fails.
Answers == \/ UNCHANGED <<expired, faults>>
           \/ Fault /\ sweeper = "teardown" /\ expired' = TRUE
Fails == Fault /\ UNCHANGED expired
Counted == late' = IF expired THEN late + 1 ELSE late

\* The budget is spent: the objects of the rows not finished with stay behind.
GiveUp ==
    /\ work # <<>> /\ Next1.checked /\ expired
    /\ work' = <<>>
    /\ excused' = excused \cup
          {x \in cloud : \E i \in 1..Len(work) : OwnerOf(work[i].obj) = OwnerOf(x)}
    /\ UNCHANGED <<sandbox, rows, cloud, provVars, user, keys, sweeper, known,
                   expired, late, overlap, faults, crashed>>

Users(g) == {x \in cloud : x[1] \in {"route", "policy", "dns"} /\ g \in Refs(x)}

\* An object that is gone already counts as deleted; a group in use is refused.
\* Either way the teardown goes on.
Delete ==
    /\ Due /\ Next1.op = "delete" /\ Counted
    /\ LET x == Next1.obj IN
       \/ /\ Answers /\ Users(x) = {}
          /\ cloud' = cloud \ {x}
          /\ excused' = IF x = Group(OwnerOf(x)) /\ Key(OwnerOf(x)) \in Unseen(cloud)
                        THEN excused \cup {Peer(OwnerOf(x))} ELSE excused
       \/ /\ Answers /\ Users(x) # {}
          /\ excused' = excused \cup
                IF Users(x) \subseteq excused \cup Unseen(cloud) THEN {x} ELSE {}
          /\ UNCHANGED cloud
       \/ Fails /\ excused' = excused \cup {x} /\ UNCHANGED cloud
    /\ work' = Tail(work)
    /\ UNCHANGED <<sandbox, rows, provVars, user, keys, sweeper, known, overlap, crashed>>

\* Mutant: a group whose peers cannot be listed ends the request.
ListPeersRaises ==
    /\ Due /\ Next1.op = "peers" /\ Counted
    /\ LET p == Next1.obj IN
       \/ /\ Answers /\ work' = DeleteIf(cloud, p) \o Tail(work)
          /\ UNCHANGED <<excused, sweeper>>
       \/ Fails /\ work' = <<>> /\ sweeper' = "none" /\ excused' = excused \cup {p}
    /\ UNCHANGED <<sandbox, rows, cloud, provVars, user, keys, known, overlap, crashed>>

\* The peers the group has now are each deleted, budget permitting.
ListPeers ==
    /\ Due /\ Next1.op = "peers" /\ Counted
    /\ LET p == Next1.obj IN
       \/ Answers /\ work' = DeleteIf(cloud, p) \o Tail(work) /\ UNCHANGED excused
       \/ Fails /\ work' = Tail(work) /\ excused' = excused \cup {p}
    /\ UNCHANGED <<sandbox, rows, cloud, provVars, user, keys, sweeper, known,
                   overlap, crashed>>

DeleteRow ==
    /\ Due /\ Next1.op = "row"
    /\ LET o == OwnerOf(Next1.obj) IN
       /\ rows' = [rows EXCEPT ![o] = NoRow]
       /\ excused' = IF Ended /\ rows[o] # NoRow
                     THEN excused \cup Unseen(rows[o]) ELSE excused
    /\ work' = Tail(work)
    /\ UNCHANGED <<sandbox, cloud, provVars, user, keys, sweeper, known, expired,
                   late, overlap, faults, crashed>>

\* The sandbox goes, and its rows with it.
DeleteSandbox ==
    /\ sweeper = "teardown" /\ work = <<>>
    /\ sandbox' = FALSE /\ sweeper' = "none"
    /\ rows' = [o \in Owners |-> NoRow]
    /\ excused' = IF Ended THEN excused \cup Unseen(Named(rows)) ELSE excused
    /\ UNCHANGED <<cloud, provVars, user, keys, work, known, expired, late,
                   overlap, faults, crashed>>

GuardEnd ==
    /\ sweeper = "guard" /\ work = <<>>
    /\ sweeper' = "none" /\ job' = "finished" /\ Forget
    /\ UNCHANGED <<sandbox, rows, cloud, user, keys, work, known, expired, late,
                   overlap, faults, crashed, excused>>

\* The web thread or the worker of the request dies; it can be asked again.
TeardownCrash ==
    /\ sweeper = "teardown" /\ Fault
    /\ sweeper' = "none" /\ work' = <<>> /\ crashed' = TRUE
    /\ UNCHANGED <<sandbox, rows, cloud, provVars, user, keys, known, expired,
                   late, overlap, excused>>

Provision == JobStart \/ GetOrCreateRow \/ Create \/ Save \/ EndGuard
Teardown == GiveUp \/ Delete \/ ListPeers \/ DeleteRow \/ DeleteSandbox \/ GuardEnd
Next ==
    \/ Provision \/ JobCrash \/ UserStage
    \/ \E o \in Owners : Register(o)
    \/ TeardownStart \/ Teardown \/ TeardownCrash

(* The workers take every job and a client call ends within its timeouts;  *)
(* nobody has to ask for a cleanup, read the view or register.             *)
Spec == Init /\ [][Next]_vars
FairSpec == Spec /\ WF_vars(Provision) /\ WF_vars(Teardown) /\ WF_vars(UserStage)

-----------------------------------------------------------------------------
TypeOK ==
    /\ sandbox \in BOOLEAN /\ cloud \subseteq Object /\ excused \subseteq Object
    /\ \A o \in Owners : /\ rows[o] = NoRow \/ rows[o] \subseteq Recordable(o)
                         /\ held[o] = NoRow \/ held[o] \subseteq Recordable(o)
    /\ job \in {"queued", "running", "sweeping", "finished", "failed"}
    /\ at \in 1..Len(Script) + 1 /\ made \subseteq UNION {Routes(h) : h \in Hosts}
    /\ user \in {"deferred", "ran", "cancelled"} /\ keys \subseteq Owners
    /\ sweeper \in {"none", "teardown", "guard"} /\ known \subseteq Object
    /\ late \in Nat /\ faults \in 0..MaxFaults
    /\ {expired, overlap, crashed} \subseteq BOOLEAN

\* The objects somebody can still delete: named by a row, by the job or by what
\* a teardown has left to do.
Reachable ==
    Named(rows) \cup (IF Ended THEN {} ELSE Named(held) \cup made)
    \cup {work[i].obj : i \in 1..Len(work)}

(* No object of the sandbox is left on the server with nobody to delete it, *)
(* but for a named cause: a call failed or its answer was lost; routes were *)
(* made and the next call failed before their ids were saved together; the  *)
(* row of an entrypoint went with the sandbox while its objects were made;  *)
(* a teardown overlapped the job and never saw the object, or met a group   *)
(* still used by one it never saw; the budget ran out; a process died.  In  *)
(* particular a teardown that overlaps the job is made good by the end      *)
(* guard, and the access group goes after all that uses it.                 *)
NothingLost ==
    \A x \in cloud : x[1] # "peer" => x \in Reachable \cup excused

(* A client cannot register while the group's peers are being removed: the  *)
(* key is deleted before the peers are listed, so a peer outlives its group *)
(* only if a call failed, the budget ran out or the key was never seen.     *)
NoPeerSlipsIn ==
    \A o \in Owners : (Peer(o) \in cloud /\ Group(o) \notin cloud) =>
        Peer(o) \in excused \/ Key(o) \in excused

(* After the deadline a request starts at most one more call: the listing   *)
(* of a group's peers, which follows the key without a look at the budget.  *)
OverrunBounded == late <= 1

(* The user stage runs with the setup key of every entrypoint, unless       *)
(* something failed: it waits for the job, and a teardown cancels it.       *)
KeysReachAnsible == (user = "ran" /\ faults = 0) => Hosts \subseteq keys

(* Whatever fails, the job ends well, so that the user stage is released;   *)
(* only the death of its worker is beyond it.                               *)
JobEnds == <>(job = "finished" \/ crashed)

(* A request that tears down gets to delete the sandbox, whatever NetBird   *)
(* answers, unless its own process dies.                                    *)
CleanupNotBlocked == (sweeper = "teardown") ~> (~sandbox \/ crashed)
=============================================================================

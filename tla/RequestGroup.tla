---------------------------- MODULE RequestGroup ----------------------------
(***************************************************************************)
(* The SandboxRequestGroup of a batch of allocation units: one row whose   *)
(* counters the workers read and write in transactions without locking it, *)
(* the mail about the first failure and the summary, which are sent after  *)
(* the commit, and the deletion of the row that follows the summary.       *)
(***************************************************************************)
EXTENDS Naturals

CONSTANTS
    Count,   \* units in the batch
    Stage,   \* the stages of a unit, each run by a worker
    Gone     \* no row, or no transaction under way

Row == [failed : Nat, finished : Nat]

ASSUME GroupAssumption == Count \in Nat \ {0} /\ Gone \notin Row

Unit == 1..Count
Worker == Unit \X Stage

VARIABLES
    group,      \* the row
    tx,         \* what a worker has read of it
    counted,    \* how often a unit was counted
    raced,      \* a commit was computed from a row that had changed meanwhile
    summaries   \* summaries sent or attempted

groupVars == <<group, tx, counted, raced, summaries>>

GroupTypeOK ==
    /\ group \in Row \cup {Gone}
    /\ tx \in [Worker -> Row \cup {Gone}]
    /\ counted \in [Unit -> Nat]
    /\ raced \in BOOLEAN
    /\ summaries \in Nat

\* The group is created before the first chain is enqueued.
GroupInit ==
    /\ group = [failed |-> 0, finished |-> 0]
    /\ tx = [x \in Worker |-> Gone]
    /\ counted = [u \in Unit |-> 0]
    /\ raced = FALSE /\ summaries = 0

\* refresh_from_db, which fails once the row is deleted.
Refresh(x) ==
    /\ group # Gone
    /\ tx' = [tx EXCEPT ![x] = group]
    /\ UNCHANGED <<group, counted, raced, summaries>>

\* Mutant: only a success counts as finished.
CountsSuccess(x, isFailure) ==
    [failed |-> tx[x].failed + IF isFailure THEN 1 ELSE 0,
     finished |-> tx[x].finished + IF isFailure THEN 0 ELSE 1]

Counted(x, isFailure) ==
    [failed |-> tx[x].failed + IF isFailure THEN 1 ELSE 0,
     finished |-> tx[x].finished + 1]

\* Mutant: the summary goes out with the last but one.
DueAlmost(x, isFailure) ==
    (IF isFailure /\ tx[x].failed = 0 THEN {"failure"} ELSE {})
    \cup IF Counted(x, isFailure).finished >= Count - 1 THEN {"summary"} ELSE {}

\* The mails a commit leads to.
Due(x, isFailure) ==
    (IF isFailure /\ tx[x].failed = 0 THEN {"failure"} ELSE {})
    \cup IF Counted(x, isFailure).finished = Count THEN {"summary"} ELSE {}

\* The counters are saved; a row deleted meanwhile is inserted again.
Commit(x, isFailure) ==
    /\ group' = Counted(x, isFailure)
    /\ raced' = (raced \/ group # tx[x])
    /\ counted' = [counted EXCEPT ![x[1]] = @ + 1]
    /\ tx' = [tx EXCEPT ![x] = Gone]
    /\ UNCHANGED summaries

\* The summary is sent, or fails; either way the row is deleted.
Summary ==
    /\ summaries' = summaries + 1
    /\ group' = Gone
    /\ UNCHANGED <<tx, counted, raced>>
=============================================================================

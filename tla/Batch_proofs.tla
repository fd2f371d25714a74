---------------------------- MODULE Batch_proofs ----------------------------
(***************************************************************************)
(* Proofs about Batch: the chains of a batch, and the row that counts them. *)
(***************************************************************************)
EXTENDS Batch, FiniteSetTheorems, TLAPS

\* A worker that is about to count has read the row.
TxHeld == \A x \in Worker : w[x].at \in {"commit", "failing"} => tx[x] \in Row

TypeInv == TypeOK /\ TxHeld

\* The parts of a worker's name.
LEMMA Parts == ASSUME NEW x \in Worker PROVE x[1] \in Unit /\ x[2] \in Stage /\ x = <<x[1], x[2]>>
BY DEF Worker

\* A worker goes on.
LEMMA GoType ==
    ASSUME w \in [Worker -> State], NEW x \in Worker, NEW fine \in BOOLEAN,
           NEW at \in {"recorded", "commit", "mail", "release", "failing", "failmail"}, Go(x, at, fine)
    PROVE  /\ w' \in [Worker -> State]
           /\ w'[x].at = at /\ w'[x].fine = fine /\ w'[x].hit = w[x].hit /\ w'[x].due = w[x].due
           /\ \A y \in Worker : y # x => w'[y] = w[y]
           /\ UNCHANGED <<stage, job>>
BY DEF Go, State

\* A stage ends.
LEMMA CloseType ==
    ASSUME TypeOK, NEW x \in Worker, NEW fine \in BOOLEAN, Close(x, fine)
    PROVE  /\ w' \in [Worker -> State]
           /\ w'[x] = IF fine THEN Idle ELSE [Idle EXCEPT !.at = "handler"]
           /\ \A y \in Worker : y # x => w'[y] = w[y]
           /\ stage' \in [Unit -> [Stage -> {"pending", "running", "ok", "failed"}]]
           /\ job' \in [Unit -> [Stage -> {"waiting", "free", "running", "ok", "failed", "deleted"}]]
           /\ stage'[x[1]][x[2]] = (IF fine THEN "ok" ELSE "failed")
           /\ job'[x[1]][x[2]] = IF job[x[1]][x[2]] = "running"
                                 THEN (IF fine THEN "ok" ELSE "failed") ELSE job[x[1]][x[2]]
           /\ \A u \in Unit, s \in Stage : <<u, s>> # x =>
                 stage'[u][s] = stage[u][s] /\ job'[u][s] = job[u][s]
<1> DEFINE next == IF fine THEN Idle ELSE [Idle EXCEPT !.at = "handler"]
           to == IF fine THEN "ok" ELSE "failed"
<1>1. next \in State
  BY DEF Idle, State
<1>2. w' = [w EXCEPT ![x] = next] /\ w \in [Worker -> State]
  BY DEF Close, TypeOK
<1>3. /\ w' \in [Worker -> State] /\ w'[x] = next
      /\ \A y \in Worker : y # x => w'[y] = w[y]
  <2> HIDE DEF next
  <2> QED BY <1>1, <1>2
<1>4. x[1] \in Unit /\ x[2] \in Stage /\ x = <<x[1], x[2]>> /\ to \in {"ok", "failed"}
  BY Parts
<1>5. /\ stage' = [stage EXCEPT ![x[1]][x[2]] = to]
      /\ job' = [job EXCEPT ![x[1]][x[2]] = IF @ = "running" THEN to ELSE @]
      /\ stage \in [Unit -> [Stage -> {"pending", "running", "ok", "failed"}]]
      /\ job \in [Unit -> [Stage -> {"waiting", "free", "running", "ok", "failed", "deleted"}]]
  BY DEF Close, TypeOK
<1> HIDE DEF to
<1>6. /\ stage' \in [Unit -> [Stage -> {"pending", "running", "ok", "failed"}]]
      /\ job' \in [Unit -> [Stage -> {"waiting", "free", "running", "ok", "failed", "deleted"}]]
      /\ stage'[x[1]][x[2]] = to
      /\ job'[x[1]][x[2]] = IF job[x[1]][x[2]] = "running" THEN to ELSE job[x[1]][x[2]]
  BY <1>4, <1>5
<1>7. \A u \in Unit, s \in Stage : <<u, s>> # x =>
         stage'[u][s] = stage[u][s] /\ job'[u][s] = job[u][s]
  BY <1>4, <1>5
<1> QED BY <1>3, <1>6, <1>7 DEF to

\* What a worker does to the row of the group.
LEMMA GroupType ==
    ASSUME GroupTypeOK, NEW x \in Worker,
           \/ Refresh(x) \/ Summary \/ UNCHANGED groupVars
           \/ tx[x] \in Row /\ \E f \in BOOLEAN : Commit(x, f)
    PROVE  GroupTypeOK'
<1>1. CASE Refresh(x)
  BY <1>1 DEF Refresh, GroupTypeOK
<1>2. CASE Summary
  BY <1>2 DEF Summary, GroupTypeOK
<1>3. CASE UNCHANGED groupVars
  BY <1>3 DEF groupVars, GroupTypeOK
<1>4. ASSUME tx[x] \in Row, NEW f \in BOOLEAN, Commit(x, f) PROVE GroupTypeOK'
  <2>1. Counted(x, f) \in Row
    BY <1>4 DEF Counted, Row
  <2>2. x[1] \in Unit
    BY Parts
  <2>3. raced' \in BOOLEAN
    BY <1>4 DEF Commit, GroupTypeOK
  <2> QED BY <1>4, <2>1, <2>2, <2>3 DEF Commit, GroupTypeOK
<1> QED BY <1>1, <1>2, <1>3, <1>4

\* A cancellation touches the jobs and stages of one unit.
LEMMA ReachType ==
    ASSUME TypeOK, NEW u \in Unit, NEW R \in SUBSET Stage, Reach(u, R)
    PROVE  /\ stage' \in [Unit -> [Stage -> {"pending", "running", "ok", "failed"}]]
           /\ job' \in [Unit -> [Stage -> {"waiting", "free", "running", "ok", "failed", "deleted"}]]
           /\ early' = IF Complete(u) THEN early ELSE early \cup {u}
           /\ \A v \in Unit, s \in Stage :
                 /\ stage'[v][s] = IF v = u /\ s \in R THEN "failed" ELSE stage[v][s]
                 /\ \/ job'[v][s] = job[v][s]
                    \/ /\ v = u /\ job'[v][s] = "deleted" /\ Enqueued(v, s)
                       /\ job[v][s] \notin {"ok", "failed"}
<1> DEFINE cut == UNION {Behind(k) : k \in {y \in R : Recorded(u, y)}}
           news == [k \in Stage |-> IF k \in R THEN "failed" ELSE stage[u][k]]
           newj == [k \in Stage |-> IF k \in cut /\ Enqueued(u, k) /\ job[u][k] \notin {"ok", "failed"}
                                    THEN "deleted" ELSE job[u][k]]
<1>1. /\ stage' = [stage EXCEPT ![u] = news]
      /\ job' = [job EXCEPT ![u] = newj]
      /\ early' = IF Complete(u) THEN early ELSE early \cup {u}
  BY DEF Reach
<1>2. /\ stage \in [Unit -> [Stage -> {"pending", "running", "ok", "failed"}]]
      /\ job \in [Unit -> [Stage -> {"waiting", "free", "running", "ok", "failed", "deleted"}]]
  BY DEF TypeOK
<1> HIDE DEF cut
<1>3. /\ news \in [Stage -> {"pending", "running", "ok", "failed"}]
      /\ newj \in [Stage -> {"waiting", "free", "running", "ok", "failed", "deleted"}]
      /\ \A s \in Stage : /\ news[s] = IF s \in R THEN "failed" ELSE stage[u][s]
                          /\ \/ newj[s] = job[u][s]
                             \/ /\ newj[s] = "deleted" /\ Enqueued(u, s)
                                /\ job[u][s] \notin {"ok", "failed"}
  BY <1>2
<1> HIDE DEF news, newj
<1> QED BY <1>1, <1>2, <1>3

\* What a cancellation of unit u leaves of the other parts of the state.
LEMMA CancelType ==
    ASSUME TypeOK, NEW u \in Unit, NEW workers \in [Worker -> State],
           CancelAll(u, workers) \/ CancelHalf(u, workers)
    PROVE  /\ w' \in [Worker -> State]
           /\ \A y \in Worker : /\ w'[y].at = workers[y].at /\ w'[y].fine = workers[y].fine
                                /\ w'[y].due = workers[y].due
           /\ stage' \in [Unit -> [Stage -> {"pending", "running", "ok", "failed"}]]
           /\ job' \in [Unit -> [Stage -> {"waiting", "free", "running", "ok", "failed", "deleted"}]]
           /\ early' = IF Complete(u) THEN early ELSE early \cup {u}
           /\ \A v \in Unit, s \in Stage :
                 /\ \/ stage'[v][s] = stage[v][s]
                    \/ v = u /\ stage[v][s] \in {"pending", "running"} /\ stage'[v][s] = "failed"
                 /\ \/ job'[v][s] = job[v][s]
                    \/ /\ v = u /\ job'[v][s] = "deleted" /\ Enqueued(v, s)
                       /\ job[v][s] \notin {"ok", "failed"}
           /\ live' \subseteq live /\ \A y \in live \ live' : y[1] = u
           /\ dropped' \subseteq dropped \cup {u}
<1>1. \E R \in SUBSET Stage : R \subseteq Unfinished(u) /\ Reach(u, R)
  <2>1. CASE CancelAll(u, workers)
    BY <2>1 DEF CancelAll, Unfinished
  <2>2. CASE CancelHalf(u, workers)
    BY <2>2 DEF CancelHalf, Unfinished
  <2> QED BY <2>1, <2>2
<1>2. PICK R \in SUBSET Stage : R \subseteq Unfinished(u) /\ Reach(u, R)
  BY <1>1
<1>3. /\ w' \in [Worker -> State]
      /\ \A y \in Worker : /\ w'[y].at = workers[y].at /\ w'[y].fine = workers[y].fine
                           /\ w'[y].due = workers[y].due
  <2>1. CASE CancelHalf(u, workers)
    BY <2>1 DEF CancelHalf
  <2>2. CASE CancelAll(u, workers)
    <3> DEFINE hits(reached, x) == workers[x].at = "recorded" /\ x[2] \in Unfinished(u)
                                   /\ x \in Boxes(u) \cup reached
    <3>1. PICK reached : w' = [x \in Worker |-> IF hits(reached, x)
                                 THEN [workers[x] EXCEPT !.hit = TRUE] ELSE workers[x]]
      BY <2>2 DEF CancelAll
    <3> HIDE DEF hits
    <3>2. ASSUME NEW y \in Worker
          PROVE  /\ w'[y] \in State /\ w'[y].at = workers[y].at /\ w'[y].fine = workers[y].fine
                 /\ w'[y].due = workers[y].due
      <4>1. workers[y] \in State
        OBVIOUS
      <4>2. w'[y] = workers[y] \/ w'[y] = [workers[y] EXCEPT !.hit = TRUE]
        BY <3>1
      <4> QED BY <4>1, <4>2 DEF State
    <3>3. w' = [y \in Worker |-> w'[y]]
      BY <3>1
    <3> QED BY <3>2, <3>3
  <2> QED BY <2>1, <2>2
<1>4. live' \subseteq live /\ \A y \in live \ live' : y[1] = u
  <2>1. \A y \in Boxes(u) : y[1] = u
    BY DEF Boxes
  <2> QED BY <2>1 DEF CancelAll, CancelHalf
<1>5. dropped' \subseteq dropped \cup {u}
  BY DEF CancelAll, CancelHalf
<1>6. \A s \in Stage : s \in R => stage[u][s] \in {"pending", "running"}
  BY <1>2 DEF Unfinished
<1> QED BY <1>2, <1>3, <1>4, <1>5, <1>6, ReachType

\* A worker whose handler has ended is idle.
LEMMA OthersType ==
    ASSUME TypeOK, NEW x \in Worker
    PROVE  [w EXCEPT ![x] = Idle] \in [Worker -> State]
BY DEF TypeOK, Idle, State

\* An error reads the row or ends the stage.
LEMMA FailType ==
    ASSUME TypeOK, NEW x \in Worker, Fail(x)
    PROVE  \/ /\ Refresh(x) /\ Go(x, "failing", FALSE) /\ tx'[x] \in Row
              /\ \A y \in Worker : y # x => tx'[y] = tx[y]
           \/ Close(x, FALSE) /\ UNCHANGED groupVars
<1>1. ASSUME Refresh(x) PROVE tx'[x] \in Row /\ \A y \in Worker : y # x => tx'[y] = tx[y]
  BY <1>1 DEF Refresh, TypeOK, GroupTypeOK
<1> QED BY <1>1 DEF Fail

\* An unclean end of a stage.
LEMMA AbandonType ==
    ASSUME TypeOK, NEW x \in Worker, Abandon(x)
    PROVE  \/ Fail(x) /\ excused' = excused \cup {x}
           \/ Go(x, "release", FALSE) /\ UNCHANGED <<groupVars, excused>>
BY DEF Abandon

\* Every step of a worker keeps the types.
LEMMA WorkType ==
    ASSUME TypeInv, NEW x \in Worker, Work(x) \/ Timeout(x)
    PROVE  TypeInv'
<1>0. /\ TypeOK /\ TxHeld /\ GroupTypeOK /\ w \in [Worker -> State] /\ w[x] \in State
      /\ stage \in [Unit -> [Stage -> {"pending", "running", "ok", "failed"}]]
      /\ job \in [Unit -> [Stage -> {"waiting", "free", "running", "ok", "failed", "deleted"}]]
  BY DEF TypeInv, TypeOK
<1>1. /\ pos' = pos /\ broken' = broken /\ crashed' = crashed
      /\ faults' \in 0..MaxFaults
      /\ live' \cup noted' \cup excused' \subseteq Worker
  <2>1. faults' = faults \/ Fault
    BY Zenon DEF Work, Timeout, Start, Record, Finish, Release, CommitEnd, MailEnd, CommitFailure,
         MailFailure, Handle
  <2>2. Fault => faults' \in 0..MaxFaults
    BY BatchAssumption, <1>0 DEF Fault, TypeOK
  <2>3. pos' = pos /\ broken' = broken /\ crashed' = crashed
    BY Zenon DEF Work, Timeout, Start, Record, Finish, Release, CommitEnd, MailEnd, CommitFailure,
         MailFailure, Handle, rest, chain
  <2>4. excused' \subseteq excused \cup {x}
    <3>1. Abandon(x) => excused' \subseteq excused \cup {x}
      BY <1>0, AbandonType
    <3> QED BY <3>1 DEF Work, Timeout, Start, Record, Finish, Release, CommitEnd, MailEnd,
              CommitFailure, MailFailure, Handle, chain
  <2>5. live' \subseteq live \cup {x}
    <3>1. CASE Handle(x)
      BY <3>1 DEF Handle, CancelAll, CancelHalf
    <3>2. CASE ~Handle(x)
      BY <3>2, Zenon DEF Work, Timeout, Start, Record, Finish, Release, CommitEnd, MailEnd,
         CommitFailure, MailFailure, chain
    <3> QED BY <3>1, <3>2
  <2>6. noted' \subseteq noted \cup {x}
    BY Zenon DEF Work, Timeout, Start, Record, Finish, Release, CommitEnd, MailEnd,
              CommitFailure, MailFailure, Handle, chain
  <2> QED BY <1>0, <2>1, <2>2, <2>3, <2>4, <2>5, <2>6 DEF TypeOK
<1>2. ASSUME Fail(x) PROVE TxHeld' /\ GroupTypeOK' /\ w' \in [Worker -> State]
  <2>1. CASE Close(x, FALSE) /\ UNCHANGED groupVars
    <3>1. /\ w' \in [Worker -> State] /\ w'[x] = [Idle EXCEPT !.at = "handler"]
          /\ \A y \in Worker : y # x => w'[y] = w[y]
      BY <1>0, <2>1, CloseType
    <3> QED BY <1>0, <2>1, <3>1, GroupType DEF TxHeld, groupVars, Idle
  <2>2. CASE Refresh(x) /\ Go(x, "failing", FALSE)
    <3>1. /\ w' \in [Worker -> State] /\ w'[x].at = "failing"
          /\ \A y \in Worker : y # x => w'[y] = w[y]
      BY <1>0, <2>2, GoType
    <3>2. tx'[x] \in Row /\ \A y \in Worker : y # x => tx'[y] = tx[y]
      BY <1>0, <2>2 DEF Refresh, GroupTypeOK
    <3> QED BY <1>0, <2>2, <3>1, <3>2, GroupType DEF TxHeld
  <2> QED BY <1>2, <2>1, <2>2 DEF Fail
<1>3. ASSUME NEW at \in {"recorded", "mail", "release"}, NEW fine \in BOOLEAN, Go(x, at, fine),
             tx' = tx \/ tx' = [tx EXCEPT ![x] = Gone]
      PROVE  TxHeld' /\ w' \in [Worker -> State]
  <2>1. /\ w' \in [Worker -> State] /\ w'[x].at = at
        /\ \A y \in Worker : y # x => w'[y] = w[y]
    BY <1>0, <1>3, GoType
  <2>2. \A y \in Worker : y # x => tx'[y] = tx[y]
    BY <1>0, <1>3 DEF GroupTypeOK
  <2> QED BY <1>0, <2>1, <2>2 DEF TxHeld
<1>4. ASSUME NEW fine \in BOOLEAN, Close(x, fine), tx' = tx \/ tx' = [tx EXCEPT ![x] = Gone]
      PROVE  TxHeld' /\ w' \in [Worker -> State]
  <2>1. /\ w' \in [Worker -> State] /\ w'[x].at \in {"idle", "handler"}
        /\ \A y \in Worker : y # x => w'[y] = w[y]
    BY <1>0, <1>4, CloseType DEF Idle
  <2>2. \A y \in Worker : y # x => tx'[y] = tx[y]
    BY <1>0, <1>4 DEF GroupTypeOK
  <2> QED BY <1>0, <2>1, <2>2 DEF TxHeld
<1>5. ASSUME Abandon(x) PROVE TxHeld' /\ GroupTypeOK' /\ w' \in [Worker -> State]
  <2>1. CASE Go(x, "release", FALSE) /\ UNCHANGED groupVars
    BY <1>0, <1>3, <2>1, GroupType DEF groupVars
  <2> QED BY <1>0, <1>2, <1>5, <2>1, AbandonType
<1>6. TxHeld' /\ GroupTypeOK' /\ w' \in [Worker -> State]
  <2>1. CASE Start(x)
    <3>1. w' = [w EXCEPT ![x].at = "spawned"] /\ UNCHANGED groupVars
      BY <2>1 DEF Start
    <3>2. /\ w' \in [Worker -> State] /\ w'[x].at = "spawned"
          /\ \A y \in Worker : y # x => w'[y] = w[y]
      BY <1>0, <3>1 DEF State
    <3> QED BY <1>0, <3>1, <3>2, GroupType DEF TxHeld, groupVars
  <2>2. CASE Record(x) \/ Timeout(x)
    <3>1. CASE Go(x, "recorded", TRUE) /\ UNCHANGED groupVars
      BY <1>0, <1>3, <3>1, GroupType DEF groupVars
    <3> QED BY <1>5, <2>2, <3>1 DEF Record, Timeout
  <2>3. CASE Finish(x)
    <3>1. CASE Close(x, TRUE) /\ UNCHANGED groupVars
      BY <1>0, <1>4, <3>1, GroupType DEF groupVars
    <3>2. ASSUME NEW fine \in BOOLEAN, Go(x, "release", fine), UNCHANGED groupVars
          PROVE TxHeld' /\ GroupTypeOK' /\ w' \in [Worker -> State]
      BY <1>0, <1>3, <3>2, GroupType DEF groupVars
    <3>3. CASE Refresh(x) /\ Go(x, "commit", TRUE)
      <4>1. tx'[x] \in Row /\ \A y \in Worker : y # x => tx'[y] = tx[y]
        BY <1>0, <3>3 DEF Refresh, GroupTypeOK
      <4> QED BY <1>0, <3>3, <4>1, GoType, GroupType DEF TxHeld
    <3> QED BY <2>3, <3>1, <3>2, <3>3 DEF Finish
  <2>4. CASE Release(x)
    <3>1. CASE Close(x, TRUE) /\ UNCHANGED groupVars
      BY <1>0, <1>4, <3>1, GroupType DEF groupVars
    <3> QED BY <1>2, <2>4, <3>1 DEF Release
  <2>5. CASE CommitEnd(x)
    <3>1. Commit(x, FALSE) /\ tx[x] \in Row
      BY <1>0, <2>5 DEF CommitEnd, At, TxHeld
    <3>2. GroupTypeOK' /\ tx' = [tx EXCEPT ![x] = Gone]
      BY <1>0, <3>1, GroupType DEF Commit
    <3>3. \E at \in {"recorded", "mail", "release"} : Go(x, at, TRUE)
      BY <2>5 DEF CommitEnd
    <3> QED BY <1>3, <3>2, <3>3
  <2>6. CASE MailEnd(x)
    <3>1. GroupTypeOK' /\ tx' = tx
      BY <1>0, <2>6, GroupType DEF MailEnd, Summary
    <3>2. \E fine \in BOOLEAN : Go(x, "release", fine)
      BY <2>6 DEF MailEnd
    <3> QED BY <1>3, <3>1, <3>2
  <2>7. CASE CommitFailure(x)
    <3>1. Commit(x, TRUE) /\ tx[x] \in Row
      BY <1>0, <2>7 DEF CommitFailure, At, TxHeld
    <3>2. GroupTypeOK' /\ tx' = [tx EXCEPT ![x] = Gone]
      BY <1>0, <3>1, GroupType DEF Commit
    <3>3. CASE Close(x, FALSE)
      BY <1>4, <3>2, <3>3
    <3>4. CASE w' = [w EXCEPT ![x].at = "failmail", ![x].due = Due(x, TRUE)]
      <4>1. Due(x, TRUE) \in SUBSET {"failure", "summary"}
        BY DEF Due
      <4>2. /\ w' \in [Worker -> State] /\ w'[x].at = "failmail"
            /\ \A y \in Worker : y # x => w'[y] = w[y]
        BY <1>0, <3>4, <4>1 DEF State
      <4>3. \A y \in Worker : y # x => tx'[y] = tx[y]
        BY <3>2
      <4> QED BY <1>0, <3>2, <4>2, <4>3 DEF TxHeld
    <3> QED BY <2>7, <3>3, <3>4 DEF CommitFailure
  <2>8. CASE MailFailure(x)
    <3>1. Summary \/ UNCHANGED groupVars
      BY <2>8 DEF MailFailure
    <3>2. GroupTypeOK' /\ tx' = tx
      BY <1>0, <3>1, GroupType DEF Summary, groupVars
    <3> QED BY <1>4, <2>8, <3>2 DEF MailFailure
  <2>9. CASE Handle(x)
    <3> DEFINE others == [w EXCEPT ![x] = Idle]
    <3>1. others \in [Worker -> State] /\ UNCHANGED groupVars /\ x[1] \in Unit
      BY <1>0, <2>9, OthersType, Parts DEF Handle
    <3>2. \A y \in Worker : others[y].at = IF y = x THEN "idle" ELSE w[y].at
      BY <1>0 DEF Idle
    <3>3. CancelAll(x[1], others) \/ CancelHalf(x[1], others) \/ w' = others
      BY <2>9 DEF Handle
    <3> HIDE DEF others
    <3>4. w' \in [Worker -> State] /\ \A y \in Worker : w'[y].at = others[y].at
      BY <1>0, <3>1, <3>3, CancelType
    <3> QED BY <1>0, <3>1, <3>2, <3>4, GroupType DEF TxHeld, groupVars
  <2> QED BY <2>1, <2>2, <2>3, <2>4, <2>5, <2>6, <2>7, <2>8, <2>9 DEF Work
<1>7. /\ stage' \in [Unit -> [Stage -> {"pending", "running", "ok", "failed"}]]
      /\ job' \in [Unit -> [Stage -> {"waiting", "free", "running", "ok", "failed", "deleted"}]]
      /\ crashed' \cup dropped' \cup early' \subseteq Unit
  <2>0. x[1] \in Unit /\ x[2] \in Stage
    BY Parts
  <2>1. CASE Start(x)
    BY <1>0, <1>1, <2>0, <2>1 DEF Start, rest, TypeOK
  <2>2. CASE Handle(x)
    <3> DEFINE others == [w EXCEPT ![x] = Idle]
    <3>1. others \in [Worker -> State]
      BY <1>0, OthersType
    <3>2. \/ CancelAll(x[1], others) \/ CancelHalf(x[1], others)
          \/ UNCHANGED <<stage, job, early>> /\ dropped' = dropped \cup {x[1]}
      BY <2>2 DEF Handle
    <3> HIDE DEF others
    <3> QED BY <1>0, <1>1, <2>0, <3>1, <3>2, CancelType DEF TypeOK
  <2>3. CASE ~Start(x) /\ ~Handle(x)
    <3>1. dropped' = dropped /\ early' = early
      BY <2>3, Zenon DEF Work, Timeout, Record, Finish, Release, CommitEnd, MailEnd,
         CommitFailure, MailFailure, rest, chain
    <3>2. Fail(x) => UNCHANGED <<stage, job>> \/ Close(x, FALSE)
      BY DEF Fail, Go
    <3>3. UNCHANGED <<stage, job>> \/ \E fine \in BOOLEAN : Close(x, fine)
      BY <2>3, <3>2, Zenon DEF Work, Timeout, Record, Finish, Release, CommitEnd, MailEnd,
         CommitFailure, MailFailure, Abandon, Go
    <3> QED BY <1>0, <1>1, <3>1, <3>3, CloseType DEF TypeOK
  <2> QED BY <2>1, <2>2, <2>3
<1> QED BY <1>0, <1>1, <1>6, <1>7 DEF TypeInv, TypeOK

-----------------------------------------------------------------------------
(* The loop of the create job *)

\* The steps of the loop, one by one.
LEMMA LoopSteps ==
    /\ Len(Loop) = 7
    /\ \A n \in 1..7 : /\ Loop[n] = <<Loop[n][1], Loop[n][2]>>
                       /\ Loop[n][2] \in Stage
    /\ \A n, m \in 1..7 : Loop[n] = Loop[m] => n = m
<1>1. Len(Loop) = 7
  BY DEF Loop
<1>2. /\ Loop[1] = <<"create", "stack">> /\ Loop[2] = <<"enqueue", "stack">>
      /\ Loop[3] = <<"record", "stack">> /\ Loop[4] = <<"enqueue", "net">>
      /\ Loop[5] = <<"record", "net">> /\ Loop[6] = <<"enqueue", "user">>
      /\ Loop[7] = <<"record", "user">>
  BY DEF Loop
<1>3. Stage = {"stack", "net", "user"}
  BY BatchAssumption
<1>4. \A n \in 1..7 : n = 1 \/ n = 2 \/ n = 3 \/ n = 4 \/ n = 5 \/ n = 6 \/ n = 7
  OBVIOUS
<1>5. ASSUME NEW n \in 1..7 PROVE Loop[n] = <<Loop[n][1], Loop[n][2]>> /\ Loop[n][2] \in Stage
  BY <1>2, <1>3, <1>4
<1>6. ASSUME NEW n \in 1..7, NEW m \in 1..7, Loop[n] = Loop[m] PROVE n = m
  <2>1. /\ "create" # "enqueue" /\ "create" # "record" /\ "enqueue" # "record"
        /\ "stack" # "net" /\ "stack" # "user" /\ "net" # "user"
    OBVIOUS
  <2> QED BY <1>2, <1>4, <1>6, <2>1
<1> QED BY <1>1, <1>5, <1>6

\* What has been done is the steps before the position.
LEMMA DoneTo ==
    ASSUME NEW u \in Unit, NEW n \in 1..7
    PROVE  Done(u, Loop[n]) <=> pos >= 7 * (u - 1) + n
BY LoopSteps DEF Done

\* The create job enqueues a job that was not, and RQ may release it at once if
\* one it depends on has been deleted.
LEMMA LoopJobs ==
    ASSUME TypeOK, LoopStep
    PROVE  /\ pos' = pos + 1 /\ pos' \in 0 .. Len(Loop) * Count
           /\ job' \in [Unit -> [Stage -> {"waiting", "free", "running", "ok", "failed", "deleted"}]]
           /\ \A v \in Unit, s \in Stage :
                 \/ job'[v][s] = job[v][s]
                 \/ /\ job'[v][s] = "free" /\ ~Enqueued(v, s) /\ Enqueued(v, s)' /\ ~Complete(v)
                    /\ \E k \in Needs(s) : job[v][k] = "deleted"
<1> DEFINE u == (pos \div 7) + 1
           n == (pos % 7) + 1
           j == Loop[n][2]
<1>1. Len(Loop) = 7 /\ Count \in Nat /\ Count # 0
  BY LoopSteps, GroupAssumption
<1>2. pos \in Nat /\ pos < 7 * Count /\ pos' = pos + 1 /\ pos + 1 \in 0 .. 7 * Count
  BY <1>1 DEF LoopStep, LoopOpen, TypeOK
<1>3. n \in 1..7 /\ u \in Unit /\ pos + 1 = 7 * (u - 1) + n
  BY <1>1, <1>2 DEF Unit
<1>4. j \in Stage /\ (Loop[n][1] = "enqueue" => Loop[n] = <<"enqueue", j>>)
  BY <1>3, LoopSteps
<1>5. \/ job' = job
      \/ /\ Loop[n][1] = "enqueue" /\ job' = [job EXCEPT ![u][j] = "free"]
         /\ \E k \in Needs(j) : job[u][k] = "deleted"
  BY <1>1 DEF LoopStep
<1>6. job \in [Unit -> [Stage -> {"waiting", "free", "running", "ok", "failed", "deleted"}]]
  BY DEF TypeOK
<1>7. Loop[n][1] = "enqueue" => ~Enqueued(u, j) /\ ~Complete(u)
  <2>1. ~(pos >= 7 * (u - 1) + n) /\ ~(pos >= 7 * (u - 1) + 7) /\ 7 \in 1..7
    BY <1>2, <1>3
  <2>2. Loop[7] = <<"record", "user">>
    BY DEF Loop
  <2>3. ~Done(u, Loop[n]) /\ ~Done(u, Loop[7])
    BY <1>3, <2>1, DoneTo
  <2> QED BY <1>4, <2>2, <2>3 DEF Enqueued, Complete, Recorded
<1>8. ASSUME NEW v \in Unit, NEW s \in Stage, NEW m \in 1..7, Loop[m] = <<"enqueue", s>>,
              pos + 1 = 7 * (v - 1) + m
       PROVE  Enqueued(v, s)'
  <2>1. Done(v, Loop[m])'
    BY <1>1, <1>2, <1>3, <1>8 DEF Done
  <2> QED BY <1>8, <2>1 DEF Enqueued
<1> HIDE DEF u, n, j
<1>9. CASE job' = job
  BY <1>1, <1>2, <1>6, <1>9
<1>10. CASE /\ Loop[n][1] = "enqueue" /\ job' = [job EXCEPT ![u][j] = "free"]
           /\ \E k \in Needs(j) : job[u][k] = "deleted"
  <2>1. \A v \in Unit, s \in Stage : job'[v][s] = IF v = u /\ s = j THEN "free" ELSE job[v][s]
    BY <1>3, <1>4, <1>6, <1>10
  <2>2. job' \in [Unit -> [Stage -> {"waiting", "free", "running", "ok", "failed", "deleted"}]]
    BY <1>3, <1>4, <1>6, <1>10
  <2>3. ASSUME NEW v \in Unit, NEW s \in Stage, v = u, s = j PROVE Enqueued(v, s)'
    BY <1>3, <1>4, <1>10, <1>8, <2>3
  <2> QED BY <1>1, <1>2, <1>7, <1>10, <2>1, <2>2, <2>3
<1> QED BY <1>5, <1>9, <1>10

\* What was done stays done.
LEMMA DoneStays ==
    ASSUME TypeOK, pos' \in {pos, pos + 1}, NEW u \in Unit, NEW what
    PROVE  Done(u, what) => Done(u, what)'
<1>1. pos \in Nat /\ Len(Loop) = 7 /\ u \in Nat
  BY LoopSteps, GroupAssumption DEF TypeOK, Unit
<1> QED BY <1>1 DEF Done

-----------------------------------------------------------------------------
(* The types *)

\* A worker that dies.
LEMMA CrashType ==
    ASSUME TypeOK, NEW x \in Worker, Crash(x)
    PROVE  /\ w' \in [Worker -> State] /\ w'[x] = Idle
           /\ \A y \in Worker : y # x => w'[y] = w[y] /\ tx'[y] = tx[y]
           /\ job' \in [Unit -> [Stage -> {"waiting", "free", "running", "ok", "failed", "deleted"}]]
           /\ \A v \in Unit, s \in Stage :
                 \/ job'[v][s] = job[v][s]
                 \/ <<v, s>> = x /\ job[v][s] = "running" /\ job'[v][s] = "failed"
           /\ GroupTypeOK'
<1>0. x[1] \in Unit /\ x[2] \in Stage /\ x = <<x[1], x[2]>>
  BY Parts
<1>1. Idle \in State
  BY DEF Idle, State
<1>2. /\ w' \in [Worker -> State] /\ w'[x] = Idle
      /\ \A y \in Worker : y # x => w'[y] = w[y]
  BY <1>1 DEF Crash, TypeOK
<1>3. GroupTypeOK' /\ \A y \in Worker : y # x => tx'[y] = tx[y]
  BY DEF Crash, TypeOK, GroupTypeOK
<1>4. job' = [job EXCEPT ![x[1]][x[2]] = IF @ = "running" THEN "failed" ELSE @]
  BY DEF Crash
<1>5. job \in [Unit -> [Stage -> {"waiting", "free", "running", "ok", "failed", "deleted"}]]
  BY DEF TypeOK
<1>6. job' \in [Unit -> [Stage -> {"waiting", "free", "running", "ok", "failed", "deleted"}]]
  BY <1>0, <1>4, <1>5
<1>7. \A v \in Unit, s \in Stage :
         \/ job'[v][s] = job[v][s]
         \/ <<v, s>> = x /\ job[v][s] = "running" /\ job'[v][s] = "failed"
  BY <1>0, <1>4, <1>5
<1> QED BY <1>2, <1>3, <1>6, <1>7

\* Every step keeps the types.
LEMMA TypeInductive == TypeInv /\ [Next]_vars => TypeInv'
<1> SUFFICES ASSUME TypeInv, [Next]_vars PROVE TypeInv'
  OBVIOUS
<1>0. TypeOK /\ TxHeld
  BY DEF TypeInv
<1>1. CASE LoopStep
  BY <1>0, <1>1, LoopJobs DEF LoopStep, TypeInv, TypeOK, TxHeld, groupVars, GroupTypeOK
<1>2. Fault => faults' \in 0..MaxFaults
  BY <1>0, BatchAssumption DEF Fault, TypeOK
<1>3. CASE LoopFails
  BY <1>0, <1>2, <1>3 DEF LoopFails, TypeInv, TypeOK, TxHeld, groupVars, GroupTypeOK
<1>4. ASSUME NEW u \in Unit, Cancel(u) PROVE TypeInv'
  <2>1. w \in [Worker -> State] /\ (CancelAll(u, w) \/ CancelHalf(u, w))
    BY <1>0, <1>4 DEF Cancel, TypeOK
  <2>2. /\ w' \in [Worker -> State] /\ \A y \in Worker : w'[y].at = w[y].at
        /\ stage' \in [Unit -> [Stage -> {"pending", "running", "ok", "failed"}]]
        /\ job' \in [Unit -> [Stage -> {"waiting", "free", "running", "ok", "failed", "deleted"}]]
        /\ early' = IF Complete(u) THEN early ELSE early \cup {u}
        /\ live' \subseteq live /\ dropped' \subseteq dropped \cup {u}
    BY <1>0, <2>1, CancelType
  <2>3. /\ UNCHANGED <<group, tx, counted, raced, summaries, pos, broken, noted, crashed, excused>>
        /\ faults' \in 0..MaxFaults
    BY <1>2, <1>4 DEF Cancel, groupVars
  <2>4. TxHeld' /\ GroupTypeOK'
    BY <1>0, <2>2, <2>3 DEF TxHeld, TypeOK, GroupTypeOK
  <2> QED BY <1>0, <2>2, <2>3, <2>4 DEF TypeInv, TypeOK
<1>5. ASSUME NEW x \in Worker, Crash(x) PROVE TypeInv'
  <2>1. TxHeld'
    BY <1>0, <1>5, CrashType DEF TxHeld, Idle
  <2>2. x[1] \in Unit
    BY Parts
  <2>3. /\ UNCHANGED <<pos, broken, stage, live, noted, dropped, early>>
        /\ crashed' = crashed \cup {x[1]} /\ excused' = excused \cup (live \cap {x})
        /\ faults' \in 0..MaxFaults
    BY <1>2, <1>5 DEF Crash
  <2>4. /\ GroupTypeOK' /\ w' \in [Worker -> State]
        /\ job' \in [Unit -> [Stage -> {"waiting", "free", "running", "ok", "failed", "deleted"}]]
    BY <1>0, <1>5, CrashType
  <2> QED BY <1>0, <2>1, <2>2, <2>3, <2>4 DEF TypeInv, TypeOK
<1>6. CASE UNCHANGED vars
  BY <1>0, <1>6 DEF vars, chainVars, groupVars, TypeInv, TypeOK, TxHeld, GroupTypeOK
<1> QED BY <1>1, <1>3, <1>4, <1>5, <1>6, WorkType DEF Next

\* At the beginning nothing has been done.
LEMMA TypeInitially == Init => TypeInv
<1> SUFFICES ASSUME Init PROVE TypeInv
  OBVIOUS
<1>1. Idle \in State /\ Idle.at = "idle"
  BY DEF Idle, State
<1>2. GroupTypeOK
  BY DEF Init, GroupInit, GroupTypeOK, Row
<1>3. pos \in 0 .. Len(Loop) * Count
  BY LoopSteps, GroupAssumption DEF Init
<1>4. TxHeld
  BY <1>1 DEF TxHeld, Init
<1>5. /\ stage \in [Unit -> [Stage -> {"pending", "running", "ok", "failed"}]]
      /\ job \in [Unit -> [Stage -> {"waiting", "free", "running", "ok", "failed", "deleted"}]]
      /\ w \in [Worker -> State] /\ faults \in 0..MaxFaults
      /\ live \cup noted \cup excused \subseteq Worker
      /\ crashed \cup dropped \cup early \subseteq Unit /\ broken \in BOOLEAN
  <2>1. /\ stage = [u \in Unit |-> [s \in Stage |-> "pending"]]
        /\ job = [u \in Unit |-> [s \in Stage |-> "waiting"]]
    BY DEF Init
  <2>2. w \in [Worker -> State]
    <3> HIDE DEF Idle, State
    <3> QED BY <1>1 DEF Init
  <2>3. faults \in 0..MaxFaults
    BY BatchAssumption DEF Init
  <2>4. /\ live = {} /\ noted = {} /\ excused = {} /\ crashed = {} /\ dropped = {} /\ early = {}
        /\ broken = FALSE
    BY DEF Init
  <2>5. /\ stage \in [Unit -> [Stage -> {"pending", "running", "ok", "failed"}]]
        /\ job \in [Unit -> [Stage -> {"waiting", "free", "running", "ok", "failed", "deleted"}]]
    BY <2>1
  <2> QED BY <2>2, <2>3, <2>4, <2>5
<1> QED BY <1>2, <1>3, <1>4, <1>5 DEF TypeInv, TypeOK

\* The variables of Batch have their types: whoever commits has read the row.
THEOREM TypeCorrect == Spec => []TypeOK
<1>1. TypeInv => TypeOK
  BY DEF TypeInv
<1> QED BY <1>1, TypeInitially, TypeInductive, PTL DEF Spec

-----------------------------------------------------------------------------
(* Why nothing is left running: whoever stops seeing to a process or to a    *)
(* container has ended it before, or leaves it behind for a named cause.     *)

\* What a step of one worker leaves of another.
LEMMA OthersStay ==
    ASSUME TypeInv, NEW x \in Worker, Work(x) \/ Timeout(x) \/ Crash(x), NEW y \in Worker, y # x
    PROVE  w'[y].at = w[y].at /\ w'[y].fine = w[y].fine /\ w'[y].due = w[y].due
<1>0. /\ TypeOK /\ TxHeld /\ GroupTypeOK /\ w \in [Worker -> State] /\ x[1] \in Unit
  BY Parts DEF TypeInv, TypeOK
<1>1. ASSUME NEW fine \in BOOLEAN, Close(x, fine) PROVE w'[y] = w[y]
  BY <1>0, <1>1, CloseType
<1>2. ASSUME NEW at, NEW fine, Go(x, at, fine) PROVE w'[y] = w[y]
  BY <1>0, <1>2 DEF Go
<1>3. Fail(x) => w'[y] = w[y]
  BY <1>1, <1>2 DEF Fail
<1>4. CASE Handle(x)
  <2> DEFINE others == [w EXCEPT ![x] = Idle]
  <2>1. others \in [Worker -> State] /\ others[y] = w[y]
    BY <1>0, OthersType
  <2>2. CancelAll(x[1], others) \/ CancelHalf(x[1], others) \/ w' = others
    BY <1>4 DEF Handle
  <2> HIDE DEF others
  <2> QED BY <1>0, <2>1, <2>2, CancelType
<1>5. Abandon(x) => w'[y] = w[y]
  BY <1>2, <1>3 DEF Abandon
<1>6. CASE Crash(x)
  BY <1>0, <1>6 DEF Crash
<1>7. CASE Start(x)
  BY <1>0, <1>7 DEF Start
<1>8. CASE Record(x) \/ Timeout(x) \/ Finish(x) \/ Release(x)
  BY <1>1, <1>2, <1>3, <1>5, <1>8 DEF Record, Timeout, Finish, Release
<1>9. CASE CommitEnd(x) \/ MailEnd(x)
  BY <1>2, <1>9 DEF CommitEnd, MailEnd
<1>10. CASE CommitFailure(x) \/ MailFailure(x)
  <2>1. CASE w' = [w EXCEPT ![x].at = "failmail", ![x].due = Due(x, TRUE)]
    BY <1>0, <2>1
  <2> QED BY <1>1, <1>10, <2>1 DEF CommitFailure, MailFailure
<1> QED BY <1>4, <1>6, <1>7, <1>8, <1>9, <1>10 DEF Work

\* Where a worker can go.
LEMMA Goes ==
    ASSUME TypeInv, NEW x \in Worker
    PROVE  /\ \A at, fine : Go(x, at, fine) => w'[x].at = at /\ w'[x].fine = fine /\ w'[x].due = w[x].due
           /\ Fail(x) => \/ w'[x].at = "failing" /\ w'[x].fine = FALSE
                         \/ w'[x] = [Idle EXCEPT !.at = "handler"] /\ Close(x, FALSE)
           /\ Close(x, TRUE) => w'[x] = Idle
           /\ Close(x, FALSE) => w'[x] = [Idle EXCEPT !.at = "handler"]
<1>1. w \in [Worker -> State] /\ TypeOK
  BY DEF TypeInv, TypeOK
<1>2. ASSUME NEW at, NEW fine, Go(x, at, fine)
      PROVE  w'[x].at = at /\ w'[x].fine = fine /\ w'[x].due = w[x].due
  BY <1>1, <1>2 DEF Go, State
<1>3. /\ Close(x, TRUE) => w'[x] = Idle
      /\ Close(x, FALSE) => w'[x] = [Idle EXCEPT !.at = "handler"]
  BY <1>1, CloseType
<1> QED BY <1>2, <1>3 DEF Fail

\* Where nobody sees to a process or container any more.
Off == {"idle", "failing", "failmail", "handler"}

\* Whoever stops seeing to what it started has seen to its end, or is excused.
LEMMA LeavesNothing ==
    ASSUME TypeInv, NothingLeftRunning, NEW x \in Worker, Work(x) \/ Timeout(x) \/ Crash(x),
           x \in live', w'[x].at \in Off
    PROVE  x \in excused'
<1>0. /\ TypeOK /\ w \in [Worker -> State] /\ x[1] \in Unit
      /\ x \in live => x \in excused \/ w[x].at \notin Off
  BY Parts DEF TypeInv, TypeOK, NothingLeftRunning, Off
<1>1. ASSUME NEW at, NEW fine, Go(x, at, fine), at \notin Off PROVE FALSE
  BY <1>1, Goes
<1>2. CASE Start(x)
  <2>1. w'[x].at = "spawned"
    BY <1>0, <1>2 DEF Start, State
  <2> QED BY <2>1 DEF Off
<1>3. CASE Record(x) \/ Timeout(x)
  <2>1. ~\E fine : Go(x, "recorded", fine) \/ Go(x, "release", fine)
    BY <1>1 DEF Off
  <2> QED BY <1>3, <2>1 DEF Record, Timeout, Abandon
<1>4. CASE Finish(x)
  <2>1. ~\E fine : Go(x, "commit", fine) \/ Go(x, "release", fine)
    BY <1>1 DEF Off
  <2> QED BY <1>4, <2>1 DEF Finish
<1>5. CASE Release(x)
  BY <1>5 DEF Release
<1>6. CASE CommitEnd(x) \/ MailEnd(x)
  <2>1. ~\E fine : Go(x, "mail", fine) \/ Go(x, "release", fine)
    BY <1>1 DEF Off
  <2> QED BY <1>6, <2>1 DEF CommitEnd, MailEnd
<1>7. CASE CommitFailure(x) \/ MailFailure(x)
  <2>1. live' = live /\ excused' = excused /\ w[x].at \in {"failing", "failmail"}
    BY <1>7 DEF CommitFailure, MailFailure, chain, At
  <2> QED BY <1>0, <2>1 DEF Off
<1>8. CASE Handle(x)
  <2>1. live' \subseteq live /\ excused' = excused /\ w[x].at = "handler"
    BY <1>8 DEF Handle, At, CancelAll, CancelHalf
  <2> QED BY <1>0, <2>1 DEF Off
<1>9. CASE Crash(x)
  BY <1>9 DEF Crash
<1> QED BY <1>2, <1>3, <1>4, <1>5, <1>6, <1>7, <1>8, <1>9 DEF Work

\* What one worker does to the processes and containers of the others.
LEMMA LivesOn ==
    ASSUME TypeInv, [Next]_vars, NEW y \in Worker
    PROVE  \/ /\ y \in live' => y \in live
              /\ y \in excused => y \in excused'
              /\ w'[y].at = w[y].at
           \/ Work(y) \/ Timeout(y) \/ Crash(y)
<1>0. w \in [Worker -> State] /\ TypeOK
  BY DEF TypeInv, TypeOK
<1>1. CASE LoopStep \/ LoopFails \/ UNCHANGED vars
  BY <1>1 DEF LoopStep, LoopFails, vars, chainVars
<1>2. ASSUME NEW u \in Unit, Cancel(u)
      PROVE  live' \subseteq live /\ excused' = excused /\ w'[y].at = w[y].at
  <2>1. CancelAll(u, w) \/ CancelHalf(u, w)
    BY <1>2 DEF Cancel
  <2> QED BY <1>0, <1>2, <2>1, CancelType DEF Cancel
<1>3. ASSUME NEW x \in Worker, Work(x) \/ Timeout(x) \/ Crash(x), x # y
      PROVE  (y \in live' => y \in live) /\ excused \subseteq excused'
  <2>1. CASE Handle(x)
    BY <2>1 DEF Handle, CancelAll, CancelHalf
  <2>2. CASE ~Handle(x)
    <3>1. live' \subseteq live \cup {x}
      BY <1>3, <2>2, Zenon DEF Work, Timeout, Start, Record, Finish, Release, CommitEnd, MailEnd,
         CommitFailure, MailFailure, Crash, chain
    <3>2. Abandon(x) => excused \subseteq excused'
      BY DEF Abandon
    <3>3. excused \subseteq excused'
      BY <1>3, <2>2, <3>2 DEF Work, Timeout, Start, Record, Finish, Release, CommitEnd, MailEnd,
         CommitFailure, MailFailure, Crash, chain
    <3> QED BY <1>3, <3>1, <3>3
  <2> QED BY <2>1, <2>2
<1> QED BY <1>1, <1>2, <1>3, OthersStay DEF Next

(* A process or a container exists only while its worker sees to it, or was *)
(* left behind for a named cause, whatever fails and whoever cancels.       *)
THEOREM LeftTheorem == Spec => []NothingLeftRunning
<1>1. Init => NothingLeftRunning
  BY DEF Init, NothingLeftRunning
<1>2. TypeInv /\ NothingLeftRunning /\ [Next]_vars => NothingLeftRunning'
  <2> SUFFICES ASSUME TypeInv, NothingLeftRunning, [Next]_vars, NEW y \in live', w'[y].at \in Off
               PROVE  y \in excused'
    BY DEF NothingLeftRunning, Off
  <2>1. y \in Worker
    BY TypeInductive DEF TypeInv, TypeOK
  <2>2. CASE Work(y) \/ Timeout(y) \/ Crash(y)
    BY <2>1, <2>2, LeavesNothing
  <2>3. CASE /\ y \in live' => y \in live
             /\ y \in excused => y \in excused'
             /\ w'[y].at = w[y].at
    BY <2>3 DEF NothingLeftRunning, Off
  <2> QED BY <2>1, <2>2, <2>3, LivesOn
<1> QED BY <1>1, <1>2, TypeInitially, TypeInductive, PTL DEF Spec

-----------------------------------------------------------------------------
(* Why the stages keep their order: a job starts before the one it depends   *)
(* on has ended well only if RQ released it, and RQ releases only what is    *)
(* enqueued behind a deleted job, in a chain that was not complete.          *)

\* What is not enqueued waits.
NotYet == \A u \in Unit, s \in Stage : ~Enqueued(u, s) => job[u][s] = "waiting"

\* A job that starts has an idle worker.
Ready == \A u \in Unit, s \in Stage : job[u][s] \in {"waiting", "free"} => w[<<u, s>>].at = "idle"

DeletedEarly == \A u \in Unit, s \in Stage :
    job[u][s] = "deleted" => Complete(u) \/ u \in early
FreeEarly == \A u \in Unit, s \in Stage : job[u][s] = "free" => u \in early

OrderInv == TypeInv /\ NotYet /\ Ready /\ DeletedEarly /\ FreeEarly /\ OrderKept

\* Everything that can happen to a job.
JobStep(u, s) ==
    \/ job'[u][s] = job[u][s]
    \/ /\ job'[u][s] = "free" /\ ~Enqueued(u, s) /\ Enqueued(u, s)' /\ ~Complete(u)
       /\ \E k \in Needs(s) : job[u][k] = "deleted"
    \/ /\ job'[u][s] = "deleted" /\ Enqueued(u, s) /\ job[u][s] \notin {"ok", "failed"}
       /\ Complete(u) \/ u \in early'
    \/ job[u][s] = "running" /\ job'[u][s] \in {"ok", "failed"}
    \/ Start(<<u, s>>) /\ job'[u][s] = "running"

\* What one step may do to a job, to the position and to the early units.
LEMMA JobSteps ==
    ASSUME TypeInv, [Next]_vars
    PROVE  /\ \A u \in Unit, s \in Stage : JobStep(u, s)
           /\ pos' \in {pos, pos + 1} /\ early \subseteq early'
<1> DEFINE Goal == /\ \A u \in Unit, s \in Stage : JobStep(u, s)
                   /\ pos' \in {pos, pos + 1} /\ early \subseteq early'
<1> SUFFICES Goal
  OBVIOUS
<1>0. /\ TypeOK /\ w \in [Worker -> State]
      /\ job \in [Unit -> [Stage -> {"waiting", "free", "running", "ok", "failed", "deleted"}]]
  BY DEF TypeInv, TypeOK
<1>1. CASE LoopStep
  <2>1. early' = early
    BY <1>1 DEF LoopStep
  <2> QED BY <1>0, <1>1, <2>1, LoopJobs DEF JobStep
<1>2. CASE UNCHANGED <<job, pos, early>>
  BY <1>2 DEF JobStep
<1>3. CASE LoopFails \/ UNCHANGED vars
  BY <1>2, <1>3 DEF LoopFails, vars, chainVars
<1>4. ASSUME NEW u \in Unit, NEW workers \in [Worker -> State],
             CancelAll(u, workers) \/ CancelHalf(u, workers), UNCHANGED pos
      PROVE  Goal
  <2>1. /\ early' = IF Complete(u) THEN early ELSE early \cup {u}
        /\ \A v \in Unit, s \in Stage :
              \/ job'[v][s] = job[v][s]
              \/ /\ v = u /\ job'[v][s] = "deleted" /\ Enqueued(v, s)
                 /\ job[v][s] \notin {"ok", "failed"}
    BY <1>0, <1>4, CancelType
  <2>2. early \subseteq early' /\ (Complete(u) \/ u \in early')
    BY <2>1
  <2> QED BY <1>4, <2>1, <2>2 DEF JobStep
<1>5. ASSUME NEW u \in Unit, Cancel(u) PROVE Goal
  BY <1>0, <1>4, <1>5 DEF Cancel
<1>6. ASSUME NEW x \in Worker, Work(x) \/ Timeout(x) \/ Crash(x) PROVE Goal
  <2>0. x[1] \in Unit /\ x[2] \in Stage /\ x = <<x[1], x[2]>>
    BY Parts
  <2>1. ASSUME NEW fine \in BOOLEAN, Close(x, fine), UNCHANGED <<pos, early>> PROVE Goal
    <3>1. \A v \in Unit, s \in Stage :
            \/ job'[v][s] = job[v][s]
            \/ job[v][s] = "running" /\ job'[v][s] \in {"ok", "failed"}
      BY <1>0, <2>0, <2>1, CloseType
    <3> QED BY <2>1, <3>1 DEF JobStep
  <2>2. CASE Start(x)
    <3>1. /\ job' = [job EXCEPT ![x[1]][x[2]] = "running"] /\ UNCHANGED <<pos, early>>
      BY <2>2 DEF Start, rest
    <3>2. \A v \in Unit, s \in Stage :
            \/ job'[v][s] = job[v][s]
            \/ <<v, s>> = x /\ job'[v][s] = "running"
      BY <1>0, <2>0, <3>1
    <3> QED BY <2>2, <3>1, <3>2 DEF JobStep
  <2>3. CASE Handle(x)
    <3> DEFINE others == [w EXCEPT ![x] = Idle]
    <3>1. others \in [Worker -> State] /\ UNCHANGED pos
      BY <1>0, <2>3, OthersType DEF Handle
    <3>2. \/ CancelAll(x[1], others) \/ CancelHalf(x[1], others)
          \/ UNCHANGED <<job, pos, early>>
      BY <2>3 DEF Handle
    <3> HIDE DEF others
    <3> QED BY <1>2, <1>4, <2>0, <3>1, <3>2
  <2>4. CASE Crash(x)
    <3>1. UNCHANGED <<pos, early>>
      BY <2>4 DEF Crash
    <3> QED BY <1>0, <2>4, <3>1, CrashType DEF JobStep
  <2>5. CASE (Work(x) \/ Timeout(x)) /\ ~Start(x) /\ ~Handle(x)
    <3>1. UNCHANGED <<pos, early>>
      BY <2>5, Zenon DEF Work, Timeout, Record, Finish, Release, CommitEnd, MailEnd,
         CommitFailure, MailFailure, rest, chain
    <3>2. UNCHANGED job \/ \E fine \in BOOLEAN : Close(x, fine)
      BY <2>5, Zenon DEF Work, Timeout, Record, Finish, Release, CommitEnd, MailEnd,
         CommitFailure, MailFailure, Abandon, Fail, Go
    <3> QED BY <1>2, <2>1, <3>1, <3>2
  <2> QED BY <1>6, <2>2, <2>3, <2>4, <2>5
<1> HIDE DEF Goal
<1> QED BY <1>1, <1>3, <1>5, <1>6 DEF Next

\* What ended well, did.
LEMMA OkStays ==
    ASSUME TypeInv, NotYet, [Next]_vars, NEW u \in Unit, NEW s \in Stage, job[u][s] = "ok"
    PROVE  job'[u][s] = "ok"
<1>1. JobStep(u, s)
  BY JobSteps
<1>2. ~Start(<<u, s>>)
  BY DEF Start, Startable
<1>3. Enqueued(u, s)
  BY DEF NotYet
<1> QED BY <1>1, <1>2, <1>3 DEF JobStep

\* A worker stays idle until its job starts.
LEMMA StaysIdle ==
    ASSUME TypeInv, [Next]_vars, NEW y \in Worker
    PROVE  /\ w[y].at = "idle" => w'[y].at = "idle" \/ Start(y)
           /\ w'[y].at \in {"spawned", "recorded"} => w[y].at \in {"spawned", "recorded"} \/ Start(y)
<1>0. w \in [Worker -> State] /\ TypeOK
  BY DEF TypeInv, TypeOK
<1>1. CASE w'[y].at = w[y].at
  BY <1>1
<1>2. ASSUME NEW fine \in BOOLEAN, Close(y, fine) PROVE w'[y].at \in {"idle", "handler"}
  BY <1>0, <1>2, CloseType DEF Idle
<1>3. CASE Crash(y)
  BY <1>0, <1>3, CrashType DEF Idle
<1>4. CASE Handle(y)
  <2> DEFINE others == [w EXCEPT ![y] = Idle]
  <2>1. others \in [Worker -> State] /\ others[y].at = "idle"
    BY <1>0, OthersType DEF Idle
  <2>2. y[1] \in Unit /\ (CancelAll(y[1], others) \/ CancelHalf(y[1], others) \/ w' = others)
    BY <1>4, Parts DEF Handle
  <2> HIDE DEF others
  <2>3. w'[y].at = "idle"
    BY <1>0, <2>1, <2>2, CancelType
  <2> QED BY <1>4, <2>3 DEF Handle, At
<1>5. Fail(y) => w'[y].at \in {"failing", "idle", "handler"}
  <2>1. Go(y, "failing", FALSE) => w'[y].at = "failing"
    BY Goes
  <2> QED BY <1>2, <2>1 DEF Fail
<1>6. CASE (Work(y) \/ Timeout(y)) /\ ~Start(y) /\ ~Handle(y)
  <2>1. w[y].at # "idle"
    BY <1>6 DEF Work, Timeout, Record, Finish, Release, CommitEnd, MailEnd, CommitFailure,
         MailFailure, At
  <2>2. ASSUME w'[y].at \in {"spawned", "recorded"} PROVE w[y].at \in {"spawned", "recorded"}
    <3>1. ~(\E fine \in BOOLEAN : Close(y, fine)) /\ ~Fail(y)
      BY <1>2, <1>5, <2>2
    <3>2. ASSUME NEW at \in {"commit", "mail", "release"}, NEW fine, Go(y, at, fine) PROVE FALSE
      BY <2>2, <3>2, Goes
    <3>3. ~(w' = [w EXCEPT ![y].at = "failmail", ![y].due = Due(y, TRUE)])
      BY <1>0, <2>2 DEF State
    <3>4. Record(y)
      BY <1>6, <3>1, <3>2, <3>3 DEF Work, Timeout, Record, Finish, Release, CommitEnd, MailEnd,
         CommitFailure, MailFailure, Abandon
    <3> QED BY <3>4 DEF Record, At
  <2> QED BY <2>1, <2>2
<1> QED BY <1>1, <1>3, <1>4, <1>6, LivesOn DEF Work

\* Every step keeps the order, and what it rests on.
LEMMA OrderInductive == OrderInv /\ [Next]_vars => OrderInv'
<1> SUFFICES ASSUME OrderInv, [Next]_vars PROVE OrderInv'
  OBVIOUS
<1>0. /\ TypeInv /\ TypeInv' /\ TypeOK /\ NotYet
      /\ \A u \in Unit, s \in Stage : JobStep(u, s) /\ <<u, s>> \in Worker
      /\ pos' \in {pos, pos + 1} /\ early \subseteq early'
  BY TypeInductive, JobSteps DEF OrderInv, TypeInv, Worker
<1>1. ASSUME NEW u \in Unit, NEW s \in Stage
      PROVE  (Enqueued(u, s) => Enqueued(u, s)') /\ (Complete(u) => Complete(u)')
  BY <1>0, DoneStays DEF Enqueued, Complete, Recorded
<1>2. ASSUME NEW u \in Unit, NEW s \in Stage, Start(<<u, s>>)
      PROVE  Enqueued(u, s) /\ (job[u][s] = "free" => u \in early)
             /\ (job[u][s] = "free" \/ \A k \in Needs(s) : job[u][k] = "ok")
  BY <1>2 DEF Start, Startable, OrderInv, FreeEarly
<1>3. NotYet'
  <2> SUFFICES ASSUME NEW u \in Unit, NEW s \in Stage, ~Enqueued(u, s)'
               PROVE  job'[u][s] = "waiting"
    BY DEF NotYet
  <2>1. ~Enqueued(u, s) /\ job[u][s] = "waiting"
    BY <1>0, <1>1 DEF NotYet
  <2> QED BY <1>0, <1>2, <2>1 DEF JobStep
<1>4. DeletedEarly'
  <2> SUFFICES ASSUME NEW u \in Unit, NEW s \in Stage, job'[u][s] = "deleted"
               PROVE  Complete(u)' \/ u \in early'
    BY DEF DeletedEarly
  <2>1. JobStep(u, s)
    BY <1>0
  <2> QED BY <1>0, <1>1, <2>1 DEF JobStep, OrderInv, DeletedEarly
<1>5. FreeEarly'
  <2> SUFFICES ASSUME NEW u \in Unit, NEW s \in Stage, job'[u][s] = "free"
               PROVE  u \in early'
    BY DEF FreeEarly
  <2>1. JobStep(u, s) /\ \A k \in Needs(s) : k \in Stage
    BY <1>0, BatchAssumption DEF Needs
  <2>2. (\E k \in Needs(s) : job[u][k] = "deleted") => Complete(u) \/ u \in early
    BY <2>1 DEF OrderInv, DeletedEarly
  <2> QED BY <1>0, <2>1, <2>2 DEF JobStep, OrderInv, FreeEarly
<1>6. Ready'
  <2> SUFFICES ASSUME NEW u \in Unit, NEW s \in Stage, job'[u][s] \in {"waiting", "free"}
               PROVE  w'[<<u, s>>].at = "idle"
    BY DEF Ready
  <2>1. JobStep(u, s) /\ <<u, s>> \in Worker
    BY <1>0
  <2>2. job[u][s] \in {"waiting", "free"}
    BY <1>0, <2>1 DEF JobStep, NotYet
  <2>3. w[<<u, s>>].at = "idle"
    BY <2>2 DEF OrderInv, Ready
  <2>4. ~Start(<<u, s>>)
    <3>1. job' = [job EXCEPT ![u][s] = "running"] => job'[u][s] = "running"
      BY <1>0 DEF TypeOK
    <3> QED BY <3>1 DEF Start
  <2> QED BY <1>0, <2>1, <2>3, <2>4, StaysIdle
<1>7. OrderKept'
  <2> SUFFICES ASSUME NEW u \in Unit, NEW s \in Stage, w'[<<u, s>>].at \in {"spawned", "recorded"},
                      u \notin early', NEW k \in Needs(s)
               PROVE  job'[u][k] = "ok"
    BY DEF OrderKept
  <2>1. k \in Stage /\ u \notin early /\ <<u, s>> \in Worker
    BY <1>0, BatchAssumption DEF Needs
  <2>2. w[<<u, s>>].at \in {"spawned", "recorded"} \/ Start(<<u, s>>)
    BY <1>0, <2>1, StaysIdle
  <2>3. job[u][k] = "ok"
    BY <1>2, <2>1, <2>2 DEF OrderInv, OrderKept
  <2> QED BY <1>0, <2>1, <2>3, OkStays
<1> QED BY <1>0, <1>3, <1>4, <1>5, <1>6, <1>7 DEF OrderInv

\* At the beginning nothing has started.
LEMMA OrderInitially == Init => OrderInv
<1> SUFFICES ASSUME Init PROVE OrderInv
  OBVIOUS
<1>1. TypeInv
  BY TypeInitially
<1>2. \A u \in Unit, s \in Stage : job[u][s] = "waiting" /\ w[<<u, s>>] = Idle
  BY DEF Init, Worker
<1>3. \A u \in Unit, s \in Stage : w[<<u, s>>].at = "idle"
  <2>1. Idle.at = "idle"
    BY DEF Idle
  <2> QED BY <1>2, <2>1
<1>4. NotYet /\ DeletedEarly /\ FreeEarly
  BY <1>2 DEF NotYet, DeletedEarly, FreeEarly
<1>5. Ready /\ OrderKept
  BY <1>3 DEF Ready, OrderKept
<1> QED BY <1>1, <1>4, <1>5 DEF OrderInv

(* No stage runs behind one that did not end well, whatever the workers do  *)
(* while the create job still enqueues the chain; only a cancellation that   *)
(* comes before the chain is complete lets one slip through.                 *)
THEOREM OrderTheorem == Spec => []OrderKept
<1>1. OrderInv => OrderKept
  BY DEF OrderInv
<1> QED BY <1>1, OrderInitially, OrderInductive, PTL DEF Spec

-----------------------------------------------------------------------------
(* Why the summary is not early: as long as no unit is counted twice, the    *)
(* row and whatever was read of it name no more units than were counted, so  *)
(* that the last unit's own commit is the one that makes the summary due;    *)
(* and a unit that was counted is over for good.                             *)

CountedUnits == {u \in Unit : counted[u] > 0}
Full == Twice \/ CountedUnits = Unit

NotAbove == ~Twice =>
    /\ group # Gone => group.finished <= Cardinality(CountedUnits)
    /\ \A x \in Worker : tx[x] # Gone => tx[x].finished <= Cardinality(CountedUnits)

\* The workers that still have to send the summary.
Pending(x) ==
    \/ w[x].at = "mail"
    \/ w[x].at = "failmail" /\ "summary" \in w[x].due

SentFull == /\ \A x \in Worker : Pending(x) => Full
            /\ summaries > 0 => Full

\* Only the user stage counts a success; whoever counts a failure has failed.
Roles == \A x \in Worker :
    /\ w[x].at \in {"commit", "mail"} => x[2] = "user"
    /\ w[x].at \in {"failing", "failmail"} => ~w[x].fine

\* The job of a stage has started, or never will.
Used(u, s) == job[u][s] \notin {"waiting", "free"}

\* A stage that will not change the fate of its unit any more.
Settled(u, s) ==
    \/ ~w[<<u, s>>].fine /\ w[<<u, s>>].at \in {"release", "failing", "failmail"}
    \/ stage[u][s] = "failed" /\ w[<<u, s>>].at \in {"idle", "handler"} /\ Used(u, s)
    \/ s = "user" /\ w[<<u, s>>].at \in {"mail", "release"}
    \/ s = "user" /\ stage[u][s] = "ok" /\ w[<<u, s>>].at = "idle" /\ Used(u, s)

SureOver == \A u \in CountedUnits : u \in crashed \/ \E s \in Stage : Settled(u, s)

SummaryInv == OrderInv /\ NotAbove /\ SentFull /\ Roles /\ SureOver

\* The set of counted units is finite, and grows by the unit that is counted.
LEMMA CountGrows ==
    ASSUME TypeOK, NEW x \in Worker, NEW f, Commit(x, f)
    PROVE  /\ CountedUnits' = CountedUnits \cup {x[1]}
           /\ counted' = [counted EXCEPT ![x[1]] = @ + 1] /\ counted'[x[1]] = counted[x[1]] + 1
           /\ Twice => Twice'
           /\ ~Twice' => x[1] \notin CountedUnits
                         /\ Cardinality(CountedUnits') = Cardinality(CountedUnits) + 1
<1>0. /\ x[1] \in Unit /\ counted \in [Unit -> Nat]
      /\ counted' = [counted EXCEPT ![x[1]] = @ + 1]
  BY Parts DEF TypeOK, GroupTypeOK, Commit
<1>1. \A u \in Unit : counted'[u] = IF u = x[1] THEN counted[u] + 1 ELSE counted[u]
  BY <1>0
<1>2. CountedUnits' = CountedUnits \cup {x[1]}
  BY <1>0, <1>1 DEF CountedUnits
<1>3. Twice => Twice'
  BY <1>0, <1>1 DEF Twice
<1>4. ~Twice' => x[1] \notin CountedUnits
  BY <1>0, <1>1 DEF Twice, CountedUnits
<1>5. IsFiniteSet(CountedUnits)
  <2>1. IsFiniteSet(Unit)
    BY FS_Interval, GroupAssumption DEF Unit
  <2> QED BY <2>1, FS_Subset DEF CountedUnits
<1>6. ~Twice' => Cardinality(CountedUnits') = Cardinality(CountedUnits) + 1
  BY <1>2, <1>4, <1>5, FS_AddElement
<1> QED BY <1>0, <1>1, <1>2, <1>3, <1>4, <1>6

\* When as many units are counted as there are, all are.
LEMMA AllCounted ==
    ASSUME NEW C \in SUBSET Unit
    PROVE  /\ Cardinality(C) \in Nat /\ Cardinality(C) <= Count
           /\ Cardinality(C) = Count => C = Unit
<1>1. IsFiniteSet(Unit) /\ Cardinality(Unit) = Count
  BY FS_Interval, GroupAssumption DEF Unit
<1> QED BY <1>1, FS_Subset, FS_CardinalityType

\* What one step may do to the row of the group.
LEMMA RowSteps ==
    ASSUME TypeInv, [Next]_vars
    PROVE  \/ UNCHANGED groupVars
           \/ \E x \in Worker : Refresh(x)
           \/ \E x \in Worker : (CommitEnd(x) /\ Commit(x, FALSE)) \/ (CommitFailure(x) /\ Commit(x, TRUE))
           \/ \E x \in Worker : Summary /\ Pending(x) /\ (MailEnd(x) \/ MailFailure(x))
           \/ \E x \in Worker : Crash(x)
<1>1. CASE LoopStep \/ LoopFails \/ UNCHANGED vars \/ \E u \in Unit : Cancel(u)
  BY <1>1 DEF LoopStep, LoopFails, vars, Cancel
<1>2. ASSUME NEW x \in Worker, Fail(x) PROVE Refresh(x) \/ UNCHANGED groupVars
  BY <1>2 DEF Fail
<1>3. ASSUME NEW x \in Worker, Abandon(x) PROVE Refresh(x) \/ UNCHANGED groupVars
  BY <1>2, <1>3 DEF Abandon
<1>4. ASSUME NEW x \in Worker, MailEnd(x) \/ MailFailure(x)
      PROVE  UNCHANGED groupVars \/ (Summary /\ Pending(x) /\ (MailEnd(x) \/ MailFailure(x)))
  <2>1. MailEnd(x) => Summary /\ w[x].at = "mail"
    BY DEF MailEnd, At
  <2>2. MailFailure(x) =>
           \/ UNCHANGED groupVars
           \/ Summary /\ w[x].at = "failmail" /\ "summary" \in w[x].due
    BY DEF MailFailure, At
  <2> QED BY <1>4, <2>1, <2>2 DEF Pending
<1>5. ASSUME NEW x \in Worker, CommitEnd(x) \/ CommitFailure(x)
      PROVE  (CommitEnd(x) /\ Commit(x, FALSE)) \/ (CommitFailure(x) /\ Commit(x, TRUE))
  BY <1>5 DEF CommitEnd, CommitFailure
<1>6. ASSUME NEW x \in Worker, Start(x) \/ Handle(x) PROVE UNCHANGED groupVars
  BY <1>6 DEF Start, Handle
<1>7. ASSUME NEW x \in Worker, Record(x) \/ Timeout(x) \/ Finish(x) \/ Release(x)
      PROVE  Refresh(x) \/ UNCHANGED groupVars
  BY <1>2, <1>3, <1>7 DEF Record, Timeout, Finish, Release
<1> QED BY <1>1, <1>4, <1>5, <1>6, <1>7 DEF Next, Work

\* A unit once counted stays counted.
LEMMA CountStays ==
    ASSUME TypeInv, [Next]_vars
    PROVE  /\ Twice => Twice'
           /\ CountedUnits \subseteq CountedUnits'
           /\ Full => Full'
<1>0. TypeOK /\ TypeOK' /\ CountedUnits' \subseteq Unit
  BY TypeInductive DEF TypeInv, CountedUnits
<1>1. ASSUME UNCHANGED counted PROVE (Twice => Twice') /\ CountedUnits \subseteq CountedUnits'
  BY <1>1 DEF Twice, CountedUnits
<1>2. (Twice => Twice') /\ CountedUnits \subseteq CountedUnits'
  <2>1. UNCHANGED counted \/ \E x \in Worker : \E f \in BOOLEAN : Commit(x, f)
    BY RowSteps DEF Refresh, Summary, groupVars, Crash
  <2> QED BY <1>0, <1>1, <2>1, CountGrows
<1> QED BY <1>0, <1>2 DEF Full

\* The moves of one worker, as far as its stage and its job are concerned.
Moves(x) ==
    \/ Start(x) /\ w'[x].at = "spawned" /\ w'[x].due = w[x].due
    \/ /\ w[x].at \in {"spawned", "recorded"} /\ UNCHANGED <<stage, job>> /\ w'[x].due = w[x].due
       /\ \/ w'[x].at = "recorded"
          \/ x[2] = "user" /\ w'[x].at = "commit" /\ w[x].at = "recorded"
          \/ w'[x].at = "release"
    \/ /\ w[x].at \in {"spawned", "recorded", "release"} /\ UNCHANGED <<stage, job>>
       /\ Refresh(x) /\ w'[x].at = "failing" /\ ~w'[x].fine /\ w'[x].due = w[x].due
    \/ w[x].at = "recorded" /\ x[2] = "stack" /\ Close(x, TRUE)
    \/ w[x].at \in {"spawned", "recorded", "release"} /\ Close(x, FALSE) /\ UNCHANGED counted
    \/ w[x].at = "release" /\ w[x].fine /\ Close(x, TRUE) /\ UNCHANGED counted
    \/ /\ CommitEnd(x) /\ w[x].at = "commit" /\ UNCHANGED <<stage, job>> /\ w'[x].fine
       /\ w'[x].at = "release" \/ (w'[x].at = "mail" /\ "summary" \in Due(x, FALSE))
    \/ w[x].at = "mail" /\ w'[x].at = "release" /\ UNCHANGED <<stage, job>>
    \/ CommitFailure(x) /\ w[x].at = "failing" /\ Close(x, FALSE)
    \/ /\ CommitFailure(x) /\ w[x].at = "failing" /\ UNCHANGED <<stage, job>>
       /\ w'[x].at = "failmail" /\ w'[x].fine = w[x].fine /\ w'[x].due = Due(x, TRUE)
    \/ w[x].at = "failmail" /\ Close(x, FALSE)
    \/ Handle(x) /\ w[x].at = "handler" /\ w'[x].at = "idle"
    \/ Crash(x) /\ w'[x] = Idle

\* A worker makes no other moves.
LEMMA WorkerMoves ==
    ASSUME TypeInv, NEW x \in Worker, Work(x) \/ Timeout(x) \/ Crash(x)
    PROVE  Moves(x)
<1>0. TypeOK /\ w \in [Worker -> State]
  BY DEF TypeInv, TypeOK
<1>1. \A at, fine : Go(x, at, fine) =>
         w'[x].at = at /\ w'[x].fine = fine /\ w'[x].due = w[x].due /\ UNCHANGED <<stage, job>>
  <2>1. \A at, fine : Go(x, at, fine) => UNCHANGED <<stage, job>>
    BY DEF Go
  <2> QED BY <2>1, Goes
<1>2. CASE Start(x)
  <2>1. w'[x].at = "spawned" /\ w'[x].due = w[x].due
    BY <1>0, <1>2 DEF Start, State
  <2> QED BY <1>2, <2>1 DEF Moves
<1>3. ASSUME Fail(x), w[x].at \in {"spawned", "recorded", "release"} PROVE Moves(x)
  <2>1. CASE Refresh(x) /\ Go(x, "failing", FALSE)
    BY <1>1, <1>3, <2>1 DEF Moves
  <2>2. CASE Close(x, FALSE) /\ UNCHANGED groupVars
    BY <1>3, <2>2 DEF Moves, groupVars
  <2> QED BY <1>3, <2>1, <2>2 DEF Fail
<1>4. ASSUME w[x].at \in {"spawned", "recorded"},
             \E fine \in BOOLEAN : Go(x, "recorded", fine) \/ Go(x, "release", fine)
      PROVE  Moves(x)
  BY <1>1, <1>4 DEF Moves
<1>5. ASSUME Abandon(x), w[x].at \in {"spawned", "recorded"} PROVE Moves(x)
  <2>1. CASE Fail(x)
    BY <1>3, <1>5, <2>1
  <2>2. CASE Go(x, "release", FALSE)
    BY <1>4, <1>5, <2>2
  <2> QED BY <1>5, <2>1, <2>2 DEF Abandon
<1>6. CASE Record(x) \/ Timeout(x)
  <2>1. w[x].at \in {"spawned", "recorded"}
    BY <1>6 DEF Record, Timeout, At
  <2>2. Go(x, "recorded", TRUE) \/ Abandon(x)
    BY <1>6 DEF Record, Timeout
  <2> QED BY <1>4, <1>5, <2>1, <2>2
<1>7. CASE Finish(x)
  <2>1. w[x].at = "recorded"
    BY <1>7 DEF Finish, At
  <2>2. CASE IsStack(x) /\ Close(x, TRUE)
    BY <2>1, <2>2 DEF IsStack, Moves
  <2>3. CASE x[2] = "user" /\ Go(x, "commit", TRUE)
    BY <1>1, <2>1, <2>3 DEF Moves
  <2>4. ASSUME NEW fine \in BOOLEAN, Go(x, "release", fine) PROVE Moves(x)
    BY <1>4, <2>1, <2>4
  <2> QED BY <1>7, <2>2, <2>3, <2>4 DEF Finish
<1>8. CASE Release(x)
  <2>1. w[x].at = "release"
    BY <1>8 DEF Release, At
  <2>2. CASE w[x].fine /\ Close(x, TRUE) /\ UNCHANGED groupVars
    BY <2>1, <2>2 DEF Moves, groupVars
  <2> QED BY <1>3, <1>8, <2>1, <2>2 DEF Release
<1>9. CASE CommitEnd(x)
  <2>1. w[x].at = "commit" /\ Go(x, IF Due(x, FALSE) = {} THEN "release" ELSE "mail", TRUE)
    BY <1>9 DEF CommitEnd, At
  <2>2. Due(x, FALSE) \subseteq {"summary"}
    BY DEF Due
  <2> QED BY <1>1, <1>9, <2>1, <2>2 DEF Moves
<1>10. CASE MailEnd(x)
  <2>1. w[x].at = "mail" /\ \E fine : Go(x, "release", fine)
    BY <1>10 DEF MailEnd, At
  <2> QED BY <1>1, <2>1 DEF Moves
<1>11. CASE CommitFailure(x)
  <2>1. w[x].at = "failing"
    BY <1>11 DEF CommitFailure, At
  <2>2. CASE w' = [w EXCEPT ![x].at = "failmail", ![x].due = Due(x, TRUE)] /\ UNCHANGED <<stage, job>>
    <3>1. w'[x].at = "failmail" /\ w'[x].fine = w[x].fine /\ w'[x].due = Due(x, TRUE)
      BY <1>0, <2>2 DEF State
    <3> QED BY <1>11, <2>1, <2>2, <3>1 DEF Moves
  <2> QED BY <1>11, <2>1, <2>2 DEF CommitFailure, Moves
<1>12. CASE MailFailure(x)
  BY <1>12 DEF MailFailure, At, Moves
<1>13. CASE Handle(x)
  <2> DEFINE others == [w EXCEPT ![x] = Idle]
  <2>1. others \in [Worker -> State] /\ others[x].at = "idle"
    BY <1>0, OthersType DEF Idle
  <2>2. x[1] \in Unit /\ (CancelAll(x[1], others) \/ CancelHalf(x[1], others) \/ w' = others)
    BY <1>13, Parts DEF Handle
  <2> HIDE DEF others
  <2>3. w'[x].at = "idle"
    BY <1>0, <2>1, <2>2, CancelType
  <2> QED BY <1>13, <2>3 DEF Handle, At, Moves
<1>14. CASE Crash(x)
  BY <1>0, <1>14, CrashType DEF Moves
<1> QED BY <1>2, <1>6, <1>7, <1>8, <1>9, <1>10, <1>11, <1>12, <1>13, <1>14 DEF Work

\* Nobody but its own worker moves a stage; a cancellation may fail it.
LEMMA StageSteps ==
    ASSUME TypeInv, [Next]_vars, NEW y \in Worker
    PROVE  \/ /\ w'[y].at = w[y].at /\ w'[y].fine = w[y].fine /\ w'[y].due = w[y].due
              /\ \/ stage'[y[1]][y[2]] = stage[y[1]][y[2]]
                 \/ /\ stage[y[1]][y[2]] \in {"pending", "running"}
                    /\ stage'[y[1]][y[2]] = "failed"
           \/ (Work(y) \/ Timeout(y) \/ Crash(y)) /\ Moves(y)
<1>0. /\ TypeOK /\ w \in [Worker -> State] /\ y[1] \in Unit /\ y[2] \in Stage /\ y = <<y[1], y[2]>>
      /\ stage \in [Unit -> [Stage -> {"pending", "running", "ok", "failed"}]]
  BY Parts DEF TypeInv, TypeOK
<1>1. CASE LoopStep \/ LoopFails \/ UNCHANGED vars
  BY <1>1 DEF LoopStep, LoopFails, vars, chainVars
<1>2. ASSUME NEW u \in Unit, Cancel(u)
      PROVE  /\ w'[y].at = w[y].at /\ w'[y].fine = w[y].fine /\ w'[y].due = w[y].due
             /\ \/ stage'[y[1]][y[2]] = stage[y[1]][y[2]]
                \/ /\ stage[y[1]][y[2]] \in {"pending", "running"}
                   /\ stage'[y[1]][y[2]] = "failed"
  <2>1. CancelAll(u, w) \/ CancelHalf(u, w)
    BY <1>2 DEF Cancel
  <2> QED BY <1>0, <2>1, CancelType
<1>3. ASSUME NEW x \in Worker, Work(x) \/ Timeout(x) \/ Crash(x), x # y
      PROVE  \/ stage'[y[1]][y[2]] = stage[y[1]][y[2]]
             \/ /\ stage[y[1]][y[2]] \in {"pending", "running"}
                /\ stage'[y[1]][y[2]] = "failed"
  <2>0. x[1] \in Unit /\ x[2] \in Stage /\ x = <<x[1], x[2]>>
    BY Parts
  <2>1. CASE \E fine \in BOOLEAN : Close(x, fine)
    <3>1. PICK fine \in BOOLEAN : Close(x, fine)
      BY <2>1
    <3>2. \A u \in Unit, s \in Stage : <<u, s>> # x => stage'[u][s] = stage[u][s]
      BY <1>0, <3>1, CloseType
    <3>3. <<y[1], y[2]>> # x
      BY <1>0, <1>3
    <3> QED BY <1>0, <3>2, <3>3
  <2>2. CASE UNCHANGED stage
    BY <2>2
  <2>3. CASE Handle(x)
    <3> DEFINE others == [w EXCEPT ![x] = Idle]
    <3>1. others \in [Worker -> State]
      BY <1>0, OthersType
    <3>2. CancelAll(x[1], others) \/ CancelHalf(x[1], others) \/ UNCHANGED stage
      BY <2>3 DEF Handle
    <3> HIDE DEF others
    <3> QED BY <1>0, <2>0, <3>1, <3>2, CancelType
  <2>4. CASE Start(x)
    <3>1. stage' = [stage EXCEPT ![x[1]][x[2]] = "running"]
      BY <2>4 DEF Start
    <3> QED BY <1>0, <1>3, <2>0, <3>1
  <2>5. CASE Crash(x)
    BY <2>5 DEF Crash
  <2>6. Moves(x)
    BY <1>3, WorkerMoves
  <2> QED BY <2>1, <2>2, <2>3, <2>4, <2>5, <2>6 DEF Moves
<1> QED BY <1>1, <1>2, <1>3, OthersStay, WorkerMoves DEF Next

\* Every step keeps the row from naming more units than were counted.
LEMMA NotAboveInductive ==
    ASSUME TypeInv, NotAbove, [Next]_vars
    PROVE  NotAbove'
<1> DEFINE n == Cardinality(CountedUnits)
<1>0. /\ TypeOK /\ GroupTypeOK /\ n \in Nat /\ n' \in Nat /\ tx \in [Worker -> Row \cup {Gone}]
      /\ \A x \in Worker : w[x].at \in {"commit", "failing"} => tx[x] \in Row
  <2>1. CountedUnits \subseteq Unit /\ CountedUnits' \subseteq Unit
    BY DEF CountedUnits
  <2> QED BY <2>1, AllCounted DEF TypeInv, TypeOK, GroupTypeOK, TxHeld
<1>1. SUFFICES ASSUME ~Twice'
               PROVE  /\ group' # Gone => group'.finished <= n'
                      /\ \A x \in Worker : tx'[x] # Gone => tx'[x].finished <= n'
  BY DEF NotAbove
<1>2. /\ ~Twice
      /\ group # Gone => group.finished <= n
      /\ \A x \in Worker : tx[x] # Gone => tx[x].finished <= n
  BY <1>1, CountStays DEF NotAbove
<1>3. UNCHANGED counted => n' = n
  BY DEF CountedUnits
<1>4. CASE UNCHANGED groupVars
  BY <1>2, <1>3, <1>4 DEF groupVars
<1>5. ASSUME NEW x \in Worker, Refresh(x) PROVE NotAbove'
  <2>1. tx' = [tx EXCEPT ![x] = group] /\ group' = group /\ n' = n /\ group # Gone
    BY <1>3, <1>5 DEF Refresh
  <2> HIDE DEF n
  <2>2. \A y \in Worker : tx'[y] # Gone => tx'[y].finished <= n'
    BY <1>0, <1>2, <2>1
  <2> QED BY <1>2, <2>1, <2>2 DEF NotAbove, n
<1>6. ASSUME NEW x \in Worker, NEW f \in BOOLEAN, Commit(x, f), tx[x] \in Row PROVE NotAbove'
  <2>1. n' = n + 1
    BY <1>0, <1>1, <1>6, CountGrows
  <2>2. tx' = [tx EXCEPT ![x] = Gone] /\ group'.finished = tx[x].finished + 1
    BY <1>6 DEF Commit, Counted
  <2>3. tx[x] # Gone /\ \A y \in Worker : tx[y] # Gone => tx[y].finished \in Nat
    BY <1>0, <1>6, GroupAssumption DEF Row
  <2> HIDE DEF n
  <2>4. group'.finished <= n'
    BY <1>0, <1>2, <2>1, <2>2, <2>3
  <2>5. \A y \in Worker : tx'[y] # Gone => tx'[y].finished <= n'
    <3> SUFFICES ASSUME NEW y \in Worker, tx'[y] # Gone PROVE tx'[y].finished <= n'
      OBVIOUS
    <3>1. tx'[y] = tx[y]
      BY <1>0, <2>2
    <3> QED BY <1>0, <1>2, <2>1, <2>3, <3>1
  <2> QED BY <2>4, <2>5 DEF NotAbove, n
<1>7. CASE Summary
  BY <1>2, <1>3, <1>7 DEF Summary
<1>8. ASSUME NEW x \in Worker, Crash(x) PROVE NotAbove'
  <2>1. tx' = [tx EXCEPT ![x] = Gone] /\ group' = group /\ n' = n
    BY <1>3, <1>8 DEF Crash
  <2> HIDE DEF n
  <2> QED BY <1>0, <1>2, <2>1 DEF NotAbove, n
<1>9. ASSUME NEW x \in Worker, CommitEnd(x) \/ CommitFailure(x) PROVE tx[x] \in Row
  BY <1>0, <1>9 DEF CommitEnd, CommitFailure, At
<1> HIDE DEF n
<1> QED BY <1>1, <1>4, <1>5, <1>6, <1>7, <1>8, <1>9, RowSteps DEF NotAbove, n

\* A commit that makes the summary due counts the last unit.
LEMMA DueIsFull ==
    ASSUME TypeInv, NotAbove, [Next]_vars, NEW x \in Worker, NEW f \in BOOLEAN, Commit(x, f),
           "summary" \in Due(x, f), w[x].at \in {"commit", "failing"}
    PROVE  /\ Full'
           /\ ~Twice' => CountedUnits # Unit
<1> SUFFICES ASSUME ~Twice' PROVE CountedUnits' = Unit /\ CountedUnits # Unit
  BY DEF Full
<1>1. tx[x] \in Row /\ tx[x].finished \in Nat /\ tx[x] # Gone /\ TypeOK /\ TypeOK'
  BY TypeInductive, GroupAssumption DEF TypeInv, TxHeld, Row
<1>2. tx[x].finished + 1 = Count
  <2>1. Counted(x, f).finished = tx[x].finished + 1
    BY DEF Counted
  <2> QED BY <2>1 DEF Due
<1>3. /\ Cardinality(CountedUnits') = Cardinality(CountedUnits) + 1
      /\ x[1] \notin CountedUnits /\ ~Twice
  BY <1>1, CountGrows
<1>4. tx[x].finished <= Cardinality(CountedUnits)
  BY <1>1, <1>3 DEF NotAbove
<1>5. CountedUnits \subseteq Unit /\ CountedUnits' \subseteq Unit
  BY DEF CountedUnits
<1>6. /\ Cardinality(CountedUnits) \in Nat
      /\ Cardinality(CountedUnits') \in Nat /\ Cardinality(CountedUnits') <= Count
      /\ Cardinality(CountedUnits') = Count => CountedUnits' = Unit
  BY <1>5, AllCounted
<1>7. CountedUnits' = Unit
  BY <1>1, <1>2, <1>3, <1>4, <1>6, GroupAssumption
<1> QED BY <1>3, <1>7, Parts

\* A worker that ended its stage is idle, or calls the handler.
LEMMA Closes ==
    ASSUME TypeInv, NEW x \in Worker, NEW fine \in BOOLEAN, Close(x, fine)
    PROVE  /\ w'[x].at = IF fine THEN "idle" ELSE "handler"
           /\ w'[x].at \in {"idle", "handler"}
<1>1. w'[x] = IF fine THEN Idle ELSE [Idle EXCEPT !.at = "handler"]
  BY CloseType DEF TypeInv
<1> QED BY <1>1 DEF Idle

\* The summary becomes due by a commit alone.
LEMMA PendingSteps ==
    ASSUME TypeInv, [Next]_vars, NEW y \in Worker, Pending(y)'
    PROVE  \/ Pending(y)
           \/ /\ CommitEnd(y) \/ CommitFailure(y)
              /\ \E f \in BOOLEAN : Commit(y, f) /\ "summary" \in Due(y, f)
<1>1. w'[y].at = "mail" \/ (w'[y].at = "failmail" /\ "summary" \in w'[y].due)
  BY DEF Pending
<1>2. CASE w'[y].at = w[y].at /\ w'[y].due = w[y].due
  BY <1>1, <1>2 DEF Pending
<1>3. CASE Moves(y)
  <2>1. \A fine \in BOOLEAN : Close(y, fine) => w'[y].at \in {"idle", "handler"}
    BY Closes
  <2>2. CASE CommitEnd(y) /\ "summary" \in Due(y, FALSE)
    BY <2>2 DEF CommitEnd
  <2>3. CASE CommitFailure(y) /\ w'[y].due = Due(y, TRUE) /\ w'[y].at = "failmail"
    BY <1>1, <2>3 DEF CommitFailure
  <2>4. Idle.at = "idle"
    BY DEF Idle
  <2> QED BY <1>1, <1>3, <2>1, <2>2, <2>3, <2>4 DEF Moves
<1> QED BY <1>2, <1>3, StageSteps

\* Every step keeps the summary from being due before all units are counted.
LEMMA SentFullInductive ==
    ASSUME TypeInv, NotAbove, SentFull, [Next]_vars
    PROVE  SentFull'
<1>1. ASSUME NEW y \in Worker, Pending(y)' PROVE Full'
  <2>1. CASE Pending(y)
    BY <2>1, CountStays DEF SentFull
  <2>2. ASSUME CommitEnd(y) \/ CommitFailure(y), NEW f \in BOOLEAN, Commit(y, f), "summary" \in Due(y, f)
        PROVE  Full'
    BY <2>2, DueIsFull DEF CommitEnd, CommitFailure, At
  <2> QED BY <1>1, <2>1, <2>2, PendingSteps
<1>2. ASSUME summaries' > 0 PROVE Full'
  <2>1. CASE summaries' = summaries
    BY <1>2, <2>1, CountStays DEF SentFull
  <2>2. CASE \E x \in Worker : Pending(x)
    BY <2>2, CountStays DEF SentFull
  <2> QED BY <2>1, <2>2, RowSteps DEF groupVars, Refresh, Commit, Crash
<1> QED BY <1>1, <1>2 DEF SentFull

\* Every step keeps who may be where.
LEMMA RolesInductive ==
    ASSUME TypeInv, Roles, [Next]_vars
    PROVE  Roles'
<1> SUFFICES ASSUME NEW y \in Worker
             PROVE  /\ w'[y].at \in {"commit", "mail"} => y[2] = "user"
                    /\ w'[y].at \in {"failing", "failmail"} => ~w'[y].fine
  BY DEF Roles
<1>1. /\ w[y].at \in {"commit", "mail"} => y[2] = "user"
      /\ w[y].at \in {"failing", "failmail"} => ~w[y].fine
  BY DEF Roles
<1>2. CASE w'[y].at = w[y].at /\ w'[y].fine = w[y].fine
  BY <1>1, <1>2
<1>3. CASE Moves(y)
  <2>1. \A fine \in BOOLEAN : Close(y, fine) => w'[y].at \in {"idle", "handler"}
    BY Closes
  <2>2. Idle.at = "idle"
    BY DEF Idle
  <2> QED BY <1>1, <1>3, <2>1, <2>2 DEF Moves
<1> QED BY <1>2, <1>3, StageSteps

\* The job of a stage that is at work is used, and stays so.
LEMMA UsedStays ==
    ASSUME OrderInv, [Next]_vars, NEW u \in Unit, NEW s \in Stage
    PROVE  /\ Used(u, s) => Used(u, s)'
           /\ w[<<u, s>>].at # "idle" => Used(u, s)
           /\ Used(u, s) => ~Start(<<u, s>>)
<1>1. TypeInv /\ NotYet /\ Ready
  BY DEF OrderInv
<1>2. w[<<u, s>>].at # "idle" => Used(u, s)
  BY <1>1 DEF Ready, Used
<1>3. Used(u, s) => ~Start(<<u, s>>)
  BY DEF Start, Startable, Used
<1>4. JobStep(u, s)
  BY <1>1, JobSteps
<1>5. Used(u, s) => Used(u, s)'
  BY <1>1, <1>4 DEF JobStep, Used, NotYet
<1> QED BY <1>2, <1>3, <1>5

\* A settled stage stays settled, unless its worker dies.
LEMMA SettledStays ==
    ASSUME OrderInv, Roles, [Next]_vars, NEW u \in Unit, NEW s \in Stage, Settled(u, s)
    PROVE  Settled(u, s)' \/ u \in crashed'
<1> DEFINE y == <<u, s>>
<1>0. /\ TypeInv /\ y \in Worker /\ y[1] = u /\ y[2] = s
      /\ Used(u, s) => Used(u, s)' /\ ~Start(y)
      /\ w[y].at # "idle" => Used(u, s)
  BY UsedStays DEF OrderInv, Worker
<1>1. Used(u, s) /\ Used(u, s)'
  BY <1>0, UsedStays DEF Settled
<1>2. CASE w'[y].at = w[y].at /\ w'[y].fine = w[y].fine
           /\ (stage'[u][s] = stage[u][s] \/ stage[u][s] \in {"pending", "running"})
  BY <1>1, <1>2 DEF Settled
<1>3. CASE Moves(y)
  <2>1. \A fine \in BOOLEAN : Close(y, fine) =>
           /\ w'[y].at = IF fine THEN "idle" ELSE "handler"
           /\ stage'[u][s] = IF fine THEN "ok" ELSE "failed"
    BY <1>0, Closes, CloseType DEF TypeInv
  <2>2. CASE Close(y, FALSE)
    BY <1>1, <2>1, <2>2 DEF Settled
  <2>3. CASE ~w[y].fine /\ w[y].at \in {"release", "failing", "failmail"}
    <3>1. \/ Close(y, FALSE) \/ Crash(y)
          \/ ~w'[y].fine /\ w'[y].at \in {"failing", "failmail"}
      BY <1>0, <1>1, <1>3, <2>3 DEF Moves
    <3> QED BY <1>0, <2>2, <3>1 DEF Settled, Crash
  <2>4. CASE stage[u][s] = "failed" /\ w[y].at \in {"idle", "handler"}
    <3>1. Crash(y) \/ (Handle(y) /\ w'[y].at = "idle")
      BY <1>0, <1>1, <1>3, <2>4 DEF Moves
    <3>2. Handle(y) => stage'[u][s] = "failed"
      <4> SUFFICES ASSUME Handle(y) PROVE stage'[u][s] = "failed"
        OBVIOUS
      <4> DEFINE others == [w EXCEPT ![y] = Idle]
      <4>1. others \in [Worker -> State] /\ TypeOK
        BY <1>0, OthersType DEF TypeInv
      <4>2. CancelAll(u, others) \/ CancelHalf(u, others) \/ UNCHANGED stage
        BY <1>0 DEF Handle
      <4> HIDE DEF others
      <4> QED BY <2>4, <4>1, <4>2, CancelType
    <3> QED BY <1>0, <1>1, <3>1, <3>2 DEF Settled, Crash
  <2>5. CASE s = "user" /\ w[y].at \in {"mail", "release"}
    <3>1. \/ Close(y, TRUE) \/ Close(y, FALSE) \/ Crash(y)
          \/ w'[y].at = "release"
          \/ ~w'[y].fine /\ w'[y].at = "failing"
      BY <1>0, <1>1, <1>3, <2>5 DEF Moves
    <3> QED BY <1>0, <1>1, <2>1, <2>2, <2>5, <3>1 DEF Settled, Crash
  <2>6. CASE s = "user" /\ stage[u][s] = "ok" /\ w[y].at = "idle"
    <3>1. Crash(y)
      BY <1>0, <1>1, <1>3, <2>6 DEF Moves
    <3> QED BY <1>0, <3>1 DEF Crash
  <2> QED BY <2>3, <2>4, <2>5, <2>6 DEF Settled
<1> HIDE DEF y
<1> QED BY <1>0, <1>2, <1>3, StageSteps DEF y

\* Every step keeps the fate of the counted units.
LEMMA SureOverInductive ==
    ASSUME OrderInv, Roles, SureOver, [Next]_vars
    PROVE  SureOver'
<1>0. TypeInv /\ TypeOK /\ TypeInv'
  BY TypeInductive DEF OrderInv, TypeInv
<1>1. crashed \subseteq crashed'
  <2>1. ASSUME NEW x \in Worker, Work(x) \/ Timeout(x) PROVE crashed' = crashed
    BY <2>1, Zenon DEF Work, Timeout, Start, Record, Finish, Release, CommitEnd, MailEnd,
       CommitFailure, MailFailure, Handle, rest, chain
  <2>2. ASSUME NEW x \in Worker, Crash(x) PROVE crashed \subseteq crashed'
    BY <2>2 DEF Crash
  <2>3. CASE LoopStep \/ LoopFails \/ UNCHANGED vars \/ \E u \in Unit : Cancel(u)
    BY <2>3 DEF LoopStep, LoopFails, vars, chainVars, Cancel
  <2> QED BY <2>1, <2>2, <2>3 DEF Next
<1>2. ASSUME NEW u \in CountedUnits PROVE u \in crashed' \/ \E s \in Stage : Settled(u, s)'
  <2>1. u \in Unit /\ (u \in crashed \/ \E s \in Stage : Settled(u, s))
    BY DEF CountedUnits, SureOver
  <2> QED BY <1>1, <2>1, SettledStays
<1>3. ASSUME NEW x \in Worker, CommitEnd(x) \/ CommitFailure(x)
      PROVE  \E s \in Stage : Settled(x[1], s)'
  <2>0. x[1] \in Unit /\ x[2] \in Stage /\ x = <<x[1], x[2]>>
    BY Parts
  <2>1. /\ w[x].at \in {"commit", "failing"} /\ Moves(x)
        /\ w[x].at = "commit" => x[2] = "user"
        /\ w[x].at = "failing" => ~w[x].fine
    BY <1>0, <1>3, WorkerMoves DEF Work, CommitEnd, CommitFailure, At, Roles
  <2>2. Used(x[1], x[2])' /\ ~Start(x)
    BY <2>0, <2>1, UsedStays
  <2>3. CASE Close(x, FALSE)
    <3>1. w'[x].at = "handler" /\ stage'[x[1]][x[2]] = "failed"
      BY <1>0, <2>3, Closes, CloseType
    <3> QED BY <2>0, <2>2, <3>1 DEF Settled
  <2>4. ~Crash(x)
    <3>1. crashed' = crashed => ~Crash(x) \/ x[1] \in crashed
      BY DEF Crash
    <3>2. Crash(x) => faults' = faults + 1 /\ faults \in Nat
      BY <1>0, BatchAssumption DEF Crash, Fault, TypeOK
    <3>3. faults' = faults
      BY <1>3 DEF CommitEnd, CommitFailure
    <3> QED BY <3>2, <3>3
  <2>5. \/ Close(x, FALSE)
        \/ x[2] = "user" /\ w'[x].at \in {"release", "mail"}
        \/ ~w'[x].fine /\ w'[x].at = "failmail"
    BY <2>1, <2>2, <2>4 DEF Moves
  <2> QED BY <2>0, <2>3, <2>5 DEF Settled
<1>4. CASE UNCHANGED counted
  <2>1. CountedUnits' = CountedUnits
    BY <1>4 DEF CountedUnits
  <2> QED BY <1>2, <2>1 DEF SureOver
<1>5. ASSUME NEW x \in Worker, NEW f \in BOOLEAN, Commit(x, f), CommitEnd(x) \/ CommitFailure(x)
      PROVE  SureOver'
  <2>1. CountedUnits' = CountedUnits \cup {x[1]}
    BY <1>0, <1>5, CountGrows
  <2> QED BY <1>2, <1>3, <1>5, <2>1 DEF SureOver
<1> QED BY <1>0, <1>4, <1>5, RowSteps DEF groupVars, Refresh, Summary, Crash

\* Every step keeps what makes the summary right.
LEMMA SummaryInductive == SummaryInv /\ [Next]_vars => SummaryInv'
<1> SUFFICES ASSUME SummaryInv, [Next]_vars PROVE SummaryInv'
  OBVIOUS
<1>1. OrderInv /\ TypeInv /\ NotAbove /\ SentFull /\ Roles /\ SureOver
  BY DEF SummaryInv, OrderInv
<1> QED BY <1>1, OrderInductive, NotAboveInductive, SentFullInductive, RolesInductive,
           SureOverInductive DEF SummaryInv

\* At the beginning nothing is counted and nothing is due.
LEMMA SummaryInitially == Init => SummaryInv
<1> SUFFICES ASSUME Init PROVE SummaryInv
  OBVIOUS
<1>1. OrderInv
  BY OrderInitially
<1>2. \A x \in Worker : w[x].at = "idle" /\ tx[x] = Gone
  BY DEF Init, GroupInit, Idle
<1>3. CountedUnits = {} /\ summaries = 0 /\ group.finished = 0
  BY DEF Init, GroupInit, CountedUnits
<1>4. Cardinality({}) = 0
  BY FS_EmptySet
<1>5. NotAbove
  BY <1>2, <1>3, <1>4 DEF NotAbove
<1>6. SentFull /\ Roles
  BY <1>2, <1>3 DEF SentFull, Roles, Pending
<1>7. SureOver
  BY <1>3 DEF SureOver
<1> QED BY <1>1, <1>5, <1>6, <1>7 DEF SummaryInv

(* The summary never says that all allocations have finished while one is    *)
(* still at work: only when a unit was counted twice can it be early.  This  *)
(* holds although the workers count without a lock, and although a commit    *)
(* inserts the row again that another worker's summary had deleted.          *)
THEOREM SummaryTheorem == Spec => []SummaryNotEarly
<1>1. SummaryInv => SummaryNotEarly
  <2> SUFFICES ASSUME SummaryInv, summaries > 0, ~Twice, NEW u \in Unit PROVE Over(u)
    BY DEF SummaryNotEarly
  <2>1. u \in CountedUnits
    BY DEF SummaryInv, SentFull, Full
  <2>2. u \in crashed \/ \E s \in Stage : Settled(u, s)
    BY <2>1 DEF SummaryInv, SureOver
  <2>3. "user" \in Stage
    BY BatchAssumption
  <2> QED BY <2>2, <2>3 DEF Over, Settled
<1> QED BY <1>1, SummaryInitially, SummaryInductive, PTL DEF Spec

-----------------------------------------------------------------------------
(* Why nothing is counted twice, and one summary at most is sent.  The last  *)
(* unit to be counted is the only one to find the row one short of the       *)
(* number of units.  And of a unit to which nothing but its own stages       *)
(* happens, one stage is at work at a time, none after it was counted except *)
(* the user stage that removes its container.                                *)

OnlyOne == ~Twice =>
    /\ \A x, y \in Worker : Pending(x) /\ Pending(y) => x = y
    /\ (\E x \in Worker : Pending(x)) => summaries = 0
    /\ summaries <= 1

\* Nothing has failed yet, and the chain was complete before any cancellation.
Calm(u) == faults = 0 /\ u \notin early

\* A stage runs after those it needs, and its worker is busy just as long.
InTurn(u) == \A s \in Stage :
    /\ job[u][s] \in {"running", "ok", "failed"} => \A k \in Needs(s) : job[u][k] = "ok"
    /\ w[<<u, s>>].at \notin {"idle", "handler"} <=> job[u][s] = "running"
    /\ w[<<u, s>>].at = "handler" => job[u][s] = "failed"

\* Whoever counts the unit is the first to do so; its container is still there.
FirstToCount(u) == \A s \in Stage :
    /\ w[<<u, s>>].at \in {"spawned", "recorded", "commit", "failing"} => counted[u] = 0
    /\ w[<<u, s>>].at = "release" =>
          \/ counted[u] = 0
          \/ w[<<u, s>>].fine /\ s = "user" /\ <<u, s>> \in live
    /\ w[<<u, s>>].at \in {"spawned", "recorded", "commit", "mail"} => <<u, s>> \in live

\* What a counted unit has behind it.
Past(u, s) ==
    \/ job[u][s] = "failed"
    \/ job[u][s] = "running" /\ w[<<u, s>>].at \in {"failmail", "mail", "release"}
    \/ s = "user" /\ job[u][s] = "ok"

Steady(u) ==
    /\ InTurn(u) /\ FirstToCount(u)
    /\ counted[u] > 0 => \E s \in Stage : Past(u, s)
    /\ counted[u] <= 1

CountInv == SummaryInv /\ OnlyOne /\ \A u \in Unit : Calm(u) => Steady(u)

\* Every step keeps the summary the only one.
LEMMA OnlyOneInductive ==
    ASSUME SummaryInv, OnlyOne, [Next]_vars
    PROVE  OnlyOne'
<1>0. TypeInv /\ NotAbove /\ SentFull /\ TypeOK /\ tx \in [Worker -> Row \cup {Gone}] /\ summaries \in Nat
  BY DEF SummaryInv, OrderInv, TypeInv, TypeOK, GroupTypeOK
<1>1. SUFFICES ASSUME ~Twice'
               PROVE  /\ \A x, y \in Worker : Pending(x)' /\ Pending(y)' => x = y
                      /\ (\E x \in Worker : Pending(x)') => summaries' = 0
                      /\ summaries' <= 1
  BY DEF OnlyOne
<1>2. /\ ~Twice
      /\ \A x, y \in Worker : Pending(x) /\ Pending(y) => x = y
      /\ (\E x \in Worker : Pending(x)) => summaries = 0
      /\ summaries <= 1
  BY <1>0, <1>1, CountStays DEF OnlyOne
<1>3. ASSUME NEW x \in Worker, CommitEnd(x) \/ CommitFailure(x), NEW f \in BOOLEAN, Commit(x, f),
             "summary" \in Due(x, f)
      PROVE  /\ \A y \in Worker : Pending(y)' => y = x
             /\ summaries' = 0
  <2>1. w[x].at \in {"commit", "failing"} /\ tx[x] \in Row /\ tx' = [tx EXCEPT ![x] = Gone]
    BY <1>0, <1>3 DEF CommitEnd, CommitFailure, At, TypeInv, TxHeld, Commit
  <2>2. ~Full
    BY <1>0, <1>1, <1>2, <1>3, <2>1, DueIsFull DEF Full
  <2>3. summaries = 0 /\ summaries' = summaries /\ \A y \in Worker : ~Pending(y)
    BY <1>0, <1>3, <2>2 DEF SentFull, Commit
  <2>4. ASSUME NEW y \in Worker, Pending(y)' PROVE y = x
    <3>1. CommitEnd(y) \/ CommitFailure(y)
      BY <1>0, <2>3, <2>4, PendingSteps
    <3>2. tx' = [tx EXCEPT ![y] = Gone]
      BY <3>1 DEF CommitEnd, CommitFailure, Commit
    <3> QED BY <1>0, <2>1, <3>2, GroupAssumption
  <2> QED BY <2>3, <2>4
<1>4. CASE \A y \in Worker : Pending(y)' => Pending(y)
  <2>1. CASE summaries' = summaries
    BY <1>2, <1>4, <2>1
  <2>2. ASSUME NEW x \in Worker, Summary, Pending(x), MailEnd(x) \/ MailFailure(x)
        PROVE  summaries' <= 1 /\ \A y \in Worker : ~Pending(y)'
    <3>1. summaries' = 1
      BY <1>2, <2>2 DEF Summary
    <3>2. ~Pending(x)'
      <4>1. Moves(x) /\ w[x].at \in {"mail", "failmail"}
        BY <1>0, <2>2, WorkerMoves DEF Work, MailEnd, MailFailure, At
      <4>2. w'[x].at \notin {"mail", "failmail"}
        <5>1. \A fine \in BOOLEAN : Close(x, fine) => w'[x].at \in {"idle", "handler"}
          BY <1>0, Closes
        <5>2. \A fine : Go(x, "release", fine) => w'[x].at = "release"
          BY <1>0, Goes
        <5>3. MailEnd(x) => w'[x].at = "release"
          BY <5>2 DEF MailEnd
        <5>4. MailFailure(x) => Close(x, FALSE)
          BY DEF MailFailure
        <5> QED BY <2>2, <5>1, <5>3, <5>4
      <4> QED BY <4>2 DEF Pending
    <3> QED BY <1>2, <1>4, <2>2, <3>1, <3>2
  <2> QED BY <1>0, <1>2, <1>4, <2>1, <2>2, RowSteps DEF groupVars, Refresh, Commit, Crash
<1> QED BY <1>0, <1>1, <1>3, <1>4, PendingSteps

\* The stage whose turn it is.
Front(u, s) == job[u][s] # "ok" /\ \A k \in Needs(s) : job[u][k] = "ok"

\* While it is the turn of one stage the others have ended well or wait.
LEMMA OneWorks ==
    ASSUME TypeOK, NEW u \in Unit, InTurn(u), NEW s \in Stage, Front(u, s), NEW k \in Stage, k # s
    PROVE  /\ job[u][k] \notin {"running", "failed"} /\ w[<<u, k>>].at = "idle"
           /\ ~Past(u, k)
           /\ job[u][k] = "ok" => s \notin Needs(k)
<1>1. /\ Needs("stack") = {} /\ Needs("net") = {"stack"} /\ Needs("user") = {"net"}
      /\ Stage = {"stack", "net", "user"}
  BY BatchAssumption DEF Needs
<1>2. \A j \in Stage : job[u][j] \in {"running", "ok", "failed"} => \A d \in Needs(j) : job[u][d] = "ok"
  BY DEF InTurn
<1>3. /\ job[u][k] \notin {"running", "failed"}
      /\ k = "user" => job[u][k] # "ok"
      /\ job[u][k] = "ok" => s \notin Needs(k)
  BY <1>1, <1>2 DEF Front
<1>4. w[<<u, k>>].at = "idle"
  BY <1>3 DEF InTurn
<1> QED BY <1>3, <1>4 DEF Past

\* A step of the stage whose turn it is.
LEMMA SteadyFrom ==
    ASSUME TypeOK, NEW u \in Unit, Steady(u), NEW s \in Stage, Front(u, s),
           \A k \in Stage : k # s => job'[u][k] = job[u][k] /\ w'[<<u, k>>].at = w[<<u, k>>].at,
           job'[u][s] \in {"running", "ok", "failed"},
           w'[<<u, s>>].at \notin {"idle", "handler"} <=> job'[u][s] = "running",
           w'[<<u, s>>].at = "handler" => job'[u][s] = "failed",
           w'[<<u, s>>].at \in {"spawned", "recorded", "commit", "failing"} => counted'[u] = 0,
           w'[<<u, s>>].at = "release" =>
              \/ counted'[u] = 0
              \/ w'[<<u, s>>].fine /\ s = "user" /\ <<u, s>> \in live',
           w'[<<u, s>>].at \in {"spawned", "recorded", "commit", "mail"} => <<u, s>> \in live',
           counted'[u] > 0 => Past(u, s)',
           counted'[u] <= 1
    PROVE  Steady(u)'
<1>0. s \notin Needs(s) /\ \A k \in Stage : Needs(k) \subseteq Stage
  BY BatchAssumption DEF Needs
<1>1. ASSUME NEW k \in Stage, k # s
      PROVE  /\ w'[<<u, k>>].at = "idle" /\ job'[u][k] \notin {"running", "failed"}
             /\ job'[u][k] = "ok" => \A d \in Needs(k) : job'[u][d] = "ok"
  <2>1. /\ job[u][k] \notin {"running", "failed"} /\ w[<<u, k>>].at = "idle"
        /\ job[u][k] = "ok" => s \notin Needs(k)
    BY <1>1, OneWorks DEF Steady
  <2>2. job[u][k] = "ok" => \A d \in Needs(k) : job[u][d] = "ok"
    BY DEF Steady, InTurn
  <2> QED BY <1>0, <1>1, <2>1, <2>2
<1>2. \A k \in Needs(s) : job'[u][k] = "ok"
  BY <1>0 DEF Front
<1>3. InTurn(u)'
  <2> SUFFICES ASSUME NEW k \in Stage
               PROVE  /\ job'[u][k] \in {"running", "ok", "failed"} => \A d \in Needs(k) : job'[u][d] = "ok"
                      /\ w'[<<u, k>>].at \notin {"idle", "handler"} <=> job'[u][k] = "running"
                      /\ w'[<<u, k>>].at = "handler" => job'[u][k] = "failed"
    BY DEF InTurn
  <2>1. CASE k = s
    BY <1>2, <2>1
  <2>2. CASE k # s
    BY <1>1, <2>2
  <2> QED BY <2>1, <2>2
<1>4. FirstToCount(u)'
  <2> SUFFICES ASSUME NEW k \in Stage
               PROVE  /\ w'[<<u, k>>].at \in {"spawned", "recorded", "commit", "failing"} => counted'[u] = 0
                      /\ w'[<<u, k>>].at = "release" =>
                            \/ counted'[u] = 0
                            \/ w'[<<u, k>>].fine /\ k = "user" /\ <<u, k>> \in live'
                      /\ w'[<<u, k>>].at \in {"spawned", "recorded", "commit", "mail"} =>
                            <<u, k>> \in live'
    BY DEF FirstToCount
  <2>1. CASE k = s
    BY <2>1
  <2>2. CASE k # s
    BY <1>1, <2>2
  <2> QED BY <2>1, <2>2
<1> QED BY <1>3, <1>4 DEF Steady

\* What can happen to a calm unit: nothing, or a step of one of its stages.
LEMMA CalmSteps ==
    ASSUME OrderInv, [Next]_vars, NEW u \in Unit, Calm(u)'
    PROVE  /\ Calm(u) /\ faults' = 0
           /\ \/ /\ \A s \in Stage : /\ job'[u][s] = job[u][s]
                                     /\ w'[<<u, s>>].at = w[<<u, s>>].at
                                     /\ w'[<<u, s>>].fine = w[<<u, s>>].fine
                                     /\ <<u, s>> \in live' <=> <<u, s>> \in live
                 /\ counted'[u] = counted[u]
              \/ \E s \in Stage : Work(<<u, s>>)
<1> DEFINE Still == /\ \A s \in Stage : /\ job'[u][s] = job[u][s]
                                        /\ w'[<<u, s>>].at = w[<<u, s>>].at
                                        /\ w'[<<u, s>>].fine = w[<<u, s>>].fine
                                        /\ <<u, s>> \in live' <=> <<u, s>> \in live
                    /\ counted'[u] = counted[u]
<1>0. /\ TypeInv /\ TypeOK /\ w \in [Worker -> State] /\ counted \in [Unit -> Nat]
      /\ \A s \in Stage : <<u, s>> \in Worker
      /\ faults \in Nat /\ faults' = 0 /\ u \notin early'
      /\ job \in [Unit -> [Stage -> {"waiting", "free", "running", "ok", "failed", "deleted"}]]
  BY BatchAssumption DEF OrderInv, TypeInv, TypeOK, GroupTypeOK, Worker, Calm
<1>1. ~Fault
  BY <1>0 DEF Fault
<1>2. u \notin early
  BY <1>0, JobSteps
<1>3. ASSUME NEW x \in Worker, Work(x), x[1] # u PROVE Still
  <2>0. x[1] \in Unit /\ x[2] \in Stage /\ x = <<x[1], x[2]>> /\ \A s \in Stage : <<u, s>> # x
    BY <1>3, Parts
  <2>1. \A s \in Stage : w'[<<u, s>>].at = w[<<u, s>>].at /\ w'[<<u, s>>].fine = w[<<u, s>>].fine
    BY <1>0, <1>3, <2>0, OthersStay
  <2>2. CASE Handle(x)
    <3> DEFINE others == [w EXCEPT ![x] = Idle]
    <3>1. others \in [Worker -> State] /\ UNCHANGED counted
      BY <1>0, <2>2, OthersType DEF Handle, groupVars
    <3>2. CancelAll(x[1], others) \/ CancelHalf(x[1], others) \/ UNCHANGED <<job, live>>
      BY <2>2 DEF Handle
    <3> HIDE DEF others
    <3>3. /\ \A s \in Stage : job'[u][s] = job[u][s]
          /\ live' \subseteq live /\ \A y \in live \ live' : y[1] # u
      BY <1>0, <1>3, <2>0, <3>1, <3>2, CancelType
    <3>4. \A s \in Stage : <<u, s>> \in live' <=> <<u, s>> \in live
      BY <3>3
    <3> QED BY <2>1, <3>1, <3>3, <3>4
  <2>3. CASE Start(x)
    <3>1. job' = [job EXCEPT ![x[1]][x[2]] = "running"] /\ live' = live \cup {x} /\ UNCHANGED counted
      BY <2>3 DEF Start, groupVars
    <3>2. \A s \in Stage : job'[u][s] = job[u][s]
      BY <1>0, <1>3, <2>0, <3>1
    <3> QED BY <2>0, <2>1, <3>1, <3>2
  <2>4. CASE ~Handle(x) /\ ~Start(x)
    <3>1. live' \subseteq live /\ live \subseteq live' \cup {x}
      BY <1>3, <2>4, Zenon DEF Work, Record, Finish, Release, CommitEnd, MailEnd,
         CommitFailure, MailFailure, chain
    <3>2. UNCHANGED job \/ \E fine \in BOOLEAN : Close(x, fine)
      BY <1>3, <2>4, Zenon DEF Work, Record, Finish, Release, CommitEnd, MailEnd,
         CommitFailure, MailFailure, Abandon, Fail, Go
    <3>3. \A s \in Stage : job'[u][s] = job[u][s]
      BY <1>0, <2>0, <3>2, CloseType
    <3>4. UNCHANGED counted \/ \E f \in BOOLEAN : Commit(x, f)
      <4>1. Fail(x) => UNCHANGED counted
        BY DEF Fail, Refresh, groupVars
      <4>2. Abandon(x) => UNCHANGED counted
        BY <4>1 DEF Abandon, groupVars
      <4>3. Record(x) \/ Finish(x) \/ Release(x) => UNCHANGED counted
        BY <4>1, <4>2 DEF Record, Finish, Release, Refresh, groupVars
      <4>4. MailEnd(x) \/ MailFailure(x) => UNCHANGED counted
        BY DEF MailEnd, MailFailure, Summary, groupVars
      <4>5. CommitEnd(x) \/ CommitFailure(x) => \E f \in BOOLEAN : Commit(x, f)
        BY DEF CommitEnd, CommitFailure
      <4> QED BY <1>3, <2>4, <4>3, <4>4, <4>5 DEF Work
    <3>5. counted'[u] = counted[u]
      BY <1>0, <1>3, <2>0, <3>4 DEF Commit
    <3> QED BY <2>0, <2>1, <3>1, <3>3, <3>5
  <2> QED BY <2>2, <2>3, <2>4
<1>4. ASSUME LoopStep PROVE Still
  <2>1. \A s \in Stage : job'[u][s] = job[u][s]
    <3>1. \A s \in Stage : job'[u][s] # "free"
      BY <1>0, OrderInductive DEF OrderInv, FreeEarly
    <3> QED BY <1>0, <1>4, <3>1, LoopJobs
  <2>2. w' = w /\ live' = live /\ counted' = counted
    BY <1>4 DEF LoopStep, groupVars
  <2>3. \A s \in Stage : <<u, s>> \in live' <=> <<u, s>> \in live
    BY <2>2
  <2>4. \A s \in Stage : w'[<<u, s>>].at = w[<<u, s>>].at /\ w'[<<u, s>>].fine = w[<<u, s>>].fine
    BY <2>2
  <2> QED BY <2>1, <2>2, <2>3, <2>4
<1>5. ASSUME UNCHANGED vars PROVE Still
  <2>1. w' = w /\ live' = live /\ counted' = counted /\ job' = job
    BY <1>5 DEF vars, chainVars, groupVars
  <2>2. \A s \in Stage : <<u, s>> \in live' <=> <<u, s>> \in live
    BY <2>1
  <2>3. \A s \in Stage : w'[<<u, s>>].at = w[<<u, s>>].at /\ w'[<<u, s>>].fine = w[<<u, s>>].fine
    BY <2>1
  <2> QED BY <2>1, <2>2, <2>3
<1>6. ~LoopFails /\ (\A v \in Unit : ~Cancel(v)) /\ (\A x \in Worker : ~Timeout(x) /\ ~Crash(x))
  BY <1>1 DEF LoopFails, Cancel, Timeout, Crash
<1>7. ASSUME NEW x \in Worker, Work(x), x[1] = u PROVE \E s \in Stage : Work(<<u, s>>)
  BY <1>7, Parts
<1>8. faults = 0
  <2>1. faults' = faults \/ faults' = faults + 1
    <3>1. ASSUME NEW x \in Worker, Work(x) PROVE faults' = faults
      BY <1>1, <3>1, Zenon DEF Work, Start, Record, Finish, Release, CommitEnd, MailEnd,
         CommitFailure, MailFailure, Handle
    <3> QED BY <1>6, <3>1 DEF Next, LoopStep, vars, chainVars
  <2> QED BY <1>0, <2>1
<1>9. Still \/ \E s \in Stage : Work(<<u, s>>)
  BY <1>3, <1>4, <1>5, <1>6, <1>7 DEF Next
<1> QED BY <1>0, <1>2, <1>8, <1>9 DEF Calm

\* A stage of a calm unit, whose turn it is, keeps the unit steady.
LEMMA SteadyWork ==
    ASSUME OrderInv, Roles, [Next]_vars, NEW u \in Unit, Calm(u), Calm(u)', Steady(u),
           NEW s \in Stage, Work(<<u, s>>), ~Handle(<<u, s>>)
    PROVE  Steady(u)'
<1> DEFINE x == <<u, s>>
           Good == /\ job'[u][s] \in {"running", "ok", "failed"}
                   /\ w'[x].at \notin {"idle", "handler"} <=> job'[u][s] = "running"
                   /\ w'[x].at = "handler" => job'[u][s] = "failed"
                   /\ w'[x].at \in {"spawned", "recorded", "commit", "failing"} => counted'[u] = 0
                   /\ w'[x].at = "release" =>
                         counted'[u] = 0 \/ (w'[x].fine /\ s = "user" /\ x \in live')
                   /\ w'[x].at \in {"spawned", "recorded", "commit", "mail"} => x \in live'
                   /\ counted'[u] > 0 => Past(u, s)'
                   /\ counted'[u] <= 1
<1>0. /\ TypeInv /\ TypeOK /\ w \in [Worker -> State] /\ counted \in [Unit -> Nat]
      /\ x \in Worker /\ x[1] = u /\ x[2] = s /\ counted[u] \in Nat /\ counted[u] <= 1
      /\ job \in [Unit -> [Stage -> {"waiting", "free", "running", "ok", "failed", "deleted"}]]
  BY DEF OrderInv, TypeInv, TypeOK, GroupTypeOK, Worker, Steady
<1>1. ~Fault
  BY DEF Fault, Calm
<1>2. /\ w[x].at \notin {"idle", "handler"} <=> job[u][s] = "running"
      /\ job[u][s] \in {"running", "ok", "failed"} => \A k \in Needs(s) : job[u][k] = "ok"
      /\ w[x].at \in {"spawned", "recorded", "commit", "failing"} => counted[u] = 0
      /\ w[x].at = "release" => counted[u] = 0 \/ (w[x].fine /\ s = "user" /\ x \in live)
      /\ w[x].at \in {"spawned", "recorded", "commit", "mail"} => x \in live
      /\ w[x].at \in {"commit", "mail"} => s = "user"
  BY <1>0 DEF Steady, InTurn, FirstToCount, Roles
<1>3. Start(x) => job[u][s] = "waiting" /\ \A k \in Needs(s) : job[u][k] = "ok"
  BY <1>0 DEF Start, Startable, OrderInv, FreeEarly, Calm
<1>4. Front(u, s) /\ (job[u][s] = "running" \/ Start(x))
  <2>1. w[x].at \notin {"idle", "handler"} \/ Start(x)
    BY DEF Work, Record, Finish, Release, CommitEnd, MailEnd, CommitFailure, MailFailure, At
  <2> QED BY <1>2, <1>3, <2>1 DEF Front
<1>5. \A k \in Stage : k # s => job'[u][k] = job[u][k] /\ w'[<<u, k>>].at = w[<<u, k>>].at
  <2> SUFFICES ASSUME NEW k \in Stage, k # s
               PROVE  job'[u][k] = job[u][k] /\ w'[<<u, k>>].at = w[<<u, k>>].at
    OBVIOUS
  <2>1. <<u, k>> \in Worker /\ <<u, k>> # x
    BY DEF Worker
  <2>2. UNCHANGED job \/ (\E fine \in BOOLEAN : Close(x, fine)) \/ Start(x)
    BY Zenon DEF Work, Record, Finish, Release, CommitEnd, MailEnd,
       CommitFailure, MailFailure, Abandon, Fail, Go
  <2>3. Start(x) => job' = [job EXCEPT ![u][s] = "running"]
    BY <1>0 DEF Start
  <2>4. job'[u][k] = job[u][k]
    <3> DEFINE same == job'[u][k] = job[u][k]
    <3>1. CASE UNCHANGED job
      BY <3>1
    <3>2. ASSUME NEW fine \in BOOLEAN, Close(x, fine) PROVE same
      <4>1. \A v \in Unit, r \in Stage : <<v, r>> # x => job'[v][r] = job[v][r]
        BY <1>0, <3>2, CloseType
      <4> QED BY <2>1, <4>1
    <3>3. ASSUME Start(x) PROVE same
      BY <1>0, <2>3, <3>3
    <3> QED BY <2>2, <3>1, <3>2, <3>3
  <2> QED BY <1>0, <2>1, <2>4, OthersStay
<1>6. ASSUME NEW at, NEW fine, Go(x, at, fine)
      PROVE  w'[x].at = at /\ w'[x].fine = fine /\ job' = job
  <2>1. job' = job
    BY <1>6 DEF Go
  <2> QED BY <1>0, <1>6, <2>1, Goes
<1>7. ASSUME job[u][s] = "running", counted'[u] \in Nat, counted'[u] <= 1
      PROVE  /\ Close(x, FALSE) => Good
             /\ Close(x, TRUE) /\ (counted'[u] > 0 => s = "user") => Good
  <2>1. ASSUME NEW fine \in BOOLEAN, Close(x, fine)
        PROVE  /\ w'[x].at = IF fine THEN "idle" ELSE "handler"
               /\ job'[u][s] = IF fine THEN "ok" ELSE "failed"
    BY <1>0, <1>7, <2>1, Closes, CloseType
  <2>2. Close(x, FALSE) => w'[x].at = "handler" /\ job'[u][s] = "failed"
    BY <2>1
  <2>3. Close(x, TRUE) => w'[x].at = "idle" /\ job'[u][s] = "ok"
    BY <2>1
  <2> QED BY <1>7, <2>2, <2>3 DEF Past
<1>8. CASE Start(x)
  <2>1. /\ job' = [job EXCEPT ![u][s] = "running"] /\ live' = live \cup {x} /\ counted' = counted
        /\ w' = [w EXCEPT ![x].at = "spawned"]
    BY <1>0, <1>8 DEF Start, groupVars
  <2>2. job'[u][s] = "running" /\ w'[x].at = "spawned"
    BY <1>0, <2>1 DEF State
  <2>3. \A k \in Stage : ~Past(u, k)
    <3>1. \A k \in Stage : k # s => ~Past(u, k)
      BY <1>0, <1>4, OneWorks DEF Steady
    <3>2. ~Past(u, s)
      BY <1>3, <1>8 DEF Past
    <3> QED BY <3>1, <3>2
  <2>4. counted'[u] = 0
    BY <1>0, <2>1, <2>3 DEF Steady
  <2>5. Good
    BY <2>1, <2>2, <2>4
  <2> HIDE DEF Good
  <2> QED BY <1>0, <1>4, <1>5, <2>5, SteadyFrom DEF Good
<1>9. CASE Record(x)
  <2>1. w[x].at = "spawned" /\ Go(x, "recorded", TRUE) /\ live' = live /\ counted' = counted
    BY <1>1, <1>9 DEF Record, At, groupVars
  <2>2. w'[x].at = "recorded" /\ job' = job
    BY <1>6, <2>1
  <2>3. Good
    BY <1>0, <1>2, <2>1, <2>2
  <2> QED BY <1>0, <1>4, <1>5, <2>3, SteadyFrom
<1>10. ASSUME Fail(x), w[x].at \in {"spawned", "recorded", "release"}, counted[u] = 0 PROVE Good
  <2>1. counted' = counted /\ job[u][s] = "running"
    BY <1>2, <1>10 DEF Fail, Refresh, groupVars
  <2>2. CASE Go(x, "failing", FALSE)
    <3>1. w'[x].at = "failing" /\ job' = job
      BY <1>6, <2>2
    <3> QED BY <1>10, <2>1, <3>1
  <2>3. CASE Close(x, FALSE)
    BY <1>0, <1>7, <1>10, <2>1, <2>3
  <2> QED BY <1>10, <2>2, <2>3 DEF Fail
<1>11. CASE Finish(x)
  <2>1. w[x].at = "recorded" /\ counted' = counted /\ counted[u] = 0 /\ job[u][s] = "running" /\ x \in live
    BY <1>2, <1>11 DEF Finish, At, Refresh, groupVars
  <2>2. Close(x, TRUE) => Good
    BY <1>0, <1>7, <2>1
  <2>3. ASSUME NEW fine, Go(x, "release", fine) PROVE Good
    <3>1. w'[x].at = "release" /\ job' = job
      BY <1>6, <2>3
    <3> QED BY <2>1, <3>1
  <2>4. ASSUME Go(x, "commit", TRUE), live' = live PROVE Good
    <3>1. w'[x].at = "commit" /\ job' = job
      BY <1>6, <2>4
    <3> QED BY <2>1, <2>4, <3>1
  <2>5. Good
    BY <1>11, <2>2, <2>3, <2>4 DEF Finish
  <2> QED BY <1>0, <1>4, <1>5, <2>5, SteadyFrom
<1>12. CASE Release(x)
  <2>1. w[x].at = "release" /\ job[u][s] = "running"
    BY <1>2, <1>12 DEF Release, At
  <2>2. ASSUME w[x].fine, Close(x, TRUE), UNCHANGED groupVars PROVE Good
    <3>1. counted' = counted
      BY <2>2 DEF groupVars
    <3>2. counted'[u] > 0 => s = "user"
      BY <1>0, <1>2, <2>1, <3>1
    <3> QED BY <1>0, <1>7, <2>1, <2>2, <3>1, <3>2
  <2>3. ASSUME Fail(x), ~w[x].fine \/ x \notin live PROVE Good
    BY <1>2, <1>10, <2>1, <2>3
  <2>4. Good
    BY <1>1, <1>12, <2>2, <2>3 DEF Release
  <2> QED BY <1>0, <1>4, <1>5, <2>4, SteadyFrom
<1>13. ASSUME NEW f, Commit(x, f), counted[u] = 0 PROVE counted'[u] = 1
  BY <1>0, <1>13 DEF Commit
<1>14. CASE CommitEnd(x)
  <2>1. /\ w[x].at = "commit" /\ job[u][s] = "running" /\ counted[u] = 0 /\ counted'[u] = 1
        /\ s = "user" /\ x \in live /\ live' = live
    BY <1>2, <1>13, <1>14 DEF CommitEnd, At, chain
  <2>2. \/ Go(x, "release", TRUE) \/ Go(x, "mail", TRUE)
    BY <1>14 DEF CommitEnd
  <2>3. w'[x].at \in {"release", "mail"} /\ w'[x].fine /\ job' = job
    BY <1>6, <2>2
  <2>4. Good
    BY <2>1, <2>3 DEF Past
  <2> QED BY <1>0, <1>4, <1>5, <2>4, SteadyFrom
<1>15. CASE MailEnd(x)
  <2>1. /\ w[x].at = "mail" /\ job[u][s] = "running" /\ s = "user" /\ x \in live /\ live' = live
        /\ counted' = counted /\ Go(x, "release", TRUE)
    BY <1>1, <1>2, <1>15 DEF MailEnd, At, chain, Summary
  <2>2. w'[x].at = "release" /\ w'[x].fine /\ job' = job
    BY <1>6, <2>1
  <2>3. Good
    BY <1>0, <2>1, <2>2 DEF Past
  <2> QED BY <1>0, <1>4, <1>5, <2>3, SteadyFrom
<1>16. CASE CommitFailure(x)
  <2>1. w[x].at = "failing" /\ job[u][s] = "running" /\ counted[u] = 0 /\ counted'[u] = 1
    BY <1>2, <1>13, <1>16 DEF CommitFailure, At
  <2>2. Close(x, FALSE) => Good
    BY <1>7, <2>1
  <2>3. ASSUME w' = [w EXCEPT ![x].at = "failmail", ![x].due = Due(x, TRUE)], UNCHANGED job
        PROVE  Good
    <3>1. w'[x].at = "failmail"
      BY <1>0, <2>3 DEF State
    <3> QED BY <2>1, <2>3, <3>1 DEF Past
  <2>4. Good
    BY <1>16, <2>2, <2>3 DEF CommitFailure
  <2> QED BY <1>0, <1>4, <1>5, <2>4, SteadyFrom
<1>17. CASE MailFailure(x)
  <2>1. w[x].at = "failmail" /\ job[u][s] = "running" /\ counted' = counted /\ Close(x, FALSE)
    BY <1>2, <1>17 DEF MailFailure, At, Summary, groupVars
  <2>2. Good
    BY <1>0, <1>7, <2>1
  <2> QED BY <1>0, <1>4, <1>5, <2>2, SteadyFrom
<1> HIDE DEF Good
<1> QED BY <1>8, <1>9, <1>11, <1>12, <1>14, <1>15, <1>16, <1>17 DEF Work

\* The exception handler of a calm unit finds the other stages at rest.
LEMMA SteadyHandle ==
    ASSUME OrderInv, [Next]_vars, NEW u \in Unit, Calm(u), Calm(u)', Steady(u),
           NEW s \in Stage, Handle(<<u, s>>)
    PROVE  Steady(u)'
<1> DEFINE x == <<u, s>>
           others == [w EXCEPT ![x] = Idle]
<1>0. /\ TypeInv /\ TypeOK /\ w \in [Worker -> State] /\ counted' = counted
      /\ x \in Worker /\ x[1] = u /\ x[2] = s /\ w[x].at = "handler"
      /\ others \in [Worker -> State]
  BY OthersType DEF OrderInv, TypeInv, TypeOK, Worker, Handle, At, groupVars
<1>1. /\ others[x].at = "idle"
      /\ \A k \in Stage : k # s => others[<<u, k>>].at = w[<<u, k>>].at
  <2>1. \A k \in Stage : <<u, k>> \in Worker /\ (k # s => <<u, k>> # x)
    BY DEF Worker
  <2>2. Idle.at = "idle"
    BY DEF Idle
  <2> QED BY <1>0, <2>1, <2>2
<1>2. job[u][s] = "failed" /\ Front(u, s)
  BY <1>0 DEF Steady, InTurn, Front
<1>3. \A k \in Stage : k # s => job[u][k] # "running" /\ w[<<u, k>>].at = "idle"
  BY <1>0, <1>2, OneWorks DEF Steady
<1>4. CancelAll(u, others) \/ CancelHalf(u, others) \/ (w' = others /\ UNCHANGED job)
  BY <1>0 DEF Handle
<1> HIDE DEF others
<1>5. \A k \in Stage : /\ w'[<<u, k>>].at = others[<<u, k>>].at
                       /\ \/ job'[u][k] = job[u][k]
                          \/ job'[u][k] = "deleted" /\ job[u][k] \notin {"ok", "failed"}
  <2>1. \A k \in Stage : <<u, k>> \in Worker
    BY DEF Worker
  <2>2. CASE CancelAll(u, others) \/ CancelHalf(u, others)
    <3>1. /\ \A y \in Worker : w'[y].at = others[y].at
          /\ \A v \in Unit, k \in Stage :
                \/ job'[v][k] = job[v][k]
                \/ /\ v = u /\ job'[v][k] = "deleted" /\ Enqueued(v, k)
                   /\ job[v][k] \notin {"ok", "failed"}
      BY <1>0, <2>2, CancelType
    <3> QED BY <2>1, <3>1
  <2>3. CASE w' = others /\ UNCHANGED job
    BY <2>3
  <2> QED BY <1>4, <2>2, <2>3
<1>6. \A k \in Stage : /\ w'[<<u, k>>].at = "idle" /\ job'[u][k] # "running"
                       /\ job'[u][k] \in {"ok", "failed"} => job'[u][k] = job[u][k]
                       /\ job[u][k] \in {"ok", "failed"} => job'[u][k] = job[u][k]
  <2> SUFFICES ASSUME NEW k \in Stage
               PROVE  /\ w'[<<u, k>>].at = "idle" /\ job'[u][k] # "running"
                      /\ job'[u][k] \in {"ok", "failed"} => job'[u][k] = job[u][k]
                      /\ job[u][k] \in {"ok", "failed"} => job'[u][k] = job[u][k]
    OBVIOUS
  <2>1. CASE k = s
    BY <1>0, <1>1, <1>2, <1>5, <2>1
  <2>2. CASE k # s
    BY <1>1, <1>3, <1>5, <2>2
  <2> QED BY <2>1, <2>2
<1>7. InTurn(u)'
  <2>1. \A k \in Stage : Needs(k) \subseteq Stage
    BY BatchAssumption DEF Needs
  <2>2. \A k \in Stage : job[u][k] \in {"ok", "failed"} => \A d \in Needs(k) : job[u][d] = "ok"
    BY DEF Steady, InTurn
  <2>3. \A k \in Stage : job'[u][k] \in {"running", "ok", "failed"} =>
                            \A d \in Needs(k) : job'[u][d] = "ok"
    BY <1>6, <2>1, <2>2
  <2> QED BY <1>6, <2>3 DEF InTurn
<1>8. FirstToCount(u)'
  BY <1>6 DEF FirstToCount
<1>9. counted'[u] <= 1 /\ Past(u, s)'
  BY <1>0, <1>2, <1>6 DEF Past, Steady
<1> QED BY <1>7, <1>8, <1>9 DEF Steady

\* Every step keeps the count.
LEMMA CountInductive == CountInv /\ [Next]_vars => CountInv'
<1> SUFFICES ASSUME CountInv, [Next]_vars PROVE CountInv'
  OBVIOUS
<1>1. SummaryInv /\ OnlyOne /\ OrderInv /\ Roles
  BY DEF CountInv, SummaryInv
<1>2. SummaryInv' /\ OnlyOne'
  BY <1>1, SummaryInductive, OnlyOneInductive
<1>3. ASSUME NEW u \in Unit, Calm(u)' PROVE Steady(u)'
  <2>1. Calm(u) /\ Steady(u)
    BY <1>1, <1>3, CalmSteps DEF CountInv
  <2>2. ASSUME NEW s \in Stage, Work(<<u, s>>) PROVE Steady(u)'
    BY <1>1, <1>3, <2>1, <2>2, SteadyWork, SteadyHandle
  <2>3. ASSUME \A s \in Stage : /\ job'[u][s] = job[u][s]
                                /\ w'[<<u, s>>].at = w[<<u, s>>].at
                                /\ w'[<<u, s>>].fine = w[<<u, s>>].fine
                                /\ <<u, s>> \in live' <=> <<u, s>> \in live,
               counted'[u] = counted[u]
        PROVE  Steady(u)'
    <3>1. \A s \in Stage : Needs(s) \subseteq Stage
      BY BatchAssumption DEF Needs
    <3>2. InTurn(u)'
      BY <2>1, <2>3, <3>1 DEF Steady, InTurn
    <3>3. FirstToCount(u)'
      BY <2>1, <2>3 DEF Steady, FirstToCount
    <3>4. \A s \in Stage : Past(u, s) => Past(u, s)'
      BY <2>3 DEF Past
    <3> QED BY <2>1, <2>3, <3>2, <3>3, <3>4 DEF Steady
  <2> QED BY <1>1, <1>3, <2>2, <2>3, CalmSteps
<1> QED BY <1>2, <1>3 DEF CountInv

\* At the beginning nothing is counted.
LEMMA CountInitially == Init => CountInv
<1> SUFFICES ASSUME Init PROVE CountInv
  OBVIOUS
<1>1. SummaryInv
  BY SummaryInitially
<1>2. \A x \in Worker : w[x].at = "idle"
  BY DEF Init, Idle
<1>3. summaries = 0 /\ \A u \in Unit : counted[u] = 0
  BY DEF Init, GroupInit
<1>4. OnlyOne
  BY <1>2, <1>3 DEF OnlyOne, Pending
<1>5. ASSUME NEW u \in Unit PROVE Steady(u)
  <2>1. \A s \in Stage : job[u][s] = "waiting" /\ w[<<u, s>>].at = "idle"
    BY <1>2 DEF Init, Worker
  <2> QED BY <1>3, <2>1 DEF Steady, InTurn, FirstToCount
<1> QED BY <1>1, <1>4, <1>5 DEF CountInv

(* Without a fault a unit is counted once, though each of its stages may     *)
(* count it, and one summary at most is sent, though the workers read and    *)
(* write the row of the group without a lock.                                *)
THEOREM CountTheorem == Spec => []CountedOnce
<1>1. CountInv => CountedOnce
  <2> SUFFICES ASSUME CountInv PROVE CountedOnce
    OBVIOUS
  <2>1. \A u \in Unit : Calm(u) => counted[u] <= 1
    BY DEF CountInv, Steady
  <2>2. faults \in Nat /\ summaries \in Nat
    BY BatchAssumption DEF CountInv, SummaryInv, OrderInv, TypeInv, TypeOK, GroupTypeOK
  <2>3. ~Twice => summaries <= 1
    BY DEF CountInv, OnlyOne
  <2> QED BY <2>1, <2>2, <2>3 DEF CountedOnce, Calm
<1> QED BY <1>1, CountInitially, CountInductive, PTL DEF Spec

=============================================================================

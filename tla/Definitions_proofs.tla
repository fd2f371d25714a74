------------------------- MODULE Definitions_proofs -------------------------
(* Theorems about one definition, what is built from it and the consoles of *)
(* its sandbox: for every repository and everything pushed to it, every     *)
(* number of faults, and every set of viewers.                              *)
EXTENDS Consoles, FiniteSetTheorems, WellFoundedInduction, TLAPS

-----------------------------------------------------------------------------
(* The invariant *)

(* What is left of a plan at any time.  A pool without containers is done   *)
(* before its plan is.                                                      *)
Remaining == [
    none   |-> {<< >>},
    import |-> {<<"def", "def", "boxes">>, <<"def", "boxes">>, <<"boxes">>, << >>},
    pool   |-> {<<"def", "boxes", "def", "boxes">>, <<"boxes", "def", "boxes">>,
                <<"def", "boxes">>, <<"boxes">>, << >>},
    stack  |-> {<<"def">>, << >>},
    stage  |-> {<<"def", "boxes", "inst">>, <<"boxes", "inst">>, <<"inst">>, << >>},
    mgmt   |-> {<<"def", "boxes", "inst">>, <<"boxes", "inst">>, <<"inst">>, << >>},
    show   |-> {<<"def", "boxes">>, <<"boxes">>, << >>},
    usage  |-> {<<"def">>, << >>}]

Task == DOMAIN Plan \cup {"none"}
Role == [import |-> {"none", "import"}, chain |-> {"none", "pool", "stack", "stage"},
         reader |-> {"none", "show", "usage", "mgmt"}]
\* The tasks that read the revision the pool pins.
Pinned == {"pool", "stack", "stage", "mgmt"}

Todo == UNION {Remaining[t] : t \in Task}
Call == [what : Task, todo : Todo,
         at : {"next", "fetch", "store", "add"},
         key : Rev, got : Rev, top : Rev, boxes : Rev, head : Rev]

\* A commit that exists and whose topology can be loaded, or none.
Fine(n) == n = 0 \/ (n <= Newest /\ Loads(git[n]))

(* Where the commit a task has loaded may come from: with resolved          *)
(* revisions, from the pinned one, and for the usage from the branch, which *)
(* has only moved on since the pool was pinned; with a cache per branch,    *)
(* from what was ever stored under the branch.                              *)
From(task, n) ==
    IF mode = "FRESH"
    THEN (task \in Pinned => n = pool.rev) /\ (task = "usage" => n >= pool.rev)
    ELSE n \in seen
KeyFrom(task, k) ==
    IF mode = "FRESH"
    THEN k # 0 /\ (task \in Pinned => k = pool.rev) /\ (task = "usage" => k >= pool.rev)
    ELSE k = Branch
\* The containers of the pinned commit, if no git call failed.
BoxesFrom(n) == n = pool.rev \/ git[pool.rev].boxes = None \/ faults > 0

CallOK(a) ==
    /\ call[a].what \in Role[a] /\ call[a].todo \in Remaining[call[a].what]
    /\ {call[a].key, call[a].got, call[a].top, call[a].head} \subseteq 0..Newest
    /\ Fine(call[a].top)
    /\ call[a].at \in {"fetch", "store"} =>
          /\ call[a].what # "none" /\ call[a].todo # << >> /\ call[a].todo[1] = "def"
          /\ KeyFrom(call[a].what, call[a].key)
    /\ call[a].at = "store" =>
          /\ call[a].got # 0 /\ Fine(call[a].got)
          /\ mode = "FRESH" => call[a].got = call[a].key
    /\ call[a].at = "add" => call[a].what \in {"stage", "mgmt"} /\ call[a].todo = <<"inst">>
    /\ (call[a].what # "none" /\ call[a].todo # Plan[call[a].what]) =>
          call[a].top # 0 /\ From(call[a].what, call[a].top)
    /\ (mode = "FRESH" /\ call[a].what \in {"stage", "mgmt"}
          /\ call[a].todo \in {<<"inst">>, << >>}) => BoxesFrom(call[a].boxes)

(* The tasks that depend on the pool and its sandbox.                       *)
TasksOK ==
    /\ Do("chain") = "pool" <=> pool.st = "saved"
    /\ Do("chain") \in {"stack", "stage"} => pool.st = "ready"
    /\ Do("chain") = "stage" => stack # 0 /\ passed < 2
    /\ Do("chain") = "stack" => stack = 0 /\ fail = "none"
    /\ Do("reader") = "mgmt" => stack # 0
    /\ Do("reader") = "usage" => pool.st = "ready"
    /\ pool.st # "ready" => usage = <<"unset", 0>>

(* The pool, its sandbox and what is kept about them.                       *)
PoolOK ==
    /\ pool \in [st : {"none", "saved", "ready"}, rev : Rev, top : Rev, boxes : Rev]
    /\ pool.rev <= Newest /\ pool.top <= Newest
    /\ pool.st = "none" => pool = NoPool
    /\ pool.st # "none" => IF mode = "FRESH" THEN pool.rev # 0 ELSE pool.rev = 0
    /\ pool.st = "ready" => pool.top # 0 /\ Fine(pool.top) /\ From("pool", pool.top)
    /\ stack # 0 => stack <= Newest /\ From("stack", stack)
    /\ inst # NoInst =>
          /\ inst.top # 0 /\ Fine(inst.top) /\ From("stage", inst.top)
          /\ mode = "FRESH" => BoxesFrom(inst.boxes)
    /\ usage[1] = "commit" => usage[2] <= Newest /\ From("usage", usage[2])
    /\ usage[1] = "error" => faults > 0 \/ Newest > 1

(* The topology cache holds what its key says.                              *)
TopoOK ==
    /\ \A k \in Rev : Fine(topo[k])
    /\ mode = "FRESH" => \A k \in Rev : topo[k] \in {0, k}
    /\ mode # "FRESH" => topo[Branch] \in seen \cup {0}
    /\ seen \subseteq 1..Newest

(* What is left to say of the other variables.                              *)
PlainOK ==
    /\ mode \in Modes /\ topo \in [Rev -> Rev] /\ row \in BOOLEAN /\ (pool.st # "none" => row)
    /\ stack \in Rev /\ inst \in [top : Rev, boxes : Rev]
    /\ stack # 0 => pool.st = "ready"
    /\ inst # NoInst => stack # 0
    /\ passed \in 0..2 /\ (passed > 0 => stack # 0)
    /\ fail \in {"none", "git", "lost", "keys"}
    /\ usage \in {"unset", "error"} \X {0} \cup {"commit"} \X Commit
    /\ call \in [Actor -> Call]
    /\ faults \in 0..MaxTrouble /\ expired \in 0..MaxTrouble
    /\ imported \in Rev /\ raced \in BOOLEAN

GitOK == git \in Seq(Contents) /\ Len(git) \in Commit

(* A forced import and whoever fetched before it: what is newer than the    *)
(* branch was when it began, and what is not.                               *)
ImportOK == mode = "FRESH_IMPORT" =>
    /\ imported <= Newest
    /\ topo[Branch] = 0 \/ topo[Branch] >= imported \/ raced
    /\ \A a \in Actor : call[a].at = "store" => call[a].got >= imported \/ raced
    /\ \A a \in Actor : call[a].at = "store" /\ Refreshing(a) => call[a].got >= call[a].head

(* What a viewer is doing.                                                  *)
View == [at : {"away", "node", "flag", "set", "enqueue"},
         left : SUBSET AllNodes, node : AllNodes \cup {None}, ready : BOOLEAN]
ViewsOK ==
    /\ url \subseteq AllNodes /\ flag \subseteq AllNodes /\ failed \subseteq AllNodes
    /\ jobs \in [AllNodes -> Nat] /\ answered \subseteq Viewers /\ trouble \in 0..MaxConsole
    /\ view \in [Viewers -> View]
    /\ \A v \in Viewers : view[v].at \in {"flag", "set", "enqueue"} => view[v].node \in AllNodes
    /\ \A v \in Viewers : view[v].at # "away" => passed = 2

DefinitionInv ==
    PlainOK /\ GitOK /\ TopoOK /\ PoolOK /\ TasksOK /\ \A a \in Actor : CallOK(a)

ConsoleInv == DefinitionInv /\ ViewsOK /\ WaitHasJob

-----------------------------------------------------------------------------
(* Plans *)

\* The names of the tasks.
LEMMA Tasks == Task = {"none", "import", "pool", "stack", "stage", "mgmt", "show", "usage"}
BY DEF Task, Plan

\* A plan whose next step is done is a plan with less left, and begun.
LEMMA Progress ==
    ASSUME NEW t \in Task, NEW todo \in Remaining[t], todo # << >>
    PROVE  t # "none" /\ Tail(todo) \in Remaining[t] /\ Tail(todo) # Plan[t]
<1>1. /\ Tail(<<"def">>) = << >> /\ Tail(<<"boxes">>) = << >> /\ Tail(<<"inst">>) = << >>
      /\ Tail(<<"def", "boxes">>) = <<"boxes">> /\ Tail(<<"boxes", "inst">>) = <<"inst">>
      /\ Tail(<<"def", "boxes", "inst">>) = <<"boxes", "inst">>
      /\ Tail(<<"def", "def", "boxes">>) = <<"def", "boxes">>
      /\ Tail(<<"boxes", "def", "boxes">>) = <<"def", "boxes">>
      /\ Tail(<<"def", "boxes", "def", "boxes">>) = <<"boxes", "def", "boxes">>
  OBVIOUS
<1>2. /\ << >> \notin {<<"def">>, <<"def", "boxes">>, <<"def", "boxes", "inst">>,
                         <<"def", "def", "boxes">>, <<"def", "boxes", "def", "boxes">>}
      /\ <<"boxes">> # <<"def", "boxes">>
      /\ <<"boxes", "inst">> # <<"def", "boxes", "inst">> /\ <<"inst">> # <<"def", "boxes", "inst">>
      /\ <<"def", "boxes">> # <<"def", "def", "boxes">> /\ <<"boxes">> # <<"def", "def", "boxes">>
      /\ <<"boxes", "def", "boxes">> # <<"def", "boxes", "def", "boxes">>
      /\ <<"def", "boxes">> # <<"def", "boxes", "def", "boxes">>
      /\ <<"boxes">> # <<"def", "boxes", "def", "boxes">>
  OBVIOUS
<1>3. /\ Remaining.none = {<< >>}
      /\ Remaining.import = {<<"def", "def", "boxes">>, <<"def", "boxes">>, <<"boxes">>, << >>}
      /\ Remaining.pool = {<<"def", "boxes", "def", "boxes">>, <<"boxes", "def", "boxes">>,
                            <<"def", "boxes">>, <<"boxes">>, << >>}
      /\ Remaining.stack = {<<"def">>, << >>} /\ Remaining.usage = {<<"def">>, << >>}
      /\ Remaining.stage = {<<"def", "boxes", "inst">>, <<"boxes", "inst">>, <<"inst">>, << >>}
      /\ Remaining.mgmt = {<<"def", "boxes", "inst">>, <<"boxes", "inst">>, <<"inst">>, << >>}
      /\ Remaining.show = {<<"def", "boxes">>, <<"boxes">>, << >>}
  BY DEF Remaining
<1>4. /\ Plan.import = <<"def", "def", "boxes">> /\ Plan.pool = <<"def", "boxes", "def", "boxes">>
      /\ Plan.stack = <<"def">> /\ Plan.usage = <<"def">>
      /\ Plan.stage = <<"def", "boxes", "inst">> /\ Plan.mgmt = <<"def", "boxes", "inst">>
      /\ Plan.show = <<"def", "boxes">>
  BY DEF Plan
<1>5. CASE t = "import"
  BY <1>1, <1>3, <1>4, <1>2, <1>5, Zenon
<1>6. CASE t = "pool"
  BY <1>1, <1>3, <1>4, <1>2, <1>6, Zenon
<1>7. CASE t \in {"stack", "usage"}
  <2>1. CASE t = "stack"
    BY <1>1, <1>3, <1>4, <1>2, <2>1, Zenon
  <2>2. CASE t = "usage"
    BY <1>1, <1>3, <1>4, <1>2, <2>2, Zenon
  <2> QED BY <1>7, <2>1, <2>2
<1>8. CASE t \in {"stage", "mgmt"}
  <2>1. CASE t = "stage"
    BY <1>1, <1>3, <1>4, <1>2, <2>1, Zenon
  <2>2. CASE t = "mgmt"
    BY <1>1, <1>3, <1>4, <1>2, <2>2, Zenon
  <2> QED BY <1>8, <2>1, <2>2
<1>9. CASE t = "show"
  BY <1>1, <1>3, <1>4, <1>2, <1>9, Zenon
<1> QED BY <1>3, <1>5, <1>6, <1>7, <1>8, <1>9, Tasks

-----------------------------------------------------------------------------
(* What the invariant gives *)

\* The commits are few, and at least one.
LEMMA Numbers ==
    ASSUME GitOK
    PROVE  Newest \in Nat /\ 1 <= Newest /\ Newest <= MaxCommits /\ Newest \in Rev /\ MaxCommits \in Nat
<1>1. MaxCommits \in Nat
  BY DefinitionsAssumption
<1>2. Newest \in 1..MaxCommits
  BY DEF GitOK, Newest, Commit
<1> QED BY <1>1, <1>2 DEF Rev

\* The invariant contains the types.
LEMMA DefinitionTypes == DefinitionInv => DTypeOK
<1> SUFFICES ASSUME DefinitionInv PROVE DTypeOK
  OBVIOUS
<1>1. seen \subseteq Commit /\ Len(git) \in Commit
  <2>1. GitOK /\ seen \subseteq 1..Newest
    BY DEF DefinitionInv, TopoOK
  <2> QED BY <2>1, Numbers DEF GitOK, Commit
<1>2. /\ pool.st \in {"none", "saved", "ready"}
      /\ pool.rev \in Rev /\ pool.top \in Rev /\ pool.boxes \in Rev
  BY DEF DefinitionInv, PoolOK
<1>3. ASSUME NEW a \in Actor
      PROVE  /\ call[a].what \in DOMAIN Plan \cup {"none"}
             /\ call[a].at \in {"next", "fetch", "store", "add"}
             /\ {call[a].key, call[a].got, call[a].top, call[a].boxes, call[a].head} \subseteq Rev
  BY DEF DefinitionInv, PlainOK, Call, Task
<1> QED BY <1>1, <1>2, <1>3 DEF DefinitionInv, PlainOK, DTypeOK

\* Two commits stored under the branch are more than one.
LEMMA TwoSeen ==
    ASSUME seen \subseteq Commit, NEW c \in seen, NEW d \in seen, c # d
    PROVE  Cardinality(seen) > 1
<1>1. IsFiniteSet(seen) /\ Cardinality(seen) \in Nat
  <2>1. IsFiniteSet(Commit)
    <3>1. MaxCommits \in Nat
      BY DefinitionsAssumption
    <3> QED BY <3>1, FS_Interval DEF Commit
  <2> QED BY <2>1, FS_Subset, FS_CardinalityType
<1>2. Cardinality({c, d}) = 2 /\ IsFiniteSet({c, d})
  <2>1. Cardinality({c}) = 1 /\ IsFiniteSet({c})
    BY FS_Singleton
  <2>2. Cardinality({c} \cup {d}) = 2 /\ IsFiniteSet({c} \cup {d})
    BY <2>1, FS_AddElement
  <2>3. {c, d} = {c} \cup {d}
    OBVIOUS
  <2> QED BY <2>2, <2>3
<1>3. Cardinality({c, d}) <= Cardinality(seen)
  BY <1>1, FS_Subset
<1> QED BY <1>1, <1>2, <1>3

\* The invariant says where the instance comes from.
LEMMA InstanceFromInv == DefinitionInv => InstanceMatches
<1> SUFFICES ASSUME DefinitionInv PROVE InstanceMatches
  OBVIOUS
<1>1. CASE mode = "FRESH"
  BY <1>1 DEF DefinitionInv, PlainOK, PoolOK, From, BoxesFrom, InstanceMatches, Pinned
<1>2. CASE mode # "FRESH"
  <2>1. ASSUME inst # NoInst, inst.top # stack PROVE Cardinality(seen) > 1
    <3>1. inst.top \in seen /\ stack \in seen /\ seen \subseteq Commit
      BY <1>2, <2>1, DefinitionTypes DEF DefinitionInv, PlainOK, PoolOK, From, DTypeOK
    <3> QED BY <2>1, <3>1, TwoSeen
  <2> QED BY <1>2, <2>1 DEF InstanceMatches
<1> QED BY <1>1, <1>2

\* The invariant says where the usage comes from.
LEMMA UsageFromInv == DefinitionInv => UsageHonest
<1> SUFFICES ASSUME DefinitionInv, pool.st = "ready" PROVE
        /\ usage[1] = "commit" /\ mode = "FRESH" /\ usage[2] # pool.rev => pool.rev < Newest
        /\ usage[1] = "commit" /\ mode # "FRESH" /\ usage[2] # pool.top => Cardinality(seen) > 1
        /\ usage[1] = "error" => faults > 0 \/ Newest > 1
  BY DEF UsageHonest
<1>1. ASSUME usage[1] = "commit", mode = "FRESH", usage[2] # pool.rev PROVE pool.rev < Newest
  <2>1. usage[2] \in Rev /\ pool.rev \in Rev /\ Newest \in Commit
    <3>1. usage[2] \in Commit
      BY <1>1 DEF DefinitionInv, PlainOK
    <3>2. pool.rev \in Rev /\ Newest \in Commit
      BY DEF DefinitionInv, PoolOK, GitOK, Newest
    <3> QED BY <3>1, <3>2 DEF Rev, Commit
  <2>2. usage[2] <= Newest /\ usage[2] >= pool.rev
    BY <1>1 DEF DefinitionInv, PoolOK, From
  <2> QED BY <1>1, <2>1, <2>2, DefinitionsAssumption DEF Rev, Commit
<1>2. ASSUME usage[1] = "commit", mode # "FRESH", usage[2] # pool.top PROVE Cardinality(seen) > 1
  <2>1. usage[2] \in seen /\ pool.top \in seen /\ seen \subseteq Commit
    BY <1>2, DefinitionTypes DEF DefinitionInv, PoolOK, From, DTypeOK
  <2> QED BY <1>2, <2>1, TwoSeen
<1>3. usage[1] = "error" => faults > 0 \/ Newest > 1
  BY DEF DefinitionInv, PoolOK
<1> QED BY <1>1, <1>2, <1>3

-----------------------------------------------------------------------------
(* The helpers of the steps *)

\* A task goes on in the same way, whatever is changed of it.
LEMMA CallUpdate ==
    ASSUME NEW c \in Call, NEW todo \in Todo, NEW at \in {"next", "fetch", "store", "add"},
           NEW key \in Rev, NEW got \in Rev, NEW top \in Rev, NEW boxes \in Rev, NEW head \in Rev
    PROVE  /\ [c EXCEPT !.todo = todo, !.at = at, !.key = key, !.got = got,
                       !.top = top, !.boxes = boxes] \in Call
           /\ [c EXCEPT !.at = at, !.key = key, !.head = head] \in Call
           /\ [c EXCEPT !.at = at, !.got = got] \in Call
BY DEF Call

\* A task can be taken up.
LEMMA CallStarts ==
    ASSUME NEW c \in Call, NEW todo \in Todo, NEW t \in Task
    PROVE  [c EXCEPT !.what = t, !.todo = todo] \in Call
BY DEF Call

\* A step of the plan is done.
LEMMA FoundCall ==
    ASSUME call \in [Actor -> Call], NEW a \in Actor, call[a].todo \in Remaining[call[a].what],
           call[a].todo # << >>, NEW top \in Rev, NEW boxes \in Rev, Found(a, top, boxes)
    PROVE  /\ call' \in [Actor -> Call] /\ \A b \in Actor \ {a} : call'[b] = call[b]
           /\ call'[a].what = call[a].what /\ call'[a].todo = Tail(call[a].todo)
           /\ call'[a].at = "next" /\ call'[a].key = 0 /\ call'[a].got = 0
           /\ call'[a].top = top /\ call'[a].boxes = boxes /\ call'[a].head = call[a].head
<1> DEFINE r == [call[a] EXCEPT !.todo = Tail(call[a].todo), !.at = "next", !.key = 0, !.got = 0,
                                !.top = top, !.boxes = boxes]
<1>1. call[a] \in Call /\ call[a].what \in Task
  BY DEF Call
<1>2. Tail(call[a].todo) \in Todo /\ 0 \in Rev
  BY <1>1, Progress, DefinitionsAssumption DEF Todo, Rev
<1>3. r \in Call
  BY <1>1, <1>2, CallUpdate, Zenon
<1>4. call' = [call EXCEPT ![a] = r]
  BY DEF Found
<1>5. /\ r.what = call[a].what /\ r.todo = Tail(call[a].todo)
      /\ r.at = "next" /\ r.key = 0 /\ r.got = 0
      /\ r.top = top /\ r.boxes = boxes /\ r.head = call[a].head
  BY <1>1 DEF Call
<1> HIDE DEF r
<1> QED BY <1>3, <1>4, <1>5

\* Doing nothing is a way to do.
LEMMA IdleCall == Idle \in Call
<1>1. << >> \in Todo
  BY Tasks DEF Todo, Remaining
<1> QED BY <1>1, Tasks, DefinitionsAssumption DEF Idle, Call, Rev

\* Whoever is done is free.
LEMMA EndsCall ==
    ASSUME call \in [Actor -> Call], NEW a \in Actor, Ends(a)
    PROVE  /\ call' \in [Actor -> Call] /\ \A b \in Actor \ {a} : call'[b] = call[b]
           /\ call'[a] = Idle
BY IdleCall DEF Ends

\* A task begins with its plan.
LEMMA BeginsCall ==
    ASSUME call \in [Actor -> Call], NEW a \in Actor, NEW t \in DOMAIN Plan, Begins(a, t)
    PROVE  /\ call' \in [Actor -> Call] /\ \A b \in Actor \ {a} : call'[b] = call[b]
           /\ call'[a] = [Idle EXCEPT !.what = t, !.todo = Plan[t]]
<1>1. Plan[t] \in Todo /\ t \in Task
  <2>1. t \in Task /\ Plan[t] \in Remaining[t]
    BY Tasks DEF Plan, Remaining, Task
  <2> QED BY <2>1 DEF Todo
<1>2. [Idle EXCEPT !.what = t, !.todo = Plan[t]] \in Call
  BY <1>1, IdleCall, CallStarts, Zenon
<1> QED BY <1>2 DEF Begins

-----------------------------------------------------------------------------
(* What goes on elsewhere *)

\* The branch only moves on, and what is seen or has failed stays so.
Grows ==
    /\ mode' = mode /\ seen \subseteq seen' /\ faults' \in Nat /\ faults <= faults'
    /\ Newest <= Newest' /\ \A n \in 1..Newest : git'[n] = git[n]

\* The tasks that depend on the pool run while there is one.
LEMMA PinnedPool ==
    ASSUME DefinitionInv, NEW a \in Actor, call[a].what \in Pinned \cup {"usage"}
    PROVE  /\ pool.st # "none" /\ a # "import"
           /\ call[a].what # "pool" => pool.st = "ready"
           /\ mode = "FRESH" => pool.rev \in 1..Newest
           /\ mode # "FRESH" => pool.rev = 0
           /\ pool.rev \in Rev /\ pool.rev <= Newest
<1>1. call[a].what \in Role[a] /\ PoolOK /\ TasksOK
  BY DEF DefinitionInv, CallOK
<1>2. a # "import" /\ (a = "chain" \/ a = "reader")
  BY <1>1 DEF Role, Pinned, Actor
<1>3. pool.st # "none" /\ (call[a].what # "pool" => pool.st = "ready")
  <2>1. CASE a = "chain"
    BY <1>1, <2>1 DEF TasksOK, Role, Pinned, Do
  <2>2. CASE a = "reader"
    BY <1>1, <2>2 DEF TasksOK, Role, Pinned, Do, DefinitionInv, PlainOK
  <2> QED BY <1>2, <2>1, <2>2
<1>4. pool.rev \in Rev /\ pool.rev <= Newest /\ Newest \in Nat
  BY <1>1, Numbers DEF PoolOK, DefinitionInv
<1>5. mode = "FRESH" => pool.rev \in 1..Newest
  BY <1>1, <1>3, <1>4 DEF PoolOK, Rev
<1> QED BY <1>1, <1>2, <1>3, <1>4, <1>5 DEF PoolOK

\* What is fine stays fine.
LEMMA FineStays ==
    ASSUME GitOK, GitOK', Grows, NEW n \in Rev, Fine(n) PROVE n <= Newest' /\ (n = 0 \/ Loads(git'[n]))
<1>1. n \in Nat /\ Newest \in Nat /\ Newest' \in Nat
  BY Numbers DEF Rev, GitOK, Newest
<1>2. CASE n = 0
  BY <1>1, <1>2
<1>3. CASE n # 0
  <2>1. n <= Newest /\ Loads(git[n]) /\ n \in 1..Newest
    BY <1>1, <1>3 DEF Fine
  <2>2. git'[n] = git[n] /\ Newest <= Newest'
    BY <2>1 DEF Grows
  <2> QED BY <1>1, <2>1, <2>2
<1> QED BY <1>2, <1>3

\* A task that takes no step is not disturbed.
LEMMA CallStays ==
    ASSUME DefinitionInv, GitOK', Grows, NEW a \in Actor, call'[a] = call[a],
           call[a].what \in Pinned \cup {"usage"} => pool'.rev = pool.rev
    PROVE  CallOK(a)'
<1> DEFINE c == call[a]
<1>0. /\ CallOK(a) /\ GitOK /\ c \in Call /\ faults \in Nat
      /\ Newest \in Nat /\ Newest' \in Nat /\ Newest <= Newest' /\ mode' = mode
  BY Numbers, DefinitionsAssumption DEF DefinitionInv, PlainOK, Grows, GitOK, Newest
<1>1. c.what \in Role[a] /\ c.todo \in Remaining[c.what]
  BY <1>0 DEF CallOK
<1>2. {c.key, c.got, c.top, c.head} \subseteq 0..Newest'
  BY <1>0 DEF CallOK
<1>3. ASSUME NEW n \in Rev, Fine(n) PROVE n <= Newest' /\ (n = 0 \/ Loads(git'[n]))
  BY <1>0, <1>3, FineStays
<1>4. c.top <= Newest' /\ (c.top = 0 \/ Loads(git'[c.top]))
  BY <1>0, <1>3 DEF CallOK, Call
<1>5. ASSUME NEW n, From(c.what, n)
      PROVE  IF mode' = "FRESH"
             THEN (c.what \in Pinned => n = pool'.rev) /\ (c.what = "usage" => n >= pool'.rev)
             ELSE n \in seen'
  BY <1>0, <1>5 DEF From, Grows
<1>6. ASSUME NEW n, KeyFrom(c.what, n)
      PROVE  IF mode' = "FRESH"
             THEN n # 0 /\ (c.what \in Pinned => n = pool'.rev) /\ (c.what = "usage" => n >= pool'.rev)
             ELSE n = Branch
  BY <1>0, <1>6 DEF KeyFrom
<1>7. c.at \in {"fetch", "store"} =>
          /\ c.what # "none" /\ c.todo # << >> /\ c.todo[1] = "def"
          /\ IF mode' = "FRESH"
             THEN c.key # 0 /\ (c.what \in Pinned => c.key = pool'.rev)
                            /\ (c.what = "usage" => c.key >= pool'.rev)
             ELSE c.key = Branch
  BY <1>0, <1>6 DEF CallOK
<1>8. c.at = "store" =>
          /\ c.got # 0 /\ c.got <= Newest' /\ (c.got = 0 \/ Loads(git'[c.got]))
          /\ mode' = "FRESH" => c.got = c.key
  BY <1>0, <1>3 DEF CallOK, Call
<1>9. c.at = "add" => c.what \in {"stage", "mgmt"} /\ c.todo = <<"inst">>
  BY <1>0 DEF CallOK
<1>10. (c.what # "none" /\ c.todo # Plan[c.what]) => c.top # 0 /\
             IF mode' = "FRESH"
             THEN (c.what \in Pinned => c.top = pool'.rev) /\ (c.what = "usage" => c.top >= pool'.rev)
             ELSE c.top \in seen'
  BY <1>0, <1>5 DEF CallOK
<1>11. (mode' = "FRESH" /\ c.what \in {"stage", "mgmt"} /\ c.todo \in {<<"inst">>, << >>}) =>
             c.boxes = pool'.rev \/ git'[pool'.rev].boxes = None \/ faults' > 0
  <2>1. SUFFICES ASSUME mode = "FRESH", c.what \in {"stage", "mgmt"}, c.todo \in {<<"inst">>, << >>}
                 PROVE  c.boxes = pool'.rev \/ git'[pool'.rev].boxes = None \/ faults' > 0
    BY <1>0
  <2>2. BoxesFrom(c.boxes)
    BY <1>0, <2>1 DEF CallOK
  <2>3. pool'.rev = pool.rev /\ pool.rev \in 1..Newest
    BY <2>1, PinnedPool DEF Pinned
  <2>4. git'[pool.rev] = git[pool.rev] /\ faults <= faults' /\ faults' \in Nat
    BY <2>3 DEF Grows
  <2> QED BY <1>0, <2>2, <2>3, <2>4 DEF BoxesFrom
<1> HIDE DEF c
<1>12. call'[a] = c
  BY DEF c
<1> QED BY <1>1, <1>2, <1>4, <1>7, <1>8, <1>9, <1>10, <1>11, <1>12
        DEF CallOK, Fine, From, KeyFrom, BoxesFrom

\* What only depends on the repository stays as it is.
LEMMA PoolStays ==
    ASSUME DefinitionInv, GitOK', Grows, UNCHANGED <<pool, stack, inst, usage>>
    PROVE  PoolOK'
<1>0. /\ PoolOK /\ PlainOK /\ GitOK /\ faults \in Nat /\ mode' = mode
      /\ Newest \in Nat /\ Newest' \in Nat /\ Newest <= Newest'
  BY Numbers, DefinitionsAssumption DEF DefinitionInv, PlainOK, Grows, GitOK, Newest
<1>1. ASSUME NEW n \in Rev, Fine(n) PROVE n <= Newest' /\ (n = 0 \/ Loads(git'[n]))
  BY <1>0, <1>1, FineStays
<1>2. ASSUME NEW t, NEW n, From(t, n)
      PROVE  IF mode = "FRESH"
             THEN (t \in Pinned => n = pool.rev) /\ (t = "usage" => n >= pool.rev)
             ELSE n \in seen'
  BY <1>2 DEF From, Grows
<1>3. /\ pool \in [st : {"none", "saved", "ready"}, rev : Rev, top : Rev, boxes : Rev]
      /\ stack \in Rev /\ inst \in [top : Rev, boxes : Rev]
      /\ pool.rev \in Nat /\ pool.top \in Nat /\ stack \in Nat
  BY <1>0 DEF PoolOK, PlainOK, Rev
<1>4. pool.rev <= Newest' /\ pool.top <= Newest'
  BY <1>0, <1>3 DEF PoolOK
<1>5. pool.st = "ready" => /\ pool.top # 0 /\ (pool.top = 0 \/ Loads(git'[pool.top]))
                           /\ IF mode = "FRESH" THEN pool.top = pool.rev ELSE pool.top \in seen'
  BY <1>0, <1>1, <1>2, <1>3 DEF PoolOK, Pinned
<1>6. stack # 0 => stack <= Newest' /\ IF mode = "FRESH" THEN stack = pool.rev ELSE stack \in seen'
  BY <1>0, <1>2, <1>3 DEF PoolOK, Pinned
<1>7. inst # NoInst =>
          /\ inst.top # 0 /\ inst.top <= Newest' /\ Loads(git'[inst.top])
          /\ IF mode = "FRESH" THEN inst.top = pool.rev ELSE inst.top \in seen'
  BY <1>0, <1>1, <1>2, <1>3 DEF PoolOK, Pinned
<1>8. mode = "FRESH" /\ inst # NoInst =>
          inst.boxes = pool.rev \/ git'[pool.rev].boxes = None \/ faults' > 0
  <2> SUFFICES ASSUME mode = "FRESH", inst # NoInst
               PROVE  inst.boxes = pool.rev \/ git'[pool.rev].boxes = None \/ faults' > 0
    OBVIOUS
  <2>1. pool.rev \in 1..Newest /\ BoxesFrom(inst.boxes)
    BY <1>0, <1>3 DEF PoolOK, PlainOK
  <2>2. git'[pool.rev] = git[pool.rev] /\ faults <= faults' /\ faults' \in Nat
    BY <2>1 DEF Grows
  <2> QED BY <1>0, <2>1, <2>2 DEF BoxesFrom
<1>9. usage[1] = "commit" => usage[2] <= Newest' /\
          IF mode = "FRESH" THEN usage[2] >= pool.rev ELSE usage[2] \in seen'
  <2>1. usage[1] = "commit" => usage[2] \in Commit
    BY <1>0 DEF PlainOK
  <2>2. usage[1] = "commit" => usage[2] \in Nat /\ usage[2] <= Newest /\ From("usage", usage[2])
    BY <1>0, <2>1 DEF PoolOK, Commit
  <2> QED BY <1>0, <1>2, <2>2
<1>10. usage[1] = "error" => faults' > 0 \/ Newest' > 1
  BY <1>0 DEF PoolOK, Grows
<1>11. /\ pool.st = "none" => pool = NoPool
       /\ pool.st # "none" => IF mode = "FRESH" THEN pool.rev # 0 ELSE pool.rev = 0
       /\ pool' = pool /\ stack' = stack /\ inst' = inst /\ usage' = usage
  BY <1>0 DEF PoolOK
<1> QED BY <1>0, <1>3, <1>4, <1>5, <1>6, <1>7, <1>8, <1>9, <1>10, <1>11
        DEF PoolOK, Fine, From, BoxesFrom, Pinned

\* The cache stays as it is.
LEMMA TopoStays ==
    ASSUME DefinitionInv, GitOK', Grows, UNCHANGED <<topo, seen>> PROVE TopoOK'
<1>0. /\ TopoOK /\ GitOK /\ topo \in [Rev -> Rev] /\ mode' = mode
      /\ Newest \in Nat /\ Newest' \in Nat /\ Newest <= Newest'
  BY Numbers DEF DefinitionInv, PlainOK, Grows, GitOK, Newest
<1>1. ASSUME NEW k \in Rev PROVE topo[k] <= Newest' /\ (topo[k] = 0 \/ Loads(git'[topo[k]]))
  BY <1>0, FineStays DEF TopoOK
<1>2. seen \subseteq 1..Newest'
  BY <1>0 DEF TopoOK
<1> QED BY <1>0, <1>1, <1>2 DEF TopoOK, Fine

\* A step that leaves the repository and what was seen alone.
LEMMA StillGrows ==
    ASSUME DefinitionInv, UNCHANGED <<mode, git, seen>>, faults' \in {faults, faults + 1}
    PROVE  Grows /\ GitOK' /\ Newest' = Newest /\ faults' \in Nat /\ faults <= faults'
<1>1. faults \in Nat
  BY DefinitionsAssumption DEF DefinitionInv, PlainOK
<1>2. faults' \in Nat /\ faults <= faults'
  BY <1>1
<1>3. GitOK' /\ Newest' = Newest
  BY DEF DefinitionInv, GitOK, Newest
<1>4. Newest \in Nat
  BY Numbers DEF DefinitionInv
<1> QED BY <1>2, <1>3, <1>4 DEF Grows

\* Whoever does nothing is fine.
LEMMA IdleOK == ASSUME GitOK', NEW a \in Actor, call'[a] = Idle PROVE CallOK(a)'
<1>1. Newest' \in Nat
  BY Numbers DEF GitOK, Newest
<1>2. "none" \in Role[a] /\ << >> \in Remaining["none"]
  BY DEF Role, Actor, Remaining
<1> QED BY <1>1, <1>2 DEF Idle, CallOK, Fine

\* So is whoever begins.
LEMMA BegunOK ==
    ASSUME GitOK', NEW a \in Actor, NEW t \in DOMAIN Plan, t \in Role[a],
           call'[a] = [Idle EXCEPT !.what = t, !.todo = Plan[t]]
    PROVE  CallOK(a)' /\ call'[a].what = t
<1>1. Newest' \in Nat
  BY Numbers DEF GitOK, Newest
<1>2. Plan[t] \in Remaining[t] /\ Plan["stage"] \notin {<<"inst">>, << >>}
      /\ Plan["mgmt"] \notin {<<"inst">>, << >>}
  BY DEF Plan, Remaining
<1>3. /\ call'[a].what = t /\ call'[a].todo = Plan[t] /\ call'[a].at = "next" /\ call'[a].key = 0
      /\ call'[a].got = 0 /\ call'[a].top = 0 /\ call'[a].head = 0
  BY DEF Idle
<1> QED BY <1>1, <1>2, <1>3 DEF CallOK, Fine

\* One task takes a step, the others go on as they were.
LEMMA OneSteps ==
    ASSUME DefinitionInv, GitOK', Grows, NEW a \in Actor, CallOK(a)',
           \A b \in Actor \ {a} : call'[b] = call[b],
           \A b \in Actor \ {a} : call[b].what \in Pinned \cup {"usage"} => pool'.rev = pool.rev
    PROVE  \A b \in Actor : CallOK(b)'
<1> SUFFICES ASSUME NEW b \in Actor, b # a PROVE CallOK(b)'
  OBVIOUS
<1> QED BY CallStays

\* If nobody begins or ends, and the pool stays, the tasks have what they need.
LEMMA SameTasks ==
    ASSUME DefinitionInv, NEW a \in Actor, call'[a].what = call[a].what,
           \A b \in Actor \ {a} : call'[b] = call[b],
           UNCHANGED <<pool, stack, passed, fail, usage>>
    PROVE  TasksOK'
<1>1. \A b \in Actor : call'[b].what = call[b].what
  OBVIOUS
<1>2. Do("chain")' = Do("chain") /\ Do("reader")' = Do("reader")
  BY <1>1 DEF Do, Actor
<1> QED BY <1>2 DEF DefinitionInv, TasksOK

-----------------------------------------------------------------------------
(* The steps of a task *)

\* The key under which a task looks for its definition.
LEMMA KeyOK ==
    ASSUME DefinitionInv, NEW a \in Actor, call[a].what # "none"
    PROVE  /\ Key(RevOf(call[a].what)) \in 0..Newest /\ Key(RevOf(call[a].what)) \in Rev
           /\ KeyFrom(call[a].what, Key(RevOf(call[a].what)))
<1> DEFINE t == call[a].what
<1>0. /\ Newest \in Nat /\ 1 <= Newest /\ Newest <= MaxCommits /\ MaxCommits \in Nat
      /\ call[a] \in Call /\ t \in Task
  BY Numbers DEF DefinitionInv, PlainOK, Call
<1>1. CASE t \in {"import", "usage", "show"}
  <2>1. Key(RevOf(t)) = IF mode = "FRESH" THEN Newest ELSE 0
    BY <1>1 DEF Key, RevSha, RevOf, CommitAt, Branch
  <2>2. t = "usage" => pool.rev \in Nat /\ pool.rev <= Newest
    BY PinnedPool DEF Rev
  <2> QED BY <1>0, <1>1, <2>1, <2>2 DEF KeyFrom, Pinned, Rev, Branch
<1>2. CASE t \in Pinned
  <2>1. Key(RevOf(t)) = IF mode = "FRESH" THEN CommitAt(pool.rev) ELSE pool.rev
    BY <1>2 DEF Key, RevSha, RevOf, Pinned
  <2>2. /\ mode = "FRESH" => pool.rev \in 1..Newest
        /\ mode # "FRESH" => pool.rev = 0
    BY <1>2, PinnedPool
  <2>3. mode = "FRESH" => Key(RevOf(t)) = pool.rev
    BY <1>0, <2>1, <2>2 DEF CommitAt, Branch
  <2> QED BY <1>0, <1>2, <2>1, <2>2, <2>3 DEF KeyFrom, Pinned, Rev, Branch
<1> QED BY <1>0, <1>1, <1>2, Tasks DEF Pinned

\* The containers come after the definition, and the instance after both.
LEMMA DefFirst ==
    ASSUME NEW t \in {"stage", "mgmt"}, NEW todo \in Remaining[t], todo # << >>
    PROVE  /\ todo[1] = "def" => Tail(todo) \notin {<<"inst">>, << >>}
           /\ todo[1] = "inst" => todo = <<"inst">>
<1>1. Remaining[t] = {<<"def", "boxes", "inst">>, <<"boxes", "inst">>, <<"inst">>, << >>}
  BY DEF Remaining
<1>2. CASE todo = <<"def", "boxes", "inst">>
  <2>1. Tail(<<"def", "boxes", "inst">>) = <<"boxes", "inst">>
    OBVIOUS
  <2> QED BY <1>2, <2>1
<1>3. CASE todo = <<"boxes", "inst">>
  BY <1>3
<1>4. CASE todo = <<"inst">>
  BY <1>4
<1> QED BY <1>1, <1>2, <1>3, <1>4

\* A step of the plan is done with commits that may be used.
LEMMA FoundOK ==
    ASSUME DefinitionInv, GitOK', Grows, NEW a \in Actor, NEW n \in Rev, NEW boxes \in Rev,
           call[a].what # "none", call[a].todo # << >>, Found(a, n, boxes),
           n # 0, n <= Newest', Loads(git'[n]),
           IF mode' = "FRESH"
           THEN (call[a].what \in Pinned => n = pool'.rev) /\ (call[a].what = "usage" => n >= pool'.rev)
           ELSE n \in seen',
           call[a].what \in {"stage", "mgmt"} /\ mode' = "FRESH"
              /\ Tail(call[a].todo) \in {<<"inst">>, << >>} =>
                 boxes = pool'.rev \/ git'[pool'.rev].boxes = None \/ faults' > 0
    PROVE  /\ call' \in [Actor -> Call] /\ \A b \in Actor \ {a} : call'[b] = call[b]
           /\ call'[a].what = call[a].what /\ CallOK(a)'
<1>0. /\ call \in [Actor -> Call] /\ CallOK(a) /\ call[a].what \in Task
      /\ Newest \in Nat /\ Newest' \in Nat /\ Newest <= Newest'
  BY Numbers DEF DefinitionInv, PlainOK, Call, GitOK, Newest, Grows
<1>1. /\ call[a].todo \in Remaining[call[a].what] /\ call[a].what \in Role[a]
      /\ call[a].head \in 0..Newest
  BY <1>0 DEF CallOK
<1>2. /\ call' \in [Actor -> Call] /\ \A b \in Actor \ {a} : call'[b] = call[b]
      /\ call'[a].what = call[a].what /\ call'[a].todo = Tail(call[a].todo)
      /\ call'[a].at = "next" /\ call'[a].key = 0 /\ call'[a].got = 0
      /\ call'[a].top = n /\ call'[a].boxes = boxes /\ call'[a].head = call[a].head
  BY <1>0, <1>1, FoundCall
<1>3. {call'[a].key, call'[a].got, call'[a].top, call'[a].head} \subseteq 0..Newest'
  BY <1>0, <1>1, <1>2 DEF Rev
<1>4. Fine(call[a].top)'
  BY <1>2 DEF Fine
<1>5. call'[a].top # 0 /\ From(call[a].what, call[a].top)'
  BY <1>2 DEF From
<1>6. call'[a].what \in Role[a] /\ call'[a].todo \in Remaining[call'[a].what]
  BY <1>0, <1>1, <1>2, Progress, Zenon
<1>7. (mode' = "FRESH" /\ call'[a].what \in {"stage", "mgmt"}
          /\ call'[a].todo \in {<<"inst">>, << >>}) => BoxesFrom(call[a].boxes)'
  <2>1. SUFFICES ASSUME mode' = "FRESH", call'[a].what \in {"stage", "mgmt"},
                        call'[a].todo \in {<<"inst">>, << >>}
                 PROVE  BoxesFrom(call[a].boxes)'
    OBVIOUS
  <2>2. boxes = pool'.rev \/ git'[pool'.rev].boxes = None \/ faults' > 0
    BY <1>2, <2>1
  <2> QED BY <1>2, <2>2 DEF BoxesFrom
<1>8. CallOK(a)'
  BY <1>2, <1>3, <1>4, <1>5, <1>6, <1>7 DEF CallOK
<1> QED BY <1>2, <1>8

\* A task looks into the cache.
LEMMA LookOK == ASSUME DefinitionInv, NEW a \in Actor, Look(a) PROVE DefinitionInv'
<1> DEFINE t == call[a].what
           key == Key(RevOf(t))
<1>0. /\ PlainOK /\ GitOK /\ TopoOK /\ PoolOK /\ TasksOK /\ CallOK(a)
      /\ call \in [Actor -> Call] /\ call[a] \in Call /\ t # "none" /\ t \in Task
      /\ call[a].todo # << >> /\ call[a].todo[1] = "def" /\ call[a].todo \in Remaining[t]
      /\ Newest \in Nat /\ Newest \in Rev /\ topo \in [Rev -> Rev]
  BY Numbers DEF DefinitionInv, PlainOK, CallOK, Call, Look, At, Free, Do
<1>1. key \in 0..Newest /\ key \in Rev /\ KeyFrom(t, key)
  BY <1>0, KeyOK
<1>2. UNCHANGED <<envVars, expired, topo, row, pool, boxVars, usage, seen, raced>>
  BY DEF Look
<1>3. Grows /\ GitOK' /\ Newest' = Newest
  BY <1>2, StillGrows DEF envVars
<1>4. TopoOK' /\ PoolOK'
  BY <1>2, <1>3, TopoStays, PoolStays DEF boxVars
<1>5. ASSUME NEW n \in Rev, n = topo[key], n # 0, Found(a, n, call[a].boxes)
      PROVE  /\ call' \in [Actor -> Call] /\ \A b \in Actor \ {a} : call'[b] = call[b]
             /\ call'[a].what = t /\ CallOK(a)'
  <2>1. From(t, n) /\ Fine(n)
    BY <1>0, <1>1, <1>5 DEF TopoOK, From, KeyFrom, Branch
  <2>2. call[a].boxes \in Rev
    BY <1>0 DEF Call
  <2>3. t \in {"stage", "mgmt"} => Tail(call[a].todo) \notin {<<"inst">>, << >>}
    BY <1>0, DefFirst
  <2>4. UNCHANGED <<mode, git, pool, seen>>
    BY <1>2 DEF envVars
  <2> QED BY <1>0, <1>3, <1>5, <2>1, <2>2, <2>3, <2>4, FoundOK DEF Fine, From
<1>6. ASSUME NEW head \in {Newest, 0},
             call' = [call EXCEPT ![a] = [@ EXCEPT !.at = "fetch", !.key = key, !.head = head]]
      PROVE  /\ call' \in [Actor -> Call] /\ \A b \in Actor \ {a} : call'[b] = call[b]
             /\ call'[a].what = t /\ CallOK(a)'
  <2> DEFINE r == [call[a] EXCEPT !.at = "fetch", !.key = key, !.head = head]
  <2>1. head \in Rev /\ head \in 0..Newest
    BY <1>0, DefinitionsAssumption DEF Rev
  <2>2. r \in Call
    BY <1>0, <1>1, <2>1 DEF Call
  <2>3. /\ r.what = t /\ r.todo = call[a].todo /\ r.at = "fetch" /\ r.key = key
        /\ r.got = call[a].got /\ r.top = call[a].top /\ r.boxes = call[a].boxes /\ r.head = head
    BY <1>0 DEF Call
  <2> HIDE DEF r
  <2>4. call' \in [Actor -> Call] /\ call'[a] = r /\ \A b \in Actor \ {a} : call'[b] = call[b]
    BY <1>0, <1>6, <2>2 DEF r
  <2>5. /\ (mode = "FRESH")' = (mode = "FRESH") /\ UNCHANGED <<pool, seen, git, faults, mode>>
    BY <1>2 DEF envVars
  <2> QED BY <1>0, <1>1, <1>3, <2>1, <2>3, <2>4, <2>5 DEF CallOK, Fine, From, KeyFrom, BoxesFrom, Newest
<1>7. /\ call' \in [Actor -> Call] /\ \A b \in Actor \ {a} : call'[b] = call[b]
      /\ call'[a].what = t /\ CallOK(a)' /\ imported' \in Rev
  <2>1. CASE topo[key] # 0 /\ ~Forced(a)
    <3>1. Returns(a, topo[key], Newest)
      BY <2>1 DEF Look, Do
    <3>2. topo[key] \in Rev
      BY <1>0, <1>1
    <3> QED BY <1>0, <1>5, <2>1, <3>1, <3>2 DEF Returns, PlainOK
  <2>2. CASE ~(topo[key] # 0 /\ ~Forced(a))
    <3>1. /\ \/ call' = [call EXCEPT ![a] = [@ EXCEPT !.at = "fetch", !.key = key, !.head = Newest]]
             \/ call' = [call EXCEPT ![a] = [@ EXCEPT !.at = "fetch", !.key = key, !.head = 0]]
          /\ imported' = imported
      BY <2>2 DEF Look, Do
    <3> QED BY <1>0, <1>6, <3>1 DEF PlainOK
  <2> QED BY <2>1, <2>2
<1>8. \A b \in Actor : CallOK(b)'
  BY <1>2, <1>3, <1>7, OneSteps
<1>9. TasksOK'
  BY <1>2, <1>7, SameTasks DEF boxVars
<1>10. PlainOK'
  BY <1>0, <1>2, <1>7 DEF PlainOK, envVars, boxVars
<1> QED BY <1>3, <1>4, <1>8, <1>9, <1>10 DEF DefinitionInv

\* A task fails: what it leaves behind is an error, or nothing.
LEMMA FailsOK ==
    ASSUME DefinitionInv, NEW a \in Actor, ~Free(a), NEW why \in {"git", "lost"}, Fails(a, why),
           faults' \in {faults, faults + 1}, faults' \in 0..MaxTrouble,
           call[a].what = "usage" => faults' > 0 \/ Newest > 1
    PROVE  DefinitionInv'
<1> DEFINE t == call[a].what
<1>0. /\ PlainOK /\ GitOK /\ TopoOK /\ PoolOK /\ TasksOK /\ CallOK(a)
      /\ call \in [Actor -> Call] /\ t # "none" /\ t \in Role[a] /\ Newest \in Nat
  BY Numbers DEF DefinitionInv, PlainOK, CallOK, Free, Do
<1>1. UNCHANGED <<mode, git, expired, topo, row, stack, inst, passed, history>>
  BY DEF Fails
<1>2. Grows /\ GitOK' /\ Newest' = Newest /\ faults' \in Nat /\ faults <= faults'
  BY <1>1, StillGrows DEF history
<1>3. /\ call' \in [Actor -> Call] /\ call'[a] = Idle /\ call'[a].what = "none"
      /\ \A b \in Actor \ {a} : call'[b] = call[b]
  BY <1>0, EndsCall DEF Fails, Idle
<1>4. /\ pool' = IF t = "pool" THEN NoPool ELSE pool
      /\ usage' = IF t = "usage" THEN <<"error", 0>> ELSE usage
      /\ fail' = IF t \in {"stack", "stage"} THEN why ELSE fail
  BY DEF Fails, Do
<1>5. /\ t = "pool" => a = "chain" /\ pool.st = "saved" /\ stack = 0 /\ inst = NoInst
      /\ t = "usage" => a = "reader" /\ pool.st = "ready"
      /\ t \in {"stack", "stage"} => a = "chain"
      /\ t = "mgmt" => a = "reader"
  <2>1. /\ a = "import" => t \in {"none", "import"}
        /\ a = "chain" => t \in {"none", "pool", "stack", "stage"}
        /\ a = "reader" => t \in {"none", "show", "usage", "mgmt"}
        /\ a \in {"import", "chain", "reader"}
    BY <1>0 DEF Role, Actor
  <2>2. a = "chain" => t = Do("chain")
    BY DEF Do
  <2>3. a = "reader" => t = Do("reader")
    BY DEF Do
  <2> HIDE DEF t
  <2>4. t = "pool" => a = "chain" /\ pool.st = "saved"
    BY <1>0, <2>1, <2>2 DEF TasksOK
  <2>5. pool.st = "saved" => stack = 0 /\ inst = NoInst
    BY <1>0 DEF PlainOK
  <2>6. t = "usage" => a = "reader" /\ pool.st = "ready"
    BY <1>0, <2>1, <2>3 DEF TasksOK
  <2> QED BY <2>1, <2>4, <2>5, <2>6
<1>6. TopoOK' /\ CallOK(a)'
  <2>1. CallOK(a)'
    <3>1. GitOK' /\ call'[a] = Idle
      BY <1>2, <1>3
    <3> QED BY <3>1, IdleOK, Zenon
  <2>2. UNCHANGED <<topo, seen>>
    BY <1>1 DEF history
  <2> QED BY <1>2, <2>1, <2>2, TopoStays
<1>7. ASSUME NEW b \in Actor, b # a, call[b].what \in Pinned \cup {"usage"} PROVE pool'.rev = pool.rev
  <2>1. t # "pool"
    <3> SUFFICES ASSUME t = "pool" PROVE FALSE
      OBVIOUS
    <3>1. a = "chain" /\ pool.st # "ready" /\ b = "reader" /\ call[b].what \in Role[b]
      BY <1>5, <1>7, PinnedPool DEF Actor, DefinitionInv, CallOK
    <3>2. call[b].what # "pool"
      BY <3>1 DEF Role
    <3> QED BY <1>7, <3>1, <3>2, PinnedPool
  <2> QED BY <1>4, <2>1
<1>8. \A b \in Actor : CallOK(b)'
  BY <1>2, <1>3, <1>6, <1>7, OneSteps
<1>9. /\ Do("chain")' = (IF a = "chain" THEN "none" ELSE Do("chain"))
      /\ Do("reader")' = (IF a = "reader" THEN "none" ELSE Do("reader"))
  BY <1>3 DEF Do, Actor
<1>10. CASE t \notin {"pool", "usage"}
  <2>1. UNCHANGED <<pool, stack, inst, usage>>
    BY <1>1, <1>4, <1>10
  <2>2. PoolOK'
    BY <1>2, <2>1, PoolStays
  <2>3. t \in {"stack", "stage"} => Do("chain")' = "none"
    BY <1>5, <1>9
  <2>4. Do("chain") = "pool" => a # "chain"
    BY <1>10 DEF Do
  <2>5. TasksOK'
    BY <1>0, <1>1, <1>4, <1>5, <1>9, <2>1, <2>3, <2>4 DEF TasksOK
  <2>6. PlainOK'
    BY <1>0, <1>1, <1>3, <1>4, <2>1 DEF PlainOK, history
  <2> QED BY <1>2, <1>6, <1>8, <2>2, <2>5, <2>6 DEF DefinitionInv
<1>11. CASE t = "pool"
  <2>1. /\ pool' = NoPool /\ usage' = usage /\ fail' = fail /\ stack' = 0 /\ inst' = NoInst
        /\ usage = <<"unset", 0>> /\ NoPool.st = "none"
    BY <1>0, <1>1, <1>4, <1>5, <1>11 DEF TasksOK, NoPool
  <2>2. Do("reader") \notin {"mgmt", "usage"}
    BY <1>0, <1>5, <1>11 DEF TasksOK
  <2>3. PoolOK'
    <3>1. 0 \in Rev
      BY DefinitionsAssumption DEF Rev
    <3> QED BY <1>2, <1>0, <2>1, <3>1 DEF PoolOK, NoPool
  <2>4. TasksOK'
    BY <1>5, <1>9, <1>11, <2>1, <2>2 DEF TasksOK
  <2>5. PlainOK'
    BY <1>0, <1>1, <1>3, <2>1 DEF PlainOK, history
  <2> QED BY <1>2, <1>6, <1>8, <2>3, <2>4, <2>5 DEF DefinitionInv
<1>12. CASE t = "usage"
  <2>1. pool' = pool /\ usage' = <<"error", 0>> /\ fail' = fail /\ pool.st = "ready"
    BY <1>4, <1>5, <1>12
  <2>2. PoolOK'
    <3>1. \/ usage' = usage
          \/ usage' # usage
      OBVIOUS
    <3> QED BY <1>0, <1>1, <1>2, <1>4, <1>12, <2>1 DEF PoolOK, From, Fine, BoxesFrom, history, Newest
  <2>3. TasksOK'
    BY <1>0, <1>1, <1>5, <1>9, <1>12, <2>1 DEF TasksOK
  <2>4. PlainOK'
    BY <1>0, <1>1, <1>3, <2>1 DEF PlainOK, history
  <2> QED BY <1>2, <1>6, <1>8, <2>2, <2>3, <2>4 DEF DefinitionInv
<1> QED BY <1>10, <1>11, <1>12

\* The commit a task fetches.
LEMMA FetchedCommit ==
    ASSUME DefinitionInv, NEW a \in Actor, call[a].at = "fetch"
    PROVE  /\ CommitAt(call[a].key) \in 1..Newest
           /\ mode = "FRESH" => CommitAt(call[a].key) = call[a].key
<1>1. /\ CallOK(a) /\ Newest \in Nat /\ 1 <= Newest
  BY Numbers DEF DefinitionInv
<1>2. call[a].key \in 0..Newest /\ (mode = "FRESH" => call[a].key # 0)
  BY <1>1 DEF CallOK, KeyFrom
<1> QED BY <1>1, <1>2 DEF CommitAt, Branch

\* A task fetches the file of its definition.
LEMMA FetchOK == ASSUME DefinitionInv, NEW a \in Actor, Fetch(a) PROVE DefinitionInv'
<1> DEFINE commit == CommitAt(call[a].key)
<1>0. /\ PlainOK /\ GitOK /\ TopoOK /\ PoolOK /\ TasksOK /\ CallOK(a)
      /\ call \in [Actor -> Call] /\ call[a] \in Call /\ call[a].at = "fetch"
      /\ Newest \in Nat /\ 1 <= Newest /\ Newest \in Rev /\ faults \in 0..MaxTrouble
      /\ call[a].what # "none" /\ call[a].todo # << >>
  BY Numbers DEF DefinitionInv, PlainOK, CallOK, Call, Fetch, FetchAt
<1>1. commit \in 1..Newest /\ commit \in Rev /\ (mode = "FRESH" => commit = call[a].key)
  BY <1>0, FetchedCommit, Numbers DEF Rev
<1>2. faults' = faults
  BY DEF Fetch, FetchAt
<1>3. CASE Loads(git[commit])
  <2> DEFINE r == [call[a] EXCEPT !.at = "store", !.got = commit]
  <2>1. /\ call' = [call EXCEPT ![a] = r]
        /\ UNCHANGED <<pool, usage, fail, mode, git, expired, topo, row, stack, inst, passed, history>>
    BY <1>3 DEF Fetch, FetchAt
  <2>2. r \in Call
    BY <1>0, <1>1 DEF Call
  <2>3. /\ r.what = call[a].what /\ r.todo = call[a].todo /\ r.at = "store" /\ r.key = call[a].key
        /\ r.got = commit /\ r.top = call[a].top /\ r.boxes = call[a].boxes /\ r.head = call[a].head
    BY <1>0 DEF Call
  <2>4. call' \in [Actor -> Call] /\ call'[a] = r
    BY <1>0, <2>1, <2>2
  <2>5. \A b \in Actor \ {a} : call'[b] = call[b]
    BY <1>0, <2>1
  <2>6. Grows /\ GitOK' /\ Newest' = Newest
    BY <1>2, <2>1, StillGrows DEF history
  <2>7. TopoOK' /\ PoolOK'
    BY <2>1, <2>6, TopoStays, PoolStays DEF history
  <2> HIDE DEF r, commit
  <2>8. CallOK(a)'
    <3>1. /\ {call'[a].key, call'[a].got, call'[a].top, call'[a].head} \subseteq 0..Newest'
          /\ call'[a].got # 0
      BY <1>0, <1>1, <2>3, <2>4, <2>6 DEF CallOK
    <3>2. UNCHANGED <<pool, seen, git, faults, mode>>
      BY <1>2, <2>1 DEF history
    <3>3. Fine(call[a].got)'
      BY <1>1, <1>3, <2>3, <2>4, <2>6, <3>2 DEF Fine
    <3>4. mode' = "FRESH" => call'[a].got = call'[a].key
      BY <1>1, <2>3, <2>4, <3>2
    <3> QED BY <1>0, <2>3, <2>4, <2>6, <3>1, <3>2, <3>3, <3>4
            DEF CallOK, Fine, From, KeyFrom, BoxesFrom, Newest
  <2>9. \A b \in Actor : CallOK(b)'
    BY <2>1, <2>5, <2>6, <2>8, OneSteps
  <2>10. TasksOK'
    BY <2>1, <2>3, <2>4, <2>5, SameTasks
  <2>11. PlainOK'
    BY <1>0, <1>2, <2>1, <2>4 DEF PlainOK, history
  <2> QED BY <2>6, <2>7, <2>9, <2>10, <2>11 DEF DefinitionInv
<1>4. CASE ~Loads(git[commit])
  <2>1. Fails(a, "git")
    BY <1>4 DEF Fetch, FetchAt
  <2>2. call[a].what = "usage" => Newest > 1
    <3> SUFFICES ASSUME call[a].what = "usage", Newest = 1 PROVE FALSE
      BY <1>0
    <3>1. pool.st = "ready" /\ pool.top \in Rev /\ pool.top # 0
      BY <1>0, PinnedPool DEF PoolOK
    <3>2. pool.top = 1 /\ Loads(git[pool.top])
      BY <1>0, <3>1 DEF PoolOK, Fine, Rev
    <3>3. commit = 1
      BY <1>1
    <3> QED BY <1>4, <3>2, <3>3
  <2> QED BY <1>0, <1>2, <2>1, <2>2, FailsOK DEF Free, Do
<1> QED BY <1>3, <1>4

\* A git call fails.
LEMMA GitFailsOK == ASSUME DefinitionInv, NEW a \in Actor, GitFails(a) PROVE DefinitionInv'
<1>1. call[a].what # "none"
  BY DEF GitFails, DefinitionInv, CallOK, At, Free, Do
<1>2. /\ faults \in Nat /\ expired \in Nat /\ MaxTrouble \in Nat
  BY DefinitionsAssumption DEF DefinitionInv, PlainOK
<1>3. faults' = faults + 1 /\ faults + 1 \in 0..MaxTrouble /\ faults' > 0 /\ Fails(a, "git")
  BY <1>2 DEF GitFails
<1> QED BY <1>1, <1>3, FailsOK DEF Free, Do

\* A task stores what it has fetched.
LEMMA StoreOK == ASSUME DefinitionInv, NEW a \in Actor, Store(a) PROVE DefinitionInv'
<1> DEFINE c == call[a]
<1>0. /\ PlainOK /\ GitOK /\ TopoOK /\ PoolOK /\ TasksOK /\ CallOK(a)
      /\ call \in [Actor -> Call] /\ c \in Call /\ c.at = "store" /\ topo \in [Rev -> Rev]
      /\ Newest \in Nat /\ faults \in Nat
  BY Numbers, DefinitionsAssumption DEF DefinitionInv, PlainOK, Store
<1>1. /\ c.what # "none" /\ c.todo # << >> /\ c.todo[1] = "def" /\ KeyFrom(c.what, c.key)
      /\ c.got # 0 /\ Fine(c.got) /\ (mode = "FRESH" => c.got = c.key)
      /\ c.got \in Rev /\ c.key \in Rev /\ c.boxes \in Rev /\ c.head \in Rev /\ c.got \in 1..Newest
      /\ c.todo \in Remaining[c.what]
  BY <1>0 DEF CallOK, Call, Rev
<1>2. /\ UNCHANGED <<envVars, expired, row, pool, boxVars, usage>>
      /\ topo' = [topo EXCEPT ![c.key] = c.got]
      /\ seen' = IF c.key = Branch THEN seen \cup {c.got} ELSE seen
      /\ Found(a, c.got, c.boxes) /\ imported' \in {imported, c.head} /\ raced' \in BOOLEAN
  BY <1>0 DEF Store, Returns, PlainOK
<1>3. Grows /\ GitOK' /\ Newest' = Newest
  <2>1. UNCHANGED <<mode, git, faults>> /\ seen \subseteq seen'
    BY <1>2 DEF envVars
  <2> QED BY <1>0, <2>1 DEF Grows, GitOK, Newest
<1>4. mode # "FRESH" => c.key = Branch /\ c.got \in seen'
  BY <1>1, <1>2 DEF KeyFrom
<1>5. TopoOK'
  <2>1. /\ topo' \in [Rev -> Rev] /\ topo'[c.key] = c.got
        /\ \A k \in Rev \ {c.key} : topo'[k] = topo[k]
    BY <1>0, <1>1, <1>2
  <2>2. UNCHANGED <<mode, git>> /\ Newest' = Newest /\ seen \subseteq seen'
    BY <1>2, <1>3 DEF envVars
  <2>3. \A k \in Rev : Fine(topo[k])'
    <3> SUFFICES ASSUME NEW k \in Rev PROVE topo'[k] = 0 \/ (topo'[k] <= Newest /\ Loads(git[topo'[k]]))
      BY <2>2 DEF Fine
    <3>1. topo'[k] \in {c.got, topo[k]}
      BY <2>1
    <3> QED BY <1>0, <1>1, <3>1 DEF TopoOK, Fine
  <2>4. mode = "FRESH" => \A k \in Rev : topo'[k] \in {0, k}
    BY <1>0, <1>1, <2>1 DEF TopoOK
  <2>5. mode # "FRESH" => topo'[Branch] \in seen' \cup {0}
    BY <1>4, <2>1
  <2>6. seen' \subseteq 1..Newest
    BY <1>0, <1>1, <1>2 DEF TopoOK
  <2> QED BY <2>2, <2>3, <2>4, <2>5, <2>6 DEF TopoOK
<1>6. PoolOK'
  BY <1>2, <1>3, PoolStays DEF boxVars
<1>7. /\ call' \in [Actor -> Call] /\ call'[a].what = call[a].what /\ CallOK(a)'
      /\ \A b \in Actor \ {a} : call'[b] = call[b]
  <2>1. UNCHANGED <<mode, git, pool>>
    BY <1>2 DEF envVars
  <2>2. c.what \in {"stage", "mgmt"} => Tail(c.todo) \notin {<<"inst">>, << >>}
    BY <1>1, DefFirst
  <2>3. c.got <= Newest' /\ Loads(git'[c.got])
    BY <1>0, <1>1, <1>3, <2>1 DEF Fine
  <2>4. IF mode' = "FRESH"
        THEN (c.what \in Pinned => c.got = pool'.rev) /\ (c.what = "usage" => c.got >= pool'.rev)
        ELSE c.got \in seen'
    BY <1>1, <1>4, <2>1 DEF KeyFrom
  <2> QED BY <1>1, <1>2, <1>3, <2>2, <2>3, <2>4, FoundOK
<1>8. \A b \in Actor : CallOK(b)'
  BY <1>2, <1>3, <1>7, OneSteps
<1>9. TasksOK'
  BY <1>2, <1>7, SameTasks DEF boxVars
<1>10. PlainOK'
  <2>1. topo' \in [Rev -> Rev] /\ imported' \in Rev
    BY <1>0, <1>1, <1>2 DEF PlainOK
  <2> QED BY <1>0, <1>2, <1>7, <2>1 DEF PlainOK, envVars, boxVars
<1> QED BY <1>3, <1>5, <1>6, <1>8, <1>9, <1>10 DEF DefinitionInv

\* Every plan begins with the definition, and only two end with an instance.
LEMMA PlanStarts ==
    ASSUME NEW t \in Task, NEW todo \in Remaining[t], todo # << >>
    PROVE  /\ todo[1] # "def" => todo # Plan[t]
           /\ todo[1] = "inst" => t \in {"stage", "mgmt"} /\ todo = <<"inst">>
           /\ << >> \in Remaining["pool"] /\ << >> # Plan["pool"]
<1>1. t # "none"
  BY DEF Remaining
<1>2. Plan[t][1] = "def"
  BY <1>1, Tasks DEF Plan
<1>3. << >> \in Remaining["pool"] /\ << >> # Plan["pool"]
  BY DEF Remaining, Plan
<1>4. todo[1] = "inst" => t \in {"stage", "mgmt"}
  <2>1. CASE t = "import"
    <3>1. todo \in {<<"def", "def", "boxes">>, <<"def", "boxes">>, <<"boxes">>, << >>}
      BY <2>1 DEF Remaining
    <3> QED BY <3>1
  <2>2. CASE t = "pool"
    <3>1. todo \in {<<"def", "boxes", "def", "boxes">>, <<"boxes", "def", "boxes">>,
                    <<"def", "boxes">>, <<"boxes">>, << >>}
      BY <2>2 DEF Remaining
    <3> QED BY <3>1
  <2>3. CASE t \in {"stack", "usage"}
    <3>1. todo \in {<<"def">>, << >>}
      BY <2>3 DEF Remaining
    <3> QED BY <3>1
  <2>4. CASE t = "show"
    <3>1. todo \in {<<"def", "boxes">>, <<"boxes">>, << >>}
      BY <2>4 DEF Remaining
    <3> QED BY <3>1
  <2> QED BY <1>1, <2>1, <2>2, <2>3, <2>4, Tasks
<1>5. todo[1] = "inst" => todo = <<"inst">>
  BY <1>4, DefFirst
<1> QED BY <1>2, <1>3, <1>4, <1>5

\* A task looks up the containers.
LEMMA LoadBoxesOK == ASSUME DefinitionInv, NEW a \in Actor, LoadBoxes(a) PROVE DefinitionInv'
<1> DEFINE c == call[a]
           commit == CommitAt(RevOf(c.what))
<1>0. /\ PlainOK /\ GitOK /\ TopoOK /\ PoolOK /\ TasksOK /\ CallOK(a)
      /\ call \in [Actor -> Call] /\ c \in Call /\ c.at = "next" /\ c.what # "none" /\ c.what \in Task
      /\ c.todo # << >> /\ c.todo[1] = "boxes" /\ c.todo \in Remaining[c.what]
      /\ Newest \in Nat /\ faults \in Nat /\ expired \in Nat /\ MaxTrouble \in Nat
      /\ Newest \in Rev /\ 0 \in Rev /\ c.boxes \in Rev /\ c.top \in Rev
  <2>1. /\ PlainOK /\ GitOK /\ TopoOK /\ PoolOK /\ TasksOK /\ CallOK(a)
    BY DEF DefinitionInv
  <2>2. /\ call \in [Actor -> Call] /\ c \in Call /\ c.at = "next" /\ c.what # "none" /\ c.what \in Task
        /\ c.todo # << >> /\ c.todo[1] = "boxes" /\ c.todo \in Remaining[c.what]
    BY <2>1 DEF PlainOK, CallOK, Call, LoadBoxes, At, Free, Do
  <2>3. Newest \in Nat /\ Newest \in Rev /\ 0 \in Rev
    BY <2>1, Numbers, DefinitionsAssumption DEF Rev
  <2>4. faults \in Nat /\ expired \in Nat /\ MaxTrouble \in Nat
    BY <2>1, DefinitionsAssumption DEF PlainOK
  <2>5. c.boxes \in Rev /\ c.top \in Rev
    BY <2>2 DEF Call
  <2> QED BY <2>1, <2>2, <2>3, <2>4, <2>5
<1>1. /\ UNCHANGED <<mode, git, expired, topo, row, pool, boxVars, usage, history>>
  BY DEF LoadBoxes
<1>2. PICK lost \in {0, 1} :
        LET boxes == IF lost = 1 \/ git[commit].boxes = None THEN 0 ELSE commit
        IN /\ faults + lost + expired <= MaxTrouble /\ faults' = faults + lost
           /\ IF c.what = "pool" /\ boxes = 0
              THEN call' = [call EXCEPT ![a] = [@ EXCEPT !.todo = << >>, !.boxes = 0]]
              ELSE Found(a, c.top, boxes)
  BY DEF LoadBoxes, Do
<1> DEFINE boxes == IF lost = 1 \/ git[commit].boxes = None THEN 0 ELSE commit
<1>3. /\ faults' \in {faults, faults + 1} /\ faults' \in 0..MaxTrouble /\ (lost = 1 => faults' > 0)
  BY <1>0, <1>2
<1>4. Grows /\ GitOK' /\ Newest' = Newest
  BY <1>1, <1>3, StillGrows DEF history
<1>5. TopoOK' /\ PoolOK'
  BY <1>1, <1>4, TopoStays, PoolStays DEF history, boxVars
<1>6. c.top # 0 /\ From(c.what, c.top) /\ Fine(c.top)
  BY <1>0, PlanStarts DEF CallOK
<1>7. /\ commit \in Rev
      /\ mode = "FRESH" /\ c.what \in {"stage", "mgmt"} => commit = pool.rev
  <2>1. c.what \in Pinned => pool.rev \in Rev /\ (mode = "FRESH" => pool.rev \in 1..Newest)
    BY PinnedPool
  <2> QED BY <1>0, <2>1, Tasks DEF CommitAt, RevOf, Branch, Pinned
<1> HIDE DEF commit
<1>8. /\ call' \in [Actor -> Call] /\ call'[a].what = c.what /\ CallOK(a)'
      /\ \A b \in Actor \ {a} : call'[b] = call[b]
  <2>0. UNCHANGED <<mode, git, pool, seen>>
    BY <1>1 DEF history
  <2>1. CASE c.what = "pool" /\ boxes = 0
    <3> DEFINE r == [c EXCEPT !.todo = << >>, !.boxes = 0]
    <3>1. call' = [call EXCEPT ![a] = [@ EXCEPT !.todo = << >>, !.boxes = 0]]
      BY <1>2, <2>1
    <3>2. call' = [call EXCEPT ![a] = r]
      BY <1>0, <3>1
    <3>3. << >> \in Todo
      BY Tasks DEF Todo, Remaining
    <3>4. r \in Call
      BY <1>0, <3>3 DEF Call
    <3>5. /\ r.what = "pool" /\ r.todo = << >> /\ r.at = "next" /\ r.key = c.key
          /\ r.got = c.got /\ r.top = c.top /\ r.boxes = 0 /\ r.head = c.head
      BY <1>0, <2>1 DEF Call
    <3> HIDE DEF r
    <3>6. call' \in [Actor -> Call] /\ call'[a] = r /\ \A b \in Actor \ {a} : call'[b] = call[b]
      BY <1>0, <3>2, <3>4
    <3>7. {call'[a].key, call'[a].got, call'[a].top, call'[a].head} \subseteq 0..Newest'
      BY <1>0, <1>4, <3>5, <3>6 DEF CallOK
    <3>8. Fine(call[a].top)' /\ From(call[a].what, call[a].top)' /\ call'[a].top # 0
      BY <1>4, <1>6, <2>0, <2>1, <3>5, <3>6 DEF Fine, From
    <3>9. call'[a].what \in Role[a] /\ call'[a].todo \in Remaining[call'[a].what]
      <4>1. c.what \in Role[a] /\ << >> \in Remaining["pool"]
        BY <1>0, PlanStarts DEF CallOK
      <4> QED BY <2>1, <3>5, <3>6, <4>1
    <3>10. CallOK(a)'
      BY <3>5, <3>6, <3>7, <3>8, <3>9 DEF CallOK
    <3> QED BY <2>1, <3>5, <3>6, <3>10
  <2>2. CASE ~(c.what = "pool" /\ boxes = 0)
    <3>1. Found(a, c.top, boxes) /\ boxes \in Rev
      BY <1>0, <1>2, <1>7, <2>2
    <3>2. c.top <= Newest' /\ Loads(git'[c.top])
      BY <1>4, <1>6, <2>0 DEF Fine
    <3>3. IF mode' = "FRESH"
          THEN (c.what \in Pinned => c.top = pool'.rev) /\ (c.what = "usage" => c.top >= pool'.rev)
          ELSE c.top \in seen'
      BY <1>6, <2>0 DEF From
    <3>4. c.what \in {"stage", "mgmt"} /\ mode' = "FRESH" =>
              boxes = pool'.rev \/ git'[pool'.rev].boxes = None \/ faults' > 0
      BY <1>3, <1>7, <2>0
    <3> HIDE DEF boxes
    <3> QED BY <1>0, <1>4, <1>6, <3>1, <3>2, <3>3, <3>4, FoundOK
  <2> QED BY <2>1, <2>2
<1>9. \A b \in Actor : CallOK(b)'
  BY <1>1, <1>4, <1>8, OneSteps
<1>10. TasksOK'
  BY <1>1, <1>8, SameTasks DEF boxVars
<1>11. PlainOK'
  BY <1>0, <1>1, <1>3, <1>8 DEF PlainOK, history, boxVars
<1> QED BY <1>4, <1>5, <1>9, <1>10, <1>11 DEF DefinitionInv

\* A task looks up the topology instance.
LEMMA FindOK == ASSUME DefinitionInv, NEW a \in Actor, FindInstance(a) PROVE DefinitionInv'
<1> DEFINE c == call[a]
<1>0. /\ PlainOK /\ GitOK /\ TopoOK /\ PoolOK /\ TasksOK /\ CallOK(a)
      /\ call \in [Actor -> Call] /\ c \in Call /\ c.at = "next" /\ c.what # "none" /\ c.what \in Task
      /\ c.todo # << >> /\ c.todo[1] = "inst" /\ c.todo \in Remaining[c.what]
      /\ Newest \in Nat /\ faults \in 0..MaxTrouble /\ faults' = faults
      /\ inst \in [top : Rev, boxes : Rev]
  BY Numbers DEF DefinitionInv, PlainOK, CallOK, Call, FindInstance, At, Free, Do
<1>1. c.what \in {"stage", "mgmt"} /\ c.todo = <<"inst">>
  BY <1>0, PlanStarts
<1>2. CASE inst # NoInst
  <2>1. /\ UNCHANGED <<pool, usage, fail, mode, git, expired, topo, row, stack, inst, passed, history>>
        /\ Found(a, inst.top, inst.boxes)
    BY <1>2 DEF FindInstance
  <2>2. Grows /\ GitOK' /\ Newest' = Newest
    BY <1>0, <2>1, StillGrows DEF history
  <2>3. TopoOK' /\ PoolOK'
    BY <2>1, <2>2, TopoStays, PoolStays DEF history
  <2>4. /\ inst.top \in Rev /\ inst.boxes \in Rev /\ inst.top # 0 /\ inst.top <= Newest
        /\ Loads(git[inst.top]) /\ (mode = "FRESH" => inst.top = pool.rev /\ BoxesFrom(inst.boxes))
        /\ mode # "FRESH" => inst.top \in seen
    BY <1>0, <1>2 DEF PoolOK, Fine, From, Pinned
  <2>5. UNCHANGED <<mode, git, pool, seen, faults>>
    BY <1>0, <2>1 DEF history
  <2>6. /\ IF mode' = "FRESH"
           THEN (c.what \in Pinned => inst.top = pool'.rev)
                  /\ (c.what = "usage" => inst.top >= pool'.rev)
           ELSE inst.top \in seen'
        /\ mode' = "FRESH" => inst.boxes = pool'.rev \/ git'[pool'.rev].boxes = None \/ faults' > 0
    BY <1>1, <2>4, <2>5 DEF BoxesFrom
  <2>7. /\ call' \in [Actor -> Call] /\ call'[a].what = c.what /\ CallOK(a)'
        /\ \A b \in Actor \ {a} : call'[b] = call[b]
    BY <1>0, <2>1, <2>2, <2>4, <2>5, <2>6, FoundOK
  <2>8. \A b \in Actor : CallOK(b)'
    BY <2>1, <2>2, <2>7, OneSteps
  <2>9. TasksOK'
    BY <2>1, <2>7, SameTasks
  <2>10. PlainOK'
    BY <1>0, <2>1, <2>7 DEF PlainOK, history
  <2> QED BY <2>2, <2>3, <2>8, <2>9, <2>10 DEF DefinitionInv
<1>3. CASE inst = NoInst /\ Nodes(Topology(c.top)) \subseteq Nodes(Topology(stack))
  <2> DEFINE r == [c EXCEPT !.at = "add"]
  <2>1. /\ UNCHANGED <<pool, usage, fail, mode, git, expired, topo, row, stack, inst, passed, history>>
        /\ call' = [call EXCEPT ![a].at = "add"]
    BY <1>3 DEF FindInstance
  <2>2. Grows /\ GitOK' /\ Newest' = Newest
    BY <1>0, <2>1, StillGrows DEF history
  <2>3. TopoOK' /\ PoolOK'
    BY <2>1, <2>2, TopoStays, PoolStays DEF history
  <2>4. r \in Call
    BY <1>0 DEF Call
  <2>5. /\ r.what = c.what /\ r.todo = c.todo /\ r.at = "add" /\ r.key = c.key
        /\ r.got = c.got /\ r.top = c.top /\ r.boxes = c.boxes /\ r.head = c.head
    BY <1>0 DEF Call
  <2>6. call' = [call EXCEPT ![a] = r]
    BY <1>0, <2>1
  <2> HIDE DEF r
  <2>7. call' \in [Actor -> Call] /\ call'[a] = r /\ \A b \in Actor \ {a} : call'[b] = call[b]
    BY <1>0, <2>4, <2>6
  <2>8. UNCHANGED <<mode, git, pool, seen, faults>>
    BY <1>0, <2>1 DEF history
  <2>9. CallOK(a)'
    BY <1>0, <1>1, <2>2, <2>5, <2>7, <2>8 DEF CallOK, Fine, From, KeyFrom, BoxesFrom, Newest
  <2>10. \A b \in Actor : CallOK(b)'
    BY <2>1, <2>2, <2>7, <2>9, OneSteps
  <2>11. TasksOK'
    BY <2>1, <2>5, <2>7, SameTasks
  <2>12. PlainOK'
    BY <1>0, <2>1, <2>7 DEF PlainOK, history
  <2> QED BY <2>2, <2>3, <2>10, <2>11, <2>12 DEF DefinitionInv
<1>4. CASE inst = NoInst /\ ~(Nodes(Topology(c.top)) \subseteq Nodes(Topology(stack)))
  <2>1. Fails(a, "lost")
    BY <1>4 DEF FindInstance
  <2> QED BY <1>0, <1>1, <2>1, FailsOK DEF Free, Do
<1> QED BY <1>2, <1>3, <1>4

\* A task caches the topology instance, or uses the one that is there now.
LEMMA AddOK == ASSUME DefinitionInv, NEW a \in Actor, AddInstance(a) PROVE DefinitionInv'
<1> DEFINE c == call[a]
<1>0. /\ PlainOK /\ GitOK /\ TopoOK /\ PoolOK /\ TasksOK /\ CallOK(a)
      /\ call \in [Actor -> Call] /\ c \in Call /\ c.at = "add"
      /\ c.what \in {"stage", "mgmt"} /\ c.todo = <<"inst">> /\ c.what # "none" /\ c.todo # << >>
      /\ Newest \in Nat /\ inst \in [top : Rev, boxes : Rev] /\ c.todo \in Remaining[c.what]
      /\ c.what \in Role[a] /\ a \in {"import", "chain", "reader"}
  <2>1. /\ PlainOK /\ GitOK /\ TopoOK /\ PoolOK /\ TasksOK /\ CallOK(a) /\ c.at = "add"
    BY DEF DefinitionInv, AddInstance
  <2>2. call \in [Actor -> Call] /\ c \in Call /\ inst \in [top : Rev, boxes : Rev] /\ Newest \in Nat
    BY <2>1, Numbers DEF PlainOK
  <2>3. c.what \in {"stage", "mgmt"} /\ c.todo = <<"inst">> /\ c.todo \in Remaining[c.what]
    BY <2>1 DEF CallOK
  <2>4. c.what \in Role[a] /\ c.todo # << >> /\ c.what # "none"
    BY <2>1, <2>3 DEF CallOK
  <2> QED BY <2>1, <2>2, <2>3, <2>4 DEF Actor
<1>1. /\ UNCHANGED <<envVars, expired, topo, row, pool, stack, passed, fail, usage, history>>
      /\ inst' = IF inst = NoInst THEN [top |-> c.top, boxes |-> c.boxes] ELSE inst
      /\ Found(a, inst'.top, inst'.boxes)
  BY DEF AddInstance
<1>2. UNCHANGED <<mode, git, seen, faults, pool, stack, usage, expired, topo, row, passed, fail, imported, raced>>
  BY <1>1 DEF envVars, history
<1>3. Grows /\ GitOK' /\ Newest' = Newest
  BY <1>2, StillGrows
<1>4. TopoOK'
  BY <1>2, <1>3, TopoStays
<1>5. /\ c.top # 0 /\ c.top \in Rev /\ c.boxes \in Rev /\ Fine(c.top) /\ From(c.what, c.top)
      /\ mode = "FRESH" => BoxesFrom(c.boxes)
  <2>1. <<"inst">> # Plan[c.what]
    BY <1>0, PlanStarts, Tasks
  <2> QED BY <1>0, <2>1 DEF CallOK, Call
<1>6. /\ inst' \in [top : Rev, boxes : Rev] /\ inst'.top # 0 /\ Fine(inst'.top)
      /\ IF mode = "FRESH" THEN inst'.top = pool.rev /\ BoxesFrom(inst'.boxes) ELSE inst'.top \in seen
  <2>1. CASE inst = NoInst
    BY <1>0, <1>1, <1>5, <2>1 DEF From, Pinned
  <2>2. CASE inst # NoInst
    BY <1>0, <1>1, <2>2 DEF PoolOK, From, Pinned
  <2> QED BY <2>1, <2>2
<1>7. PoolOK'
  <2>1. inst'.top # 0 /\ Fine(inst.top)' /\ From("stage", inst.top)'
    BY <1>2, <1>3, <1>6 DEF Fine, From, Pinned
  <2>2. mode' = "FRESH" => BoxesFrom(inst.boxes)'
    BY <1>2, <1>6 DEF BoxesFrom
  <2> HIDE DEF c
  <2> QED BY <1>0, <1>2, <1>3, <2>1, <2>2 DEF PoolOK, From, Fine
<1>8. /\ call' \in [Actor -> Call] /\ call'[a].what = c.what /\ CallOK(a)'
      /\ \A b \in Actor \ {a} : call'[b] = call[b]
  <2>1. inst'.top \in Rev /\ inst'.boxes \in Rev /\ inst'.top <= Newest' /\ Loads(git'[inst'.top])
    BY <1>2, <1>3, <1>6 DEF Fine
  <2>2. /\ IF mode' = "FRESH"
           THEN (c.what \in Pinned => inst'.top = pool'.rev)
                  /\ (c.what = "usage" => inst'.top >= pool'.rev)
           ELSE inst'.top \in seen'
        /\ mode' = "FRESH" => inst'.boxes = pool'.rev \/ git'[pool'.rev].boxes = None \/ faults' > 0
    BY <1>0, <1>2, <1>6 DEF BoxesFrom
  <2> QED BY <1>0, <1>1, <1>3, <1>6, <2>1, <2>2, FoundOK
<1>9. \A b \in Actor : CallOK(b)'
  BY <1>2, <1>3, <1>8, OneSteps
<1>10. TasksOK'
  BY <1>2, <1>8, SameTasks
<1>11. stack # 0
  BY <1>0 DEF TasksOK, Role, Do
<1>12. PlainOK'
  BY <1>0, <1>2, <1>6, <1>8, <1>11 DEF PlainOK
<1> QED BY <1>3, <1>4, <1>7, <1>9, <1>10, <1>12 DEF DefinitionInv

-----------------------------------------------------------------------------
(* Tasks that begin and end *)

\* A task begins that has what it needs.
LEMMA BeginOK ==
    ASSUME DefinitionInv, NEW a \in Actor, NEW t \in DOMAIN Plan, t \in Role[a], t # "pool",
           Free(a), Begins(a, t),
           UNCHANGED <<envVars, expired, topo, row, pool, boxVars, usage, history>>,
           t \in {"stack", "stage", "usage"} => pool.st = "ready",
           t = "stack" => stack = 0 /\ fail = "none",
           t = "stage" => stack # 0 /\ passed < 2,
           t = "mgmt" => stack # 0
    PROVE  DefinitionInv'
<1>0. /\ PlainOK /\ TasksOK /\ call \in [Actor -> Call] /\ a \in {"import", "chain", "reader"}
      /\ UNCHANGED <<mode, git, faults, expired, topo, row, pool, stack, inst, passed, fail,
                     usage, seen, imported, raced>>
  BY DEF DefinitionInv, PlainOK, Actor, envVars, boxVars, history
<1>1. Grows /\ GitOK' /\ Newest' = Newest
  BY <1>0, StillGrows
<1>2. TopoOK' /\ PoolOK'
  BY <1>0, <1>1, TopoStays, PoolStays
<1>3. /\ call' \in [Actor -> Call] /\ \A b \in Actor \ {a} : call'[b] = call[b]
      /\ call'[a] = [Idle EXCEPT !.what = t, !.todo = Plan[t]]
  BY <1>0, BeginsCall
<1>4. CallOK(a)' /\ call'[a].what = t
  BY <1>1, <1>3, BegunOK
<1>5. \A b \in Actor : CallOK(b)'
  BY <1>0, <1>1, <1>3, <1>4, OneSteps
<1>6. /\ Do("chain")' = (IF a = "chain" THEN t ELSE Do("chain"))
      /\ Do("reader")' = (IF a = "reader" THEN t ELSE Do("reader"))
      /\ Free(a) <=> Do(a) = "none"
  BY <1>3, <1>4 DEF Do, Actor, Free
<1>7. TasksOK'
  <2>1. /\ a = "chain" => t \in {"stack", "stage"}
        /\ a = "reader" => t \in {"show", "usage", "mgmt"}
    BY Tasks DEF Role, Plan
  <2> QED BY <1>0, <1>6, <2>1 DEF TasksOK
<1>8. PlainOK'
  BY <1>0, <1>3 DEF PlainOK
<1> QED BY <1>1, <1>2, <1>5, <1>7, <1>8 DEF DefinitionInv

\* What the task that ends leaves behind.
LEMMA EndOK ==
    ASSUME DefinitionInv, NEW a \in Actor, Planned(a), Ends(a), GitOK', Grows,
           \A b \in Actor \ {a} : call[b].what \in Pinned \cup {"usage"} => pool'.rev = pool.rev
    PROVE  /\ call' \in [Actor -> Call] /\ \A b \in Actor : CallOK(b)'
           /\ Do("chain")' = (IF a = "chain" THEN "none" ELSE Do("chain"))
           /\ Do("reader")' = (IF a = "reader" THEN "none" ELSE Do("reader"))
           /\ Do(a) \in Role[a] /\ Do(a) # "none" /\ call[a] \in Call
           /\ call[a].top # 0 /\ Fine(call[a].top) /\ From(Do(a), call[a].top)
           /\ call[a].top \in Rev /\ call[a].boxes \in Rev /\ call[a].top <= Newest
<1>0. /\ call \in [Actor -> Call] /\ CallOK(a) /\ call[a] \in Call
      /\ call[a].what # "none" /\ call[a].todo = << >> /\ call[a].what \in Task
  BY DEF DefinitionInv, PlainOK, Planned, Free, Do, Call
<1>1. /\ call' \in [Actor -> Call] /\ \A b \in Actor \ {a} : call'[b] = call[b]
      /\ call'[a] = Idle /\ call'[a].what = "none"
  BY <1>0, EndsCall DEF Idle
<1>2. CallOK(a)'
  BY <1>1, IdleOK, Zenon
<1>3. \A b \in Actor : CallOK(b)'
  BY <1>1, <1>2, OneSteps
<1>4. << >> # Plan[call[a].what]
  BY <1>0, Tasks DEF Plan
<1>5. /\ call[a].top # 0 /\ Fine(call[a].top) /\ From(call[a].what, call[a].top)
      /\ call[a].what \in Role[a]
  BY <1>0, <1>4 DEF CallOK
<1>6. call[a].top \in Rev /\ call[a].boxes \in Rev /\ call[a].top <= Newest
  BY <1>0, <1>5 DEF Call, Fine
<1>7. /\ Do("chain")' = (IF a = "chain" THEN "none" ELSE Do("chain"))
      /\ Do("reader")' = (IF a = "reader" THEN "none" ELSE Do("reader"))
  BY <1>1 DEF Do, Actor
<1> QED BY <1>0, <1>1, <1>3, <1>5, <1>6, <1>7 DEF Do

\* The import ends.
LEMMA EndImportOK == ASSUME DefinitionInv, EndImport PROVE DefinitionInv'
<1>0. /\ PlainOK /\ TasksOK /\ "import" \in Actor /\ Planned("import") /\ Ends("import")
      /\ UNCHANGED <<mode, git, faults, expired, topo, pool, stack, inst, passed, fail,
                     usage, seen, imported, raced>>
  BY DEF DefinitionInv, EndImport, Actor, envVars, boxVars, history
<1>1. Grows /\ GitOK' /\ Newest' = Newest
  BY <1>0, StillGrows
<1>2. TopoOK' /\ PoolOK'
  BY <1>0, <1>1, TopoStays, PoolStays
<1>3. /\ call' \in [Actor -> Call] /\ \A b \in Actor : CallOK(b)'
      /\ Do("chain")' = Do("chain") /\ Do("reader")' = Do("reader")
  BY <1>0, <1>1, EndOK
<1>4. row' \in BOOLEAN /\ (row => row')
  <2>1. row' = (row \/ Validated("import"))
    BY DEF EndImport
  <2> HIDE DEF Validated
  <2>2. CASE Validated("import")
    BY <2>1, <2>2
  <2>3. CASE ~Validated("import")
    BY <1>0, <2>1, <2>3 DEF PlainOK
  <2> QED BY <2>2, <2>3
<1>5. TasksOK'
  BY <1>0, <1>3 DEF TasksOK
<1>6. PlainOK'
  BY <1>0, <1>3, <1>4 DEF PlainOK
<1> QED BY <1>1, <1>2, <1>3, <1>5, <1>6 DEF DefinitionInv

\* A pool is saved with what it pins, and validated after.
LEMMA CreatePoolOK == ASSUME DefinitionInv, CreatePool PROVE DefinitionInv'
<1>0. /\ PlainOK /\ TasksOK /\ PoolOK /\ TopoOK /\ GitOK /\ call \in [Actor -> Call]
      /\ row /\ pool = NoPool /\ "chain" \in Actor /\ Begins("chain", "pool") /\ Do("chain") = "none"
      /\ pool' = [NoPool EXCEPT !.st = "saved", !.rev = RevSha(Branch)]
      /\ UNCHANGED <<mode, git, faults, expired, topo, row, stack, inst, passed, fail,
                     usage, seen, imported, raced>>
  BY DEF DefinitionInv, PlainOK, CreatePool, Actor, envVars, boxVars, history, Free
<1>1. Grows /\ GitOK' /\ Newest' = Newest
  BY <1>0, StillGrows
<1>2. TopoOK'
  BY <1>0, <1>1, TopoStays
<1>3. "pool" \in DOMAIN Plan /\ "pool" \in Role["chain"]
  BY DEF Plan, Role
<1>4. /\ call' \in [Actor -> Call] /\ \A b \in Actor \ {"chain"} : call'[b] = call[b]
      /\ call'["chain"] = [Idle EXCEPT !.what = "pool", !.todo = Plan["pool"]]
  BY <1>0, <1>3, BeginsCall
<1>5. CallOK("chain")' /\ call'["chain"].what = "pool"
  BY <1>0, <1>1, <1>3, <1>4, BegunOK
<1>6. pool.st = "none" /\ stack = 0 /\ inst = NoInst /\ usage = <<"unset", 0>>
  BY <1>0 DEF PlainOK, TasksOK, NoPool
<1>7. \A b \in Actor \ {"chain"} : call[b].what \notin Pinned \cup {"usage"}
  BY <1>6, PinnedPool
<1>8. \A b \in Actor : CallOK(b)'
  BY <1>0, <1>1, <1>4, <1>5, <1>7, OneSteps
<1>9. RevSha(Branch) \in Rev /\ RevSha(Branch) <= Newest
      /\ IF mode = "FRESH" THEN RevSha(Branch) # 0 ELSE RevSha(Branch) = 0
  BY <1>0, Numbers DEF RevSha, CommitAt, Branch, Rev
<1>10. /\ pool' \in [st : {"none", "saved", "ready"}, rev : Rev, top : Rev, boxes : Rev]
       /\ pool'.st = "saved" /\ pool'.rev = RevSha(Branch) /\ pool'.top = 0 /\ 0 \in Rev
  <2>1. ASSUME NEW sha \in Rev, 0 \in Rev
        PROVE  LET p == [NoPool EXCEPT !.st = "saved", !.rev = sha]
               IN /\ p \in [st : {"none", "saved", "ready"}, rev : Rev, top : Rev, boxes : Rev]
                  /\ p.st = "saved" /\ p.rev = sha /\ p.top = 0
    BY <2>1 DEF NoPool
  <2>2. 0 \in Rev
    BY DefinitionsAssumption DEF Rev
  <2> QED BY <1>0, <1>9, <2>1, <2>2
<1>11. PoolOK'
  <2>1. Newest \in Nat
    BY <1>0, Numbers
  <2> QED BY <1>0, <1>1, <1>6, <1>9, <1>10, <2>1 DEF PoolOK
<1>12. TasksOK'
  <2>1. /\ Do("chain")' = "pool" /\ Do("reader")' = Do("reader")
        /\ Do("reader") \notin {"mgmt", "usage"}
    BY <1>4, <1>5, <1>7 DEF Do, Actor, Pinned
  <2> QED BY <1>0, <1>6, <1>10, <2>1 DEF TasksOK
<1>13. PlainOK'
  BY <1>0, <1>4, <1>6 DEF PlainOK
<1> QED BY <1>1, <1>2, <1>8, <1>11, <1>12, <1>13 DEF DefinitionInv

\* A pool is validated, and then ready, or deleted.
LEMMA EndPoolOK == ASSUME DefinitionInv, EndPool PROVE DefinitionInv'
<1> DEFINE c == call["chain"]
<1>0. /\ PlainOK /\ TasksOK /\ PoolOK /\ TopoOK /\ GitOK /\ CallOK("chain")
      /\ "chain" \in Actor /\ Planned("chain") /\ Ends("chain") /\ Do("chain") = "pool"
      /\ UNCHANGED <<mode, git, faults, expired, topo, row, stack, inst, passed, fail,
                     usage, seen, imported, raced>>
  BY DEF DefinitionInv, EndPool, Actor, envVars, boxVars, history
<1>1. Grows /\ GitOK' /\ Newest' = Newest
  BY <1>0, StillGrows
<1>2. TopoOK'
  BY <1>0, <1>1, TopoStays
<1>3. pool.st = "saved" /\ stack = 0 /\ inst = NoInst /\ usage = <<"unset", 0>>
  BY <1>0 DEF PlainOK, TasksOK
<1>4. \A b \in Actor \ {"chain"} : call[b].what \notin Pinned \cup {"usage"}
  <2> SUFFICES ASSUME NEW b \in Actor \ {"chain"}, call[b].what \in Pinned \cup {"usage"} PROVE FALSE
    OBVIOUS
  <2>1. call[b].what = "pool"
    BY <1>3, PinnedPool
  <2>2. call[b].what \in Role[b]
    BY DEF DefinitionInv, CallOK
  <2> QED BY <2>1, <2>2 DEF Role, Actor
<1>5. /\ call' \in [Actor -> Call] /\ \A b \in Actor : CallOK(b)'
      /\ Do("chain")' = "none" /\ Do("reader")' = Do("reader")
      /\ c.top # 0 /\ Fine(c.top) /\ From("pool", c.top) /\ c.top \in Rev /\ c.boxes \in Rev
      /\ c.top <= Newest
  BY <1>0, <1>1, <1>4, EndOK
<1>6. Do("reader") \notin {"mgmt", "usage"}
  BY <1>4 DEF Do, Actor, Pinned
<1>7. \/ pool' = NoPool
      \/ pool' = [pool EXCEPT !.st = "ready", !.top = c.top, !.boxes = c.boxes]
  BY DEF EndPool
<1> HIDE DEF c
<1>8. /\ pool' \in [st : {"none", "saved", "ready"}, rev : Rev, top : Rev, boxes : Rev]
      /\ \/ pool' = NoPool /\ pool'.st = "none" /\ pool'.rev = 0 /\ pool'.top = 0
         \/ pool'.st = "ready" /\ pool'.rev = pool.rev /\ pool'.top = c.top
  <2>1. CASE pool' = NoPool
    BY <2>1, DefinitionsAssumption DEF NoPool, Rev
  <2>2. CASE pool' = [pool EXCEPT !.st = "ready", !.top = c.top, !.boxes = c.boxes]
    <3>1. pool \in [st : {"none", "saved", "ready"}, rev : Rev, top : Rev, boxes : Rev]
      BY <1>0 DEF PoolOK
    <3> QED BY <1>5, <2>2, <3>1
  <2> QED BY <1>7, <2>1, <2>2
<1>9. PoolOK'
  <2>1. CASE pool' = NoPool
    <3>1. Newest \in Nat
      BY <1>0, Numbers
    <3> QED BY <1>0, <1>1, <1>3, <1>8, <2>1, <3>1 DEF PoolOK, NoPool
  <2>2. CASE pool' # NoPool
    <3>1. Fine(pool.top)' /\ From("pool", pool.top)'
      BY <1>0, <1>1, <1>5, <1>8, <2>2 DEF Fine, From, Pinned
    <3> QED BY <1>0, <1>1, <1>3, <1>5, <1>8, <2>2, <3>1 DEF PoolOK
  <2> QED BY <2>1, <2>2
<1>10. TasksOK'
  BY <1>0, <1>3, <1>5, <1>6, <1>8 DEF TasksOK
<1>11. PlainOK'
  BY <1>0, <1>3, <1>5, <1>8 DEF PlainOK, NoPool
<1> QED BY <1>1, <1>2, <1>5, <1>9, <1>10, <1>11 DEF DefinitionInv

\* The stack is built.
LEMMA EndStackOK == ASSUME DefinitionInv, EndStack PROVE DefinitionInv'
<1> DEFINE c == call["chain"]
<1>0. /\ PlainOK /\ TasksOK /\ PoolOK /\ TopoOK /\ GitOK /\ stack' = c.top
      /\ "chain" \in Actor /\ Planned("chain") /\ Ends("chain") /\ Do("chain") = "stack"
      /\ UNCHANGED <<mode, git, faults, expired, topo, row, pool, inst, passed, fail,
                     usage, seen, imported, raced>>
  BY DEF DefinitionInv, EndStack, Actor, envVars, boxVars, history
<1>1. Grows /\ GitOK' /\ Newest' = Newest
  BY <1>0, StillGrows
<1>2. TopoOK'
  BY <1>0, <1>1, TopoStays
<1>3. pool.st = "ready" /\ stack = 0 /\ fail = "none" /\ inst = NoInst
  BY <1>0 DEF TasksOK, PlainOK
<1>4. /\ call' \in [Actor -> Call] /\ \A b \in Actor : CallOK(b)'
      /\ Do("chain")' = "none" /\ Do("reader")' = Do("reader")
      /\ c.top # 0 /\ Fine(c.top) /\ From("stack", c.top) /\ c.top \in Rev /\ c.top <= Newest
  BY <1>0, <1>1, EndOK
<1> HIDE DEF c
<1>5. PoolOK'
  BY <1>0, <1>1, <1>3, <1>4 DEF PoolOK, Fine, From, BoxesFrom
<1>6. TasksOK'
  BY <1>0, <1>3, <1>4 DEF TasksOK
<1>7. PlainOK'
  BY <1>0, <1>3, <1>4 DEF PlainOK
<1> QED BY <1>1, <1>2, <1>4, <1>5, <1>6, <1>7 DEF DefinitionInv

\* An Ansible stage ends.
LEMMA EndStageOK == ASSUME DefinitionInv, EndStage PROVE DefinitionInv'
<1>0. /\ PlainOK /\ TasksOK /\ PoolOK /\ TopoOK /\ GitOK
      /\ "chain" \in Actor /\ Planned("chain") /\ Ends("chain") /\ Do("chain") = "stage"
      /\ UNCHANGED <<mode, git, faults, expired, topo, row, pool, stack, inst,
                     usage, seen, imported, raced>>
      /\ fail' \in {"keys", fail} /\ passed' \in {passed, passed + 1}
  BY DEF DefinitionInv, EndStage, Actor, envVars, history
<1>1. Grows /\ GitOK' /\ Newest' = Newest
  BY <1>0, StillGrows
<1>2. TopoOK' /\ PoolOK'
  BY <1>0, <1>1, TopoStays, PoolStays
<1>3. /\ call' \in [Actor -> Call] /\ \A b \in Actor : CallOK(b)'
      /\ Do("chain")' = "none" /\ Do("reader")' = Do("reader")
  BY <1>0, <1>1, EndOK
<1>4. pool.st = "ready" /\ stack # 0 /\ passed' \in 0..2
  BY <1>0 DEF TasksOK, PlainOK
<1>5. TasksOK'
  BY <1>0, <1>3, <1>4 DEF TasksOK
<1>6. PlainOK'
  BY <1>0, <1>3, <1>4 DEF PlainOK
<1> QED BY <1>1, <1>2, <1>3, <1>5, <1>6 DEF DefinitionInv

\* A reader ends, and may leave the usage.
LEMMA EndReadOK == ASSUME DefinitionInv, EndRead PROVE DefinitionInv'
<1> DEFINE c == call["reader"]
<1>0. /\ PlainOK /\ TasksOK /\ PoolOK /\ TopoOK /\ GitOK
      /\ "reader" \in Actor /\ Planned("reader") /\ Ends("reader")
      /\ UNCHANGED <<mode, git, faults, expired, topo, row, pool, stack, inst, passed, fail,
                     seen, imported, raced>>
      /\ usage' = IF Do("reader") = "usage" THEN <<"commit", c.top>> ELSE usage
  BY DEF DefinitionInv, EndRead, Actor, envVars, boxVars, history
<1>1. Grows /\ GitOK' /\ Newest' = Newest
  BY <1>0, StillGrows
<1>2. TopoOK'
  BY <1>0, <1>1, TopoStays
<1>3. /\ call' \in [Actor -> Call] /\ \A b \in Actor : CallOK(b)'
      /\ Do("chain")' = Do("chain") /\ Do("reader")' = "none"
      /\ c.top # 0 /\ Fine(c.top) /\ From(Do("reader"), c.top) /\ c.top \in Rev /\ c.top <= Newest
  BY <1>0, <1>1, EndOK
<1> HIDE DEF c
<1>4. CASE Do("reader") # "usage"
  <2>1. usage' = usage
    BY <1>0, <1>4
  <2>2. PoolOK'
    BY <1>0, <1>1, <2>1, PoolStays
  <2>3. TasksOK'
    BY <1>0, <1>3, <2>1 DEF TasksOK
  <2>4. PlainOK'
    BY <1>0, <1>3, <2>1 DEF PlainOK
  <2> QED BY <1>1, <1>2, <1>3, <2>2, <2>3, <2>4 DEF DefinitionInv
<1>5. CASE Do("reader") = "usage"
  <2>1. usage' = <<"commit", c.top>> /\ pool.st = "ready" /\ c.top \in Commit
    BY <1>0, <1>3, <1>5 DEF TasksOK, Rev, Commit
  <2>2. PoolOK'
    <3>1. usage'[1] = "commit" /\ usage'[2] = c.top
      BY <2>1
    <3>2. From("usage", usage[2])'
      BY <1>0, <1>3, <1>5, <3>1 DEF From
    <3> QED BY <1>0, <1>1, <1>3, <3>1, <3>2 DEF PoolOK, Fine, From, BoxesFrom
  <2>3. TasksOK'
    BY <1>0, <1>3, <2>1 DEF TasksOK
  <2>4. PlainOK'
    BY <1>0, <1>3, <2>1 DEF PlainOK
  <2> QED BY <1>1, <1>2, <1>3, <2>2, <2>3, <2>4 DEF DefinitionInv
<1> QED BY <1>4, <1>5

-----------------------------------------------------------------------------
(* What is deleted, and the world *)

\* No task takes a step: all are as they were.
LEMMA SameCall ==
    ASSUME DefinitionInv, call' = call, GitOK', Grows,
           \A b \in Actor : call[b].what \in Pinned \cup {"usage"} => pool'.rev = pool.rev
    PROVE  /\ call' \in [Actor -> Call] /\ \A b \in Actor : CallOK(b)'
           /\ Do("chain")' = Do("chain") /\ Do("reader")' = Do("reader")
<1>1. \A b \in Actor : CallOK(b)'
  BY CallStays
<1> QED BY <1>1 DEF DefinitionInv, PlainOK, Do

\* The definition is deleted when no pool uses it.
LEMMA DeleteDefinitionOK == ASSUME DefinitionInv, DeleteDefinition PROVE DefinitionInv'
<1>0. /\ PlainOK /\ TasksOK /\ row' = FALSE /\ pool = NoPool
      /\ UNCHANGED <<mode, git, faults, expired, topo, pool, stack, inst, passed, fail, usage,
                     call, seen, imported, raced>>
  BY DEF DefinitionInv, DeleteDefinition, envVars, boxVars, history
<1>1. Grows /\ GitOK' /\ Newest' = Newest
  BY <1>0, StillGrows
<1>2. TopoOK' /\ PoolOK'
  BY <1>0, <1>1, TopoStays, PoolStays
<1>3. \A b \in Actor : CallOK(b)'
  BY <1>0, <1>1, SameCall
<1>4. TasksOK'
  BY <1>0 DEF TasksOK, Do
<1>5. PlainOK'
  BY <1>0 DEF PlainOK, NoPool
<1> QED BY <1>1, <1>2, <1>3, <1>4, <1>5 DEF DefinitionInv

\* A pool without units is deleted.
LEMMA DeletePoolOK == ASSUME DefinitionInv, DeletePool PROVE DefinitionInv'
<1>0. /\ PlainOK /\ TasksOK /\ PoolOK /\ GitOK /\ pool' = NoPool /\ usage' = <<"unset", 0>>
      /\ Do("chain") = "none" /\ Do("reader") # "usage" /\ stack = 0 /\ fail = "none"
      /\ UNCHANGED <<mode, git, faults, expired, topo, row, stack, inst, passed, fail,
                     call, seen, imported, raced>>
  BY DEF DefinitionInv, DeletePool, envVars, boxVars, history, Free
<1>1. Grows /\ GitOK' /\ Newest' = Newest
  BY <1>0, StillGrows
<1>2. TopoOK'
  BY <1>0, <1>1, TopoStays
<1>3. inst = NoInst /\ Do("reader") # "mgmt" /\ NoPool.st = "none"
  BY <1>0 DEF PlainOK, TasksOK, NoPool
<1>4. \A b \in Actor : call[b].what \notin Pinned \cup {"usage"}
  <2> SUFFICES ASSUME NEW b \in Actor, call[b].what \in Pinned \cup {"usage"} PROVE FALSE
    OBVIOUS
  <2>1. b = "import" \/ b = "chain" \/ b = "reader"
    BY DEF Actor
  <2>2. call[b].what \in Role[b]
    BY DEF DefinitionInv, CallOK
  <2>3. b # "import"
    BY <2>2 DEF Role, Pinned
  <2>4. b # "chain"
    BY <1>0 DEF Do, Pinned
  <2>5. b # "reader"
    BY <1>0, <1>3, <2>2 DEF Role, Do, Pinned
  <2> QED BY <2>1, <2>3, <2>4, <2>5
<1>5. \A b \in Actor : CallOK(b)'
  BY <1>0, <1>1, <1>4, SameCall
<1>6. TasksOK'
  BY <1>0, <1>3 DEF TasksOK, Do
<1>7. PlainOK'
  BY <1>0, <1>3 DEF PlainOK
<1>8. PoolOK'
  <2>1. 0 \in Rev /\ Newest \in Nat
    BY <1>0, Numbers, DefinitionsAssumption DEF Rev
  <2> QED BY <1>0, <1>1, <1>3, <2>1 DEF PoolOK, NoPool
<1> QED BY <1>1, <1>2, <1>5, <1>6, <1>7, <1>8 DEF DefinitionInv

\* What is gone from the pool's sandbox leaves nothing to be matched.
LEMMA PoolShrinks ==
    ASSUME DefinitionInv, Grows, UNCHANGED <<git, mode, seen, pool, usage, faults>>,
           stack' \in {0, stack}, inst' = NoInst
    PROVE  PoolOK'
<1>1. PoolOK /\ Newest' = Newest
  BY DEF DefinitionInv, Newest
<1> QED BY <1>1 DEF PoolOK, Fine, From

\* The sandbox is restarted.
LEMMA RestartOK == ASSUME DefinitionInv, Restart PROVE DefinitionInv'
<1>0. /\ PlainOK /\ TasksOK /\ fail' = "none" /\ inst' = NoInst /\ Do("chain") = "none"
      /\ UNCHANGED <<mode, git, faults, expired, topo, row, pool, stack, passed, usage,
                     call, seen, imported, raced>>
  BY DEF DefinitionInv, Restart, envVars, history, Free
<1>1. Grows /\ GitOK' /\ Newest' = Newest
  BY <1>0, StillGrows
<1>2. TopoOK' /\ PoolOK'
  BY <1>0, <1>1, TopoStays, PoolShrinks
<1>3. \A b \in Actor : CallOK(b)'
  BY <1>0, <1>1, SameCall
<1>4. TasksOK'
  BY <1>0 DEF TasksOK, Do
<1>5. PlainOK'
  <2>1. NoInst \in [top : Rev, boxes : Rev]
    BY DefinitionsAssumption DEF NoInst, Rev
  <2> QED BY <1>0, <2>1 DEF PlainOK
<1> QED BY <1>1, <1>2, <1>3, <1>4, <1>5 DEF DefinitionInv

\* The sandbox is cleaned up.
LEMMA CleanupOK == ASSUME DefinitionInv, Cleanup PROVE DefinitionInv'
<1>0. /\ PlainOK /\ TasksOK /\ fail' = "none" /\ inst' = NoInst /\ stack' = 0 /\ passed' = 0
      /\ Do("chain") = "none" /\ Do("reader") # "mgmt"
      /\ UNCHANGED <<mode, git, faults, expired, topo, row, pool, usage, call, seen, imported, raced>>
  BY DEF DefinitionInv, Cleanup, envVars, history, Free
<1>1. Grows /\ GitOK' /\ Newest' = Newest
  BY <1>0, StillGrows
<1>2. TopoOK' /\ PoolOK'
  BY <1>0, <1>1, TopoStays, PoolShrinks
<1>3. \A b \in Actor : CallOK(b)'
  BY <1>0, <1>1, SameCall
<1>4. TasksOK'
  BY <1>0 DEF TasksOK, Do
<1>5. PlainOK'
  <2>1. NoInst \in [top : Rev, boxes : Rev] /\ 0 \in Rev
    BY DefinitionsAssumption DEF NoInst, Rev
  <2> QED BY <1>0, <2>1 DEF PlainOK
<1> QED BY <1>1, <1>2, <1>3, <1>4, <1>5 DEF DefinitionInv

\* Somebody pushes.
LEMMA PushOK == ASSUME DefinitionInv, Push PROVE DefinitionInv' /\ Newest' = Newest + 1
<1>0. /\ PlainOK /\ TasksOK /\ git \in Seq(Contents) /\ Len(git) \in Commit /\ Newest < MaxCommits
      /\ UNCHANGED <<mode, faults, expired, topo, row, pool, stack, inst, passed, fail, usage,
                     call, seen, imported, raced>>
  BY DEF DefinitionInv, GitOK, Push, boxVars, history
<1>1. PICK content \in Contents : git' = Append(git, content)
  BY DEF Push, Contents
<1>2. git' \in Seq(Contents) /\ Len(git') = Len(git) + 1 /\ \A n \in 1..Len(git) : git'[n] = git[n]
  BY <1>0, <1>1
<1>3. Len(git') \in Commit /\ Newest' = Newest + 1 /\ Newest \in Nat
  BY <1>0, <1>2, Numbers DEF Newest, Commit, DefinitionInv
<1>4. GitOK'
  BY <1>2, <1>3 DEF GitOK
<1>5. Grows
  <2>1. faults \in Nat
    BY <1>0, DefinitionsAssumption DEF PlainOK
  <2> QED BY <1>0, <1>2, <1>3, <2>1 DEF Grows, Newest
<1>6. TopoOK' /\ PoolOK'
  BY <1>0, <1>4, <1>5, TopoStays, PoolStays
<1>7. \A b \in Actor : CallOK(b)'
  BY <1>0, <1>4, <1>5, SameCall
<1>8. TasksOK'
  BY <1>0 DEF TasksOK, Do
<1>9. PlainOK'
  BY <1>0 DEF PlainOK
<1> QED BY <1>3, <1>4, <1>6, <1>7, <1>8, <1>9 DEF DefinitionInv

\* An entry of the topology cache times out.
LEMMA ExpireOK == ASSUME DefinitionInv, Expire PROVE DefinitionInv'
<1>0. /\ PlainOK /\ TasksOK /\ TopoOK /\ topo \in [Rev -> Rev] /\ expired' \in 0..MaxTrouble
      /\ UNCHANGED <<mode, git, faults, row, pool, stack, inst, passed, fail, usage,
                     call, seen, imported, raced>>
  <2>1. PlainOK /\ TasksOK /\ TopoOK
    BY DEF DefinitionInv
  <2>2. faults \in Nat /\ expired \in Nat /\ MaxTrouble \in Nat
    BY <2>1, DefinitionsAssumption DEF PlainOK
  <2> QED BY <2>1, <2>2 DEF Expire, PlainOK, envVars, boxVars, history
<1>1. Grows /\ GitOK' /\ Newest' = Newest
  BY <1>0, StillGrows
<1>2. PoolOK'
  BY <1>0, <1>1, PoolStays
<1>3. topo' \in [Rev -> Rev] /\ \A k \in Rev : topo'[k] \in {0, topo[k]}
  <2>1. 0 \in Rev
    BY DefinitionsAssumption DEF Rev
  <2> QED BY <1>0, <2>1 DEF Expire
<1>4. TopoOK'
  <2>1. \A k \in Rev : topo'[k] = 0 \/ (topo'[k] <= Newest /\ Loads(git[topo'[k]]))
    BY <1>0, <1>3 DEF TopoOK, Fine
  <2>2. Branch \in Rev
    BY DefinitionsAssumption DEF Branch, Rev
  <2> QED BY <1>0, <1>1, <1>3, <2>1, <2>2 DEF TopoOK, Fine
<1>5. \A b \in Actor : CallOK(b)'
  BY <1>0, <1>1, SameCall
<1>6. TasksOK'
  BY <1>0 DEF TasksOK, Do
<1>7. PlainOK'
  BY <1>0, <1>3 DEF PlainOK
<1> QED BY <1>1, <1>2, <1>4, <1>5, <1>6, <1>7 DEF DefinitionInv

-----------------------------------------------------------------------------
(* The invariant holds *)

\* At first there is a repository, and nothing else.
LEMMA DefinitionStarts == DInit => DefinitionInv
<1> SUFFICES ASSUME DInit PROVE DefinitionInv
  OBVIOUS
<1>1. PICK content \in First : git = <<content>>
  BY DEF DInit
<1>2. GitOK /\ Newest = 1
  <2>1. Len(git) = 1 /\ git \in Seq(Contents)
    BY <1>1 DEF Contents
  <2> QED BY <2>1, DefinitionsAssumption DEF GitOK, Newest, Commit
<1>3. 0 \in Rev /\ Branch \in Rev
  BY DefinitionsAssumption DEF Rev, Branch
<1>4. topo \in [Rev -> Rev] /\ \A k \in Rev : topo[k] = 0
  BY <1>3 DEF DInit
<1>5. TopoOK
  BY <1>2, <1>3, <1>4 DEF DInit, TopoOK, Fine
<1>6. call \in [Actor -> Call] /\ \A a \in Actor : call[a] = Idle
  BY IdleCall DEF DInit
<1>7. \A a \in Actor : CallOK(a)
  <2> SUFFICES ASSUME NEW a \in Actor PROVE CallOK(a)
    OBVIOUS
  <2>1. "none" \in Role[a] /\ << >> \in Remaining["none"]
    BY DEF Role, Actor, Remaining
  <2> QED BY <1>2, <1>6, <2>1 DEF Idle, CallOK, Fine
<1>8. Do("chain") = "none" /\ Do("reader") = "none"
  BY <1>6 DEF Do, Idle, Actor
<1>9. pool = NoPool /\ pool.st = "none" /\ stack = 0 /\ inst = NoInst /\ usage = <<"unset", 0>>
  BY DEF DInit, NoPool
<1>10. TasksOK
  BY <1>8, <1>9 DEF TasksOK
<1>11. PoolOK
  BY <1>2, <1>3, <1>9 DEF PoolOK, NoPool
<1>12. PlainOK
  <2>1. usage \in {"unset", "error"} \X {0} \cup {"commit"} \X Commit
    BY <1>9
  <2>2. inst \in [top : Rev, boxes : Rev] /\ pool.st = "none" /\ stack \in Rev
    BY <1>3, <1>9 DEF NoInst
  <2>3. faults \in 0..MaxTrouble /\ expired \in 0..MaxTrouble
    BY DefinitionsAssumption DEF DInit
  <2>4. /\ mode \in Modes /\ row \in BOOLEAN /\ passed = 0 /\ fail = "none"
        /\ imported \in Rev /\ raced \in BOOLEAN
    BY <1>3 DEF DInit
  <2> QED BY <1>3, <1>4, <1>6, <1>9, <2>1, <2>2, <2>3, <2>4 DEF PlainOK
<1> QED BY <1>2, <1>5, <1>7, <1>10, <1>11, <1>12 DEF DefinitionInv

\* Every task that begins has what it needs.
LEMMA BeginsOK ==
    ASSUME DefinitionInv, Import \/ BuildStack \/ RunStage \/ ReadTopology \/ ReadUsage \/ ReadAccess
    PROVE  DefinitionInv'
<1>1. /\ {"import", "stack", "stage", "show", "usage", "mgmt"} \subseteq DOMAIN Plan
      /\ "import" \in Role["import"] /\ {"stack", "stage"} \subseteq Role["chain"]
      /\ {"show", "usage", "mgmt"} \subseteq Role["reader"] /\ Actor = {"import", "chain", "reader"}
  BY DEF Plan, Role, Actor
<1>2. CASE Import
  BY <1>1, <1>2, BeginOK DEF Import
<1>3. CASE BuildStack
  BY <1>1, <1>3, BeginOK DEF BuildStack
<1>4. CASE RunStage
  <2>1. pool.st = "ready"
    BY <1>4 DEF RunStage, DefinitionInv, PlainOK
  <2> QED BY <1>1, <1>4, <2>1, BeginOK DEF RunStage
<1>5. CASE ReadTopology
  BY <1>1, <1>5, BeginOK DEF ReadTopology
<1>6. CASE ReadUsage
  BY <1>1, <1>6, BeginOK DEF ReadUsage
<1>7. CASE ReadAccess
  BY <1>1, <1>7, BeginOK DEF ReadAccess
<1> QED BY <1>2, <1>3, <1>4, <1>5, <1>6, <1>7

\* No step breaks it.
LEMMA DefinitionStep == DefinitionInv /\ [DNext]_dVars => DefinitionInv'
<1> SUFFICES ASSUME DefinitionInv, [DNext]_dVars PROVE DefinitionInv'
  OBVIOUS
<1>1. ASSUME NEW a \in Actor, Look(a) \/ Fetch(a) \/ Store(a) \/ LoadBoxes(a)
                                \/ FindInstance(a) \/ AddInstance(a) \/ GitFails(a)
      PROVE  DefinitionInv'
  BY <1>1, LookOK, FetchOK, StoreOK, LoadBoxesOK, FindOK, AddOK, GitFailsOK
<1>2. CASE Import \/ BuildStack \/ RunStage \/ ReadTopology \/ ReadUsage \/ ReadAccess
  BY <1>2, BeginsOK
<1>3. CASE EndImport \/ EndPool \/ EndStack \/ EndStage \/ EndRead
  BY <1>3, EndImportOK, EndPoolOK, EndStackOK, EndStageOK, EndReadOK
<1>4. CASE CreatePool \/ DeleteDefinition \/ DeletePool \/ Restart \/ Cleanup \/ Push \/ Expire
  BY <1>4, CreatePoolOK, DeleteDefinitionOK, DeletePoolOK, RestartOK, CleanupOK, PushOK, ExpireOK
<1>5. CASE UNCHANGED dVars
  <2>1. UNCHANGED <<mode, git, faults, expired, topo, row, pool, stack, inst, passed, fail, usage,
                    call, seen, imported, raced>>
    BY <1>5 DEF dVars, envVars, boxVars, history
  <2>2. Grows /\ GitOK'
    BY <2>1, StillGrows
  <2>3. TopoOK' /\ PoolOK' /\ \A b \in Actor : CallOK(b)'
    BY <2>1, <2>2, TopoStays, PoolStays, SameCall
  <2>4. TasksOK' /\ PlainOK'
    BY <2>1 DEF DefinitionInv, TasksOK, PlainOK, Do
  <2> QED BY <2>2, <2>3, <2>4 DEF DefinitionInv
<1> QED BY <1>1, <1>2, <1>3, <1>4, <1>5 DEF DNext

-----------------------------------------------------------------------------
(* The import *)

\* What neither stores anything nor ends an import's refresh leaves it as it is.
LEMMA ImportQuiet ==
    ASSUME DefinitionInv, DefinitionInv', ImportOK, UNCHANGED <<mode, imported, raced>>,
           Newest <= Newest', topo'[Branch] \in {topo[Branch], 0},
           \A a \in Actor : call'[a] = call[a] \/ call'[a].at # "store"
    PROVE  ImportOK'
<1>1. imported \in Nat /\ Newest \in Nat /\ Newest' \in Nat
  <2>1. GitOK /\ GitOK' /\ imported \in Rev
    BY DEF DefinitionInv, PlainOK
  <2>2. Newest \in Commit /\ Newest' \in Commit
    BY <2>1 DEF GitOK, Newest
  <2> QED BY <2>1, <2>2 DEF Rev, Commit
<1>2. mode' = "FRESH_IMPORT" => imported' <= Newest'
  BY <1>1 DEF ImportOK
<1>3. ASSUME NEW a \in Actor, mode' = "FRESH_IMPORT", call'[a].at = "store"
      PROVE  /\ call'[a].got >= imported' \/ raced'
             /\ Refreshing(a)' => call'[a].got >= call'[a].head
  BY <1>3 DEF ImportOK, Refreshing, Do
<1> QED BY <1>2, <1>3 DEF ImportOK

\* A task that fetches gets the branch as it is, which is not older than any import.
LEMMA ImportFetch ==
    ASSUME DefinitionInv, DefinitionInv', ImportOK, NEW a \in Actor, Fetch(a) PROVE ImportOK'
<1>0. /\ CallOK(a) /\ call \in [Actor -> Call] /\ call[a] \in Call /\ call[a].at = "fetch"
      /\ imported \in Nat /\ Newest \in Nat /\ 1 <= Newest
  BY Numbers DEF DefinitionInv, PlainOK, Rev, Fetch, FetchAt
<1>1. CASE Loads(git[CommitAt(call[a].key)])
  <2>1. /\ UNCHANGED <<mode, git, topo, imported, raced>>
        /\ call' = [call EXCEPT ![a] = [@ EXCEPT !.at = "store", !.got = CommitAt(call[a].key)]]
    BY <1>1 DEF Fetch, FetchAt, history
  <2>2. Newest' = Newest
    BY <2>1 DEF Newest
  <2>3. \A b \in Actor \ {a} : call'[b] = call[b]
    BY <1>0, <2>1
  <2>4. /\ call'[a].what = call[a].what /\ call'[a].todo = call[a].todo
        /\ call'[a].got = CommitAt(call[a].key) /\ call'[a].head = call[a].head
    <3> DEFINE r == [call[a] EXCEPT !.at = "store", !.got = CommitAt(call[a].key)]
    <3>1. call'[a] = r
      BY <1>0, <2>1
    <3> QED BY <1>0, <3>1 DEF Call
  <2>5. mode = "FRESH_IMPORT" => call'[a].got = Newest
    BY <1>0, <2>4 DEF CallOK, KeyFrom, CommitAt
  <2>6. call'[a].head \in Nat /\ call'[a].head <= Newest
    BY <1>0, <2>4 DEF CallOK
  <2>7. ASSUME NEW b \in Actor, mode' = "FRESH_IMPORT", call'[b].at = "store"
        PROVE  /\ call'[b].got >= imported' \/ raced'
               /\ Refreshing(b)' => call'[b].got >= call'[b].head
    <3>1. CASE b = a
      BY <1>0, <2>1, <2>5, <2>6, <2>7, <3>1 DEF ImportOK
    <3>2. CASE b # a
      BY <2>1, <2>3, <2>7, <3>2 DEF ImportOK, Refreshing, Do
    <3> QED BY <3>1, <3>2
  <2> QED BY <2>1, <2>2, <2>7 DEF ImportOK
<1>2. CASE ~Loads(git[CommitAt(call[a].key)])
  <2>1. UNCHANGED <<mode, git, topo, imported, raced>> /\ call' = [call EXCEPT ![a] = Idle]
    BY <1>2 DEF Fetch, FetchAt, Fails, Ends, history
  <2>2. \A b \in Actor : call'[b] = call[b] \/ call'[b].at # "store"
    BY <1>0, <2>1 DEF Idle
  <2>3. Newest' = Newest
    BY <2>1 DEF Newest
  <2> QED BY <1>0, <2>1, <2>2, <2>3, ImportQuiet
<1> QED BY <1>1, <1>2

\* What an import stores is not older than the branch was when it began; what
\* was fetched before, and is older, is stored by a request that races it.
LEMMA ImportStore ==
    ASSUME DefinitionInv, DefinitionInv', ImportOK, NEW a \in Actor, Store(a) PROVE ImportOK'
<1> DEFINE c == call[a]
<1>0. /\ CallOK(a) /\ PlainOK /\ call \in [Actor -> Call] /\ c \in Call /\ c.at = "store"
      /\ topo \in [Rev -> Rev] /\ imported \in Nat /\ Newest \in Nat /\ c.todo # << >>
      /\ c.todo \in Remaining[c.what] /\ c.got \in Nat /\ c.head \in Nat /\ c.head <= Newest
      /\ c.key \in Rev /\ c.what # "none"
  <2>1. CallOK(a) /\ PlainOK /\ call \in [Actor -> Call] /\ c \in Call /\ c.at = "store"
    BY DEF DefinitionInv, PlainOK, Store
  <2>2. c.todo # << >> /\ c.what # "none" /\ c.todo \in Remaining[c.what] /\ c.head <= Newest
    BY <2>1 DEF CallOK
  <2>3. Newest \in Nat
    BY Numbers DEF DefinitionInv
  <2> QED BY <2>1, <2>2, <2>3 DEF PlainOK, Call, Rev
<1>1. /\ UNCHANGED <<mode, git>> /\ topo' = [topo EXCEPT ![c.key] = c.got]
      /\ raced' = (raced \/ (Forced(a) /\ \E b \in Actor \ {a} :
                        call[b].at = "store" /\ call[b].key = Branch /\ call[b].got < c.got))
      /\ Found(a, c.got, c.boxes)
      /\ imported' = IF Refreshing(a) /\ mode = "FRESH_IMPORT" THEN c.head ELSE imported
  BY DEF Store, Returns, envVars
<1>2. Newest' = Newest
  BY <1>1 DEF Newest
<1>3. /\ \A b \in Actor \ {a} : call'[b] = call[b]
      /\ call'[a].at = "next"
  <2>1. c.got \in Rev /\ c.boxes \in Rev
    BY <1>0 DEF Call
  <2> QED BY <1>0, <1>1, <2>1, FoundCall
<1> SUFFICES ASSUME mode = "FRESH_IMPORT" PROVE ImportOK'
  BY <1>1 DEF ImportOK
<1>4. c.key = Branch /\ topo'[Branch] = c.got
  BY <1>0, <1>1 DEF CallOK, KeyFrom
<1>5. ASSUME NEW b \in Actor, call[b].at = "store" PROVE call[b].key = Branch /\ call[b].got \in Nat
  <2>1. CallOK(b) /\ call[b] \in Call
    BY DEF DefinitionInv, PlainOK
  <2> QED BY <1>5, <2>1 DEF CallOK, KeyFrom, Call, Rev
<1>6. raced => raced'
  BY <1>1
<1>7. imported' <= Newest'
  BY <1>0, <1>1, <1>2 DEF ImportOK
<1>8. CASE Refreshing(a)
  <2>1. imported' = c.head /\ c.got >= c.head /\ Forced(a)
    BY <1>0, <1>1, <1>8 DEF ImportOK, Refreshing, Forced, Do
  <2>2. ASSUME NEW b \in Actor, call'[b].at = "store"
        PROVE  /\ call'[b].got >= imported' \/ raced'
               /\ Refreshing(b)' => call'[b].got >= call'[b].head
    <3>1. b # a /\ call'[b] = call[b] /\ call[b].at = "store"
      BY <1>3, <2>2
    <3>2. CASE call[b].got < c.got
      <4>1. raced'
        BY <1>1, <1>5, <2>1, <3>1, <3>2
      <4> QED BY <3>1, <4>1 DEF ImportOK, Refreshing, Do
    <3>3. CASE ~(call[b].got < c.got)
      <4>1. call[b].got >= imported'
        BY <1>0, <1>5, <2>1, <3>1, <3>3
      <4> QED BY <3>1, <4>1 DEF ImportOK, Refreshing, Do
    <3> QED BY <3>2, <3>3
  <2> QED BY <1>1, <1>4, <1>7, <2>1, <2>2 DEF ImportOK
<1>9. CASE ~Refreshing(a)
  <2>1. imported' = imported
    BY <1>1, <1>9
  <2>2. c.got >= imported \/ raced
    BY <1>0 DEF ImportOK
  <2>3. ASSUME NEW b \in Actor, call'[b].at = "store"
        PROVE  /\ call'[b].got >= imported' \/ raced'
               /\ Refreshing(b)' => call'[b].got >= call'[b].head
    <3>1. b # a /\ call'[b] = call[b] /\ call[b].at = "store"
      BY <1>3, <2>3
    <3> QED BY <1>6, <2>1, <3>1 DEF ImportOK, Refreshing, Do
  <2> QED BY <1>1, <1>4, <1>6, <1>7, <2>1, <2>2, <2>3 DEF ImportOK
<1> QED BY <1>8, <1>9

\* The import's promise is kept by every step.
LEMMA ImportStep ==
    ASSUME DefinitionInv, ImportOK, [DNext]_dVars PROVE ImportOK'
<1>0. /\ DefinitionInv' /\ call \in [Actor -> Call] /\ Newest \in Nat
      /\ "import" \in Actor /\ "chain" \in Actor /\ "reader" \in Actor
  <2>1. DefinitionInv' /\ GitOK /\ call \in [Actor -> Call]
    BY DefinitionStep DEF DefinitionInv, PlainOK
  <2> QED BY <2>1, Numbers DEF Actor
<1>1. ASSUME NEW a \in Actor, NEW r, r.at # "store", call' = [call EXCEPT ![a] = r]
      PROVE  \A b \in Actor : call'[b] = call[b] \/ call'[b].at # "store"
  BY <1>0, <1>1
<1>2. ASSUME NEW a \in Actor, NEW top, NEW boxes, Found(a, top, boxes)
      PROVE  \A b \in Actor : call'[b] = call[b] \/ call'[b].at # "store"
  <2> DEFINE r == [call[a] EXCEPT !.todo = Tail(call[a].todo), !.at = "next", !.key = 0, !.got = 0,
                                  !.top = top, !.boxes = boxes]
  <2>1. r.at = "next"
    BY <1>0 DEF Call
  <2>2. call' = [call EXCEPT ![a] = r]
    BY <1>2 DEF Found
  <2> HIDE DEF r
  <2> QED BY <1>1, <2>1, <2>2
<1>3. ASSUME NEW a \in Actor, Ends(a)
      PROVE  \A b \in Actor : call'[b] = call[b] \/ call'[b].at # "store"
  BY <1>1, <1>3 DEF Ends, Idle
<1>4. ASSUME NEW a \in Actor, NEW t, Begins(a, t)
      PROVE  \A b \in Actor : call'[b] = call[b] \/ call'[b].at # "store"
  <2>1. [Idle EXCEPT !.what = t, !.todo = Plan[t]].at = "next"
    BY DEF Idle
  <2> QED BY <1>1, <1>4, <2>1 DEF Begins
<1>5. ASSUME UNCHANGED <<mode, git, imported, raced>>, topo'[Branch] \in {topo[Branch], 0},
             \A b \in Actor : call'[b] = call[b] \/ call'[b].at # "store"
      PROVE  ImportOK'
  <2>1. Newest <= Newest'
    BY <1>0, <1>5 DEF Newest
  <2> QED BY <1>0, <1>5, <2>1, ImportQuiet
<1>6. ASSUME NEW a \in Actor, Look(a) PROVE ImportOK'
  <2>1. UNCHANGED <<mode, git, topo, raced>>
    BY <1>6 DEF Look, envVars
  <2>2. imported' = imported
    <3>1. CASE topo[Key(RevOf(Do(a)))] # 0 /\ ~Forced(a)
      <4>1. ~(Refreshing(a) /\ mode = "FRESH_IMPORT")
        BY <3>1 DEF Forced, Refreshing, Do
      <4> QED BY <1>6, <3>1, <4>1 DEF Look, Returns
    <3>2. CASE ~(topo[Key(RevOf(Do(a)))] # 0 /\ ~Forced(a))
      BY <1>6, <3>2 DEF Look
    <3> QED BY <3>1, <3>2
  <2>3. \A b \in Actor : call'[b] = call[b] \/ call'[b].at # "store"
    <3>1. CASE topo[Key(RevOf(Do(a)))] # 0 /\ ~Forced(a)
      BY <1>2, <1>6, <3>1 DEF Look, Returns
    <3>2. CASE ~(topo[Key(RevOf(Do(a)))] # 0 /\ ~Forced(a))
      <4> DEFINE r == [call[a] EXCEPT !.at = "fetch", !.key = Key(RevOf(Do(a))),
                                      !.head = IF Refreshing(a) THEN Newest ELSE 0]
      <4>1. r.at = "fetch"
        BY <1>0 DEF Call
      <4>2. call' = [call EXCEPT ![a] = r]
        BY <1>0, <1>6, <3>2 DEF Look
      <4> HIDE DEF r
      <4> QED BY <1>1, <4>1, <4>2
    <3> QED BY <3>1, <3>2
  <2> QED BY <1>5, <2>1, <2>2, <2>3
<1>7. ASSUME NEW a \in Actor, LoadBoxes(a) PROVE ImportOK'
  <2>1. UNCHANGED <<mode, git, topo, imported, raced>>
    BY <1>7 DEF LoadBoxes, history
  <2>2. PICK boxes : \/ call' = [call EXCEPT ![a] = [@ EXCEPT !.todo = << >>, !.boxes = 0]]
                     \/ Found(a, call[a].top, boxes)
    BY <1>7 DEF LoadBoxes
  <2>3. \A b \in Actor : call'[b] = call[b] \/ call'[b].at # "store"
    <3>1. CASE Found(a, call[a].top, boxes)
      BY <1>2, <3>1
    <3>2. CASE call' = [call EXCEPT ![a] = [@ EXCEPT !.todo = << >>, !.boxes = 0]]
      <4> DEFINE r == [call[a] EXCEPT !.todo = << >>, !.boxes = 0]
      <4>1. r.at = "next"
        BY <1>0, <1>7 DEF Call, LoadBoxes, At
      <4>2. call' = [call EXCEPT ![a] = r]
        BY <1>0, <3>2
      <4> HIDE DEF r
      <4> QED BY <1>1, <4>1, <4>2
    <3> QED BY <2>2, <3>1, <3>2
  <2> QED BY <1>5, <2>1, <2>3
<1>8. ASSUME NEW a \in Actor, NEW why, Fails(a, why), git' = git PROVE ImportOK'
  BY <1>3, <1>5, <1>8 DEF Fails, history
<1>9. ASSUME NEW a \in Actor, FindInstance(a) \/ AddInstance(a) \/ GitFails(a) PROVE ImportOK'
  <2>1. CASE GitFails(a)
    BY <1>8, <2>1 DEF GitFails, Fails
  <2>2. CASE AddInstance(a)
    BY <1>2, <1>5, <2>2 DEF AddInstance, envVars, history
  <2>3. CASE FindInstance(a)
    <3>1. CASE inst # NoInst
      BY <1>2, <1>5, <2>3, <3>1 DEF FindInstance, history
    <3>2. CASE inst = NoInst /\ Nodes(Topology(call[a].top)) \subseteq Nodes(Topology(stack))
      <4>1. UNCHANGED <<mode, git, topo, imported, raced>> /\ call' = [call EXCEPT ![a].at = "add"]
        BY <2>3, <3>2 DEF FindInstance, history
      <4>2. \A b \in Actor : call'[b] = call[b] \/ call'[b].at # "store"
        BY <1>0, <4>1 DEF Call
      <4> QED BY <1>5, <4>1, <4>2
    <3>3. CASE inst = NoInst /\ ~(Nodes(Topology(call[a].top)) \subseteq Nodes(Topology(stack)))
      BY <1>8, <2>3, <3>3 DEF FindInstance, Fails
    <3> QED BY <3>1, <3>2, <3>3
  <2> QED BY <1>9, <2>1, <2>2, <2>3
<1>10. CASE Import \/ BuildStack \/ RunStage \/ ReadTopology \/ ReadUsage \/ ReadAccess \/ CreatePool
  <2>1. \E a \in Actor, t \in DOMAIN Plan : Begins(a, t)
    <3>1. DOMAIN Plan = {"import", "pool", "stack", "stage", "mgmt", "show", "usage"}
      BY DEF Plan
    <3> QED BY <1>0, <1>10, <3>1
            DEF Import, BuildStack, RunStage, ReadTopology, ReadUsage, ReadAccess, CreatePool
  <2>2. UNCHANGED <<mode, git, topo, imported, raced>>
    BY <1>10 DEF Import, BuildStack, RunStage, ReadTopology, ReadUsage, ReadAccess, CreatePool,
                 envVars, history
  <2> QED BY <1>4, <1>5, <2>1, <2>2
<1>11. CASE EndImport \/ EndPool \/ EndStack \/ EndStage \/ EndRead
  <2>1. \E a \in Actor : Ends(a)
    BY <1>0, <1>11 DEF EndImport, EndPool, EndStack, EndStage, EndRead
  <2>2. UNCHANGED <<mode, git, topo, imported, raced>>
    BY <1>11 DEF EndImport, EndPool, EndStack, EndStage, EndRead, envVars, history
  <2> QED BY <1>3, <1>5, <2>1, <2>2
<1>12. CASE DeleteDefinition \/ DeletePool \/ Restart \/ Cleanup \/ UNCHANGED dVars
  <2>1. UNCHANGED <<mode, git, topo, imported, raced, call>>
    BY <1>12 DEF DeleteDefinition, DeletePool, Restart, Cleanup, dVars, envVars, history
  <2> QED BY <1>5, <2>1
<1>13. CASE Push
  <2>1. UNCHANGED <<mode, topo, imported, raced, call>> /\ Newest' = Newest + 1
    BY <1>13, PushOK DEF Push, history
  <2> QED BY <1>0, <2>1, ImportQuiet
<1>14. CASE Expire
  <2>1. UNCHANGED <<mode, git, imported, raced, call>>
    BY <1>14 DEF Expire, envVars, history
  <2>2. topo'[Branch] \in {topo[Branch], 0}
    <3>1. topo \in [Rev -> Rev] /\ Branch \in Rev
      <4>1. topo \in [Rev -> Rev]
        BY DEF DefinitionInv, PlainOK
      <4>2. Branch \in Rev
        BY DefinitionsAssumption DEF Branch, Rev
      <4> QED BY <4>1, <4>2
    <3> QED BY <1>14, <3>1 DEF Expire
  <2> QED BY <1>5, <2>1, <2>2
<1>15. ASSUME NEW a \in Actor, Fetch(a) \/ Store(a) PROVE ImportOK'
  BY <1>0, <1>15, ImportFetch, ImportStore
<1> QED BY <1>6, <1>7, <1>9, <1>10, <1>11, <1>12, <1>13, <1>14, <1>15 DEF DNext

\* The invariant says what an import leaves in the cache.
LEMMA ImportFromInv == DefinitionInv /\ ImportOK => ImportRefreshes
<1> SUFFICES ASSUME DefinitionInv, ImportOK, mode = "FRESH_IMPORT", topo[Branch] # 0,
                    topo[Branch] < imported
             PROVE  raced
  BY DEF ImportRefreshes
<1>1. topo[Branch] \in Nat /\ imported \in Nat
  BY DefinitionsAssumption DEF DefinitionInv, PlainOK, Rev, Branch
<1> QED BY <1>1 DEF ImportOK

-----------------------------------------------------------------------------
(* The consoles *)

\* Nobody waits for nothing as long as whoever is about to enqueue still is.
LEMMA StillWaits ==
    ASSUME WaitHasJob, flag' \subseteq flag, \A n \in flag' : jobs[n] > 0 => jobs'[n] > 0,
           \A n \in flag' : n \in failed => n \in failed',
           \A w \in Viewers : view[w].at = "enqueue" => view'[w] = view[w]
    PROVE  WaitHasJob'
BY DEF WaitHasJob

\* At first nobody looks.
LEMMA ConsolesStart == Init => ConsoleInv /\ ImportOK
<1> SUFFICES ASSUME Init PROVE ConsoleInv /\ ImportOK
  OBVIOUS
<1>1. DefinitionInv
  BY DefinitionStarts DEF Init
<1>2. Away \in View
  BY DEF Away, View
<1>3. ViewsOK
  <2>1. /\ url = {} /\ flag = {} /\ failed = {} /\ answered = {} /\ trouble \in 0..MaxConsole
        /\ view = [v \in Viewers |-> Away] /\ jobs = [n \in AllNodes |-> 0]
    BY ConsolesAssumption DEF Init
  <2>2. view \in [Viewers -> View] /\ \A v \in Viewers : view[v].at = "away"
    BY <1>2, <2>1 DEF Away
  <2> HIDE DEF AllNodes
  <2>3. jobs \in [AllNodes -> Nat]
    BY <2>1
  <2> QED BY <2>1, <2>2, <2>3 DEF ViewsOK
<1>4. WaitHasJob
  BY DEF Init, WaitHasJob
<1>5. ImportOK
  <2>1. Branch \in Rev /\ Newest \in Nat
    BY <1>1, Numbers, DefinitionsAssumption DEF Branch, Rev, DefinitionInv
  <2>2. topo[Branch] = 0 /\ imported = 0 /\ \A a \in Actor : call[a] = Idle
    BY <2>1 DEF Init, DInit
  <2>3. Idle.at = "next"
    BY DEF Idle
  <2> QED BY <2>1, <2>2, <2>3 DEF ImportOK
<1> QED BY <1>1, <1>3, <1>4, <1>5 DEF ConsoleInv

\* A viewer goes on.
LEMMA ViewMoves ==
    ASSUME ViewsOK, NEW v \in Viewers, NEW r \in View, view' = [view EXCEPT ![v] = r],
           UNCHANGED passed, r.at # "away" => passed = 2,
           r.at \in {"flag", "set", "enqueue"} => r.node \in AllNodes,
           url' = url, flag' \subseteq AllNodes, failed' = failed, jobs' \in [AllNodes -> Nat],
           answered' \subseteq Viewers, trouble' = trouble
    PROVE  /\ ViewsOK' /\ view'[v] = r
           /\ \A w \in Viewers \ {v} : view'[w] = view[w]
<1>1. /\ view' \in [Viewers -> View] /\ view'[v] = r
      /\ \A w \in Viewers \ {v} : view'[w] = view[w]
  BY DEF ViewsOK
<1>2. \A w \in Viewers : /\ view'[w].at \in {"flag", "set", "enqueue"} => view'[w].node \in AllNodes
                         /\ view'[w].at # "away" => passed' = 2
  <2> SUFFICES ASSUME NEW w \in Viewers
               PROVE  /\ view'[w].at \in {"flag", "set", "enqueue"} => view'[w].node \in AllNodes
                      /\ view'[w].at # "away" => passed' = 2
    OBVIOUS
  <2> QED BY <1>1 DEF ViewsOK
<1> QED BY <1>1, <1>2 DEF ViewsOK

\* A console of the stack is one of those that are looked at.
LEMMA ShownNodes == ASSUME DefinitionInv, Quiet PROVE Shown \subseteq AllNodes
<1>1. stack # 0 /\ stack \in Rev /\ stack <= Newest /\ Newest = 1
  BY DEF DefinitionInv, PlainOK, PoolOK, Quiet
<1>2. stack = 1
  BY <1>1, DefinitionsAssumption DEF Rev
<1>3. git[1] \in ConsoleSites /\ Shown = ConsoleNodes(git[1].top)
  BY <1>2 DEF Quiet, Shown, Topology
<1> HIDE DEF ConsoleNodes
<1> QED BY <1>3 DEF AllNodes

\* The steps of a viewer.
LEMMA ViewStepOK ==
    ASSUME ConsoleInv, UNCHANGED dVars, NEW v \in Viewers, ViewStep(v)
    PROVE  ViewsOK' /\ WaitHasJob'
<1> DEFINE x == view[v]
<1>0. /\ DefinitionInv /\ ViewsOK /\ WaitHasJob /\ UNCHANGED passed
      /\ x \in View /\ view \in [Viewers -> View] /\ jobs \in [AllNodes -> Nat]
      /\ flag \subseteq AllNodes /\ answered \subseteq Viewers
      /\ x.left \subseteq AllNodes /\ x.node \in AllNodes \cup {None} /\ x.ready \in BOOLEAN
      /\ x.at \in {"flag", "set", "enqueue"} => x.node \in AllNodes
      /\ x.at # "away" => passed = 2
  <2>1. DefinitionInv /\ ViewsOK /\ WaitHasJob /\ UNCHANGED passed
    BY DEF ConsoleInv, dVars, boxVars
  <2>2. x \in View
    BY <2>1 DEF ViewsOK
  <2> QED BY <2>1, <2>2 DEF ViewsOK, View
<1>1. CASE Poll(v)
  <2> DEFINE r == [Away EXCEPT !.at = "node", !.left = Shown]
  <2>1. /\ view' = [view EXCEPT ![v] = r] /\ x.at = "away" /\ passed = 2 /\ Shown \subseteq AllNodes
        /\ UNCHANGED <<url, flag, jobs, answered, trouble, failed>>
    BY <1>0, <1>1, ShownNodes DEF Poll, Quiet
  <2> HIDE DEF Shown
  <2>2. r \in View /\ r.at = "node"
    BY <2>1 DEF Away, View
  <2> HIDE DEF r
  <2>3. ViewsOK' /\ view'[v] = r /\ \A w \in Viewers \ {v} : view'[w] = view[w]
    BY <1>0, <2>1, <2>2, ViewMoves
  <2>4. WaitHasJob'
    BY <1>0, <2>1, <2>3, StillWaits
  <2> QED BY <2>3, <2>4
<1>2. CASE ReadUrl(v)
  <2> DEFINE n == CHOOSE n \in x.left : TRUE
             r == IF n \in url THEN [x EXCEPT !.left = x.left \ {n}]
                               ELSE [x EXCEPT !.at = "flag", !.node = n]
  <2>1. /\ x.at = "node" /\ x.left # {} /\ UNCHANGED <<url, flag, jobs, answered, trouble, failed>>
    BY <1>2 DEF ReadUrl
  <2>2. n \in AllNodes
    BY <1>0, <2>1
  <2>3. view' = [view EXCEPT ![v] = IF n \in url THEN [@ EXCEPT !.left = x.left \ {n}]
                                                ELSE [@ EXCEPT !.at = "flag", !.node = n]]
    BY <1>2 DEF ReadUrl
  <2> HIDE DEF n
  <2>4. view' = [view EXCEPT ![v] = r]
    BY <1>0, <2>3
  <2>5. r \in View /\ (r.at \in {"flag", "set", "enqueue"} => r.node \in AllNodes)
    BY <1>0, <2>1, <2>2 DEF View
  <2> HIDE DEF r
  <2>6. ViewsOK' /\ view'[v] = r /\ \A w \in Viewers \ {v} : view'[w] = view[w]
    BY <1>0, <2>1, <2>4, <2>5, ViewMoves
  <2>7. WaitHasJob'
    BY <1>0, <2>1, <2>6, StillWaits
  <2> QED BY <2>6, <2>7
<1>3. ASSUME NextNode(v, FALSE), x.at \in {"flag", "enqueue"}
      PROVE  \E r \in View : r.at = "node" /\ view' = [view EXCEPT ![v] = r]
  <2> DEFINE r == [x EXCEPT !.at = "node", !.node = None, !.left = x.left \ {x.node}, !.ready = FALSE]
  <2>1. r \in View /\ r.at = "node"
    BY <1>0 DEF View
  <2>2. view' = [view EXCEPT ![v] = [@ EXCEPT !.at = "node", !.node = None,
                            !.left = x.left \ {x.node}, !.ready = x.ready /\ FALSE]]
    BY <1>3 DEF NextNode
  <2>3. (x.ready /\ FALSE) = FALSE
    OBVIOUS
  <2>4. view' = [view EXCEPT ![v] = r]
    BY <1>0, <2>2, <2>3
  <2> HIDE DEF r
  <2> QED BY <2>1, <2>4
<1>4. ASSUME NEW at \in {"set", "enqueue"}, To(v, at), x.at \in {"flag", "set"}
      PROVE  \E r \in View : r.at = at /\ r.node = x.node /\ view' = [view EXCEPT ![v] = r]
  <2> DEFINE r == [x EXCEPT !.at = at]
  <2>1. r \in View /\ r.at = at /\ r.node = x.node
    BY <1>0 DEF View
  <2>2. view' = [view EXCEPT ![v] = r]
    BY <1>0, <1>4 DEF To
  <2> HIDE DEF r
  <2> QED BY <2>1, <2>2
<1>5. CASE ReadFlag(v)
  <2>1. x.at = "flag" /\ UNCHANGED <<url, flag, jobs, answered, trouble, failed>>
    BY <1>5 DEF ReadFlag
  <2>2. PICK r \in View : /\ r.at = "node" \/ (r.at = "set" /\ r.node = x.node)
                          /\ view' = [view EXCEPT ![v] = r]
    BY <1>3, <1>4, <1>5, <2>1 DEF ReadFlag
  <2>3. ViewsOK' /\ view'[v] = r /\ \A w \in Viewers \ {v} : view'[w] = view[w]
    BY <1>0, <2>1, <2>2, ViewMoves
  <2>4. WaitHasJob'
    BY <1>0, <2>1, <2>3, StillWaits
  <2> QED BY <2>3, <2>4
<1>6. CASE SetFlag(v)
  <2>1. /\ x.at = "set" /\ flag' = flag \cup {x.node}
        /\ UNCHANGED <<url, jobs, answered, trouble, failed>>
    BY <1>6 DEF SetFlag
  <2>2. PICK r \in View : r.at = "enqueue" /\ r.node = x.node /\ view' = [view EXCEPT ![v] = r]
    BY <1>4, <1>6, <2>1 DEF SetFlag
  <2>3. ViewsOK' /\ view'[v] = r /\ \A w \in Viewers \ {v} : view'[w] = view[w]
    BY <1>0, <2>1, <2>2, ViewMoves
  <2>4. ASSUME NEW n \in flag'
        PROVE  jobs'[n] > 0 \/ n \in failed'
                   \/ \E w \in Viewers : view'[w].at = "enqueue" /\ view'[w].node = n
    <3>1. CASE n = x.node
      BY <2>2, <2>3, <3>1
    <3>2. CASE n # x.node
      <4>1. n \in flag
        BY <2>1, <3>2
      <4> QED BY <1>0, <2>1, <2>3, <4>1 DEF WaitHasJob
    <3> QED BY <3>1, <3>2
  <2> QED BY <2>3, <2>4 DEF WaitHasJob
<1>7. CASE Enqueue(v)
  <2>1. /\ x.at = "enqueue" /\ jobs' = [jobs EXCEPT ![x.node] = @ + 1]
        /\ UNCHANGED <<url, flag, answered, trouble, failed>> /\ x.node \in AllNodes
    BY <1>0, <1>7 DEF Enqueue
  <2>2. /\ jobs' \in [AllNodes -> Nat] /\ jobs'[x.node] > 0
        /\ \A n \in AllNodes \ {x.node} : jobs'[n] = jobs[n]
    BY <1>0, <2>1
  <2>3. PICK r \in View : r.at = "node" /\ view' = [view EXCEPT ![v] = r]
    BY <1>3, <1>7, <2>1 DEF Enqueue
  <2>4. ViewsOK' /\ view'[v] = r /\ \A w \in Viewers \ {v} : view'[w] = view[w]
    BY <1>0, <2>1, <2>2, <2>3, ViewMoves
  <2>5. ASSUME NEW n \in flag'
        PROVE  jobs'[n] > 0 \/ n \in failed'
                   \/ \E w \in Viewers : view'[w].at = "enqueue" /\ view'[w].node = n
    <3>1. CASE n = x.node
      BY <2>2, <3>1
    <3>2. CASE n # x.node
      <4>1. n \in flag /\ n \in AllNodes /\ jobs'[n] = jobs[n]
        BY <1>0, <2>1, <2>2, <3>2
      <4>2. \A w \in Viewers : view[w].node = n => w # v
        BY <3>2
      <4> QED BY <1>0, <2>1, <2>4, <4>1, <4>2 DEF WaitHasJob
    <3> QED BY <3>1, <3>2
  <2> QED BY <2>4, <2>5 DEF WaitHasJob
<1>8. CASE Answer(v)
  <2>1. /\ x.at = "node" /\ view' = [view EXCEPT ![v] = Away] /\ answered' \subseteq Viewers
        /\ UNCHANGED <<url, flag, jobs, trouble, failed>>
    BY <1>0, <1>8 DEF Answer
  <2>2. Away \in View /\ Away.at = "away"
    BY DEF Away, View
  <2>3. ViewsOK' /\ \A w \in Viewers \ {v} : view'[w] = view[w]
    BY <1>0, <2>1, <2>2, ViewMoves
  <2>4. WaitHasJob'
    BY <1>0, <2>1, <2>3, StillWaits
  <2> QED BY <2>3, <2>4
<1> QED BY <1>1, <1>2, <1>5, <1>6, <1>7, <1>8 DEF ViewStep

\* The steps of a console job, and the timeouts.
LEMMA JobStepOK ==
    ASSUME ConsoleInv, UNCHANGED dVars, NEW n \in AllNodes,
           Job(n) \/ JobFails(n) \/ UrlExpires(n) \/ FlagExpires(n)
    PROVE  ViewsOK' /\ WaitHasJob'
<1>0. /\ ViewsOK /\ WaitHasJob /\ UNCHANGED <<passed, view>> /\ flag \subseteq AllNodes
      /\ jobs \in [AllNodes -> Nat] /\ trouble \in Nat /\ MaxConsole \in Nat /\ trouble <= MaxConsole
  BY ConsolesAssumption
     DEF ConsoleInv, ViewsOK, dVars, boxVars, Job, JobFails, UrlExpires, FlagExpires
<1>1. CASE Job(n) \/ JobFails(n)
  <2>1. /\ jobs[n] > 0 /\ jobs' = [jobs EXCEPT ![n] = @ - 1]
        /\ url' \subseteq url \cup {n} /\ answered' = answered
    BY <1>1 DEF Job, JobFails
  <2>2. jobs' \in [AllNodes -> Nat] /\ \A m \in AllNodes \ {n} : jobs'[m] = jobs[m]
    BY <1>0, <2>1
  <2>3. /\ flag' \subseteq flag /\ failed' \subseteq failed \cup {n} /\ trouble' \in 0..MaxConsole
        /\ n \in flag' => n \in failed'
        /\ \A m \in AllNodes \ {n} : m \in failed => m \in failed'
    BY <1>0, <1>1 DEF Job, JobFails
  <2>4. ViewsOK'
    BY <1>0, <2>1, <2>2, <2>3 DEF ViewsOK
  <2>5. ASSUME NEW m \in flag'
        PROVE  jobs'[m] > 0 \/ m \in failed'
                   \/ \E w \in Viewers : view'[w].at = "enqueue" /\ view'[w].node = m
    BY <1>0, <2>2, <2>3 DEF WaitHasJob
  <2> QED BY <2>4, <2>5 DEF WaitHasJob
<1>2. CASE UrlExpires(n)
  <2>1. /\ UNCHANGED <<flag, jobs, answered, failed>> /\ url' \subseteq url
        /\ trouble' \in 0..MaxConsole
    BY <1>0, <1>2 DEF UrlExpires
  <2> QED BY <1>0, <2>1 DEF ViewsOK, WaitHasJob
<1>3. CASE FlagExpires(n)
  <2>1. /\ UNCHANGED <<url, jobs, answered>> /\ flag' = flag \ {n} /\ failed' = failed \ {n}
        /\ trouble' \in 0..MaxConsole
    BY <1>0, <1>3 DEF FlagExpires
  <2>2. ViewsOK'
    BY <1>0, <2>1 DEF ViewsOK
  <2>3. WaitHasJob'
    BY <1>0, <2>1, StillWaits
  <2> QED BY <2>2, <2>3
<1> QED BY <1>1, <1>2, <1>3

\* No step of definitions or consoles breaks the invariant.
LEMMA ConsolesStep == ConsoleInv /\ ImportOK /\ [Next]_vars => ConsoleInv' /\ ImportOK'
<1> SUFFICES ASSUME ConsoleInv, ImportOK, [Next]_vars PROVE ConsoleInv' /\ ImportOK'
  OBVIOUS
<1>0. DefinitionInv /\ ViewsOK /\ WaitHasJob
  BY DEF ConsoleInv
<1>1. CASE DNext /\ Untouched /\ UNCHANGED cVars
  <2>1. DefinitionInv' /\ ImportOK'
    BY <1>0, <1>1, DefinitionStep, ImportStep
  <2>2. UNCHANGED <<url, flag, jobs, view, answered, trouble, failed>>
    BY <1>1 DEF cVars
  <2>3. \A v \in Viewers : view[v].at = "away"
    BY <1>1 DEF Untouched, Away
  <2>4. ViewsOK'
    BY <1>0, <2>2, <2>3 DEF ViewsOK
  <2>5. WaitHasJob'
    BY <1>0, <2>2 DEF WaitHasJob
  <2> QED BY <2>1, <2>4, <2>5 DEF ConsoleInv
<1>2. CASE UNCHANGED dVars
  <2>1. DefinitionInv' /\ ImportOK'
    BY <1>0, <1>2, DefinitionStep, ImportStep
  <2>2. CASE CNext
    <3>1. ViewsOK' /\ WaitHasJob'
      BY <1>2, <2>2, ViewStepOK, JobStepOK DEF CNext
    <3> QED BY <2>1, <3>1 DEF ConsoleInv
  <2>3. CASE UNCHANGED cVars
    <3>1. UNCHANGED <<url, flag, jobs, view, answered, trouble, failed, passed>>
      BY <1>2, <2>3 DEF cVars, dVars, boxVars
    <3>2. ViewsOK' /\ WaitHasJob'
      BY <1>0, <3>1 DEF ViewsOK, WaitHasJob
    <3> QED BY <2>1, <3>2 DEF ConsoleInv
  <2>4. CASE DNext /\ Untouched /\ UNCHANGED cVars
    BY <1>1, <2>4
  <2> QED BY <2>2, <2>3, <2>4 DEF Next, vars
<1> QED BY <1>1, <1>2 DEF Next, vars

\* So it always holds.
LEMMA ConsolesInvariant == Spec => [](ConsoleInv /\ ImportOK)
BY ConsolesStart, ConsolesStep, PTL DEF Spec

-----------------------------------------------------------------------------
(* What is built from one topology *)

\* A set of numbers that is not empty has a least one.
LEMMA LeastNumber ==
    ASSUME NEW S \in SUBSET Nat, S # {}
    PROVE  Min(S) \in S
<1>1. PICK n \in S : \A m \in S : <<m, n>> \notin OpToRel(<, Nat)
  BY NatLessThanWellFounded, WFMin
<1>2. \A m \in S : ~(m < n)
  BY <1>1 DEF OpToRel
<1>3. \A m \in S : n <= m
  BY <1>2
<1> QED BY <1>3 DEF Min

\* A network with a router on it is served by one of those.
LEMMA Served ==
    ASSUME NEW t, WellFormed(t), NEW net, Linked(t, net) \cap t.routers # {}
    PROVE  NetworkRouter(t, net) \in Linked(t, net) \cap t.routers
<1> DEFINE on == {i \in DOMAIN Names : Names[i] \in Linked(t, net) \cap t.routers}
<1>1. DOMAIN Names \subseteq Nat
  BY NamesAssumption
<1>2. PICK r \in Linked(t, net) \cap t.routers : TRUE
  OBVIOUS
<1>3. r \in Range(Names)
  BY <1>2 DEF WellFormed
<1>4. on # {} /\ on \in SUBSET Nat
  BY <1>1, <1>2, <1>3 DEF Range
<1>5. Min(on) \in on
  BY <1>4, LeastNumber
<1>6. NetworkRouter(t, net) = Names[Min(on)]
  BY <1>4 DEF NetworkRouter
<1> QED BY <1>5, <1>6

\* A network of a node is one it is wired to.
LEMMA OnWires ==
    ASSUME NEW t, NEW node, NEW net
    PROVE  net \in On(t, node) <=> net \in t.nets /\ net \in Range(t.wires[node])
BY DEF On, Links, Range

\* The routes to a network that MAN gets: over the router that serves it.
LEMMA RoutesTo ==
    ASSUME NEW t, WellFormed(t), NEW net \in t.nets
    PROVE  LET over == {r \in UNION {i.routes : i \in HostEntry(t, Man).interfaces} : r[1] = net}
               router == NetworkRouter(t, net)
           IN over = IF Linked(t, net) \cap t.routers = {} THEN {} ELSE {<<net, <<router, Wan>>>>}
<1> DEFINE routes == UNION {{<<n, <<r, Wan>>>> : n \in RoutedNetworks(t, r)} : r \in t.routers}
           over == {r \in routes : r[1] = net}
           router == NetworkRouter(t, net)
<1>1. UNION {i.routes : i \in HostEntry(t, Man).interfaces} = routes
  <2>1. HostEntry(t, Man).interfaces
           = {[ip |-> <<Man, Wan>>, gateway |-> None, routes |-> routes]}
    BY DEF HostEntry, Interfaces, WellFormed
  <2> QED BY <2>1
<1>2. ASSUME NEW x \in over
      PROVE  /\ Linked(t, net) \cap t.routers # {} /\ x = <<net, <<router, Wan>>>>
  <2>1. PICK r \in t.routers : \E n \in RoutedNetworks(t, r) : x = <<n, <<r, Wan>>>>
    OBVIOUS
  <2>2. x = <<net, <<r, Wan>>>> /\ net \in RoutedNetworks(t, r)
    BY <2>1
  <2>3. net \in Range(t.wires[r]) /\ router = r
    BY <2>1, <2>2, OnWires DEF RoutedNetworks
  <2> QED BY <2>1, <2>2, <2>3 DEF Linked
<1>3. ASSUME Linked(t, net) \cap t.routers # {}
      PROVE  <<net, <<router, Wan>>>> \in over
  <2>1. router \in t.routers /\ net \in Range(t.wires[router])
    BY <1>3, Served DEF Linked
  <2>2. net \in RoutedNetworks(t, router)
    BY <2>1, OnWires DEF RoutedNetworks
  <2> QED BY <2>1, <2>2
<1> HIDE DEF routes, router
<1>4. over = IF Linked(t, net) \cap t.routers = {} THEN {} ELSE {<<net, <<router, Wan>>>>}
  BY <1>2, <1>3
<1> QED BY <1>1, <1>4 DEF router

\* Ansible's SSH configuration knows every node, and the host it jumps over.
LEMMA NodesKnown ==
    ASSUME NEW t, NEW n \in Nodes(t)
    PROVE  \E e, j \in AnsibleConfig(t) :
               e.alias = <<n>> /\ e.address = HostEntry(t, n).host /\ j.alias = <<e.jump>>
<1> DEFINE proxy == ProxyEntry("ansible")
           man == Entry(<<Man>>, OutAddress, "mgmt", Proxy)
<1>1. proxy \in AnsibleConfig(t) /\ man \in AnsibleConfig(t)
  BY DEF AnsibleConfig, MgmtConfig
<1>2. proxy.alias = <<Proxy>> /\ man.alias = <<Man>> /\ man.jump = Proxy /\ man.address = OutAddress
  BY DEF ProxyEntry, Entry
<1>3. HostEntry(t, n).host = IF n = Man THEN OutAddress ELSE <<n, ManNet>>
  BY DEF HostEntry, ManagementAddress
<1>4. CASE n = Man
  BY <1>1, <1>2, <1>3, <1>4
<1>5. CASE n # Man
  <2> DEFINE e == Entry(<<n>>, <<n, ManNet>>, "mgmt", Man)
  <2>1. e \in AnsibleConfig(t)
    BY <1>5 DEF AnsibleConfig, MgmtConfig, Nodes
  <2>2. e.alias = <<n>> /\ e.address = <<n, ManNet>> /\ e.jump = Man
    BY DEF Entry
  <2> QED BY <1>1, <1>2, <1>3, <1>5, <2>1, <2>2
<1> QED BY <1>4, <1>5

\* The topology of the sandbox's instance is one of the repository's.
LEMMA InstanceKnown ==
    ASSUME DefinitionInv, inst # NoInst
    PROVE  git[inst.top] \in Contents /\ WellFormed(Topology(inst.top)) /\ Loads(git[inst.top])
<1>1. inst.top \in 1..Len(git) /\ Loads(git[inst.top])
  BY Numbers DEF DefinitionInv, PoolOK, Fine, PlainOK, Rev, Newest
<1>2. git[inst.top] \in Contents
  BY <1>1 DEF DefinitionInv, GitOK
<1> QED BY <1>1, <1>2, ContentsAssumption DEF Topology

\* The invariant says what the instance is made of, and so who is reached.
LEMMA ReachesFromInv == DefinitionInv => AnsibleReaches
<1> SUFFICES ASSUME DefinitionInv, inst # NoInst PROVE AnsibleReaches
  BY DEF AnsibleReaches
<1> DEFINE t == Topology(inst.top)
           routes == UNION {i.routes : i \in HostEntry(t, Man).interfaces}
<1>1. WellFormed(t)
  BY InstanceKnown
<1>2. ASSUME NEW net \in t.nets
      PROVE  LET over == {r \in routes : r[1] = net}
                 routers == Linked(t, net) \cap t.routers
             IN /\ Cardinality(over) = (IF routers = {} THEN 0 ELSE 1)
                /\ \A r \in over : \E router \in routers :
                     \E back \in HostEntry(t, router).interfaces :
                         back.ip = r[2] /\ back.gateway = <<Man, Wan>>
                             /\ HostEntry(t, router).forward
  <2> DEFINE over == {r \in routes : r[1] = net}
             routers == Linked(t, net) \cap t.routers
             router == NetworkRouter(t, net)
  <2>1. over = IF routers = {} THEN {} ELSE {<<net, <<router, Wan>>>>}
    BY <1>1, RoutesTo
  <2>2. Cardinality(over) = (IF routers = {} THEN 0 ELSE 1)
    BY <2>1, FS_EmptySet, FS_Singleton
  <2>3. ASSUME NEW r \in over
        PROVE  router \in routers /\ \E back \in HostEntry(t, router).interfaces :
                   back.ip = r[2] /\ back.gateway = <<Man, Wan>> /\ HostEntry(t, router).forward
    <3>1. router \in routers /\ r[2] = <<router, Wan>>
      BY <1>1, <2>1, Served
    <3>2. router # Man /\ router \in t.routers
      BY <1>1, <3>1 DEF WellFormed
    <3>3. Interfaces(t, router) = {[ip |-> <<router, Wan>>, gateway |-> <<Man, Wan>>, routes |-> {}]}
      BY <3>2 DEF Interfaces
    <3>4. HostEntry(t, router).interfaces = Interfaces(t, router) /\ HostEntry(t, router).forward
      BY <3>2 DEF HostEntry, Forwards
    <3> DEFINE back == [ip |-> <<router, Wan>>, gateway |-> <<Man, Wan>>, routes |-> {}]
    <3>5. back \in HostEntry(t, router).interfaces /\ back.ip = r[2] /\ back.gateway = <<Man, Wan>>
      BY <3>1, <3>3, <3>4
    <3> QED BY <3>1, <3>4, <3>5
  <2> QED BY <2>2, <2>3
<1> HIDE DEF t
<1> QED BY <1>2, NodesKnown DEF AnsibleReaches, t

-----------------------------------------------------------------------------
(* Containers, and a pool nothing has gone wrong for *)

(* The commit a pool is built from, and what is loaded of its containers    *)
(* when no call fails.                                                      *)
PinnedCommit == CommitAt(pool.rev)
BoxesAt(n) == IF git[n].boxes = None THEN 0 ELSE n

(* Nothing has gone wrong: no git call has failed, and a pool that is       *)
(* pinned to the branch has not seen the branch move.                       *)
Calm == faults = 0 /\ (mode = "FRESH" \/ Newest = 1)
Loaded(a) ==
    /\ Do(a) = "pool" /\ call[a].todo = << >> => call[a].boxes = BoxesAt(PinnedCommit)
    /\ Do(a) \in {"stage", "mgmt"} /\ call[a].todo \in {<<"inst">>, << >>}
            => call[a].boxes \in {0, PinnedCommit}
CalmOK ==
    /\ fail = "none" /\ inst.boxes \in {0, PinnedCommit} /\ \A a \in Actor : Loaded(a)
    /\ pool.st = "ready" /\ git[PinnedCommit].boxes # None =>
          MapsFine(Topology(PinnedCommit), git[PinnedCommit].boxes, git[PinnedCommit].files)
BoxesOK == inst.boxes <= Newest /\ \A a \in Actor : call[a].boxes <= Newest
BuildInv == BoxesOK /\ (Calm => CalmOK)

\* What is calm now has been calm.
LEMMA CalmBefore ==
    ASSUME DefinitionInv, GitOK', Grows, Calm'
    PROVE  Calm /\ Newest \in Nat /\ Newest' \in Nat /\ 1 <= Newest
<1>1. Newest \in Nat /\ 1 <= Newest /\ faults \in Nat /\ faults' \in Nat
  BY Numbers, DefinitionsAssumption DEF DefinitionInv, PlainOK, Grows
<1>2. Newest' \in Nat
  BY DEF GitOK, Newest
<1> QED BY <1>1, <1>2 DEF Calm, Grows

\* While nothing goes wrong, a pool is built from the same commit throughout.
LEMMA PinStays ==
    ASSUME DefinitionInv, GitOK', Grows, Calm', pool'.rev = pool.rev, pool.st # "none"
    PROVE  /\ PinnedCommit' = PinnedCommit /\ PinnedCommit \in 1..Newest
           /\ git'[PinnedCommit] = git[PinnedCommit]
<1>1. /\ mode = "FRESH" => pool.rev # 0
      /\ mode # "FRESH" => pool.rev = 0
      /\ pool.rev \in Rev /\ pool.rev <= Newest
  BY DEF DefinitionInv, PoolOK
<1>2. Calm /\ Newest \in Nat /\ Newest' \in Nat /\ 1 <= Newest /\ mode' = mode
  BY CalmBefore DEF Grows
<1>3. CASE mode = "FRESH"
  <2>1. PinnedCommit = pool.rev /\ PinnedCommit' = pool'.rev /\ pool.rev \in 1..Newest
    BY <1>1, <1>2, <1>3 DEF PinnedCommit, CommitAt, Branch, Rev
  <2> QED BY <2>1 DEF Grows
<1>4. CASE mode # "FRESH"
  <2>1. Newest = 1 /\ Newest' = 1
    BY <1>2, <1>4 DEF Calm
  <2>2. PinnedCommit = Newest /\ PinnedCommit' = Newest'
    BY <1>1, <1>4 DEF PinnedCommit, CommitAt, Branch
  <2> QED BY <2>1, <2>2 DEF Grows
<1> QED BY <1>3, <1>4

\* The topology a pool has pinned is that of its commit.
LEMMA PinnedTop ==
    ASSUME DefinitionInv, Calm, NEW n, From("pool", n), n # 0, n \in Rev, n <= Newest,
           pool.st # "none"
    PROVE  n = PinnedCommit
<1>1. /\ mode = "FRESH" => pool.rev # 0 /\ n = pool.rev
      /\ mode # "FRESH" => pool.rev = 0 /\ n = 1 /\ Newest = 1
  BY Numbers, DefinitionsAssumption DEF DefinitionInv, PoolOK, Calm, From, Pinned, Rev
<1> QED BY <1>1 DEF PinnedCommit, CommitAt, Branch

\* What a task has loaded stays what it is.
LEMMA LoadedStays ==
    ASSUME DefinitionInv, GitOK', BuildInv, Grows, Calm', NEW b \in Actor, call'[b] = call[b],
           call[b].what \in Pinned => pool'.rev = pool.rev
    PROVE  Loaded(b)'
<1>1. Loaded(b)
  BY CalmBefore DEF BuildInv, CalmOK
<1>2. CASE call[b].what \in {"pool", "stage", "mgmt"}
  <2>1. call[b].what \in Pinned
    BY <1>2 DEF Pinned
  <2>2. pool.st # "none"
    BY <2>1, PinnedPool
  <2>3. PinnedCommit' = PinnedCommit /\ git'[PinnedCommit] = git[PinnedCommit]
    BY <2>1, <2>2, PinStays
  <2>4. BoxesAt(PinnedCommit)' = BoxesAt(PinnedCommit)
    BY <2>3 DEF BoxesAt
  <2> QED BY <1>1, <2>3, <2>4 DEF Loaded, Do
<1>3. CASE call[b].what \notin {"pool", "stage", "mgmt"}
  BY <1>3 DEF Loaded, Do
<1> QED BY <1>2, <1>3

\* So does an instance whose pool is not replaced.
LEMMA InstStays ==
    ASSUME DefinitionInv, GitOK', BuildInv, Grows, Calm', inst' \in {inst, NoInst},
           inst # NoInst => pool'.rev = pool.rev
    PROVE  inst'.boxes \in {0, PinnedCommit'}
<1>1. CASE inst' = NoInst
  BY <1>1 DEF NoInst
<1>2. CASE inst' = inst /\ inst # NoInst
  <2>1. pool.st # "none"
    BY <1>2 DEF DefinitionInv, PlainOK
  <2> QED BY <1>2, <2>1, PinStays, CalmBefore DEF BuildInv, CalmOK
<1> QED BY <1>1, <1>2

\* A step of one task, or of none, that leaves a ready pool alone.
LEMMA BuildStays ==
    ASSUME DefinitionInv, GitOK', BuildInv, Grows, NEW a \in Actor,
           \A b \in Actor \ {a} : call'[b] = call[b],
           \A b \in Actor \ {a} : call[b].what \in Pinned => pool'.rev = pool.rev,
           call'[a].boxes <= Newest', inst'.boxes <= Newest', pool'.st = "ready" => pool' = pool,
           Calm /\ Calm' => fail' = "none" /\ Loaded(a)' /\ inst'.boxes \in {0, PinnedCommit'}
    PROVE  BuildInv'
<1>1. BoxesOK'
  <2>1. ASSUME NEW b \in Actor PROVE call'[b].boxes <= Newest'
    <3>1. CASE b = a
      BY <3>1
    <3>2. CASE b # a
      <4>1. call[b].boxes \in Rev /\ call'[b].boxes = call[b].boxes /\ call[b].boxes <= Newest
        BY <3>2 DEF DefinitionInv, PlainOK, Call, BuildInv, BoxesOK
      <4>2. Newest \in Nat /\ Newest' \in Nat /\ Newest <= Newest' /\ MaxCommits \in Nat
        BY Numbers DEF DefinitionInv, Grows, GitOK, Newest
      <4> QED BY <4>1, <4>2 DEF Rev
    <3> QED BY <3>1, <3>2
  <2> QED BY <2>1 DEF BoxesOK
<1>2. ASSUME Calm' PROVE CalmOK'
  <2>1. Calm /\ CalmOK
    BY <1>2, CalmBefore DEF BuildInv
  <2>2. fail' = "none" /\ inst'.boxes \in {0, PinnedCommit'} /\ Loaded(a)'
    BY <1>2, <2>1
  <2>3. ASSUME NEW b \in Actor \ {a} PROVE Loaded(b)'
    BY <1>2, LoadedStays
  <2>4. ASSUME pool'.st = "ready", git'[PinnedCommit'].boxes # None
        PROVE  MapsFine(Topology(PinnedCommit), git[PinnedCommit].boxes, git[PinnedCommit].files)'
    <3>1. PinnedCommit' = PinnedCommit /\ git'[PinnedCommit] = git[PinnedCommit]
      BY <1>2, <2>4, PinStays
    <3>2. MapsFine(Topology(PinnedCommit), git[PinnedCommit].boxes, git[PinnedCommit].files)
      BY <2>1, <2>4, <3>1 DEF CalmOK
    <3>3. Topology(PinnedCommit)' = Topology(PinnedCommit)
      BY <3>1 DEF Topology
    <3> QED BY <3>1, <3>2, <3>3 DEF MapsFine
  <2> QED BY <2>2, <2>3, <2>4 DEF CalmOK
<1> QED BY <1>1, <1>2 DEF BuildInv

\* Numbers of commits stay so.
LEMMA BoxesGrow ==
    ASSUME DefinitionInv, GitOK', BuildInv, Grows
    PROVE  /\ inst.boxes <= Newest' /\ \A a \in Actor : call[a].boxes <= Newest'
           /\ Newest \in Nat /\ Newest' \in Nat /\ 0 <= Newest' /\ Newest <= Newest'
<1>1. Newest \in Nat /\ Newest' \in Nat /\ Newest <= Newest' /\ MaxCommits \in Nat
  BY Numbers DEF DefinitionInv, Grows, GitOK, Newest
<1>2. inst.boxes \in Rev /\ inst.boxes <= Newest
  BY DEF DefinitionInv, PlainOK, BuildInv, BoxesOK
<1>3. \A a \in Actor : call[a].boxes \in Rev /\ call[a].boxes <= Newest
  BY DEF DefinitionInv, PlainOK, Call, BuildInv, BoxesOK
<1> QED BY <1>1, <1>2, <1>3 DEF Rev

\* After a definition there is always more to load.
LEMMA MoreToLoad ==
    ASSUME NEW t \in {"pool", "stage", "mgmt"}, NEW todo \in Remaining[t], todo # << >>, todo[1] = "def"
    PROVE  todo \notin {<<"inst">>, << >>} /\ Tail(todo) \notin {<<"inst">>, << >>}
<1>1. todo \notin {<<"inst">>, << >>}
  OBVIOUS
<1>2. CASE t = "pool"
  <2>1. todo \in {<<"def", "boxes", "def", "boxes">>, <<"boxes", "def", "boxes">>,
                  <<"def", "boxes">>, <<"boxes">>, << >>}
    BY <1>2 DEF Remaining
  <2>2. todo \in {<<"def", "boxes", "def", "boxes">>, <<"def", "boxes">>}
    BY <2>1
  <2>3. CASE todo = <<"def", "boxes">>
    <3>1. Tail(<<"def", "boxes">>) = <<"boxes">>
      OBVIOUS
    <3> QED BY <1>1, <2>3, <3>1
  <2>4. CASE todo = <<"def", "boxes", "def", "boxes">>
    <3>1. Tail(<<"def", "boxes", "def", "boxes">>) = <<"boxes", "def", "boxes">>
      OBVIOUS
    <3> QED BY <1>1, <2>4, <3>1
  <2> QED BY <2>2, <2>3, <2>4
<1>3. CASE t \in {"stage", "mgmt"}
  BY <1>1, <1>3, DefFirst
<1> QED BY <1>2, <1>3

\* A step of get_definition that does not fail.
LEMMA BuildLooks ==
    ASSUME DefinitionInv, GitOK', BuildInv, Grows, NEW a \in Actor,
           call[a].what # "none", call[a].todo # << >>, call[a].todo[1] = "def",
           \A b \in Actor \ {a} : call'[b] = call[b], UNCHANGED <<pool, inst, fail>>,
           call'[a].what = call[a].what, call'[a].boxes = call[a].boxes,
           call'[a].todo \in {call[a].todo, Tail(call[a].todo)}
    PROVE  BuildInv'
<1>1. call'[a].boxes <= Newest' /\ inst'.boxes <= Newest'
  BY BoxesGrow
<1>2. ASSUME Calm' PROVE fail' = "none" /\ Loaded(a)' /\ inst'.boxes \in {0, PinnedCommit'}
  <2>1. fail' = "none"
    BY <1>2, CalmBefore DEF BuildInv, CalmOK
  <2>2. inst'.boxes \in {0, PinnedCommit'}
    BY <1>2, InstStays
  <2>3. call[a].todo \in Remaining[call[a].what]
    BY DEF DefinitionInv, CallOK
  <2>4. call[a].what \in {"pool", "stage", "mgmt"} => call'[a].todo \notin {<<"inst">>, << >>}
    BY <2>3, MoreToLoad
  <2>5. Loaded(a)'
    BY <2>4 DEF Loaded, Do
  <2> QED BY <2>1, <2>2, <2>5
<1> QED BY <1>1, <1>2, BuildStays

\* A task looks into the cache.
LEMMA LookBuild ==
    ASSUME DefinitionInv, DefinitionInv', BuildInv, NEW a \in Actor, Look(a) PROVE BuildInv'
<1>0. /\ call \in [Actor -> Call] /\ call[a] \in Call /\ call[a].what # "none" /\ GitOK'
      /\ call[a].todo # << >> /\ call[a].todo[1] = "def" /\ call[a].todo \in Remaining[call[a].what]
      /\ topo \in [Rev -> Rev]
  BY DEF DefinitionInv, PlainOK, CallOK, Look, At, Free, Do
<1>1. UNCHANGED <<mode, git, seen, faults, pool, inst, fail>>
  BY DEF Look, envVars, boxVars
<1>2. Grows
  BY <1>1, StillGrows
<1> DEFINE key == Key(RevOf(call[a].what))
<1>3. key \in Rev
  BY <1>0, KeyOK
<1>4. /\ \A b \in Actor \ {a} : call'[b] = call[b]
      /\ call'[a].what = call[a].what /\ call'[a].boxes = call[a].boxes
      /\ call'[a].todo \in {call[a].todo, Tail(call[a].todo)}
  <2>1. CASE topo[key] # 0 /\ ~Forced(a)
    <3>1. Found(a, topo[key], call[a].boxes)
      BY <2>1 DEF Look, Do, Returns
    <3>2. topo[key] \in Rev /\ call[a].boxes \in Rev
      BY <1>0, <1>3 DEF Call
    <3> QED BY <1>0, <3>1, <3>2, FoundCall
  <2>2. CASE ~(topo[key] # 0 /\ ~Forced(a))
    <3>1. PICK head : call' = [call EXCEPT ![a] = [@ EXCEPT !.at = "fetch", !.key = key, !.head = head]]
      BY <2>2 DEF Look, Do
    <3> HIDE DEF key
    <3> QED BY <1>0, <3>1 DEF Call
  <2> QED BY <2>1, <2>2
<1> QED BY <1>0, <1>1, <1>2, <1>4, BuildLooks

\* A task stores what it has fetched.
LEMMA StoreBuild ==
    ASSUME DefinitionInv, DefinitionInv', BuildInv, NEW a \in Actor, Store(a) PROVE BuildInv'
<1>0. /\ call \in [Actor -> Call] /\ call[a] \in Call /\ call[a].what # "none" /\ GitOK'
      /\ call[a].todo # << >> /\ call[a].todo[1] = "def" /\ call[a].todo \in Remaining[call[a].what]
  BY DEF DefinitionInv, PlainOK, CallOK, Store
<1>1. UNCHANGED <<mode, git, faults, pool, inst, fail>> /\ seen \subseteq seen'
  BY DEF Store, envVars, boxVars
<1>2. Grows
  <2>1. faults \in Nat /\ Newest \in Nat
    BY Numbers, DefinitionsAssumption DEF DefinitionInv, PlainOK
  <2> QED BY <1>1, <2>1 DEF Grows, Newest
<1>3. Found(a, call[a].got, call[a].boxes) /\ call[a].got \in Rev /\ call[a].boxes \in Rev
  BY <1>0 DEF Store, Returns, Call
<1>4. /\ \A b \in Actor \ {a} : call'[b] = call[b]
      /\ call'[a].what = call[a].what /\ call'[a].boxes = call[a].boxes
      /\ call'[a].todo = Tail(call[a].todo)
  BY <1>0, <1>3, FoundCall
<1> QED BY <1>0, <1>1, <1>2, <1>4, BuildLooks

\* A task that fails, while nothing has gone wrong, is none of the pool's stages.
LEMMA FailsBuild ==
    ASSUME DefinitionInv, DefinitionInv', BuildInv, NEW a \in Actor, NEW why, Fails(a, why),
           call[a].what # "none", faults' \in {faults, faults + 1},
           Calm' => call[a].what \notin {"stack", "stage"}
    PROVE  BuildInv'
<1>1. /\ UNCHANGED <<mode, git, inst, seen>> /\ Ends(a)
      /\ pool' = (IF call[a].what = "pool" THEN NoPool ELSE pool)
      /\ fail' = IF call[a].what \in {"stack", "stage"} THEN why ELSE fail
  BY DEF Fails, history, Do
<1>2. Grows /\ GitOK' /\ call \in [Actor -> Call]
  BY <1>1, StillGrows DEF DefinitionInv, PlainOK
<1>3. call'[a] = Idle /\ \A b \in Actor \ {a} : call'[b] = call[b]
  BY <1>1, <1>2, EndsCall
<1>4. \A b \in Actor \ {a} : call[b].what \in Pinned => pool' = pool
  <2> SUFFICES ASSUME NEW b \in Actor \ {a}, call[b].what \in Pinned, call[a].what = "pool" PROVE FALSE
    BY <1>1
  <2>1. a = "chain" /\ b = "reader"
    BY PinnedPool DEF Actor, Pinned, Role, DefinitionInv, CallOK
  <2>2. call[b].what = "mgmt" /\ pool.st = "saved"
    BY <2>1 DEF DefinitionInv, CallOK, Role, Pinned, TasksOK, Do, Actor
  <2> QED BY <2>2, PinnedPool
<1>5. call'[a].boxes <= Newest' /\ inst'.boxes <= Newest'
  BY <1>1, <1>2, <1>3, BoxesGrow DEF Idle
<1>6. inst # NoInst => pool' = pool
  <2> SUFFICES ASSUME inst # NoInst, call[a].what = "pool" PROVE FALSE
    BY <1>1
  <2>1. a = "chain"
    BY PinnedPool DEF Actor, Pinned, Role, DefinitionInv, CallOK
  <2> QED BY <2>1 DEF DefinitionInv, PlainOK, TasksOK, Do
<1>7. Loaded(a)'
  BY <1>3 DEF Loaded, Do, Idle
<1>8. Calm' => fail' = "none"
  BY <1>1, <1>2, CalmBefore DEF BuildInv, CalmOK
<1>9. Calm' => inst'.boxes \in {0, PinnedCommit'}
  BY <1>1, <1>2, <1>6, InstStays
<1>10. pool'.st = "ready" => pool' = pool
  BY <1>1 DEF NoPool
<1> QED BY <1>2, <1>3, <1>4, <1>5, <1>7, <1>8, <1>9, <1>10, BuildStays

\* A pool that is ready pins what can be loaded.
LEMMA PinnedLoads ==
    ASSUME DefinitionInv, Calm, pool.st = "ready"
    PROVE  pool.top = PinnedCommit /\ Loads(git[PinnedCommit])
<1>1. pool.top # 0 /\ pool.top \in Rev /\ Fine(pool.top) /\ From("pool", pool.top)
  BY DEF DefinitionInv, PoolOK
<1>2. pool.top = PinnedCommit
  BY <1>1, PinnedTop DEF Fine
<1> QED BY <1>1, <1>2 DEF Fine

\* A task fetches the file of its definition: what the pool pins can be loaded.
LEMMA FetchBuild ==
    ASSUME DefinitionInv, DefinitionInv', BuildInv, NEW a \in Actor, Fetch(a) PROVE BuildInv'
<1> DEFINE commit == CommitAt(call[a].key)
<1>0. /\ call \in [Actor -> Call] /\ call[a] \in Call /\ call[a].what # "none" /\ GitOK'
      /\ call[a].todo # << >> /\ call[a].todo[1] = "def" /\ KeyFrom(call[a].what, call[a].key)
      /\ faults' = faults
  BY DEF DefinitionInv, PlainOK, CallOK, Fetch, FetchAt
<1>1. CASE Loads(git[commit])
  <2>1. /\ call' = [call EXCEPT ![a] = [@ EXCEPT !.at = "store", !.got = commit]]
        /\ UNCHANGED <<mode, git, seen, pool, inst, fail>>
    BY <1>1 DEF Fetch, FetchAt, history
  <2>2. Grows
    BY <1>0, <2>1, StillGrows
  <2> HIDE DEF commit
  <2>3. /\ \A b \in Actor \ {a} : call'[b] = call[b]
        /\ call'[a].what = call[a].what /\ call'[a].boxes = call[a].boxes
        /\ call'[a].todo = call[a].todo
    BY <1>0, <2>1 DEF Call
  <2> QED BY <1>0, <2>1, <2>2, <2>3, BuildLooks
<1>2. CASE ~Loads(git[commit])
  <2>1. Fails(a, "git")
    BY <1>2 DEF Fetch, FetchAt
  <2>2. Grows
    BY <1>0, <2>1, StillGrows DEF Fails, history
  <2>3. ASSUME Calm', call[a].what \in {"stack", "stage"} PROVE FALSE
    <3>1. pool.st = "ready" /\ Calm
      BY <1>0, <2>2, <2>3, PinnedPool, CalmBefore DEF Pinned
    <3>2. Loads(git[PinnedCommit])
      BY <3>1, PinnedLoads
    <3>3. call[a].key = pool.rev
      BY <1>0, <2>3, PinnedPool DEF KeyFrom, Pinned, Branch
    <3> QED BY <1>2, <3>2, <3>3 DEF PinnedCommit
  <2> QED BY <1>0, <2>1, <2>3, FailsBuild
<1> QED BY <1>1, <1>2

\* A git call fails: that is what has gone wrong.
LEMMA GitFailsBuild ==
    ASSUME DefinitionInv, DefinitionInv', BuildInv, NEW a \in Actor, GitFails(a) PROVE BuildInv'
<1>1. Fails(a, "git") /\ faults' = faults + 1 /\ faults \in Nat /\ call[a].what # "none"
  BY DefinitionsAssumption DEF GitFails, At, Free, Do, DefinitionInv, PlainOK, CallOK
<1>2. ~Calm'
  BY <1>1 DEF Calm
<1> QED BY <1>1, <1>2, FailsBuild

\* A task that has a pool takes a step of its own, and the pool stays.
LEMMA BuildMoves ==
    ASSUME DefinitionInv, GitOK', BuildInv, Grows, NEW a \in Actor,
           \A b \in Actor \ {a} : call'[b] = call[b], UNCHANGED <<pool, fail>>,
           call'[a].boxes <= Newest', inst'.boxes <= Newest',
           Calm' => Loaded(a)' /\ inst'.boxes \in {0, PinnedCommit'}
    PROVE  BuildInv'
<1>1. Calm' => fail' = "none"
  BY CalmBefore DEF BuildInv, CalmOK
<1> QED BY <1>1, BuildStays

\* A task looks up the containers.
LEMMA LoadBoxesBuild ==
    ASSUME DefinitionInv, DefinitionInv', BuildInv, NEW a \in Actor, LoadBoxes(a) PROVE BuildInv'
<1> DEFINE c == call[a]
           commit == CommitAt(RevOf(c.what))
<1>0. /\ call \in [Actor -> Call] /\ c \in Call /\ c.what # "none" /\ GitOK' /\ c.what \in Task
      /\ c.todo # << >> /\ c.todo \in Remaining[c.what] /\ c.top \in Rev
      /\ Newest \in Nat /\ Newest \in Rev /\ faults \in Nat /\ MaxTrouble \in Nat /\ 0 \in Rev
  <2>1. /\ call \in [Actor -> Call] /\ c \in Call /\ c.what # "none" /\ GitOK' /\ c.what \in Task
        /\ c.todo # << >> /\ c.todo \in Remaining[c.what] /\ c.top \in Rev
    BY DEF DefinitionInv, PlainOK, CallOK, Call, LoadBoxes, At, Free, Do
  <2>2. Newest \in Nat /\ Newest \in Rev /\ 0 \in Rev
    BY Numbers, DefinitionsAssumption DEF DefinitionInv, Rev
  <2>3. faults \in Nat /\ MaxTrouble \in Nat
    BY DefinitionsAssumption DEF DefinitionInv, PlainOK
  <2> QED BY <2>1, <2>2, <2>3
<1>1. UNCHANGED <<mode, git, seen, pool, inst, fail>>
  BY DEF LoadBoxes, history, boxVars
<1>2. PICK lost \in {0, 1} :
        LET boxes == IF lost = 1 \/ git[commit].boxes = None THEN 0 ELSE commit
        IN /\ faults' = faults + lost
           /\ IF c.what = "pool" /\ boxes = 0
              THEN call' = [call EXCEPT ![a] = [@ EXCEPT !.todo = << >>, !.boxes = 0]]
              ELSE Found(a, c.top, boxes)
  BY DEF LoadBoxes, Do
<1> DEFINE boxes == IF lost = 1 \/ git[commit].boxes = None THEN 0 ELSE commit
<1>3. faults' \in {faults, faults + 1} /\ (Calm' => lost = 0)
  BY <1>0, <1>2 DEF Calm
<1>4. Grows /\ Newest' = Newest
  BY <1>1, <1>3, StillGrows
<1>5. commit \in Rev /\ commit <= Newest /\ (c.what \in Pinned => commit = PinnedCommit)
  <2>1. c.what \in Pinned => pool.rev \in Rev /\ pool.rev <= Newest
    BY PinnedPool
  <2> QED BY <1>0, <2>1, Tasks DEF CommitAt, RevOf, Branch, Pinned, PinnedCommit
<1> HIDE DEF commit
<1>6. boxes \in Rev /\ boxes <= Newest'
  BY <1>0, <1>4, <1>5
<1>7. /\ \A b \in Actor \ {a} : call'[b] = call[b]
      /\ call'[a].what = c.what /\ call'[a].boxes = boxes
  <2>1. CASE c.what = "pool" /\ boxes = 0
    <3>1. call' = [call EXCEPT ![a] = [@ EXCEPT !.todo = << >>, !.boxes = 0]]
      BY <1>2, <2>1
    <3> HIDE DEF boxes
    <3>2. call' = [call EXCEPT ![a] = [c EXCEPT !.todo = << >>, !.boxes = 0]]
      BY <3>1
    <3> HIDE DEF c
    <3>3. call'[a] = [c EXCEPT !.todo = << >>, !.boxes = 0] /\ \A b \in Actor \ {a} : call'[b] = call[b]
      BY <1>0, <3>2
    <3>4. call'[a].what = c.what /\ call'[a].boxes = 0
      <4>1. c \in Call
        BY <1>0
      <4> QED BY ONLY <3>3, <4>1 DEF Call
    <3> QED BY <2>1, <3>3, <3>4
  <2>2. CASE ~(c.what = "pool" /\ boxes = 0)
    <3>1. Found(a, c.top, boxes)
      BY <1>2, <2>2
    <3> HIDE DEF boxes
    <3>2. call \in [Actor -> Call] /\ c.todo \in Remaining[c.what] /\ c.todo # << >>
          /\ c.top \in Rev /\ boxes \in Rev
      BY <1>0, <1>6
    <3>3. /\ \A b \in Actor \ {a} : call'[b] = call[b]
          /\ call'[a].what = call[a].what /\ call'[a].boxes = boxes
      BY ONLY a \in Actor, <3>1, <3>2, FoundCall
    <3> QED BY <3>3
  <2> QED BY <2>1, <2>2
<1>8. ASSUME Calm' PROVE Loaded(a)' /\ inst'.boxes \in {0, PinnedCommit'}
  <2>1. c.what \in Pinned => PinnedCommit' = PinnedCommit /\ git'[PinnedCommit] = git[PinnedCommit]
    BY <1>0, <1>1, <1>4, <1>8, PinStays, PinnedPool
  <2>2. c.what \in Pinned => boxes = BoxesAt(PinnedCommit)' /\ boxes \in {0, PinnedCommit'}
    BY <1>3, <1>5, <1>8, <2>1 DEF BoxesAt
  <2>3. Loaded(a)'
    BY <1>7, <2>2 DEF Loaded, Do, Pinned
  <2>4. inst'.boxes \in {0, PinnedCommit'}
    BY <1>0, <1>1, <1>4, <1>8, InstStays
  <2> QED BY <2>3, <2>4
<1>9. inst'.boxes <= Newest'
  BY <1>0, <1>1, <1>4, BoxesGrow
<1> QED BY <1>0, <1>1, <1>4, <1>6, <1>7, <1>8, <1>9, BuildMoves

\* A task looks up the topology instance: its nodes are all of the stack's.
LEMMA FindBuild ==
    ASSUME DefinitionInv, DefinitionInv', BuildInv, NEW a \in Actor, FindInstance(a) PROVE BuildInv'
<1> DEFINE c == call[a]
<1>0. /\ call \in [Actor -> Call] /\ c \in Call /\ c.what # "none" /\ GitOK' /\ c.what \in Task
      /\ c.todo # << >> /\ c.todo[1] = "inst" /\ c.todo \in Remaining[c.what] /\ CallOK(a)
      /\ inst \in [top : Rev, boxes : Rev] /\ UNCHANGED <<mode, git, seen, faults, inst>>
  BY DEF DefinitionInv, PlainOK, CallOK, Call, FindInstance, At, Free, Do, Fails, history
<1>1. c.what \in {"stage", "mgmt"} /\ c.todo = <<"inst">>
  BY <1>0, PlanStarts
<1>2. Grows /\ Newest' = Newest /\ inst.boxes <= Newest' /\ c.boxes <= Newest'
  BY <1>0, StillGrows, BoxesGrow
<1>3. CASE inst # NoInst
  <2>1. UNCHANGED <<pool, fail>> /\ Found(a, inst.top, inst.boxes)
    BY <1>3 DEF FindInstance
  <2>2. /\ \A b \in Actor \ {a} : call'[b] = call[b]
        /\ call'[a].what = c.what /\ call'[a].boxes = inst.boxes
    BY <1>0, <2>1, FoundCall
  <2>3. Calm' => inst'.boxes \in {0, PinnedCommit'}
    BY <1>0, <1>2, <2>1, InstStays
  <2>4. Calm' => Loaded(a)'
    BY <1>0, <1>1, <2>2, <2>3 DEF Loaded, Do
  <2> QED BY <1>0, <1>2, <2>1, <2>2, <2>3, <2>4, BuildMoves
<1>4. CASE inst = NoInst /\ Nodes(Topology(c.top)) \subseteq Nodes(Topology(stack))
  <2>1. UNCHANGED <<pool, fail>> /\ call' = [call EXCEPT ![a].at = "add"]
    BY <1>4 DEF FindInstance
  <2>2. /\ \A b \in Actor \ {a} : call'[b] = call[b]
        /\ call'[a].what = c.what /\ call'[a].boxes = c.boxes /\ call'[a].todo = c.todo
    BY <1>0, <2>1 DEF Call
  <2>3. Calm' => inst'.boxes \in {0, PinnedCommit'}
    BY <1>0, <1>2, <2>1, InstStays
  <2>4. ASSUME Calm' PROVE Loaded(a)'
    <3>1. PinnedCommit' = PinnedCommit
      BY <1>0, <1>1, <1>2, <2>1, <2>4, PinStays, PinnedPool DEF Pinned
    <3>2. c.boxes \in {0, PinnedCommit}
      BY <1>0, <1>1, <1>2, <2>4, CalmBefore DEF BuildInv, CalmOK, Loaded, Do
    <3> QED BY <1>1, <2>2, <3>1, <3>2 DEF Loaded, Do
  <2> QED BY <1>0, <1>2, <2>1, <2>2, <2>3, <2>4, BuildMoves
<1>5. CASE inst = NoInst /\ ~(Nodes(Topology(c.top)) \subseteq Nodes(Topology(stack)))
  <2>1. Fails(a, "lost")
    BY <1>5 DEF FindInstance
  <2>2. ASSUME Calm', c.what \in {"stack", "stage"} PROVE FALSE
    <3>1. a = "chain" /\ pool.st # "none" /\ Calm
      BY <1>0, <1>2, <2>2, PinnedPool, CalmBefore DEF CallOK, Role, Actor, Pinned
    <3>2. stack # 0 /\ stack \in Rev /\ stack <= Newest /\ From("pool", stack)
      BY <1>1, <2>2, <3>1 DEF DefinitionInv, TasksOK, PoolOK, PlainOK, From, Pinned, Do
    <3>3. <<"inst">> # Plan[c.what]
      BY <1>0, <1>1, PlanStarts
    <3>4. c.top # 0 /\ c.top \in Rev /\ c.top <= Newest /\ From("pool", c.top)
      BY <1>0, <1>1, <3>3 DEF CallOK, Call, Fine, From, Pinned
    <3>5. c.top = PinnedCommit /\ stack = PinnedCommit
      BY <3>1, <3>2, <3>4, PinnedTop
    <3> QED BY <1>5, <3>5
  <2> QED BY <1>0, <2>1, <2>2, FailsBuild
<1> QED BY <1>3, <1>4, <1>5

\* A task caches the topology instance, or uses the one that is there now.
LEMMA AddBuild ==
    ASSUME DefinitionInv, DefinitionInv', BuildInv, NEW a \in Actor, AddInstance(a) PROVE BuildInv'
<1> DEFINE c == call[a]
<1>0. /\ call \in [Actor -> Call] /\ c \in Call /\ GitOK' /\ c.what \in {"stage", "mgmt"}
      /\ c.todo = <<"inst">> /\ c.todo # << >> /\ c.todo \in Remaining[c.what]
      /\ inst \in [top : Rev, boxes : Rev] /\ UNCHANGED <<mode, git, seen, faults, pool, fail>>
  <2>1. /\ call \in [Actor -> Call] /\ CallOK(a) /\ inst \in [top : Rev, boxes : Rev] /\ c.at = "add"
        /\ UNCHANGED <<mode, git, seen, faults, pool, fail>> /\ GitOK'
    BY DEF DefinitionInv, PlainOK, AddInstance, envVars, history
  <2>2. c.what \in {"stage", "mgmt"} /\ c.todo = <<"inst">> /\ c.todo \in Remaining[c.what]
    BY <2>1 DEF CallOK
  <2> QED BY <2>1, <2>2
<1>1. /\ inst' = (IF inst = NoInst THEN [top |-> c.top, boxes |-> c.boxes] ELSE inst)
      /\ Found(a, inst'.top, inst'.boxes)
  BY DEF AddInstance
<1>2. Grows /\ Newest' = Newest /\ inst.boxes <= Newest' /\ c.boxes <= Newest'
  BY <1>0, StillGrows, BoxesGrow
<1>3. inst'.top \in Rev /\ inst'.boxes \in Rev /\ inst'.boxes <= Newest'
  <2>1. c.top \in Rev /\ c.boxes \in Rev
    BY <1>0 DEF Call
  <2>2. CASE inst = NoInst
    BY <1>1, <1>2, <2>1, <2>2
  <2>3. CASE inst # NoInst
    BY <1>0, <1>1, <1>2, <2>3
  <2> QED BY <2>2, <2>3
<1>4. /\ \A b \in Actor \ {a} : call'[b] = call[b]
      /\ call'[a].what = c.what /\ call'[a].boxes = inst'.boxes
  <2>1. PICK n \in Rev, boxes \in Rev : n = inst'.top /\ boxes = inst'.boxes
    BY <1>3
  <2>2. Found(a, n, boxes)
    BY <1>1, <2>1
  <2> HIDE DEF c
  <2>3. call[a].todo \in Remaining[call[a].what] /\ call[a].todo # << >>
    BY <1>0 DEF c
  <2>4. /\ \A b \in Actor \ {a} : call'[b] = call[b]
        /\ call'[a].what = call[a].what /\ call'[a].boxes = boxes
    BY <1>0, <2>2, <2>3, FoundCall
  <2> QED BY <2>1, <2>4 DEF c
<1>5. ASSUME Calm' PROVE inst'.boxes \in {0, PinnedCommit'}
  <2>1. PinnedCommit' = PinnedCommit
    BY <1>0, <1>2, <1>5, PinStays, PinnedPool DEF Pinned
  <2>2. c.boxes \in {0, PinnedCommit} /\ inst.boxes \in {0, PinnedCommit}
    <3>1. CalmOK /\ Loaded(a)
      BY <1>0, <1>2, <1>5, CalmBefore DEF BuildInv, CalmOK
    <3> QED BY <1>0, <3>1 DEF CalmOK, Loaded, Do
  <2> QED BY <1>1, <2>1, <2>2
<1>6. Calm' => Loaded(a)'
  BY <1>0, <1>4, <1>5 DEF Loaded, Do
<1> QED BY <1>0, <1>2, <1>3, <1>4, <1>5, <1>6, BuildMoves

\* Whoever begins has loaded nothing yet.
LEMMA PlanNotDone ==
    ASSUME NEW a \in Actor, NEW t \in DOMAIN Plan, call'[a] = [Idle EXCEPT !.what = t, !.todo = Plan[t]]
    PROVE  Loaded(a)' /\ call'[a].boxes = 0
<1>1. /\ Plan["pool"] # << >>
      /\ Plan["stage"] \notin {<<"inst">>, << >>} /\ Plan["mgmt"] \notin {<<"inst">>, << >>}
  BY DEF Plan
<1>2. call'[a].what = t /\ call'[a].todo = Plan[t] /\ call'[a].boxes = 0
  BY DEF Idle
<1> QED BY <1>1, <1>2 DEF Loaded, Do

\* A task begins for which the pool stays.
LEMMA BeginBuild ==
    ASSUME DefinitionInv, DefinitionInv', BuildInv, NEW a \in Actor, NEW t \in DOMAIN Plan,
           Begins(a, t), UNCHANGED <<envVars, expired, topo, row, pool, boxVars, usage, history>>
    PROVE  BuildInv'
<1>0. /\ UNCHANGED <<mode, git, seen, faults, pool, inst, fail>> /\ GitOK'
      /\ call \in [Actor -> Call]
  BY DEF envVars, boxVars, history, DefinitionInv, PlainOK
<1>1. Grows /\ inst.boxes <= Newest' /\ 0 <= Newest'
  <2>1. Grows
    BY <1>0, StillGrows
  <2> QED BY <1>0, <2>1, BoxesGrow
<1>2. /\ \A b \in Actor \ {a} : call'[b] = call[b]
      /\ Loaded(a)' /\ call'[a].boxes = 0
  BY <1>0, BeginsCall, PlanNotDone
<1>3. Calm' => inst'.boxes \in {0, PinnedCommit'}
  BY <1>0, <1>1, InstStays
<1> QED BY <1>0, <1>1, <1>2, <1>3, BuildMoves

\* The tasks that begin while there is a pool, or need none.
LEMMA BeginsBuild ==
    ASSUME DefinitionInv, DefinitionInv', BuildInv,
           Import \/ BuildStack \/ RunStage \/ ReadTopology \/ ReadUsage \/ ReadAccess
    PROVE  BuildInv'
<1>1. /\ {"import", "stack", "stage", "show", "usage", "mgmt"} \subseteq DOMAIN Plan
      /\ "import" \in Actor /\ "chain" \in Actor /\ "reader" \in Actor
  BY DEF Plan, Actor
<1>2. \E a \in Actor, t \in DOMAIN Plan :
          Begins(a, t) /\ UNCHANGED <<envVars, expired, topo, row, pool, boxVars, usage, history>>
  BY <1>1 DEF Import, BuildStack, RunStage, ReadTopology, ReadUsage, ReadAccess
<1> QED BY <1>2, BeginBuild

\* Nobody works for a pool that is not there.
LEMMA NobodyPinned ==
    ASSUME DefinitionInv, NEW b \in Actor, call[b].what \in Pinned
    PROVE  b \in {"chain", "reader"} /\ pool.st # "none" /\ (b = "reader" => stack # 0 /\ pool.st = "ready")
<1>1. b \in {"chain", "reader"} /\ pool.st # "none"
  BY PinnedPool DEF Actor
<1>2. b = "reader" => call[b].what = "mgmt"
  BY DEF DefinitionInv, CallOK, Role, Pinned
<1> QED BY <1>1, <1>2, PinnedPool DEF DefinitionInv, TasksOK, Do

\* A pool is created.
LEMMA CreatePoolBuild ==
    ASSUME DefinitionInv, DefinitionInv', BuildInv, CreatePool PROVE BuildInv'
<1>0. /\ UNCHANGED <<mode, git, seen, faults, inst, fail>> /\ GitOK' /\ "chain" \in Actor
      /\ call \in [Actor -> Call] /\ Begins("chain", "pool") /\ "pool" \in DOMAIN Plan
      /\ pool.st = "none" /\ pool'.st = "saved"
  BY DEF CreatePool, envVars, boxVars, history, DefinitionInv, PlainOK, Actor, Plan, NoPool
<1>1. inst = NoInst /\ \A b \in Actor : call[b].what \notin Pinned
  BY <1>0, NobodyPinned DEF DefinitionInv, PlainOK
<1>2. Grows /\ inst.boxes <= Newest' /\ 0 <= Newest'
  <2>1. Grows
    BY <1>0, StillGrows
  <2> QED BY <1>0, <2>1, BoxesGrow
<1>3. /\ \A b \in Actor \ {"chain"} : call'[b] = call[b]
      /\ Loaded("chain")' /\ call'["chain"].boxes = 0
  BY <1>0, BeginsCall, PlanNotDone
<1>4. Calm => fail' = "none"
  BY <1>0 DEF BuildInv, CalmOK
<1>5. inst'.boxes = 0
  BY <1>0, <1>1 DEF NoInst
<1> QED BY <1>0, <1>1, <1>2, <1>3, <1>4, <1>5, BuildStays

\* A task ends that leaves the pool as it is.
LEMMA EndBuild ==
    ASSUME DefinitionInv, DefinitionInv', BuildInv, NEW a \in Actor, Ends(a),
           UNCHANGED <<mode, git, seen, faults, inst, pool>>, Calm' => fail' = "none"
    PROVE  BuildInv'
<1>0. GitOK' /\ call \in [Actor -> Call]
  BY DEF DefinitionInv, PlainOK
<1>1. Grows /\ inst.boxes <= Newest' /\ 0 <= Newest'
  <2>1. Grows
    BY <1>0, StillGrows
  <2> QED BY <1>0, <2>1, BoxesGrow
<1>2. /\ \A b \in Actor \ {a} : call'[b] = call[b]
      /\ call'[a] = Idle
  BY <1>0, EndsCall
<1>3. Loaded(a)' /\ call'[a].boxes = 0
  BY <1>2 DEF Loaded, Do, Idle
<1>4. Calm' => inst'.boxes \in {0, PinnedCommit'}
  BY <1>0, <1>1, InstStays
<1> QED BY <1>0, <1>1, <1>2, <1>3, <1>4, BuildStays

\* What is validated breaks no stage.
LEMMA StageFine ==
    ASSUME NEW t, WellFormed(t), NEW boxes, NEW files, boxes # None => MapsFine(t, boxes, files)
    PROVE  ~StageBreaks(t, boxes, files)
<1>1. Mapped(boxes) \subseteq t.hosts
  BY DEF Mapped, MapsFine
<1>2. ~UnknownNode(t, boxes)
  <2>1. t.tcp \cup t.icmp \cup UNION Range(t.groups) \subseteq Nodes(t)
    BY DEF WellFormed
  <2>2. t.hosts \subseteq Nodes(t)
    BY DEF Nodes
  <2> QED BY <1>1, <2>1, <2>2 DEF UnknownNode
<1>3. ~FilesBreak(boxes, files)
  BY DEF FilesBreak, MapsFine
<1> QED BY <1>2, <1>3 DEF StageBreaks

\* A stage ends; it has broken only if something has gone wrong.
LEMMA EndStageBuild ==
    ASSUME DefinitionInv, DefinitionInv', BuildInv, EndStage PROVE BuildInv'
<1> DEFINE c == call["chain"]
<1>0. /\ UNCHANGED <<mode, git, seen, faults, inst, pool>> /\ "chain" \in Actor /\ Ends("chain")
      /\ c.what = "stage" /\ c.todo = << >> /\ CallOK("chain") /\ GitOK'
  BY DEF EndStage, envVars, history, Planned, Do, Actor, DefinitionInv
<1>1. Grows
  BY <1>0, StillGrows
<1>2. ASSUME Calm' PROVE fail' = "none"
  <2>1. Calm /\ CalmOK /\ pool.st = "ready"
    BY <1>0, <1>1, <1>2, CalmBefore, PinnedPool DEF BuildInv, Pinned
  <2>2. << >> # Plan["stage"]
    BY DEF Plan
  <2>3. c.top # 0 /\ Fine(c.top) /\ From("pool", c.top) /\ c.top \in Rev
    BY <1>0, <2>2 DEF CallOK, From, Pinned, DefinitionInv, PlainOK, Call
  <2>4. c.top = PinnedCommit
    BY <2>1, <2>3, PinnedTop DEF Fine
  <2>5. c.boxes \in {0, PinnedCommit}
    BY <1>0, <2>1 DEF CalmOK, Loaded, Do
  <2>6. WellFormed(Topology(c.top))
    <3>1. c.top \in 1..Len(git)
      BY <2>3, Numbers DEF Fine, Rev, Newest, DefinitionInv
    <3>2. git[c.top] \in Contents
      BY <3>1 DEF DefinitionInv, GitOK
    <3> QED BY <3>2, ContentsAssumption DEF Topology
  <2>7. Boxes(c.boxes) # None
            => MapsFine(Topology(c.top), Boxes(c.boxes), git[PinnedCommit].files)
    BY <2>1, <2>4, <2>5 DEF Boxes, CalmOK
  <2>8. ~StageBreaks(Topology(c.top), Boxes(c.boxes), git[PinnedCommit].files)
    BY <2>6, <2>7, StageFine
  <2>9. fail' = fail
    BY <2>8 DEF EndStage, PinnedCommit
  <2> QED BY <2>1, <2>9 DEF CalmOK
<1> QED BY <1>0, <1>2, EndBuild

\* A pool is ready or gone: it is ready with what is validated.
LEMMA EndPoolBuild ==
    ASSUME DefinitionInv, DefinitionInv', BuildInv, EndPool PROVE BuildInv'
<1> DEFINE c == call["chain"]
           P == PinnedCommit
<1>0. /\ UNCHANGED <<mode, git, seen, faults, inst, fail>> /\ "chain" \in Actor /\ Ends("chain")
      /\ c.what = "pool" /\ c.todo = << >> /\ CallOK("chain") /\ GitOK'
      /\ call \in [Actor -> Call] /\ pool.st = "saved"
  BY DEF EndPool, envVars, boxVars, history, Planned, Do, Actor, DefinitionInv, PlainOK, TasksOK
<1>1. Grows /\ inst.boxes <= Newest' /\ 0 <= Newest'
  <2>1. Grows
    BY <1>0, StillGrows
  <2> QED BY <1>0, <2>1, BoxesGrow
<1>2. /\ \A b \in Actor \ {"chain"} : call'[b] = call[b]
      /\ call'["chain"] = Idle
  BY <1>0, EndsCall
<1>3. Loaded("chain")' /\ call'["chain"].boxes = 0
  BY <1>2 DEF Loaded, Do, Idle
<1>4. inst = NoInst /\ \A b \in Actor \ {"chain"} : call[b].what \notin Pinned
  BY <1>0, NobodyPinned DEF DefinitionInv, PlainOK
<1>5. BoxesOK'
  <2>1. \A b \in Actor : call'[b].boxes <= Newest'
    BY <1>0, <1>1, <1>2, <1>3, BoxesGrow
  <2> QED BY <1>0, <1>1, <2>1 DEF BoxesOK
<1>6. ASSUME Calm' PROVE CalmOK'
  <2>1. Calm /\ CalmOK /\ fail' = "none"
    BY <1>0, <1>1, <1>6, CalmBefore DEF BuildInv, CalmOK
  <2>2. ASSUME NEW b \in Actor PROVE Loaded(b)'
    BY <1>0, <1>1, <1>2, <1>3, <1>4, <1>6, LoadedStays
  <2>3. ASSUME pool'.st = "ready", git'[PinnedCommit'].boxes # None
        PROVE  MapsFine(Topology(PinnedCommit), git[PinnedCommit].boxes, git[PinnedCommit].files)'
    <3>1. Validated("chain") /\ pool'.rev = pool.rev
      <4>1. pool \in [st : {"none", "saved", "ready"}, rev : Rev, top : Rev, boxes : Rev]
        BY DEF DefinitionInv, PoolOK
      <4> QED BY <2>3, <4>1 DEF EndPool, NoPool
    <3>2. PinnedCommit' = P /\ P \in 1..Newest
      BY <1>0, <1>1, <1>6, <3>1, PinStays
    <3>3. c.boxes = P /\ P # 0
      BY <1>0, <2>1, <2>3, <3>2 DEF CalmOK, Loaded, Do, BoxesAt
    <3>4. << >> # Plan["pool"]
      BY DEF Plan
    <3>5. c.top # 0 /\ Fine(c.top) /\ From("pool", c.top) /\ c.top \in Rev
      BY <1>0, <3>4 DEF CallOK, From, Pinned, DefinitionInv, PlainOK, Call
    <3>6. c.top = P
      BY <1>0, <2>1, <3>5, PinnedTop DEF Fine
    <3>7. MapsFine(Topology(P), git[P].boxes, git[P].files)
      BY <1>0, <3>1, <3>3, <3>6 DEF Validated, Boxes, RevOf, Do, PinnedCommit
    <3> QED BY <1>0, <3>2, <3>7 DEF MapsFine, Topology
  <2>4. inst'.boxes = 0
    BY <1>0, <1>4 DEF NoInst
  <2> QED BY <2>1, <2>2, <2>3, <2>4 DEF CalmOK
<1> QED BY <1>5, <1>6 DEF BuildInv

\* A step that leaves the tasks alone, and the pool unless nobody needs it.
LEMMA SameBuild ==
    ASSUME DefinitionInv, DefinitionInv', BuildInv, Grows, call' = call, inst' \in {inst, NoInst},
           fail' \in {fail, "none"}, pool'.st = "ready" => pool' = pool,
           \A b \in Actor : call[b].what \in Pinned => pool'.rev = pool.rev,
           inst # NoInst => pool'.rev = pool.rev
    PROVE  BuildInv'
<1>0. GitOK' /\ "chain" \in Actor
  BY DEF DefinitionInv, Actor
<1>1. inst.boxes <= Newest' /\ inst'.boxes <= Newest' /\ call'["chain"].boxes <= Newest'
  <2>1. inst.boxes <= Newest' /\ call'["chain"].boxes <= Newest' /\ 0 <= Newest'
    BY <1>0, BoxesGrow
  <2> QED BY <2>1 DEF NoInst
<1>2. ASSUME Calm' PROVE fail' = "none" /\ Loaded("chain")' /\ inst'.boxes \in {0, PinnedCommit'}
  <2>1. fail' = "none"
    BY <1>0, <1>2, CalmBefore DEF BuildInv, CalmOK
  <2>2. Loaded("chain")'
    BY <1>0, <1>2, LoadedStays
  <2>3. inst'.boxes \in {0, PinnedCommit'}
    BY <1>0, <1>2, InstStays
  <2> QED BY <2>1, <2>2, <2>3
<1> QED BY <1>0, <1>1, <1>2, BuildStays

\* What happens around the tasks.
LEMMA OthersBuild ==
    ASSUME DefinitionInv, DefinitionInv', BuildInv,
           DeleteDefinition \/ DeletePool \/ Restart \/ Cleanup \/ Push \/ Expire \/ UNCHANGED dVars
    PROVE  BuildInv'
<1>1. /\ call' = call /\ inst' \in {inst, NoInst} /\ fail' \in {fail, "none"}
      /\ UNCHANGED <<mode, faults, seen>>
  BY DEF DeleteDefinition, DeletePool, Restart, Cleanup, Push, Expire, dVars, envVars, boxVars, history
<1>2. Grows
  <2>1. CASE Push
    <3>1. PICK content \in Contents : git' = Append(git, content)
      BY <2>1 DEF Push, Contents
    <3>2. git \in Seq(Contents) /\ faults \in Nat
      BY DefinitionsAssumption DEF DefinitionInv, GitOK, PlainOK
    <3>3. Len(git') = Len(git) + 1 /\ \A n \in 1..Len(git) : git'[n] = git[n]
      BY <3>1, <3>2
    <3> QED BY <1>1, <3>2, <3>3 DEF Grows, Newest
  <2>2. CASE ~Push
    <3>1. git' = git
      BY <2>2 DEF DeleteDefinition, DeletePool, Restart, Cleanup, Expire, dVars, envVars
    <3> QED BY <1>1, <3>1, StillGrows
  <2> QED BY <2>1, <2>2
<1>3. CASE DeletePool
  <2>1. pool' = NoPool /\ stack = 0 /\ call["chain"].what = "none"
    BY <1>3 DEF DeletePool, Free, Do
  <2>2. inst = NoInst /\ \A b \in Actor : call[b].what \notin Pinned
    BY <2>1, NobodyPinned DEF DefinitionInv, PlainOK, Pinned
  <2> QED BY <1>1, <1>2, <2>1, <2>2, SameBuild DEF NoPool
<1>4. CASE ~DeletePool
  <2>1. pool' = pool
    BY <1>4 DEF DeleteDefinition, Restart, Cleanup, Push, Expire, dVars
  <2> QED BY <1>1, <1>2, <2>1, SameBuild
<1> QED BY <1>3, <1>4

\* No step breaks it.
LEMMA BuildStep ==
    ASSUME DefinitionInv, DefinitionInv', BuildInv, [DNext]_dVars PROVE BuildInv'
<1>1. ASSUME NEW a \in Actor, Look(a) \/ Fetch(a) \/ Store(a) \/ LoadBoxes(a)
                                \/ FindInstance(a) \/ AddInstance(a) \/ GitFails(a)
      PROVE  BuildInv'
  BY <1>1, LookBuild, FetchBuild, StoreBuild, LoadBoxesBuild, FindBuild, AddBuild, GitFailsBuild
<1>2. CASE EndImport \/ EndStack \/ EndRead
  <2>1. PICK a \in Actor : Ends(a)
    BY <1>2 DEF EndImport, EndStack, EndRead, Actor
  <2>2. UNCHANGED <<mode, git, seen, faults, inst, pool, fail>>
    BY <1>2 DEF EndImport, EndStack, EndRead, envVars, boxVars, history
  <2>3. ASSUME Calm' PROVE fail' = "none"
    <3>1. Grows /\ GitOK'
      BY <2>2, StillGrows
    <3> QED BY <2>2, <2>3, <3>1, CalmBefore DEF BuildInv, CalmOK
  <2> QED BY <2>1, <2>2, <2>3, EndBuild
<1>3. CASE EndPool \/ EndStage \/ CreatePool
  BY <1>3, EndPoolBuild, EndStageBuild, CreatePoolBuild
<1>4. CASE Import \/ BuildStack \/ RunStage \/ ReadTopology \/ ReadUsage \/ ReadAccess
  BY <1>4, BeginsBuild
<1>5. CASE DeleteDefinition \/ DeletePool \/ Restart \/ Cleanup \/ Push \/ Expire \/ UNCHANGED dVars
  BY <1>5, OthersBuild
<1> QED BY <1>1, <1>2, <1>3, <1>4, <1>5 DEF DNext

\* It holds at first.
LEMMA BuildStarts == DInit => BuildInv
<1> SUFFICES ASSUME DInit PROVE BuildInv
  OBVIOUS
<1>1. /\ inst = NoInst /\ pool = NoPool /\ fail = "none" /\ \A a \in Actor : call[a] = Idle
      /\ Newest \in Nat
  BY DefinitionStarts, Numbers DEF DInit, DefinitionInv
<1>2. BoxesOK
  BY <1>1 DEF BoxesOK, NoInst, Idle
<1>3. CalmOK
  BY <1>1 DEF CalmOK, NoInst, NoPool, Idle, Loaded, Do
<1> QED BY <1>2, <1>3 DEF BuildInv

-----------------------------------------------------------------------------
(* The groups of an inventory *)

\* The builders use default names, and share out the nodes by their protocol.
LEMMA BuiltNames ==
    ASSUME NEW t, NEW boxes
    PROVE  LET built == BuiltGroups(t, boxes)
           IN /\ DOMAIN built \subseteq DefaultGroups
              /\ {"ssh_nodes", "winrm_nodes"} \subseteq DOMAIN built
              /\ built["ssh_nodes"] = Nodes(t) \ ({Man} \cup t.winrm)
              /\ built["winrm_nodes"] = (Nodes(t) \ {Man}) \cap t.winrm
<1> DEFINE b1 == NodeGroups(t) ++ ProtocolGroups(t)
           b2 == b1 ++ AccessibleGroup(t)
           b3 == b2 ++ HiddenGroup(t)
           b4 == b3 ++ DockerGroup(boxes)
           b5 == b4 ++ MonitoringGroups(t)
           b6 == b5 ++ WindowsGroup(t)
           built == b6 ++ VpnGroup(t)
           Good(b) == /\ DOMAIN b \subseteq DefaultGroups
                      /\ {"ssh_nodes", "winrm_nodes"} \subseteq DOMAIN b
                      /\ b["ssh_nodes"] = Nodes(t) \ ({Man} \cup t.winrm)
                      /\ b["winrm_nodes"] = (Nodes(t) \ {Man}) \cap t.winrm
<1>1. ASSUME NEW b, Good(b), NEW g, DOMAIN g \subseteq DefaultGroups PROVE Good(b ++ g)
  BY <1>1 DEF ++
<1>2. Good(b1)
  <2>1. /\ DOMAIN NodeGroups(t) = {"hosts", "management", "routers"}
        /\ DOMAIN ProtocolGroups(t) = {"winrm_nodes", "ssh_nodes"}
        /\ ProtocolGroups(t)["ssh_nodes"] = Nodes(t) \ ({Man} \cup t.winrm)
        /\ ProtocolGroups(t)["winrm_nodes"] = (Nodes(t) \ {Man}) \cap t.winrm
    BY DEF NodeGroups, ProtocolGroups
  <2>2. /\ DOMAIN NodeGroups(t) \cup DOMAIN ProtocolGroups(t) \subseteq DefaultGroups
        /\ {"ssh_nodes", "winrm_nodes"} \subseteq DOMAIN ProtocolGroups(t) \ DOMAIN NodeGroups(t)
    BY <2>1 DEF DefaultGroups
  <2> QED BY <2>1, <2>2 DEF ++
<1>3. /\ DOMAIN AccessibleGroup(t) \subseteq DefaultGroups
      /\ DOMAIN HiddenGroup(t) \subseteq DefaultGroups
  BY DEF AccessibleGroup, HiddenGroup, DefaultGroups
<1>4. DOMAIN DockerGroup(boxes) \subseteq DefaultGroups
  BY DEF DockerGroup, When, DefaultGroups
<1>5. DOMAIN MonitoringGroups(t) \subseteq DefaultGroups
  <2>1. /\ DOMAIN When(t.tcp # {}, [monitored_hosts_tcp |-> t.tcp]) \subseteq {"monitored_hosts_tcp"}
        /\ DOMAIN When(t.icmp # {}, [monitored_hosts_icmp |-> t.icmp]) \subseteq {"monitored_hosts_icmp"}
    BY DEF When
  <2> QED BY <2>1 DEF MonitoringGroups, DefaultGroups, ++
<1>6. DOMAIN WindowsGroup(t) \subseteq DefaultGroups /\ DOMAIN VpnGroup(t) \subseteq DefaultGroups
  BY DEF When, WindowsGroup, VpnGroup, DefaultGroups
<1> HIDE DEF Good
<1>7. Good(b3)
  <2>1. Good(b2)
    BY <1>1, <1>2, <1>3
  <2> QED BY <1>1, <1>3, <2>1
<1>8. Good(b5)
  <2>1. Good(b4)
    BY <1>1, <1>4, <1>7
  <2> QED BY <1>1, <1>5, <2>1
<1>9. Good(built)
  <2>1. Good(b6)
    BY <1>1, <1>6, <1>8
  <2> QED BY <1>1, <1>6, <2>1
<1>10. built = BuiltGroups(t, boxes)
  BY DEF BuiltGroups
<1> QED BY <1>9, <1>10 DEF Good

\* The invariants say that what is validated can be built.
LEMMA BuildsFromInv == DefinitionInv /\ BuildInv => ValidatedBuilds
<1> SUFFICES ASSUME DefinitionInv, BuildInv PROVE ValidatedBuilds
  OBVIOUS
<1>1. fail # "none" => faults > 0 \/ (mode # "FRESH" /\ Newest > 1)
  <2>1. faults \in Nat /\ Newest \in Nat /\ 1 <= Newest
    BY Numbers, DefinitionsAssumption DEF DefinitionInv, PlainOK
  <2> QED BY <2>1 DEF BuildInv, Calm, CalmOK
<1>2. ASSUME inst # NoInst
      PROVE  LET t == Topology(inst.top)
                 built == BuiltGroups(t, Boxes(inst.boxes))
                 groups == Groups(t, Boxes(inst.boxes))
             IN /\ \A g \in DOMAIN built : groups[g] = built[g]
                /\ groups["ssh_nodes"] \cup groups["winrm_nodes"] \cup {Man} = Nodes(t)
                /\ groups["ssh_nodes"] \cap groups["winrm_nodes"] = {}
  <2> DEFINE t == Topology(inst.top)
             built == BuiltGroups(t, Boxes(inst.boxes))
             groups == Groups(t, Boxes(inst.boxes))
  <2>1. DOMAIN t.groups \cap DefaultGroups = {}
    BY <1>2, InstanceKnown DEF Loads, Topology
  <2>2. /\ DOMAIN built \subseteq DefaultGroups
        /\ {"ssh_nodes", "winrm_nodes"} \subseteq DOMAIN built
        /\ built["ssh_nodes"] = Nodes(t) \ ({Man} \cup t.winrm)
        /\ built["winrm_nodes"] = (Nodes(t) \ {Man}) \cap t.winrm
    BY BuiltNames
  <2>3. groups = t.groups ++ built
    BY DEF Groups
  <2> HIDE DEF built, groups, t
  <2>4. \A g \in DOMAIN built : groups[g] = built[g]
    BY <2>1, <2>2, <2>3 DEF ++
  <2>5. Man \in Nodes(t)
    BY DEF Nodes
  <2> QED BY <2>2, <2>4, <2>5 DEF built, groups, t
<1> QED BY <1>1, <1>2 DEF ValidatedBuilds

-----------------------------------------------------------------------------
(* Who reaches a host *)

\* The first network of a node is one of its networks.
LEMMA FirstNetwork ==
    ASSUME NEW t, WellFormed(t), NEW node \in t.hosts \cup t.routers, On(t, node) # {}
    PROVE  FirstOn(t, node) \in On(t, node)
<1>1. t.wires[node] \in Seq(Range(t.wires[node]))
  BY DEF WellFormed
<1>2. Links(t, node) \in SUBSET Nat /\ Links(t, node) # {}
  BY <1>1 DEF Links, On
<1>3. Min(Links(t, node)) \in Links(t, node)
  BY <1>2, LeastNumber
<1> QED BY <1>3 DEF FirstOn, On

\* A node with one link is on one network.
LEMMA OneNetwork ==
    ASSUME NEW t, WellFormed(t), NEW node \in t.hosts \cup t.routers, Cardinality(Links(t, node)) = 1
    PROVE  On(t, node) = {FirstOn(t, node)}
<1> DEFINE links == Links(t, node)
<1>1. IsFiniteSet(links)
  <2>1. t.wires[node] \in Seq(Range(t.wires[node]))
    BY DEF WellFormed
  <2>2. links \subseteq 1..Len(t.wires[node]) /\ Len(t.wires[node]) \in Nat
    BY <2>1 DEF Links
  <2>3. IsFiniteSet(1..Len(t.wires[node]))
    BY <2>2, FS_Interval
  <2> QED BY <2>2, <2>3, FS_Subset
<1>2. PICK i : links = {i}
  <2>1. Cardinality(links) = 1
    OBVIOUS
  <2> HIDE DEF links
  <2>2. Cardinality(links) = 1 <=> \E i : links = {i}
    BY ONLY <1>1, FS_Singleton, Zenon
  <2> QED BY <2>1, <2>2
<1>3. On(t, node) = {t.wires[node][i]}
  BY <1>2 DEF On
<1> QED BY <1>3, FirstNetwork

\* How a host is shown: at its address on one of its networks.
LEMMA ShownAs ==
    ASSUME NEW t, NEW s \in ShownHosts(t)
    PROVE  \E net \in On(t, s.name) :
               /\ s.name \in t.hosts /\ s.ip = <<s.name, net>>
               /\ (s.gui <=> s.name \in t.gui) /\ (s.accessible <=> net \in t.open)
<1>1. PICK r \in ShownTopology(t) : \E sub \in r.subnets : s \in sub.hosts
  BY DEF ShownHosts
<1>2. PICK router \in t.routers : r = [name |-> router, ip |-> <<router, Wan>>, subnets |-> Subnets(t, router)]
  BY DEF ShownTopology
<1>3. PICK sub \in Subnets(t, router) : s \in sub.hosts
  BY <1>1, <1>2
<1>4. PICK net \in On(t, router) : sub = [name |-> net, hosts |-> SubnetHosts(t, net)]
  BY <1>3 DEF Subnets
<1>5. PICK h \in Linked(t, net) \cap VisibleHosts(t) :
          s = [name |-> h, ip |-> <<h, net>>, gui |-> h \in t.gui, accessible |-> net \in t.open]
  BY <1>3, <1>4 DEF SubnetHosts
<1>6. s.name = h /\ s.ip = <<h, net>> /\ s.gui = (h \in t.gui) /\ s.accessible = (net \in t.open)
  BY <1>5
<1>7. h \in t.hosts /\ net \in Range(t.wires[h]) /\ net \in t.nets
  BY <1>4, <1>5, OnWires DEF Linked, VisibleHosts
<1>8. net \in On(t, h)
  BY <1>7, OnWires
<1> QED BY <1>6, <1>7, <1>8

\* The SSH configuration knows a host by its open networks only.
LEMMA UserEntries ==
    ASSUME NEW t, WellFormed(t), NEW boxes, boxes # None => \A m \in boxes.maps : m = <<m[1], m[2]>>,
           NEW h \in t.hosts
    PROVE  /\ \A net \in On(t, h) \cap t.open : \E e \in UserConfig(t, boxes) :
                  e.alias = <<h>> /\ e.address = <<h, net>> /\ e.jump = Man
           /\ (\E e \in UserConfig(t, boxes) : e.alias = <<h>>) => On(t, h) \cap t.open # {}
<1>1. ASSUME NEW net \in On(t, h) \cap t.open
      PROVE  \E e \in UserConfig(t, boxes) : e.alias = <<h>> /\ e.address = <<h, net>> /\ e.jump = Man
  <2> DEFINE l == <<h, net>>
             e == Entry(<<l[1]>>, l, "user", Man)
  <2>1. l \in OpenLinks(t)
    BY OnWires DEF OpenLinks
  <2>2. e \in UserConfig(t, boxes)
    BY <2>1 DEF UserConfig
  <2>3. e.alias = <<h>> /\ e.address = l /\ e.jump = Man
    BY DEF Entry
  <2> QED BY <2>2, <2>3
<1>2. ASSUME NEW e \in UserConfig(t, boxes), e.alias = <<h>> PROVE On(t, h) \cap t.open # {}
  <2>1. h # Proxy /\ h # Man
    BY DEF WellFormed
  <2>2. \/ e = ProxyEntry("stack") \/ e = Entry(<<Man>>, OutAddress, "user", Proxy)
        \/ \E l \in OpenLinks(t) : e = Entry(<<l[1]>>, l, "user", Man)
        \/ boxes # None /\ \E m \in boxes.maps : e = Entry(m, <<"localhost">>, "root", m[1])
    BY DEF UserConfig
  <2>3. CASE e = ProxyEntry("stack") \/ e = Entry(<<Man>>, OutAddress, "user", Proxy)
    <3>1. e.alias \in {<<Proxy>>, <<Man>>}
      BY <2>3 DEF ProxyEntry, Entry
    <3> QED BY <1>2, <2>1, <3>1
  <2>4. ASSUME NEW l \in OpenLinks(t), e = Entry(<<l[1]>>, l, "user", Man)
        PROVE  On(t, h) \cap t.open # {}
    <3>1. l[1] = h
      BY <1>2, <2>4 DEF Entry
    <3>2. l[2] \in t.open /\ l[2] \in Range(t.wires[h])
      BY <2>4, <3>1 DEF OpenLinks
    <3>3. l[2] \in t.nets
      BY <3>2 DEF WellFormed
    <3> QED BY <3>2, <3>3, OnWires
  <2>5. ASSUME boxes # None, NEW m \in boxes.maps, e = Entry(m, <<"localhost">>, "root", m[1])
        PROVE  FALSE
    <3>1. m = <<h>>
      BY <1>2, <2>5 DEF Entry
    <3>2. m = <<m[1], m[2]>>
      BY <2>5
    <3>3. Len(<<h>>) = 1 /\ Len(<<m[1], m[2]>>) = 2
      OBVIOUS
    <3> QED BY <3>1, <3>2, <3>3
  <2> QED BY <2>2, <2>3, <2>4, <2>5
<1> QED BY <1>1, <1>2

\* The answers about one host of one topology agree.
LEMMA HostAgrees ==
    ASSUME NEW t, WellFormed(t), NEW boxes, boxes # None => \A m \in boxes.maps : m = <<m[1], m[2]>>,
           NEW h \in t.hosts
    PROVE  LET config == UserConfig(t, boxes)
               data == AccessData(t, h)
               shown == {s \in ShownHosts(t) : s.name = h}
           IN /\ \A s \in shown : s.gui <=> data.protocols # {"ssh"}
              /\ IF data.ip # None
                 THEN /\ \E e \in config : e.alias = <<h>> /\ e.address = data.ip /\ e.jump = Man
                      /\ \A s \in shown : s.ip = data.ip => s.accessible
                      /\ h \in AccessibleGroup(t)["user_accessible_nodes"]
                 ELSE Cardinality(Links(t, h)) = 1 =>
                      /\ \A e \in config : e.alias # <<h>>
                      /\ \A s \in shown : ~s.accessible
<1> DEFINE config == UserConfig(t, boxes)
           data == AccessData(t, h)
           shown == {s \in ShownHosts(t) : s.name = h}
           first == FirstOn(t, h)
<1>1. h \notin t.routers \cup {Man} /\ t.open \subseteq t.nets
  BY DEF WellFormed
<1>2. data.ip = (IF On(t, h) = {} \/ first \notin t.open THEN None ELSE <<h, first>>)
  BY <1>1 DEF AccessData, NodeAddress
<1>3. data.protocols # {"ssh"} <=> h \in t.gui
  <2>1. data.protocols = Protocols(t, h)
    BY DEF AccessData
  <2>2. "rdp" # "ssh" /\ "vnc" # "ssh"
    OBVIOUS
  <2> QED BY <2>1, <2>2 DEF Protocols
<1>4. ASSUME NEW s \in shown
      PROVE  /\ s.gui <=> h \in t.gui
             /\ \E net \in On(t, h) : s.ip = <<h, net>> /\ (s.accessible <=> net \in t.open)
  BY ShownAs
<1>5. CASE data.ip # None
  <2>1. On(t, h) # {} /\ first \in t.open /\ data.ip = <<h, first>>
    BY <1>2, <1>5
  <2>2. first \in On(t, h)
    BY <2>1, FirstNetwork
  <2>3. \E e \in config : e.alias = <<h>> /\ e.address = data.ip /\ e.jump = Man
    <3>1. \A net \in On(t, h) \cap t.open : \E e \in config :
              e.alias = <<h>> /\ e.address = <<h, net>> /\ e.jump = Man
      BY UserEntries, Zenon
    <3>2. first \in On(t, h) \cap t.open
      BY <2>1, <2>2
    <3> HIDE DEF config, first, data
    <3>3. \E e \in config : e.alias = <<h>> /\ e.address = <<h, first>> /\ e.jump = Man
      BY <3>1, <3>2
    <3> QED BY <2>1, <3>3
  <2>4. \A s \in shown : s.ip = data.ip => s.accessible
    BY <1>4, <2>1
  <2>5. h \in AccessibleGroup(t)["user_accessible_nodes"]
    <3>1. <<h, first>> \in OpenLinks(t)
      BY <2>1, <2>2, OnWires DEF OpenLinks
    <3> QED BY <3>1 DEF AccessibleGroup
  <2> HIDE DEF config, data, shown
  <2> QED BY <1>3, <1>4, <1>5, <2>3, <2>4, <2>5 DEF config, data, shown
<1>6. CASE data.ip = None
  <2>1. ASSUME Cardinality(Links(t, h)) = 1 PROVE On(t, h) \cap t.open = {}
    <3>1. On(t, h) = {first}
      BY <2>1, OneNetwork
    <3>2. first \in t.nets
      BY <3>1, OnWires
    <3>3. <<h, first>> # None
      BY <3>2 DEF WellFormed
    <3> QED BY <1>2, <1>6, <3>1, <3>3
  <2>2. On(t, h) \cap t.open = {} => \A e \in config : e.alias # <<h>>
    BY UserEntries
  <2>3. On(t, h) \cap t.open = {} => \A s \in shown : ~s.accessible
    BY <1>4
  <2> HIDE DEF config, data, shown
  <2> QED BY <1>3, <1>4, <1>6, <2>1, <2>2, <2>3 DEF config, data, shown
<1> QED BY <1>5, <1>6

\* The containers of the sandbox's instance are some of the repository's, or none.
LEMMA BoxesKnown ==
    ASSUME DefinitionInv, BuildInv
    PROVE  LET boxes == Boxes(inst.boxes)
           IN boxes # None => \A m \in boxes.maps : m = <<m[1], m[2]>>
<1> DEFINE n == inst.boxes
<1>1. n \in Rev /\ n <= Newest
  BY DEF DefinitionInv, PlainOK, BuildInv, BoxesOK
<1>2. CASE n = 0
  BY <1>2 DEF Boxes
<1>3. CASE n # 0
  <2>1. n \in 1..Len(git)
    BY <1>1, <1>3, Numbers DEF Rev, Newest, DefinitionInv
  <2>2. git[n] \in Contents
    BY <2>1 DEF DefinitionInv, GitOK
  <2> QED BY <1>3, <2>2, ContentsAssumption DEF Boxes
<1> QED BY <1>2, <1>3

\* The invariants say that the answers about every host agree.
LEMMA AgreesFromInv == DefinitionInv /\ BuildInv => AccessAgrees
<1> SUFFICES ASSUME DefinitionInv, BuildInv, inst # NoInst PROVE AccessAgrees
  BY DEF AccessAgrees
<1>1. WellFormed(Topology(inst.top))
  BY InstanceKnown
<1> QED BY <1>1, BoxesKnown, HostAgrees DEF AccessAgrees

\* Every step of the system keeps the invariant of what is built.
LEMMA BuildsInvariant == Spec => [](ConsoleInv /\ ImportOK /\ BuildInv)
<1>1. Init => BuildInv
  BY BuildStarts DEF Init
<1>2. ASSUME ConsoleInv, ConsoleInv', BuildInv, [Next]_vars PROVE BuildInv'
  <2>1. [DNext]_dVars
    BY <1>2 DEF Next, vars
  <2> QED BY <1>2, <2>1, BuildStep DEF ConsoleInv
<1> QED BY <1>1, <1>2, ConsolesInvariant, PTL DEF Spec

-----------------------------------------------------------------------------
(* The theorems *)

(* Types, among them what the actors rely on: a sandbox's parts exist only  *)
(* on top of one another, and consoles are looked at only when it is ready. *)
THEOREM TypeCorrect == Spec => []TypeOK
<1>1. ConsoleInv => TypeOK
  <2> SUFFICES ASSUME ConsoleInv PROVE TypeOK
    OBVIOUS
  <2>1. DTypeOK /\ ViewsOK
    BY DefinitionTypes DEF ConsoleInv
  <2>2. ASSUME NEW v \in Viewers
        PROVE  /\ view[v].at \in {"away", "node", "flag", "set", "enqueue"}
               /\ view[v].left \subseteq AllNodes /\ view[v].node \in AllNodes \cup {None}
               /\ view[v].at # "away" => passed = 2
    BY <2>1 DEF ViewsOK, View
  <2> QED BY <2>1, <2>2 DEF TypeOK, ViewsOK
<1> QED BY <1>1, ConsolesInvariant, PTL

(* The instance that pages, SSH configurations and inventories are made     *)
(* from is of the commit the pool pins when revisions are resolved; with a  *)
(* cache per branch it may differ from the stack only if different          *)
(* topologies were stored under the branch.                                 *)
THEOREM InstanceTheorem == Spec => []InstanceMatches
<1>1. ConsoleInv => InstanceMatches
  BY InstanceFromInv DEF ConsoleInv
<1> QED BY <1>1, ConsolesInvariant, PTL

(* A (re)import leaves no topology in the cache that is older than the      *)
(* branch was when the import began, unless a request that had fetched the  *)
(* older file stored it after the import.                                   *)
THEOREM ImportTheorem == Spec => []ImportRefreshes
<1>1. ConsoleInv /\ ImportOK => ImportRefreshes
  BY ImportFromInv DEF ConsoleInv
<1> QED BY <1>1, ConsolesInvariant, PTL

(* The usage cached for a pool is that of the commit it pins, unless the    *)
(* branch had moved on when it was computed; it is an error only after a    *)
(* failed call or with a definition pushed later.                           *)
THEOREM UsageTheorem == Spec => []UsageHonest
<1>1. ConsoleInv => UsageHonest
  BY UsageFromInv DEF ConsoleInv
<1> QED BY <1>1, ConsolesInvariant, PTL

(* While the flag of a node holds back requests for its console, a job for  *)
(* it is queued or running, or about to be enqueued, or has failed.         *)
THEOREM WaitTheorem == Spec => []WaitHasJob
<1>1. ConsoleInv => WaitHasJob
  BY DEF ConsoleInv
<1> QED BY <1>1, ConsolesInvariant, PTL

(* What passed validation can be built: a stage fails only because a git    *)
(* call failed or because the branch moved under a pool that is pinned to   *)
(* the branch; and its inventory has every default group, WinRM and SSH     *)
(* sharing out the nodes, none of them replaced by the definition's own.    *)
THEOREM BuildsTheorem == Spec => []ValidatedBuilds
<1>1. ConsoleInv /\ BuildInv => ValidatedBuilds
  BY BuildsFromInv DEF ConsoleInv
<1> QED BY <1>1, BuildsInvariant, PTL

(* Ansible reaches every node: its SSH configuration knows the node at the  *)
(* address of its inventory entry, over a jump host it knows too; and MAN   *)
(* has exactly one route to each network with a router, over one that is on *)
(* the network and sends answers back to MAN.                               *)
THEOREM ReachesTheorem == Spec => []AnsibleReaches
<1>1. ConsoleInv => AnsibleReaches
  BY ReachesFromInv DEF ConsoleInv
<1> QED BY <1>1, BuildsInvariant, PTL

(* The access data of a host, the SSH configuration, the topology page and  *)
(* the groups of the inventory agree on whether a trainee may use the host, *)
(* at which address, and with which protocols.                              *)
THEOREM AgreesTheorem == Spec => []AccessAgrees
<1>1. ConsoleInv /\ BuildInv => AccessAgrees
  BY AgreesFromInv DEF ConsoleInv
<1> QED BY <1>1, BuildsInvariant, PTL
=============================================================================

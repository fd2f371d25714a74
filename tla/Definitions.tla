---------------------------- MODULE Definitions ----------------------------
(***************************************************************************)
(* One sandbox definition, from the git repository to what is built from   *)
(* it: the import, one pool pinned to a revision, and one sandbox of that  *)
(* pool, while the branch moves, caches expire, git calls fail, and other  *)
(* requests read through the same caches.  Three requests or jobs run at   *)
(* once: an import, the chain (pool creation, then the stages of the       *)
(* sandbox), and a reader.                                                 *)
(*                                                                         *)
(* A commit is its number in git; 0 stands for the branch as a revision    *)
(* and as a cache key, and for "nothing" as a commit.  FRESH stands for    *)
(* GitLab as well, which always resolves a revision to its commit.         *)
(***************************************************************************)
EXTENDS SandboxAccess

CONSTANTS
    Modes,      \* topology cache modes
    First,      \* contents the repository may start with
    Pushes,     \* pairs <<c, d>>: content d may be pushed after content c
    Available,  \* flavors and images the cloud offers
    MaxCommits, \* bound: commits of the branch
    MaxTrouble, \* bound: git calls that fail and cache entries that time out, together
    AtOnce      \* bound: actors at work at the same time

ASSUME DefinitionsAssumption ==
    /\ Modes \subseteq {"FRESH", "FRESH_IMPORT", "AGGRESSIVE"}
    /\ MaxCommits \in Nat \ {0} /\ MaxTrouble \in Nat /\ AtOnce \in 1..3
Contents == First \cup {p[2] : p \in Pushes}
ASSUME ContentsAssumption ==
    \A c \in Contents :
        /\ WellFormed(c.top)
        /\ c.boxes # None => \A m \in c.boxes.maps : m = <<m[1], m[2]>>

Branch == 0
Commit == 1..MaxCommits
Rev == 0..MaxCommits
Actor == {"import", "chain", "reader"}

VARIABLES
    mode,      \* topology_cache_mode
    git,       \* the contents of the branch's commits
    topo,      \* topology_cache: key -> commit whose topology it holds, or 0
    row,       \* the definition exists
    pool,      \* state, rev_sha, and the commits its topology and containers were validated at
    stack,     \* commit the terraform stack was built from
    inst,      \* the sandbox's cached topology instance: the commits it combines
    passed,    \* Ansible stages that have succeeded; 2: the sandbox is ready
    fail,      \* why the stage that failed did
    usage,     \* hardware-usage-pool: unset, a commit, or an error
    call,      \* what each actor is doing
    faults,    \* git calls that have failed so far
    expired,   \* entries of the topology cache that have timed out so far
    seen,      \* commits whose topology was ever stored under the branch
    imported,  \* the branch head when the newest finished import began
    raced      \* a request stored what it had fetched before an import did

envVars == <<mode, git, faults>>
boxVars == <<stack, inst, passed, fail>>
history == <<seen, imported, raced>>
dVars == <<envVars, expired, topo, row, pool, boxVars, usage, call, history>>

Idle == [what |-> "none", todo |-> << >>, at |-> "next", key |-> 0, got |-> 0,
         top |-> 0, boxes |-> 0, head |-> 0]
NoPool == [st |-> "none", rev |-> 0, top |-> 0, boxes |-> 0]
NoInst == [top |-> 0, boxes |-> 0]

(* The calls a request or job makes, in order: get_definition,              *)
(* get_containers, and the lookup of the topology instance.                 *)
Plan == [import |-> <<"def", "def", "boxes">>,
         pool   |-> <<"def", "boxes", "def", "boxes">>,
         stack  |-> <<"def">>,
         stage  |-> <<"def", "boxes", "inst">>,
         mgmt   |-> <<"def", "boxes", "inst">>,
         show   |-> <<"def", "boxes">>,
         usage  |-> <<"def">>]

DTypeOK ==
    /\ mode \in Modes /\ Len(git) \in Commit
    /\ topo \in [Rev -> Rev] /\ row \in BOOLEAN
    /\ pool.st \in {"none", "saved", "ready"}
    /\ pool.rev \in Rev /\ pool.top \in Rev /\ pool.boxes \in Rev
    /\ pool.st # "none" => row
    /\ stack \in Rev /\ inst \in [top : Rev, boxes : Rev]
    /\ stack # 0 => pool.st = "ready"
    /\ inst # NoInst => stack # 0
    /\ passed \in 0..2 /\ (passed > 0 => stack # 0)
    /\ fail \in {"none", "git", "lost", "keys"}
    /\ usage \in {"unset", "error"} \X {0} \cup {"commit"} \X Commit
    /\ \A a \in Actor :
        /\ call[a].what \in DOMAIN Plan \cup {"none"}
        /\ call[a].at \in {"next", "fetch", "store", "add"}
        /\ {call[a].key, call[a].got, call[a].top, call[a].boxes, call[a].head} \subseteq Rev
    /\ faults \in 0..MaxTrouble /\ expired \in 0..MaxTrouble
    /\ seen \subseteq Commit /\ imported \in Rev /\ raced \in BOOLEAN

DInit ==
    /\ mode \in Modes /\ git \in {<<c>> : c \in First}
    /\ topo = [k \in Rev |-> 0] /\ row = FALSE /\ pool = NoPool
    /\ stack = 0 /\ inst = NoInst /\ passed = 0 /\ fail = "none"
    /\ usage = <<"unset", 0>> /\ call = [a \in Actor |-> Idle]
    /\ faults = 0 /\ expired = 0 /\ seen = {} /\ imported = 0 /\ raced = FALSE

-----------------------------------------------------------------------------
(* The repository.                                                          *)
Newest == Len(git)
CommitAt(rev) == IF rev = Branch THEN Newest ELSE rev

(* The revision a cache key is made of.                                     *)
RevSha(rev) == IF mode = "FRESH" THEN CommitAt(rev) ELSE rev

KeyWithoutSha(rev) == Branch  \* mutant: the key names the url alone
Key(rev) == RevSha(rev)

RevOf(what) == IF what \in {"import", "usage", "show"} THEN Branch ELSE pool.rev

NeverForced(a) == FALSE  \* mutant: the import reads through the cache
Forced(a) ==
    mode = "FRESH_IMPORT" /\ call[a].what = "import" /\ Len(call[a].todo) = 3

(* A definition's own groups may not take the name of a default group, and  *)
(* it may only use what the cloud offers.                                   *)
Loads(content) ==
    /\ DOMAIN content.top.groups \cap DefaultGroups = {}
    /\ content.top.uses \subseteq Available

(* Containers have an image or a Dockerfile that exists, and mappings name  *)
(* defined containers and hosts of the topology.                            *)
MapsFine(t, boxes, dockerfiles) ==
    /\ \A c \in DOMAIN boxes.defs :
        /\ boxes.defs[c] \in {"image", "file"}
        /\ boxes.defs[c] = "file" => c \in dockerfiles
    /\ \A m \in boxes.maps : m[1] \in t.hosts /\ m[2] \in DOMAIN boxes.defs

Topology(c) == git[c].top
Boxes(c) == IF c = 0 THEN None ELSE git[c].boxes

-----------------------------------------------------------------------------
Do(a) == call[a].what
Free(a) == Do(a) = "none"
At(a, step) == ~Free(a) /\ call[a].at = "next" /\ call[a].todo # << >> /\ call[a].todo[1] = step
Planned(a) == ~Free(a) /\ call[a].todo = << >>
Refreshing(a) == Do(a) = "import" /\ Len(call[a].todo) = 3

Begins(a, what) ==
    /\ Cardinality({b \in Actor : ~Free(b)}) < AtOnce
    /\ call' = [call EXCEPT ![a] = [Idle EXCEPT !.what = what, !.todo = Plan[what]]]
Ends(a) == call' = [call EXCEPT ![a] = Idle]

(* A step of the plan is done: the commits it found are kept.               *)
Found(a, top, boxes) ==
    call' = [call EXCEPT ![a] = [@ EXCEPT !.todo = Tail(call[a].todo), !.at = "next", !.key = 0, !.got = 0,
                                          !.top = top, !.boxes = boxes]]
Returns(a, commit, head) ==
    /\ Found(a, commit, call[a].boxes)
    /\ imported' = IF Refreshing(a) /\ mode = "FRESH_IMPORT" THEN head ELSE imported

(* A request fails: a new pool is deleted, an error is cached as the usage, *)
(* a stage fails.                                                           *)
Fails(a, why) ==
    /\ Ends(a)
    /\ pool' = IF Do(a) = "pool" THEN NoPool ELSE pool
    /\ usage' = IF Do(a) = "usage" THEN <<"error", 0>> ELSE usage
    /\ fail' = IF Do(a) \in {"stack", "stage"} THEN why ELSE fail
    /\ UNCHANGED <<mode, git, expired, topo, row, stack, inst, passed, history>>

-----------------------------------------------------------------------------
(* get_definition: the key, the cache, the file, the cache again.           *)
Look(a) ==
    /\ At(a, "def")
    /\ LET key == Key(RevOf(Do(a)))
       IN IF topo[key] # 0 /\ ~Forced(a)
          THEN Returns(a, topo[key], Newest)
          ELSE /\ call' = [call EXCEPT ![a] = [@ EXCEPT !.at = "fetch", !.key = key,
                                                     !.head = IF Refreshing(a) THEN Newest ELSE 0]]
               /\ UNCHANGED imported
    /\ UNCHANGED <<envVars, expired, topo, row, pool, boxVars, usage, seen, raced>>

FetchAt(a, rev) ==
    /\ call[a].at = "fetch"
    /\ LET commit == CommitAt(rev)
       IN IF Loads(git[commit])
          THEN /\ call' = [call EXCEPT ![a] = [@ EXCEPT !.at = "store", !.got = commit]]
               /\ UNCHANGED <<pool, usage, fail, mode, git, expired, topo, row, stack, inst, passed, history>>
          ELSE Fails(a, "git")
    /\ UNCHANGED faults
FetchByName(a) == FetchAt(a, RevOf(Do(a)))  \* mutant: the file at rev, not at rev_sha
Fetch(a) == FetchAt(a, call[a].key)

Store(a) ==
    /\ call[a].at = "store"
    /\ LET me == call[a]
       IN /\ topo' = [topo EXCEPT ![me.key] = me.got]
          /\ seen' = IF me.key = Branch THEN seen \cup {me.got} ELSE seen
          /\ raced' = (raced \/ (Forced(a) /\ \E b \in Actor \ {a} :
                            call[b].at = "store" /\ call[b].key = Branch /\ call[b].got < me.got))
          /\ Returns(a, me.got, me.head)
    /\ UNCHANGED <<envVars, expired, row, pool, boxVars, usage>>

(* get_containers: never cached, and any git error means no containers.     *)
(* A pool without containers is not validated further.                      *)
LoadBoxes(a) ==
    /\ At(a, "boxes")
    /\ \E lost \in {0, 1} :
        LET commit == CommitAt(RevOf(Do(a)))
            boxes == IF lost = 1 \/ git[commit].boxes = None THEN 0 ELSE commit
        IN /\ faults + lost + expired <= MaxTrouble /\ faults' = faults + lost
           /\ IF Do(a) = "pool" /\ boxes = 0
              THEN call' = [call EXCEPT ![a] = [@ EXCEPT !.todo = << >>, !.boxes = 0]]
              ELSE Found(a, call[a].top, boxes)
    /\ UNCHANGED <<mode, git, expired, topo, row, pool, boxVars, usage, history>>

(* get_topology_instance: what was loaded is used only if nothing is        *)
(* cached; every node must be one of the stack.  The cache keeps the first  *)
(* instance, and the request uses what the cache then holds.                *)
FindInstance(a) ==
    /\ At(a, "inst")
    /\ IF inst # NoInst
       THEN Found(a, inst.top, inst.boxes) /\ UNCHANGED <<pool, usage, fail, mode, git, expired, topo, row, stack, inst, passed, history>>
       ELSE IF Nodes(Topology(call[a].top)) \subseteq Nodes(Topology(stack))
       THEN call' = [call EXCEPT ![a].at = "add"] /\ UNCHANGED <<pool, usage, fail, mode, git, expired, topo, row, stack, inst, passed, history>>
       ELSE Fails(a, "lost")
    /\ UNCHANGED faults

AddInstance(a) ==
    /\ call[a].at = "add"
    /\ inst' = IF inst = NoInst THEN [top |-> call[a].top, boxes |-> call[a].boxes] ELSE inst
    /\ Found(a, inst'.top, inst'.boxes)
    /\ UNCHANGED <<envVars, expired, topo, row, pool, stack, passed, fail, usage, history>>

(* A git call of get_definition fails.                                      *)
GitFails(a) ==
    /\ At(a, "def") \/ call[a].at = "fetch"
    /\ faults + expired < MaxTrouble /\ faults' = faults + 1
    /\ Fails(a, "git")

-----------------------------------------------------------------------------
Validated(a) ==
    call[a].boxes = 0 \/
        MapsFine(Topology(call[a].top), Boxes(call[a].boxes), git[CommitAt(RevOf(Do(a)))].files)

Import ==
    /\ Free("import") /\ Begins("import", "import")
    /\ UNCHANGED <<envVars, expired, topo, row, pool, boxVars, usage, history>>
EndImport ==
    /\ Planned("import") /\ Ends("import")
    /\ row' = (row \/ Validated("import"))
    /\ UNCHANGED <<envVars, expired, topo, pool, boxVars, usage, history>>
DeleteDefinition ==
    /\ row /\ pool = NoPool /\ row' = FALSE
    /\ UNCHANGED <<envVars, expired, topo, pool, boxVars, usage, call, history>>

(* The pool row is saved before what it pins is validated.                  *)
CreatePool ==
    /\ Free("chain") /\ row /\ pool = NoPool
    /\ pool' = [NoPool EXCEPT !.st = "saved", !.rev = RevSha(Branch)]
    /\ Begins("chain", "pool")
    /\ UNCHANGED <<envVars, expired, topo, row, boxVars, usage, history>>
EndPool ==
    /\ Planned("chain") /\ Do("chain") = "pool" /\ Ends("chain")
    /\ pool' = IF Validated("chain")
               THEN [pool EXCEPT !.st = "ready", !.top = call["chain"].top, !.boxes = call["chain"].boxes]
               ELSE NoPool
    /\ UNCHANGED <<envVars, expired, topo, row, boxVars, usage, history>>
DeleteFullPool ==  \* mutant: units do not protect their pool
    /\ Free("chain") /\ pool.st = "ready" /\ Do("reader") # "usage"
    /\ pool' = NoPool /\ usage' = <<"unset", 0>>
    /\ UNCHANGED <<envVars, expired, topo, row, boxVars, call, history>>
(* Units protect their pool.  A reader that stores the usage later uses a   *)
(* key nobody reads again, as ids are not reused: it need not be modelled.  *)
DeletePool ==
    /\ Free("chain") /\ pool.st = "ready" /\ stack = 0 /\ fail = "none" /\ Do("reader") # "usage"
    /\ pool' = NoPool /\ usage' = <<"unset", 0>>
    /\ UNCHANGED <<envVars, expired, topo, row, boxVars, call, history>>

BuildStack ==
    /\ Free("chain") /\ pool.st = "ready" /\ stack = 0 /\ fail = "none"
    /\ Begins("chain", "stack")
    /\ UNCHANGED <<envVars, expired, topo, row, pool, boxVars, usage, history>>
EndStack ==
    /\ Planned("chain") /\ Do("chain") = "stack" /\ Ends("chain")
    /\ stack' = call["chain"].top
    /\ UNCHANGED <<envVars, expired, topo, row, pool, inst, passed, fail, usage, history>>

(* The networking stage, then the user stage.                               *)
RunStage ==
    /\ Free("chain") /\ stack # 0 /\ passed < 2 /\ fail = "none"
    /\ Begins("chain", "stage")
    /\ UNCHANGED <<envVars, expired, topo, row, pool, boxVars, usage, history>>
EndStage ==
    /\ Planned("chain") /\ Do("chain") = "stage" /\ Ends("chain")
    /\ IF StageBreaks(Topology(call["chain"].top), Boxes(call["chain"].boxes), git[CommitAt(pool.rev)].files)
       THEN fail' = "keys" /\ UNCHANGED passed
       ELSE passed' = passed + 1 /\ UNCHANGED fail
    /\ UNCHANGED <<envVars, expired, topo, row, pool, stack, inst, usage, history>>

(* A restart gives the sandbox a new id, a cleanup removes it: a reader of  *)
(* the old one touches a key nobody reads again, and is not followed.       *)
Restart ==
    /\ Free("chain") /\ fail # "none" /\ Do("reader") # "mgmt"
    /\ fail' = "none" /\ inst' = NoInst
    /\ UNCHANGED <<envVars, expired, topo, row, pool, stack, passed, usage, call, history>>
Cleanup ==
    /\ Free("chain") /\ (stack # 0 \/ fail # "none") /\ Do("reader") # "mgmt"
    /\ stack' = 0 /\ inst' = NoInst /\ passed' = 0 /\ fail' = "none"
    /\ UNCHANGED <<envVars, expired, topo, row, pool, usage, call, history>>

(* Others read through the same caches: the topology of the definition, the *)
(* usage of the pool, the management SSH access of its sandboxes (before    *)
(* the stack exists the lookup fails and caches nothing).                   *)
ReadTopology ==
    /\ Free("reader") /\ row /\ Begins("reader", "show")
    /\ UNCHANGED <<envVars, expired, topo, row, pool, boxVars, usage, history>>
ReadUsage ==
    /\ Free("reader") /\ pool.st = "ready" /\ usage[1] = "unset" /\ Begins("reader", "usage")
    /\ UNCHANGED <<envVars, expired, topo, row, pool, boxVars, usage, history>>
ReadAccess ==
    /\ Free("reader") /\ stack # 0 /\ Begins("reader", "mgmt")
    /\ UNCHANGED <<envVars, expired, topo, row, pool, boxVars, usage, history>>
EndRead ==
    /\ Planned("reader") /\ Ends("reader")
    /\ usage' = IF Do("reader") = "usage" THEN <<"commit", call["reader"].top>> ELSE usage
    /\ UNCHANGED <<envVars, expired, topo, row, pool, boxVars, history>>

(* The world: somebody pushes, an entry of the topology cache times out.    *)
Push ==
    /\ Newest < MaxCommits
    /\ \E p \in Pushes : p[1] = git[Newest] /\ git' = Append(git, p[2])
    /\ UNCHANGED <<mode, faults, expired, topo, row, pool, boxVars, usage, call, history>>
Expire ==
    /\ faults + expired < MaxTrouble /\ expired' = expired + 1
    /\ \E k \in Rev : topo[k] # 0 /\ topo' = [topo EXCEPT ![k] = 0]
    /\ UNCHANGED <<envVars, row, pool, boxVars, usage, call, history>>

DNext ==
    \/ \E a \in Actor : Look(a) \/ Fetch(a) \/ Store(a) \/ LoadBoxes(a)
                        \/ FindInstance(a) \/ AddInstance(a) \/ GitFails(a)
    \/ Import \/ EndImport \/ DeleteDefinition
    \/ CreatePool \/ EndPool \/ DeletePool
    \/ BuildStack \/ EndStack \/ RunStage \/ EndStage \/ Restart \/ Cleanup
    \/ ReadTopology \/ ReadUsage \/ ReadAccess \/ EndRead
    \/ Push \/ Expire

DSpec == DInit /\ [][DNext]_dVars

-----------------------------------------------------------------------------
(* The instance every page, SSH configuration and inventory is made from is *)
(* of the definition the stack was built from.  With resolved revisions     *)
(* everything is of the pinned commit, its containers missing only after a  *)
(* failed git call.  With a cache per branch the two may differ only if     *)
(* different topologies were stored under the branch.                       *)
InstanceMatches ==
    IF mode = "FRESH"
    THEN /\ stack \in {0, pool.rev}
         /\ inst # NoInst =>
                /\ inst.top = pool.rev
                /\ inst.boxes = pool.rev \/ git[pool.rev].boxes = None \/ faults > 0
    ELSE inst # NoInst /\ inst.top # stack => Cardinality(seen) > 1

(* A (re)import renews a cache kept per branch: afterwards the cache is not *)
(* older than the branch was when the import began, unless another request  *)
(* had fetched the older file and stored it after the import.               *)
ImportRefreshes ==
    mode = "FRESH_IMPORT" /\ topo[Branch] # 0 /\ topo[Branch] < imported => raced

(* The usage cached for a pool, which is for ever, is that of the commit it *)
(* pins, unless the branch had moved on when it was computed.  It is an     *)
(* error only after a failed call or with a definition pushed later.        *)
UsageHonest ==
    pool.st = "ready" =>
        /\ usage[1] = "commit" /\ mode = "FRESH" /\ usage[2] # pool.rev => pool.rev < Newest
        /\ usage[1] = "commit" /\ mode # "FRESH" /\ usage[2] # pool.top => Cardinality(seen) > 1
        /\ usage[1] = "error" => faults > 0 \/ Newest > 1

(* What passed validation can be built: a stage fails only because a git    *)
(* call failed or because the branch moved under a pool that is pinned to   *)
(* the branch; and its inventory has every default group, WinRM and SSH     *)
(* sharing out the nodes, none of them replaced by the definition's own.    *)
ValidatedBuilds ==
    /\ fail # "none" => faults > 0 \/ (mode # "FRESH" /\ Newest > 1)
    /\ inst # NoInst =>
        LET t == Topology(inst.top)
            built == BuiltGroups(t, Boxes(inst.boxes))
            groups == Groups(t, Boxes(inst.boxes))
        IN /\ \A g \in DOMAIN built : groups[g] = built[g]
           /\ groups["ssh_nodes"] \cup groups["winrm_nodes"] \cup {Man} = Nodes(t)
           /\ groups["ssh_nodes"] \cap groups["winrm_nodes"] = {}

(* Ansible reaches every node: its SSH configuration knows the node under   *)
(* its inventory name, at the address of its entry, over a jump host it     *)
(* knows too; and MAN has exactly one route to each network with a router,  *)
(* over a router that is on it and sends answers back to MAN.               *)
AnsibleReaches ==
    inst # NoInst =>
        LET t == Topology(inst.top)
            config == AnsibleConfig(t)
            routes == UNION {i.routes : i \in HostEntry(t, Man).interfaces}
        IN /\ \A n \in Nodes(t) : \E e, j \in config :
                e.alias = <<n>> /\ e.address = HostEntry(t, n).host /\ j.alias = <<e.jump>>
           /\ \A net \in t.nets :
                LET over == {r \in routes : r[1] = net}
                    routers == Linked(t, net) \cap t.routers
                IN /\ Cardinality(over) = (IF routers = {} THEN 0 ELSE 1)
                   /\ \A r \in over : \E router \in routers :
                        \E back \in HostEntry(t, router).interfaces :
                            back.ip = r[2] /\ back.gateway = <<Man, Wan>>
                                /\ HostEntry(t, router).forward

(* The answers to "may a trainee use this host, and how" agree: whoever     *)
(* gets access data finds the host at that address in the SSH configuration,*)
(* and marked accessible in the topology if it is shown, with graphical     *)
(* access if a graphical protocol is offered; a host on one network that is *)
(* refused is in neither.                                                   *)
AccessAgrees ==
    inst # NoInst =>
        LET t == Topology(inst.top)
            config == UserConfig(t, Boxes(inst.boxes))
        IN \A h \in t.hosts :
            LET data == AccessData(t, h)
                shown == {s \in ShownHosts(t) : s.name = h}
            IN /\ \A s \in shown : s.gui <=> data.protocols # {"ssh"}
               /\ IF data.ip # None
                  THEN /\ \E e \in config : e.alias = <<h>> /\ e.address = data.ip /\ e.jump = Man
                       /\ \A s \in shown : s.ip = data.ip => s.accessible
                       /\ h \in AccessibleGroup(t)["user_accessible_nodes"]
                  ELSE Cardinality(Links(t, h)) = 1 =>
                       /\ \A e \in config : e.alias # <<h>>
                       /\ \A s \in shown : ~s.accessible
=============================================================================

----------------------------- MODULE Consoles ------------------------------
(***************************************************************************)
(* The consoles of a ready sandbox.  A client polls the view that asks for *)
(* the console of every shown node; a node's console URL is fetched by a   *)
(* job, and a flag keeps a second request from starting a second job.      *)
(* Both are cache entries that time out.                                   *)
(***************************************************************************)
EXTENDS Definitions

CONSTANTS
    Viewers,      \* clients of the console view
    MaxConsole,   \* bound: console jobs that fail and URLs that time out, together
    ConsoleSites  \* bound: contents whose consoles are looked at

ASSUME ConsolesAssumption ==
    MaxConsole \in Nat /\ ConsoleSites \subseteq First /\ IsFiniteSet(Viewers)

VARIABLES
    url,      \* nodes whose console URL is cached
    flag,     \* nodes with the flag that a job is running
    jobs,     \* console jobs queued or running, for each node
    view,     \* what each viewer is doing
    answered, \* viewers that have got all the consoles
    trouble,
    failed    \* nodes with a console job that failed

cVars == <<url, flag, jobs, view, answered, trouble, failed>>
vars == <<dVars, cVars>>

Shown == ConsoleNodes(Topology(stack))
AllNodes == UNION {ConsoleNodes(c.top) : c \in ConsoleSites}
Away == [at |-> "away", left |-> {}, node |-> None, ready |-> TRUE]

TypeOK ==
    /\ DTypeOK
    /\ url \subseteq AllNodes /\ flag \subseteq AllNodes /\ failed \subseteq AllNodes
    /\ jobs \in [AllNodes -> Nat]
    /\ \A v \in Viewers :
        /\ view[v].at \in {"away", "node", "flag", "set", "enqueue"}
        /\ view[v].left \subseteq AllNodes /\ view[v].node \in AllNodes \cup {None}
        /\ view[v].at # "away" => passed = 2
    /\ answered \subseteq Viewers /\ trouble \in 0..MaxConsole

Init ==
    /\ DInit
    /\ url = {} /\ flag = {} /\ jobs = [n \in AllNodes |-> 0]
    /\ view = [v \in Viewers |-> Away] /\ answered = {} /\ trouble = 0 /\ failed = {}

-----------------------------------------------------------------------------
(* bound: consoles are looked at when nothing else has happened or happens. *)
Quiet ==
    /\ passed = 2 /\ fail = "none" /\ inst # NoInst /\ Newest = 1 /\ git[1] \in ConsoleSites
    /\ mode = "FRESH" /\ topo[1] = 1 /\ faults + expired = 0 /\ usage[1] = "unset"
    /\ \A a \in Actor : Free(a)
Untouched ==
    /\ url = {} /\ flag = {} /\ answered = {} /\ trouble = 0
    /\ \A n \in AllNodes : jobs[n] = 0
    /\ \A v \in Viewers : view[v] = Away

(* One poll of the console view: the consoles one after the other.          *)
Poll(v) ==
    /\ Quiet /\ view[v].at = "away" /\ v \notin answered
    /\ view' = [view EXCEPT ![v] = [Away EXCEPT !.at = "node", !.left = Shown]]
    /\ UNCHANGED <<url, flag, jobs, answered, trouble, failed>>

To(v, at) == view' = [view EXCEPT ![v].at = at]
NextNode(v, found) ==
    view' = [view EXCEPT ![v] = [@ EXCEPT !.at = "node", !.node = None,
                                          !.left = view[v].left \ {view[v].node},
                                          !.ready = view[v].ready /\ found]]

(* get_console_url: the URL, then the flag, then the flag set, then the job.*)
ReadUrl(v) ==
    /\ view[v].at = "node" /\ view[v].left # {}
    /\ LET n == CHOOSE n \in view[v].left : TRUE IN
        view' = [view EXCEPT ![v] =
            IF n \in url THEN [@ EXCEPT !.left = view[v].left \ {n}] ELSE [@ EXCEPT !.at = "flag", !.node = n]]
    /\ UNCHANGED <<url, flag, jobs, answered, trouble, failed>>
ReadFlag(v) ==
    /\ view[v].at = "flag"
    /\ IF view[v].node \in flag THEN NextNode(v, FALSE) ELSE To(v, "set")
    /\ UNCHANGED <<url, flag, jobs, answered, trouble, failed>>
SetFlag(v) ==
    /\ view[v].at = "set" /\ To(v, "enqueue")
    /\ flag' = flag \cup {view[v].node}
    /\ UNCHANGED <<url, jobs, answered, trouble, failed>>
Enqueue(v) ==
    /\ view[v].at = "enqueue" /\ NextNode(v, FALSE)
    /\ jobs' = [jobs EXCEPT ![view[v].node] = @ + 1]
    /\ UNCHANGED <<url, flag, answered, trouble, failed>>

(* 200 with every console, or 202.                                          *)
Answer(v) ==
    /\ view[v].at = "node" /\ view[v].left = {}
    /\ view' = [view EXCEPT ![v] = Away]
    /\ answered' = IF view[v].ready THEN answered \cup {v} ELSE answered
    /\ UNCHANGED <<url, flag, jobs, trouble, failed>>

-----------------------------------------------------------------------------
(* The job: the URL is cached, then the flag taken away.                    *)
JobKeepsFlag(n) ==  \* mutant: the flag is left to its timeout
    /\ jobs[n] > 0 /\ jobs' = [jobs EXCEPT ![n] = @ - 1]
    /\ url' = url \cup {n}
    /\ UNCHANGED <<flag, view, answered, trouble, failed>>
Job(n) ==
    /\ jobs[n] > 0 /\ jobs' = [jobs EXCEPT ![n] = @ - 1]
    /\ url' = url \cup {n} /\ flag' = flag \ {n} /\ failed' = failed \ {n}
    /\ UNCHANGED <<view, answered, trouble>>
JobFails(n) ==  \* before the URL is cached, or after
    /\ jobs[n] > 0 /\ trouble < MaxConsole
    /\ jobs' = [jobs EXCEPT ![n] = @ - 1] /\ failed' = failed \cup {n} /\ trouble' = trouble + 1
    /\ url' \in {url, url \cup {n}}
    /\ UNCHANGED <<flag, view, answered>>

UrlExpires(n) ==
    /\ n \in url /\ trouble < MaxConsole
    /\ url' = url \ {n} /\ trouble' = trouble + 1
    /\ UNCHANGED <<flag, jobs, view, answered, failed>>
NoTimeout(n) == n \in flag /\ UNCHANGED cVars  \* mutant: the flag is set without a timeout
(* The flag's five minutes are over: the job has failed or takes long.      *)
FlagExpires(n) ==
    /\ n \in flag /\ (n \in failed \/ trouble < MaxConsole)
    /\ flag' = flag \ {n} /\ failed' = failed \ {n}
    /\ trouble' = IF n \in failed THEN trouble ELSE trouble + 1
    /\ UNCHANGED <<url, jobs, view, answered>>

ViewStep(v) == Poll(v) \/ ReadUrl(v) \/ ReadFlag(v) \/ SetFlag(v) \/ Enqueue(v) \/ Answer(v)
CNext ==
    \/ \E v \in Viewers : ViewStep(v)
    \/ \E n \in AllNodes : Job(n) \/ JobFails(n) \/ UrlExpires(n) \/ FlagExpires(n)

Next ==
    \/ DNext /\ Untouched /\ UNCHANGED cVars
    \/ CNext /\ UNCHANGED dVars

(* Clients go on polling, workers take queued jobs, time passes.            *)
Spec ==
    /\ Init /\ [][Next]_vars
    /\ \A v \in Viewers : WF_vars(ViewStep(v) /\ UNCHANGED dVars)
    /\ \A n \in AllNodes :
        /\ WF_vars(Job(n) /\ UNCHANGED dVars)
        /\ WF_vars(FlagExpires(n) /\ UNCHANGED dVars)

-----------------------------------------------------------------------------
(* Nobody waits for nothing: while the flag of a node holds back requests,  *)
(* a job for it is queued or running, or about to be enqueued, or has       *)
(* failed.                                                                  *)
WaitHasJob ==
    \A n \in flag : jobs[n] > 0 \/ n \in failed
                        \/ \E v \in Viewers : view[v].at = "enqueue" /\ view[v].node = n

(* A client that polls gets all the consoles, although jobs fail and URLs   *)
(* time out, as long as that ends.                                          *)
ConsolesCome == \A v \in Viewers : (view[v].at # "away") ~> (v \in answered)
=============================================================================

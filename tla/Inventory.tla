----------------------------- MODULE Inventory -----------------------------
(***************************************************************************)
(* The Ansible inventory of a topology instance, as functions of the       *)
(* topology and the containers of one commit.  A topology is a record:     *)
(*   hosts, routers, nets   names                                          *)
(*   wires                  node -> the networks it is on, in the order of *)
(*                          the definition                                 *)
(*   open                   networks a trainee may use                     *)
(*   hidden, winrm, windows, gui, vpn, tcp, icmp   subsets of the nodes    *)
(*   groups                 group name -> its nodes                        *)
(*   uses                   the flavors and images of its nodes            *)
(* and containers are [defs, maps]: container -> what it is made from, and *)
(* <<host, container>> pairs.  The address of a node on a network is the   *)
(* pair of the two.                                                        *)
(***************************************************************************)
EXTENDS Naturals, Sequences, FiniteSets, TLC, SequencesExt

CONSTANTS
    Names,   \* the router names in alphabetical order
    None     \* no containers.yml, no container, no address

ASSUME NamesAssumption == Names \in Seq(Range(Names))

Man == "man"
Wan == "wan"
ManNet == "man-network"
Proxy == "proxy-jump"

(* What the topology instance of the cloud library offers.                  *)
Nodes(t) == t.hosts \cup t.routers \cup {Man}
Links(t, node) == {i \in DOMAIN t.wires[node] : t.wires[node][i] \in t.nets}
On(t, node) == {t.wires[node][i] : i \in Links(t, node)}
FirstOn(t, node) == t.wires[node][Min(Links(t, node))]
Linked(t, net) == {node \in t.hosts \cup t.routers : net \in Range(t.wires[node])}
OutAddress == <<Man, "out">>
OpenLinks(t) ==
    {l \in (t.hosts \cup t.routers) \X t.open : l[2] \in Range(t.wires[l[1]])}
VisibleHosts(t) == t.hosts \ t.hidden

(* What the library's schema sees to when it loads a topology: its parts    *)
(* name each other, no two nodes share a name, and no node has a name of    *)
(* the service's own.                                                       *)
WellFormed(t) ==
    /\ \A node \in t.hosts \cup t.routers : t.wires[node] \in Seq(Range(t.wires[node]))
    /\ t.open \subseteq t.nets /\ t.routers \subseteq Range(Names)
    /\ t.hosts \cap t.routers = {} /\ {Man, Proxy} \cap (t.hosts \cup t.routers) = {}
    /\ t.tcp \cup t.icmp \cup UNION Range(t.groups) \subseteq Nodes(t)
    /\ \A host \in t.hosts, net \in t.nets : <<host, net>> # None

(* Which router serves a network: of those on it, the first by name.        *)
NetworkRouter(t, net) ==
    LET on == {i \in DOMAIN Names : Names[i] \in Linked(t, net) \cap t.routers}
    IN IF on = {} THEN None ELSE Names[Min(on)]
WiredNetworks(t, router) == On(t, router)  \* mutant: every router takes all its networks
RoutedNetworks(t, router) == {net \in On(t, router) : NetworkRouter(t, net) = router}
(* The interfaces that get routing information: MAN's and each router's on  *)
(* the network between them.                                                *)
Interfaces(t, node) ==
    CASE node = Man ->
            {[ip |-> <<Man, Wan>>, gateway |-> None, routes |->
                UNION {{<<net, <<r, Wan>>>> : net \in RoutedNetworks(t, r)} : r \in t.routers}]}
      [] node \in t.routers ->
            {[ip |-> <<node, Wan>>, gateway |-> <<Man, Wan>>, routes |-> {}]}
      [] OTHER -> {}

(* Ansible connects over the management network, to MAN from outside.       *)
ManagementAddress(t, node) == IF node = Man THEN OutAddress ELSE <<node, ManNet>>
Forwards(t, node) == node \in t.routers \cup {Man}

(* Every link to a network of hosts overwrites user_network_ip, network by  *)
(* network: any of the node's addresses there may stay.                     *)
UserIps(t, node) ==
    IF node = Man THEN {} ELSE {<<node, net>> : net \in On(t, node)}

HostEntry(t, node) ==
    [host |-> ManagementAddress(t, node), interfaces |-> Interfaces(t, node),
     forward |-> Forwards(t, node), userIps |-> UserIps(t, node)]

ShortDefaultGroups ==  \* mutant: groups that were added later are missing
    {"hosts", "management", "routers", "ssh_nodes", "winrm_nodes"}
DefaultGroups ==
    {"hosts", "management", "routers", "ssh_nodes", "winrm_nodes", "user_accessible_nodes",
     "hidden_hosts", "docker_hosts", "monitored_hosts_tcp", "monitored_hosts_icmp",
     "windows_hosts", "vpn_entrypoints"}

Mapped(boxes) == IF boxes = None THEN {} ELSE {m[1] : m \in boxes.maps}

(* Groups under their names, as a function; those on the left win.          *)
f ++ g == [name \in DOMAIN f \cup DOMAIN g |-> IF name \in DOMAIN f THEN f[name] ELSE g[name]]
When(there, groups) == IF there THEN groups ELSE << >>

NodeGroups(t) == [hosts |-> t.hosts, management |-> {Man}, routers |-> t.routers]
ProtocolGroups(t) ==
    [winrm_nodes |-> (Nodes(t) \ {Man}) \cap t.winrm,
     ssh_nodes |-> Nodes(t) \ ({Man} \cup t.winrm)]
AccessibleGroup(t) == [user_accessible_nodes |-> {l[1] : l \in OpenLinks(t)}]
HiddenGroup(t) == [hidden_hosts |-> t.hosts \cap t.hidden]
DockerGroup(boxes) == When(boxes # None, [docker_hosts |-> Mapped(boxes)])
MonitoringGroups(t) ==
    When(t.tcp # {}, [monitored_hosts_tcp |-> t.tcp])
    ++ When(t.icmp # {}, [monitored_hosts_icmp |-> t.icmp])
WindowsHosts(t) == Nodes(t) \cap t.windows
WindowsGroup(t) == When(WindowsHosts(t) # {}, [windows_hosts |-> WindowsHosts(t)])
VpnGroup(t) == When(t.vpn # {}, [vpn_entrypoints |-> t.vpn \cap Nodes(t)])

(* What the builders make of the topology, each group under its own name.   *)
BuiltGroups(t, boxes) ==
    NodeGroups(t) ++ ProtocolGroups(t) ++ AccessibleGroup(t) ++ HiddenGroup(t)
    ++ DockerGroup(boxes) ++ MonitoringGroups(t) ++ WindowsGroup(t) ++ VpnGroup(t)

(* The definition's own groups come last and replace a group of their name. *)
Groups(t, boxes) == t.groups ++ BuiltGroups(t, boxes)

(* Building the inventory raises KeyError for a name that is no node, and   *)
(* the container files IndexError for a container that is not defined or    *)
(* GitError for a Dockerfile that is not in the repository.                 *)
UnknownNode(t, boxes) ==
    ~(Mapped(boxes) \cup t.tcp \cup t.icmp \cup UNION Range(t.groups) \subseteq Nodes(t))
FilesBreak(boxes, dockerfiles) ==
    boxes # None /\
        \E m \in boxes.maps :
            \/ m[2] \notin DOMAIN boxes.defs
            \/ boxes.defs[m[2]] = "file" /\ m[2] \notin dockerfiles
StageBreaks(t, boxes, dockerfiles) ==
    UnknownNode(t, boxes) \/ FilesBreak(boxes, dockerfiles)
=============================================================================

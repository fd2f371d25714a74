--------------------------- MODULE SandboxAccess ---------------------------
(***************************************************************************)
(* Who reaches a node of a sandbox, and at which address: the SSH          *)
(* configurations, the access data of one node, and the topology shown to  *)
(* a trainee, as functions of the topology and the containers.             *)
(***************************************************************************)
EXTENDS Inventory

(* A Host entry.  Its alias is <<node>>, or <<host, container>>.            *)
Entry(alias, address, user, jump) ==
    [alias |-> alias, address |-> address, user |-> user, jump |-> jump]
ProxyEntry(user) == Entry(<<Proxy>>, <<Proxy, "out">>, user, None)

UserConfig(t, boxes) ==
    {ProxyEntry("stack"), Entry(<<Man>>, OutAddress, "user", Proxy)}
    \cup {Entry(<<l[1]>>, l, "user", Man) : l \in OpenLinks(t)}
    \cup (IF boxes = None THEN {}
          ELSE {Entry(m, <<"localhost">>, "root", m[1]) : m \in boxes.maps})

(* Organisers and Ansible reach every node over the management network.     *)
MgmtConfig(t, user) ==
    {ProxyEntry(user), Entry(<<Man>>, OutAddress, "mgmt", Proxy)}
    \cup {Entry(<<n>>, <<n, ManNet>>, "mgmt", Man) : n \in t.hosts \cup t.routers}
AnsibleConfig(t) == MgmtConfig(t, "ansible")

(* The access data of a node: the address on its first link, a router's     *)
(* being the one to MAN; refused if that link's network is closed.          *)
OpenSomewhere(t, node) ==  \* mutant: any link will do
    IF node \in t.routers \cup {Man} THEN <<node, Wan>>
    ELSE IF On(t, node) \cap t.open = {} THEN None ELSE <<node, FirstOn(t, node)>>
NodeAddress(t, node) ==
    IF node \in t.routers \cup {Man} THEN <<node, Wan>>
    ELSE IF On(t, node) = {} \/ FirstOn(t, node) \notin t.open THEN None
    ELSE <<node, FirstOn(t, node)>>

Protocols(t, node) ==
    {"ssh"} \cup (IF node \notin t.gui THEN {}
                  ELSE IF node \in t.windows THEN {"rdp"} ELSE {"vnc"})
AccessData(t, node) == [ip |-> NodeAddress(t, node), protocols |-> Protocols(t, node)]

(* The topology shown: routers with their subnets, subnets with the hosts   *)
(* that are not hidden.                                                     *)
SubnetHosts(t, net) ==
    {[name |-> h, ip |-> <<h, net>>, gui |-> h \in t.gui, accessible |-> net \in t.open] :
        h \in Linked(t, net) \cap VisibleHosts(t)}
Subnets(t, router) ==
    {[name |-> net, hosts |-> SubnetHosts(t, net)] : net \in On(t, router)}
ShownTopology(t) ==
    {[name |-> r, ip |-> <<r, Wan>>, subnets |-> Subnets(t, r)] : r \in t.routers}
ShownHosts(t) == UNION {s.hosts : s \in UNION {r.subnets : r \in ShownTopology(t)}}

(* Consoles are offered for the visible hosts and the routers.              *)
ConsoleNodes(t) == VisibleHosts(t) \cup t.routers
=============================================================================

--------------------------- MODULE MCDefinitions ---------------------------
(* An instance of Consoles for TLC: topologies with two routers, a host  *)
(* on two networks, a hidden Windows host, and a branch on which a host is  *)
(* renamed together with the containers on it.                              *)
EXTENDS Consoles

MCNames == <<"edge", "inner">>

Site(desk, wires, open, groups) ==
    [hosts |-> {desk, "server", "spy"}, routers |-> {"edge", "inner"}, nets |-> {"lan", "dmz"},
     wires |-> wires @@ (desk :> <<"lan">> @@ "server" :> <<"dmz", "lan">> @@ "spy" :> <<"dmz">>),
     open |-> open, hidden |-> {"spy"}, winrm |-> {"spy"}, windows |-> {"spy"},
     gui |-> {desk, "spy"}, vpn |-> {"server"}, tcp |-> {"server"}, icmp |-> {},
     groups |-> groups, uses |-> {"small", "linux", "windows"}]
Apart == "edge" :> <<"lan">> @@ "inner" :> <<"dmz">>
Shared == "edge" :> <<"lan">> @@ "inner" :> <<"lan", "dmz">>
MyGroup == "mine" :> {}

Web(host) == [defs |-> "web" :> "file", maps |-> {<<host, "web">>}]
Content(top, boxes, files) == [top |-> top, boxes |-> boxes, files |-> files]

Old == Content(Site("home", Shared, {"lan"}, MyGroup), Web("home"), {"web"})
New == Content(Site("desk", Shared, {"lan"}, MyGroup), Web("desk"), {"web"})
Bare == Content(Site("home", Apart, {"lan", "dmz"}, MyGroup), None, {})
Tiny == Content([hosts |-> {"home"}, routers |-> {"edge"}, nets |-> {"lan", "dmz"},
                 wires |-> "home" :> <<"dmz", "lan">> @@ "edge" :> <<"lan">>,
                 open |-> {"lan"}, hidden |-> {}, winrm |-> {}, windows |-> {}, gui |-> {},
                 vpn |-> {}, tcp |-> {}, icmp |-> {}, groups |-> MyGroup, uses |-> {"large"}],
                None, {})
Ghost == Content(Site("home", Apart, {"dmz"}, MyGroup), Web("ghost"), {"web"})
NoFile == Content(Site("home", Apart, {"dmz"}, MyGroup), Web("home"), {})
Shadow == Content(Site("home", Apart, {"lan"}, "docker_hosts" :> {"spy"}), Web("home"), {"web"})

Unknown == [Bare EXCEPT !.top.uses = {"tiny"}]

MCAvailable == {"small", "large", "linux", "windows"}
MCFirst == {Old, Bare, Tiny, Ghost, NoFile, Shadow, Unknown}
MCConsoleSites == {Tiny}
MCPushes == {<<Old, New>>}
=============================================================================

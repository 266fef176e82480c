----------------------------- MODULE MCPortMatch -----------------------------
(* A small host: eth has the default route, lan has neither a gateway nor  *)
(* a link of usnetd beside it, m1 is a macvtap on eth.                   *)
EXTENDS PortMatch, TLC

CONSTANTS p1, p2

Link(mac, ip, gw, parent) ==
  [mac |-> mac, ip |-> ip, gw |-> gw, parent |-> parent, by |-> None]

MCHostLinks ==
  (<<"eth">> :> Link("m1", "a1", None, None))
  @@ (<<"eth", "usnetd">> :> Link("m1", "a1", "gw", None))
  @@ (<<"lan">> :> Link("m2", "a2", None, None))
  @@ (<<"m1">> :> Link("m1", None, None, <<"eth">>))
MCRouteLink == <<"eth", "usnetd">>

C(api, kind, parent, mac, ipv4) ==
  [api |-> api, kind |-> kind, parent |-> parent, mac |-> mac, ipv4 |-> ipv4]
Route == <<"DiscoverFromRoute">>

(* The devices a process is started with: all kinds.                       *)
DeviceConfs ==
  {C("single", "Raw", Route, "Passthru", "Passthru"),
   C("single", "MacVtapCreate", Route, "Passthru", "Passthru"),
   C("single", "MacVtapCreate", Route, "Random", "Dhcp"),
   C("multi", "MacVtapCreate", <<"eth">>, "m1", "a3"),
   C("single", "MacVtapCreate", <<"lan">>, "m1", "Passthru"),
   C("single", "MacVtap", <<"m1">>, "Passthru", "Passthru"),
   C("single", "MacVtap", <<"m2">>, "Passthru", "Passthru"),
   C("single", "TapCreate", None, "m2", "a3"),
   C("multi", "Tap", <<"a3">>, "Random", "a3"),
   C("single", "Netmap", Route, "Passthru", "a3"),
   C("single", "UsnetUds", <<"lan">>, "Passthru", "Passthru"),
   C("multi", "UsnetNetmap", Route, "Passthru", "Dhcp")}
(* Those with which it calls bind and connect.                             *)
CallConfs ==
  {C("multi", "UsnetUds", Route, "Passthru", "Passthru"),
   C("single", "UsnetUds", Route, "Passthru", "Passthru"),
   C("multi", "UsnetNetmap", Route, "Passthru", "a3"),
   C("multi", "Raw", Route, "Passthru", "Passthru"),
   C("single", "Raw", Route, "Passthru", "Passthru")}
LiveConfs ==
  {C("multi", "UsnetUds", Route, "Passthru", "Passthru"),
   C("single", "UsnetUds", Route, "Passthru", "Passthru")}
MCConfs == DeviceConfs \cup CallConfs

A(ip, port) == [ip |-> ip, port |-> port]
MCSockAddrs ==
  {<<A("unspecified", 1)>>, <<A("own", 0)>>, <<A("loopback", 0)>>,
   <<A("ipv6", 1), A("own", 1), A("unspecified", 2)>>}

LiveSockAddrs == {<<A("own", 0)>>, <<A("own", 1), A("unspecified", 2)>>}

(* Processes that call start from their devices at once; the others make  *)
(* no calls.                                                              *)
MCInit ==
  /\ Init
  /\ \/ \A p \in Procs : conf[p] \in CallConfs
     \/ \A p \in Procs : conf[p] \in DeviceConfs
LiveInit ==
  /\ Init
  /\ conf[p1].api = "multi" /\ conf[p2].api = "single"
MCNext ==
  /\ Next
  /\ calls' # calls => \A p \in Procs : conf[p] \in CallConfs
Symmetry == Permutations(Procs)
MCSpec == MCInit /\ [][MCNext]_vars
LiveSpec == LiveInit /\ [][Next]_vars /\ Fairness
=============================================================================

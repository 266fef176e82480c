------------------------------- MODULE Backend -------------------------------
(***************************************************************************)
(* How a process gets its network device and gives it back:                *)
(* StcpBackend::to_interface (usnetconfig.rs), the helpers it calls        *)
(* (system.rs) and the Drop of StcpBackendInterface (device.rs).           *)
(*                                                                         *)
(* A link name is a sequence of parts, because the code forms new names by *)
(* appending to old ones: <<"eth", "usnetd">> is ethusnetd.  A link has a  *)
(* hardware address, an IPv4 address and a gateway (or None), the link it  *)
(* is stacked on (or None) and, to state the properties, who added it.     *)
(***************************************************************************)
EXTENDS Usnetd

CONSTANT HostLinks          \* the links of the host before any process runs
CONSTANT RouteLink          \* the one the default route goes through
CONSTANT Macs               \* hardware addresses gen_random_mac may return
CONSTANT GroupMacs          \* those of them with the group bit set
CONSTANT Confs              \* the configurations a process may be given

VARIABLE conf               \* conf[p]: StcpBackend, and the API p uses
VARIABLE st                 \* st[p]: how far p has come
VARIABLE links              \* the links of the host
VARIABLE setup              \* setup[p]: the locals of to_interface
VARIABLE iface              \* iface[p]: StcpBackendInterface, or None
VARIABLE ctl                \* processes whose control socket has a path

backendVars == <<conf, st, links, setup, iface, ctl>>

UsnetKinds == {"UsnetUds", "UsnetNetmap"}
CreateKinds == {"MacVtapCreate", "TapCreate"}
TapKinds == {"TapCreate", "Tap"}

NoSetup == [parent |-> None, mac |-> None, ifname |-> None]

BackendInit ==
  /\ UsnetdInit
  /\ conf \in [Procs -> Confs]
  /\ st = [p \in Procs |-> "new"]
  /\ links = HostLinks
  /\ setup = [p \in Procs |-> NoSetup]
  /\ iface = [p \in Procs |-> None]
  /\ ctl = {}

Goto(p, s) == st' = [st EXCEPT ![p] = s]

---------------------------------------------------------------------------
(* What the helpers read from the output of ip and from /sys.  None        *)
(* stands for a panic: the output has not the expected number of words.    *)

Exists(l) == l \in DOMAIN links

(* usnetd's link beside it is not meant.                                   *)
DefaultLink == SelectSeq(RouteLink, LAMBDA part : part # "usnetd")

(* Without a gateway the fifth word of the answer is not a link's name.    *)
get_default_interface ==
  IF Exists(RouteLink) /\ links[RouteLink].gw # None
    THEN DefaultLink
    ELSE None

(* Some gateway, no gateway, or a panic because the link is not there: a  *)
(* link without a gateway is tried again as the one usnetd took over.     *)
get_gateway(l) ==
  LET usnetd == Append(l, "usnetd")
      Ask(i, without) == IF ~Exists(i) THEN "panic"
                         ELSE IF links[i].gw # None THEN "some" ELSE without
  IN IF l[Len(l)] = "usnetd" THEN Ask(l, "none")
     ELSE Ask(l, Ask(usnetd, "none"))

get_ipv4(l) == IF Exists(l) THEN links[l].ip ELSE None
get_macaddr(l) == IF Exists(l) THEN links[l].mac ELSE None
get_macvtap_parent(l) == IF Exists(l) THEN links[l].parent ELSE None

gen_random_mac(mac) == mac \in Macs

---------------------------------------------------------------------------
(* to_interface: the parent link and the hardware address.                 *)

Parent(c) ==
  IF c.kind = "Raw" THEN (IF get_default_interface = None THEN None ELSE RouteLink)
  ELSE IF c.parent = <<"DiscoverFromRoute">> THEN get_default_interface
  ELSE c.parent

(* The macvtap link that is used as it is keeps its address; a tap has no *)
(* parent to copy one from.                                               *)
Mac(c, parent, mac) ==
  IF c.kind = "Raw" \/ c.mac = "Passthru" THEN mac = get_macaddr(parent)
  ELSE IF c.mac = "Random" THEN gen_random_mac(mac)
  ELSE mac = c.mac

IfName(c, parent, mac) ==
  CASE c.kind = "MacVtapCreate" /\ c.mac = "Passthru" -> Append(parent, "pass")
    [] c.kind = "MacVtapCreate" -> <<mac>>
    [] c.kind = "TapCreate" -> <<c.ipv4>>
    [] OTHER -> parent

ChooseMac(p) ==
  /\ st[p] = "new"
  /\ \E mac \in Macs \cup {None} :
       LET c == conf[p]
           parent == Parent(c)
       IN /\ IF parent = None /\ c.kind \notin TapKinds THEN mac = None
             ELSE Mac(c, parent, mac)
          /\ IF mac = None
               THEN Goto(p, "panicked") /\ UNCHANGED setup
               ELSE /\ setup' = [setup EXCEPT ![p] =
                         [parent |-> parent, mac |-> mac,
                          ifname |-> IfName(c, parent, mac)]]
                    /\ Goto(p, "device")
  /\ UNCHANGED <<usnetdVars, conf, links, iface, ctl>>

---------------------------------------------------------------------------
(* to_interface: the device.                                               *)

(* create_macvtap, create_tap: the exit status of every command is        *)
(* ignored, so a link of that name that is already there is used (and     *)
(* create_macvtap gives it the new hardware address); only if there is    *)
(* none afterwards does the start-up fail.  A new link whose address is   *)
(* not set has one from the kernel.  The host's own address on a tap is   *)
(* left out.                                                              *)
CreateLink(p) ==
  /\ st[p] = "device" /\ conf[p].kind \in CreateKinds
  /\ LET s == setup[p]
         macvtap == conf[p].kind = "MacVtapCreate"
         Put(mac, link) == links' = [l \in DOMAIN links \cup {s.ifname} |->
                             IF l = s.ifname THEN [link EXCEPT !.mac = mac] ELSE links[l]]
         new == [mac |-> None, ip |-> None, gw |-> None, by |-> p,
                 parent |-> IF macvtap THEN s.parent ELSE None]
     IN \/ /\ ~Exists(s.ifname)
           /\ macvtap => Exists(s.parent)
           /\ \E mac \in Macs : Put(mac, new)
           /\ Goto(p, "open")
        \/ /\ Exists(s.ifname) /\ macvtap
           /\ Put(s.mac, links[s.ifname])
           /\ Goto(p, "open")
        \/ /\ Goto(p, IF Exists(s.ifname) THEN "open" ELSE "panicked")
           /\ UNCHANGED links
  /\ UNCHANGED <<usnetdVars, conf, setup, iface, ctl>>

(* RawSocket::new, TapInterface::new, new_macvtap, Netmap::new: unwrap.    *)
OpenDevice(p) ==
  /\ st[p] \in {"open", "device"}
  /\ st[p] = "device" => conf[p].kind \notin CreateKinds \cup UsnetKinds
  /\ \/ Exists(setup[p].ifname) /\ Goto(p, "address")
     \/ Goto(p, "panicked")
  /\ UNCHANGED <<usnetdVars, conf, links, setup, iface, ctl>>

(* The control socket is bound to a path and the device is requested; if  *)
(* no daemon is running, that is a panic.                                 *)
RequestDevice(p) ==
  /\ st[p] = "device" /\ conf[p].kind \in UsnetKinds
  /\ ctl' = ctl \cup {p}
  /\ \/ SendTo(p, "RequestDevice", None) /\ Goto(p, "request")
     \/ Goto(p, "panicked") /\ UNCHANGED requests
  /\ UNCHANGED <<answers, registered, table, conf, links, setup, iface>>

(* recvmsg and its assertions; an interrupted call panics.                 *)
ReceiveDevice(p) ==
  /\ st[p] = "request"
  /\ \/ /\ answers[p] # <<>>
        /\ answers' = [answers EXCEPT ![p] = Tail(@)]
        /\ Goto(p, IF Head(answers[p]).type = "fd" THEN "address" ELSE "panicked")
     \/ Goto(p, "panicked") /\ UNCHANGED answers
  /\ UNCHANGED <<requests, registered, table, conf, links, setup, iface, ctl>>

---------------------------------------------------------------------------
(* to_interface: the addresses, once the device is there.                  *)

AddressLink(c, s) ==
  IF c.kind = "MacVtap" THEN get_macvtap_parent(s.ifname) ELSE s.parent

(* The IPv4 address, or None for a panic.                                  *)
Ipv4(c, s) ==
  LET l == AddressLink(c, s) IN
  IF c.kind = "Raw" THEN get_ipv4(l)
  ELSE IF c.ipv4 = "Dhcp" THEN None
  ELSE IF c.ipv4 # "Passthru" THEN c.ipv4
  ELSE IF l = None THEN None
  ELSE IF get_gateway(l) = "panic" THEN None
  ELSE get_ipv4(l)

DestroyMacVtap(c, s) == IF c.kind = "MacVtapCreate" THEN s.ifname ELSE None
DestroyAny(c, s) == s.ifname
Destroy(c, s) == IF c.kind \in CreateKinds THEN s.ifname ELSE None

(* The interface builder refuses an address with the group bit.            *)
Configure(p) ==
  /\ st[p] = "address"
  /\ LET c == conf[p]
         s == setup[p]
         ip == Ipv4(c, s)
     IN IF ip = None \/ s.mac \in GroupMacs
          THEN Goto(p, "panicked") /\ UNCHANGED iface
          ELSE /\ iface' = [iface EXCEPT ![p] =
                    [kind |-> c.kind, mac |-> s.mac, ip |-> ip,
                     destroy |-> Destroy(c, s)]]
               /\ Goto(p, "up")
  /\ UNCHANGED <<usnetdVars, conf, links, setup, ctl>>

---------------------------------------------------------------------------
(* Drop for StcpBackendInterface.                                          *)

control(p) == iface[p] # None /\ iface[p].kind \in UsnetKinds

Without(l) == [k \in DOMAIN links \ {l} |-> links[k]]

(* ip link delete, whose failure is ignored.                               *)
DeleteLink(p) ==
  IF iface[p].destroy = None THEN Goto(p, "dropped") /\ UNCHANGED links
  ELSE \/ links' = Without(iface[p].destroy) /\ Goto(p, "dropped")
       \/ Goto(p, "denied") /\ UNCHANGED links

deleteSilent(p) ==
  /\ ctl' = ctl \ {p}
  /\ answers' = [answers EXCEPT ![p] = <<>>]
  /\ UNCHANGED requests

(* delete: no answer is awaited; the path is removed.                      *)
delete(p) ==
  /\ SendTo(p, "DeleteClient", None)
  /\ answers' = [answers EXCEPT ![p] = <<>>]
  /\ ctl' = ctl \ {p}

DropInterface(p) ==
  /\ DeleteLink(p)
  /\ iface' = [iface EXCEPT ![p] = None]
  /\ IF control(p) THEN delete(p) ELSE UNCHANGED <<requests, answers, ctl>>
  /\ UNCHANGED <<registered, table, conf, setup>>

(* The interface of the multithreaded API is in a static and is never     *)
(* dropped: the process ends without it.                                  *)
LeaveUndropped(p) ==
  /\ iface' = [iface EXCEPT ![p] = None]
  /\ Goto(p, "exited")
  /\ UNCHANGED <<usnetdVars, conf, links, setup, ctl>>

StartUp(p) ==
  \/ ChooseMac(p) \/ CreateLink(p) \/ OpenDevice(p)
  \/ RequestDevice(p) \/ ReceiveDevice(p) \/ Configure(p)
=============================================================================

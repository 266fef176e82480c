-------------------------- MODULE PortMatchEffects --------------------------
(***************************************************************************)
(* The types of PortMatch's state, where a process is in its life and in a *)
(* call, and what the steps do: each action of PortMatch, whatever lines   *)
(* of the code it stands for, has one of the effects below.  The proofs    *)
(* that the actions have these effects (PortMatchTypes) and that the       *)
(* effects keep the invariants (PortMatchProofs) do not need each other.   *)
(***************************************************************************)
EXTENDS PortMatch, Integers

------------------------------------------------------------------------------
(* Types *)

Starting == {"new", "device", "open", "request", "address"}
Stages == Starting \cup {"up", "panicked", "dropped", "denied", "exited"}
Places == {"idle", "bind", "connect", "ports", "query", "lo", "answer"}

Requests ==
  [from : Procs, type : {"RequestDevice", "QueryUsedPorts", "DeleteClient"}, want : {None}]
    \cup [from : Procs, type : {"AddMatch"}, want : Matches]

PortSets == SUBSET [proto : Protos, dst : Ips, port : AnyPort]

Answers == [type : {"fd", "OK", "NO"}]
             \cup [type : {"ports"}, listening : PortSets, connected : PortSets]

Grants == [client : Procs, want : Matches]

Setups == [parent : Parents \cup {None}, mac : Macs \cup {None},
           ifname : LinkNames \cup Parents \cup {None}]

Ops == [call : {"bind", "connect", None}, proto : Protos \cup {None}, todo : Seq(Addrs),
        port : AnyPort, src : Remotes \cup {None}]

Socks == [owner : Procs, want : Matches \cup {None}, lo : LoSockets \cup {None}]

LinkOK(link) ==
  /\ {"mac", "ip", "gw", "parent", "by"} \subseteq DOMAIN link
  /\ link.ip \in Ips \cup {None}

TypeInv ==
  /\ requests \in Seq(Requests) /\ answers \in [Procs -> Seq(Answers)]
  /\ registered \subseteq Procs /\ table \subseteq Grants
  /\ conf \in [Procs -> Confs] /\ st \in [Procs -> Stages]
  /\ \A l \in DOMAIN links : LinkOK(links[l])
  /\ setup \in [Procs -> Setups] /\ iface \in [Procs -> Interfaces \cup {None}]
  /\ ctl \subseteq Procs
  /\ pc \in [Procs -> Places] /\ op \in [Procs -> Ops]
  /\ kernel \subseteq LoSockets /\ socks \subseteq Socks
  /\ interrupts \in [Procs -> Nat]

------------------------------------------------------------------------------
(* Where a process is, and what its call has in hand there. *)

CallOK(p, at, o) ==
  /\ o.call \in {"bind", "connect"} /\ o.proto \in Protos
  /\ conf[p].api = "single" => o.proto = "Tcp"
  /\ o.call = "connect" => o.src \in Remotes /\ o.proto = "Tcp"
  /\ at \in {"bind", "lo"} => o.call = "bind"
  /\ at = "connect" => o.call = "connect"
  /\ at \in {"lo", "answer"} => o.port # 0
  /\ at # "bind" /\ o.call = "bind" => o.todo # <<>>
  /\ at = "answer" /\ o.call = "bind" => LoAddr(p, Head(o.todo)) \in Ips
  /\ at = "answer" /\ o.call = "connect" => conf[p].api = "multi"

ActiveOK(p, at, o) ==
  /\ at \in {"bind", "connect"} => conf[p].api = "multi"
  /\ at \in {"ports", "query", "lo"} => conf[p].api = "single"
  /\ at \in {"query", "answer"} => control(p)
  /\ at # "idle" => CallOK(p, at, o)

PlaceOK(p) ==
  /\ st[p] = "up" <=> iface[p] # None
  /\ iface[p] # None => /\ iface[p].kind = conf[p].kind
                        /\ iface[p].destroy = Destroy(conf[p], setup[p])
  /\ st[p] # "up" => pc[p] = "idle" /\ Owned(p) = {}
  /\ st[p] \in Starting => interrupts[p] = 0
  /\ st[p] \in Starting \ {"new"} =>
       setup[p].mac \in Macs /\ (conf[p].kind \in CreateKinds => setup[p].ifname \in LinkNames)
  /\ ActiveOK(p, pc[p], op[p])

StateInv == TypeInv /\ \A p \in Procs : PlaceOK(p)

(* What the call of p asks usnetd for, and the kernel socket it has bound. *)
CurWant(p, o) == IF o.call = "bind"
                 THEN Want(p, Ip(p, Head(o.todo)), o.proto, o.port, None)
                 ELSE Want(p, iface[p].ip, "Tcp", o.port, o.src)

CurLo(p, o) == KernelSocket(p, o.proto, LoAddr(p, Head(o.todo)), o.port)

------------------------------------------------------------------------------
(* What the steps of a call do to the sockets and to the messages *)

Waiting == {"answer", "query"}

(* The other processes, the daemon and the devices are left alone. *)
CallFrame(p) ==
  /\ UNCHANGED <<registered, table, backendVars>>
  /\ \A q \in Procs \ {p} : /\ pc'[q] = pc[q] /\ op'[q] = op[q]
                            /\ answers'[q] = answers[q] /\ interrupts'[q] = interrupts[q]

GivesUp(p) ==
  /\ kernel' = IF op[p].call = "bind" THEN kernel \ {CurLo(p, op[p])} ELSE kernel
  /\ UNCHANGED socks

Succeeds(p) ==
  /\ socks' = socks \cup
       {Sock(p, CurWant(p, op[p]), IF op[p].call = "bind" THEN CurLo(p, op[p]) ELSE None)}
  /\ UNCHANGED kernel

Quiet(p) ==
  /\ pc[p] \notin Waiting /\ pc'[p] \notin Waiting
  /\ UNCHANGED <<requests, answers, interrupts, kernel, socks>>

Asks(p) ==
  /\ pc[p] \notin Waiting /\ pc'[p] = "answer" /\ control(p)
  /\ SendTo(p, "AddMatch", CurWant(p, op'[p])) /\ CurWant(p, op'[p]) \in Matches
  /\ IF op'[p].call = "bind"
       THEN CurLo(p, op'[p]) \notin kernel /\ kernel' = kernel \cup {CurLo(p, op'[p])}
       ELSE UNCHANGED kernel
  /\ UNCHANGED <<answers, interrupts, socks>>

Queries(p) ==
  /\ pc[p] \notin Waiting /\ pc'[p] = "query" /\ control(p)
  /\ SendTo(p, "QueryUsedPorts", None)
  /\ UNCHANGED <<answers, interrupts, kernel, socks>>

Opens(p) ==
  /\ pc[p] \notin Waiting /\ pc'[p] \notin Waiting
  /\ \E s \in Socks :
       /\ s.owner = p /\ ~Matched(s) /\ socks' = socks \cup {s}
       /\ IF s.lo = None THEN UNCHANGED kernel
          ELSE s.lo \notin kernel /\ s.lo.owner = p /\ kernel' = kernel \cup {s.lo}
  /\ UNCHANGED <<requests, answers, interrupts>>

Hears(p) ==
  /\ pc[p] = "answer" /\ pc'[p] \notin Waiting
  /\ answers[p] # <<>> /\ answers' = [answers EXCEPT ![p] = Tail(@)]
  /\ (Accepted(Head(answers[p])) /\ Succeeds(p)) \/ GivesUp(p)
  /\ UNCHANGED <<requests, interrupts>>

Misses(p) ==
  /\ pc[p] = "answer" /\ pc'[p] \notin Waiting
  /\ interrupts' = [interrupts EXCEPT ![p] = @ + 1]
  /\ GivesUp(p)
  /\ UNCHANGED <<requests, answers>>

HearsPorts(p) ==
  /\ pc[p] = "query" /\ pc'[p] \notin Waiting
  /\ answers[p] # <<>> /\ answers' = [answers EXCEPT ![p] = Tail(@)]
  /\ \/ UNCHANGED socks
     \/ \E s \in Socks : s.owner = p /\ ~Matched(s) /\ s.lo = None /\ socks' = socks \cup {s}
  /\ UNCHANGED <<requests, interrupts, kernel>>

Drops(p) ==
  /\ pc[p] \notin Waiting
  /\ \E s \in Owned(p) : CloseSocks(p, {s})
  /\ UNCHANGED <<requests, answers, interrupts, pc, op>>

CallEffect(p) ==
  /\ CallFrame(p)
  /\ \/ Quiet(p) \/ Asks(p) \/ Queries(p) \/ Opens(p)
     \/ Hears(p) \/ Misses(p) \/ HearsPorts(p) \/ Drops(p)

------------------------------------------------------------------------------
(* What the steps of the start-up do *)

(* The others and all calls are left alone. *)
StartFrame(p) ==
  /\ st[p] \in Starting
  /\ UNCHANGED <<registered, table, conf, callVars>>
  /\ \A q \in Procs \ {p} : /\ st'[q] = st[q] /\ setup'[q] = setup[q] /\ iface'[q] = iface[q]
                            /\ answers'[q] = answers[q] /\ (q \in ctl' <=> q \in ctl)

(* What happened to the links: none is gone, and a new one is p's. *)
Added(p) ==
  /\ DOMAIN links \subseteq DOMAIN links'
  /\ \A l \in DOMAIN links' :
       \/ l \in DOMAIN links /\ links'[l].by = links[l].by
       \/ l = setup[p].ifname /\ links'[l].by = p

ChoosesMac(p) ==
  UNCHANGED <<usnetdVars, links, ctl>> /\ st[p] = "new" /\ st'[p] \in {"device", "panicked"}

CreatesLink(p) ==
  /\ UNCHANGED <<usnetdVars, setup, iface, ctl>> /\ Added(p)
  /\ st[p] = "device" /\ conf[p].kind \in CreateKinds /\ st'[p] \in {"open", "panicked"}

OpensDevice(p) ==
  /\ UNCHANGED <<usnetdVars, links, setup, iface, ctl>> /\ st[p] \in {"open", "device"}
  /\ st'[p] \in {"address", "panicked"} /\ (st'[p] = "address" => Exists(setup[p].ifname))

RequestsDevice(p) ==
  /\ UNCHANGED <<answers, links, setup, iface>>
  /\ st[p] = "device" /\ conf[p].kind \in UsnetKinds /\ ctl' = ctl \cup {p}
  /\ \/ SendTo(p, "RequestDevice", None) /\ st'[p] = "request"
     \/ UNCHANGED requests /\ st'[p] = "panicked"

ReceivesDevice(p) ==
  /\ UNCHANGED <<requests, links, setup, iface, ctl>>
  /\ st[p] = "request" /\ st'[p] \in {"address", "panicked"}
  /\ \/ answers[p] # <<>> /\ answers' = [answers EXCEPT ![p] = Tail(@)]
     \/ UNCHANGED answers /\ st'[p] = "panicked"

Configures(p) ==
  UNCHANGED <<usnetdVars, links, setup, ctl>> /\ st[p] = "address" /\ st'[p] \in {"up", "panicked"}

StartEffect(p) ==
  /\ StartFrame(p)
  /\ \/ ChoosesMac(p) \/ CreatesLink(p) \/ OpensDevice(p)
     \/ RequestsDevice(p) \/ ReceivesDevice(p) \/ Configures(p)

------------------------------------------------------------------------------
(* What the end of a process does *)

(* With the interface go the sockets, but only a Drop gives back the link *)
(* and tells usnetd.                                                      *)
EndFrame(p) ==
  /\ st[p] = "up" /\ UNCHANGED <<registered, table, conf, setup, interrupts>>
  /\ \A q \in Procs \ {p} : /\ st'[q] = st[q] /\ iface'[q] = iface[q] /\ pc'[q] = pc[q]
                            /\ op'[q] = op[q] /\ answers'[q] = answers[q]
                            /\ (q \in ctl' <=> q \in ctl)
  /\ iface'[p] = None /\ pc'[p] = "idle" /\ ctl' \subseteq ctl
  /\ socks' = socks \ Owned(p)
  /\ \/ kernel' = {k \in kernel : k.owner # p}
     \/ pc[p] # "answer" /\ kernel' = kernel \ {s.lo : s \in Owned(p)}
  /\ \/ st'[p] = "exited" /\ UNCHANGED <<requests, answers, links, ctl>>
     \/ /\ DeleteLink(p) /\ st'[p] \in {"dropped", "denied"}
        /\ IF control(p)
             THEN SendTo(p, "DeleteClient", None) /\ answers'[p] = <<>> /\ p \notin ctl'
             ELSE UNCHANGED <<requests, answers, ctl>>

------------------------------------------------------------------------------
(* What usnetd does *)

(* The first request is answered, or a client is forgotten. *)
HandleFrame ==
  /\ requests # <<>> /\ requests' = Tail(requests) /\ Head(requests) \in Requests
  /\ UNCHANGED <<backendVars, callVars>>
  /\ LET m == Head(requests) IN
     \/ /\ m.type \in {"RequestDevice", "QueryUsedPorts"} /\ UNCHANGED table
        /\ \E a \in Answers : a.type # "OK" /\ Answer(m.from, a)
     \/ /\ m.type = "AddMatch" /\ m.want \in Matches
        /\ \E ok \in BOOLEAN :
             /\ Holders(m.want) \ {m.from} # {} => ~ok
             /\ table' = IF ok THEN table \cup {[client |-> m.from, want |-> m.want]} ELSE table
             /\ Answer(m.from, [type |-> IF ok THEN "OK" ELSE "NO"])
     \/ /\ m.type = "DeleteClient" /\ UNCHANGED answers
        /\ table' = {e \in table : e.client # m.from}

(* What a step may do. *)
Effect == HandleFrame \/ \E p \in Procs : StartEffect(p) \/ CallEffect(p) \/ EndFrame(p)
=============================================================================

------------------------------ MODULE PortMatch ------------------------------
(***************************************************************************)
(* How the processes of a host get their ports: bind, bind_udp and the     *)
(* port loop of connect in the multithreaded API (apimultithread.rs), bind *)
(* and connect in the single-threaded one (apisinglethread.rs), and        *)
(* add_port_match (device.rs), from the start-up of each process to its    *)
(* end.                                                                    *)
(*                                                                         *)
(* A listener needs the port twice: as a socket of the kernel, for         *)
(* connections from the host itself, and as a match granted by usnetd, for *)
(* the others.  A call holds the lock of its process from its first try to *)
(* its answer, so a process makes one call at a time.                      *)
(***************************************************************************)
EXTENDS Backend

CONSTANT Ports              \* the ports that are drawn at random
CONSTANT KernelPorts        \* kernel_local_port_range, never drawn by connect
CONSTANT SockAddrs          \* arguments of bind: [ip, port], port 0 for any
CONSTANT Protos             \* IpProtocol: Tcp and Udp
CONSTANT Remotes            \* remote ends to connect to
CONSTANT MaxCalls           \* calls the processes make, all together
CONSTANT MaxInterrupts      \* receives interrupted by a signal, per process

VARIABLE pc                 \* pc[p]: where the call of p is
VARIABLE op                 \* op[p]: its arguments and locals
VARIABLE kernel             \* the bound sockets of the kernel
VARIABLE socks              \* the sockets the calls have returned
VARIABLE calls              \* calls made so far
VARIABLE interrupts         \* interrupts[p]: answers missed so far

callVars == <<pc, op, kernel, socks, calls, interrupts>>
vars == <<usnetdVars, backendVars, callVars>>

Args(call, proto, todo, src) ==
  [call |-> call, proto |-> proto, todo |-> todo, port |-> 0, src |-> src]
NoOp == Args(None, None, <<>>, None)

Init ==
  /\ BackendInit
  /\ pc = [p \in Procs |-> "idle"]
  /\ op = [p \in Procs |-> NoOp]
  /\ kernel = {}
  /\ socks = {}
  /\ calls = 0
  /\ interrupts = [p \in Procs |-> 0]

---------------------------------------------------------------------------
At(p, l) == pc' = [pc EXCEPT ![p] = l]
Return(p) == At(p, "idle") /\ op' = [op EXCEPT ![p] = NoOp]

Begin(p, api, label, o) ==
  /\ st[p] = "up" /\ conf[p].api = api /\ pc[p] = "idle"
  /\ calls < MaxCalls
  /\ calls' = calls + 1
  /\ op' = [op EXCEPT ![p] = o]
  /\ At(p, label)
  /\ UNCHANGED <<usnetdVars, backendVars, kernel, socks, interrupts>>

(* The address bind was given: the interface's own is called "own".        *)
Ip(p, a) == IF a.ip = "own" THEN iface[p].ip ELSE a.ip

(* The kernel binds to its own addresses, each port once.                  *)
HostIps == {"loopback"} \cup ({links[l].ip : l \in DOMAIN links} \ {None})
LoAddr(p, a) == IF a.ip = "unspecified" THEN "loopback" ELSE Ip(p, a)
KernelSocket(p, proto, ip, port) ==
  [owner |-> p, proto |-> proto, ip |-> ip, port |-> port]
KernelFree(proto, ip, port) ==
  /\ ip \in HostIps
  /\ \A k \in kernel : <<k.proto, k.ip, k.port>> # <<proto, ip, port>>

(* A socket that a call has returned: what it is matched by, or None for  *)
(* one that only the kernel serves, and its kernel socket, or None.       *)
Sock(p, want, lo) == [owner |-> p, want |-> want, lo |-> lo]

---------------------------------------------------------------------------
(* add_port_match sends the request and waits; without usnetd every port  *)
(* is granted.                                                            *)
Want(p, ip, proto, port, src) ==
  WantMsg(proto, IF ip = "unspecified" THEN iface[p].ip ELSE ip, port, src)

AskMatch(p, want) ==
  /\ control(p)
  /\ SendTo(p, "AddMatch", want)
  /\ At(p, "answer")

AcceptedAny(a) == a.type \in {"OK", "NO"}
Accepted(a) == a.type = "OK"

TakeAnswerPeeks(p) ==
  /\ pc[p] = "answer" /\ answers[p] # <<>>
  /\ UNCHANGED answers

(* The next datagram is taken as the answer.                               *)
TakeAnswer(p) ==
  /\ pc[p] = "answer" /\ answers[p] # <<>>
  /\ answers' = [answers EXCEPT ![p] = Tail(@)]

(* recv_from returns an error and the answer is still to come.             *)
MissAnswer(p) ==
  /\ pc[p] = "answer" /\ interrupts[p] < MaxInterrupts
  /\ interrupts' = [interrupts EXCEPT ![p] = @ + 1]
  /\ UNCHANGED answers

---------------------------------------------------------------------------
(* StcpNetRef::bind and bind_udp of the multithreaded API.                 *)

CallBind(p) ==
  \E proto \in Protos, addrs \in SockAddrs :
    Begin(p, "multi", "bind", Args("bind", proto, addrs, None))

Drawn(a) == IF a.port = 0 THEN Ports ELSE {a.port}
NextAddrSame(p) == op' = [op EXCEPT ![p].port = 0]
NextAddr(p) == op' = [op EXCEPT ![p].todo = Tail(@), ![p].port = 0]

(* The addresses are used up, or the next one is skipped.                  *)
BindSkip(p) ==
  /\ pc[p] = "bind"
  /\ \/ op[p].todo = <<>> /\ Return(p)
     \/ /\ op[p].todo # <<>> /\ Head(op[p].todo).ip = "ipv6"
        /\ NextAddr(p) /\ UNCHANGED pc
  /\ UNCHANGED <<usnetdVars, backendVars, kernel, socks, calls, interrupts>>

(* One round of the loop over ports.  A round in which the kernel refuses *)
(* a drawn port changes nothing and is repeated.                          *)
BindTry(p) ==
  /\ pc[p] = "bind" /\ op[p].todo # <<>>
  /\ LET a == Head(op[p].todo)
         proto == op[p].proto
     IN /\ a.ip # "ipv6"
        /\ \E port \in Drawn(a) :
             LET lo == KernelSocket(p, proto, LoAddr(p, a), port)
                 want == Want(p, Ip(p, a), proto, port, None)
             IN \/ /\ ~KernelFree(proto, lo.ip, port)
                   /\ IF a.port = 0 THEN UNCHANGED op ELSE NextAddr(p)
                   /\ UNCHANGED <<requests, pc, kernel, socks>>
                \/ /\ KernelFree(proto, lo.ip, port)
                   /\ kernel' = kernel \cup {lo}
                   /\ IF a.ip # "loopback" /\ control(p)
                        THEN /\ AskMatch(p, want)
                             /\ op' = [op EXCEPT ![p].port = port]
                             /\ UNCHANGED socks
                        ELSE /\ socks' = socks \cup
                                  {Sock(p, IF a.ip = "loopback" THEN None ELSE want, lo)}
                             /\ Return(p) /\ UNCHANGED requests
  /\ UNCHANGED <<answers, registered, table, backendVars, calls, interrupts>>

BindGranted(p) ==
  LET a == Head(op[p].todo)
      o == op[p]
  IN /\ socks' = socks \cup
          {Sock(p, Want(p, Ip(p, a), o.proto, o.port, None),
                KernelSocket(p, o.proto, LoAddr(p, a), o.port))}
     /\ Return(p) /\ UNCHANGED kernel

BindRefusedKeepsLo(p) ==
  /\ IF conf[p].api = "multi" THEN NextAddr(p) /\ At(p, "bind") ELSE Return(p)
  /\ UNCHANGED <<socks, kernel>>

(* The kernel's socket is dropped and the next address is tried; the     *)
(* single-threaded bind returns the error.                                *)
BindRefused(p) ==
  LET a == Head(op[p].todo) IN
  /\ kernel' = kernel \ {KernelSocket(p, op[p].proto, LoAddr(p, a), op[p].port)}
  /\ IF conf[p].api = "multi" THEN NextAddr(p) /\ At(p, "bind") ELSE Return(p)
  /\ UNCHANGED socks

BindAnswer(p) ==
  /\ op[p].call = "bind"
  /\ \/ /\ TakeAnswer(p) /\ UNCHANGED interrupts
        /\ IF Accepted(Head(answers[p])) THEN BindGranted(p) ELSE BindRefused(p)
     \/ MissAnswer(p) /\ BindRefused(p)
  /\ UNCHANGED <<requests, registered, table, backendVars, calls>>

---------------------------------------------------------------------------
(* connect_timeout_opt of the multithreaded API: the loop over ports.      *)

CallConnect(p) ==
  \E src \in Remotes :
    Begin(p, "multi", "connect", Args("connect", "Tcp", <<>>, src))

ConnectWant(p, port) == Want(p, iface[p].ip, "Tcp", port, op[p].src)

ConnectTryFirst(p) ==
  /\ pc[p] = "connect"
  /\ LET port == CHOOSE q \in Ports : \A r \in Ports : q <= r IN
       IF control(p)
         THEN /\ AskMatch(p, ConnectWant(p, port))
              /\ op' = [op EXCEPT ![p].port = port] /\ UNCHANGED socks
         ELSE /\ socks' = socks \cup {Sock(p, ConnectWant(p, port), None)}
              /\ Return(p) /\ UNCHANGED requests
  /\ UNCHANGED <<answers, registered, table, backendVars, kernel, calls, interrupts>>

ConnectTry(p) ==
  /\ pc[p] = "connect"
  /\ \E port \in Ports \ KernelPorts :
       IF control(p)
         THEN /\ AskMatch(p, ConnectWant(p, port))
              /\ op' = [op EXCEPT ![p].port = port] /\ UNCHANGED socks
         ELSE /\ socks' = socks \cup {Sock(p, ConnectWant(p, port), None)}
              /\ Return(p) /\ UNCHANGED requests
  /\ UNCHANGED <<answers, registered, table, backendVars, kernel, calls, interrupts>>

ConnectAnswer(p) ==
  /\ op[p].call = "connect"
  /\ \/ /\ TakeAnswer(p) /\ UNCHANGED interrupts
        /\ IF Accepted(Head(answers[p]))
             THEN /\ socks' = socks \cup {Sock(p, ConnectWant(p, op[p].port), None)}
                  /\ Return(p)
             ELSE At(p, "connect") /\ UNCHANGED <<op, socks>>
     \/ MissAnswer(p) /\ At(p, "connect") /\ UNCHANGED <<op, socks>>
  /\ UNCHANGED <<requests, registered, table, backendVars, kernel, calls>>

---------------------------------------------------------------------------
(* bind and connect of the single-threaded API: the ports in use are      *)
(* asked for first, and the port is chosen from that answer.  bind then   *)
(* asks for the match; connect does not.                                  *)

CallSingle(p) ==
  \/ \E addrs \in SockAddrs \ {<<>>} :
       Begin(p, "single", "ports", Args("bind", "Tcp", addrs, None))
  \/ \E src \in Remotes :
       Begin(p, "single", "ports", Args("connect", "Tcp", <<>>, src))

SingleSock(p, port) == Sock(p, ConnectWant(p, port), None)

(* A chosen port is bound by bind and used as it is by connect.            *)
UsePort(p, port) ==
  IF op[p].call = "bind"
    THEN At(p, "lo") /\ op' = [op EXCEPT ![p].port = port] /\ UNCHANGED socks
    ELSE Return(p) /\ socks' = socks \cup {SingleSock(p, port)}

Choices(p) == IF op[p].call = "bind" THEN Drawn(Head(op[p].todo)) ELSE Ports

AskPorts(p) ==
  /\ pc[p] = "ports"
  /\ IF control(p)
       THEN /\ SendTo(p, "QueryUsedPorts", None)
            /\ At(p, "query") /\ UNCHANGED <<op, socks>>
       ELSE (\E port \in Choices(p) : UsePort(p, port)) /\ UNCHANGED requests
  /\ UNCHANGED <<answers, registered, table, backendVars, kernel, calls, interrupts>>

Used(p, used, port) ==
  [proto |-> "Tcp", dst |-> iface[p].ip, port |-> port] \in used

(* is_free_listening_port_for, find_free_connecting_or_listening_port_for  *)
PortsAnswer(p) ==
  /\ pc[p] = "query" /\ answers[p] # <<>>
  /\ Head(answers[p]).type = "ports"
  /\ answers' = [answers EXCEPT ![p] = Tail(@)]
  /\ LET a == Head(answers[p])
         used == IF op[p].call = "bind" THEN a.listening ELSE a.connected
     IN \/ \E port \in Choices(p) : ~Used(p, used, port) /\ UsePort(p, port)
        \/ /\ op[p].call = "bind" /\ Head(op[p].todo).port # 0
           /\ Used(p, used, Head(op[p].todo).port)
           /\ Return(p) /\ UNCHANGED socks
  /\ UNCHANGED <<requests, registered, table, backendVars, kernel, calls, interrupts>>

BindSingle(p) ==
  /\ pc[p] = "lo"
  /\ LET a == Head(op[p].todo)
         lo == KernelSocket(p, "Tcp", LoAddr(p, a), op[p].port)
         want == Want(p, Ip(p, a), "Tcp", op[p].port, None)
     IN IF ~KernelFree("Tcp", lo.ip, lo.port)
          THEN Return(p) /\ UNCHANGED <<requests, kernel, socks>>
          ELSE /\ kernel' = kernel \cup {lo}
               /\ IF a.ip # "loopback" /\ control(p)
                    THEN AskMatch(p, want) /\ UNCHANGED <<op, socks>>
                    ELSE /\ socks' = socks \cup
                              {Sock(p, IF a.ip = "loopback" THEN None ELSE want, lo)}
                         /\ Return(p) /\ UNCHANGED requests
  /\ UNCHANGED <<answers, registered, table, backendVars, calls, interrupts>>

---------------------------------------------------------------------------
(* The end of sockets and of processes.                                    *)

CloseSocks(p, gone) ==
  /\ socks' = socks \ gone
  /\ kernel' = kernel \ {s.lo : s \in gone}

Owned(p) == {s \in socks : s.owner = p}

(* Drop of a listener, a stream or a UdpSocket: the match stays granted.   *)
DropSock(p) ==
  /\ pc[p] = "idle"
  /\ \E s \in Owned(p) : CloseSocks(p, {s})
  /\ UNCHANGED <<usnetdVars, backendVars, pc, op, calls, interrupts>>

(* The last reference to the thread's StcpNet is gone.                     *)
EndSingle(p) ==
  /\ st[p] = "up" /\ conf[p].api = "single" /\ pc[p] = "idle"
  /\ Owned(p) = {}
  /\ DropInterface(p)
  /\ UNCHANGED callVars

(* The answer to a query is none, or none comes: the thread panics and    *)
(* drops what it has.                                                     *)
PanicSingle(p) ==
  /\ pc[p] = "query"
  /\ \/ answers[p] # <<>> /\ Head(answers[p]).type # "ports"
     \/ interrupts[p] < MaxInterrupts
  /\ CloseSocks(p, Owned(p))
  /\ Return(p)
  /\ DropInterface(p)
  /\ UNCHANGED <<calls, interrupts>>

ExitMulti(p) ==
  /\ st[p] = "up" /\ conf[p].api = "multi"
  /\ socks' = socks \ Owned(p)
  /\ kernel' = {k \in kernel : k.owner # p}
  /\ Return(p)
  /\ LeaveUndropped(p)
  /\ UNCHANGED <<calls, interrupts>>

---------------------------------------------------------------------------
Step(p) ==
  \/ BindSkip(p) \/ BindTry(p) \/ BindAnswer(p)
  \/ ConnectTry(p) \/ ConnectAnswer(p)
  \/ AskPorts(p) \/ PortsAnswer(p) \/ BindSingle(p)

Next ==
  \/ UsnetdHandle /\ UNCHANGED <<backendVars, callVars>>
  \/ \E p \in Procs :
       \/ StartUp(p) /\ UNCHANGED callVars
       \/ CallBind(p) \/ CallConnect(p) \/ CallSingle(p)
       \/ Step(p) \/ DropSock(p)
       \/ EndSingle(p) \/ PanicSingle(p) \/ ExitMulti(p)

(* The daemon runs, a call that has begun goes on, and ports are drawn at *)
(* random, so that each is drawn again and again.                         *)
Fairness ==
  /\ WF_vars(UsnetdHandle /\ UNCHANGED <<backendVars, callVars>>)
  /\ \A p \in Procs :
       /\ WF_vars(Step(p))
       /\ SF_vars(BindTry(p))
       /\ \A port \in Ports : SF_vars(ConnectTry(p) /\ op'[p].port = port)

Spec == Init /\ [][Next]_vars
FairSpec == Spec /\ Fairness

---------------------------------------------------------------------------
(* Properties.                                                             *)

Ips == ({"loopback"} \cup {HostLinks[l].ip : l \in DOMAIN HostLinks}
        \cup {c.ipv4 : c \in Confs}) \ {None, "Dhcp", "Passthru"}
Addrs == UNION {{addrs[i] : i \in DOMAIN addrs} : addrs \in SockAddrs}
AnyPort == Ports \cup KernelPorts \cup {a.port : a \in Addrs} \cup {0}
Matches == [proto : Protos, dst : Ips, port : AnyPort \ {0},
            src : Remotes \cup {None}]
LoSockets == [owner : Procs, proto : Protos, ip : Ips, port : AnyPort \ {0}]

(* Links that processes use, and those they create.                        *)
Parents == ({c.parent : c \in Confs} \cup {RouteLink, DefaultLink}) \ {None}
LinkNames == {<<mac>> : mac \in Macs} \cup {<<c.ipv4>> : c \in Confs}
               \cup {Append(parent, "pass") : parent \in Parents}
Interfaces == [kind : {c.kind : c \in Confs}, mac : Macs, ip : Ips,
               destroy : LinkNames \cup {None}]

(* No process, port 0, address or other thing is called None; the host    *)
(* has real addresses and none of its links is a process's.               *)
ASSUME PortAssumption == 0 \notin Ports /\ "Tcp" \in Protos
ASSUME AddrAssumption == \A addrs \in SockAddrs : addrs \in Seq(Addrs)
ASSUME NoneAssumption ==
  /\ None \notin Procs /\ None \notin Remotes /\ None \notin Macs /\ None # "loopback"
  /\ None \notin LinkNames /\ None \notin LoSockets /\ None \notin Interfaces
ASSUME HostAssumption ==
  \A l \in DOMAIN HostLinks :
    /\ {"mac", "ip", "gw", "parent", "by"} \subseteq DOMAIN HostLinks[l]
    /\ HostLinks[l].ip \notin {"Dhcp", "Passthru"} /\ HostLinks[l].by \notin Procs

(* The types of the variables.                                             *)
TypeOK ==
  /\ \A i \in DOMAIN requests :
       requests[i].from \in Procs /\ requests[i].want \in Matches \cup {None}
  /\ registered \subseteq Procs
  /\ \A e \in table : e.client \in Procs /\ e.want \in Matches
  /\ st \in [Procs -> {"new", "device", "open", "request", "address", "up",
                       "panicked", "dropped", "denied", "exited"}]
  /\ \A p \in Procs : st[p] = "up" <=> iface[p] # None
  /\ ctl \subseteq Procs
  /\ pc \in [Procs -> {"idle", "bind", "connect", "ports", "query", "lo", "answer"}]
  /\ \A k \in kernel : k.port \in AnyPort \ {0} /\ k.ip \in Ips
  /\ \A s \in socks : s.want \in Matches \cup {None} /\ s.lo \in kernel \cup {None}

(* A datagram on its way to a process is the answer it waits for or one   *)
(* that it has missed: add_port_match has no other means to tell whose    *)
(* answer it reads (device.rs:122).                                       *)
AnswersMatch ==
  \A p \in Procs : control(p) =>
    Cardinality({i \in DOMAIN requests : requests[i].from = p}) + Len(answers[p])
      = interrupts[p] + IF pc[p] \in {"answer", "query"} THEN 1 ELSE 0

(* What is promised of a socket that bind, bind_udp or the multithreaded  *)
(* connect returned: the single-threaded connect asks for no match.       *)
Matched(s) == /\ s.want # None
              /\ control(s.owner)
              /\ conf[s.owner].api = "single" => s.want.src = None

Ownership == INSTANCE PortOwnership WITH
  Client <- Procs,
  Match <- Matches,
  granted <- {<<e.client, e.want>> : e \in table},
  open <- {<<s.owner, s.want>> : s \in {t \in socks : Matched(t)}},
  sound <- {p \in Procs : interrupts[p] = 0}

(* The processes, the daemon and the messages between them implement the  *)
(* exclusive ownership of ports: a process that has missed no answer has  *)
(* a socket only for a match that usnetd grants to it and to nobody else, *)
(* whatever the calls of the others (apimultithread.rs:309, 427, 532,     *)
(* apisinglethread.rs:222).                                               *)
OwnershipImplemented == Ownership!Spec

(* A listener's kernel socket lives as long as the listener, and one that *)
(* no listener has belongs to a call that is waiting for usnetd: a        *)
(* refused bind gives the port back to the host (apimultithread.rs:341).  *)
(* The variables keep their types.                                         *)
KernelPortsOwned ==
  /\ TypeOK
  /\ \A k \in kernel :
       \/ \E s \in socks : s.lo = k /\ s.owner = k.owner
       \/ pc[k.owner] = "answer" /\ op[k.owner].call = "bind" /\ op[k.owner].port = k.port

(* After the Drop of an interface the link that was added for it and the  *)
(* control path are gone, unless the command that deletes the link was    *)
(* refused (device.rs:260).                                               *)
NothingLeftBehind ==
  \A p \in Procs :
    /\ st[p] = "dropped" => \A l \in DOMAIN links : links[l].by # p
    /\ st[p] \in {"dropped", "denied"} => p \notin ctl

(* The link of a running process is there, and so are those of the host,  *)
(* except if another process was configured to create a link of that name *)
(* and has dropped it: Create takes a link that exists for its own        *)
(* (system.rs:91, device.rs:267).                                         *)
LinksStay ==
  LET Taken(l) == \E q \in Procs :
        /\ st[q] = "dropped" /\ conf[q].kind \in CreateKinds /\ setup[q].ifname = l
  IN /\ \A l \in DOMAIN HostLinks : Exists(l) \/ Taken(l)
     /\ \A p \in Procs :
          st[p] = "up" /\ ~control(p) => Exists(setup[p].ifname) \/ Taken(setup[p].ifname)

(* A bind returns, unless it is asked for any port of an address that is  *)
(* not the host's, for then the loop over random ports never ends         *)
(* (apimultithread.rs:298), or every port of the address is taken.        *)
Hopeless(p) ==
  \E i \in DOMAIN op[p].todo :
    LET a == op[p].todo[i] IN
    /\ a.port = 0 /\ a.ip # "ipv6"
    /\ \A port \in Ports : ~KernelFree(op[p].proto, LoAddr(p, a), port)
BindReturns ==
  \A p \in Procs : pc[p] = "bind" ~> (pc[p] = "idle" \/ Hopeless(p))

(* A connect gets its port, unless every port it may draw is granted to   *)
(* somebody (apimultithread.rs:415).                                      *)
ConnectGetsPort ==
  \A p \in Procs : pc[p] = "connect" ~>
    \/ pc[p] = "idle"
    \/ \A port \in Ports \ KernelPorts : Holders(ConnectWant(p, port)) # {}

(* Once the interface has been dropped, usnetd comes to hold nothing for  *)
(* the process: its ports are free for others (device.rs:293).            *)
PortsComeBack ==
  \A p \in Procs : st[p] = "dropped" ~>
    p \notin registered /\ \A e \in table : e.client # p
=============================================================================

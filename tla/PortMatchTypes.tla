--------------------------- MODULE PortMatchTypes ---------------------------
(***************************************************************************)
(* Processes, usnetd and the kernel, for any number of processes, ports,   *)
(* addresses, configurations, calls and interrupted receives: every action *)
(* of PortMatch keeps the types and the places of the processes, and has   *)
(* one of the effects of PortMatchEffects.                                 *)
(***************************************************************************)
EXTENDS PortMatchEffects, TLAPS

------------------------------------------------------------------------------
(* The types of what the calls put together *)

(* A receive takes the first message, so what is left is another queue. *)
LEMMA TailOK ==
  ASSUME NEW S, NEW s \in Seq(S), s # <<>>
  PROVE  Head(s) \in S /\ Tail(s) \in Seq(S) /\ Tail(s) # s
<1>1. Head(s) \in S /\ Tail(s) \in Seq(S) /\ Len(Tail(s)) # Len(s)
      OBVIOUS
<1> QED BY <1>1

(* What a process has in hand before it starts. *)
LEMMA NothingInHand == NoOp \in Ops /\ NoSetup \in Setups
<1>1. <<>> \in Seq(Addrs) /\ 0 \in AnyPort
      BY DEF AnyPort
<1> QED BY <1>1 DEF NoOp, Args, Ops, NoSetup, Setups

(* A link of the host has an address of the host or none: get_ipv4. *)
LEMMA HostIpsOK == TypeInv => HostIps \subseteq Ips
<1> SUFFICES ASSUME TypeInv, NEW ip \in HostIps PROVE ip \in Ips
    OBVIOUS
<1>1. CASE ip = "loopback"
      BY <1>1, NoneAssumption DEF Ips
<1>2. CASE ip # "loopback"
  <2>1. PICK l \in DOMAIN links : ip = links[l].ip
        BY <1>2 DEF HostIps
  <2>2. ip # None
        BY <1>2 DEF HostIps
  <2> QED BY <2>1, <2>2 DEF TypeInv, LinkOK
<1> QED BY <1>1, <1>2

(* The interface of a running process has an address, and what bind and    *)
(* connect ask for is a match.                                             *)
LEMMA WantOK ==
  ASSUME TypeInv, NEW p \in Procs, iface[p] # None, NEW proto \in Protos,
         NEW port \in AnyPort \ {0}, NEW src \in Remotes \cup {None}, NEW ip,
         ip = "unspecified" \/ ip \in Ips
  PROVE  Want(p, ip, proto, port, src) \in Matches
<1>1. iface[p].ip \in Ips
      BY DEF TypeInv, Interfaces
<1> QED BY <1>1 DEF Want, WantMsg, Matches

(* A port that is drawn, or that the address names, is not port 0. *)
LEMMA DrawnOK ==
  ASSUME NEW a \in Addrs PROVE Drawn(a) \subseteq AnyPort \ {0}
BY PortAssumption DEF Drawn, AnyPort

(* The loopback address stands for the unspecified one in the kernel. *)
LEMMA BindWantOK ==
  ASSUME TypeInv, NEW p \in Procs, iface[p] # None, NEW proto \in Protos,
         NEW port \in AnyPort \ {0}, NEW a, LoAddr(p, a) \in Ips
  PROVE  /\ Want(p, Ip(p, a), proto, port, None) \in Matches
         /\ KernelSocket(p, proto, LoAddr(p, a), port) \in LoSockets
<1>1. Ip(p, a) = "unspecified" \/ Ip(p, a) \in Ips
      BY DEF LoAddr, Ip
<1> QED BY <1>1, WantOK DEF KernelSocket, LoSockets

------------------------------------------------------------------------------
(* Each step of a call has one of these effects and keeps the types. *)

(* A call is made by a process that is up. *)
LEMMA InCall ==
  ASSUME StateInv, NEW p \in Procs, pc[p] # "idle" \/ st[p] = "up"
  PROVE  /\ st[p] = "up" /\ iface[p] # None /\ op[p] \in Ops
         /\ ActiveOK(p, pc[p], op[p]) /\ (pc[p] # "idle" => CallOK(p, pc[p], op[p]))
<1>1. PlaceOK(p) /\ TypeInv
      BY DEF StateInv
<1>2. st[p] = "up" /\ iface[p] # None /\ ActiveOK(p, pc[p], op[p])
      BY <1>1, ZenonT(30) DEF PlaceOK
<1>3. op[p] \in Ops
      BY <1>1 DEF TypeInv
<1> QED BY <1>2, <1>3 DEF ActiveOK

(* What has to be shown for a step of a call. *)
LEMMA CallState ==
  ASSUME StateInv, NEW p \in Procs, st[p] = "up", CallFrame(p),
         requests' \in Seq(Requests), answers' \in [Procs -> Seq(Answers)],
         pc' \in [Procs -> Places], op' \in [Procs -> Ops],
         kernel' \subseteq LoSockets, socks' \subseteq Socks,
         interrupts' \in [Procs -> Nat],
         \A s \in socks' \ socks : s.owner = p,
         ActiveOK(p, pc'[p], op'[p])
  PROVE  StateInv'
<1>1. TypeInv /\ \A q \in Procs : PlaceOK(q)
      BY DEF StateInv
<1>2. UNCHANGED <<registered, table, conf, st, links, setup, iface, ctl>>
      BY DEF CallFrame, backendVars
<1>3. TypeInv'
      BY <1>1, <1>2, ZenonT(30) DEF TypeInv, LinkOK
<1>4. PlaceOK(p)'
  <2>1. (ActiveOK(p, pc[p], op[p]))'
        BY <1>2, ZenonT(30) DEF ActiveOK, CallOK, control, LoAddr, Ip
  <2>2. st'[p] = "up" /\ iface'[p] # None
        BY <1>1, <1>2, ZenonT(30) DEF PlaceOK
  <2>3. (iface[p].kind = conf[p].kind /\ iface[p].destroy = Destroy(conf[p], setup[p]))'
        BY <1>1, <1>2, ZenonT(30) DEF PlaceOK, Destroy
  <2> QED BY <2>1, <2>2, <2>3 DEF PlaceOK, Starting
<1>5. ASSUME NEW q \in Procs \ {p} PROVE PlaceOK(q)'
  <2>1. pc'[q] = pc[q] /\ op'[q] = op[q] /\ interrupts'[q] = interrupts[q]
        BY DEF CallFrame
  <2>2. Owned(q) = {} => Owned(q)' = {}
        BY DEF Owned
  <2>3. (ActiveOK(q, pc[q], op[q]))'
    <3>1. ActiveOK(q, pc'[q], op'[q])
          BY <1>1, <2>1, ZenonT(30) DEF PlaceOK
    <3> QED BY <1>2, <3>1, ZenonT(30) DEF ActiveOK, CallOK, control, LoAddr, Ip
  <2>4. (iface[q] # None => iface[q].kind = conf[q].kind
                            /\ iface[q].destroy = Destroy(conf[q], setup[q]))'
        BY <1>1, <1>2, ZenonT(30) DEF PlaceOK, Destroy
  <2> QED BY <1>1, <1>2, <2>1, <2>2, <2>3, <2>4, ZenonT(30) DEF PlaceOK
<1> QED BY <1>3, <1>4, <1>5 DEF StateInv

(* A call begins: nothing but the caller's place changes. *)
LEMMA BeginStep ==
  ASSUME StateInv, NEW p \in Procs, NEW o \in Ops, NEW api, NEW label \in Places \ Waiting,
         Begin(p, api, label, o), ActiveOK(p, label, o)
  PROVE  StateInv' /\ CallEffect(p)
<1>1. TypeInv
      BY DEF StateInv
<1>2. CallFrame(p)
      BY <1>1 DEF CallFrame, Begin, At, TypeInv, usnetdVars
<1>3. UNCHANGED <<requests, answers, interrupts, kernel, socks>>
      BY DEF Begin, usnetdVars
<1>4. pc' \in [Procs -> Places] /\ op' \in [Procs -> Ops] /\ pc'[p] = label /\ op'[p] = o
      BY <1>1 DEF Begin, At, TypeInv
<1>5. StateInv'
  <2>1. st[p] = "up"
        BY DEF Begin
  <2>2. /\ requests' \in Seq(Requests) /\ answers' \in [Procs -> Seq(Answers)]
        /\ kernel' \subseteq LoSockets /\ socks' \subseteq Socks /\ interrupts' \in [Procs -> Nat]
        BY <1>1, <1>3, Zenon DEF TypeInv
  <2>3. \A s \in socks' \ socks : s.owner = p
        BY <1>3
  <2> QED BY <1>2, <1>4, <2>1, <2>2, <2>3, CallState, ZenonT(30)
<1>6. Quiet(p)
      BY <1>3, <1>4 DEF Quiet, Begin, Waiting
<1> QED BY <1>2, <1>5, <1>6 DEF CallEffect

(* The arguments of bind and connect. *)
LEMMA CallStep ==
  ASSUME StateInv, NEW p \in Procs, CallBind(p) \/ CallConnect(p) \/ CallSingle(p)
  PROVE  StateInv' /\ CallEffect(p)
<1>1. ASSUME NEW proto \in Protos, NEW addrs \in SockAddrs
      PROVE  Args("bind", proto, addrs, None) \in Ops
      BY AddrAssumption DEF Args, Ops, AnyPort
<1>2. ASSUME NEW src \in Remotes
      PROVE  Args("connect", "Tcp", <<>>, src) \in Ops
      BY PortAssumption DEF Args, Ops, AnyPort
<1>3. CASE CallBind(p)
  <2>1. PICK proto \in Protos, addrs \in SockAddrs :
          Begin(p, "multi", "bind", Args("bind", proto, addrs, None))
        BY <1>3 DEF CallBind
  <2>2. ActiveOK(p, "bind", Args("bind", proto, addrs, None))
        BY <2>1 DEF Args, ActiveOK, CallOK, Begin
  <2> QED BY <1>1, <2>1, <2>2, BeginStep DEF Places, Waiting
<1>4. CASE CallConnect(p)
  <2>1. PICK src \in Remotes :
          Begin(p, "multi", "connect", Args("connect", "Tcp", <<>>, src))
        BY <1>4 DEF CallConnect
  <2>2. ActiveOK(p, "connect", Args("connect", "Tcp", <<>>, src))
        BY <2>1, PortAssumption DEF Args, ActiveOK, CallOK, Begin
  <2> QED BY <1>2, <2>1, <2>2, BeginStep DEF Places, Waiting
<1>5. ASSUME NEW addrs \in SockAddrs \ {<<>>},
             Begin(p, "single", "ports", Args("bind", "Tcp", addrs, None))
      PROVE  StateInv' /\ CallEffect(p)
  <2>1. ActiveOK(p, "ports", Args("bind", "Tcp", addrs, None))
        BY <1>5, PortAssumption DEF Args, ActiveOK, CallOK, Begin
  <2> QED BY <1>1, <1>5, <2>1, BeginStep, PortAssumption, ZenonT(30) DEF Places, Waiting
<1>6. ASSUME NEW src \in Remotes,
             Begin(p, "single", "ports", Args("connect", "Tcp", <<>>, src))
      PROVE  StateInv' /\ CallEffect(p)
  <2>1. ActiveOK(p, "ports", Args("connect", "Tcp", <<>>, src))
        BY <1>6, PortAssumption DEF Args, ActiveOK, CallOK, Begin
  <2> QED BY <1>2, <1>6, <2>1, BeginStep, ZenonT(30) DEF Places, Waiting
<1>7. CASE CallSingle(p)
      BY <1>5, <1>6, <1>7 DEF CallSingle
<1> QED BY <1>3, <1>4, <1>7

(* The places and arguments of the others stay; those of the caller are   *)
(* set.                                                                   *)
LEMMA AtOK ==
  ASSUME TypeInv, NEW p \in Procs, NEW l \in Places, At(p, l)
  PROVE  pc' \in [Procs -> Places] /\ pc'[p] = l /\ \A q \in Procs \ {p} : pc'[q] = pc[q]
BY DEF At, TypeInv

(* A call that returns leaves no arguments. *)
LEMMA ReturnOK ==
  ASSUME TypeInv, NEW p \in Procs, Return(p)
  PROVE  /\ pc' \in [Procs -> Places] /\ pc'[p] = "idle" /\ op' \in [Procs -> Ops]
         /\ \A q \in Procs \ {p} : pc'[q] = pc[q] /\ op'[q] = op[q]
<1>1. At(p, "idle") /\ op' = [op EXCEPT ![p] = NoOp]
      BY DEF Return
<1>2. NoOp \in Ops
      BY DEF NoOp, Args, Ops, AnyPort
<1> QED BY <1>1, <1>2, AtOK DEF TypeInv, Places

(* The next address: the rest of the arguments stay. *)
LEMMA NextAddrOK ==
  ASSUME TypeInv, NEW p \in Procs, op[p].todo # <<>>, NextAddr(p)
  PROVE  /\ op' \in [Procs -> Ops] /\ \A q \in Procs \ {p} : op'[q] = op[q]
         /\ op'[p].call = op[p].call /\ op'[p].proto = op[p].proto /\ op'[p].src = op[p].src
<1>1. op \in [Procs -> Ops] /\ op[p] \in Ops
      BY DEF TypeInv
<1>2. Tail(op[p].todo) \in Seq(Addrs) /\ 0 \in AnyPort
      BY <1>1 DEF Ops, AnyPort
<1>3. op' = [op EXCEPT ![p] = [[op[p] EXCEPT !.todo = Tail(op[p].todo)] EXCEPT !.port = 0]]
      BY <1>1, ZenonT(30) DEF NextAddr, Ops
<1>4. [[op[p] EXCEPT !.todo = Tail(op[p].todo)] EXCEPT !.port = 0] \in Ops
      BY <1>1, <1>2, ZenonT(30) DEF Ops
<1>5. op'[p] = [[op[p] EXCEPT !.todo = Tail(op[p].todo)] EXCEPT !.port = 0]
      BY <1>1, <1>3
<1> QED BY <1>1, <1>3, <1>4, <1>5 DEF Ops

(* A port is chosen: the rest of the arguments stay. *)
LEMMA PortOK ==
  ASSUME TypeInv, NEW p \in Procs, NEW port \in AnyPort, op' = [op EXCEPT ![p].port = port]
  PROVE  /\ op' \in [Procs -> Ops] /\ \A q \in Procs \ {p} : op'[q] = op[q]
         /\ op'[p] = [op[p] EXCEPT !.port = port] /\ op'[p].port = port
         /\ op'[p].call = op[p].call /\ op'[p].proto = op[p].proto
         /\ op'[p].src = op[p].src /\ op'[p].todo = op[p].todo
<1>1. op \in [Procs -> Ops] /\ op[p] \in Ops
      BY DEF TypeInv
<1>2. op'[p] = [op[p] EXCEPT !.port = port]
      BY <1>1
<1>3. [op[p] EXCEPT !.port = port] \in Ops
      BY <1>1, ZenonT(30) DEF Ops
<1> QED BY <1>1, <1>2, <1>3 DEF Ops

(* A request is one that usnetd understands. *)
LEMMA SendOK ==
  ASSUME TypeInv, NEW p \in Procs, NEW type, NEW want,
         SendTo(p, type, want),
         \/ type = "AddMatch" /\ want \in Matches
         \/ type \in {"RequestDevice", "QueryUsedPorts", "DeleteClient"} /\ want = None
  PROVE  /\ [from |-> p, type |-> type, want |-> want] \in Requests
         /\ requests' = Append(requests, [from |-> p, type |-> type, want |-> want])
         /\ requests' \in Seq(Requests)
<1>1. [from |-> p, type |-> type, want |-> want] \in Requests
      BY DEF Requests
<1> QED BY <1>1 DEF TypeInv, SendTo

(* An answer that is taken leaves the other answers. *)
LEMMA TakeOK ==
  ASSUME TypeInv, NEW p \in Procs, answers[p] # <<>>, answers' = [answers EXCEPT ![p] = Tail(@)]
  PROVE  /\ answers' \in [Procs -> Seq(Answers)] /\ answers'[p] = Tail(answers[p])
         /\ \A q \in Procs \ {p} : answers'[q] = answers[q]
<1>1. answers \in [Procs -> Seq(Answers)] /\ Tail(answers[p]) \in Seq(Answers)
      BY DEF TypeInv
<1> QED BY <1>1

(* The kernel has the address, and the port is free there. *)
LEMMA FreeOK ==
  ASSUME StateInv, NEW p \in Procs, iface[p] # None, NEW proto \in Protos,
         NEW port \in AnyPort \ {0}, NEW a, KernelFree(proto, LoAddr(p, a), port)
  PROVE  /\ LoAddr(p, a) \in Ips
         /\ KernelSocket(p, proto, LoAddr(p, a), port) \in LoSockets
         /\ KernelSocket(p, proto, LoAddr(p, a), port) \notin kernel
         /\ Want(p, Ip(p, a), proto, port, None) \in Matches
<1>1. TypeInv
      BY DEF StateInv
<1>2. LoAddr(p, a) \in Ips
      BY <1>1, HostIpsOK DEF KernelFree
<1>3. KernelSocket(p, proto, LoAddr(p, a), port) \notin kernel
      BY ZenonT(30) DEF KernelFree, KernelSocket
<1> QED BY <1>1, <1>2, <1>3, BindWantOK

(* A socket that a call returns at once: the kernel alone serves it, or    *)
(* the process does not use usnetd.                                        *)
LEMMA OpensOK ==
  ASSUME StateInv, NEW p \in Procs, st[p] = "up", pc[p] \notin Waiting,
         NEW want \in Matches \cup {None}, NEW lo \in LoSockets \cup {None},
         ~Matched(Sock(p, want, lo)),
         lo # None => lo \notin kernel /\ lo.owner = p,
         kernel' = IF lo = None THEN kernel ELSE kernel \cup {lo},
         socks' = socks \cup {Sock(p, want, lo)}, Return(p),
         UNCHANGED <<requests, answers, registered, table, backendVars, interrupts>>
  PROVE  StateInv' /\ CallEffect(p)
<1>1. TypeInv
      BY DEF StateInv
<1>2. Sock(p, want, lo) \in Socks /\ Sock(p, want, lo).owner = p /\ Sock(p, want, lo).lo = lo
      BY DEF Sock, Socks
<1>3. /\ pc' \in [Procs -> Places] /\ pc'[p] = "idle" /\ op' \in [Procs -> Ops]
      /\ \A q \in Procs \ {p} : pc'[q] = pc[q] /\ op'[q] = op[q]
      BY <1>1, ReturnOK, ZenonT(30)
<1>4. CallFrame(p)
      BY <1>3 DEF CallFrame
<1>5. StateInv'
  <2>1. requests' \in Seq(Requests) /\ answers' \in [Procs -> Seq(Answers)]
        /\ interrupts' \in [Procs -> Nat]
        BY <1>1, ZenonT(30) DEF TypeInv
  <2>2. kernel' \subseteq LoSockets /\ socks' \subseteq Socks
        BY <1>1, <1>2, ZenonT(30) DEF TypeInv
  <2>3. \A s \in socks' \ socks : s.owner = p
        BY <1>2, ZenonT(30)
  <2>4. ActiveOK(p, pc'[p], op'[p])
        BY <1>3 DEF ActiveOK
  <2> QED BY <1>3, <1>4, <2>1, <2>2, <2>3, <2>4, CallState, ZenonT(30)
<1>6. Opens(p)
  <2>1. UNCHANGED <<requests, answers, interrupts>>
        OBVIOUS
  <2>2. pc'[p] \notin Waiting
        BY <1>3, ZenonT(30) DEF Waiting
  <2> HIDE DEF Sock
  <2>3. IF Sock(p, want, lo).lo = None THEN UNCHANGED kernel
        ELSE /\ Sock(p, want, lo).lo \notin kernel /\ Sock(p, want, lo).lo.owner = p
             /\ kernel' = kernel \cup {Sock(p, want, lo).lo}
        BY <1>2, ZenonT(30)
  <2> QED BY <1>2, <2>1, <2>2, <2>3, ZenonT(30) DEF Opens
<1> QED BY <1>4, <1>5, <1>6, ZenonT(30) DEF CallEffect

(* A request for a match, with the kernel's socket bound if it is for a    *)
(* listener.                                                               *)
LEMMA AsksOK ==
  ASSUME StateInv, NEW p \in Procs, st[p] = "up", pc[p] \notin Waiting,
         AskMatch(p, CurWant(p, op'[p])), CurWant(p, op'[p]) \in Matches,
         op' \in [Procs -> Ops], \A q \in Procs \ {p} : op'[q] = op[q],
         CallOK(p, "answer", op'[p]),
         op'[p].call = "bind" => /\ CurLo(p, op'[p]) \notin kernel
                                 /\ CurLo(p, op'[p]) \in LoSockets
                                 /\ kernel' = kernel \cup {CurLo(p, op'[p])},
         op'[p].call # "bind" => UNCHANGED kernel,
         UNCHANGED <<answers, registered, table, backendVars, socks, interrupts>>
  PROVE  StateInv' /\ CallEffect(p)
<1>1. TypeInv
      BY ZenonT(30) DEF StateInv
<1>2. control(p) /\ SendTo(p, "AddMatch", CurWant(p, op'[p])) /\ At(p, "answer")
      BY ZenonT(30) DEF AskMatch
<1>3. pc' \in [Procs -> Places] /\ pc'[p] = "answer" /\ \A q \in Procs \ {p} : pc'[q] = pc[q]
      BY <1>1, <1>2, AtOK DEF Places
<1>4. requests' \in Seq(Requests)
      BY <1>1, <1>2, SendOK, ZenonT(30)
<1>5. CallFrame(p)
      BY <1>3 DEF CallFrame
<1>6. StateInv'
  <2>1. answers' \in [Procs -> Seq(Answers)] /\ interrupts' \in [Procs -> Nat]
        /\ socks' \subseteq Socks
        BY <1>1, ZenonT(30) DEF TypeInv
  <2>2. kernel' \subseteq LoSockets
        BY <1>1 DEF TypeInv
  <2>3. ActiveOK(p, pc'[p], op'[p])
        BY <1>2, <1>3, ZenonT(30) DEF ActiveOK
  <2> QED BY <1>3, <1>4, <1>5, <2>1, <2>2, <2>3, CallState, ZenonT(30)
<1>7. Asks(p)
      BY <1>2, <1>3, ZenonT(30) DEF Asks
<1> QED BY <1>5, <1>6, <1>7, ZenonT(30) DEF CallEffect

(* A step that only the caller sees. *)
LEMMA QuietOK ==
  ASSUME StateInv, NEW p \in Procs, st[p] = "up", pc[p] \notin Waiting, pc'[p] \notin Waiting,
         pc' \in [Procs -> Places], op' \in [Procs -> Ops],
         \A q \in Procs \ {p} : pc'[q] = pc[q] /\ op'[q] = op[q],
         ActiveOK(p, pc'[p], op'[p]),
         UNCHANGED <<requests, answers, registered, table, backendVars, kernel, socks, interrupts>>
  PROVE  StateInv' /\ CallEffect(p)
<1>1. TypeInv
      BY ZenonT(30) DEF StateInv
<1>2. CallFrame(p)
      BY DEF CallFrame
<1>3. /\ requests' \in Seq(Requests) /\ answers' \in [Procs -> Seq(Answers)]
      /\ kernel' \subseteq LoSockets /\ socks' \subseteq Socks /\ interrupts' \in [Procs -> Nat]
      BY <1>1, ZenonT(30) DEF TypeInv
<1>4. StateInv'
      BY <1>2, <1>3, CallState, ZenonT(30)
<1>5. Quiet(p)
      BY ZenonT(30) DEF Quiet
<1> QED BY <1>2, <1>4, <1>5, ZenonT(30) DEF CallEffect

(* bind goes on to the next address or is at its end. *)
LEMMA BindSkipStep ==
  ASSUME StateInv, NEW p \in Procs, BindSkip(p) PROVE StateInv' /\ CallEffect(p)
<1>1. TypeInv /\ pc[p] = "bind"
      BY ZenonT(30) DEF StateInv, BindSkip
<1>2. st[p] = "up" /\ ActiveOK(p, "bind", op[p]) /\ CallOK(p, "bind", op[p])
      BY <1>1, InCall
<1>3. UNCHANGED <<requests, answers, registered, table, backendVars, kernel, socks, interrupts>>
      BY ZenonT(30) DEF BindSkip, usnetdVars
<1>4. CASE Return(p)
  <2>1. /\ pc' \in [Procs -> Places] /\ pc'[p] = "idle" /\ op' \in [Procs -> Ops]
        /\ \A q \in Procs \ {p} : pc'[q] = pc[q] /\ op'[q] = op[q]
        BY <1>1, <1>4, ReturnOK
  <2>2. ActiveOK(p, pc'[p], op'[p]) /\ pc[p] \notin Waiting /\ pc'[p] \notin Waiting
        BY <1>1, <2>1, ZenonT(30) DEF ActiveOK, Waiting
  <2> QED BY <1>2, <1>3, <2>1, <2>2, QuietOK, ZenonT(30)
<1>5. CASE op[p].todo # <<>> /\ NextAddr(p) /\ UNCHANGED pc
  <2>1. /\ op' \in [Procs -> Ops] /\ \A q \in Procs \ {p} : op'[q] = op[q]
        /\ op'[p].call = op[p].call /\ op'[p].proto = op[p].proto /\ op'[p].src = op[p].src
        BY <1>1, <1>5, NextAddrOK, ZenonT(30)
  <2>2. ActiveOK(p, "bind", op'[p])
        BY <1>2, <2>1, ZenonT(30) DEF ActiveOK, CallOK
  <2>3. pc' \in [Procs -> Places] /\ pc'[p] = "bind" /\ "bind" \notin Waiting
        BY <1>1, <1>5, ZenonT(30) DEF TypeInv, Waiting
  <2> QED BY <1>1, <1>2, <1>3, <1>5, <2>1, <2>2, <2>3, QuietOK, ZenonT(30)
<1> QED BY <1>4, <1>5, ZenonT(30) DEF BindSkip

(* bind tries a port: the kernel refuses it, or usnetd is asked, or the    *)
(* listener is there.                                                      *)
LEMMA BindTryStep ==
  ASSUME StateInv, NEW p \in Procs, BindTry(p) PROVE StateInv' /\ CallEffect(p)
<1> DEFINE a == Head(op[p].todo)
           proto == op[p].proto
           Lo(port) == KernelSocket(p, proto, LoAddr(p, a), port)
           W(port) == Want(p, Ip(p, a), proto, port, None)
<1>1. TypeInv /\ pc[p] = "bind" /\ op[p].todo # <<>>
      BY DEF StateInv, BindTry
<1>2. /\ st[p] = "up" /\ ActiveOK(p, "bind", op[p]) /\ CallOK(p, "bind", op[p])
      /\ iface[p] # None /\ op[p] \in Ops
      BY <1>1, InCall, ZenonT(30)
<1>3. op[p].call = "bind" /\ proto \in Protos /\ a \in Addrs
      BY <1>1, <1>2 DEF CallOK, Ops
<1>4. UNCHANGED <<answers, registered, table, backendVars, interrupts>>
      BY DEF BindTry
<1>5. PICK port \in Drawn(a) :
        \/ /\ ~KernelFree(proto, Lo(port).ip, port)
           /\ IF a.port = 0 THEN UNCHANGED op ELSE NextAddr(p)
           /\ UNCHANGED <<requests, pc, kernel, socks>>
        \/ /\ KernelFree(proto, Lo(port).ip, port)
           /\ kernel' = kernel \cup {Lo(port)}
           /\ IF a.ip # "loopback" /\ control(p)
                THEN /\ AskMatch(p, W(port))
                     /\ op' = [op EXCEPT ![p].port = port]
                     /\ UNCHANGED socks
                ELSE /\ socks' = socks \cup
                          {Sock(p, IF a.ip = "loopback" THEN None ELSE W(port), Lo(port))}
                     /\ Return(p) /\ UNCHANGED requests
      BY ZenonT(30) DEF BindTry
<1>6. port \in AnyPort \ {0} /\ Lo(port).ip = LoAddr(p, a) /\ Lo(port).owner = p
      BY <1>3, DrawnOK, ZenonT(30) DEF KernelSocket
<1>7. pc[p] \notin Waiting
      BY <1>1, ZenonT(30) DEF Waiting
<1> HIDE DEF a, proto, Lo, W
<1>8. CASE ~KernelFree(proto, Lo(port).ip, port)
  <2>1. /\ op' \in [Procs -> Ops] /\ \A q \in Procs \ {p} : op'[q] = op[q]
        /\ op'[p].call = op[p].call /\ op'[p].proto = op[p].proto /\ op'[p].src = op[p].src
    <3>1. CASE UNCHANGED op
          BY <1>1, <3>1, ZenonT(30) DEF TypeInv
    <3>2. CASE NextAddr(p)
          BY <1>1, <3>2, NextAddrOK, ZenonT(30)
    <3> QED BY <1>5, <1>8, <3>1, <3>2, ZenonT(30)
  <2>2. ActiveOK(p, "bind", op'[p])
        BY <1>2, <2>1 DEF ActiveOK, CallOK
  <2>3. UNCHANGED <<requests, pc, kernel, socks>>
        BY <1>5, <1>8, ZenonT(30)
  <2>4. pc' \in [Procs -> Places] /\ pc'[p] = "bind"
        BY <1>1, <2>3 DEF TypeInv
  <2> QED BY <1>1, <1>2, <1>4, <1>7, <2>1, <2>2, <2>3, <2>4, QuietOK, ZenonT(30)
<1>9. CASE KernelFree(proto, Lo(port).ip, port)
  <2>1. LoAddr(p, a) \in Ips /\ Lo(port) \in LoSockets \ kernel /\ W(port) \in Matches
    <3>1. KernelFree(proto, LoAddr(p, a), port)
          BY <1>6, <1>9
    <3> QED BY <1>2, <1>3, <1>6, <3>1, FreeOK, ZenonT(30) DEF Lo, W
  <2>2. kernel' = kernel \cup {Lo(port)}
        BY <1>5, <1>9, ZenonT(30)
  <2>3. CASE a.ip # "loopback" /\ control(p)
    <3>1. AskMatch(p, W(port)) /\ op' = [op EXCEPT ![p].port = port] /\ UNCHANGED socks
          BY <1>5, <1>9, <2>3
    <3>2. /\ op' \in [Procs -> Ops] /\ \A q \in Procs \ {p} : op'[q] = op[q]
          /\ op'[p].port = port /\ op'[p].call = op[p].call /\ op'[p].proto = op[p].proto
          /\ op'[p].src = op[p].src /\ op'[p].todo = op[p].todo
          BY <1>1, <1>6, <3>1, PortOK, ZenonT(30)
    <3>3. CurWant(p, op'[p]) = W(port) /\ CurLo(p, op'[p]) = Lo(port)
          BY <1>3, <3>2, ZenonT(30) DEF CurWant, CurLo, W, Lo, a, proto
    <3>4. CallOK(p, "answer", op'[p])
          BY <1>1, <1>2, <1>3, <1>6, <2>1, <3>2, ZenonT(30) DEF CallOK, a
    <3> QED BY <1>2, <1>3, <1>4, <1>7, <2>1, <2>2, <3>1, <3>2, <3>3, <3>4, AsksOK, ZenonT(30)
  <2>4. CASE ~(a.ip # "loopback" /\ control(p))
    <3> DEFINE want == IF a.ip = "loopback" THEN None ELSE W(port)
    <3>1. socks' = socks \cup {Sock(p, want, Lo(port))} /\ Return(p) /\ UNCHANGED requests
          BY <1>5, <1>9, <2>4
    <3>2. want \in Matches \cup {None}
          BY <2>1
    <3>3. ~Matched(Sock(p, want, Lo(port)))
          BY <2>4 DEF Matched, Sock
    <3>4. Lo(port) # None
          BY <2>1, NoneAssumption, ZenonT(30)
    <3>5. kernel' = IF Lo(port) = None THEN kernel ELSE kernel \cup {Lo(port)}
          BY <2>2, <3>4
    <3>6. UNCHANGED <<requests, answers, registered, table, backendVars, interrupts>>
          BY <1>4, <3>1, ZenonT(30)
    <3> HIDE DEF want
    <3> QED BY <1>2, <1>6, <1>7, <2>1, <3>1, <3>2, <3>3, <3>5, <3>6, OpensOK, ZenonT(30)
  <2> QED BY <2>3, <2>4, ZenonT(30)
<1> QED BY <1>8, <1>9, ZenonT(30)

(* What a call waits for is a match, and its kernel socket is a socket. *)
LEMMA CurOK ==
  ASSUME StateInv, NEW p \in Procs, pc[p] = "answer"
  PROVE  /\ CurWant(p, op[p]) \in Matches
         /\ op[p].call = "bind" => CurLo(p, op[p]) \in LoSockets
<1>1. TypeInv
      BY DEF StateInv
<1>2. CallOK(p, "answer", op[p]) /\ iface[p] # None /\ op[p] \in Ops
      BY InCall
<1>3. op[p].port \in AnyPort \ {0} /\ op[p].proto \in Protos
      BY <1>2, ZenonT(30) DEF CallOK, Ops
<1>4. CASE op[p].call = "bind"
  <2>1. LoAddr(p, Head(op[p].todo)) \in Ips
        BY <1>2, <1>4 DEF CallOK
  <2> QED BY <1>1, <1>2, <1>3, <1>4, <2>1, BindWantOK, ZenonT(30) DEF CurWant, CurLo
<1>5. CASE op[p].call # "bind"
  <2>1. op[p].src \in Remotes
        BY <1>2, <1>5, ZenonT(30) DEF CallOK
  <2>2. iface[p].ip \in Ips
        BY <1>1, <1>2, ZenonT(30) DEF TypeInv, Interfaces
  <2> QED BY <1>1, <1>2, <1>3, <1>5, <2>1, <2>2, WantOK, PortAssumption, ZenonT(30) DEF CurWant
<1> QED BY <1>4, <1>5

(* A call that waited goes on: it has taken an answer or missed one, and   *)
(* has its socket or not.                                                  *)
LEMMA AnswerOK ==
  ASSUME StateInv, NEW p \in Procs, pc[p] = "answer", pc'[p] \notin Waiting,
         pc' \in [Procs -> Places], op' \in [Procs -> Ops],
         \A q \in Procs \ {p} : pc'[q] = pc[q] /\ op'[q] = op[q],
         ActiveOK(p, pc'[p], op'[p]),
         \/ TakeAnswer(p) /\ UNCHANGED interrupts
         \/ MissAnswer(p),
         \/ TakeAnswer(p) /\ Accepted(Head(answers[p])) /\ Succeeds(p)
         \/ GivesUp(p),
         UNCHANGED <<requests, registered, table, backendVars>>
  PROVE  StateInv' /\ CallEffect(p)
<1>1. TypeInv /\ st[p] = "up"
      BY InCall, ZenonT(30) DEF StateInv
<1>2. /\ answers' \in [Procs -> Seq(Answers)] /\ interrupts' \in [Procs -> Nat]
      /\ \A q \in Procs \ {p} : answers'[q] = answers[q] /\ interrupts'[q] = interrupts[q]
  <2>1. CASE TakeAnswer(p) /\ UNCHANGED interrupts
    <3>1. answers[p] # <<>> /\ answers' = [answers EXCEPT ![p] = Tail(@)] /\ UNCHANGED interrupts
          BY <2>1 DEF TakeAnswer
    <3>2. /\ answers' \in [Procs -> Seq(Answers)]
          /\ \A q \in Procs \ {p} : answers'[q] = answers[q]
          BY <1>1, <3>1, TakeOK, ZenonT(30)
    <3> QED BY <1>1, <3>1, <3>2, ZenonT(30) DEF TypeInv
  <2>2. CASE MissAnswer(p)
        BY <1>1, <2>2 DEF MissAnswer, TypeInv
  <2> QED BY <2>1, <2>2
<1>3. CallFrame(p)
      BY <1>2, ZenonT(30) DEF CallFrame
<1>4. kernel' \subseteq LoSockets /\ socks' \subseteq Socks /\ \A s \in socks' \ socks : s.owner = p
  <2>1. CASE Succeeds(p)
    <3> DEFINE want == CurWant(p, op[p])
               lo == IF op[p].call = "bind" THEN CurLo(p, op[p]) ELSE None
    <3>1. want \in Matches /\ lo \in LoSockets \cup {None}
          BY CurOK, ZenonT(30)
    <3>2. socks' = socks \cup {Sock(p, want, lo)} /\ UNCHANGED kernel
          BY <2>1 DEF Succeeds
    <3> HIDE DEF want, lo
    <3>3. Sock(p, want, lo) \in Socks /\ Sock(p, want, lo).owner = p
          BY <3>1, ZenonT(30) DEF Sock, Socks
    <3> QED BY <1>1, <3>2, <3>3, ZenonT(30) DEF TypeInv
  <2>2. CASE GivesUp(p)
        BY <1>1, <2>2 DEF GivesUp, TypeInv
  <2> QED BY <2>1, <2>2, ZenonT(30)
<1>5. StateInv'
  <2>1. requests' \in Seq(Requests)
        BY <1>1, ZenonT(30) DEF TypeInv
  <2> QED BY <1>1, <1>2, <1>3, <1>4, <2>1, CallState, ZenonT(30)
<1>6. Hears(p) \/ Misses(p)
  <2>1. CASE TakeAnswer(p) /\ UNCHANGED interrupts
    <3>1. answers[p] # <<>> /\ answers' = [answers EXCEPT ![p] = Tail(@)]
          BY <2>1, ZenonT(30) DEF TakeAnswer
    <3> QED BY <2>1, <3>1, ZenonT(30) DEF Hears
  <2>2. CASE MissAnswer(p) /\ ~TakeAnswer(p)
        BY <2>2, ZenonT(30) DEF Misses, MissAnswer
  <2>3. CASE MissAnswer(p) /\ TakeAnswer(p)
    <3>1. answers[p] \in Seq(Answers) /\ answers[p] # <<>> /\ answers'[p] = answers[p]
          BY <1>1, <2>3 DEF TypeInv, MissAnswer, TakeAnswer
    <3>2. answers'[p] = Tail(answers[p])
          BY <1>1, <2>3, TakeOK, ZenonT(30) DEF TakeAnswer
    <3> QED BY <3>1, <3>2, TailOK, ZenonT(30)
  <2> QED BY <2>1, <2>2, <2>3, ZenonT(30)
<1> QED BY <1>3, <1>5, <1>6, ZenonT(30) DEF CallEffect

(* The answer to a bind. *)
LEMMA BindAnswerStep ==
  ASSUME StateInv, NEW p \in Procs, BindAnswer(p) PROVE StateInv' /\ CallEffect(p)
<1>1. TypeInv /\ pc[p] = "answer" /\ op[p].call = "bind"
      BY ZenonT(30) DEF StateInv, BindAnswer, TakeAnswer, MissAnswer
<1>2. /\ st[p] = "up" /\ ActiveOK(p, "answer", op[p]) /\ CallOK(p, "answer", op[p])
      /\ op[p].todo # <<>>
  <2>1. st[p] = "up" /\ ActiveOK(p, "answer", op[p]) /\ CallOK(p, "answer", op[p])
        BY <1>1, InCall, ZenonT(30)
  <2> QED BY <1>1, <2>1, ZenonT(30) DEF CallOK
<1>3. UNCHANGED <<requests, registered, table, backendVars>>
      BY DEF BindAnswer
<1>4. (TakeAnswer(p) /\ UNCHANGED interrupts) \/ MissAnswer(p)
      BY ZenonT(30) DEF BindAnswer
<1>5. (TakeAnswer(p) /\ Accepted(Head(answers[p])) /\ BindGranted(p)) \/ BindRefused(p)
      BY DEF BindAnswer
<1>6. CASE TakeAnswer(p) /\ Accepted(Head(answers[p])) /\ BindGranted(p)
  <2>1. Succeeds(p) /\ Return(p)
        BY <1>1, <1>6, ZenonT(30) DEF BindGranted, Succeeds, CurWant, CurLo
  <2>2. /\ pc' \in [Procs -> Places] /\ pc'[p] = "idle" /\ op' \in [Procs -> Ops]
        /\ \A q \in Procs \ {p} : pc'[q] = pc[q] /\ op'[q] = op[q]
        BY <1>1, <2>1, ReturnOK, ZenonT(30)
  <2>3. ActiveOK(p, pc'[p], op'[p]) /\ pc'[p] \notin Waiting
        BY <2>2 DEF ActiveOK, Waiting
  <2> QED BY <1>1, <1>3, <1>4, <1>6, <2>1, <2>2, <2>3, AnswerOK, ZenonT(30)
<1>7. CASE BindRefused(p)
  <2>1. GivesUp(p)
        BY <1>1, <1>7, ZenonT(30) DEF BindRefused, GivesUp, CurLo
  <2>2. CASE conf[p].api = "multi"
    <3>1. NextAddr(p) /\ At(p, "bind")
          BY <1>7, <2>2 DEF BindRefused
    <3>2. pc' \in [Procs -> Places] /\ pc'[p] = "bind" /\ \A q \in Procs \ {p} : pc'[q] = pc[q]
          BY <1>1, <3>1, AtOK, ZenonT(30) DEF Places
    <3>3. /\ op' \in [Procs -> Ops] /\ \A q \in Procs \ {p} : op'[q] = op[q]
          /\ op'[p].call = op[p].call /\ op'[p].proto = op[p].proto /\ op'[p].src = op[p].src
          BY <1>1, <1>2, <3>1, NextAddrOK
    <3>4. ActiveOK(p, pc'[p], op'[p]) /\ pc'[p] \notin Waiting
          BY <1>1, <1>2, <2>2, <3>2, <3>3, ZenonT(30) DEF ActiveOK, CallOK, Waiting
    <3> QED BY <1>1, <1>3, <1>4, <2>1, <3>2, <3>3, <3>4, AnswerOK, ZenonT(30)
  <2>3. CASE conf[p].api # "multi"
    <3>1. Return(p)
          BY <1>7, <2>3, ZenonT(30) DEF BindRefused
    <3>2. /\ pc' \in [Procs -> Places] /\ pc'[p] = "idle" /\ op' \in [Procs -> Ops]
          /\ \A q \in Procs \ {p} : pc'[q] = pc[q] /\ op'[q] = op[q]
          BY <1>1, <3>1, ReturnOK, ZenonT(30)
    <3>3. ActiveOK(p, pc'[p], op'[p]) /\ pc'[p] \notin Waiting
          BY <3>2 DEF ActiveOK, Waiting
    <3> QED BY <1>1, <1>3, <1>4, <2>1, <3>2, <3>3, AnswerOK, ZenonT(30)
  <2> QED BY <2>2, <2>3, ZenonT(30)
<1> QED BY <1>5, <1>6, <1>7, ZenonT(30)

(* A match that connect asks for or uses. *)
LEMMA ConnectWantOK ==
  ASSUME StateInv, NEW p \in Procs, pc[p] # "idle", op[p].call = "connect",
         NEW port \in AnyPort \ {0}
  PROVE  /\ ConnectWant(p, port) \in Matches /\ ConnectWant(p, port).src # None
<1>1. TypeInv /\ iface[p] # None /\ CallOK(p, pc[p], op[p])
      BY InCall DEF StateInv
<1>2. op[p].src \in Remotes /\ iface[p].ip \in Ips
      BY <1>1, ZenonT(30) DEF CallOK, TypeInv, Interfaces
<1>3. ConnectWant(p, port) \in Matches
      BY <1>1, <1>2, WantOK, PortAssumption, ZenonT(30) DEF ConnectWant
<1>4. ConnectWant(p, port).src = op[p].src
      BY DEF ConnectWant, Want, WantMsg
<1> QED BY <1>2, <1>3, <1>4, NoneAssumption, ZenonT(30)

(* connect of the multithreaded API tries a port. *)
LEMMA ConnectTryStep ==
  ASSUME StateInv, NEW p \in Procs, ConnectTry(p) PROVE StateInv' /\ CallEffect(p)
<1>1. TypeInv /\ pc[p] = "connect" /\ pc[p] \notin Waiting
      BY ZenonT(30) DEF StateInv, ConnectTry, Waiting
<1>2. /\ st[p] = "up" /\ ActiveOK(p, "connect", op[p]) /\ CallOK(p, "connect", op[p])
      /\ op[p].call = "connect"
  <2>1. st[p] = "up" /\ ActiveOK(p, "connect", op[p]) /\ CallOK(p, "connect", op[p])
        BY <1>1, InCall
  <2> QED BY <2>1, ZenonT(30) DEF CallOK
<1>3. UNCHANGED <<answers, registered, table, backendVars, kernel, interrupts>>
      BY DEF ConnectTry
<1>4. PICK port \in Ports \ KernelPorts :
        IF control(p)
          THEN /\ AskMatch(p, ConnectWant(p, port))
               /\ op' = [op EXCEPT ![p].port = port] /\ UNCHANGED socks
          ELSE /\ socks' = socks \cup {Sock(p, ConnectWant(p, port), None)}
               /\ Return(p) /\ UNCHANGED requests
      BY ZenonT(30) DEF ConnectTry
<1>5. port \in AnyPort \ {0}
      BY PortAssumption, ZenonT(30) DEF AnyPort
<1>6. ConnectWant(p, port) \in Matches
      BY <1>1, <1>2, <1>5, ConnectWantOK
<1>7. CASE control(p)
  <2>1. AskMatch(p, ConnectWant(p, port)) /\ op' = [op EXCEPT ![p].port = port] /\ UNCHANGED socks
        BY <1>4, <1>7
  <2>2. /\ op' \in [Procs -> Ops] /\ \A q \in Procs \ {p} : op'[q] = op[q]
        /\ op'[p].port = port /\ op'[p].call = op[p].call /\ op'[p].proto = op[p].proto
        /\ op'[p].src = op[p].src /\ op'[p].todo = op[p].todo
        BY <1>1, <1>5, <2>1, PortOK, ZenonT(30)
  <2>3. CurWant(p, op'[p]) = ConnectWant(p, port)
        BY <1>2, <2>2 DEF CurWant, ConnectWant
  <2>4. CallOK(p, "answer", op'[p])
        BY <1>2, <1>5, <2>2, ZenonT(30) DEF ActiveOK, CallOK
  <2> QED BY <1>1, <1>2, <1>3, <1>6, <2>1, <2>2, <2>3, <2>4, AsksOK, ZenonT(30)
<1>8. CASE ~control(p)
  <2>1. socks' = socks \cup {Sock(p, ConnectWant(p, port), None)} /\ Return(p) /\ UNCHANGED requests
        BY <1>4, <1>8
  <2>2. ~Matched(Sock(p, ConnectWant(p, port), None))
        BY <1>8, ZenonT(30) DEF Matched, Sock
  <2>3. UNCHANGED <<requests, answers, registered, table, backendVars, interrupts>>
        BY <1>3, <2>1, ZenonT(30)
  <2>4. kernel' = IF None = None THEN kernel ELSE kernel \cup {None}
        BY <1>3, ZenonT(30)
  <2> QED BY <1>1, <1>2, <1>6, <2>1, <2>2, <2>3, <2>4, OpensOK, ZenonT(30)
<1> QED BY <1>7, <1>8

(* The answer to a connect. *)
LEMMA ConnectAnswerStep ==
  ASSUME StateInv, NEW p \in Procs, ConnectAnswer(p) PROVE StateInv' /\ CallEffect(p)
<1>1. TypeInv /\ pc[p] = "answer" /\ op[p].call = "connect"
      BY ZenonT(30) DEF StateInv, ConnectAnswer, TakeAnswer, MissAnswer
<1>2. ActiveOK(p, "answer", op[p]) /\ CallOK(p, "answer", op[p])
      BY <1>1, InCall, ZenonT(30)
<1>3. UNCHANGED <<requests, registered, table, backendVars, kernel>>
      BY ZenonT(30) DEF ConnectAnswer
<1>4. (TakeAnswer(p) /\ UNCHANGED interrupts) \/ MissAnswer(p)
      BY ZenonT(30) DEF ConnectAnswer
<1>5. \/ /\ TakeAnswer(p) /\ Accepted(Head(answers[p]))
         /\ socks' = socks \cup {Sock(p, ConnectWant(p, op[p].port), None)} /\ Return(p)
      \/ At(p, "connect") /\ UNCHANGED <<op, socks>>
      BY ZenonT(30) DEF ConnectAnswer
<1>6. CASE /\ TakeAnswer(p) /\ Accepted(Head(answers[p]))
           /\ socks' = socks \cup {Sock(p, ConnectWant(p, op[p].port), None)} /\ Return(p)
  <2>1. Succeeds(p)
        BY <1>1, <1>3, <1>6, ZenonT(30) DEF Succeeds, CurWant, ConnectWant
  <2>2. /\ pc' \in [Procs -> Places] /\ pc'[p] = "idle" /\ op' \in [Procs -> Ops]
        /\ \A q \in Procs \ {p} : pc'[q] = pc[q] /\ op'[q] = op[q]
        BY <1>1, <1>6, ReturnOK, ZenonT(30)
  <2>3. ActiveOK(p, pc'[p], op'[p]) /\ pc'[p] \notin Waiting
        BY <2>2, ZenonT(30) DEF ActiveOK, Waiting
  <2> QED BY <1>1, <1>3, <1>4, <1>6, <2>1, <2>2, <2>3, AnswerOK, ZenonT(30)
<1>7. CASE At(p, "connect") /\ UNCHANGED <<op, socks>>
  <2>1. GivesUp(p)
        BY <1>1, <1>3, <1>7, ZenonT(30) DEF GivesUp
  <2>2. pc' \in [Procs -> Places] /\ pc'[p] = "connect" /\ \A q \in Procs \ {p} : pc'[q] = pc[q]
        BY <1>1, <1>7, AtOK, ZenonT(30) DEF Places
  <2>3. op' \in [Procs -> Ops] /\ \A q \in Procs \ {p} : pc'[q] = pc[q] /\ op'[q] = op[q]
        BY <1>1, <1>7, <2>2 DEF TypeInv
  <2>4. ActiveOK(p, pc'[p], op'[p]) /\ pc'[p] \notin Waiting
    <3>1. ActiveOK(p, "connect", op[p])
          BY <1>1, <1>2 DEF ActiveOK, CallOK
    <3> QED BY <1>7, <2>2, <3>1, ZenonT(30) DEF Waiting
  <2> QED BY <1>1, <1>3, <1>4, <2>1, <2>2, <2>3, <2>4, AnswerOK, ZenonT(30)
<1> QED BY <1>5, <1>6, <1>7, ZenonT(30)

(* The single-threaded API has chosen a port: bind goes on to the kernel,  *)
(* connect has its socket, for which no match was asked.                   *)
LEMMA UsePortOK ==
  ASSUME StateInv, NEW p \in Procs, pc[p] \in {"ports", "query"},
         NEW port \in Choices(p), UsePort(p, port)
  PROVE  /\ pc' \in [Procs -> Places] /\ op' \in [Procs -> Ops] /\ pc'[p] \notin Waiting
         /\ \A q \in Procs \ {p} : pc'[q] = pc[q] /\ op'[q] = op[q]
         /\ ActiveOK(p, pc'[p], op'[p])
         /\ \/ UNCHANGED socks
            \/ \E want \in Matches : /\ ~Matched(Sock(p, want, None)) /\ Return(p)
                                     /\ socks' = socks \cup {Sock(p, want, None)}
<1>1. TypeInv
      BY DEF StateInv
<1>2. /\ ActiveOK(p, pc[p], op[p]) /\ CallOK(p, pc[p], op[p]) /\ op[p] \in Ops
      /\ conf[p].api = "single"
  <2>1. ActiveOK(p, pc[p], op[p]) /\ CallOK(p, pc[p], op[p]) /\ op[p] \in Ops
        BY InCall, ZenonT(30)
  <2> QED BY <2>1, ZenonT(30) DEF ActiveOK
<1>3. port \in AnyPort \ {0}
  <2>1. CASE op[p].call = "bind"
    <3>1. op[p].todo \in Seq(Addrs)
          BY <1>2, ZenonT(30) DEF Ops
    <3>2. op[p].todo # <<>>
          BY <1>2, <2>1, ZenonT(30) DEF CallOK
    <3>3. Head(op[p].todo) \in Addrs
          BY <3>1, <3>2, TailOK, ZenonT(30)
    <3> QED BY <2>1, <3>3, DrawnOK DEF Choices
  <2>2. CASE op[p].call # "bind"
        BY <2>2, PortAssumption DEF Choices, AnyPort
  <2> QED BY <2>1, <2>2, ZenonT(30)
<1>4. CASE op[p].call = "bind"
  <2>1. At(p, "lo") /\ op' = [op EXCEPT ![p].port = port] /\ UNCHANGED socks
        BY <1>4 DEF UsePort
  <2>2. pc' \in [Procs -> Places] /\ pc'[p] = "lo" /\ \A q \in Procs \ {p} : pc'[q] = pc[q]
        BY <1>1, <2>1, AtOK DEF Places
  <2>3. /\ op' \in [Procs -> Ops] /\ \A q \in Procs \ {p} : op'[q] = op[q]
        /\ op'[p].port = port /\ op'[p].call = op[p].call /\ op'[p].proto = op[p].proto
        /\ op'[p].src = op[p].src /\ op'[p].todo = op[p].todo
        BY <1>1, <1>3, <2>1, PortOK, ZenonT(30)
  <2>4. ActiveOK(p, "lo", op'[p]) /\ "lo" \notin Waiting
        BY <1>2, <1>3, <1>4, <2>3, ZenonT(30) DEF ActiveOK, CallOK, Waiting
  <2> QED BY <2>1, <2>2, <2>3, <2>4
<1>5. CASE op[p].call # "bind"
  <2>1. Return(p) /\ socks' = socks \cup {Sock(p, ConnectWant(p, port), None)}
        BY <1>5, ZenonT(30) DEF UsePort, SingleSock
  <2>2. /\ pc' \in [Procs -> Places] /\ pc'[p] = "idle" /\ op' \in [Procs -> Ops]
        /\ \A q \in Procs \ {p} : pc'[q] = pc[q] /\ op'[q] = op[q]
        BY <1>1, <2>1, ReturnOK, ZenonT(30)
  <2>3. ActiveOK(p, pc'[p], op'[p]) /\ pc'[p] \notin Waiting
        BY <2>2, ZenonT(30) DEF ActiveOK, Waiting
  <2>4. ConnectWant(p, port) \in Matches /\ ConnectWant(p, port).src # None
    <3>1. op[p].call = "connect"
          BY <1>2, <1>5, ZenonT(30) DEF CallOK
    <3> QED BY <1>3, <3>1, ConnectWantOK
  <2>5. ~Matched(Sock(p, ConnectWant(p, port), None))
        BY <1>2, <2>4 DEF Matched, Sock
  <2> QED BY <2>1, <2>2, <2>3, <2>4, <2>5, ZenonT(30)
<1> QED BY <1>4, <1>5, ZenonT(30)

(* The ports in use are asked for; without usnetd every port is free. *)
LEMMA AskPortsStep ==
  ASSUME StateInv, NEW p \in Procs, AskPorts(p) PROVE StateInv' /\ CallEffect(p)
<1>1. TypeInv /\ pc[p] = "ports" /\ pc[p] \notin Waiting
      BY DEF StateInv, AskPorts, Waiting
<1>2. st[p] = "up" /\ ActiveOK(p, "ports", op[p]) /\ CallOK(p, "ports", op[p])
      BY <1>1, InCall, ZenonT(30)
<1>3. UNCHANGED <<answers, registered, table, backendVars, kernel, interrupts>>
      BY DEF AskPorts
<1>4. CASE control(p)
  <2>1. SendTo(p, "QueryUsedPorts", None) /\ At(p, "query") /\ UNCHANGED <<op, socks>>
        BY <1>4 DEF AskPorts
  <2>2. requests' \in Seq(Requests)
        BY <1>1, <2>1, SendOK, ZenonT(30)
  <2>3. pc' \in [Procs -> Places] /\ pc'[p] = "query" /\ \A q \in Procs \ {p} : pc'[q] = pc[q]
        BY <1>1, <2>1, AtOK, ZenonT(30) DEF Places
  <2>4. CallFrame(p)
        BY <1>3, <2>1, <2>3, ZenonT(30) DEF CallFrame
  <2>5. ActiveOK(p, pc'[p], op'[p])
    <3>1. ActiveOK(p, "query", op[p])
          BY <1>2, <1>4, ZenonT(30) DEF ActiveOK, CallOK
    <3> QED BY <2>1, <2>3, <3>1
  <2>6. /\ answers' \in [Procs -> Seq(Answers)] /\ op' \in [Procs -> Ops]
        /\ kernel' \subseteq LoSockets /\ socks' \subseteq Socks /\ interrupts' \in [Procs -> Nat]
        BY <1>1, <1>3, <2>1, ZenonT(30) DEF TypeInv
  <2>7. \A s \in socks' \ socks : s.owner = p
        BY <2>1
  <2>8. StateInv'
        BY <1>2, <2>2, <2>3, <2>4, <2>5, <2>6, <2>7, CallState, ZenonT(30)
  <2>9. Queries(p)
        BY <1>1, <1>3, <1>4, <2>1, <2>3 DEF Queries
  <2> QED BY <2>4, <2>8, <2>9, ZenonT(30) DEF CallEffect
<1>5. CASE ~control(p)
  <2>1. PICK port \in Choices(p) : UsePort(p, port)
        BY <1>5 DEF AskPorts
  <2>2. UNCHANGED <<requests, answers, registered, table, backendVars, kernel, interrupts>>
        BY <1>3, <1>5 DEF AskPorts
  <2>3. /\ pc' \in [Procs -> Places] /\ op' \in [Procs -> Ops] /\ pc'[p] \notin Waiting
        /\ \A q \in Procs \ {p} : pc'[q] = pc[q] /\ op'[q] = op[q]
        /\ ActiveOK(p, pc'[p], op'[p])
        /\ \/ UNCHANGED socks
           \/ \E want \in Matches : /\ ~Matched(Sock(p, want, None)) /\ Return(p)
                                    /\ socks' = socks \cup {Sock(p, want, None)}
        BY <1>1, <2>1, UsePortOK, ZenonT(30)
  <2>4. CASE UNCHANGED socks
        BY <1>1, <1>2, <2>2, <2>3, <2>4, QuietOK, ZenonT(30)
  <2>5. ASSUME NEW want \in Matches, ~Matched(Sock(p, want, None)), Return(p),
               socks' = socks \cup {Sock(p, want, None)}
        PROVE  StateInv' /\ CallEffect(p)
    <3>1. kernel' = IF None = None THEN kernel ELSE kernel \cup {None}
          BY <2>2
    <3> QED BY <1>1, <1>2, <2>2, <2>5, <3>1, OpensOK, ZenonT(30)
  <2> QED BY <2>3, <2>4, <2>5, ZenonT(30)
<1> QED BY <1>4, <1>5

(* The ports in use have been heard. *)
LEMMA PortsAnswerStep ==
  ASSUME StateInv, NEW p \in Procs, PortsAnswer(p) PROVE StateInv' /\ CallEffect(p)
<1>1. /\ TypeInv /\ pc[p] = "query" /\ answers[p] # <<>>
      /\ answers' = [answers EXCEPT ![p] = Tail(@)]
      BY ZenonT(30) DEF StateInv, PortsAnswer
<1>2. st[p] = "up"
      BY <1>1, InCall, ZenonT(30)
<1>3. UNCHANGED <<requests, registered, table, backendVars, kernel, interrupts>>
      BY ZenonT(30) DEF PortsAnswer
<1>4. /\ answers' \in [Procs -> Seq(Answers)]
      /\ \A q \in Procs \ {p} : answers'[q] = answers[q]
      BY <1>1, TakeOK, ZenonT(30)
<1>5. \/ \E port \in Choices(p) : UsePort(p, port)
      \/ Return(p) /\ UNCHANGED socks
      BY DEF PortsAnswer
<1>6. /\ pc' \in [Procs -> Places] /\ op' \in [Procs -> Ops] /\ pc'[p] \notin Waiting
      /\ \A q \in Procs \ {p} : pc'[q] = pc[q] /\ op'[q] = op[q]
      /\ ActiveOK(p, pc'[p], op'[p])
      /\ \/ UNCHANGED socks
         \/ \E want \in Matches : /\ ~Matched(Sock(p, want, None))
                                  /\ socks' = socks \cup {Sock(p, want, None)}
  <2>1. ASSUME NEW port \in Choices(p), UsePort(p, port) PROVE <1>6
        BY <1>1, <2>1, UsePortOK, ZenonT(30)
  <2>2. CASE Return(p) /\ UNCHANGED socks
    <3>1. /\ pc' \in [Procs -> Places] /\ pc'[p] = "idle" /\ op' \in [Procs -> Ops]
          /\ \A q \in Procs \ {p} : pc'[q] = pc[q] /\ op'[q] = op[q]
          BY <1>1, <2>2, ReturnOK, ZenonT(30)
    <3>2. ActiveOK(p, pc'[p], op'[p]) /\ pc'[p] \notin Waiting
          BY <3>1 DEF ActiveOK, Waiting
    <3> QED BY <2>2, <3>1, <3>2, ZenonT(30)
  <2> QED BY <1>5, <2>1, <2>2, ZenonT(30)
<1>7. CallFrame(p)
      BY <1>3, <1>4, <1>6, ZenonT(30) DEF CallFrame
<1>8. \/ UNCHANGED socks
      \/ \E s \in Socks : s.owner = p /\ ~Matched(s) /\ s.lo = None /\ socks' = socks \cup {s}
  <2>1. ASSUME NEW want \in Matches, ~Matched(Sock(p, want, None)),
               socks' = socks \cup {Sock(p, want, None)}
        PROVE  <1>8
    <3>1. /\ Sock(p, want, None) \in Socks /\ Sock(p, want, None).owner = p
          /\ Sock(p, want, None).lo = None
          BY DEF Sock, Socks
    <3> QED BY <2>1, <3>1, ZenonT(30)
  <2> QED BY <1>6, <2>1, ZenonT(30)
<1>9. StateInv'
  <2>1. requests' \in Seq(Requests) /\ kernel' \subseteq LoSockets /\ interrupts' \in [Procs -> Nat]
        BY <1>1, <1>3, ZenonT(30) DEF TypeInv
  <2>2. socks' \subseteq Socks /\ \A s \in socks' \ socks : s.owner = p
        BY <1>1, <1>8 DEF TypeInv
  <2> QED BY <1>2, <1>4, <1>6, <1>7, <2>1, <2>2, CallState, ZenonT(30)
<1>10. HearsPorts(p)
       BY <1>1, <1>3, <1>6, <1>8, ZenonT(30) DEF HearsPorts
<1> QED BY <1>7, <1>9, <1>10 DEF CallEffect

(* The single-threaded bind binds the kernel's socket and asks. *)
LEMMA BindSingleStep ==
  ASSUME StateInv, NEW p \in Procs, BindSingle(p) PROVE StateInv' /\ CallEffect(p)
<1> DEFINE a == Head(op[p].todo)
           lo == KernelSocket(p, "Tcp", LoAddr(p, a), op[p].port)
           w == Want(p, Ip(p, a), "Tcp", op[p].port, None)
<1>1. TypeInv /\ pc[p] = "lo" /\ pc[p] \notin Waiting
      BY ZenonT(30) DEF StateInv, BindSingle, Waiting
<1>2. /\ st[p] = "up" /\ iface[p] # None /\ op[p] \in Ops
      /\ ActiveOK(p, "lo", op[p]) /\ CallOK(p, "lo", op[p])
      BY <1>1, InCall, ZenonT(30)
<1>3. op[p].call = "bind" /\ op[p].proto = "Tcp" /\ op[p].port \in AnyPort \ {0}
      BY <1>2, ZenonT(30) DEF ActiveOK, CallOK, Ops
<1>4. UNCHANGED <<answers, registered, table, backendVars, interrupts>>
      BY ZenonT(30) DEF BindSingle
<1>5. lo.ip = LoAddr(p, a) /\ lo.port = op[p].port /\ lo.owner = p
      BY DEF KernelSocket
<1>6. IF ~KernelFree("Tcp", lo.ip, lo.port)
        THEN Return(p) /\ UNCHANGED <<requests, kernel, socks>>
        ELSE /\ kernel' = kernel \cup {lo}
             /\ IF a.ip # "loopback" /\ control(p)
                  THEN AskMatch(p, w) /\ UNCHANGED <<op, socks>>
                  ELSE /\ socks' = socks \cup
                            {Sock(p, IF a.ip = "loopback" THEN None ELSE w, lo)}
                       /\ Return(p) /\ UNCHANGED requests
      BY ZenonT(30) DEF BindSingle
<1>7. w = CurWant(p, op[p]) /\ lo = CurLo(p, op[p])
      BY <1>3, ZenonT(30) DEF CurWant, CurLo
<1>8. CASE ~KernelFree("Tcp", LoAddr(p, a), op[p].port)
  <2>1. Return(p) /\ UNCHANGED <<requests, kernel, socks>>
        BY <1>5, <1>6, <1>8, ZenonT(30)
  <2>2. /\ pc' \in [Procs -> Places] /\ pc'[p] = "idle" /\ op' \in [Procs -> Ops]
        /\ \A q \in Procs \ {p} : pc'[q] = pc[q] /\ op'[q] = op[q]
        BY <1>1, <2>1, ReturnOK, ZenonT(30)
  <2>3. ActiveOK(p, pc'[p], op'[p]) /\ pc'[p] \notin Waiting
        BY <2>2 DEF ActiveOK, Waiting
  <2> QED BY <1>1, <1>2, <1>4, <2>1, <2>2, <2>3, QuietOK, ZenonT(30)
<1>9. CASE KernelFree("Tcp", LoAddr(p, a), op[p].port)
  <2>1. LoAddr(p, a) \in Ips /\ lo \in LoSockets \ kernel /\ w \in Matches
        BY <1>2, <1>3, <1>9, FreeOK, PortAssumption, ZenonT(30)
  <2>2. /\ kernel' = kernel \cup {lo}
        /\ IF a.ip # "loopback" /\ control(p)
             THEN AskMatch(p, w) /\ UNCHANGED <<op, socks>>
             ELSE /\ socks' = socks \cup
                       {Sock(p, IF a.ip = "loopback" THEN None ELSE w, lo)}
                  /\ Return(p) /\ UNCHANGED requests
        BY <1>5, <1>6, <1>9, ZenonT(30)
  <2> HIDE DEF lo, w
  <2>3. CASE a.ip # "loopback" /\ control(p)
    <3>1. AskMatch(p, w) /\ op' = op /\ UNCHANGED socks
          BY <2>2, <2>3
    <3>2. CallOK(p, "answer", op[p])
          BY <1>2, <1>3, <2>1, ZenonT(30) DEF CallOK
    <3>3. op' \in [Procs -> Ops] /\ \A q \in Procs \ {p} : op'[q] = op[q]
          BY <1>1, <3>1, ZenonT(30) DEF TypeInv
    <3> HIDE DEF a
    <3> QED BY <1>1, <1>2, <1>3, <1>4, <1>7, <2>1, <2>2, <3>1, <3>2, <3>3, AsksOK, ZenonT(30)
  <2>4. CASE ~(a.ip # "loopback" /\ control(p))
    <3> DEFINE want == IF a.ip = "loopback" THEN None ELSE w
    <3>1. socks' = socks \cup {Sock(p, want, lo)} /\ Return(p) /\ UNCHANGED requests
          BY <2>2, <2>4
    <3>2. want \in Matches \cup {None}
          BY <2>1
    <3>3. ~Matched(Sock(p, want, lo))
          BY <2>4 DEF Matched, Sock
    <3>4. kernel' = IF lo = None THEN kernel ELSE kernel \cup {lo}
          BY <2>1, <2>2, NoneAssumption, ZenonT(30)
    <3>5. UNCHANGED <<requests, answers, registered, table, backendVars, interrupts>>
          BY <1>4, <3>1
    <3> HIDE DEF want
    <3> QED BY <1>1, <1>2, <1>5, <2>1, <3>1, <3>2, <3>3, <3>4, <3>5, OpensOK, ZenonT(30)
  <2> QED BY <2>3, <2>4
<1> QED BY <1>8, <1>9

(* A socket is closed by its owner. *)
LEMMA DropStep ==
  ASSUME StateInv, NEW p \in Procs, DropSock(p) PROVE StateInv' /\ CallEffect(p)
<1>1. TypeInv /\ PlaceOK(p)
      BY DEF StateInv
<1>2. PICK s \in Owned(p) : CloseSocks(p, {s})
      BY DEF DropSock
<1>3. st[p] = "up"
      BY <1>1, <1>2, ZenonT(30) DEF PlaceOK
<1>4. UNCHANGED <<requests, answers, registered, table, backendVars, pc, op, interrupts>>
      BY ZenonT(30) DEF DropSock, usnetdVars
<1>5. CallFrame(p)
      BY <1>4 DEF CallFrame
<1>6. kernel' \subseteq LoSockets /\ socks' \subseteq Socks /\ socks' \subseteq socks
      BY <1>1, <1>2, ZenonT(30) DEF CloseSocks, TypeInv
<1>7. /\ requests' \in Seq(Requests) /\ answers' \in [Procs -> Seq(Answers)]
      /\ pc' \in [Procs -> Places] /\ op' \in [Procs -> Ops] /\ interrupts' \in [Procs -> Nat]
      BY <1>1, <1>4, ZenonT(30) DEF TypeInv
<1>8. ActiveOK(p, pc'[p], op'[p])
      BY <1>1, <1>4, ZenonT(30) DEF PlaceOK
<1>9. StateInv'
      BY <1>3, <1>5, <1>6, <1>7, <1>8, CallState, ZenonT(30)
<1>10. Drops(p)
  <2>1. pc[p] \notin Waiting
        BY DEF DropSock, Waiting
  <2> QED BY <1>2, <1>4, <2>1, ZenonT(30) DEF Drops
<1> QED BY <1>5, <1>9, <1>10 DEF CallEffect

------------------------------------------------------------------------------
(* The start-up of a process keeps the types. *)

(* A process that is starting has neither interface nor sockets. *)
LEMMA InStart ==
  ASSUME StateInv, NEW p \in Procs, st[p] # "up"
  PROVE  /\ iface[p] = None /\ ~control(p) /\ pc[p] = "idle" /\ Owned(p) = {}
         /\ st[p] \in Starting => interrupts[p] = 0
         /\ st[p] \in Starting \ {"new"} =>
              setup[p].mac \in Macs /\ (conf[p].kind \in CreateKinds => setup[p].ifname \in LinkNames)
<1>1. PlaceOK(p)
      BY DEF StateInv
<1>2. iface[p] = None
      BY <1>1, ZenonT(30) DEF PlaceOK
<1> QED BY <1>1, <1>2, ZenonT(30) DEF PlaceOK, control

(* What has to be shown for a step of the start-up. *)
LEMMA StartState ==
  ASSUME StateInv, NEW p \in Procs, StartFrame(p), TypeInv',
         st'[p] \in Starting \ {"new"} =>
           setup'[p].mac \in Macs /\ (conf[p].kind \in CreateKinds => setup'[p].ifname \in LinkNames),
         st'[p] = "up" <=> iface'[p] # None,
         iface'[p] # None => /\ iface'[p].kind = conf[p].kind
                             /\ iface'[p].destroy = Destroy(conf[p], setup'[p])
  PROVE  StateInv'
<1>1. \A q \in Procs : PlaceOK(q)
      BY ZenonT(30) DEF StateInv
<1>2. UNCHANGED <<conf, pc, op, socks, interrupts>>
      BY ZenonT(30) DEF StartFrame, callVars
<1>3. PlaceOK(p)'
  <2>1. pc[p] = "idle" /\ Owned(p) = {} /\ interrupts[p] = 0
    <3>1. st[p] \in Starting /\ st[p] # "up"
          BY ZenonT(30) DEF StartFrame, Starting
    <3> QED BY <3>1, InStart, ZenonT(30)
  <2>2. (pc[p] = "idle" /\ Owned(p) = {} /\ interrupts[p] = 0)'
        BY <1>2, <2>1, ZenonT(30) DEF Owned
  <2>3. (ActiveOK(p, pc[p], op[p]))'
        BY <2>2, ZenonT(30) DEF ActiveOK
  <2> QED BY <1>2, <2>2, <2>3, ZenonT(30) DEF PlaceOK, Destroy
<1>4. ASSUME NEW q \in Procs \ {p} PROVE PlaceOK(q)'
  <2>1. st'[q] = st[q] /\ setup'[q] = setup[q] /\ iface'[q] = iface[q]
        BY ZenonT(30) DEF StartFrame
  <2>2. Owned(q)' = Owned(q)
        BY <1>2, ZenonT(30) DEF Owned
  <2>3. (ActiveOK(q, pc[q], op[q]))'
    <3>1. ActiveOK(q, pc[q], op[q])
          BY <1>1, ZenonT(30) DEF PlaceOK
    <3> QED BY <1>2, <2>1, <3>1, ZenonT(30) DEF ActiveOK, CallOK, control, LoAddr, Ip
  <2>4. PlaceOK(q)
        BY <1>1, ZenonT(30)
  <2> QED BY <1>2, <2>1, <2>2, <2>3, <2>4, ZenonT(30) DEF PlaceOK, Destroy
<1> QED BY <1>3, <1>4, ZenonT(30) DEF StateInv

(* The configured parent link, or the one of the default route. *)
LEMMA ParentOK ==
  ASSUME TypeInv, NEW p \in Procs PROVE Parent(conf[p]) \in Parents \cup {None}
<1>1. conf[p] \in Confs
      BY DEF TypeInv
<1>2. conf[p].parent \in Parents \cup {None} /\ RouteLink \in Parents \cup {None}
      /\ DefaultLink \in Parents \cup {None}
      BY <1>1 DEF Parents
<1> QED BY <1>2, ZenonT(30) DEF Parent, get_default_interface

(* The parent, the hardware address and the name of the link. *)
LEMMA ChooseMacStep ==
  ASSUME StateInv, NEW p \in Procs, ChooseMac(p), UNCHANGED callVars
  PROVE  StateInv' /\ StartFrame(p) /\ ChoosesMac(p)
<1>1. TypeInv /\ st[p] = "new" /\ UNCHANGED <<usnetdVars, conf, links, iface, ctl>>
      BY ZenonT(30) DEF StateInv, ChooseMac
<1>2. iface[p] = None
      BY <1>1, InStart
<1>3. PICK mac \in Macs \cup {None} :
        /\ Parent(conf[p]) = None /\ conf[p].kind \notin TapKinds => mac = None
        /\ mac = None => Goto(p, "panicked") /\ UNCHANGED setup
        /\ mac # None => /\ setup' = [setup EXCEPT ![p] =
                              [parent |-> Parent(conf[p]), mac |-> mac,
                               ifname |-> IfName(conf[p], Parent(conf[p]), mac)]]
                         /\ Goto(p, "device")
      BY ZenonT(30) DEF ChooseMac
<1>4. /\ st' \in [Procs -> Stages] /\ st'[p] \in {"device", "panicked"}
      /\ \A q \in Procs \ {p} : st'[q] = st[q]
      BY <1>1, <1>3, ZenonT(30) DEF TypeInv, Goto, Stages, Starting
<1>5. ASSUME mac # None
      PROVE  /\ IfName(conf[p], Parent(conf[p]), mac) \in LinkNames \cup Parents \cup {None}
             /\ conf[p].kind \in CreateKinds =>
                  IfName(conf[p], Parent(conf[p]), mac) \in LinkNames
  <2>1. mac \in Macs /\ conf[p] \in Confs /\ Parent(conf[p]) \in Parents \cup {None}
        BY <1>1, <1>5, ParentOK, ZenonT(30) DEF TypeInv
  <2>2. <<mac>> \in LinkNames /\ <<conf[p].ipv4>> \in LinkNames
        BY <2>1 DEF LinkNames
  <2>3. CASE conf[p].kind = "MacVtapCreate"
    <3>1. Parent(conf[p]) # None
          BY <1>3, <1>5, <2>3, ZenonT(30) DEF TapKinds
    <3>2. Append(Parent(conf[p]), "pass") \in LinkNames
          BY <2>1, <3>1, ZenonT(30) DEF LinkNames
    <3> QED BY <2>2, <2>3, <3>2 DEF IfName
  <2>4. CASE conf[p].kind = "TapCreate"
        BY <2>2, <2>4 DEF IfName
  <2>5. CASE conf[p].kind \notin CreateKinds
    <3>1. conf[p].kind # "MacVtapCreate" /\ conf[p].kind # "TapCreate"
          BY <2>5 DEF CreateKinds
    <3>2. IfName(conf[p], Parent(conf[p]), mac) = Parent(conf[p])
          BY <3>1, ZenonT(30) DEF IfName
    <3> QED BY <2>1, <2>5, <3>2, ZenonT(30)
  <2> QED BY <2>3, <2>4, <2>5, ZenonT(30) DEF CreateKinds
<1>6. /\ setup' \in [Procs -> Setups] /\ \A q \in Procs \ {p} : setup'[q] = setup[q]
      /\ st'[p] = "device" => /\ setup'[p].mac \in Macs
                              /\ conf[p].kind \in CreateKinds => setup'[p].ifname \in LinkNames
  <2>1. CASE mac = None
        BY <1>1, <1>3, <2>1, ZenonT(30) DEF TypeInv, Goto
  <2>2. CASE mac # None
    <3> DEFINE s == [parent |-> Parent(conf[p]), mac |-> mac,
                     ifname |-> IfName(conf[p], Parent(conf[p]), mac)]
    <3>1. setup' = [setup EXCEPT ![p] = s]
          BY <1>3, <2>2
    <3>2. s \in Setups /\ s.mac \in Macs /\ (conf[p].kind \in CreateKinds => s.ifname \in LinkNames)
          BY <1>1, <1>5, <2>2, ParentOK, ZenonT(30) DEF Setups
    <3> HIDE DEF s
    <3> QED BY <1>1, <3>1, <3>2, ZenonT(30) DEF TypeInv
  <2> QED BY <2>1, <2>2
<1>7. StartFrame(p)
      BY <1>1, <1>4, <1>6, ZenonT(30) DEF StartFrame, usnetdVars, Starting
<1>8. TypeInv'
  <2>1. UNCHANGED <<requests, answers, registered, table, conf, links, iface, ctl,
                    pc, op, kernel, socks, interrupts>>
        BY <1>1, ZenonT(30) DEF usnetdVars, callVars
  <2> QED BY <1>1, <1>4, <1>6, <2>1, ZenonT(30) DEF TypeInv, LinkOK
<1>9. StateInv'
  <2>1. iface'[p] = None /\ st'[p] # "up"
        BY <1>1, <1>2, <1>4
  <2>2. st'[p] \in Starting \ {"new"} => st'[p] = "device"
        BY <1>4 DEF Starting
  <2> QED BY <1>6, <1>7, <1>8, <2>1, <2>2, StartState, ZenonT(30)
<1> QED BY <1>1, <1>4, <1>7, <1>9 DEF ChoosesMac

(* A step of the start-up that changes neither what p holds nor the        *)
(* messages.                                                               *)
LEMMA GotoOK ==
  ASSUME StateInv, NEW p \in Procs, st[p] \in Starting, NEW s \in Stages \ {"new", "up"}, Goto(p, s),
         s \in Starting => st[p] # "new",
         UNCHANGED <<registered, table, conf, setup, iface, callVars>>,
         requests' \in Seq(Requests), answers' \in [Procs -> Seq(Answers)],
         \A q \in Procs \ {p} : answers'[q] = answers[q] /\ (q \in ctl' <=> q \in ctl),
         ctl' \subseteq Procs, \A l \in DOMAIN links' : LinkOK(links'[l])
  PROVE  StateInv' /\ StartFrame(p) /\ st'[p] = s
<1>1. TypeInv
      BY ZenonT(30) DEF StateInv
<1>2. st' \in [Procs -> Stages] /\ st'[p] = s /\ \A q \in Procs \ {p} : st'[q] = st[q]
      BY <1>1, ZenonT(30) DEF TypeInv, Goto
<1>3. StartFrame(p)
      BY <1>2, ZenonT(30) DEF StartFrame
<1>4. TypeInv'
  <2>1. UNCHANGED <<registered, table, conf, setup, iface, pc, op, kernel, socks, interrupts>>
        BY ZenonT(30) DEF callVars
  <2>2. (\A l \in DOMAIN links : LinkOK(links[l]))'
        BY ZenonT(30) DEF LinkOK
  <2> QED BY <1>1, <1>2, <2>1, <2>2, ZenonT(30) DEF TypeInv
<1>5. st[p] # "up"
      BY ZenonT(30) DEF Starting
<1>6. iface'[p] = None /\ st'[p] # "up"
      BY <1>2, <1>5, InStart, ZenonT(30)
<1>7. st[p] \in Starting \ {"new"} =>
        setup[p].mac \in Macs /\ (conf[p].kind \in CreateKinds => setup[p].ifname \in LinkNames)
      BY <1>5, InStart, ZenonT(30)
<1> QED BY <1>2, <1>3, <1>4, <1>6, <1>7, StartState, ZenonT(30)

(* create_macvtap, create_tap. *)
LEMMA CreateLinkStep ==
  ASSUME StateInv, NEW p \in Procs, CreateLink(p), UNCHANGED callVars
  PROVE  StateInv' /\ StartFrame(p) /\ CreatesLink(p)
<1> DEFINE name == setup[p].ifname
           macvtap == conf[p].kind = "MacVtapCreate"
           Put(mac, link) == links' = [l \in DOMAIN links \cup {name} |->
                               IF l = name THEN [link EXCEPT !.mac = mac] ELSE links[l]]
           new == [mac |-> None, ip |-> None, gw |-> None, by |-> p,
                   parent |-> IF macvtap THEN setup[p].parent ELSE None]
<1>1. /\ TypeInv /\ st[p] = "device" /\ conf[p].kind \in CreateKinds
      /\ UNCHANGED <<usnetdVars, conf, setup, iface, ctl>>
      BY ZenonT(30) DEF StateInv, CreateLink
<1>2. \/ /\ ~Exists(name) /\ \E mac \in Macs : Put(mac, new)
         /\ Goto(p, "open")
      \/ /\ Exists(name) /\ Put(setup[p].mac, links[name]) /\ Goto(p, "open")
      \/ /\ Goto(p, "open") \/ Goto(p, "panicked")
         /\ UNCHANGED links
      BY ZenonT(30) DEF CreateLink
<1>3. PICK s \in {"open", "panicked"} : Goto(p, s)
      BY <1>2
<1>4. ASSUME NEW mac, NEW link, LinkOK(link), Put(mac, link),
             \/ name \in DOMAIN links /\ link.by = links[name].by
             \/ link.by = p
      PROVE  Added(p) /\ \A l \in DOMAIN links' : LinkOK(links'[l])
  <2>1. /\ DOMAIN [link EXCEPT !.mac = mac] = DOMAIN link
        /\ [link EXCEPT !.mac = mac].by = link.by /\ [link EXCEPT !.mac = mac].ip = link.ip
        BY <1>4 DEF LinkOK
  <2>2. /\ DOMAIN links' = DOMAIN links \cup {name} /\ links'[name] = [link EXCEPT !.mac = mac]
        /\ \A l \in DOMAIN links \ {name} : links'[l] = links[l]
        BY <1>4
  <2>3. LinkOK(links'[name])
        BY <1>4, <2>1, <2>2 DEF LinkOK
  <2>4. \A l \in DOMAIN links \ {name} : LinkOK(links[l])
        BY <1>1, ZenonT(30) DEF TypeInv
  <2>5. \A l \in DOMAIN links' : LinkOK(links'[l])
        BY <2>2, <2>3, <2>4, ZenonT(30)
  <2>6. Added(p)
        BY <1>4, <2>1, <2>2, ZenonT(30) DEF Added
  <2> QED BY <2>5, <2>6
<1>5. Added(p) /\ \A l \in DOMAIN links' : LinkOK(links'[l])
  <2>1. ASSUME NEW mac \in Macs, Put(mac, new) PROVE <1>5
    <3>1. LinkOK(new) /\ new.by = p
          BY DEF LinkOK
    <3> HIDE DEF new
    <3> QED BY <1>4, <2>1, <3>1, ZenonT(30)
  <2>2. CASE Exists(name) /\ Put(setup[p].mac, links[name])
    <3>1. LinkOK(links[name]) /\ name \in DOMAIN links
          BY <1>1, <2>2 DEF TypeInv, Exists
    <3> QED BY <1>4, <2>2, <3>1
  <2>3. CASE UNCHANGED links
        BY <1>1, <2>3, ZenonT(30) DEF Added, TypeInv
  <2> QED BY <1>2, <2>1, <2>2, <2>3, ZenonT(30)
<1>6. st[p] \in Starting /\ s \in Stages \ {"new", "up"}
      BY <1>1, ZenonT(30) DEF Starting, Stages
<1>7. /\ requests' \in Seq(Requests) /\ answers' \in [Procs -> Seq(Answers)]
      /\ UNCHANGED <<answers, registered, table, ctl>> /\ ctl' \subseteq Procs
      BY <1>1, ZenonT(30) DEF TypeInv, usnetdVars
<1>8. StateInv' /\ StartFrame(p) /\ st'[p] = s
      BY <1>1, <1>3, <1>5, <1>6, <1>7, GotoOK, ZenonT(30)
<1> QED BY <1>1, <1>5, <1>8, ZenonT(30) DEF CreatesLink

(* RawSocket::new, TapInterface::new, new_macvtap, Netmap::new. *)
LEMMA OpenDeviceStep ==
  ASSUME StateInv, NEW p \in Procs, OpenDevice(p), UNCHANGED callVars
  PROVE  StateInv' /\ StartFrame(p) /\ OpensDevice(p)
<1>1. /\ TypeInv /\ st[p] \in {"open", "device"}
      /\ UNCHANGED <<usnetdVars, conf, links, setup, iface, ctl>>
      BY ZenonT(30) DEF StateInv, OpenDevice
<1>2. PICK s \in {"address", "panicked"} : Goto(p, s) /\ (s = "address" => Exists(setup[p].ifname))
      BY DEF OpenDevice
<1>3. st[p] \in Starting \ {"new"} /\ s \in Stages \ {"new", "up"}
      BY <1>1 DEF Starting, Stages
<1>4. /\ requests' \in Seq(Requests) /\ answers' \in [Procs -> Seq(Answers)]
      /\ UNCHANGED <<answers, registered, table, ctl>> /\ ctl' \subseteq Procs
      /\ \A l \in DOMAIN links' : LinkOK(links'[l])
      BY <1>1, ZenonT(30) DEF TypeInv, usnetdVars
<1>5. StateInv' /\ StartFrame(p) /\ st'[p] = s
      BY <1>1, <1>2, <1>3, <1>4, GotoOK, ZenonT(30)
<1> QED BY <1>1, <1>2, <1>5, ZenonT(30) DEF OpensDevice

(* The device is requested from usnetd. *)
LEMMA RequestDeviceStep ==
  ASSUME StateInv, NEW p \in Procs, RequestDevice(p), UNCHANGED callVars
  PROVE  StateInv' /\ StartFrame(p) /\ RequestsDevice(p)
<1>1. /\ TypeInv /\ st[p] = "device" /\ conf[p].kind \in UsnetKinds /\ ctl' = ctl \cup {p}
      /\ UNCHANGED <<answers, registered, table, conf, links, setup, iface>>
      BY ZenonT(30) DEF StateInv, RequestDevice
<1>2. PICK s \in {"request", "panicked"} :
        /\ Goto(p, s)
        /\ s = "request" => SendTo(p, "RequestDevice", None)
        /\ s = "panicked" => UNCHANGED requests
      BY DEF RequestDevice
<1>3. st[p] \in Starting \ {"new"} /\ s \in Stages \ {"new", "up"}
      BY <1>1 DEF Starting, Stages
<1>4. /\ answers' \in [Procs -> Seq(Answers)]
      /\ \A l \in DOMAIN links' : LinkOK(links'[l])
      BY <1>1, ZenonT(30) DEF TypeInv
<1>5. ctl' \subseteq Procs
      BY <1>1 DEF TypeInv
<1>6. requests' \in Seq(Requests)
  <2>1. CASE s = "request"
        BY <1>1, <1>2, <2>1, SendOK, ZenonT(30)
  <2>2. CASE s = "panicked"
        BY <1>1, <1>2, <2>2, Zenon DEF TypeInv
  <2> QED BY <2>1, <2>2
<1>7. StateInv' /\ StartFrame(p) /\ st'[p] = s
      BY <1>1, <1>2, <1>3, <1>4, <1>5, <1>6, GotoOK, ZenonT(30)
<1> QED BY <1>1, <1>2, <1>7, ZenonT(30) DEF RequestsDevice

(* The device is received, or something else. *)
LEMMA ReceiveDeviceStep ==
  ASSUME StateInv, NEW p \in Procs, ReceiveDevice(p), UNCHANGED callVars
  PROVE  StateInv' /\ StartFrame(p) /\ ReceivesDevice(p)
<1>1. /\ TypeInv /\ st[p] = "request"
      /\ UNCHANGED <<requests, registered, table, conf, links, setup, iface, ctl>>
      BY DEF StateInv, ReceiveDevice
<1>2. PICK s \in {"address", "panicked"} :
        /\ Goto(p, s)
        /\ \/ answers[p] # <<>> /\ answers' = [answers EXCEPT ![p] = Tail(@)]
           \/ UNCHANGED answers /\ s = "panicked"
      BY DEF ReceiveDevice
<1>3. st[p] \in Starting \ {"new"} /\ s \in Stages \ {"new", "up"}
      BY <1>1 DEF Starting, Stages
<1>4. /\ requests' \in Seq(Requests) /\ ctl' \subseteq Procs
      /\ \A l \in DOMAIN links' : LinkOK(links'[l])
      BY <1>1, ZenonT(30) DEF TypeInv
<1>5. /\ answers' \in [Procs -> Seq(Answers)]
      /\ \A q \in Procs \ {p} : answers'[q] = answers[q]
  <2>1. CASE answers[p] # <<>> /\ answers' = [answers EXCEPT ![p] = Tail(@)]
        BY <1>1, <2>1, TakeOK, ZenonT(30)
  <2>2. CASE UNCHANGED answers
        BY <1>1, <2>2, Zenon DEF TypeInv
  <2> QED BY <1>2, <2>1, <2>2
<1>6. StateInv' /\ StartFrame(p) /\ st'[p] = s
      BY <1>1, <1>2, <1>3, <1>4, <1>5, GotoOK, ZenonT(30)
<1> QED BY <1>1, <1>2, <1>6, ZenonT(30) DEF ReceivesDevice

(* The address that the interface gets is an address. *)
LEMMA Ipv4OK ==
  ASSUME TypeInv, NEW p \in Procs, Ipv4(conf[p], setup[p]) # None
  PROVE  Ipv4(conf[p], setup[p]) \in Ips
<1>1. ASSUME NEW l, get_ipv4(l) # None PROVE get_ipv4(l) \in Ips
      BY <1>1, ZenonT(30) DEF get_ipv4, Exists, TypeInv, LinkOK
<1>2. ASSUME conf[p].ipv4 \notin {None, "Dhcp", "Passthru"} PROVE conf[p].ipv4 \in Ips
      BY <1>2, ZenonT(30) DEF TypeInv, Ips
<1> HIDE DEF get_ipv4
<1> QED BY <1>1, <1>2, ZenonT(30) DEF Ipv4

(* The interface is built. *)
LEMMA ConfigureStep ==
  ASSUME StateInv, NEW p \in Procs, Configure(p), UNCHANGED callVars
  PROVE  StateInv' /\ StartFrame(p) /\ Configures(p)
<1> DEFINE new == [kind |-> conf[p].kind, mac |-> setup[p].mac,
                   ip |-> Ipv4(conf[p], setup[p]), destroy |-> Destroy(conf[p], setup[p])]
<1>1. TypeInv /\ st[p] = "address" /\ UNCHANGED <<usnetdVars, conf, links, setup, ctl>>
      BY ZenonT(30) DEF StateInv, Configure
<1>2. /\ iface[p] = None /\ setup[p].mac \in Macs
      /\ conf[p].kind \in CreateKinds => setup[p].ifname \in LinkNames
      BY <1>1, InStart, ZenonT(30) DEF Starting
<1>3. \/ Goto(p, "panicked") /\ UNCHANGED iface
      \/ /\ Ipv4(conf[p], setup[p]) # None
         /\ iface' = [iface EXCEPT ![p] = new] /\ Goto(p, "up")
      BY ZenonT(30) DEF Configure
<1>4. ASSUME Ipv4(conf[p], setup[p]) # None PROVE new \in Interfaces
  <2>1. Ipv4(conf[p], setup[p]) \in Ips
        BY <1>1, <1>4, Ipv4OK, ZenonT(30)
  <2>2. Destroy(conf[p], setup[p]) \in LinkNames \cup {None}
        BY <1>2, ZenonT(30) DEF Destroy
  <2>3. conf[p].kind \in {c.kind : c \in Confs}
        BY <1>1, ZenonT(30) DEF TypeInv
  <2> QED BY <1>2, <2>1, <2>2, <2>3, ZenonT(30) DEF Interfaces
<1>5. /\ st' \in [Procs -> Stages] /\ st'[p] \in {"up", "panicked"}
      /\ \A q \in Procs \ {p} : st'[q] = st[q]
      BY <1>1, <1>3, ZenonT(30) DEF TypeInv, Goto, Stages
<1>6. /\ iface' \in [Procs -> Interfaces \cup {None}]
      /\ \A q \in Procs \ {p} : iface'[q] = iface[q]
      /\ st'[p] = "up" <=> iface'[p] # None
      /\ iface'[p] # None => iface'[p] = new
  <2>1. CASE Goto(p, "panicked") /\ UNCHANGED iface
        BY <1>1, <1>2, <2>1, ZenonT(30) DEF TypeInv, Goto
  <2>2. CASE /\ Ipv4(conf[p], setup[p]) # None
             /\ iface' = [iface EXCEPT ![p] = new] /\ Goto(p, "up")
    <3>1. new \in Interfaces /\ new # None
          BY <1>4, <2>2, NoneAssumption, ZenonT(30)
    <3>2. iface \in [Procs -> Interfaces \cup {None}] /\ st \in [Procs -> Stages]
          BY <1>1 DEF TypeInv
    <3> HIDE DEF new
    <3> QED BY <2>2, <3>1, <3>2, ZenonT(30) DEF Goto
  <2> QED BY <1>3, <2>1, <2>2, ZenonT(30)
<1>7. StartFrame(p)
  <2>1. st[p] \in Starting /\ UNCHANGED <<registered, table, conf, callVars, setup, answers, ctl>>
        BY <1>1 DEF usnetdVars, Starting
  <2> QED BY <1>5, <1>6, <2>1, ZenonT(30) DEF StartFrame
<1>8. TypeInv'
  <2>1. UNCHANGED <<requests, answers, registered, table, conf, links, setup, ctl,
                    pc, op, kernel, socks, interrupts>>
        BY <1>1, ZenonT(30) DEF usnetdVars, callVars
  <2> QED BY <1>1, <1>5, <1>6, <2>1, ZenonT(30) DEF TypeInv, LinkOK
<1>9. StateInv'
  <2>1. iface'[p] # None => /\ iface'[p].kind = conf[p].kind
                            /\ iface'[p].destroy = Destroy(conf[p], setup'[p])
        BY <1>1, <1>6
  <2>2. st'[p] \notin Starting
        BY <1>5 DEF Starting
  <2> QED BY <1>6, <1>7, <1>8, <2>1, <2>2, StartState, ZenonT(30)
<1> QED BY <1>1, <1>5, <1>7, <1>9 DEF Configures

------------------------------------------------------------------------------
(* The end of a process keeps the types. *)

(* What has to be shown for the end of a process. *)
LEMMA EndState ==
  ASSUME StateInv, NEW p \in Procs, EndFrame(p), TypeInv' PROVE StateInv'
<1>1. \A q \in Procs : PlaceOK(q)
      BY DEF StateInv
<1>2. UNCHANGED <<conf, setup, interrupts>>
      BY ZenonT(30) DEF EndFrame
<1>3. PlaceOK(p)'
  <2>1. st'[p] \in {"exited", "dropped", "denied"} /\ iface'[p] = None /\ pc'[p] = "idle"
        BY ZenonT(30) DEF EndFrame
  <2>2. Owned(p)' = {}
        BY ZenonT(30) DEF EndFrame, Owned
  <2>3. (ActiveOK(p, pc[p], op[p]))'
        BY <2>1, ZenonT(30) DEF ActiveOK
  <2> QED BY <2>1, <2>2, <2>3, ZenonT(30) DEF PlaceOK, Starting
<1>4. ASSUME NEW q \in Procs \ {p} PROVE PlaceOK(q)'
  <2>1. /\ st'[q] = st[q] /\ iface'[q] = iface[q] /\ pc'[q] = pc[q] /\ op'[q] = op[q]
        BY ZenonT(30) DEF EndFrame
  <2>2. Owned(q) = {} => Owned(q)' = {}
        BY ZenonT(30) DEF EndFrame, Owned
  <2>3. PlaceOK(q)
        BY <1>1
  <2>4. (ActiveOK(q, pc[q], op[q]))'
    <3>1. ActiveOK(q, pc'[q], op'[q])
          BY <2>1, <2>3, ZenonT(30) DEF PlaceOK
    <3> QED BY <1>2, <2>1, <3>1, ZenonT(30) DEF ActiveOK, CallOK, control, LoAddr, Ip
  <2> QED BY <1>2, <2>1, <2>2, <2>3, <2>4, ZenonT(30) DEF PlaceOK, Destroy
<1> QED BY <1>3, <1>4 DEF StateInv

(* The Drop of the interface. *)
LEMMA DropInterfaceOK ==
  ASSUME StateInv, NEW p \in Procs, DropInterface(p), st[p] = "up"
  PROVE  /\ st' \in [Procs -> Stages] /\ iface' \in [Procs -> Interfaces \cup {None}]
         /\ requests' \in Seq(Requests) /\ answers' \in [Procs -> Seq(Answers)]
         /\ ctl' \subseteq Procs /\ \A l \in DOMAIN links' : LinkOK(links'[l])
         /\ UNCHANGED <<registered, table, conf, setup>>
         /\ \A q \in Procs \ {p} : /\ st'[q] = st[q] /\ iface'[q] = iface[q]
                                   /\ answers'[q] = answers[q] /\ (q \in ctl' <=> q \in ctl)
         /\ iface'[p] = None /\ ctl' \subseteq ctl
         /\ DeleteLink(p) /\ st'[p] \in {"dropped", "denied"}
         /\ IF control(p)
              THEN SendTo(p, "DeleteClient", None) /\ answers'[p] = <<>> /\ p \notin ctl'
              ELSE UNCHANGED <<requests, answers, ctl>>
<1>1. /\ TypeInv /\ DeleteLink(p) /\ iface' = [iface EXCEPT ![p] = None]
      /\ UNCHANGED <<registered, table, conf, setup>>
      BY DEF StateInv, DropInterface
<1>2. /\ st' \in [Procs -> Stages] /\ st'[p] \in {"dropped", "denied"}
      /\ \A q \in Procs \ {p} : st'[q] = st[q]
      BY <1>1, ZenonT(30) DEF DeleteLink, Goto, TypeInv, Stages
<1>3. iface' \in [Procs -> Interfaces \cup {None}] /\ iface'[p] = None
      /\ \A q \in Procs \ {p} : iface'[q] = iface[q]
      BY <1>1 DEF TypeInv
<1>4. \A l \in DOMAIN links' : LinkOK(links'[l])
  <2>1. DOMAIN links' \subseteq DOMAIN links /\ \A l \in DOMAIN links' : links'[l] = links[l]
        BY <1>1, ZenonT(30) DEF DeleteLink, Without
  <2> QED BY <1>1, <2>1, ZenonT(30) DEF TypeInv
<1>5. CASE control(p)
  <2>1. /\ SendTo(p, "DeleteClient", None) /\ answers' = [answers EXCEPT ![p] = <<>>]
        /\ ctl' = ctl \ {p}
        BY <1>5 DEF DropInterface, delete
  <2>2. requests' \in Seq(Requests)
        BY <1>1, <2>1, SendOK, ZenonT(30)
  <2>3. /\ answers' \in [Procs -> Seq(Answers)] /\ answers'[p] = <<>>
        /\ \A q \in Procs \ {p} : answers'[q] = answers[q]
        BY <1>1, <2>1 DEF TypeInv
  <2>4. ctl' \subseteq Procs /\ p \notin ctl' /\ ctl' \subseteq ctl
        /\ \A q \in Procs \ {p} : q \in ctl' <=> q \in ctl
        BY <1>1, <2>1, ZenonT(30) DEF TypeInv
  <2> QED BY <1>1, <1>2, <1>3, <1>4, <1>5, <2>1, <2>2, <2>3, <2>4, ZenonT(30)
<1>6. CASE ~control(p)
  <2>1. UNCHANGED <<requests, answers, ctl>>
        BY <1>6 DEF DropInterface
  <2>2. requests' \in Seq(Requests) /\ answers' \in [Procs -> Seq(Answers)] /\ ctl' \subseteq Procs
        BY <1>1, <2>1, ZenonT(30) DEF TypeInv
  <2> QED BY <1>1, <1>2, <1>3, <1>4, <1>6, <2>1, <2>2, ZenonT(30)
<1> QED BY <1>5, <1>6, ZenonT(30)

(* The last reference is gone, the thread panics, or the process exits. *)
LEMMA EndStep ==
  ASSUME StateInv, NEW p \in Procs, EndSingle(p) \/ PanicSingle(p) \/ ExitMulti(p)
  PROVE  StateInv' /\ EndFrame(p)
<1>1. TypeInv
      BY DEF StateInv
<1>2. CASE EndSingle(p)
  <2>1. st[p] = "up" /\ pc[p] = "idle" /\ Owned(p) = {} /\ DropInterface(p)
        /\ UNCHANGED <<pc, op, kernel, socks, interrupts>>
        BY <1>2, ZenonT(30) DEF EndSingle, callVars
  <2>2. socks' = socks \ Owned(p) /\ kernel' = kernel \ {s.lo : s \in Owned(p)}
        BY <2>1
  <2>3. TypeInv'
        BY <1>1, <2>1, DropInterfaceOK, ZenonT(30) DEF TypeInv, LinkOK
  <2>4. EndFrame(p)
        BY <2>1, <2>2, DropInterfaceOK, ZenonT(30) DEF EndFrame
  <2> QED BY <2>3, <2>4, EndState
<1>3. CASE PanicSingle(p)
  <2>1. pc[p] = "query" /\ DropInterface(p) /\ Return(p) /\ UNCHANGED interrupts
        /\ socks' = socks \ Owned(p) /\ kernel' = kernel \ {s.lo : s \in Owned(p)}
        BY <1>3, ZenonT(30) DEF PanicSingle, CloseSocks
  <2>2. st[p] = "up"
        BY <2>1, InCall, ZenonT(30)
  <2>3. /\ pc' \in [Procs -> Places] /\ pc'[p] = "idle" /\ op' \in [Procs -> Ops]
        /\ \A q \in Procs \ {p} : pc'[q] = pc[q] /\ op'[q] = op[q]
        BY <1>1, <2>1, ReturnOK, ZenonT(30)
  <2>4. kernel' \subseteq LoSockets /\ socks' \subseteq Socks /\ interrupts' \in [Procs -> Nat]
        BY <1>1, <2>1, ZenonT(30) DEF TypeInv
  <2>5. TypeInv'
        BY <1>1, <2>1, <2>2, <2>3, <2>4, DropInterfaceOK, ZenonT(30) DEF TypeInv, LinkOK
  <2>6. EndFrame(p)
        BY <2>1, <2>2, <2>3, DropInterfaceOK, ZenonT(30) DEF EndFrame
  <2> QED BY <2>5, <2>6, EndState, ZenonT(30)
<1>4. CASE ExitMulti(p)
  <2>1. st[p] = "up" /\ Return(p) /\ LeaveUndropped(p) /\ UNCHANGED interrupts
        /\ socks' = socks \ Owned(p) /\ kernel' = {k \in kernel : k.owner # p}
        BY <1>4, ZenonT(30) DEF ExitMulti
  <2>2. /\ pc' \in [Procs -> Places] /\ pc'[p] = "idle" /\ op' \in [Procs -> Ops]
        /\ \A q \in Procs \ {p} : pc'[q] = pc[q] /\ op'[q] = op[q]
        BY <1>1, <2>1, ReturnOK, ZenonT(30)
  <2>3. kernel' \subseteq LoSockets /\ socks' \subseteq Socks /\ interrupts' \in [Procs -> Nat]
        BY <1>1, <2>1 DEF TypeInv
  <2>4. UNCHANGED <<requests, answers, registered, table, conf, links, setup, ctl>>
        BY <2>1, ZenonT(30) DEF LeaveUndropped, usnetdVars
  <2>5. /\ st' \in [Procs -> Stages] /\ st'[p] = "exited" /\ \A q \in Procs \ {p} : st'[q] = st[q]
        /\ iface' \in [Procs -> Interfaces \cup {None}] /\ iface'[p] = None
        /\ \A q \in Procs \ {p} : iface'[q] = iface[q]
        BY <1>1, <2>1 DEF LeaveUndropped, Goto, TypeInv, Stages
  <2>6. TypeInv'
        BY <1>1, <2>2, <2>3, <2>4, <2>5, ZenonT(30) DEF TypeInv, LinkOK
  <2>7. EndFrame(p)
        BY <2>1, <2>2, <2>4, <2>5, ZenonT(30) DEF EndFrame
  <2> QED BY <2>6, <2>7, EndState
<1> QED BY <1>2, <1>3, <1>4

------------------------------------------------------------------------------
(* usnetd keeps the types. *)

(* An answer goes to the one who asked. *)
LEMMA ReplyOK ==
  ASSUME TypeInv, NEW p \in Procs, NEW a \in Answers, Answer(p, a)
  PROVE  /\ answers' \in [Procs -> Seq(Answers)] /\ answers'[p] = Append(answers[p], a)
         /\ \A q \in Procs \ {p} : answers'[q] = answers[q]
BY DEF TypeInv, Answer

(* usnetd's step. *)
LEMMA HandleStep ==
  ASSUME StateInv, UsnetdHandle, UNCHANGED <<backendVars, callVars>>
  PROVE  StateInv' /\ HandleFrame
<1> DEFINE m == Head(requests)
<1>1. TypeInv
      BY DEF StateInv
<1>2. requests # <<>> /\ requests' = Tail(requests) /\ requests \in Seq(Requests)
      BY <1>1 DEF UsnetdHandle, TypeInv
<1>3. m \in Requests /\ requests' \in Seq(Requests)
      BY <1>2
<1>4. m.from \in Procs /\ (m.type = "AddMatch" => m.want \in Matches)
      BY <1>3, ZenonT(30) DEF Requests
<1>5. \/ HandleRequestDevice(m) \/ HandleAddMatch(m)
      \/ HandleQueryUsedPorts(m) \/ HandleDeleteClient(m)
      BY ZenonT(30) DEF UsnetdHandle
<1> HIDE DEF m
<1>6. ASSUME NEW c PROVE UsedPorts(c) \in PortSets
  <2>1. \A e \in table : e.want \in Matches
        BY <1>1 DEF TypeInv, Grants
  <2>2. \A e \in table : [proto |-> e.want.proto, dst |-> e.want.dst, port |-> e.want.port]
                           \in [proto : Protos, dst : Ips, port : AnyPort]
        BY <2>1, ZenonT(30) DEF Matches
  <2> QED BY <2>2 DEF UsedPorts, PortSets
<1>7. /\ answers' \in [Procs -> Seq(Answers)] /\ table' \subseteq Grants /\ registered' \subseteq Procs
      /\ \/ /\ m.type \in {"RequestDevice", "QueryUsedPorts"} /\ UNCHANGED table
            /\ \E a \in Answers : a.type # "OK" /\ Answer(m.from, a)
         \/ /\ m.type = "AddMatch" /\ m.want \in Matches
            /\ \E ok \in BOOLEAN :
                 /\ Holders(m.want) \ {m.from} # {} => ~ok
                 /\ table' = IF ok THEN table \cup {[client |-> m.from, want |-> m.want]} ELSE table
                 /\ Answer(m.from, [type |-> IF ok THEN "OK" ELSE "NO"])
         \/ /\ m.type = "DeleteClient" /\ UNCHANGED answers
            /\ table' = {e \in table : e.client # m.from}
  <2>1. CASE HandleRequestDevice(m)
    <3>1. [type |-> "fd"] \in Answers /\ [type |-> "fd"].type # "OK"
          BY ZenonT(30) DEF Answers
    <3>2. /\ m.type = "RequestDevice" /\ registered' = registered \cup {m.from}
          /\ Answer(m.from, [type |-> "fd"]) /\ UNCHANGED table
          BY <2>1, ZenonT(30) DEF HandleRequestDevice
    <3>3. answers' \in [Procs -> Seq(Answers)]
          BY <1>1, <1>4, <3>1, <3>2, ReplyOK, ZenonT(30)
    <3>4. table' \subseteq Grants /\ registered' \subseteq Procs
          BY <1>1, <1>4, <3>2, ZenonT(30) DEF TypeInv
    <3> QED BY <3>1, <3>2, <3>3, <3>4
  <2>2. CASE HandleQueryUsedPorts(m)
    <3> DEFINE a == [type |-> "ports", listening |-> UsedPorts(FALSE),
                     connected |-> UsedPorts(TRUE)]
    <3>1. a \in Answers /\ a.type # "OK"
          BY <1>6, ZenonT(30) DEF Answers
    <3>2. m.type = "QueryUsedPorts" /\ Answer(m.from, a) /\ UNCHANGED <<registered, table>>
          BY <2>2 DEF HandleQueryUsedPorts
    <3> HIDE DEF a
    <3>3. answers' \in [Procs -> Seq(Answers)]
          BY <1>1, <1>4, <3>1, <3>2, ReplyOK, ZenonT(30)
    <3>4. table' \subseteq Grants /\ registered' \subseteq Procs
          BY <1>1, <3>2, ZenonT(30) DEF TypeInv
    <3> QED BY <3>1, <3>2, <3>3, <3>4, ZenonT(30)
  <2>3. CASE HandleAddMatch(m)
    <3>1. PICK ok \in BOOLEAN :
            /\ Holders(m.want) \ {m.from} # {} => ~ok
            /\ table' = IF ok THEN table \cup {[client |-> m.from, want |-> m.want]} ELSE table
            /\ Answer(m.from, [type |-> IF ok THEN "OK" ELSE "NO"])
          BY <2>3, ZenonT(30) DEF HandleAddMatch
    <3>2. m.type = "AddMatch" /\ UNCHANGED registered
          BY <2>3 DEF HandleAddMatch
    <3>3. [type |-> IF ok THEN "OK" ELSE "NO"] \in Answers
          BY DEF Answers
    <3>4. answers' \in [Procs -> Seq(Answers)]
          BY <1>1, <1>4, <3>1, <3>3, ReplyOK, ZenonT(30)
    <3>5. [client |-> m.from, want |-> m.want] \in Grants
          BY <1>4, <3>2, ZenonT(30) DEF Grants
    <3>6. table' \subseteq Grants /\ registered' \subseteq Procs
          BY <1>1, <3>1, <3>2, <3>5, ZenonT(30) DEF TypeInv
    <3> QED BY <1>4, <3>1, <3>2, <3>4, <3>6, ZenonT(30)
  <2>4. CASE HandleDeleteClient(m)
        BY <1>1, <2>4, ZenonT(30) DEF HandleDeleteClient, TypeInv
  <2> QED BY <1>5, <2>1, <2>2, <2>3, <2>4, ZenonT(30)
<1>8. UNCHANGED <<conf, st, links, setup, iface, ctl, pc, op, kernel, socks, interrupts>>
      BY DEF backendVars, callVars
<1>9. TypeInv'
      BY <1>1, <1>3, <1>7, <1>8, ZenonT(30) DEF TypeInv, LinkOK
<1>10. \A q \in Procs : PlaceOK(q)'
  <2> TAKE q \in Procs
  <2>1. PlaceOK(q) /\ Owned(q)' = Owned(q)
        BY <1>8 DEF StateInv, Owned
  <2>2. (ActiveOK(q, pc[q], op[q]))'
    <3>1. ActiveOK(q, pc[q], op[q])
          BY <2>1, ZenonT(30) DEF PlaceOK
    <3> QED BY <1>8, <3>1, ZenonT(30) DEF ActiveOK, CallOK, control, LoAddr, Ip
  <2> QED BY <1>8, <2>1, <2>2, ZenonT(30) DEF PlaceOK, Destroy
<1>11. HandleFrame
       BY <1>2, <1>3, <1>7, ZenonT(30) DEF HandleFrame, m
<1> QED BY <1>9, <1>10, <1>11 DEF StateInv

------------------------------------------------------------------------------
(* All steps together *)

(* The initial state. *)
LEMMA InitState == Init => StateInv
<1> SUFFICES ASSUME Init PROVE StateInv
    OBVIOUS
<1> USE DEF Init, BackendInit, UsnetdInit
<1>2. \A l \in DOMAIN links : LinkOK(links[l])
  <2> SUFFICES ASSUME NEW l \in DOMAIN HostLinks PROVE LinkOK(HostLinks[l])
      BY ZenonT(30)
  <2>1. HostLinks[l].ip \notin {"Dhcp", "Passthru"}
        /\ {"mac", "ip", "gw", "parent", "by"} \subseteq DOMAIN HostLinks[l]
        BY HostAssumption, ZenonT(30)
  <2>2. HostLinks[l].ip \in Ips \cup {None}
        BY <2>1, ZenonT(30) DEF Ips
  <2> QED BY <2>1, <2>2, ZenonT(30) DEF LinkOK
<1>3. TypeInv
  <2>1. requests \in Seq(Requests) /\ answers \in [Procs -> Seq(Answers)]
        OBVIOUS
  <2>2. st \in [Procs -> Stages] /\ pc \in [Procs -> Places] /\ interrupts \in [Procs -> Nat]
        BY ZenonT(30) DEF Stages, Starting, Places
  <2>3. setup \in [Procs -> Setups] /\ iface \in [Procs -> Interfaces \cup {None}]
        /\ op \in [Procs -> Ops]
        BY NothingInHand
  <2> QED BY <1>2, <2>1, <2>2, <2>3, ZenonT(30) DEF TypeInv
<1>4. \A p \in Procs : PlaceOK(p)
  <2> TAKE p \in Procs
  <2>1. st[p] = "new" /\ iface[p] = None /\ pc[p] = "idle" /\ interrupts[p] = 0 /\ Owned(p) = {}
        BY ZenonT(30) DEF Owned
  <2>2. ActiveOK(p, pc[p], op[p])
        BY <2>1, ZenonT(30) DEF ActiveOK
  <2> QED BY <2>1, <2>2, ZenonT(30) DEF PlaceOK
<1> QED BY <1>3, <1>4 DEF StateInv

(* Every step keeps the types, and is one of those described above. *)
LEMMA NextState == StateInv /\ Next => StateInv' /\ Effect
<1> SUFFICES ASSUME StateInv, Next PROVE StateInv' /\ Effect
    OBVIOUS
<1>1. CASE UsnetdHandle /\ UNCHANGED <<backendVars, callVars>>
      BY <1>1, HandleStep, ZenonT(30) DEF Effect
<1>2. ASSUME NEW p \in Procs, StartUp(p), UNCHANGED callVars PROVE StateInv' /\ StartEffect(p)
      BY <1>2, ChooseMacStep, CreateLinkStep, OpenDeviceStep, RequestDeviceStep,
         ReceiveDeviceStep, ConfigureStep, ZenonT(30) DEF StartUp, StartEffect
<1>3. ASSUME NEW p \in Procs,
             CallBind(p) \/ CallConnect(p) \/ CallSingle(p) \/ Step(p) \/ DropSock(p)
      PROVE  StateInv' /\ CallEffect(p)
      BY <1>3, CallStep, BindSkipStep, BindTryStep, BindAnswerStep, ConnectTryStep,
         ConnectAnswerStep, AskPortsStep, PortsAnswerStep, BindSingleStep, DropStep DEF Step
<1>4. ASSUME NEW p \in Procs, EndSingle(p) \/ PanicSingle(p) \/ ExitMulti(p)
      PROVE  StateInv' /\ EndFrame(p)
      BY <1>4, EndStep
<1> QED BY <1>1, <1>2, <1>3, <1>4, ZenonT(30) DEF Next, Effect
=============================================================================

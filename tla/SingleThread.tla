---------------------------- MODULE SingleThread ----------------------------
(***************************************************************************)
(* The single-threaded API (src/apisinglethread.rs).  There is no          *)
(* background thread: the interface is polled inside the calls, and        *)
(* nothing is received or sent between two of them.  A call alternates     *)
(* between a look at its socket and poll_wait, which polls the interface   *)
(* and waits in poll() only if that changed nothing.                       *)
(*                                                                         *)
(* Nothing is ever removed from the SocketSet, a bind that usnetd refuses  *)
(* leaves its socket listening, and so does a listener that is dropped.    *)
(***************************************************************************)
EXTENDS Smoltcp, Integers, FiniteSets

CONSTANTS WaitingPoll,   \* USNET_SOCKETS_WAIT: wait in poll(), or spin
          MaxSockets,    \* sockets the application creates
          MaxLo,         \* loopback connections waiting at the kernel
          MaxUnits,      \* data of one read or write, in units
          MaxFrames      \* frames waiting at the interface

ASSUME WaitingPollAssumption == WaitingPoll \in BOOLEAN
ASSUME MaxSocketsAssumption == MaxSockets \in Nat \ {0}
ASSUME MaxLoAssumption == MaxLo \in Nat
ASSUME MaxUnitsAssumption == MaxUnits \in Nat \ {0}
ASSUME MaxFramesAssumption == MaxFrames \in Nat

VARIABLES
  sockets,         \* the SocketSet
  wire,            \* frames waiting at the interface, per socket
  streams,         \* handles of the application's streams
  listener,        \* handle of its listener, 0 if it has none
  left,            \* handles of refused binds and of dropped listeners
  lo,              \* connections waiting at the listener's kernel socket
  call             \* the call the thread is in

vars == <<sockets, wire, streams, listener, left, lo, call>>

Handles == 1..MaxSockets
Unused == {s \in Handles : sockets[s].state = "Free"}

(* A call is about to poll the interface ("poll") or waits in poll()       *)
(* ("wait").  once is poll_wait's argument, others the event of lo that    *)
(* poll() has reported.                                                    *)
Ops == {"connect", "accept", "read", "write", "read_no_copy", "write_no_copy"}
Calls == [op : Ops, s : Handles, n : 0..MaxUnits, once : BOOLEAN, others : BOOLEAN,
          at : {"poll", "wait"}]
Idle == [op |-> "none"]
Call(op, s, n, once) ==
  [op |-> op, s |-> s, n |-> n, once |-> once, others |-> FALSE, at |-> "poll"]
Return == call' = Idle

Init ==
  /\ sockets = [s \in Handles |-> FreeSlot]
  /\ wire = [s \in Handles |-> {}]
  /\ streams = {} /\ listener = 0 /\ left = {} /\ lo = 0
  /\ call = Idle

create_socket(s) == s \in Unused /\ \A t \in Unused : s <= t

------------------------------------------------------------------------------
(* What a call c does when it looks at the sockets ss: it returns, or      *)
(* calls poll_wait again.                                                  *)

Put(ss, s, k) == sockets' = [ss EXCEPT ![s] = k]
Again(c, ss) == call' = c /\ sockets' = ss

Connected(k) == IsActive(k) /\ MayRecv(k) /\ MaySend(k)

(* Variant: the listener keeps the handle it has given away. *)
AcceptKeepsHandle(c, ss) ==
  /\ c.op = "accept"
  /\ IF Connected(ss[listener])
       THEN streams' = streams \cup {listener} /\ Return /\ sockets' = ss
       ELSE Again(c, ss) /\ UNCHANGED streams
  /\ UNCHANGED <<lo, listener>>

(* Loopback connections come first; a connection that is handed out is     *)
(* replaced by a new listening socket.                                     *)
Accept(c, ss) ==
  /\ c.op = "accept"
  /\ \/ /\ lo > 0
        /\ lo' = lo - 1 /\ Return
        /\ sockets' = ss /\ UNCHANGED <<streams, listener>>
     \/ /\ lo = 0 /\ Connected(ss[listener])
        /\ streams' = streams \cup {listener}
        /\ \E s \in Handles :
             create_socket(s) /\ Put(ss, s, Listen(NewTcpSocket)) /\ listener' = s
        /\ Return /\ UNCHANGED lo
     \/ /\ lo = 0 /\ ~Connected(ss[listener])
        /\ Again(c, ss) /\ UNCHANGED <<lo, streams, listener>>

ConnectLoop(c, ss) ==
  /\ c.op = "connect"
  /\ IF Connected(ss[c.s])
       THEN streams' = streams \cup {c.s} /\ Return /\ sockets' = ss
       ELSE Again(c, ss) /\ UNCHANGED streams
  /\ UNCHANGED <<listener, lo>>

(* With an empty buffer the loop goes on as if nothing had been received.  *)
Read(c, ss) ==
  LET k == ss[c.s] IN
  /\ c.op = "read"
  /\ \/ ~MayRecv(k) /\ Return /\ sockets' = ss
     \/ MayRecv(k) /\ CanRecv(k) /\ c.n > 0 /\ Put(ss, c.s, Recv(k, c.n)) /\ Return
     \/ MayRecv(k) /\ ~(CanRecv(k) /\ c.n > 0) /\ Again(c, ss)
  /\ UNCHANGED <<streams, listener, lo>>

Write(c, ss) ==
  LET k == ss[c.s] IN
  /\ c.op = "write"
  /\ \/ ~MaySend(k) /\ Return /\ sockets' = ss
     \/ MaySend(k) /\ CanSend(k) /\ c.n > 0 /\ Put(ss, c.s, Send(k, c.n)) /\ Return
     \/ MaySend(k) /\ ~(CanSend(k) /\ c.n > 0) /\ Again(c, ss)
  /\ UNCHANGED <<streams, listener, lo>>

read_no_copy(c, ss) ==
  LET k == ss[c.s] IN
  /\ c.op = "read_no_copy"
  /\ \/ MayRecv(k) /\ ~CanRecv(k) /\ Again(c, ss)
     \/ CanRecv(k) /\ Return /\ \E n \in 0..MaxUnits : Put(ss, c.s, Recv(k, n))
     \/ ~MayRecv(k) /\ Return /\ sockets' = ss
  /\ UNCHANGED <<streams, listener, lo>>

write_no_copy(c, ss) ==
  LET k == ss[c.s] IN
  /\ c.op = "write_no_copy"
  /\ \/ MaySend(k) /\ ~CanSend(k) /\ Again(c, ss)
     \/ CanSend(k) /\ Return /\ \E n \in 0..MaxUnits : Put(ss, c.s, Send(k, n))
     \/ ~MaySend(k) /\ Return /\ sockets' = ss
  /\ UNCHANGED <<streams, listener, lo>>

Look(c, ss) ==
  \/ Accept(c, ss) \/ ConnectLoop(c, ss) \/ Read(c, ss) \/ Write(c, ss)
  \/ read_no_copy(c, ss) \/ write_no_copy(c, ss)

------------------------------------------------------------------------------
(* StcpNet::poll_wait *)

Busy == \E s \in Handles : wire[s] # {} \/ HasOutput(sockets[s])
Timed == \E s \in Handles : HasTimer(sockets[s])

(* Variant: frames that were received do not count. *)
ChangedByOutput(changed) ==
  /\ (\E s \in Handles : HasOutput(sockets[s])) => changed
  /\ changed => Busy \/ Timed

(* What the poll of the interface returns: whether it has processed or     *)
(* sent something, be it again, or failed.                                 *)
Changed(changed) ==
  /\ Busy => changed
  /\ changed => Busy \/ Timed

Wait == call' = [call EXCEPT !.at = "wait"]

(* Variant: it waits first and polls afterwards. *)
PollWaitSleepsFirst ==
  /\ call # Idle /\ call.at = "poll"
  /\ IF call.once \/ ~WaitingPoll \/ call.others
       THEN /\ wire' = [s \in Handles |-> {}]
            /\ Look([call EXCEPT !.once = FALSE, !.others = FALSE],
                    [s \in Handles |-> PollSocket(sockets[s], wire[s], FALSE)])
       ELSE Wait /\ UNCHANGED <<sockets, wire, streams, listener, lo>>
  /\ UNCHANGED left

PollWait ==
  /\ call # Idle /\ call.at = "poll"
  /\ wire' = [s \in Handles |-> {}]
  /\ \E expired, changed \in BOOLEAN :
       \E ss \in {[s \in Handles |-> PollSocket(sockets[s], wire[s], expired)]} :
         /\ Changed(changed)
         /\ IF changed \/ call.others \/ call.once \/ ~WaitingPoll
              THEN Look([call EXCEPT !.once = FALSE, !.others = FALSE], ss)
              ELSE Wait /\ sockets' = ss /\ UNCHANGED <<streams, listener, lo>>
  /\ UNCHANGED left

(* lo is polled only by accept().                                          *)
LoReadable == call.op = "accept" /\ lo > 0

(* Variant: lo is not polled. *)
PollReturnsWithoutLo ==
  /\ call # Idle /\ call.at = "wait"
  /\ (\E s \in Handles : wire[s] # {}) \/ Timed
  /\ call' = [call EXCEPT !.at = "poll"]
  /\ UNCHANGED <<sockets, wire, streams, listener, left, lo>>

(* poll() returns: a frame, a loopback connection, or the delay is over.   *)
PollReturns ==
  /\ call # Idle /\ call.at = "wait"
  /\ (\E s \in Handles : wire[s] # {}) \/ LoReadable \/ Timed
  /\ call' = [call EXCEPT !.at = "poll", !.others = LoReadable]
  /\ UNCHANGED <<sockets, wire, streams, listener, left, lo>>

------------------------------------------------------------------------------
(* The calls *)

(* The socket listens before usnetd is asked; on refusal it goes on.       *)
Bind ==
  /\ call = Idle /\ listener = 0
  /\ \E s \in Handles :
       /\ create_socket(s)
       /\ Put(sockets, s, Listen(NewTcpSocket))
       /\ \/ listener' = s /\ UNCHANGED left
          \/ left' = left \cup {s} /\ UNCHANGED listener
  /\ UNCHANGED <<wire, streams, lo, call>>

(* As everywhere, only while a socket can be created (MaxSockets).         *)
CallAccept ==
  /\ call = Idle /\ listener # 0 /\ Unused # {}
  /\ call' = Call("accept", listener, 0, TRUE)
  /\ UNCHANGED <<sockets, wire, streams, listener, left, lo>>

CallConnect ==
  /\ call = Idle
  /\ \E s \in Handles :
       /\ create_socket(s)
       /\ Put(sockets, s, Connect(NewTcpSocket))
       /\ call' = Call("connect", s, 0, FALSE)
  /\ UNCHANGED <<wire, streams, listener, left, lo>>

CallIo ==
  /\ call = Idle
  /\ \E s \in streams :
       \/ \E op \in {"read", "write"}, n \in 0..MaxUnits : Look(Call(op, s, n, FALSE), sockets)
       \/ \E op \in {"read_no_copy", "write_no_copy"} : Look(Call(op, s, 0, TRUE), sockets)
  /\ UNCHANGED <<wire, left>>

(* close and release; the socket stays in the set.                         *)
Drop ==
  /\ call = Idle
  /\ \E s \in streams :
       Put(sockets, s, Close(sockets[s])) /\ streams' = streams \ {s}
  /\ UNCHANGED <<wire, listener, left, lo, call>>

(* The listener has no Drop: its kernel socket closes, its handle stays.   *)
DropListener ==
  /\ call = Idle /\ listener # 0
  /\ left' = left \cup {listener}
  /\ listener' = 0 /\ lo' = 0
  /\ UNCHANGED <<sockets, wire, streams, call>>

------------------------------------------------------------------------------
(* The network.  A SYN is for the first socket that listens; what else a   *)
(* peer sends depends on the frames it has sent before.                    *)
Waiting == UNION {{s} \X wire[s] : s \in Handles}

Arrive ==
  /\ Cardinality(Waiting) < MaxFrames
  /\ \E s \in Handles, f \in Frames \ {"Stray"} :
       /\ f \notin wire[s] /\ MayArrive(f, Ingress(sockets[s], wire[s]))
       /\ f = "Syn" => \A t \in Handles : sockets[t].state = "Listen" => s <= t
       /\ wire' = [wire EXCEPT ![s] = @ \cup {f}]
  /\ UNCHANGED <<sockets, streams, listener, left, lo, call>>

ArriveLo ==
  /\ listener # 0 /\ lo < MaxLo
  /\ lo' = lo + 1
  /\ UNCHANGED <<sockets, wire, streams, listener, left, call>>

Step == PollWait \/ PollReturns

Next == \/ Step
        \/ Bind \/ CallAccept \/ DropListener \/ CallConnect \/ CallIo \/ Drop
        \/ Arrive \/ ArriveLo

(* The thread runs. *)
Spec == Init /\ [][Next]_vars /\ WF_vars(Step)

------------------------------------------------------------------------------
(* Properties *)

(* The types of the variables.                                             *)
TypeOK ==
  /\ sockets \in [Handles -> Socket]
  /\ wire \in [Handles -> SUBSET Frames]
  /\ streams \subseteq Handles /\ left \subseteq Handles
  /\ listener \in {0} \cup Handles
  /\ lo \in 0..MaxLo
  /\ call \in Calls \cup {Idle}

(* A handle has one owner: accept() gives it away and takes another        *)
(* (apisinglethread.rs:370).  A socket that listens belongs to the         *)
(* listener, unless it was left by a refused bind or a dropped listener.   *)
(* The variables keep their types.                                         *)
OneOwner ==
  /\ TypeOK
  /\ listener # 0 => listener \notin streams \cup left
  /\ streams \cap left = {}
  /\ \A s \in streams : Unused \cap {s} = {} /\ sockets[s].state # "Listen"
  /\ \A s \in Handles : sockets[s].state = "Listen" => s \in left \cup {listener}

(* When the thread waits in poll(), everything that was written, closed or *)
(* acknowledged on any stream has been sent (apisinglethread.rs:129):      *)
(* otherwise both ends could wait for each other.                          *)
FlushedBeforeWaiting ==
  call # Idle /\ call.at = "wait" => \A s \in Handles : ~HasOutput(sockets[s])

(* The socket k gives the call c nothing to do.  Calls with an empty       *)
(* buffer have nothing to do with any (513, 559).                          *)
Cause(c, k) ==
  /\ c.op \in {"connect", "accept"} => ~Connected(k)
  /\ c.op = "read" => MayRecv(k) /\ (CanRecv(k) => c.n = 0)
  /\ c.op = "write" => MaySend(k) /\ (CanSend(k) => c.n = 0)
  /\ c.op = "read_no_copy" => MayRecv(k) /\ ~CanRecv(k)
  /\ c.op = "write_no_copy" => MaySend(k) /\ ~CanSend(k)

(* The thread waits in poll() only if its socket gives the call nothing to *)
(* do, so that no event was overlooked between the look and the wait.      *)
WaitsForCause ==
  call # Idle /\ call.at = "wait" => Cause(call, sockets[call.s])

(* The frames a call waits for, which may come with a FIN or a RST.        *)
Awaited ==
  CASE call.op = "connect" -> {"SynAck"}
    [] call.op = "accept" -> {"Ack"}
    [] call.op = "read_no_copy" \/ (call.op = "read" /\ call.n > 0) -> {"Data", "Fin", "Rst"}
    [] call.op = "write_no_copy" \/ (call.op = "write" /\ call.n > 0) -> {"Ack", "Rst"}
    [] OTHER -> {}
WaitIsOver ==
  CASE call = Idle \/ call.at # "wait" -> FALSE
    [] OTHER -> wire[call.s] \cap Awaited # {} \/ LoReadable
Missed ==
  CASE call.op \in {"connect", "accept"} ->
         ~LoReadable /\ sockets[call.s].state \in {"Closed", "CloseWait", "Listen"}
    [] OTHER -> FALSE

(* A call that waits in poll() returns when what it waits for arrives: a   *)
(* handshake that completes (273, 345), data, a FIN or a RST for a read    *)
(* (509), an acknowledgement or a RST for a write (555), a loopback        *)
(* connection for an accept(), although that waits for the interface       *)
(* (334).  The exceptions are an empty buffer, and a connection that the   *)
(* peer has closed or reset by the time connect() or accept() looks:       *)
(* neither ever returns for it.                                            *)
WaitEnds == WaitIsOver ~> (call = Idle \/ Missed)
=============================================================================

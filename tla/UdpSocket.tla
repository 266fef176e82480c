----------------------------- MODULE UdpSocket ------------------------------
(***************************************************************************)
(* A UdpSocket on a usnet address and its clones (src/apimultithread.rs).  *)
(* Beside the userspace socket it has the kernel socket lo for loopback    *)
(* traffic. One O_NONBLOCK flag of lo, the fields connected and            *)
(* nonblocking, and both receive queues are shared by all clones; the      *)
(* flag is changed without the global mutex, in several steps. The socket  *)
(* may have a read_timeout or not; the locks around connected and          *)
(* read_timeout are not part of this module (see TimeoutLocks), nor are    *)
(* reference counts (see SocketSet).                                       *)
(***************************************************************************)
EXTENDS Naturals, Sequences

CONSTANTS Threads,
          Senders,         \* addresses of remote sockets that send to this one
          ConnectAddrs,    \* arguments of connect
          QueueCap,        \* datagrams each queue can hold
          Exclusive,       \* no call overlaps one that changes the flag of lo
          NotConnected

ASSUME QueueCapAssumption == QueueCap \in Nat \ {0}
ASSUME ExclusiveAssumption == Exclusive \in BOOLEAN

VARIABLES connected, nonblocking,
          lo_nonblocking,   \* O_NONBLOCK of lo
          rx, lorx,         \* received: by smoltcp (the senders), by the kernel (how many)
          tx,               \* datagrams in smoltcp's send queue
          call              \* where each thread is

udpVars == <<connected, nonblocking, lo_nonblocking, rx, lorx, tx, call>>

(* An address: "lo" is 127.0.0.1, "own" the interface's, "any" unspecified.*)
Addrs == [ip : {"lo", "own", "any", "a", "b"}, port : Nat]

ASSUME AddrAssumption ==
  Senders \subseteq Addrs /\ ConnectAddrs \subseteq Addrs /\ NotConnected \notin Addrs

Idle == [at |-> "idle"]
Calls ==
  {Idle} \union
  [at : {"kernel", "held", "wait", "woken"}, recv : BOOLEAN] \union
  [at : {"spin", "sendwait", "sendwoken", "loflag", "losend", "lorestore"}] \union
  [at : {"store"}, nb : BOOLEAN] \union [at : {"connect"}, addr : ConnectAddrs]

(* The types of the variables. *)
UdpTypeOK ==
  /\ connected \in Addrs \union {NotConnected}
  /\ nonblocking \in BOOLEAN /\ lo_nonblocking \in BOOLEAN
  /\ rx \in Seq(Senders) /\ Len(rx) <= QueueCap
  /\ lorx \in 0..QueueCap /\ tx \in 0..QueueCap
  /\ call \in [Threads -> Calls]

(* After bind_udp. *)
UdpInit ==
  /\ connected = NotConnected
  /\ nonblocking = FALSE /\ lo_nonblocking = TRUE
  /\ rx = <<>> /\ lorx = 0 /\ tx = 0
  /\ call = [t \in Threads |-> Idle]

Goto(t, at) == call' = [call EXCEPT ![t] = at]
At(t, ats) == call[t].at \in ats

(* Nobody holds the global mutex while waiting in the kernel or looping.   *)
MutexFree == \A t \in Threads : ~At(t, {"held", "spin"})

Configures == {"loflag", "losend", "lorestore", "store", "connect"}
MayStart(t) == At(t, {"idle"}) /\ (Exclusive => \A u \in Threads : ~At(u, Configures))
MayConfigure(t) == MayStart(t) /\ (Exclusive => \A u \in Threads : At(u, {"idle"}))

------------------------------------------------------------------------------
(* Receiving *)

IsLoopback(addr) == addr # NotConnected /\ addr.ip = "lo"

(* The test of peek_or_recv_from on a connected socket. *)
Matches(sender) ==
  \/ connected = NotConnected
  \/ sender = connected
  \/ connected.ip = "any" /\ connected.port \in {0, sender.port}
  \/ connected.port = 0 /\ connected.ip = sender.ip

(* lo.recv_from or lo.peek_from finds a datagram. *)
TakeLo(recv) == lorx > 0 /\ lorx' = IF recv THEN lorx - 1 ELSE lorx

(* Variant: the flag is not looked at. *)
WaitAlways(t, recv) == Goto(t, [at |-> "wait", recv |-> recv])

WouldBlockOrWait(t, recv) ==
  IF nonblocking THEN Goto(t, Idle) ELSE Goto(t, [at |-> "wait", recv |-> recv])

(* The loop of peek_or_recv_from, with the global mutex: a connected       *)
(* socket drops what others sent, peek_from cannot and loops. lo is asked  *)
(* only when the socket is not connected, and may block the thread there.  *)
RecvLoop(t, recv) ==
  LET fit == {i \in DOMAIN rx : Matches(rx[i])}
  IN \/ /\ rx # <<>> /\ ~recv
        /\ Goto(t, IF Matches(Head(rx)) THEN Idle ELSE [at |-> "spin"])
        /\ UNCHANGED <<rx, lorx>>
     \/ /\ recv /\ \E first \in fit :
             (\A j \in fit : first <= j) /\ rx' = SubSeq(rx, first + 1, Len(rx))
        /\ Goto(t, Idle)
        /\ UNCHANGED lorx
     \/ /\ rx = <<>> \/ (recv /\ fit = {})
        /\ rx' = <<>>
        /\ IF connected # NotConnected THEN WouldBlockOrWait(t, recv) /\ UNCHANGED lorx
           ELSE \/ TakeLo(recv) /\ Goto(t, Idle)
                \/ /\ lorx = 0 /\ UNCHANGED lorx
                   /\ IF lo_nonblocking THEN WouldBlockOrWait(t, recv)
                      ELSE Goto(t, [at |-> "held", recv |-> recv])

(* recv_from and peek_from: on a socket connected to loopback, lo only. *)
RecvFrom(t, recv) ==
  /\ MayStart(t)
  /\ \/ ~IsLoopback(connected) /\ MutexFree /\ RecvLoop(t, recv)
     \/ /\ IsLoopback(connected) /\ UNCHANGED rx
        /\ \/ TakeLo(recv) /\ Goto(t, Idle)
           \/ /\ lorx = 0 /\ UNCHANGED lorx
              /\ Goto(t, IF lo_nonblocking THEN Idle ELSE [at |-> "kernel", recv |-> recv])
  /\ UNCHANGED <<connected, nonblocking, lo_nonblocking, tx>>

RecvWoken(t) ==
  /\ At(t, {"woken"}) /\ MutexFree
  /\ RecvLoop(t, call[t].recv)
  /\ UNCHANGED <<connected, nonblocking, lo_nonblocking, tx>>

(* The kernel ends a blocking receive on lo. *)
KernelReturns(t) ==
  /\ At(t, {"kernel", "held"})
  /\ TakeLo(call[t].recv) /\ Goto(t, Idle)
  /\ UNCHANGED <<connected, nonblocking, lo_nonblocking, rx, tx>>

------------------------------------------------------------------------------
(* Sending *)

(* The loop of send_to for a remote address. *)
SendLoop(t) ==
  /\ MutexFree
  /\ \/ tx < QueueCap /\ tx' = tx + 1 /\ Goto(t, Idle)
     \/ /\ tx = QueueCap /\ UNCHANGED tx
        /\ Goto(t, IF nonblocking THEN Idle ELSE [at |-> "sendwait"])
  /\ UNCHANGED <<connected, nonblocking, lo_nonblocking, rx, lorx>>

SendTo(t) == MayStart(t) /\ SendLoop(t)
SendWoken(t) == At(t, {"sendwoken"}) /\ SendLoop(t)

(* send_to for a loopback address: makes lo blocking for the send.         *)
SendLo(t) ==
  /\ MayConfigure(t)
  /\ Goto(t, [at |-> IF nonblocking THEN "losend" ELSE "loflag"])
  /\ UNCHANGED <<connected, nonblocking, lo_nonblocking, rx, lorx, tx>>

SendLoFlag(t) ==
  /\ At(t, {"loflag"})
  /\ lo_nonblocking' = FALSE
  /\ Goto(t, [at |-> "losend"])
  /\ UNCHANGED <<connected, nonblocking, rx, lorx, tx>>

SendLoSend(t) ==
  /\ At(t, {"losend"})
  /\ Goto(t, [at |-> IF nonblocking THEN "idle" ELSE "lorestore"])
  /\ UNCHANGED <<connected, nonblocking, lo_nonblocking, rx, lorx, tx>>

------------------------------------------------------------------------------
(* Configuration *)

(* Variant: lo always has the flag of the socket. *)
LoFlagPlain(nb) == nb

(* What set_nonblocking(nb) makes of lo's flag. *)
LoFlag(nb) == IF connected = NotConnected THEN TRUE ELSE nb \/ ~IsLoopback(connected)

(* set_nonblocking sets the flag of lo, then its own field. *)
SetFlag(t, nb) ==
  /\ lo_nonblocking' = LoFlag(nb)
  /\ Goto(t, [at |-> "store", nb |-> nb])
  /\ UNCHANGED <<connected, nonblocking, rx, lorx, tx>>

SetNonblocking(t, nb) == MayConfigure(t) /\ SetFlag(t, nb)
SendLoRestore(t) == At(t, {"lorestore"}) /\ SetFlag(t, nonblocking)

StoreNonblocking(t) ==
  /\ At(t, {"store"})
  /\ nonblocking' = call[t].nb
  /\ Goto(t, Idle)
  /\ UNCHANGED <<connected, lo_nonblocking, rx, lorx, tx>>

(* connect sets the flag of a blocking socket's lo, then, with the mutex,  *)
(* the field connected.                                                    *)
Connect(t, addr) ==
  /\ MayConfigure(t)
  /\ lo_nonblocking' = IF nonblocking THEN lo_nonblocking ELSE addr.ip = "lo"
  /\ Goto(t, [at |-> "connect", addr |-> addr])
  /\ UNCHANGED <<connected, nonblocking, rx, lorx, tx>>

ConnectStore(t) ==
  /\ At(t, {"connect"}) /\ MutexFree
  /\ LET addr == call[t].addr
     IN connected' = IF addr.ip \in {"lo", "own"} THEN [addr EXCEPT !.ip = "lo"] ELSE addr
  /\ Goto(t, Idle)
  /\ UNCHANGED <<nonblocking, lo_nonblocking, rx, lorx, tx>>

------------------------------------------------------------------------------
(* bg() and the network *)

(* Variant: nobody is notified. *)
BgSilent(new) ==
  /\ MutexFree
  /\ Len(rx \o new) <= QueueCap
  /\ rx' = rx \o new /\ tx' = 0
  /\ UNCHANGED <<connected, nonblocking, lo_nonblocking, lorx, call>>

(* The second critical section of bg(): receives, sends, notifies all.     *)
Bg(new) ==
  /\ MutexFree
  /\ Len(rx \o new) <= QueueCap
  /\ rx' = rx \o new /\ tx' = 0
  /\ call' = [t \in Threads |->
       IF At(t, {"wait"}) THEN [call[t] EXCEPT !.at = "woken"]
       ELSE IF At(t, {"sendwait"}) THEN [at |-> "sendwoken"] ELSE call[t]]
  /\ UNCHANGED <<connected, nonblocking, lo_nonblocking, lorx>>

ArriveLo ==
  /\ lorx < QueueCap /\ lorx' = lorx + 1
  /\ UNCHANGED <<connected, nonblocking, lo_nonblocking, rx, tx, call>>

(* read_timeout passes, which lo has too; it ends send_to as well. *)
WaitTimesOut(t) ==
  /\ At(t, {"wait", "sendwait", "kernel", "held"})
  /\ At(t, {"wait", "sendwait"}) => MutexFree
  /\ IF At(t, {"held"}) THEN WouldBlockOrWait(t, call[t].recv) ELSE Goto(t, Idle)
  /\ UNCHANGED <<connected, nonblocking, lo_nonblocking, rx, lorx, tx>>

Continue(t) ==
  \/ RecvWoken(t) \/ KernelReturns(t)
  \/ SendWoken(t)
  \/ SendLoFlag(t) \/ SendLoSend(t) \/ SendLoRestore(t)
  \/ StoreNonblocking(t) \/ ConnectStore(t)

UdpNext ==
  \/ \E t \in Threads :
       \/ \E recv \in BOOLEAN : RecvFrom(t, recv)
       \/ SendTo(t) \/ SendLo(t)
       \/ \E nb \in BOOLEAN : SetNonblocking(t, nb)
       \/ \E addr \in ConnectAddrs : Connect(t, addr)
       \/ Continue(t) \/ WaitTimesOut(t)
  \/ \E new \in {<<>>} \union {<<s>> : s \in Senders} : Bg(new)
  \/ ArriveLo

(* bg() runs while lo is readable or the send queue is not empty; calls go on. *)
UdpFairness ==
  /\ WF_udpVars((lorx > 0 \/ tx > 0) /\ Bg(<<>>))
  /\ \A t \in Threads : WF_udpVars(Continue(t))

UdpSpec == UdpInit /\ [][UdpNext]_udpVars /\ UdpFairness

------------------------------------------------------------------------------
(* Properties *)

(* No thread waits in lo.recv_from while it holds the global mutex, where  *)
(* it would stop bg() and every other socket: whenever the socket is not   *)
(* connected, lo is nonblocking by the time anyone receives.               *)
NoKernelWaitWithMutex == \A t \in Threads : ~At(t, {"held"})

(* A call on a nonblocking socket blocks nowhere: not on the condition     *)
(* variable and not in the kernel.                                         *)
(* The variables keep their types.                                         *)
NonblockingNeverBlocks ==
  /\ UdpTypeOK
  /\ nonblocking => \A t \in Threads : ~At(t, {"kernel", "held", "wait", "sendwait"})

(* A blocked receiver of a socket that is not connected gets a loopback    *)
(* datagram, or another thread does.                                       *)
LoopbackDatagramReceived ==
  \A t \in Threads :
    (At(t, {"wait"}) /\ connected = NotConnected /\ lorx > 0)
    ~> (At(t, {"idle"}) \/ lorx = 0 \/ ~MutexFree)
==============================================================================

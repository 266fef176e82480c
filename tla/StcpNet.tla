------------------------------ MODULE StcpNet -------------------------------
(***************************************************************************)
(* The multithreaded API (src/apimultithread.rs): application threads call *)
(* into TCP streams while the background thread bg() polls the interface.  *)
(* All of them share the mutex around StcpNet and one condition variable.  *)
(* A critical section is one step: everything between taking the mutex and *)
(* releasing it (at the end of a block, or inside cond.wait).              *)
(*                                                                         *)
(* The background thread learns of new output in two ways: it reads        *)
(* poll_delay when it prepares to wait, and while it waits a thread sends  *)
(* a datagram on notify_poll. bg_skip_one_wait tells the threads which of  *)
(* the two applies.                                                        *)
(***************************************************************************)
EXTENDS Smoltcp, Integers, FiniteSets

CONSTANTS Threads,       \* application threads
          Streams,       \* handles of the SocketSet that streams may use
          NotifyCap,     \* datagrams the notify_poll socket pair can queue
          WaitingPoll,   \* USNET_SOCKETS_WAIT: wait in poll(), or spin
          OptChoices     \* settings of a stream that the application uses

ASSUME NotifyCapAssumption == NotifyCap \in Nat \ {0}
ASSUME WaitingPollAssumption == WaitingPoll \in BOOLEAN

VARIABLES
  bgpc,                \* where bg() is: at its first lock, in poll(), at its second lock
  skip,                \* bg()'s local variable
  bg_skip_one_wait, current_wait_delay,
  notify_poll,         \* datagrams queued for notify_poll_listener
  sockets,             \* the sockets of the SocketSet
  refs,                \* their reference counts
  wire,                \* frames waiting at the interface, per socket
  opt,                 \* nonblocking flag and timeouts, shared by a stream's clones
  call                 \* the call each thread is in

bgvars == <<bgpc, skip, bg_skip_one_wait, current_wait_delay, notify_poll>>
netvars == <<sockets, refs, wire>>
vars == <<bgvars, netvars, opt, call>>

Skip == {"Wait", "Skippable", "Skip"}
(* Delays that the code tells apart: none, at most 10 ms, longer. *)
Delays == {-1, 0, 11}
Ops == {"connect", "read", "peek", "write"}
Options == [nonblocking : BOOLEAN, read_timeout : BOOLEAN, write_timeout : BOOLEAN]
DefaultOptions == [nonblocking |-> FALSE, read_timeout |-> FALSE, write_timeout |-> FALSE]
ASSUME OptChoicesAssumption == OptChoices \subseteq Options

(* Waiting calls: in cond.wait ("wait"), notified and about to take the    *)
(* mutex again ("woken"), or unwound by a panic ("panic"). timed: the wait *)
(* has a deadline.                                                         *)
Calls == [at : {"wait", "woken", "panic"}, op : Ops, s : Streams, timed : BOOLEAN]
Idle == [at |-> "idle"]

(* The types of the variables. *)
TypeOK ==
  /\ bgpc \in {"prepare", "poll", "drain"}
  /\ skip \in BOOLEAN
  /\ bg_skip_one_wait \in Skip
  /\ current_wait_delay \in Delays
  /\ notify_poll \in 0..NotifyCap
  /\ sockets \in [Streams -> Socket]
  /\ refs \in [Streams -> {0, 1}]
  /\ wire \in [Streams -> SUBSET Frames]
  /\ opt \in [Streams -> Options]
  /\ call \in [Threads -> Calls \union {Idle}]

Init ==
  /\ bgpc = "prepare"
  /\ skip = FALSE
  /\ bg_skip_one_wait = "Wait"
  /\ current_wait_delay = -1
  /\ notify_poll = 0
  /\ sockets = [s \in Streams |-> FreeSlot]
  /\ refs = [s \in Streams |-> 0]
  /\ wire = [s \in Streams |-> {}]
  /\ opt = [s \in Streams |-> DefaultOptions]
  /\ call = [t \in Threads |-> Idle]

------------------------------------------------------------------------------
(* The background thread *)

PollDelays(sk) ==
  IF \E s \in Streams : HasOutput(sk[s]) THEN {0}
  ELSE IF \E s \in Streams : HasTimer(sk[s]) THEN {0, 11}
  ELSE {-1}

(* Variant: bg() does not set bg_skip_one_wait back to Wait. *)
BgPrepareKeepsSkippable ==
  /\ bgpc = "prepare"
  /\ bgpc' = "poll"
  /\ skip' = (bg_skip_one_wait = "Skip")
  /\ current_wait_delay' \in PollDelays(sockets)
  /\ UNCHANGED <<bg_skip_one_wait, notify_poll, netvars, opt, call>>

(* First critical section of bg(): decide whether and how long to wait.    *)
BgPrepare ==
  /\ bgpc = "prepare"
  /\ bgpc' = "poll"
  /\ \/ /\ bg_skip_one_wait = "Skip"
        /\ skip' = TRUE
        /\ UNCHANGED bg_skip_one_wait
     \/ /\ bg_skip_one_wait # "Skip"
        /\ skip' = FALSE
        /\ bg_skip_one_wait' = "Wait"
  /\ current_wait_delay' \in PollDelays(sockets)
  /\ UNCHANGED <<notify_poll, netvars, opt, call>>

(* bg() is inside a poll() call that may block. *)
Waiting == bgpc = "poll" /\ WaitingPoll /\ ~skip

(* poll() returns: a descriptor is readable or the delay is over. Without  *)
(* waiting_poll, or with skip, it is not called. skip is assigned before   *)
(* it is read again, so that its old value is forgotten here.              *)
BgPoll ==
  /\ bgpc = "poll"
  /\ Waiting => \/ notify_poll > 0
                \/ \E s \in Streams : wire[s] # {}
                \/ current_wait_delay >= 0
  /\ bgpc' = "drain"
  /\ skip' = FALSE
  /\ UNCHANGED <<bg_skip_one_wait, current_wait_delay, notify_poll, netvars,
                 opt, call>>

NotifyAll(c) == [t \in Threads |-> IF c[t].at = "wait"
                                   THEN [c[t] EXCEPT !.at = "woken"] ELSE c[t]]

(* Variant: the waiters are not notified. *)
BgDrainWithoutNotify ==
  /\ bgpc = "drain"
  /\ bgpc' = "prepare"
  /\ notify_poll' = 0
  /\ sockets' = [s \in Streams |-> PollSocket(sockets[s], wire[s], FALSE)]
  /\ wire' = [s \in Streams |-> {}]
  /\ bg_skip_one_wait' = "Skippable"
  /\ UNCHANGED <<skip, current_wait_delay, refs, opt, call>>

(* Second critical section: consume the notifications, poll the interface  *)
(* (timers in expired have run out), allow skipping, wake every waiter.    *)
BgDrain ==
  /\ bgpc = "drain"
  /\ bgpc' = "prepare"
  /\ notify_poll' = 0
  /\ \E expired \in SUBSET Streams :
       sockets' = [s \in Streams |-> PollSocket(sockets[s], wire[s], s \in expired)]
  /\ wire' = [s \in Streams |-> {}]
  /\ bg_skip_one_wait' = "Skippable"
  /\ call' = NotifyAll(call)
  /\ UNCHANGED <<skip, current_wait_delay, refs, opt>>

Bg == BgPrepare \/ BgPoll \/ BgDrain

------------------------------------------------------------------------------
(* Parts of the calls *)

(* t has not entered a call, or runs again in cond.wait of this one. *)
Runs(t, op, s) == \/ call[t] = Idle /\ op # "connect"
                  \/ call[t].at = "woken" /\ call[t].op = op /\ call[t].s = s

(* The application holds the stream: it exists once connect has returned.  *)
Open(s) == /\ refs[s] = 1
           /\ \A t \in Threads : call[t] # Idle => ~(call[t].op = "connect" /\ call[t].s = s)

Return(t) == call' = [call EXCEPT ![t] = Idle]
Wait(t, op, s, timed) ==
  call' = [call EXCEPT ![t] = [at |-> "wait", op |-> op, s |-> s, timed |-> timed]]
Panic(t, op, s) ==
  call' = [call EXCEPT ![t] = [at |-> "panic", op |-> op, s |-> s, timed |-> FALSE]]

(* notify_poll.send(..).unwrap(): the socket is nonblocking, so a full     *)
(* queue is an error and the thread panics. after: what the call does then *)
NotifyPoll(t, op, s, after) ==
  \/ notify_poll < NotifyCap /\ notify_poll' = notify_poll + 1 /\ after
  \/ notify_poll = NotifyCap /\ UNCHANGED notify_poll /\ Panic(t, op, s)

(* Variant: no datagram is sent while bg() waits. *)
NotifyOutputSkipOnly(t, op, s, after) ==
  /\ bg_skip_one_wait' = IF bg_skip_one_wait = "Wait" THEN "Wait" ELSE "Skip"
  /\ UNCHANGED notify_poll
  /\ after

(* After new output was queued (connect, write, write_no_copy). *)
NotifyOutput(t, op, s, after) ==
  \/ /\ bg_skip_one_wait = "Wait"
     /\ NotifyPoll(t, op, s, after)
     /\ UNCHANGED bg_skip_one_wait
  \/ /\ bg_skip_one_wait # "Wait"
     /\ bg_skip_one_wait' = "Skip"
     /\ UNCHANGED notify_poll
     /\ after

(* After data was consumed (read, read_no_copy). *)
NotifyConsumed(t, op, s, after) ==
  /\ \/ /\ bg_skip_one_wait = "Wait"
        /\ current_wait_delay = -1 \/ current_wait_delay > 10
        /\ NotifyPoll(t, op, s, after)
     \/ /\ ~(bg_skip_one_wait = "Wait" /\ (current_wait_delay = -1 \/ current_wait_delay > 10))
        /\ UNCHANGED notify_poll
        /\ after
  /\ UNCHANGED bg_skip_one_wait

(* The loop around cond.wait: return WouldBlock or (re)enter the wait. *)
WouldBlockOrWait(t, op, s, timed) ==
  /\ IF opt[s].nonblocking THEN Return(t) ELSE Wait(t, op, s, timed)
  /\ UNCHANGED <<bgvars, netvars, opt>>

(* SocketSet::prune: drops the closed sockets without references and       *)
(* starts closing the others.                                              *)
Prune(sk, rf) ==
  [s \in Streams |-> IF sk[s].state = "Free" \/ rf[s] > 0 THEN sk[s]
                     ELSE IF sk[s].state = "Closed" THEN FreeSlot
                     ELSE Close(sk[s])]

(* sockets.release(s); sockets.prune(). Frames that were on their way to a *)
(* socket that is gone match no socket any more.                           *)
ReleaseAndPrune(s, sk) ==
  /\ refs' = [refs EXCEPT ![s] = 0]
  /\ sockets' = Prune(sk, refs')
  /\ wire' = [r \in Streams |-> IF sockets'[r].state = "Free" /\ wire[r] # {}
                                THEN {"Stray"} ELSE wire[r]]

------------------------------------------------------------------------------
(* The calls *)

(* connect_timeout_opt up to its first cond.wait, for a remote address. *)
ConnectStart(t, s, timed) ==
  /\ call[t] = Idle
  /\ sockets[s].state = "Free"
  /\ sockets' = [sockets EXCEPT ![s] = Connect(NewTcpSocket)]
  /\ refs' = [refs EXCEPT ![s] = 1]
  /\ NotifyOutput(t, "connect", s, Wait(t, "connect", s, timed))
  /\ UNCHANGED <<bgpc, skip, current_wait_delay, wire, opt>>

(* The wait loop of connect_timeout_opt after a wake-up. *)
ConnectResume(t, s) ==
  /\ Runs(t, "connect", s)
  /\ UNCHANGED <<bgvars, opt>>
  /\ \/ /\ ~IsActive(sockets[s])
        /\ ReleaseAndPrune(s, sockets)
        /\ Return(t)
     \/ /\ IsActive(sockets[s])
        /\ MayRecv(sockets[s]) /\ MaySend(sockets[s])
        /\ Return(t)
        /\ UNCHANGED netvars
     \/ /\ IsActive(sockets[s])
        /\ ~(MayRecv(sockets[s]) /\ MaySend(sockets[s]))
        /\ Wait(t, "connect", s, call[t].timed)
        /\ UNCHANGED netvars

(* wait_until timed out: abort the attempt and drop the socket. *)
ConnectTimeout(t, s) ==
  /\ call[t].at = "wait" /\ call[t].op = "connect" /\ call[t].s = s /\ call[t].timed
  /\ ReleaseAndPrune(s, [sockets EXCEPT ![s] = Abort(@)])
  /\ Return(t)
  /\ UNCHANGED <<bgvars, opt>>

(* Variant: the loop does not test may_recv(). *)
ReceiveWithoutEof(t, op, s, n) ==
  /\ Open(s) /\ Runs(t, op, s)
  /\ \/ ~CanRecv(sockets[s]) /\ WouldBlockOrWait(t, op, s, opt[s].read_timeout)
     \/ /\ CanRecv(sockets[s])
        /\ sockets' = [sockets EXCEPT ![s] = Recv(@, n)]
        /\ NotifyConsumed(t, op, s, Return(t))
        /\ UNCHANGED <<bgpc, skip, current_wait_delay, refs, wire, opt>>

(* The loop of read, peek and read_no_copy, which takes n units. *)
Receive(t, op, s, n) ==
  /\ Open(s) /\ Runs(t, op, s)
  /\ \/ /\ ~MayRecv(sockets[s])
        /\ Return(t)
        /\ UNCHANGED <<bgvars, netvars, opt>>
     \/ /\ MayRecv(sockets[s]) /\ ~CanRecv(sockets[s])
        /\ WouldBlockOrWait(t, op, s, opt[s].read_timeout)
     \/ /\ CanRecv(sockets[s])
        /\ sockets' = [sockets EXCEPT ![s] = Recv(@, n)]
        /\ IF op = "peek"
           THEN Return(t) /\ UNCHANGED <<notify_poll, bg_skip_one_wait>>
           ELSE NotifyConsumed(t, op, s, Return(t))
        /\ UNCHANGED <<bgpc, skip, current_wait_delay, refs, wire, opt>>

(* read and read_no_copy; the buffer may be empty, or the closure take nothing. *)
Read(t, s) == \E n \in 0..1 : Receive(t, "read", s, n)
Peek(t, s) == Receive(t, "peek", s, 0)

(* The loop of write and write_no_copy, which queues n units. *)
Transmit(t, s, n) ==
  /\ Open(s) /\ Runs(t, "write", s)
  /\ \/ /\ ~MaySend(sockets[s])
        /\ Return(t)
        /\ UNCHANGED <<bgvars, netvars, opt>>
     \/ /\ MaySend(sockets[s]) /\ ~CanSend(sockets[s])
        /\ WouldBlockOrWait(t, "write", s, opt[s].write_timeout)
     \/ /\ CanSend(sockets[s])
        /\ sockets' = [sockets EXCEPT ![s] = Send(@, n)]
        /\ NotifyOutput(t, "write", s, Return(t))
        /\ UNCHANGED <<bgpc, skip, current_wait_delay, refs, wire, opt>>

Write(t, s) == \E n \in 0..1 : Transmit(t, s, n)

(* wait_until timed out in a read, peek or write: WouldBlock, without      *)
(* another look at the socket.                                             *)
IoTimeout(t) ==
  /\ call[t].at = "wait" /\ call[t].op # "connect" /\ call[t].timed
  /\ Return(t)
  /\ UNCHANGED <<bgvars, netvars, opt>>

(* shutdown: Write closes, Both aborts, Read only logs. No wake-up. *)
Shutdown(s, how) ==
  /\ Open(s)
  /\ sockets' = [sockets EXCEPT ![s] = CASE how = "Write" -> Close(@)
                                         [] how = "Both" -> Abort(@)
                                         [] how = "Read" -> @]
  /\ UNCHANGED <<bgvars, refs, wire, opt, call>>

(* The last clone of the stream is dropped; no thread is using it. *)
Drop(s) ==
  /\ Open(s)
  /\ \A t \in Threads : call[t].at \in {"wait", "woken"} => call[t].s # s
  /\ ReleaseAndPrune(s, sockets)
  /\ opt' = [opt EXCEPT ![s] = DefaultOptions]
  /\ UNCHANGED <<bgvars, call>>

(* The fields are shared by the clones and take effect in the next loop of *)
(* a call. A waiting call holds a guard of the timeout it waits with, and  *)
(* its setter waits for that (module TimeoutLocks).                        *)
Guarded(s, ops) == \E t \in Threads : /\ call[t].at \in {"wait", "woken"}
                                      /\ call[t].s = s /\ call[t].op \in ops

SetNonblocking(s, b) ==
  /\ Open(s)
  /\ opt' = [opt EXCEPT ![s].nonblocking = b] /\ opt'[s] \in OptChoices
  /\ UNCHANGED <<bgvars, netvars, call>>
SetReadTimeout(s, b) ==
  /\ Open(s) /\ ~Guarded(s, {"read", "peek"})
  /\ opt' = [opt EXCEPT ![s].read_timeout = b] /\ opt'[s] \in OptChoices
  /\ UNCHANGED <<bgvars, netvars, call>>
SetWriteTimeout(s, b) ==
  /\ Open(s) /\ ~Guarded(s, {"write"})
  /\ opt' = [opt EXCEPT ![s].write_timeout = b] /\ opt'[s] \in OptChoices
  /\ UNCHANGED <<bgvars, netvars, call>>

(* The network: a frame reaches the interface. *)
Arrive(s, f) ==
  /\ f \notin wire[s]
  /\ MayArrive(f, Ingress(sockets[s], wire[s]))
  /\ wire' = [wire EXCEPT ![s] = @ \union {f}]
  /\ UNCHANGED <<bgvars, sockets, refs, opt, call>>

Step(t, s) ==
  \/ ConnectResume(t, s)
  \/ Read(t, s) \/ Peek(t, s) \/ Write(t, s)

Next ==
  \/ Bg
  \/ \E t \in Threads, s \in Streams :
       \/ \E timed \in BOOLEAN : ConnectStart(t, s, timed)
       \/ Step(t, s)
       \/ ConnectTimeout(t, s)
  \/ \E t \in Threads : IoTimeout(t)
  \/ \E s \in Streams :
       \/ \E how \in {"Read", "Write", "Both"} : Shutdown(s, how)
       \/ Drop(s)
       \/ \E b \in BOOLEAN : SetNonblocking(s, b) \/ SetReadTimeout(s, b)
                              \/ SetWriteTimeout(s, b)
       \/ \E f \in Frames : Arrive(s, f)

Spec == Init /\ [][Next]_vars

(* bg() is a loop that nothing but poll() blocks, parking_lot's mutex is   *)
(* eventually fair, a notified waiter runs and a deadline passes. Neither  *)
(* the application nor the network is fair.                                *)
Fairness ==
  /\ WF_vars(Bg)
  /\ \A t \in Threads :
       /\ WF_vars(call[t].at = "woken" /\ \E s \in Streams : Step(t, s))
       /\ WF_vars(IoTimeout(t) \/ \E s \in Streams : ConnectTimeout(t, s))

FairSpec == Spec /\ Fairness

------------------------------------------------------------------------------
(* Properties *)

(* Output that a call queued and then told bg() about: a SYN of connect,   *)
(* data of write, a window update of read.                                 *)
Announced(k) == k.unsent > 0 \/ k.out \intersect {"Syn", "Wnd"} # {}

(* No lost wake-up: while bg() is blocked in poll() for more than 10 ms    *)
(* (or for ever), every socket whose output was announced has left a       *)
(* notification in the queue, so that the poll() returns at once.          *)
NoLostWakeup ==
  Waiting /\ (current_wait_delay = -1 \/ current_wait_delay > 10) =>
    \A s \in Streams : Announced(sockets[s]) => notify_poll > 0

(* Why it holds: while bg() can block, bg_skip_one_wait is Wait, so that   *)
(* every announcement goes through notify_poll.                            *)
WakeupInv ==
  /\ bgpc = "poll" /\ ~skip => bg_skip_one_wait = "Wait"
  /\ NoLostWakeup

(* Why the next one holds: the streams of the calls exist, and nobody else *)
(* uses the stream of a connect that goes on.  A thread whose connect has  *)
(* panicked keeps its handle.                                              *)
Holds(t) == call[t] # Idle /\ (call[t].op = "connect" \/ call[t].at # "panic")
HeldInv ==
  /\ \A t \in Threads : Holds(t) => refs[call[t].s] = 1
  /\ \A s \in Streams : refs[s] = 1 => sockets[s].state # "Free"
  /\ \A t, u \in Threads :
       Holds(t) /\ Holds(u) /\ t # u /\ call[t].op = "connect" => call[t].s # call[u].s

(* What the loop around cond.wait tests: the call of t could return now.   *)
CouldReturn(t) ==
  LET k == sockets[call[t].s]
  IN CASE call[t].op = "connect" -> ~IsActive(k) \/ (MayRecv(k) /\ MaySend(k))
       [] call[t].op = "write" -> ~MaySend(k) \/ CanSend(k)
       [] OTHER -> ~MayRecv(k) \/ CanRecv(k)

(* A step that leaves t in cond.wait, although it makes the condition t    *)
(* waits for true, is a shutdown.                                          *)
Strands(t) ==
  (/\ call[t].at = "wait" /\ ~CouldReturn(t)
   /\ call'[t].at = "wait" /\ CouldReturn(t)')
  => \E how \in {"Write", "Both"} : Shutdown(call[t].s, how)

(* A thread is never left in cond.wait by the step that makes its          *)
(* condition true, unless that step is a shutdown() on a clone of the      *)
(* stream: bg() notifies all waiters in the critical section that changes  *)
(* the sockets, shutdown() notifies nobody.                                *)
OnlyShutdownStrandsWaiter == [][\A t \in Threads : Strands(t)]_vars

(* Announced output reaches the wire: no write, connect or read leaves     *)
(* output behind that bg() does not send.                                  *)
AnnouncedOutputIsSent ==
  \A s \in Streams : Announced(sockets[s]) ~> ~Announced(sockets[s])

(* A blocked call returns after the peer ended the connection: every call, *)
(* connect included, after its RST, and a read or peek after its FIN.      *)
PeerEndsCallOf(t) ==
  \A s \in Streams :
    (/\ call[t].at \in {"wait", "woken"} /\ call[t].s = s
     /\ \/ "Rst" \in wire[s]
        \/ "Fin" \in wire[s] /\ call[t].op \in {"read", "peek"})
    ~> call[t].at \notin {"wait", "woken"}
==============================================================================

--------------------------- MODULE StcpNetProofs ----------------------------
(***************************************************************************)
(* Type correctness of StcpNet, the absence of lost wake-ups, and which    *)
(* step may leave a thread behind in cond.wait, for any number of threads  *)
(* and streams and any capacity of the queues.                             *)
(***************************************************************************)
EXTENDS StcpNet, SmoltcpProofs

(* The three ways a thread leaves a critical section keep call well typed. *)
LEMMA CallType ==
  ASSUME call \in [Threads -> Calls \union {Idle}], NEW t \in Threads,
         NEW op \in Ops, NEW s \in Streams, NEW timed \in BOOLEAN,
         Return(t) \/ Wait(t, op, s, timed) \/ Panic(t, op, s)
  PROVE  call' \in [Threads -> Calls \union {Idle}]
<1>1. CASE Return(t)
  BY <1>1 DEF Return
<1>2. ASSUME NEW at \in {"wait", "woken", "panic"}, NEW b \in BOOLEAN
      PROVE  [at |-> at, op |-> op, s |-> s, timed |-> b] \in Calls
  BY DEF Calls
<1>3. CASE Wait(t, op, s, timed)
  BY <1>2, <1>3 DEF Wait
<1>4. CASE Panic(t, op, s)
  BY <1>2, <1>4, ZenonT(30) DEF Panic
<1> QED
  BY <1>1, <1>3, <1>4

(* prune keeps every socket well formed. *)
LEMMA PruneType ==
  ASSUME NEW sk \in [Streams -> Socket], NEW rf
  PROVE  Prune(sk, rf) \in [Streams -> Socket]
<1>1. ASSUME NEW s \in Streams PROVE Close(sk[s]) \in Socket
  BY CallsOK
<1> QED
  BY <1>1, NewSocketOK DEF Prune

(* release and prune keep the sockets, the counts and the wire well typed. *)
LEMMA ReleaseType ==
  ASSUME TypeOK, NEW s \in Streams, NEW sk \in [Streams -> Socket],
         ReleaseAndPrune(s, sk)
  PROVE  /\ sockets' \in [Streams -> Socket]
         /\ refs' \in [Streams -> {0, 1}]
         /\ wire' \in [Streams -> SUBSET Frames]
<1>1. refs' \in [Streams -> {0, 1}]
  BY DEF ReleaseAndPrune, TypeOK
<1>2. sockets' \in [Streams -> Socket]
  BY PruneType DEF ReleaseAndPrune
<1>3. wire' \in [Streams -> SUBSET Frames]
  BY DEF ReleaseAndPrune, TypeOK, Frames
<1> QED
  BY <1>1, <1>2, <1>3

(* The initial state is well typed. *)
LEMMA InitType == Init => TypeOK
<1>1. DefaultOptions \in Options
  BY DEF Options, DefaultOptions
<1>2. FreeSlot \in Socket
  BY NewSocketOK
<1> SUFFICES ASSUME Init PROVE TypeOK
  OBVIOUS
<1>3. /\ sockets \in [Streams -> Socket]
      /\ refs \in [Streams -> {0, 1}]
      /\ wire \in [Streams -> SUBSET Frames]
      /\ opt \in [Streams -> Options]
      /\ call \in [Threads -> Calls \union {Idle}]
  BY <1>1, <1>2 DEF Init
<1>4. notify_poll \in 0..NotifyCap /\ current_wait_delay \in Delays
  BY NotifyCapAssumption DEF Init, Delays
<1> QED
  BY <1>3, <1>4, ZenonT(30) DEF Init, TypeOK, Skip

(* Announcing output or consumed data keeps the queue of notifications     *)
(* within its capacity.                                                    *)
LEMMA NotifyType ==
  ASSUME TypeOK, NEW t \in Threads, NEW op \in Ops, NEW s \in Streams,
         NEW ACTION after,
         NotifyOutput(t, op, s, after) \/ NotifyConsumed(t, op, s, after)
  PROVE  /\ notify_poll' \in 0..NotifyCap
         /\ bg_skip_one_wait' \in Skip
         /\ after \/ Panic(t, op, s)
BY NotifyCapAssumption DEF NotifyOutput, NotifyConsumed, NotifyPoll, TypeOK, Skip

(* Every step keeps the state well typed. *)
LEMMA NextType == TypeOK /\ [Next]_vars => TypeOK'
<1> SUFFICES ASSUME TypeOK, [Next]_vars PROVE TypeOK'
  OBVIOUS
<1>1. CASE BgPrepare
  BY <1>1, ZenonT(30) DEF BgPrepare, PollDelays, TypeOK, Skip, Delays, netvars
<1>2. CASE BgPoll
  BY <1>2, ZenonT(30) DEF BgPoll, TypeOK, netvars
<1>3. CASE BgDrain
  <2>1. sockets' \in [Streams -> Socket]
    BY <1>3, PollSocketOK DEF BgDrain, TypeOK
  <2>2. call' \in [Threads -> Calls \union {Idle}]
    BY <1>3 DEF BgDrain, NotifyAll, TypeOK, Calls, Idle
  <2>3. notify_poll' \in 0..NotifyCap /\ wire' \in [Streams -> SUBSET Frames]
    BY <1>3, NotifyCapAssumption DEF BgDrain, TypeOK
  <2> QED
    BY <1>3, <2>1, <2>2, <2>3 DEF BgDrain, TypeOK, Skip
<1>4. ASSUME NEW t \in Threads, NEW s \in Streams, NEW timed \in BOOLEAN,
             ConnectStart(t, s, timed)
      PROVE  TypeOK'
  <2>1. sockets' \in [Streams -> Socket]
    BY <1>4, NewSocketOK, CallsOK DEF ConnectStart, TypeOK
  <2>2. /\ notify_poll' \in 0..NotifyCap
        /\ bg_skip_one_wait' \in Skip
        /\ Wait(t, "connect", s, timed) \/ Panic(t, "connect", s)
    BY <1>4, NotifyType DEF ConnectStart, Ops
  <2>3. call' \in [Threads -> Calls \union {Idle}]
    BY <2>2, CallType DEF TypeOK, Ops
  <2> QED
    BY <1>4, <2>1, <2>2, <2>3 DEF ConnectStart, TypeOK
<1>5. ASSUME NEW t \in Threads, NEW s \in Streams, ConnectResume(t, s)
      PROVE  TypeOK'
  <2>1. call[t] \in Calls
    BY <1>5 DEF ConnectResume, Runs, TypeOK, Idle
  <2>2. call' \in [Threads -> Calls \union {Idle}]
    BY <1>5, <2>1, CallType DEF ConnectResume, TypeOK, Ops, Calls
  <2>3. /\ sockets' \in [Streams -> Socket]
        /\ refs' \in [Streams -> {0, 1}]
        /\ wire' \in [Streams -> SUBSET Frames]
    BY <1>5, ReleaseType DEF ConnectResume, TypeOK, netvars
  <2> QED
    BY <1>5, <2>2, <2>3 DEF ConnectResume, TypeOK, bgvars
<1>6. ASSUME NEW t \in Threads, NEW s \in Streams, ConnectTimeout(t, s)
      PROVE  TypeOK'
  <2>1. [sockets EXCEPT ![s] = Abort(@)] \in [Streams -> Socket]
    BY CallsOK DEF TypeOK
  <2>2. call' \in [Threads -> Calls \union {Idle}]
    BY <1>6, CallType DEF ConnectTimeout, TypeOK, Ops
  <2> QED
    BY <1>6, <2>1, <2>2, ReleaseType, ZenonT(30) DEF ConnectTimeout, TypeOK, bgvars
<1>7. ASSUME NEW t \in Threads, NEW op \in {"read", "peek"}, NEW s \in Streams,
             NEW n \in 0..1, Receive(t, op, s, n)
      PROVE  TypeOK'
  <2>0. op \in Ops /\ opt[s].read_timeout \in BOOLEAN
    BY DEF Ops, TypeOK, Options
  <2>1. CASE Return(t) /\ UNCHANGED <<bgvars, netvars, opt>>
    BY <2>0, <2>1, CallType DEF TypeOK, bgvars, netvars
  <2>2. CASE WouldBlockOrWait(t, op, s, opt[s].read_timeout)
    BY <2>0, <2>2, CallType DEF WouldBlockOrWait, TypeOK, bgvars, netvars
  <2>3. CASE /\ sockets' = [sockets EXCEPT ![s] = Recv(@, n)]
             /\ IF op = "peek"
                THEN Return(t) /\ UNCHANGED <<notify_poll, bg_skip_one_wait>>
                ELSE NotifyConsumed(t, op, s, Return(t))
             /\ UNCHANGED <<bgpc, skip, current_wait_delay, refs, wire, opt>>
    <3>1. sockets' \in [Streams -> Socket]
      BY <2>3, CallsOK DEF TypeOK
    <3>2. /\ notify_poll' \in 0..NotifyCap
          /\ bg_skip_one_wait' \in Skip
          /\ Return(t) \/ Panic(t, op, s)
      BY <2>0, <2>3, NotifyType DEF TypeOK
    <3> QED
      BY <2>0, <2>3, <3>1, <3>2, CallType DEF TypeOK
  <2> QED
    BY <1>7, <2>1, <2>2, <2>3 DEF Receive
<1>8. ASSUME NEW t \in Threads, NEW s \in Streams, NEW n \in 0..1, Transmit(t, s, n)
      PROVE  TypeOK'
  <2>0. "write" \in Ops /\ opt[s].write_timeout \in BOOLEAN
    BY DEF Ops, TypeOK, Options
  <2>1. CASE Return(t) /\ UNCHANGED <<bgvars, netvars, opt>>
    BY <2>0, <2>1, CallType DEF TypeOK, bgvars, netvars
  <2>2. CASE WouldBlockOrWait(t, "write", s, opt[s].write_timeout)
    BY <2>0, <2>2, CallType DEF WouldBlockOrWait, TypeOK, bgvars, netvars
  <2>3. CASE /\ sockets' = [sockets EXCEPT ![s] = Send(@, n)]
             /\ NotifyOutput(t, "write", s, Return(t))
             /\ UNCHANGED <<bgpc, skip, current_wait_delay, refs, wire, opt>>
    <3>1. sockets' \in [Streams -> Socket]
      BY <2>3, CallsOK DEF TypeOK
    <3>2. /\ notify_poll' \in 0..NotifyCap
          /\ bg_skip_one_wait' \in Skip
          /\ Return(t) \/ Panic(t, "write", s)
      BY <2>0, <2>3, NotifyType
    <3> QED
      BY <2>0, <2>3, <3>1, <3>2, CallType DEF TypeOK
  <2> QED
    BY <1>8, <2>1, <2>2, <2>3 DEF Transmit
<1>9. ASSUME NEW t \in Threads, IoTimeout(t) PROVE TypeOK'
  BY <1>9 DEF IoTimeout, Return, TypeOK, bgvars, netvars
<1>10. ASSUME NEW s \in Streams, NEW how \in {"Read", "Write", "Both"}, Shutdown(s, how)
       PROVE  TypeOK'
  <2>1. Close(sockets[s]) \in Socket /\ Abort(sockets[s]) \in Socket /\ sockets[s] \in Socket
    BY CallsOK DEF TypeOK
  <2>2. sockets' \in [Streams -> Socket]
    BY <1>10, <2>1 DEF Shutdown, TypeOK
  <2> QED
    BY <1>10, <2>2 DEF Shutdown, TypeOK, bgvars
<1>11. ASSUME NEW s \in Streams, Drop(s) PROVE TypeOK'
  <2>1. opt' \in [Streams -> Options]
    BY <1>11 DEF Drop, TypeOK, Options, DefaultOptions
  <2> QED
    BY <1>11, <2>1, ReleaseType DEF Drop, TypeOK, bgvars
<1>12. ASSUME NEW s \in Streams, NEW b \in BOOLEAN,
              SetNonblocking(s, b) \/ SetReadTimeout(s, b) \/ SetWriteTimeout(s, b)
       PROVE  TypeOK'
  <2>1. opt' \in [Streams -> Options]
    BY <1>12 DEF SetNonblocking, SetReadTimeout, SetWriteTimeout, TypeOK, Options
  <2> QED
    BY <1>12, <2>1 DEF SetNonblocking, SetReadTimeout, SetWriteTimeout, TypeOK, bgvars, netvars
<1>13. ASSUME NEW s \in Streams, NEW f \in Frames, Arrive(s, f) PROVE TypeOK'
  BY <1>13 DEF Arrive, TypeOK, bgvars
<1>14. CASE UNCHANGED vars
  BY <1>14 DEF vars, bgvars, netvars, TypeOK
<1> QED
  BY <1>1, <1>2, <1>3, <1>4, <1>5, <1>6, <1>7, <1>8, <1>9, <1>10, <1>11, <1>12,
     <1>13, <1>14 DEF Next, Bg, Step, Read, Peek, Write

(* Every reachable state of the streams and of bg() is well typed. *)
THEOREM TypeCorrect == Spec => []TypeOK
BY InitType, NextType, PTL DEF Spec

(* A thread in cond.wait, or woken from it, holds on to its stream. *)
LEMMA WaiterHolds ==
  ASSUME TypeOK, NEW t \in Threads, call[t].at = "wait" \/ call[t].at = "woken"
  PROVE  Holds(t) /\ call[t].s \in Streams
<1>1. call[t] # Idle
  BY DEF Idle
<1>2. call[t] \in Calls
  BY <1>1 DEF TypeOK
<1>3. call[t].s \in Streams
  BY <1>2 DEF Calls
<1> QED
  BY <1>1, <1>3 DEF Holds

------------------------------------------------------------------------------
(* Closing, aborting or freeing a socket announces nothing, and neither    *)
(* does taking nothing out of its receive buffer.                          *)
LEMMA QuietCalls ==
  ASSUME NEW k \in Socket
  PROVE  /\ ~Announced(FreeSlot)
         /\ Announced(Close(k)) => Announced(k)
         /\ Announced(Abort(k)) => Announced(k)
         /\ Announced(Recv(k, 0)) => Announced(k)
<1> USE DEF Announced, Socket
<1>1. ~Announced(FreeSlot)
  BY DEF FreeSlot
<1>2. Announced(Close(k)) => Announced(k)
  BY DEF Close, Enter, SetOut, AddOut
<1>3. Announced(Abort(k)) => Announced(k)
  BY DEF Abort, Enter, SetOut, DropTx, Acked
<1>4. Announced(Recv(k, 0)) => Announced(k)
  BY DEF Recv
<1> QED
  BY <1>1, <1>2, <1>3, <1>4

(* Releasing a handle and pruning the set announces nothing. *)
LEMMA QuietRelease ==
  ASSUME NEW s \in Streams, NEW sk \in [Streams -> Socket], ReleaseAndPrune(s, sk),
         NEW r \in Streams, Announced(sockets'[r])
  PROVE  Announced(sk[r])
BY QuietCalls DEF ReleaseAndPrune, Prune

(* A call that announces output while bg() may be blocked leaves a         *)
(* notification in the queue, even when the queue is full and it panics.   *)
LEMMA OutputNotifies ==
  ASSUME TypeOK, NEW t \in Threads, NEW op \in Ops, NEW s \in Streams, NEW ACTION after,
         NotifyOutput(t, op, s, after), bg_skip_one_wait = "Wait"
  PROVE  notify_poll' > 0 /\ bg_skip_one_wait' = "Wait"
BY NotifyCapAssumption DEF NotifyOutput, NotifyPoll, TypeOK

(* A call that announces consumed data does so if the wait is long, and    *)
(* never takes a notification away.                                        *)
LEMMA ConsumedNotifies ==
  ASSUME TypeOK, NEW t \in Threads, NEW op \in Ops, NEW s \in Streams, NEW ACTION after,
         NotifyConsumed(t, op, s, after), bg_skip_one_wait = "Wait"
  PROVE  /\ bg_skip_one_wait' = "Wait"
         /\ notify_poll' >= notify_poll
         /\ current_wait_delay = -1 \/ current_wait_delay > 10 => notify_poll' > 0
BY NotifyCapAssumption DEF NotifyConsumed, NotifyPoll, TypeOK

(* Every step preserves the wake-up invariant. *)
LEMMA NextWakeup == TypeOK /\ WakeupInv /\ [Next]_vars => WakeupInv'
<1> SUFFICES ASSUME TypeOK, WakeupInv, [Next]_vars PROVE WakeupInv'
  OBVIOUS
<1> DEFINE Long == current_wait_delay = -1 \/ current_wait_delay > 10
<1>0. (* A step that leaves bg() and its flags alone and announces nothing. *)
      ASSUME UNCHANGED bgvars,
             \A r \in Streams : Announced(sockets'[r]) => Announced(sockets[r])
      PROVE  WakeupInv'
  BY <1>0 DEF WakeupInv, NoLostWakeup, Waiting, bgvars
<1>1. CASE BgPrepare
  <2>1. CASE bg_skip_one_wait = "Skip"
    BY <1>1, <2>1 DEF BgPrepare, WakeupInv, NoLostWakeup, Waiting
  <2>2. CASE bg_skip_one_wait # "Skip"
    <3>0. (\E s \in Streams : HasOutput(sockets[s])) => PollDelays(sockets) = {0}
      BY DEF PollDelays
    <3>1. Long' => \A s \in Streams : ~HasOutput(sockets[s])
      BY <1>1, <3>0 DEF BgPrepare
    <3>2. \A s \in Streams : Announced(sockets[s]) => HasOutput(sockets[s])
      BY DEF Announced, HasOutput
    <3> QED
      BY <1>1, <2>2, <3>1, <3>2 DEF BgPrepare, WakeupInv, NoLostWakeup, Waiting, netvars
  <2> QED
    BY <2>1, <2>2
<1>2. CASE BgPoll
  BY <1>2 DEF BgPoll, WakeupInv, NoLostWakeup, Waiting
<1>3. CASE BgDrain
  BY <1>3 DEF BgDrain, WakeupInv, NoLostWakeup, Waiting
<1>4. ASSUME NEW t \in Threads, NEW s \in Streams, NEW timed \in BOOLEAN,
             ConnectStart(t, s, timed)
      PROVE  WakeupInv'
  BY <1>4, OutputNotifies, ZenonT(30) DEF ConnectStart, Ops, WakeupInv, NoLostWakeup, Waiting
<1>5. ASSUME NEW t \in Threads, NEW s \in Streams, ConnectResume(t, s)
      PROVE  WakeupInv'
  <2>1. \A r \in Streams : Announced(sockets'[r]) => Announced(sockets[r])
    BY <1>5, QuietRelease, ZenonT(30) DEF ConnectResume, TypeOK, netvars
  <2> QED
    BY <1>0, <1>5, <2>1 DEF ConnectResume
<1>6. ASSUME NEW t \in Threads, NEW s \in Streams, ConnectTimeout(t, s)
      PROVE  WakeupInv'
  <2> DEFINE aborted == [sockets EXCEPT ![s] = Abort(@)]
  <2>1. aborted \in [Streams -> Socket]
    BY CallsOK DEF TypeOK
  <2>2. \A r \in Streams : Announced(aborted[r]) => Announced(sockets[r])
    BY QuietCalls DEF TypeOK
  <2>3. \A r \in Streams : Announced(sockets'[r]) => Announced(aborted[r])
    BY <1>6, <2>1, QuietRelease, ZenonT(30) DEF ConnectTimeout
  <2> QED
    BY <1>0, <1>6, <2>2, <2>3 DEF ConnectTimeout
<1>7. ASSUME NEW t \in Threads, NEW op \in {"read", "peek"}, NEW s \in Streams,
             NEW n \in 0..1, op = "peek" => n = 0, Receive(t, op, s, n)
      PROVE  WakeupInv'
  <2>1. CASE UNCHANGED <<bgvars, netvars>>
    BY <1>0, <2>1 DEF netvars
  <2>2. CASE /\ op = "peek"
             /\ sockets' = [sockets EXCEPT ![s] = Recv(@, n)]
             /\ UNCHANGED bgvars
    <3>1. \A r \in Streams : Announced(sockets'[r]) => Announced(sockets[r])
      BY <1>7, <2>2, QuietCalls DEF TypeOK
    <3> QED
      BY <1>0, <2>2, <3>1
  <2>3. CASE /\ op = "read"
             /\ sockets' = [sockets EXCEPT ![s] = Recv(@, n)]
             /\ NotifyConsumed(t, op, s, Return(t))
             /\ UNCHANGED <<bgpc, skip, current_wait_delay>>
    <3>1. bg_skip_one_wait = "Wait" =>
            bg_skip_one_wait' = "Wait" /\ (Long => notify_poll' > 0)
      BY <2>3, ConsumedNotifies DEF Ops
    <3> QED
      BY <2>3, <3>1 DEF WakeupInv, NoLostWakeup, Waiting
  <2> QED
    BY <1>7, <2>1, <2>2, <2>3 DEF Receive, WouldBlockOrWait, bgvars
<1>8. ASSUME NEW t \in Threads, NEW s \in Streams, NEW n \in 0..1, Transmit(t, s, n)
      PROVE  WakeupInv'
  <2>1. CASE UNCHANGED <<bgvars, netvars>>
    BY <1>0, <2>1 DEF netvars
  <2>2. CASE /\ NotifyOutput(t, "write", s, Return(t))
             /\ UNCHANGED <<bgpc, skip, current_wait_delay>>
    BY <2>2, OutputNotifies DEF Ops, WakeupInv, NoLostWakeup, Waiting
  <2> QED
    BY <1>8, <2>1, <2>2 DEF Transmit, WouldBlockOrWait
<1>9. ASSUME NEW s \in Streams, NEW how \in {"Read", "Write", "Both"}, Shutdown(s, how)
      PROVE  WakeupInv'
  <2>1. \A r \in Streams : Announced(sockets'[r]) => Announced(sockets[r])
    BY <1>9, QuietCalls DEF Shutdown, TypeOK
  <2> QED
    BY <1>0, <1>9, <2>1 DEF Shutdown
<1>10. ASSUME NEW s \in Streams, Drop(s) PROVE WakeupInv'
  <2>1. \A r \in Streams : Announced(sockets'[r]) => Announced(sockets[r])
    BY <1>10, QuietRelease DEF Drop, TypeOK
  <2> QED
    BY <1>0, <1>10, <2>1 DEF Drop
<1>11. CASE UNCHANGED <<bgvars, sockets>>
  BY <1>0, <1>11
<1>12. ASSUME NEW t \in Threads, IoTimeout(t) PROVE UNCHANGED <<bgvars, sockets>>
  BY <1>12 DEF IoTimeout, netvars
<1>13. ASSUME NEW s \in Streams, NEW b \in BOOLEAN,
              SetNonblocking(s, b) \/ SetReadTimeout(s, b) \/ SetWriteTimeout(s, b)
       PROVE  UNCHANGED <<bgvars, sockets>>
  BY <1>13 DEF SetNonblocking, SetReadTimeout, SetWriteTimeout, netvars
<1>14. ASSUME NEW s \in Streams, NEW f \in Frames, Arrive(s, f)
       PROVE  UNCHANGED <<bgvars, sockets>>
  BY <1>14 DEF Arrive
<1>15. UNCHANGED vars => UNCHANGED <<bgvars, sockets>>
  BY DEF vars, netvars
<1> QED
  BY <1>1, <1>2, <1>3, <1>4, <1>5, <1>6, <1>7, <1>8, <1>9, <1>10, <1>11, <1>12,
     <1>13, <1>14, <1>15 DEF Next, Bg, Step, Read, Peek, Write

(* bg() never blocks for long in poll() while output that a write, connect *)
(* or read has announced is waiting, without a notification that ends the  *)
(* poll(): for any number of threads and streams.                          *)
THEOREM WakeupCorrect == Spec => []NoLostWakeup
<1>1. Init => WakeupInv
  BY DEF Init, WakeupInv, NoLostWakeup, Waiting
<1>2. WakeupInv => NoLostWakeup
  BY DEF WakeupInv
<1> QED
  BY <1>1, <1>2, NextWakeup, TypeCorrect, PTL DEF Spec

------------------------------------------------------------------------------
(* Who uses a stream.  A call that holds one after a step did before, or   *)
(* has begun on a stream of the application.                               *)
Continues(t) == Holds(t) /\ call'[t].op = call[t].op /\ call'[t].s = call[t].s
Begins(t) == Open(call'[t].s) /\ call'[t].op # "connect"

(* A step that frees no socket. *)
LEMMA HeldKept ==
  ASSUME TypeOK, HeldInv, UNCHANGED refs,
         \A s \in Streams : sockets'[s].state = "Free" => sockets[s].state = "Free",
         \A t \in Threads : Holds(t)' => Continues(t) \/ Begins(t)
  PROVE  HeldInv'
<1>1. \A t \in Threads : Holds(t)' => refs'[call'[t].s] = 1
  BY DEF HeldInv, Continues, Begins, Open
<1>2. \A s \in Streams : refs'[s] = 1 => sockets'[s].state # "Free"
  BY DEF HeldInv
<1>3. ASSUME NEW t \in Threads, NEW u \in Threads, Holds(t)', Holds(u)', t # u,
             call'[t].op = "connect"
      PROVE  call'[t].s # call'[u].s
  <2>1. Continues(t)
    BY <1>3 DEF Begins
  <2>2. CASE Continues(u)
    BY <1>3, <2>1, <2>2, ZenonT(30) DEF HeldInv, Continues
  <2>3. CASE Begins(u)
    BY <1>3, <2>1, <2>3 DEF Begins, Open, Continues, Holds
  <2> QED
    BY <1>3, <2>2, <2>3
<1> QED
  BY <1>1, <1>2, <1>3, ZenonT(30) DEF HeldInv

(* A step that releases a stream which no call holds afterwards.  It       *)
(* leaves the sockets of the other streams in use alone.                   *)
LEMMA HeldReleased ==
  ASSUME TypeOK, HeldInv, NEW s \in Streams, NEW sk,
         \A r \in Streams \ {s} : sk[r] = sockets[r],
         ReleaseAndPrune(s, sk),
         \A t \in Threads : Holds(t)' => Continues(t) /\ call[t].s # s
  PROVE  /\ HeldInv'
         /\ \A r \in Streams \ {s} : refs[r] = 1 => sockets'[r] = sockets[r]
<1>1. \A r \in Streams : refs'[r] = IF r = s THEN 0 ELSE refs[r]
  BY ZenonT(30) DEF ReleaseAndPrune, TypeOK
<1>2. \A r \in Streams \ {s} : refs[r] = 1 => sockets'[r] = sockets[r]
  BY <1>1 DEF ReleaseAndPrune, Prune
<1>3. \A t \in Threads : Holds(t) => call[t].s \in Streams
  BY ZenonT(30) DEF Holds, TypeOK, Calls
<1>4. \A t \in Threads : Holds(t)' => refs'[call'[t].s] = 1
  BY <1>1, <1>3 DEF HeldInv, Continues
<1>5. \A r \in Streams : refs'[r] = 1 => sockets'[r].state # "Free"
  BY <1>1, <1>2 DEF HeldInv
<1>6. \A t, u \in Threads :
        Holds(t)' /\ Holds(u)' /\ t # u /\ call'[t].op = "connect" => call'[t].s # call'[u].s
  BY DEF HeldInv, Continues
<1> QED
  BY <1>2, <1>4, <1>5, <1>6, ZenonT(30) DEF HeldInv

(* The call of another thread goes on; that of t ends, waits or panics.    *)
LEMMA OtherCalls ==
  ASSUME TypeOK, NEW t \in Threads, NEW op \in Ops, NEW s \in Streams, NEW timed,
         Return(t) \/ Wait(t, op, s, timed) \/ Panic(t, op, s)
  PROVE  /\ \A u \in Threads \ {t} : call'[u] = call[u]
         /\ \A u \in Threads \ {t} : Holds(u)' => Continues(u)
         /\ Return(t) => ~Holds(t)'
         /\ Holds(t)' => call'[t].op = op /\ call'[t].s = s
         /\ Panic(t, op, s) /\ op # "connect" => ~Holds(t)'
<1>1. \A u \in Threads \ {t} : call'[u] = call[u]
  BY DEF Return, Wait, Panic, TypeOK
<1>2. \A u \in Threads \ {t} : Holds(u)' => Continues(u)
  BY <1>1 DEF Holds, Continues
<1>3. call'[t] = Idle \/ (call'[t].op = op /\ call'[t].s = s)
  BY DEF Return, Wait, Panic, TypeOK
<1>4. Holds(t)' => call'[t].op = op /\ call'[t].s = s
  BY <1>3 DEF Holds
<1>5. Return(t) => ~Holds(t)'
  <2>1. Return(t) => call'[t] = Idle
    BY DEF Return, TypeOK
  <2> QED
    BY <2>1 DEF Holds
<1>6. Panic(t, op, s) /\ op # "connect" => ~Holds(t)'
  <2>1. Panic(t, op, s) => call'[t].at = "panic" /\ call'[t].op = op
    BY DEF Panic, TypeOK
  <2> QED
    BY <2>1 DEF Holds
<1> QED
  BY <1>1, <1>2, <1>4, <1>5, <1>6

(* The condition a thread waits for depends on its socket. *)
LEMMA WaitKept ==
  ASSUME NEW t \in Threads,
         call'[t] = call[t] => sockets'[call[t].s] = sockets[call[t].s],
         call'[t] = call[t] \/ call[t].at # "wait" \/ call'[t].at # "wait"
  PROVE  Strands(t)
<1>1. CASE call'[t] = call[t]
  <2>1. CouldReturn(t)' <=> CouldReturn(t)
    BY <1>1 DEF CouldReturn
  <2> QED
    BY <2>1 DEF Strands
<1>2. CASE call[t].at # "wait" \/ call'[t].at # "wait"
  BY <1>2, ZenonT(30) DEF Strands
<1> QED
  BY <1>1, <1>2

(* Data is taken from the receive buffer, or added to the send buffer.     *)
Moves(k, j) ==
  /\ j.state = k.state
  /\ \/ CanRecv(k) /\ j.unsent = k.unsent /\ j.inflight = k.inflight
     \/ CanSend(k) /\ j.rx = k.rx

(* A call that moves data of an open stream and then ends strands nobody:  *)
(* who waits for the same direction could have returned before.            *)
LEMMA HeldMoved ==
  ASSUME TypeOK, HeldInv, NEW t \in Threads, NEW op \in Ops, op # "connect", NEW s \in Streams,
         Return(t) \/ Panic(t, op, s), Open(s), call[t].at # "wait", UNCHANGED refs,
         \A r \in Streams \ {s} : sockets'[r] = sockets[r],
         Moves(sockets[s], sockets'[s])
  PROVE  HeldInv' /\ \A u \in Threads : Strands(u)
<1>1. /\ \A u \in Threads \ {t} : call'[u] = call[u] /\ (Holds(u)' => Continues(u))
      /\ ~Holds(t)'
  BY OtherCalls, ZenonT(30)
<1>2. HeldInv'
  <2>1. \A r \in Streams : sockets'[r].state = "Free" => sockets[r].state = "Free"
    BY ZenonT(30) DEF Moves
  <2> QED
    BY <1>1, <2>1, HeldKept, ZenonT(30)
<1>3. ASSUME NEW u \in Threads, call[u].at = "wait" PROVE Strands(u)
  <2>1. u # t /\ call'[u] = call[u] /\ call[u].s \in Streams /\ call[u] # Idle
    BY <1>1, <1>3 DEF Idle, TypeOK, Calls
  <2>2. CASE call[u].s # s
    BY <2>1, <2>2, WaitKept, ZenonT(30)
  <2>3. CASE call[u].s = s
    <3>1. call[u].op # "connect"
      BY <2>1, <2>3 DEF Open
    <3>2. CASE call[u].op = "write"
      <4>1. MaySend(sockets'[s]) <=> MaySend(sockets[s])
        BY ZenonT(30) DEF MaySend, Moves
      <4>2. CanSend(sockets'[s]) => CanSend(sockets[s])
        BY <4>1 DEF CanSend, Moves
      <4> QED
        BY <2>1, <2>3, <3>2, <4>1, <4>2, ZenonT(30) DEF CouldReturn, Strands
    <3>3. CASE call[u].op # "write"
      <4>1. \/ CanRecv(sockets[s])
            \/ /\ MayRecv(sockets'[s]) <=> MayRecv(sockets[s])
               /\ CanRecv(sockets'[s]) <=> CanRecv(sockets[s])
        BY ZenonT(30) DEF MayRecv, CanRecv, Moves
      <4> QED
        BY <2>1, <2>3, <3>1, <3>3, <4>1 DEF CouldReturn, Strands
    <3> QED
      BY <3>2, <3>3
  <2> QED
    BY <2>2, <2>3, ZenonT(30)
<1>4. ASSUME NEW u \in Threads, call[u].at # "wait" PROVE Strands(u)
  BY <1>4, ZenonT(30) DEF Strands
<1> QED
  BY <1>2, <1>3, <1>4

(* Every step keeps the streams of the calls, and strands no waiter unless *)
(* it is a shutdown.                                                       *)
LEMMA NextHeld == TypeOK /\ HeldInv /\ [Next]_vars => HeldInv' /\ \A t \in Threads : Strands(t)
<1> SUFFICES ASSUME TypeOK, HeldInv, [Next]_vars
             PROVE  HeldInv' /\ \A t \in Threads : Strands(t)
  OBVIOUS
<1> DEFINE Goal == HeldInv' /\ \A t \in Threads : Strands(t)
<1>1. CASE UNCHANGED <<sockets, refs, call>>
  <2>1. HeldInv'
    BY <1>1 DEF HeldInv, Holds
  <2> QED
    BY <1>1, <2>1, WaitKept, ZenonT(30)
<1>2. CASE BgDrain
  <2>1. \A s \in Streams : sockets'[s].state = "Free" => sockets[s].state = "Free"
    <3>1. PICK expired \in SUBSET Streams :
            sockets' = [s \in Streams |-> PollSocket(sockets[s], wire[s], s \in expired)]
      BY <1>2 DEF BgDrain
    <3>2. \A s \in Streams : sockets[s] \in Socket
      BY DEF TypeOK
    <3> QED
      BY <3>1, <3>2, PollSocketState, ZenonT(30)
  <2>2. \A t \in Threads : /\ call'[t].at # "wait"
                            /\ \/ call'[t] = call[t]
                               \/ call[t].at = "wait" /\ call'[t] = [call[t] EXCEPT !.at = "woken"]
    BY <1>2 DEF BgDrain, NotifyAll, TypeOK, Calls, Idle
  <2>3. \A t \in Threads : Holds(t)' => Continues(t)
    <3> SUFFICES ASSUME NEW t \in Threads, Holds(t)' PROVE Continues(t)
      OBVIOUS
    <3>1. CASE call'[t] = call[t]
      BY <3>1 DEF Holds, Continues
    <3>2. CASE call[t].at = "wait" /\ call'[t] = [call[t] EXCEPT !.at = "woken"]
      <4>1. call[t] \in Calls /\ call[t] # Idle
        BY <3>2 DEF TypeOK, Idle
      <4> QED
        BY <3>2, <4>1 DEF Holds, Continues, Calls
    <3> QED
      BY <2>2, <3>1, <3>2
  <2>4. HeldInv'
    BY <1>2, <2>1, <2>3, HeldKept DEF BgDrain
  <2> QED
    BY <2>2, <2>4, ZenonT(30) DEF Strands
<1>3. ASSUME NEW t \in Threads, NEW s \in Streams, NEW timed \in BOOLEAN,
             ConnectStart(t, s, timed)
      PROVE  Goal
  <2>1. Wait(t, "connect", s, timed) \/ Panic(t, "connect", s)
    BY <1>3, NotifyType DEF ConnectStart, Ops
  <2>2. /\ \A u \in Threads \ {t} : call'[u] = call[u] /\ (Holds(u)' => Continues(u))
        /\ Holds(t)' => call'[t].op = "connect" /\ call'[t].s = s
    BY <2>1, OtherCalls, ZenonT(30) DEF Ops
  <2>3. /\ sockets[s].state = "Free" /\ refs[s] # 1 /\ call[t] = Idle
        /\ \A r \in Streams \ {s} : sockets'[r] = sockets[r] /\ refs'[r] = refs[r]
        /\ refs'[s] = 1 /\ sockets'[s].state = "SynSent"
    BY <1>3, OpenedOK, ZenonT(30) DEF ConnectStart, TypeOK, HeldInv
  <2>4. \A u \in Threads \ {t} : Holds(u) => call[u].s \in Streams \ {s}
    BY <2>3, ZenonT(30) DEF Holds, HeldInv, TypeOK, Calls
  <2>5. HeldInv'
    BY <2>2, <2>3, <2>4 DEF HeldInv, Continues
  <2>6. \A u \in Threads : Strands(u)
    <3> TAKE u \in Threads
    <3>1. CASE u = t
      BY <2>3, <3>1 DEF Strands, Idle
    <3>2. CASE u # t /\ call[u].at = "wait"
      <4>1. Holds(u)
        BY <3>2, WaiterHolds, ZenonT(30)
      <4> QED
        BY <2>2, <2>3, <2>4, <3>2, <4>1, WaitKept, ZenonT(30)
    <3>3. CASE call[u].at # "wait"
      BY <3>3, ZenonT(30) DEF Strands
    <3> QED
      BY <3>1, <3>2, <3>3
  <2> QED
    BY <2>5, <2>6
<1>4. (* t ends its call and releases the stream, which no other call holds. *)
      ASSUME NEW t \in Threads, NEW s \in Streams, NEW sk,
             \A r \in Streams \ {s} : sk[r] = sockets[r], ReleaseAndPrune(s, sk), Return(t),
             Holds(t), call[t].op = "connect", call[t].s = s
      PROVE  Goal
  <2>1. /\ \A u \in Threads \ {t} : call'[u] = call[u] /\ (Holds(u)' => Continues(u))
        /\ ~Holds(t)'
    BY <1>4, OtherCalls, ZenonT(30) DEF Ops
  <2>2. \A u \in Threads \ {t} : Holds(u) => call[u].s \in Streams \ {s} /\ refs[call[u].s] = 1
    BY <1>4, ZenonT(30) DEF HeldInv, Holds, TypeOK, Calls
  <2>3. \A u \in Threads : Holds(u)' => Continues(u) /\ call[u].s # s
    BY <2>1, <2>2, ZenonT(30) DEF Continues
  <2>4. HeldInv' /\ \A r \in Streams \ {s} : refs[r] = 1 => sockets'[r] = sockets[r]
    BY <1>4, <2>3, HeldReleased
  <2>5. \A u \in Threads : Strands(u)
    <3> TAKE u \in Threads
    <3>1. CASE u = t
      BY <1>4, <3>1 DEF Return, Strands, Idle, TypeOK
    <3>2. CASE u # t /\ call[u].at = "wait"
      <4>1. Holds(u)
        BY <3>2, WaiterHolds, ZenonT(30)
      <4> QED
        BY <2>1, <2>2, <2>4, <3>2, <4>1, WaitKept, ZenonT(30)
    <3>3. CASE call[u].at # "wait"
      BY <3>3, ZenonT(30) DEF Strands
    <3> QED
      BY <3>1, <3>2, <3>3
  <2> QED
    BY <2>4, <2>5
<1>5. (* t ends its call, or waits again, without a change of a socket. *)
      ASSUME NEW t \in Threads, NEW op \in Ops, NEW s \in Streams, NEW timed,
             Return(t) \/ Wait(t, op, s, timed), UNCHANGED <<sockets, refs>>,
             call[t].at = "wait" => Return(t),
             Wait(t, op, s, timed) =>
               \/ Holds(t) /\ call[t].op = op /\ call[t].s = s
               \/ Open(s) /\ op # "connect"
      PROVE  Goal
  <2>1. /\ \A u \in Threads \ {t} : call'[u] = call[u] /\ (Holds(u)' => Continues(u))
        /\ Return(t) => ~Holds(t)'
        /\ Holds(t)' => call'[t].op = op /\ call'[t].s = s
    BY <1>5, OtherCalls, ZenonT(30)
  <2>2. \A u \in Threads : Holds(u)' => Continues(u) \/ Begins(u)
    BY <1>5, <2>1, ZenonT(30) DEF Continues, Begins
  <2>3. HeldInv'
    BY <1>5, <2>2, HeldKept, ZenonT(30)
  <2>4. Return(t) => call'[t].at # "wait"
    BY DEF Return, Idle, TypeOK
  <2>5. \A u \in Threads : Strands(u)
    BY <1>5, <2>1, <2>4, WaitKept, ZenonT(30)
  <2> QED
    BY <2>3, <2>5
<1>6. ASSUME NEW t \in Threads, NEW s \in Streams, ConnectResume(t, s)
      PROVE  Goal
  <2>1. Holds(t) /\ call[t].op = "connect" /\ call[t].s = s /\ call[t].at = "woken"
    <3>1. call[t].op = "connect" /\ call[t].s = s /\ call[t].at = "woken"
      BY <1>6, ZenonT(30) DEF ConnectResume, Runs
    <3> QED
      BY <3>1, WaiterHolds, ZenonT(30)
  <2>2. CASE ReleaseAndPrune(s, sockets) /\ Return(t)
    BY <1>4, <2>1, <2>2
  <2>3. CASE (Return(t) \/ Wait(t, "connect", s, call[t].timed)) /\ UNCHANGED netvars
    BY <1>5, <2>1, <2>3, ZenonT(30) DEF Ops, netvars
  <2> QED
    BY <1>6, <2>2, <2>3, ZenonT(30) DEF ConnectResume
<1>7. ASSUME NEW t \in Threads, NEW s \in Streams, ConnectTimeout(t, s)
      PROVE  Goal
  <2>1. Holds(t) /\ call[t].op = "connect" /\ call[t].s = s
    BY <1>7 DEF ConnectTimeout, Holds, Idle
  <2>2. \A r \in Streams \ {s} : [sockets EXCEPT ![s] = Abort(@)][r] = sockets[r]
    BY DEF TypeOK
  <2> QED
    BY <1>4, <1>7, <2>1, <2>2, ZenonT(30) DEF ConnectTimeout
<1>8. ASSUME NEW t \in Threads, NEW op \in {"read", "peek"}, NEW s \in Streams,
             NEW n \in 0..1, Receive(t, op, s, n)
      PROVE  Goal
  <2>1. op \in Ops /\ op # "connect" /\ Open(s) /\ Runs(t, op, s) /\ call[t].at # "wait"
    <3>1. Open(s) /\ Runs(t, op, s)
      BY <1>8, ZenonT(30) DEF Receive
    <3>2. call[t].at # "wait"
      BY <3>1 DEF Runs, Idle
    <3> QED
      BY <3>1, <3>2 DEF Ops
  <2>2. CASE (Return(t) \/ Wait(t, op, s, opt[s].read_timeout)) /\ UNCHANGED netvars
    BY <1>5, <2>1, <2>2, ZenonT(30) DEF netvars
  <2>3. CASE /\ CanRecv(sockets[s])
             /\ sockets' = [sockets EXCEPT ![s] = Recv(@, n)]
             /\ Return(t) \/ Panic(t, op, s)
             /\ UNCHANGED refs
    <3>1. Moves(sockets[s], Recv(sockets[s], n))
      BY <2>3, ZenonT(30) DEF Moves, Recv, AddOut, TypeOK, Socket
    <3>2. sockets'[s] = Recv(sockets[s], n) /\ \A r \in Streams \ {s} : sockets'[r] = sockets[r]
      BY <2>3 DEF TypeOK
    <3> QED
      BY <2>1, <2>3, <3>1, <3>2, HeldMoved, ZenonT(30)
  <2> QED
    <3>1. NotifyConsumed(t, op, s, Return(t)) => Return(t) \/ Panic(t, op, s)
      BY <2>1, NotifyType
    <3> QED
      BY <1>8, <2>2, <2>3, <3>1, ZenonT(30) DEF Receive, WouldBlockOrWait
<1>9. ASSUME NEW t \in Threads, NEW s \in Streams, NEW n \in 0..1, Transmit(t, s, n)
      PROVE  Goal
  <2>1. /\ "write" \in Ops /\ "write" # "connect"
        /\ Open(s) /\ Runs(t, "write", s) /\ call[t].at # "wait"
    <3>1. Open(s) /\ Runs(t, "write", s)
      BY <1>9, ZenonT(30) DEF Transmit
    <3>2. call[t].at # "wait"
      BY <3>1 DEF Runs, Idle
    <3> QED
      BY <3>1, <3>2 DEF Ops
  <2>2. CASE (Return(t) \/ Wait(t, "write", s, opt[s].write_timeout)) /\ UNCHANGED netvars
    BY <1>5, <2>1, <2>2, ZenonT(30) DEF netvars
  <2>3. CASE /\ CanSend(sockets[s])
             /\ sockets' = [sockets EXCEPT ![s] = Send(@, n)]
             /\ Return(t) \/ Panic(t, "write", s)
             /\ UNCHANGED refs
    <3>1. Moves(sockets[s], Send(sockets[s], n))
      BY <2>3 DEF Moves, Send, TypeOK, Socket
    <3>2. sockets'[s] = Send(sockets[s], n) /\ \A r \in Streams \ {s} : sockets'[r] = sockets[r]
      BY <2>3 DEF TypeOK
    <3> QED
      BY <2>1, <2>3, <3>1, <3>2, HeldMoved, ZenonT(30)
  <2> QED
    <3>1. NotifyOutput(t, "write", s, Return(t)) => Return(t) \/ Panic(t, "write", s)
      BY <2>1, NotifyType
    <3> QED
      BY <1>9, <2>2, <2>3, <3>1, ZenonT(30) DEF Transmit, WouldBlockOrWait
<1>10. ASSUME NEW t \in Threads, IoTimeout(t)
       PROVE  Goal
  <2>1. call[t].s \in Streams /\ call[t].op \in Ops
    <3>1. call[t].at = "wait"
      BY <1>10, ZenonT(30) DEF IoTimeout
    <3>2. call[t] \in Calls \cup {Idle}
      BY ZenonT(30) DEF TypeOK
    <3> QED
      BY <3>1, <3>2 DEF Calls, Idle
  <2>2. Return(t) /\ UNCHANGED <<sockets, refs>>
    BY <1>10, ZenonT(30) DEF IoTimeout, netvars
  <2>3. ~Wait(t, call[t].op, call[t].s, TRUE)
    BY <2>2 DEF Return, Wait, Idle, TypeOK
  <2> QED
    BY <1>5, <2>1, <2>2, <2>3, ZenonT(30)
<1>11. ASSUME NEW s \in Streams, NEW how \in {"Read", "Write", "Both"}, Shutdown(s, how)
       PROVE  Goal
  <2>1. /\ UNCHANGED <<refs, call>>
        /\ \A r \in Streams \ {s} : sockets'[r] = sockets[r]
        /\ how = "Read" => sockets'[s] = sockets[s]
    BY <1>11 DEF Shutdown, TypeOK
  <2>2. sockets'[s].state = "Free" => sockets[s].state = "Free"
    <3>1. sockets[s] \in Socket /\ 0 \in Nat
      BY DEF TypeOK
    <3>2. Close(sockets[s]).state = "Free" => sockets[s].state = "Free"
      BY <3>1, CallsState
    <3>3. Abort(sockets[s]).state = "Free" => sockets[s].state = "Free"
      BY <3>1 DEF Abort, Enter, SetOut, DropTx, Acked, Socket
    <3> QED
      BY <1>11, <3>2, <3>3 DEF Shutdown, TypeOK
  <2>3. \A t \in Threads : Holds(t)' => Continues(t)
    BY <2>1 DEF Holds, Continues
  <2>4. HeldInv'
    BY <2>1, <2>2, <2>3, HeldKept, ZenonT(30)
  <2>5. \A t \in Threads : Strands(t)
    <3> SUFFICES ASSUME NEW t \in Threads, call[t].at = "wait" PROVE Strands(t)
      BY ZenonT(30) DEF Strands
    <3>1. call[t].s \in Streams
      BY WaiterHolds, ZenonT(30)
    <3>2. CASE call[t].s = s /\ how # "Read"
      BY <1>11, <3>2 DEF Strands
    <3>3. CASE call[t].s # s \/ how = "Read"
      BY <2>1, <3>1, <3>3, WaitKept, ZenonT(30)
    <3> QED
      BY <3>2, <3>3, ZenonT(30)
  <2> QED
    BY <2>4, <2>5
<1>12. ASSUME NEW s \in Streams, Drop(s)
       PROVE  Goal
  <2>1. ReleaseAndPrune(s, sockets) /\ UNCHANGED call /\ Open(s)
    BY <1>12 DEF Drop
  <2>2. \A t \in Threads : Holds(t) => call[t].s \in Streams \ {s} /\ refs[call[t].s] = 1
    <3> SUFFICES ASSUME NEW t \in Threads, Holds(t)
                 PROVE  call[t].s \in Streams \ {s} /\ refs[call[t].s] = 1
      OBVIOUS
    <3>1. call[t] \in Calls /\ call[t] # Idle
      BY DEF Holds, TypeOK
    <3>2. call[t].s # s
      BY <1>12, <2>1, <3>1, ZenonT(30) DEF Drop, Open, Holds, Calls
    <3> QED
      BY <3>1, <3>2, ZenonT(30) DEF HeldInv, Calls
  <2>3. \A t \in Threads : Holds(t)' => Continues(t) /\ call[t].s # s
    BY <2>1, <2>2, ZenonT(30) DEF Holds, Continues
  <2>4. HeldInv' /\ \A r \in Streams \ {s} : refs[r] = 1 => sockets'[r] = sockets[r]
    BY <2>1, <2>3, HeldReleased
  <2>5. \A t \in Threads : Strands(t)
    <3> SUFFICES ASSUME NEW t \in Threads, call[t].at = "wait" PROVE Strands(t)
      BY DEF Strands
    <3>1. Holds(t)
      BY WaiterHolds, ZenonT(30)
    <3> QED
      BY <2>1, <2>2, <2>4, <3>1, WaitKept, ZenonT(30)
  <2> QED
    BY <2>4, <2>5
<1>13. CASE BgPrepare \/ BgPoll \/ UNCHANGED vars
  BY <1>1, <1>13 DEF BgPrepare, BgPoll, vars, netvars
<1>14. ASSUME NEW s \in Streams, NEW b \in BOOLEAN,
              SetNonblocking(s, b) \/ SetReadTimeout(s, b) \/ SetWriteTimeout(s, b)
       PROVE  Goal
  BY <1>1, <1>14 DEF SetNonblocking, SetReadTimeout, SetWriteTimeout, netvars
<1>15. ASSUME NEW s \in Streams, NEW f \in Frames, Arrive(s, f)
       PROVE  Goal
  BY <1>1, <1>15, ZenonT(30) DEF Arrive
<1> QED
  BY <1>2, <1>3, <1>6, <1>7, <1>8, <1>9, <1>10, <1>11, <1>12, <1>13, <1>14, <1>15
  DEF Next, Bg, Step, Read, Peek, Write

(* For any number of threads and streams, the only step that makes the     *)
(* condition of a thread in cond.wait true and leaves it there is a        *)
(* shutdown() of its stream; bg() notifies every waiter, and a read or     *)
(* write of one clone takes nothing from another that it waits for.        *)
THEOREM StrandingCorrect == Spec => OnlyShutdownStrandsWaiter
<1>1. Init => HeldInv
  BY DEF Init, HeldInv, Holds
<1>2. TypeOK /\ HeldInv /\ [Next]_vars => [\A t \in Threads : Strands(t)]_vars
  BY NextHeld
<1>3. TypeOK /\ HeldInv /\ [Next]_vars => HeldInv'
  BY NextHeld
<1> QED
  BY <1>1, <1>2, <1>3, TypeCorrect, PTL DEF Spec, OnlyShutdownStrandsWaiter
==============================================================================

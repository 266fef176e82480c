------------------------- MODULE SingleThreadProofs -------------------------
(***************************************************************************)
(* Who owns a handle of the single-threaded API, and when its thread waits *)
(* in poll(), for any number of sockets and any capacities.                *)
(***************************************************************************)
EXTENDS SingleThread, SmoltcpProofs

(* The handle a call works with, between two of its steps. *)
CallOwns(c) ==
  /\ c.op = "accept" => listener # 0 /\ c.s = listener
  /\ c.op = "connect" => /\ c.s \notin streams \cup left \cup {listener}
                         /\ sockets[c.s].state # "Free"
  /\ c.op \notin {"accept", "connect"} => c.s \in streams

(* OneOwner is not inductive: a reset makes a socket listen again, and the *)
(* handle of a connect that goes on belongs to nobody yet.                 *)
OwnerInv ==
  /\ OneOwner
  /\ \A s \in Handles : Passive(sockets[s]) => s \in left \cup {listener}
  /\ \A s \in streams \cup left \cup ({listener} \ {0}) : sockets[s].state # "Free"
  /\ call # Idle => CallOwns(call)

(* WaitsForCause is not inductive: a call has its reason to wait from its  *)
(* last look on, not only when it waits.  The first poll of a call with    *)
(* once is made without a look.                                            *)
WaitInv ==
  call # Idle =>
    /\ call.at = "wait" => /\ ~call.once
                           /\ \A s \in Handles : ~HasOutput(sockets[s])
    /\ ~call.once => Cause(call, sockets[call.s])

------------------------------------------------------------------------------

(* A change of a socket that leaves its slot filled, or empty, and makes   *)
(* it listen only if it did.                                               *)
Keeps(k, j) ==
  /\ j.state = "Free" <=> k.state = "Free"
  /\ Passive(j) => Passive(k)

(* What the next state needs for the ownership to hold in it. *)
LEMMA OwnerBy ==
  ASSUME TypeOK',
         \A s \in Handles : Passive(sockets'[s]) => s \in left' \cup {listener'},
         \A s \in streams' \cup left' \cup ({listener'} \ {0}) :
           sockets'[s].state # "Free",
         listener' # 0 => listener' \notin streams' \cup left',
         streams' \cap left' = {},
         call' # Idle => CallOwns(call)'
  PROVE  OwnerInv'
<1>1. \A s \in streams' : Unused' \cap {s} = {} /\ sockets'[s].state # "Listen"
  <2> TAKE s \in streams'
  <2>1. s \in Handles /\ sockets'[s].state # "Free" /\ s # 0
    BY DEF TypeOK, Handles
  <2>2. s \notin left' \cup {listener'}
    BY <2>1
  <2> QED
    BY <2>1, <2>2 DEF Passive, Unused
<1>2. \A s \in Handles : sockets'[s].state = "Listen" => s \in left' \cup {listener'}
  BY DEF Passive
<1> QED
  BY <1>1, <1>2 DEF OwnerInv, OneOwner

(* What the application may do without a new socket keeps the ownership.   *)
(* A connect that succeeds gives its handle to a stream.                   *)
LEMMA OwnerKept ==
  ASSUME OwnerInv, TypeOK', UNCHANGED <<listener, left>>,
         \A s \in Handles : Keeps(sockets[s], sockets'[s]),
         \/ streams' \subseteq streams
         \/ \E s \in Handles : /\ streams' = streams \cup {s}
                               /\ s \notin left \cup {listener}
                               /\ sockets[s].state # "Free",
         call' # Idle => CallOwns(call)'
  PROVE  OwnerInv'
<1>1. \A s \in Handles : Passive(sockets'[s]) => s \in left' \cup {listener'}
  BY DEF OwnerInv, Keeps, Passive
<1>2. \A s \in streams' \cup left' \cup ({listener'} \ {0}) : sockets'[s].state # "Free"
  BY DEF OwnerInv, Keeps, OneOwner, TypeOK
<1>3. /\ listener' # 0 => listener' \notin streams' \cup left'
      /\ streams' \cap left' = {}
  BY DEF OwnerInv, OneOwner
<1> QED
  BY <1>1, <1>2, <1>3, OwnerBy

(* A new socket that nobody owns yet goes to the listener, which gives its *)
(* own to a stream, is left behind, or is the one a connect works with.    *)
LEMMA OwnerOfNew ==
  ASSUME OwnerInv, TypeOK', NEW s \in Unused,
         NEW ss \in [Handles -> Socket],
         \A t \in Handles : Keeps(sockets[t], ss[t]),
         NEW k \in Socket, k.state # "Free",
         sockets' = [ss EXCEPT ![s] = k],
         \/ /\ listener # 0 => ~Passive(ss[listener])
            /\ streams' = streams \cup ({listener} \ {0})
            /\ listener' = s /\ left' = left /\ call' = Idle
         \/ /\ left' = left \cup {s}
            /\ streams' = streams /\ listener' = listener /\ call' = Idle
         \/ /\ ~Passive(k)
            /\ left' = left /\ streams' = streams /\ listener' = listener
            /\ call'.op = "connect" /\ call'.s = s
  PROVE  OwnerInv'
<1>1. TypeOK /\ s \in Handles /\ s # 0 /\ sockets[s].state = "Free"
  BY DEF OwnerInv, OneOwner, Unused, Handles
<1>2. s \notin streams \cup left \cup {listener}
  BY <1>1 DEF OwnerInv, TypeOK, Handles
<1>3. \A t \in Handles \ {s} : sockets'[t] = ss[t]
  OBVIOUS
<1>4. sockets'[s] = k
  BY <1>1
<1>5. \A t \in Handles : Passive(sockets'[t]) => t \in left' \cup {listener'}
  <2> TAKE t \in Handles
  <2>1. t # s /\ Passive(ss[t]) => t \in left \cup {listener}
    BY DEF OwnerInv, Keeps, Passive
  <2>2. t = listener => t # 0
    BY DEF Handles
  <2> QED
    BY <1>3, <1>4, <2>1, <2>2 DEF Passive
<1>6. \A t \in streams' \cup left' \cup ({listener'} \ {0}) : sockets'[t].state # "Free"
  <2>1. \A t \in streams \cup left \cup ({listener} \ {0}) :
          t \in Handles /\ t # s /\ ss[t].state # "Free"
    BY <1>1, <1>2 DEF OwnerInv, Keeps, TypeOK
  <2> QED
    BY <1>1, <1>3, <1>4, <2>1
<1>7. /\ listener' # 0 => listener' \notin streams' \cup left'
      /\ streams' \cap left' = {}
  BY <1>2 DEF OwnerInv, OneOwner
<1>8. call' # Idle => CallOwns(call)'
  BY <1>2, <1>4 DEF CallOwns
<1> QED
  BY <1>5, <1>6, <1>7, <1>8, OwnerBy

------------------------------------------------------------------------------

(* A look at the sockets either ends the call or leaves it its cause to    *)
(* wait, and keeps the ownership.                                          *)
LEMMA LookKeeps ==
  ASSUME OwnerInv, NEW c \in Calls, NEW ss \in [Handles -> Socket],
         \A t \in Handles : Keeps(sockets[t], ss[t]),
         CallOwns(c), Look(c, ss),
         UNCHANGED left, wire' \in [Handles -> SUBSET Frames]
  PROVE  /\ OwnerInv'
         /\ call' = Idle \/ (call' = c /\ sockets' = ss /\ Cause(c, ss[c.s]))
<1> USE DEF Return, Again, Put
<1>0. TypeOK /\ c.s \in Handles /\ c.n \in Nat /\ c # Idle /\ ss[c.s] \in Socket
  BY MaxUnitsAssumption DEF OwnerInv, OneOwner, Calls, Ops, Idle
<1>1. ASSUME sockets' = ss, UNCHANGED listener, lo' \in 0..MaxLo,
             \/ call' = Idle /\ streams' = streams
             \/ call' = c /\ streams' = streams
      PROVE  OwnerInv'
  <2>1. TypeOK'
    BY <1>0, <1>1 DEF TypeOK
  <2>2. call' # Idle => CallOwns(call)'
    BY <1>0, <1>1 DEF CallOwns, Keeps
  <2> QED
    BY <1>1, <2>1, <2>2, OwnerKept
<1>2. ASSUME NEW k \in Socket, k.state = ss[c.s].state,
             sockets' = [ss EXCEPT ![c.s] = k],
             UNCHANGED <<streams, listener, lo>>, call' = Idle
      PROVE  OwnerInv'
  <2>1. TypeOK'
    BY <1>0, <1>2 DEF TypeOK
  <2>2. \A t \in Handles : Keeps(sockets[t], sockets'[t])
    BY <1>0, <1>2 DEF Keeps, Passive
  <2> QED
    BY <1>2, <2>1, <2>2, OwnerKept
<1>3. CASE Accept(c, ss)
  <2>1. c.s = listener /\ listener # 0
    BY <1>3 DEF Accept, CallOwns
  <2>2. CASE lo > 0 /\ lo' = lo - 1 /\ Return /\ sockets' = ss /\ UNCHANGED <<streams, listener>>
    <3>1. lo' \in 0..MaxLo
      BY <1>0, <2>2, MaxLoAssumption DEF TypeOK
    <3> QED
      BY <1>1, <2>2, <3>1
  <2>3. CASE /\ Connected(ss[listener])
             /\ streams' = streams \cup {listener}
             /\ \E s \in Handles :
                  create_socket(s) /\ Put(ss, s, Listen(NewTcpSocket)) /\ listener' = s
             /\ Return /\ UNCHANGED lo
    <3>1. PICK s \in Handles : create_socket(s) /\ Put(ss, s, Listen(NewTcpSocket)) /\ listener' = s
      BY <2>3, ZenonT(30)
    <3>2. s \in Unused
      BY <3>1 DEF create_socket
    <3>3. Listen(NewTcpSocket) \in Socket /\ Listen(NewTcpSocket).state = "Listen"
      BY OpenedOK
    <3>4. ~Passive(ss[listener])
      BY <2>3 DEF Connected, MaySend, Passive
    <3>5. TypeOK'
      BY <1>0, <2>1, <2>3, <3>1, <3>3 DEF TypeOK
    <3>6. /\ streams' = streams \cup ({listener} \ {0})
          /\ sockets' = [ss EXCEPT ![s] = Listen(NewTcpSocket)]
          /\ listener' = s /\ left' = left /\ call' = Idle
      BY <2>1, <2>3, <3>1
    <3>7. OwnerInv'
      BY <3>2, <3>3, <3>4, <3>5, <3>6, OwnerOfNew, ZenonT(30)
    <3> QED
      BY <3>6, <3>7
  <2>4. CASE ~Connected(ss[listener]) /\ Again(c, ss) /\ UNCHANGED <<lo, streams, listener>>
    <3>1. Cause(c, ss[c.s])
      BY <1>3, <2>1, <2>4 DEF Cause, Accept
    <3>2. lo' \in 0..MaxLo
      BY <1>0, <2>4 DEF TypeOK
    <3> QED
      BY <1>1, <2>4, <3>1, <3>2
  <2> QED
    BY <1>3, <2>2, <2>3, <2>4 DEF Accept
<1>4. CASE ConnectLoop(c, ss)
  <2>1. c.s \notin streams \cup left \cup {listener} /\ sockets[c.s].state # "Free"
    BY <1>4 DEF ConnectLoop, CallOwns
  <2>2. CASE Connected(ss[c.s])
    <3>1. /\ streams' = streams \cup {c.s} /\ call' = Idle /\ sockets' = ss
          /\ UNCHANGED <<listener, lo>>
      BY <1>4, <2>2 DEF ConnectLoop
    <3>2. TypeOK'
      BY <1>0, <3>1 DEF TypeOK
    <3>3. OwnerInv'
      BY <1>0, <2>1, <3>1, <3>2, OwnerKept
    <3> QED
      BY <3>1, <3>3
  <2>3. CASE ~Connected(ss[c.s])
    <3>1. call' = c /\ sockets' = ss /\ UNCHANGED <<streams, listener, lo>>
      BY <1>4, <2>3 DEF ConnectLoop
    <3>2. Cause(c, ss[c.s])
      BY <1>4, <2>3 DEF Cause, ConnectLoop
    <3>3. lo' \in 0..MaxLo
      BY <1>0, <3>1 DEF TypeOK
    <3> QED
      BY <1>1, <3>1, <3>2, <3>3
  <2> QED
    BY <2>2, <2>3
<1>5. UNCHANGED lo => lo' \in 0..MaxLo
  BY <1>0 DEF TypeOK
<1>6. ASSUME NEW n \in Nat
      PROVE  /\ Recv(ss[c.s], n) \in Socket /\ Recv(ss[c.s], n).state = ss[c.s].state
             /\ Send(ss[c.s], n) \in Socket /\ Send(ss[c.s], n).state = ss[c.s].state
  BY <1>0, CallsOK, CallsState, ZenonT(30)
<1>7. CASE Read(c, ss)
  BY <1>7, <1>0, <1>1, <1>2, <1>5, <1>6 DEF Read, Cause
<1>8. CASE Write(c, ss)
  BY <1>8, <1>0, <1>1, <1>2, <1>5, <1>6 DEF Write, Cause
<1>9. CASE read_no_copy(c, ss)
  <2>1. \A n \in 0..MaxUnits : n \in Nat
    BY MaxUnitsAssumption
  <2> QED
    BY <1>9, <1>0, <1>1, <1>2, <1>5, <1>6, <2>1 DEF read_no_copy, Cause
<1>10. CASE write_no_copy(c, ss)
  <2>1. \A n \in 0..MaxUnits : n \in Nat
    BY MaxUnitsAssumption
  <2> QED
    BY <1>10, <1>0, <1>1, <1>2, <1>5, <1>6, <2>1 DEF write_no_copy, Cause
<1> QED
  BY <1>3, <1>4, <1>7, <1>8, <1>9, <1>10 DEF Look

------------------------------------------------------------------------------

(* The sockets after a poll of the interface. *)
LEMMA PolledOK ==
  ASSUME TypeOK, NEW expired, NEW ss,
         ss = [s \in Handles |-> PollSocket(sockets[s], wire[s], expired)]
  PROVE  /\ ss \in [Handles -> Socket]
         /\ \A s \in Handles : Keeps(sockets[s], ss[s]) /\ ~HasOutput(ss[s])
<1>1. \A s \in Handles : sockets[s] \in Socket
  BY DEF TypeOK
<1>2. \A s \in Handles : ss[s] = PollSocket(sockets[s], wire[s], expired)
  OBVIOUS
<1>3. \A s \in Handles : ss[s] \in Socket
  BY <1>1, <1>2, PollSocketOK
<1>4. \A s \in Handles : Keeps(sockets[s], ss[s]) /\ ~HasOutput(ss[s])
  BY <1>1, <1>2, PollSocketState DEF Keeps
<1> QED
  BY <1>3, <1>4

(* A poll that had nothing to do leaves a call its cause to wait. *)
LEMMA CauseKept ==
  ASSUME NEW k \in Socket, NEW expired, ~HasOutput(k), NEW c, Cause(c, k)
  PROVE  Cause(c, PollSocket(k, {}, expired))
<1> DEFINE p == PollSocket(k, {}, expired)
<1>1. /\ p.rx = k.rx /\ p.unsent = k.unsent /\ p.inflight = k.inflight
      /\ p.state = k.state \/ (k.state = "TimeWait" /\ p.state = "Closed")
  BY IdlePollKeeps
<1> HIDE DEF p
<1>2. /\ MayRecv(p) <=> MayRecv(k)
      /\ CanRecv(p) <=> CanRecv(k)
      /\ MaySend(p) <=> MaySend(k)
      /\ CanSend(p) <=> CanSend(k)
      /\ Connected(p) => Connected(k)
  BY <1>1 DEF MayRecv, CanRecv, MaySend, CanSend, Connected, IsActive
<1>3. Cause(c, p)
  BY <1>2 DEF Cause
<1> QED
  BY <1>3 DEF p

(* A poll of the interface inside a call. *)
LEMMA PollWaitKeeps == OwnerInv /\ WaitInv /\ PollWait => OwnerInv' /\ WaitInv'
<1> SUFFICES ASSUME OwnerInv, WaitInv, PollWait
             PROVE  OwnerInv' /\ WaitInv'
  OBVIOUS
<1>1. TypeOK /\ call \in Calls /\ call # Idle /\ call.at = "poll"
  BY DEF PollWait, OwnerInv, OneOwner, TypeOK
<1>0. PICK expired \in BOOLEAN, changed \in BOOLEAN :
        \E ss \in {[s \in Handles |-> PollSocket(sockets[s], wire[s], expired)]} :
          /\ Changed(changed)
          /\ IF changed \/ call.others \/ call.once \/ ~WaitingPoll
               THEN Look([call EXCEPT !.once = FALSE, !.others = FALSE], ss)
               ELSE Wait /\ sockets' = ss /\ UNCHANGED <<streams, listener, lo>>
  BY DEF PollWait
<1>2. PICK ss \in {[s \in Handles |-> PollSocket(sockets[s], wire[s], expired)]} :
        /\ Changed(changed)
        /\ IF changed \/ call.others \/ call.once \/ ~WaitingPoll
             THEN Look([call EXCEPT !.once = FALSE, !.others = FALSE], ss)
             ELSE Wait /\ sockets' = ss /\ UNCHANGED <<streams, listener, lo>>
  BY <1>0
<1>3. /\ ss \in [Handles -> Socket]
      /\ \A s \in Handles : Keeps(sockets[s], ss[s]) /\ ~HasOutput(ss[s])
  BY <1>1, PolledOK
<1>4. wire' \in [Handles -> SUBSET Frames] /\ UNCHANGED left
  BY DEF PollWait
<1>5. CASE changed \/ call.others \/ call.once \/ ~WaitingPoll
  <2> DEFINE c == [call EXCEPT !.once = FALSE, !.others = FALSE]
  <2>1. c \in Calls /\ c.op = call.op /\ c.s = call.s /\ c.at = "poll"
    BY <1>1, ZenonT(30) DEF Calls
  <2>2. CallOwns(c)
    BY <1>1, <2>1 DEF OwnerInv, CallOwns
  <2>3. Look(c, ss)
    BY <1>2, <1>5
  <2> HIDE DEF c
  <2>4. /\ OwnerInv'
        /\ call' = Idle \/ (call' = c /\ sockets' = ss /\ Cause(c, ss[c.s]))
    BY <1>3, <1>4, <2>1, <2>2, <2>3, LookKeeps
  <2> QED
    BY <2>1, <2>4 DEF WaitInv
<1>6. CASE ~(changed \/ call.others \/ call.once \/ ~WaitingPoll)
  <2>1. /\ call' = [call EXCEPT !.at = "wait"]
        /\ sockets' = ss /\ UNCHANGED <<streams, listener, lo>>
    BY <1>2, <1>6 DEF Wait
  <2>2. /\ call' \in Calls /\ call'.op = call.op /\ call'.s = call.s
        /\ call'.n = call.n /\ call'.once = call.once
    BY <1>1, <2>1 DEF Calls
  <2>3. TypeOK'
    BY <1>1, <1>3, <1>4, <2>1, <2>2 DEF TypeOK
  <2>4. CallOwns(call)'
    <3>1. call.s \in Handles
      BY <1>1 DEF Calls
    <3> QED
      BY <1>1, <1>3, <1>4, <2>1, <2>2, <3>1 DEF OwnerInv, CallOwns, Keeps
  <2>5. OwnerInv'
    BY <1>3, <1>4, <2>1, <2>3, <2>4, OwnerKept
  <2>6. \A s \in Handles : wire[s] = {} /\ ~HasOutput(sockets[s])
    BY <1>2, <1>6 DEF Changed, Busy
  <2>7. Cause(call, sockets[call.s]) /\ ~call.once
    BY <1>1, <1>6 DEF WaitInv, Calls
  <2>8. Cause(call, ss[call.s])
    <3>1. call.s \in Handles /\ sockets[call.s] \in Socket
      BY <1>1 DEF Calls, TypeOK
    <3>2. ss[call.s] = PollSocket(sockets[call.s], {}, expired)
      BY <2>6, <3>1
    <3> QED
      BY <2>6, <2>7, <3>1, <3>2, CauseKept
  <2>9. Cause(call', sockets'[call'.s])
    BY <2>1, <2>2, <2>8 DEF Cause
  <2>10. \A s \in Handles : ~HasOutput(sockets'[s])
    BY <1>3, <2>1
  <2>11. WaitInv'
    BY <2>2, <2>7, <2>9, <2>10 DEF WaitInv
  <2> QED
    BY <2>5, <2>11
<1> QED
  BY <1>5, <1>6

------------------------------------------------------------------------------

(* Every step keeps the two invariants. *)
LEMMA StepKeeps == OwnerInv /\ WaitInv /\ [Next]_vars => OwnerInv' /\ WaitInv'
<1> SUFFICES ASSUME OwnerInv, WaitInv, [Next]_vars
             PROVE  OwnerInv' /\ WaitInv'
  OBVIOUS
<1>1. TypeOK
  BY DEF OwnerInv, OneOwner
<1>2. \A k : Keeps(k, k)
  BY DEF Keeps
<1>3. CASE PollWait
  BY <1>3, PollWaitKeeps
<1>4. CASE PollReturns
  <2>1. call \in Calls /\ call # Idle /\ call.at = "wait"
    BY <1>1, <1>4 DEF PollReturns, TypeOK
  <2>2. /\ call' = [call EXCEPT !.at = "poll", !.others = LoReadable]
        /\ UNCHANGED <<sockets, wire, streams, listener, left, lo>>
    BY <1>4 DEF PollReturns
  <2>3. /\ call' \in Calls /\ call'.op = call.op /\ call'.s = call.s
        /\ call'.n = call.n /\ call'.once = call.once /\ call'.at = "poll"
    BY <2>1, <2>2, ZenonT(30) DEF Calls, LoReadable
  <2>4. TypeOK'
    BY <1>1, <2>2, <2>3 DEF TypeOK
  <2>5. CallOwns(call)'
    BY <2>1, <2>2, <2>3 DEF OwnerInv, CallOwns
  <2>6. OwnerInv'
    BY <1>2, <2>2, <2>4, <2>5, OwnerKept
  <2>7. WaitInv'
    BY <2>1, <2>2, <2>3 DEF WaitInv, Cause
  <2> QED
    BY <2>6, <2>7
<1>5. CASE Bind
  <2>1. PICK s \in Handles :
          /\ create_socket(s)
          /\ Put(sockets, s, Listen(NewTcpSocket))
          /\ \/ listener' = s /\ UNCHANGED left
             \/ left' = left \cup {s} /\ UNCHANGED listener
    BY <1>5 DEF Bind
  <2>2. /\ s \in Unused
        /\ sockets' = [sockets EXCEPT ![s] = Listen(NewTcpSocket)]
        /\ listener = 0 /\ call' = Idle /\ UNCHANGED <<wire, streams, lo>>
    BY <1>5, <2>1, ZenonT(30) DEF Bind, create_socket, Put
  <2>3. TypeOK'
    BY <1>1, <2>1, <2>2, OpenedOK DEF TypeOK
  <2>4. OwnerInv'
    BY <1>1, <1>2, <2>1, <2>2, <2>3, OpenedOK, OwnerOfNew, ZenonT(30) DEF TypeOK
  <2> QED
    BY <2>2, <2>4 DEF WaitInv
<1>6. CASE CallAccept
  <2>1. /\ call' = Call("accept", listener, 0, TRUE) /\ listener # 0
        /\ UNCHANGED <<sockets, wire, streams, listener, left, lo>>
    BY <1>6 DEF CallAccept
  <2>2. /\ call' \in Calls /\ call'.op = "accept" /\ call'.s = listener
        /\ call'.once /\ call'.at = "poll"
    BY <1>1, <2>1, MaxUnitsAssumption DEF Call, Calls, Ops, TypeOK
  <2>3. TypeOK'
    BY <1>1, <2>1, <2>2, ZenonT(30) DEF TypeOK
  <2>4. CallOwns(call)'
    BY <2>1, <2>2, ZenonT(30) DEF CallOwns
  <2>5. OwnerInv'
    BY <1>2, <2>1, <2>3, <2>4, OwnerKept, ZenonT(30)
  <2> QED
    BY <2>2, <2>5 DEF WaitInv
<1>7. CASE DropListener
  <2>1. /\ listener # 0 /\ left' = left \cup {listener} /\ listener' = 0 /\ lo' = 0
        /\ call' = Idle /\ UNCHANGED <<sockets, wire, streams>>
    BY <1>7 DEF DropListener
  <2>2. TypeOK'
    BY <1>1, <2>1, MaxLoAssumption DEF TypeOK
  <2>3. \A s \in Handles : Passive(sockets'[s]) => s \in left' \cup {listener'}
    BY <2>1 DEF OwnerInv, Passive
  <2>4. \A s \in streams' \cup left' \cup ({listener'} \ {0}) : sockets'[s].state # "Free"
    BY <2>1 DEF OwnerInv
  <2>5. streams' \cap left' = {}
    BY <2>1 DEF OwnerInv, OneOwner
  <2>6. OwnerInv'
    BY <2>1, <2>2, <2>3, <2>4, <2>5, OwnerBy
  <2> QED
    BY <2>1, <2>6 DEF WaitInv
<1>8. CASE CallConnect
  <2>1. PICK s \in Handles : /\ create_socket(s)
                             /\ Put(sockets, s, Connect(NewTcpSocket))
                             /\ call' = Call("connect", s, 0, FALSE)
    BY <1>8, ZenonT(30) DEF CallConnect
  <2>2. /\ s \in Unused
        /\ sockets' = [sockets EXCEPT ![s] = Connect(NewTcpSocket)]
        /\ UNCHANGED <<wire, streams, listener, left, lo>>
    BY <1>8, <2>1, ZenonT(30) DEF CallConnect, create_socket, Put
  <2>3. /\ call' \in Calls /\ call'.op = "connect" /\ call'.s = s
        /\ call'.at = "poll"
    BY <2>1, MaxUnitsAssumption DEF Call, Calls, Ops
  <2>4. TypeOK'
    BY <1>1, <2>2, <2>3, OpenedOK DEF TypeOK
  <2>5. ~Passive(Connect(NewTcpSocket)) /\ ~Connected(Connect(NewTcpSocket))
    BY OpenedOK DEF Passive, Connected, MaySend
  <2>6. OwnerInv'
    BY <1>1, <1>2, <2>2, <2>3, <2>4, <2>5, OpenedOK, OwnerOfNew, ZenonT(30) DEF TypeOK
  <2>7. Cause(call', sockets'[call'.s])
    BY <1>1, <2>2, <2>3, <2>5 DEF Cause, TypeOK
  <2> QED
    BY <2>3, <2>6, <2>7 DEF WaitInv
<1>9. CASE CallIo
  <2>1. PICK s \in streams, op \in {"read", "write", "read_no_copy", "write_no_copy"},
             n \in 0..MaxUnits, once \in BOOLEAN : Look(Call(op, s, n, once), sockets)
    <3>1. 0 \in 0..MaxUnits
      BY MaxUnitsAssumption
    <3> QED
      BY <1>9, <3>1, ZenonT(30) DEF CallIo
  <2> DEFINE c == Call(op, s, n, once)
  <2>2. /\ c \in Calls /\ c.op = op /\ c.s = s /\ c.at = "poll"
    BY <1>1, <2>1 DEF Call, Calls, Ops, TypeOK
  <2> HIDE DEF c
  <2>3. CallOwns(c)
    BY <2>1, <2>2 DEF CallOwns
  <2>4. Look(c, sockets) /\ UNCHANGED left /\ wire' \in [Handles -> SUBSET Frames]
    BY <1>1, <1>9, <2>1 DEF CallIo, TypeOK, c
  <2>5. /\ OwnerInv'
        /\ call' = Idle \/ (call' = c /\ sockets' = sockets /\ Cause(c, sockets[c.s]))
    BY <1>1, <1>2, <2>2, <2>3, <2>4, LookKeeps DEF TypeOK
  <2> QED
    BY <2>2, <2>5, ZenonT(30) DEF WaitInv
<1>10. CASE Drop
  <2>1. PICK s \in streams : Put(sockets, s, Close(sockets[s])) /\ streams' = streams \ {s}
    BY <1>10 DEF Drop
  <2>2. /\ sockets' = [sockets EXCEPT ![s] = Close(sockets[s])]
        /\ s \in Handles /\ sockets[s] \in Socket
        /\ call' = Idle /\ UNCHANGED <<wire, listener, left, lo>>
    BY <1>1, <1>10, <2>1, ZenonT(30) DEF Drop, Put, TypeOK
  <2>3. Close(sockets[s]) \in Socket /\ Keeps(sockets[s], Close(sockets[s]))
    <3>1. 0 \in Nat
      OBVIOUS
    <3> QED
      BY <2>2, <3>1, CallsOK, CallsState, ZenonT(30) DEF Keeps
  <2>4. TypeOK'
    BY <1>1, <2>1, <2>2, <2>3 DEF TypeOK
  <2>5. \A t \in Handles : Keeps(sockets[t], sockets'[t])
    BY <1>1, <1>2, <2>2, <2>3 DEF TypeOK
  <2>6. OwnerInv'
    BY <2>1, <2>2, <2>4, <2>5, OwnerKept
  <2> QED
    BY <2>2, <2>6 DEF WaitInv
<1>11. ASSUME UNCHANGED <<sockets, streams, listener, left, call>>, TypeOK'
       PROVE  OwnerInv' /\ WaitInv'
  <2>1. call' # Idle => CallOwns(call)'
    BY <1>11 DEF OwnerInv, CallOwns
  <2>2. OwnerInv'
    BY <1>2, <1>11, <2>1, OwnerKept
  <2> QED
    BY <1>11, <2>2, ZenonT(30) DEF WaitInv, Cause
<1>12. CASE Arrive
  <2>1. wire' \in [Handles -> SUBSET Frames]
    BY <1>1, <1>12 DEF Arrive, TypeOK
  <2>2. TypeOK'
    BY <1>1, <1>12, <2>1 DEF Arrive, TypeOK
  <2> QED
    BY <1>11, <1>12, <2>2, ZenonT(30) DEF Arrive
<1>13. CASE ArriveLo
  <2>1. lo' \in 0..MaxLo
    BY <1>1, <1>13, MaxLoAssumption DEF ArriveLo, TypeOK
  <2>2. TypeOK'
    BY <1>1, <1>13, <2>1 DEF ArriveLo, TypeOK
  <2> QED
    BY <1>11, <1>13, <2>2 DEF ArriveLo
<1>14. CASE UNCHANGED vars
  <2>1. TypeOK'
    BY <1>1, <1>14 DEF vars, TypeOK
  <2> QED
    BY <1>11, <1>14, <2>1 DEF vars
<1> QED
  BY <1>3, <1>4, <1>5, <1>6, <1>7, <1>8, <1>9, <1>10, <1>12, <1>13, <1>14
  DEF Next, Step

(* At first there is no socket and no call. *)
LEMMA InitKeeps == Init => OwnerInv /\ WaitInv
<1> SUFFICES ASSUME Init
             PROVE  OwnerInv /\ WaitInv
  OBVIOUS
<1>1. TypeOK
  BY NewSocketOK, MaxLoAssumption DEF Init, TypeOK
<1>2. \A s \in Handles : sockets[s].state = "Free"
  BY DEF Init, FreeSlot
<1>3. OneOwner
  BY <1>1, <1>2 DEF OneOwner, Init
<1> QED
  BY <1>2, <1>3 DEF OwnerInv, WaitInv, Passive, Init

(* A handle has one owner in every reachable state, whatever the number of *)
(* sockets: what accept() and connect() hand out was nobody's, and a       *)
(* socket that listens, or will again after a reset, is never a stream's.  *)
THEOREM OwnersCorrect == Spec => []OneOwner
<1>1. OwnerInv => OneOwner
  BY DEF OwnerInv
<1> QED
  BY <1>1, InitKeeps, StepKeeps, PTL DEF Spec

(* The thread waits in poll() only with nothing left to send on any socket *)
(* (the poll of the interface comes first, in poll_wait).                  *)
THEOREM FlushedCorrect == Spec => []FlushedBeforeWaiting
<1>1. WaitInv => FlushedBeforeWaiting
  BY DEF WaitInv, FlushedBeforeWaiting
<1> QED
  BY <1>1, InitKeeps, StepKeeps, PTL DEF Spec

(* The thread waits in poll() only if its call still has a reason to: the  *)
(* poll of the interface before the wait, which had nothing to do, did not *)
(* take away the one the call saw at its last look.                        *)
THEOREM WaitsCorrect == Spec => []WaitsForCause
<1>1. WaitInv => WaitsForCause
  BY DEF WaitInv, WaitsForCause
<1> QED
  BY <1>1, InitKeeps, StepKeeps, PTL DEF Spec
==============================================================================

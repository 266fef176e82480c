------------------------------ MODULE Listener ------------------------------
(***************************************************************************)
(* accept() of a listener on a usnet address (src/apimultithread.rs). The  *)
(* listener has SOCKET_BACKLOG listening sockets in the SocketSet and the  *)
(* kernel socket lo. Its clones share it behind a mutex of its own, which  *)
(* accept() holds from beginning to end, also while it waits. bg() is      *)
(* reduced to its second critical section (module StcpNet has all of it);  *)
(* an accepted stream leaves this model.                                   *)
(***************************************************************************)
EXTENDS Smoltcp, Sequences, FiniteSets

CONSTANTS Threads,          \* threads that hold a clone of the listener
          SocketBacklog,    \* SOCKET_BACKLOG
          MaxLo,            \* bound: loopback connections waiting at a time
          Modes,            \* values of the nonblocking flag the application sets
          NoThread

ASSUME BacklogAssumption == SocketBacklog \in Nat \ {0}
ASSUME ThreadAssumption == MaxLo \in Nat /\ NoThread \notin Threads
ASSUME ModesAssumption == Modes \subseteq BOOLEAN /\ Modes # {}

VARIABLES listen_handles, nonblocking,
          holder,     \* the thread that holds the listener's mutex
          call,       \* where each thread is in accept()
          sockets,    \* the listening sockets and those they turned into
          wire,       \* frames waiting at the interface, per socket
          lo          \* connections waiting in the kernel's queue

vars == <<listen_handles, nonblocking, holder, call, sockets, wire, lo>>

Handles == 1 .. SocketBacklog
Listed == {listen_handles[i] : i \in DOMAIN listen_handles}

(* The types of the variables. *)
TypeOK ==
  /\ listen_handles \in Seq(Handles) /\ nonblocking \in BOOLEAN
  /\ holder \in Threads \union {NoThread}
  /\ call \in [Threads -> {"idle", "lock", "wait", "woken", "refill"}]
  /\ sockets \in [Handles -> Socket]
  /\ wire \in [Handles -> SUBSET Frames]
  /\ lo \in 0..MaxLo

(* After bind: set_nonblocking was not called, or before any accept. *)
Init ==
  /\ listen_handles = [h \in Handles |-> h]
  /\ nonblocking \in Modes
  /\ holder = NoThread
  /\ call = [t \in Threads |-> "idle"]
  /\ sockets = [h \in Handles |-> Listen(NewTcpSocket)]
  /\ wire = [h \in Handles |-> {}]
  /\ lo = 0

------------------------------------------------------------------------------
(* accept() *)

(* Variant: accept() does not wait for the listener's mutex. *)
AcceptWithoutLock(t) ==
  /\ call[t] = "idle"
  /\ holder' = t
  /\ call' = [call EXCEPT ![t] = "lock"]
  /\ UNCHANGED <<listen_handles, nonblocking, sockets, wire, lo>>

AcceptLock(t) ==
  /\ call[t] = "idle" /\ holder = NoThread
  /\ holder' = t
  /\ call' = [call EXCEPT ![t] = "lock"]
  /\ UNCHANGED <<listen_handles, nonblocking, sockets, wire, lo>>

(* A blocking accept enters cond.wait before it looks at anything. *)
AcceptWait(t) ==
  /\ call[t] = "lock" /\ ~nonblocking
  /\ call' = [call EXCEPT ![t] = "wait"]
  /\ UNCHANGED <<listen_handles, nonblocking, holder, sockets, wire, lo>>

Ready(h) == IsActive(sockets[h]) /\ MayRecv(sockets[h]) /\ MaySend(sockets[h])

AcceptReturns(t) == call' = [call EXCEPT ![t] = "idle"] /\ holder' = NoThread

(* Variant: the connection that was found is forgotten in the next loop. *)
AcceptCheckForgets(t) ==
  /\ call[t] = "woken" \/ (call[t] = "lock" /\ nonblocking)
  /\ listen_handles' = SelectSeq(listen_handles, LAMBDA h : ~Ready(h))
  /\ call' = [call EXCEPT ![t] = "lock"]
  /\ UNCHANGED <<nonblocking, holder, sockets, wire, lo>>

(* Variant: only the first listening socket is looked at. *)
AcceptCheckFirst(t) ==
  /\ call[t] = "woken" \/ (call[t] = "lock" /\ nonblocking)
  /\ \/ /\ Ready(listen_handles[1])
        /\ listen_handles' = Tail(listen_handles)
        /\ call' = [call EXCEPT ![t] = "refill"]
        /\ UNCHANGED holder
     \/ /\ ~Ready(listen_handles[1])
        /\ AcceptReturns(t)
        /\ UNCHANGED listen_handles
  /\ UNCHANGED <<nonblocking, sockets, wire, lo>>

(* The critical section of the loop: a loopback connection first, then the *)
(* first ready socket of listen_handles. Its handle is removed from the    *)
(* list after the section; only accept() uses the list.                    *)
AcceptCheck(t) ==
  /\ call[t] = "woken" \/ (call[t] = "lock" /\ nonblocking)
  /\ \/ /\ lo > 0
        /\ lo' = lo - 1
        /\ AcceptReturns(t)
        /\ UNCHANGED listen_handles
     \/ /\ lo = 0
        /\ \E i \in DOMAIN listen_handles :
             /\ Ready(listen_handles[i])
             /\ \A j \in 1 .. i - 1 : ~Ready(listen_handles[j])
             /\ listen_handles' = SubSeq(listen_handles, 1, i - 1)
                                    \o SubSeq(listen_handles, i + 1, Len(listen_handles))
        /\ call' = [call EXCEPT ![t] = "refill"]
        /\ UNCHANGED <<holder, lo>>
     \/ /\ lo = 0 /\ \A h \in Listed : ~Ready(h)
        /\ IF nonblocking THEN AcceptReturns(t)
           ELSE call' = [call EXCEPT ![t] = "lock"] /\ UNCHANGED holder
        /\ UNCHANGED <<listen_handles, lo>>
  /\ UNCHANGED <<nonblocking, sockets, wire>>

(* The second critical section: a new listening socket. *)
AcceptRefill(t) ==
  /\ call[t] = "refill"
  /\ \E h \in Handles \ Listed :
       /\ sockets' = [sockets EXCEPT ![h] = Listen(NewTcpSocket)]
       /\ wire' = [wire EXCEPT ![h] = {}]
       /\ listen_handles' = Append(listen_handles, h)
  /\ AcceptReturns(t)
  /\ UNCHANGED <<nonblocking, lo>>

(* set_nonblocking waits for the listener's mutex. *)
SetNonblocking(b) ==
  /\ holder = NoThread
  /\ nonblocking' = b
  /\ UNCHANGED <<listen_handles, holder, call, sockets, wire, lo>>

------------------------------------------------------------------------------
(* bg() and the network *)

(* Variant: the waiters are not notified. *)
BgDrainWithoutNotify ==
  /\ sockets' = [h \in Handles |-> PollSocket(sockets[h], wire[h], FALSE)]
  /\ wire' = [h \in Handles |-> {}]
  /\ UNCHANGED <<listen_handles, nonblocking, holder, call, lo>>

BgDrain ==
  /\ sockets' = [h \in Handles |-> PollSocket(sockets[h], wire[h], FALSE)]
  /\ wire' = [h \in Handles |-> {}]
  /\ call' = [t \in Threads |-> IF call[t] = "wait" THEN "woken" ELSE call[t]]
  /\ UNCHANGED <<listen_handles, nonblocking, holder, lo>>

(* What ends bg()'s poll(): frames, timers, and lo for as long as it has a *)
(* connection. Other sockets of the process can end it at any time.        *)
BgHasWork == lo > 0 \/ \E h \in Handles :
                         wire[h] # {} \/ HasOutput(sockets[h]) \/ HasTimer(sockets[h])

Arrive(h, f) ==
  /\ h \in Listed /\ f \notin wire[h]
  /\ MayArrive(f, Ingress(sockets[h], wire[h]))
  /\ wire' = [wire EXCEPT ![h] = @ \union {f}]
  /\ UNCHANGED <<listen_handles, nonblocking, holder, call, sockets, lo>>

ArriveLo ==
  /\ lo < MaxLo /\ lo' = lo + 1
  /\ UNCHANGED <<listen_handles, nonblocking, holder, call, sockets, wire>>

AcceptStep(t) == AcceptWait(t) \/ AcceptCheck(t) \/ AcceptRefill(t)

Next ==
  \/ \E t \in Threads : AcceptLock(t) \/ AcceptStep(t)
  \/ \E b \in Modes : SetNonblocking(b)
  \/ BgDrain
  \/ \E h \in Handles, f \in Frames : Arrive(h, f)
  \/ ArriveLo

Spec == Init /\ [][Next]_vars

(* bg() runs when it has work, and a thread that is not blocked goes on. *)
FairSpec == Spec /\ WF_vars(BgHasWork /\ BgDrain) /\ \A t \in Threads : WF_vars(AcceptStep(t))

(* The application calls accept() again and again. *)
LoopSpec == FairSpec /\ WF_vars(\E t \in Threads : AcceptLock(t))

------------------------------------------------------------------------------
(* Properties *)

(* Between the two critical sections of accept() nobody else touches the   *)
(* list: a thread inside accept() holds the mutex, no handle is listed     *)
(* twice, and at most the one that is being replaced is missing.           *)
(* The variables keep their types.                                         *)
ListenerConsistent ==
  /\ TypeOK
  /\ \A t \in Threads : call[t] # "idle" => holder = t
  /\ Cardinality(Listed) = Len(listen_handles)
  /\ Len(listen_handles) = SocketBacklog - Cardinality({t \in Threads : call[t] = "refill"})

(* A connection that a peer has established is not lost by accept(): it    *)
(* leaves the state Established only through the peer (FIN, RST), and the  *)
(* list only in the hands of a thread that returns it.                     *)
ConnectionNotDropped ==
  [][\A h \in Listed : sockets[h].state = "Established" =>
       \/ h \in Listed' /\ sockets'[h].state = "Established"
       \/ h \in Listed' /\ wire[h] \intersect {"Fin", "Rst"} # {}
       \/ h \notin Listed' /\ \E t \in Threads : call'[t] = "refill"]_vars

InAccept(t) == call[t] \in {"lock", "wait", "woken"}

(* A blocking accept() returns when a loopback connection waits: lo keeps  *)
(* ending poll(), so that a missed notify_all is followed by another.      *)
LoopbackAccepted == \A t \in Threads : (InAccept(t) /\ lo > 0) ~> call[t] = "idle"

(* With the nonblocking flag, an application that keeps calling accept()   *)
(* gets each connection, unless the peer gives up or loopback connections  *)
(* come first.                                                             *)
PollingAcceptTakes ==
  <>[]nonblocking => \A h \in Handles : Ready(h) ~> (~Ready(h) \/ h \notin Listed \/ lo > 0)
==============================================================================

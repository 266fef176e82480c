------------------------------ MODULE PollFds -------------------------------
(***************************************************************************)
(* The kernel sockets bg() waits for (src/apimultithread.rs). A listener   *)
(* or UDP socket has beside its userspace sockets a kernel socket, lo, on  *)
(* the loopback interface. bind registers its descriptor by pushing it on  *)
(* fds_add, Drop pushes it on fds_remove, and bg() merges both into        *)
(* fds_extra, the descriptors it passes to poll().                         *)
(***************************************************************************)
EXTENDS Integers

CONSTANTS Objs,                \* listeners and UDP sockets
          Fds,                 \* descriptors the kernel can give out
          MaxQueued,           \* bound: drops of one descriptor between two loops of bg()
          DropsUnregistered    \* the application drops sockets bind did not register

ASSUME MaxQueuedAssumption == MaxQueued \in Nat
ASSUME DropsUnregisteredAssumption == DropsUnregistered \in BOOLEAN

VARIABLES fds_add, fds_remove, fds_extra,   \* how often each descriptor occurs
          bgpc,     \* bg(): at its first lock, in poll(), at its second lock, unwound
          obj,      \* each socket: its state, the descriptor of lo, what arrived on lo
          other     \* poll() has another reason to return: a frame, a notification, a timer

fdVars == <<fds_add, fds_remove, fds_extra, bgpc, obj, other>>

(* lo: nothing to accept or receive; something arrived; and bg() has       *)
(* called notify_all since.                                                *)
Absent == [state |-> "absent"]
Sockets == [state : {"registered", "unregistered", "dropping"}, fd : Fds,
            lo : {"quiet", "pending", "noticed"}]

(* The types of the variables. *)
FdTypeOK ==
  /\ fds_add \in [Fds -> Nat] /\ fds_remove \in [Fds -> Nat] /\ fds_extra \in [Fds -> Nat]
  /\ bgpc \in {"prepare", "poll", "drain", "panic"}
  /\ obj \in [Objs -> Sockets \union {Absent}]
  /\ other \in BOOLEAN

FdInit ==
  /\ fds_add = [f \in Fds |-> 0]
  /\ fds_remove = [f \in Fds |-> 0]
  /\ fds_extra = [f \in Fds |-> 0]
  /\ bgpc = "prepare"
  /\ obj = [o \in Objs |-> Absent]
  /\ other = FALSE

------------------------------------------------------------------------------
(* Sockets *)

Create(o, f, state) ==
  /\ obj[o] = Absent
  /\ \A p \in Objs : obj[p] # Absent => obj[p].fd # f
  /\ obj' = [obj EXCEPT ![o] = [state |-> state, fd |-> f, lo |-> "quiet"]]

(* bind or bind_udp of a usnet address. Nothing wakes bg(). *)
Bind(o, f) ==
  /\ Create(o, f, "registered")
  /\ fds_add' = [fds_add EXCEPT ![f] = @ + 1]
  /\ UNCHANGED <<fds_remove, fds_extra, bgpc, other>>

(* bind or bind_udp of a loopback address returns before fds_add.push. *)
BindLoopback(o, f) ==
  /\ Create(o, f, "unregistered")
  /\ UNCHANGED <<fds_add, fds_remove, fds_extra, bgpc, other>>

(* UdpSocket::try_clone: lo.try_clone() is a new descriptor. *)
TryClone(o, c, f) ==
  /\ obj[o] # Absent /\ obj[o].state # "dropping"
  /\ Create(c, f, "unregistered")
  /\ UNCHANGED <<fds_add, fds_remove, fds_extra, bgpc, other>>

(* Drop::drop pushes the descriptor, whether it was registered or not. *)
Drop(o) ==
  /\ obj[o] # Absent
  /\ \/ obj[o].state = "registered"
     \/ obj[o].state = "unregistered" /\ DropsUnregistered
  /\ fds_remove[obj[o].fd] < MaxQueued
  /\ fds_remove' = [fds_remove EXCEPT ![obj[o].fd] = @ + 1]
  /\ obj' = [obj EXCEPT ![o].state = "dropping"]
  /\ UNCHANGED <<fds_add, fds_extra, bgpc, other>>

(* Then the field lo is dropped, and the descriptor is closed. *)
DropLo(o) ==
  /\ obj[o] # Absent /\ obj[o].state = "dropping"
  /\ obj' = [obj EXCEPT ![o] = Absent]
  /\ UNCHANGED <<fds_add, fds_remove, fds_extra, bgpc, other>>

(* A connection or datagram arrives on loopback; the application takes it. *)
LoArrives(o) ==
  /\ obj[o] # Absent /\ obj[o].lo = "quiet"
  /\ obj' = [obj EXCEPT ![o].lo = "pending"]
  /\ UNCHANGED <<fds_add, fds_remove, fds_extra, bgpc, other>>

TakeLo(o) ==
  /\ obj[o] # Absent /\ obj[o].state # "dropping" /\ obj[o].lo # "quiet"
  /\ obj' = [obj EXCEPT ![o].lo = "quiet"]
  /\ UNCHANGED <<fds_add, fds_remove, fds_extra, bgpc, other>>

ArriveOther ==
  /\ ~other /\ other' = TRUE
  /\ UNCHANGED <<fds_add, fds_remove, fds_extra, bgpc, obj>>

------------------------------------------------------------------------------
(* bg() *)

(* Variant: fds_add is not cleared. *)
BgPrepareKeepsAdd ==
  /\ bgpc = "prepare"
  /\ fds_add[CHOOSE f \in Fds : TRUE] < MaxQueued
  /\ fds_extra' = [f \in Fds |-> fds_extra[f] + fds_add[f]]
  /\ bgpc' = "poll"
  /\ UNCHANGED <<fds_add, fds_remove, obj, other>>

(* Variant: new descriptors replace the old ones. *)
BgPrepareReplaces ==
  /\ bgpc = "prepare"
  /\ fds_extra' = IF \E f \in Fds : fds_add[f] > 0 THEN fds_add ELSE fds_extra
  /\ fds_add' = [f \in Fds |-> 0]
  /\ fds_remove' = [f \in Fds |-> 0]
  /\ bgpc' = "poll"
  /\ UNCHANGED <<obj, other>>

(* First critical section: append fds_add; then remove one occurrence of   *)
(* each entry of fds_remove, where position(..).unwrap() panics if there   *)
(* is none. No step reads the lists after the panic.                       *)
BgPrepare ==
  /\ bgpc = "prepare"
  /\ fds_add' = [f \in Fds |-> 0]
  /\ \/ /\ \A f \in Fds : fds_remove[f] <= fds_extra[f] + fds_add[f]
        /\ fds_extra' = [f \in Fds |-> fds_extra[f] + fds_add[f] - fds_remove[f]]
        /\ fds_remove' = [f \in Fds |-> 0]
        /\ bgpc' = "poll"
     \/ /\ \E f \in Fds : fds_remove[f] > fds_extra[f] + fds_add[f]
        /\ fds_extra' = [f \in Fds |-> fds_extra[f] + fds_add[f]]
        /\ bgpc' = "panic"
        /\ UNCHANGED fds_remove
  /\ UNCHANGED <<obj, other>>

(* poll() reports a polled descriptor as long as it is readable, or not    *)
(* open (POLLNVAL).                                                        *)
FdReady(f) == \A o \in Objs : obj[o] # Absent /\ obj[o].fd = f => obj[o].lo # "quiet"

BgPoll ==
  /\ bgpc = "poll"
  /\ other \/ \E f \in Fds : fds_extra[f] > 0 /\ FdReady(f)
  /\ bgpc' = "drain"
  /\ UNCHANGED <<fds_add, fds_remove, fds_extra, obj, other>>

(* Second critical section: poll the interface and notify all waiters. *)
FdDrain ==
  /\ bgpc = "drain"
  /\ bgpc' = "prepare"
  /\ other' = FALSE
  /\ obj' = [o \in Objs |-> IF obj[o] # Absent /\ obj[o].lo = "pending"
                            THEN [obj[o] EXCEPT !.lo = "noticed"] ELSE obj[o]]
  /\ UNCHANGED <<fds_add, fds_remove, fds_extra>>

Bg == BgPrepare \/ BgPoll \/ FdDrain

FdNext ==
  \/ Bg
  \/ ArriveOther
  \/ \E o \in Objs :
       \/ Drop(o) \/ DropLo(o) \/ LoArrives(o) \/ TakeLo(o)
       \/ \E f \in Fds : \/ Bind(o, f) \/ BindLoopback(o, f)
                         \/ \E c \in Objs : TryClone(o, c, f)

(* bg() is a loop that only poll() blocks. *)
FdSpec == FdInit /\ [][FdNext]_fdVars /\ WF_fdVars(Bg)

------------------------------------------------------------------------------
(* Properties *)

Registered(f) == \E o \in Objs : obj[o] # Absent /\ obj[o].state = "registered" /\ obj[o].fd = f

(* bg() survives: position(..).unwrap() finds every descriptor that a Drop *)
(* asked it to remove.                                                     *)
BgSurvives == bgpc # "panic"

(* Whatever is bound, dropped and bound again with the same descriptor     *)
(* before bg() runs, the lists agree with the sockets that exist: each     *)
(* descriptor is listed once more often than it is to be removed if a      *)
(* registered socket has it, and as often otherwise.                       *)
FdAccounting ==
  \A f \in Fds : fds_extra[f] + fds_add[f]
                   = fds_remove[f] + (IF Registered(f) THEN 1 ELSE 0)

(* No two sockets that exist have the same descriptor, which with          *)
(* FdAccounting is an inductive invariant.                                 *)
FdInv ==
  /\ FdAccounting
  /\ BgSurvives
  /\ \A o, p \in Objs : obj[o] # Absent /\ obj[p] # Absent /\ o # p => obj[o].fd # obj[p].fd

(* A loopback connection or datagram wakes the threads in accept or        *)
(* recv_from, once poll() has the descriptor of the registered socket.     *)
PolledConnectionNoticed ==
  \A o \in Objs :
    (/\ obj[o] # Absent /\ obj[o].state = "registered" /\ obj[o].lo = "pending"
     /\ fds_extra[obj[o].fd] > fds_remove[obj[o].fd])
    ~> (obj[o] = Absent \/ obj[o].state = "dropping" \/ obj[o].lo # "pending")
==============================================================================

----------------------------- MODULE SocketSet ------------------------------
(***************************************************************************)
(* Who owns the handles of smoltcp's SocketSet (src/apimultithread.rs).    *)
(* Streams, UDP sockets and listeners hold handles; a handle is an index   *)
(* that is given out again once its socket was removed, and using a handle *)
(* without a socket panics. Clones of a stream or of a UDP socket share a  *)
(* handle and count as references.                                         *)
(***************************************************************************)
EXTENDS Integers, FiniteSets

CONSTANTS MaxSockets,      \* bound on the number of sockets in the set
          Objs,            \* the library's objects the application can hold
          SocketBacklog    \* SOCKET_BACKLOG: listening sockets per listener

ASSUME MaxSocketsAssumption == MaxSockets \in Nat
ASSUME SocketBacklogAssumption == SocketBacklog \in Nat \ {0}
ASSUME ObjsAssumption == IsFiniteSet(Objs)

Handles == 0 .. MaxSockets - 1

VARIABLES slot,     \* what each slot holds: nothing, a UDP socket, or a TCP socket
                    \* in state Listen, in state Closed, or in another ("tcp")
          refs,     \* reference counts
          leaked,   \* references without an owner: clones that failed
          obj       \* what each object is, and the handles it holds

vars == <<slot, refs, leaked, obj>>

Kinds == {"none", "connecting", "stream", "udp", "listener", "accepting"}

None == [kind |-> "none", hs |-> {}]

(* The types of the variables. *)
TypeOK ==
  /\ slot \in [Handles -> {"free", "listen", "tcp", "closed", "udp"}]
  /\ refs \in [Handles -> Nat]
  /\ leaked \in [Handles -> Nat]
  /\ obj \in [Objs -> [kind : Kinds, hs : SUBSET Handles]]

Init ==
  /\ slot = [h \in Handles |-> "free"]
  /\ refs = [h \in Handles |-> 0]
  /\ leaked = [h \in Handles |-> 0]
  /\ obj = [o \in Objs |-> None]

------------------------------------------------------------------------------
(* SocketSet::add takes the first free slot. The n sockets that n calls in *)
(* one critical section add take the n first.                              *)
FirstFree(hs, n) ==
  /\ hs \subseteq {h \in Handles : slot[h] = "free"}
  /\ Cardinality(hs) = n
  /\ \A h \in hs, g \in Handles : g < h /\ slot[g] = "free" => g \in hs

Add(hs, what) ==
  /\ slot' = [h \in Handles |-> IF h \in hs THEN what ELSE slot[h]]
  /\ refs' = [h \in Handles |-> IF h \in hs THEN 1 ELSE refs[h]]

(* SocketSet::retain *)
Retain(h) == refs' = [refs EXCEPT ![h] = @ + 1]

(* For each handle in hs SocketSet::release, then prune: of the sockets    *)
(* without references, UDP sockets and closed TCP sockets are removed; a   *)
(* listening one becomes Closed, and is removed if another prune follows;  *)
(* any other only begins to close. With sk the slots before.               *)
ReleaseAndPrune(hs, sk) ==
  /\ refs' = [h \in Handles |-> IF h \in hs THEN refs[h] - 1 ELSE refs[h]]
  /\ \E last \in hs :
       slot' = [h \in Handles |->
                  IF refs'[h] # 0 THEN sk[h]
                  ELSE CASE sk[h] \in {"closed", "udp"} -> "free"
                         [] sk[h] = "listen" -> IF h = last THEN "closed" ELSE "free"
                         [] OTHER -> sk[h]]

Become(o, kind, hs) == obj' = [obj EXCEPT ![o] = [kind |-> kind, hs |-> hs]]

------------------------------------------------------------------------------
(* StcpNetRef::bind creates the listening sockets of a new listener. *)
Bind(o) ==
  /\ obj[o].kind = "none"
  /\ \E hs \in SUBSET Handles :
       /\ FirstFree(hs, SocketBacklog)
       /\ Add(hs, "listen")
       /\ Become(o, "listener", hs)
  /\ UNCHANGED leaked

BindUdp(o) ==
  /\ obj[o].kind = "none"
  /\ \E hs \in SUBSET Handles :
       FirstFree(hs, 1) /\ Add(hs, "udp") /\ Become(o, "udp", hs)
  /\ UNCHANGED leaked

(* connect_timeout_opt creates the socket and waits; the stream object     *)
(* exists only after success.                                              *)
ConnectStart(o) ==
  /\ obj[o].kind = "none"
  /\ \E hs \in SUBSET Handles :
       FirstFree(hs, 1) /\ Add(hs, "tcp") /\ Become(o, "connecting", hs)
  /\ UNCHANGED leaked

ConnectOk(o) ==
  /\ obj[o].kind = "connecting"
  /\ \A h \in obj[o].hs : slot[h] = "tcp"
  /\ Become(o, "stream", obj[o].hs)
  /\ UNCHANGED <<slot, refs, leaked>>

(* Variant: the error path does not release the handle. *)
ConnectFailWithoutRelease(o) ==
  /\ obj[o].kind = "connecting"
  /\ Become(o, "none", {})
  /\ UNCHANGED <<slot, refs, leaked>>

(* Refused: the socket is Closed. Timed out: abort makes it so. *)
ConnectFail(o) ==
  /\ obj[o].kind = "connecting"
  /\ ReleaseAndPrune(obj[o].hs,
       [h \in Handles |-> IF h \in obj[o].hs THEN "closed" ELSE slot[h]])
  /\ Become(o, "none", {})
  /\ UNCHANGED leaked

(* accept finds an established connection, makes a stream o of it and,     *)
(* still holding the listener's mutex, removes its handle from             *)
(* listen_handles.                                                         *)
AcceptTake(l, o, h) ==
  /\ obj[l].kind = "listener" /\ h \in obj[l].hs
  /\ obj[o].kind = "none"
  /\ slot[h] = "tcp"
  /\ obj' = [obj EXCEPT ![l] = [kind |-> "accepting", hs |-> obj[l].hs \ {h}],
                        ![o] = [kind |-> "stream", hs |-> {h}]]
  /\ UNCHANGED <<slot, refs, leaked>>

(* Variant: no new listening socket. *)
AcceptRefillNothing(l) ==
  /\ obj[l].kind = "accepting"
  /\ Become(l, "listener", obj[l].hs)
  /\ UNCHANGED <<slot, refs, leaked>>

(* accept takes the global mutex again and adds a new listening socket. *)
AcceptRefill(l) ==
  /\ obj[l].kind = "accepting"
  /\ \E hs \in SUBSET Handles :
       /\ FirstFree(hs, 1)
       /\ Add(hs, "listen")
       /\ Become(l, "listener", obj[l].hs \union hs)
  /\ UNCHANGED leaked

(* Variant: the clone is not counted. *)
TryCloneWithoutRetain(o, c) ==
  /\ obj[o].kind \in {"stream", "udp"} /\ obj[c].kind = "none"
  /\ Become(c, obj[o].kind, obj[o].hs)
  /\ UNCHANGED <<slot, refs, leaked>>

(* StcpStream::try_clone, UdpSocket::try_clone *)
TryClone(o, c) ==
  /\ obj[o].kind \in {"stream", "udp"} /\ obj[c].kind = "none"
  /\ \E h \in obj[o].hs : Retain(h)
  /\ Become(c, obj[o].kind, obj[o].hs)
  /\ UNCHANGED <<slot, leaked>>

(* UdpSocket::try_clone counts the reference before lo.try_clone()? fails. *)
TryCloneFails(o) ==
  /\ obj[o].kind = "udp"
  /\ \E h \in obj[o].hs :
       Retain(h) /\ leaked' = [leaked EXCEPT ![h] = @ + 1]
  /\ UNCHANGED <<slot, obj>>

(* Drop for StcpListener, StcpStream and UdpSocket. *)
Drop(o) ==
  /\ obj[o].kind \in {"stream", "udp", "listener"}
  /\ ReleaseAndPrune(obj[o].hs, slot)
  /\ Become(o, "none", {})
  /\ UNCHANGED leaked

(* shutdown(Both) aborts the socket. *)
Shutdown(o) ==
  /\ obj[o].kind = "stream"
  /\ slot' = [h \in Handles |-> IF h \in obj[o].hs THEN "closed" ELSE slot[h]]
  /\ UNCHANGED <<refs, leaked, obj>>

(* A poll of the interface: a listening socket takes a connection, loses   *)
(* it again before it was established, or a socket moves to Closed.        *)
Poll(h, what) ==
  /\ \/ slot[h] = "listen" /\ what = "tcp"
     \/ slot[h] = "tcp" /\ what \in {"listen", "closed"}
  /\ slot' = [slot EXCEPT ![h] = what]
  /\ UNCHANGED <<refs, leaked, obj>>

Next ==
  \/ \E o \in Objs : \/ Bind(o) \/ BindUdp(o)
                     \/ ConnectStart(o) \/ ConnectOk(o) \/ ConnectFail(o)
                     \/ AcceptRefill(o) \/ TryCloneFails(o)
                     \/ Drop(o) \/ Shutdown(o)
  \/ \E o, c \in Objs : \/ TryClone(o, c)
                        \/ \E h \in Handles : AcceptTake(o, c, h)
  \/ \E h \in Handles, what \in {"listen", "tcp", "closed"} : Poll(h, what)

Spec == Init /\ [][Next]_vars

------------------------------------------------------------------------------
(* Properties *)

Owners(h) == {o \in Objs : h \in obj[o].hs}

(* The reference count of a socket is the number of objects that hold its  *)
(* handle, plus the references lost by failed clones: no release finds a   *)
(* count of zero, and no socket is removed under an object or kept alive   *)
(* by a dropped one.                                                       *)
RefsCountOwners == \A h \in Handles : refs[h] = Cardinality(Owners(h)) + leaked[h]

(* sockets.get never panics: every handle that an object holds names a     *)
(* socket of the object's protocol, whatever was dropped, pruned and       *)
(* created in between.                                                     *)
HandlesAreLive ==
  \A o \in Objs, h \in Handles :
    h \in obj[o].hs => IF obj[o].kind = "udp" THEN slot[h] = "udp"
                       ELSE slot[h] \in {"listen", "tcp", "closed"}

(* A listener has SOCKET_BACKLOG listening handles, one less while accept  *)
(* replaces the one it took, and shares none of them: accept hands a       *)
(* connection over, and never to two streams.                              *)
BacklogKept ==
  \A l \in Objs :
    /\ obj[l].kind \in {"listener", "accepting"} =>
         \A o \in Objs \ {l} : obj[l].hs \intersect obj[o].hs = {}
    /\ obj[l].kind = "listener" => Cardinality(obj[l].hs) = SocketBacklog
    /\ obj[l].kind = "accepting" => Cardinality(obj[l].hs) = SocketBacklog - 1

(* What makes the two properties above inductive: a free slot has no       *)
(* references, and every object but a listener holds at most one handle.   *)
OwnershipInv ==
  /\ RefsCountOwners
  /\ HandlesAreLive
  /\ \A h \in Handles : slot[h] = "free" => refs[h] = 0
  /\ \A o \in Objs :
       /\ obj[o].kind = "none" => obj[o].hs = {}
       /\ obj[o].kind \in {"connecting", "stream", "udp"} => \E h \in Handles : obj[o].hs = {h}
==============================================================================

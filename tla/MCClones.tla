------------------------------ MODULE MCClones ------------------------------
(* What the clones of a socket share: the locks around its timeout, and    *)
(* the state of a UDP socket.                                              *)
EXTENDS UdpSocket, TimeoutLocks, TLC

CONSTANTS r1, r2, w1, w2, s1, s2

(* Each stream is read by one thread, and each timeout set by another. *)
OneReaderPerStream == r1 :> s1 @@ r2 :> s2 @@ w1 :> s1 @@ w2 :> s2

Addr(ip, port) == [ip |-> ip, port |-> port]
MCSenders == {Addr("a", 1), Addr("b", 2)}
MCConnectAddrs == {Addr("a", 1), Addr("any", 2), Addr("lo", 1), Addr("own", 1)}

(* The two models share nothing: each is explored while the other rests,   *)
(* where none of its fair actions is enabled.                              *)
VARIABLE explored

Init ==
  /\ UdpInit /\ LockInit
  /\ \/ explored = "locks"
     \/ explored = "udp" /\ data = Streams

Next ==
  /\ UNCHANGED explored
  /\ \/ explored = "udp" /\ UdpNext /\ UNCHANGED lockVars
     \/ explored = "locks" /\ LockNext /\ UNCHANGED udpVars

Spec ==
  /\ Init /\ [][Next]_<<udpVars, lockVars, explored>>
  /\ UdpFairness /\ LockFairness
==============================================================================

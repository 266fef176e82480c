------------------------------ MODULE Smoltcp ------------------------------
(***************************************************************************)
(* What the library uses of smoltcp's TcpSocket, as the code of src/ calls *)
(* it (an external crate: every definition here is modelled from its use). *)
(* A socket is a record: the TCP state, the occupied units of the receive  *)
(* buffer (rx), the units of the send buffer that were not sent yet        *)
(* (unsent) and those sent but not acknowledged (inflight), and the        *)
(* control segments that are ready for the next dispatch (out).            *)
(* A slot of the SocketSet without a socket has the state "Free".          *)
(***************************************************************************)
EXTENDS Naturals

CONSTANTS RxCap,    \* capacity of a receive buffer, in units of data
          TxCap     \* capacity of a send buffer, in units of data

ASSUME RxCapAssumption == RxCap \in Nat \ {0}
ASSUME TxCapAssumption == TxCap \in Nat \ {0}

TcpStates == {"Free", "Closed", "Listen", "SynSent", "SynReceived",
              "Established", "FinWait1", "FinWait2", "CloseWait", "Closing",
              "LastAck", "TimeWait"}
Controls == {"Syn", "Fin", "Rst", "Wnd"}
(* "Stray" stands for a frame that belongs to no socket. *)
Frames == {"Syn", "SynAck", "Ack", "Data", "Fin", "Rst", "Stray"}

(* The send buffer holds no more than its capacity. *)
Socket == {k \in [state : TcpStates, rx : 0..RxCap, unsent : 0..TxCap,
                  inflight : 0..TxCap, out : SUBSET Controls] :
             k.unsent + k.inflight <= TxCap}

FreeSlot == [state |-> "Free", rx |-> 0, unsent |-> 0, inflight |-> 0, out |-> {}]
NewTcpSocket == [FreeSlot EXCEPT !.state = "Closed"]

------------------------------------------------------------------------------
(* Queries *)

IsActive(k) == k.state \notin {"Free", "Closed", "TimeWait", "Listen"}
MaySend(k) == k.state \in {"Established", "CloseWait"}
MayRecv(k) == k.state \in {"Established", "FinWait1", "FinWait2"} \/ k.rx > 0
CanSend(k) == MaySend(k) /\ k.unsent + k.inflight < TxCap
CanRecv(k) == k.rx > 0

(* Something the next poll of the interface will put on the wire. *)
HasOutput(k) == k.unsent > 0 \/ k.out # {}

(* A retransmission or TIME-WAIT timer is running. *)
HasTimer(k) == \/ k.inflight > 0
               \/ k.state \in {"SynSent", "SynReceived", "FinWait1", "Closing",
                               "LastAck", "TimeWait"}

------------------------------------------------------------------------------
(* Parts of a change of state *)

Enter(k, state) == [k EXCEPT !.state = state]
SetOut(k, out) == [k EXCEPT !.out = out]
AddOut(k, c) == [k EXCEPT !.out = @ \union {c}]
Acked(k) == [k EXCEPT !.inflight = 0]
DropTx(k) == Acked([k EXCEPT !.unsent = 0])

------------------------------------------------------------------------------
(* Calls of the application *)

Connect(k) == SetOut(Enter(k, "SynSent"), {"Syn"})
Listen(k) == Enter(k, "Listen")

(* send_slice / send of n units: what fits is queued. *)
Send(k, n) ==
  [k EXCEPT !.unsent = IF @ + n + k.inflight <= TxCap THEN @ + n
                                                      ELSE TxCap - k.inflight]

(* recv_slice / recv of up to n units. Reading from a full buffer reopens  *)
(* the advertised window, which is announced by the next dispatch.         *)
Recv(k, n) ==
  LET rest == [k EXCEPT !.rx = IF n <= @ THEN @ - n ELSE 0]
  IN IF k.rx = RxCap /\ n > 0 /\ k.state \in {"Established", "FinWait1", "FinWait2"}
     THEN AddOut(rest, "Wnd") ELSE rest

Close(k) ==
  CASE k.state = "Listen" -> Enter(k, "Closed")
    [] k.state = "SynSent" -> SetOut(Enter(k, "Closed"), {"Rst"})
    [] k.state \in {"SynReceived", "Established"} -> AddOut(Enter(k, "FinWait1"), "Fin")
    [] k.state = "CloseWait" -> AddOut(Enter(k, "LastAck"), "Fin")
    [] OTHER -> k

(* The reset is sent by the next dispatch, if there is a remote endpoint.  *)
Abort(k) ==
  CASE k.state = "Closed" -> k
    [] k.state = "Listen" -> Enter(k, "Closed")
    [] OTHER -> SetOut(Enter(DropTx(k), "Closed"), {"Rst"})

------------------------------------------------------------------------------
(* Ingress: one operator per kind of segment, applied in the order a peer  *)
(* sends them. A segment that the state does not expect is dropped.        *)

OnSyn(k) == IF k.state = "Listen" THEN SetOut(Enter(k, "SynReceived"), {"Syn"}) ELSE k

OnSynAck(k) == IF k.state = "SynSent" /\ "Syn" \notin k.out
               THEN Enter(k, "Established") ELSE k

OnAck(k) ==
  CASE k.state = "SynReceived" /\ "Syn" \notin k.out -> Enter(Acked(k), "Established")
    [] k.state = "FinWait1" /\ "Fin" \notin k.out -> Enter(Acked(k), "FinWait2")
    [] k.state = "Closing" /\ "Fin" \notin k.out -> Enter(Acked(k), "TimeWait")
    [] k.state = "LastAck" /\ "Fin" \notin k.out -> Enter(Acked(k), "Closed")
    [] OTHER -> Acked(k)

OnData(k) ==
  IF k.state \in {"Established", "FinWait1", "FinWait2"} /\ k.rx < RxCap
  THEN [k EXCEPT !.rx = @ + 1] ELSE k

OnFin(k) ==
  CASE k.state = "Established" -> Enter(k, "CloseWait")
    [] k.state = "FinWait1" -> Enter(k, "Closing")
    [] k.state = "FinWait2" -> Enter(k, "TimeWait")
    [] OTHER -> k

OnRst(k) ==
  CASE k.state \in {"Free", "Closed", "Listen"} -> k
    [] k.state = "SynReceived" -> SetOut(Enter(k, "Listen"), {})
    [] OTHER -> SetOut(Enter(DropTx(k), "Closed"), {})

Ingress(k, fr) ==
  LET syn == IF "Syn" \in fr THEN OnSyn(k) ELSE k
      synack == IF "SynAck" \in fr THEN OnSynAck(syn) ELSE syn
      ack == IF "Ack" \in fr THEN OnAck(synack) ELSE synack
      data == IF "Data" \in fr THEN OnData(ack) ELSE ack
      fin == IF "Fin" \in fr THEN OnFin(data) ELSE data
  IN IF "Rst" \in fr THEN OnRst(fin) ELSE fin

(* Egress: everything that is ready is put on the wire. *)
Egress(k) == [state |-> k.state, rx |-> k.rx, unsent |-> 0,
              inflight |-> k.inflight + k.unsent, out |-> {}]

(* One poll of the interface for a socket: the frames that arrived, then   *)
(* an expired TIME-WAIT timer, then all output.                            *)
PollSocket(k, fr, expired) ==
  LET in == Ingress(k, fr)
  IN Egress(IF expired /\ in.state = "TimeWait"
            THEN Enter(in, "Closed") ELSE in)

------------------------------------------------------------------------------
(* What a conforming peer may have sent to a socket in this state.         *)
MayArrive(f, k) ==
  CASE f = "Syn" -> k.state = "Listen"
    [] f = "SynAck" -> k.state = "SynSent" /\ "Syn" \notin k.out
    [] f = "Ack" -> \/ k.inflight > 0
                    \/ k.state = "SynReceived" /\ "Syn" \notin k.out
                    \/ k.state \in {"FinWait1", "Closing", "LastAck"}
                         /\ "Fin" \notin k.out
    [] f = "Data" -> k.state \in {"Established", "FinWait1", "FinWait2"}
                       /\ k.rx < RxCap
    [] f = "Fin" -> k.state \in {"Established", "FinWait1", "FinWait2"}
    [] f = "Rst" -> k.state \notin {"Free", "Closed", "Listen", "TimeWait"}
    [] f = "Stray" -> k.state = "Free"
==============================================================================

--------------------------- MODULE SmoltcpProofs ----------------------------
(***************************************************************************)
(* Every operation on a TCP socket keeps the socket well formed.           *)
(***************************************************************************)
EXTENDS Smoltcp, TLAPS

(* A new socket, and an empty slot of the set, are well formed. *)
LEMMA NewSocketOK == FreeSlot \in Socket /\ NewTcpSocket \in Socket
BY RxCapAssumption, TxCapAssumption
   DEF Socket, FreeSlot, NewTcpSocket, TcpStates, Controls

(* The parts of a change of state keep a socket well formed. *)
LEMMA PartsOK ==
  ASSUME NEW k \in Socket, NEW state \in TcpStates,
         NEW out \in SUBSET Controls, NEW c \in Controls
  PROVE  /\ Enter(k, state) \in Socket
         /\ SetOut(k, out) \in Socket
         /\ AddOut(k, c) \in Socket
         /\ Acked(k) \in Socket
         /\ DropTx(k) \in Socket
<1>1. Enter(k, state) \in Socket
  BY DEF Enter, Socket
<1>2. SetOut(k, out) \in Socket /\ AddOut(k, c) \in Socket
  BY DEF SetOut, AddOut, Socket
<1>3. ASSUME NEW j \in Socket PROVE Acked(j) \in Socket
  BY <1>3, TxCapAssumption DEF Acked, Socket
<1>4. DropTx(k) \in Socket
  <2>1. [k EXCEPT !.unsent = 0] \in Socket
    BY TxCapAssumption DEF Socket
  <2> QED
    BY <2>1, <1>3 DEF DropTx
<1> QED
  BY <1>1, <1>2, <1>3, <1>4

(* The calls of the application keep a socket well formed. *)
LEMMA CallsOK ==
  ASSUME NEW k \in Socket, NEW n \in Nat
  PROVE  /\ Connect(k) \in Socket
         /\ Listen(k) \in Socket
         /\ Send(k, n) \in Socket
         /\ Recv(k, n) \in Socket
         /\ Close(k) \in Socket
         /\ Abort(k) \in Socket
<1>1. Connect(k) \in Socket /\ Listen(k) \in Socket
  BY PartsOK, ZenonT(30) DEF Connect, Listen, TcpStates, Controls
<1>2. Send(k, n) \in Socket
  BY TxCapAssumption DEF Send, Socket
<1>3. Recv(k, n) \in Socket
  <2> DEFINE rest == [k EXCEPT !.rx = IF n <= @ THEN @ - n ELSE 0]
  <2>1. rest \in Socket
    BY RxCapAssumption, TxCapAssumption DEF Socket
  <2>2. AddOut(rest, "Wnd") \in Socket
    BY <2>1, PartsOK, ZenonT(30) DEF TcpStates, Controls
  <2> QED
    BY <2>1, <2>2 DEF Recv
<1>4. Close(k) \in Socket
  BY PartsOK, ZenonT(30) DEF Close, TcpStates, Controls
<1>5. Abort(k) \in Socket
  BY PartsOK, ZenonT(30) DEF Abort, TcpStates, Controls
<1> QED
  BY <1>1, <1>2, <1>3, <1>4, <1>5

(* So does a frame of any kind. *)
LEMMA FrameOK ==
  ASSUME NEW k \in Socket
  PROVE  /\ OnSyn(k) \in Socket
         /\ OnSynAck(k) \in Socket
         /\ OnAck(k) \in Socket
         /\ OnData(k) \in Socket
         /\ OnFin(k) \in Socket
         /\ OnRst(k) \in Socket
<1>1. OnSyn(k) \in Socket /\ OnSynAck(k) \in Socket
  BY PartsOK, ZenonT(30) DEF OnSyn, OnSynAck, TcpStates, Controls
<1>2. OnAck(k) \in Socket
  BY PartsOK, ZenonT(30) DEF OnAck, TcpStates, Controls
<1>3. OnData(k) \in Socket
  BY RxCapAssumption, TxCapAssumption DEF OnData, Socket
<1>4. OnFin(k) \in Socket /\ OnRst(k) \in Socket
  BY PartsOK, ZenonT(30) DEF OnFin, OnRst, TcpStates, Controls
<1> QED
  BY <1>1, <1>2, <1>3, <1>4

(* A poll of the interface keeps a socket well formed. *)
LEMMA PollSocketOK ==
  ASSUME NEW k \in Socket, NEW fr, NEW expired
  PROVE  PollSocket(k, fr, expired) \in Socket
<1>1. Ingress(k, fr) \in Socket
  BY FrameOK DEF Ingress
<1>2. ASSUME NEW in \in Socket PROVE Egress(in) \in Socket
  <2>1. in.inflight + in.unsent \in 0..TxCap
    BY TxCapAssumption DEF Socket
  <2> QED
    BY <2>1, TxCapAssumption DEF Socket, Egress
<1>3. Enter(Ingress(k, fr), "Closed") \in Socket
  BY <1>1, PartsOK, ZenonT(30) DEF TcpStates, Controls
<1> QED
  BY <1>1, <1>2, <1>3 DEF PollSocket

(* A socket that listens, or listens again if its peer resets. *)
Passive(k) == k.state \in {"Listen", "SynReceived"}

(* A frame neither fills nor frees a slot, and makes no socket passive. *)
LEMMA FrameState ==
  ASSUME NEW k \in Socket
  PROVE  \A j \in {OnSyn(k), OnSynAck(k), OnAck(k), OnData(k), OnFin(k), OnRst(k)} :
           /\ j.state = "Free" <=> k.state = "Free"
           /\ Passive(j) => Passive(k)
<1>1. /\ Acked(k) \in Socket /\ Acked(k).state = k.state
      /\ DropTx(k) \in Socket /\ DropTx(k).state = k.state
  <2>1. Acked(k) \in Socket /\ DropTx(k) \in Socket
    BY PartsOK, ZenonT(30) DEF TcpStates, Controls
  <2>2. Acked(k).state = k.state /\ DropTx(k).state = k.state
    BY DEF Acked, DropTx, Socket
  <2> QED
    BY <2>1, <2>2
<1>2. /\ OnSyn(k).state \in {k.state, "SynReceived"}
      /\ OnSyn(k).state # k.state => k.state = "Listen"
  BY <1>1 DEF OnSyn, Enter, SetOut, Socket
<1>3. /\ OnSynAck(k).state \in {k.state, "Established"}
      /\ OnSynAck(k).state # k.state => k.state = "SynSent"
  BY <1>1 DEF OnSynAck, Enter, SetOut, Socket
<1>4. /\ OnAck(k).state \in {k.state, "Established", "FinWait2", "TimeWait", "Closed"}
      /\ OnAck(k).state # k.state => k.state # "Free"
  BY <1>1 DEF OnAck, Enter, SetOut, Socket
<1>5. OnData(k).state = k.state
  BY DEF OnData, Socket
<1>6. /\ OnFin(k).state \in {k.state, "CloseWait", "Closing", "TimeWait"}
      /\ OnFin(k).state # k.state => k.state # "Free"
  BY <1>1 DEF OnFin, Enter, SetOut, Socket
<1>7. /\ OnRst(k).state \in {k.state, "Listen", "Closed"}
      /\ OnRst(k).state = "Listen" => Passive(k)
      /\ OnRst(k).state # k.state => k.state # "Free"
  BY <1>1 DEF OnRst, Passive, Enter, SetOut, Socket
<1> QED
  BY <1>2, <1>3, <1>4, <1>5, <1>6, <1>7 DEF Passive

(* The same of a whole poll, after which nothing is left to be sent. *)
LEMMA PollSocketState ==
  ASSUME NEW k \in Socket, NEW fr, NEW expired
  PROVE  LET p == PollSocket(k, fr, expired)
         IN /\ p.state = "Free" <=> k.state = "Free"
            /\ Passive(p) => Passive(k)
            /\ ~HasOutput(p)
<1> DEFINE Same(i, j) == /\ j \in Socket
                         /\ j.state = "Free" <=> i.state = "Free"
                         /\ Passive(j) => Passive(i)
<1>1. ASSUME NEW j \in Socket, Same(k, j)
      PROVE  /\ Same(k, OnSyn(j)) /\ Same(k, OnSynAck(j)) /\ Same(k, OnAck(j))
             /\ Same(k, OnData(j)) /\ Same(k, OnFin(j)) /\ Same(k, OnRst(j))
  BY <1>1, FrameOK, FrameState, ZenonT(30)
<1>2. Same(k, k)
  OBVIOUS
<1> HIDE DEF Same
<1>3. Same(k, Ingress(k, fr))
  <2>1. \A j : Same(k, j) => j \in Socket
    BY DEF Same
  <2> QED
    BY <1>1, <1>2, <2>1 DEF Ingress
<1>4. Same(k, Ingress(k, fr)) /\ Ingress(k, fr).state = "TimeWait"
        => Same(k, Enter(Ingress(k, fr), "Closed"))
  <2> SUFFICES ASSUME Same(k, Ingress(k, fr)), Ingress(k, fr).state = "TimeWait"
               PROVE  Same(k, Enter(Ingress(k, fr), "Closed"))
    OBVIOUS
  <2>1. Enter(Ingress(k, fr), "Closed") \in Socket
    BY PartsOK, ZenonT(30) DEF Same, TcpStates, Controls
  <2>2. Enter(Ingress(k, fr), "Closed").state = "Closed"
    BY DEF Same, Enter, Socket
  <2> QED
    BY <2>1, <2>2 DEF Same, Passive
<1>5. ASSUME NEW in PROVE Egress(in).state = in.state /\ ~HasOutput(Egress(in))
  BY DEF Egress, HasOutput
<1> QED
  BY <1>3, <1>4, <1>5 DEF PollSocket, Same, Passive

(* A poll without frames and without output changes neither the buffers    *)
(* nor what the socket allows; only a TIME-WAIT may be over.               *)
LEMMA IdlePollKeeps ==
  ASSUME NEW k \in Socket, NEW expired, ~HasOutput(k)
  PROVE  LET p == PollSocket(k, {}, expired)
         IN /\ p.rx = k.rx
            /\ p.unsent = k.unsent /\ p.inflight = k.inflight
            /\ p.state = k.state \/ (k.state = "TimeWait" /\ p.state = "Closed")
<1>1. Ingress(k, {}) = k
  BY DEF Ingress
<1>2. k.unsent = 0
  BY DEF HasOutput, Socket
<1>3. ASSUME NEW j \in {k, Enter(k, "Closed")}
      PROVE  /\ Egress(j).rx = k.rx
             /\ Egress(j).unsent = k.unsent /\ Egress(j).inflight = k.inflight
             /\ Egress(j).state = j.state
  BY <1>2 DEF Egress, Enter, Socket
<1>4. Enter(k, "Closed").state = "Closed"
  BY DEF Enter, Socket
<1> QED
  BY <1>1, <1>3, <1>4 DEF PollSocket

(* An established connection stays so until its peer closes or resets it. *)
LEMMA EstablishedKept ==
  ASSUME NEW k \in Socket, k.state = "Established", NEW fr,
         "Fin" \notin fr, "Rst" \notin fr
  PROVE  PollSocket(k, fr, FALSE).state = "Established"
<1> DEFINE Est(j) == j \in Socket /\ j.state = "Established"
<1>1. ASSUME NEW j \in Socket, Est(j)
      PROVE  Est(OnSyn(j)) /\ Est(OnSynAck(j)) /\ Est(OnAck(j)) /\ Est(OnData(j))
  <2>1. Acked(j).state = "Established"
    BY <1>1 DEF Acked, Socket
  <2>2. OnData(j).state = "Established"
    BY <1>1 DEF OnData, Socket
  <2> QED
    BY <1>1, <2>1, <2>2, FrameOK DEF OnSyn, OnSynAck, OnAck
<1>2. \A j : Est(j) => j \in Socket
  OBVIOUS
<1>3. Est(k)
  OBVIOUS
<1> HIDE DEF Est
<1>4. Est(Ingress(k, fr))
  BY <1>1, <1>2, <1>3 DEF Ingress
<1> QED
  BY <1>4 DEF PollSocket, Egress, Est

(* A call on an open socket frees no slot, and only listen() makes a       *)
(* socket passive.                                                         *)
LEMMA CallsState ==
  ASSUME NEW k \in Socket, NEW n \in Nat
  PROVE  /\ Send(k, n).state = k.state
         /\ Recv(k, n).state = k.state
         /\ Close(k).state = "Free" <=> k.state = "Free"
         /\ ~Passive(Close(k))
<1>1. Send(k, n).state = k.state
  BY DEF Send, Socket
<1>2. Recv(k, n).state = k.state
  BY DEF Recv, AddOut, Socket
<1>3. (Close(k).state = "Free" <=> k.state = "Free") /\ ~Passive(Close(k))
  BY DEF Close, Passive, Enter, SetOut, AddOut, Socket
<1> QED
  BY <1>1, <1>2, <1>3

(* A socket that was just created, after listen() or connect(). *)
LEMMA OpenedOK ==
  /\ Listen(NewTcpSocket) \in Socket /\ Listen(NewTcpSocket).state = "Listen"
  /\ Connect(NewTcpSocket) \in Socket /\ Connect(NewTcpSocket).state = "SynSent"
<1>1. 0 \in Nat
  OBVIOUS
<1>2. Listen(NewTcpSocket) \in Socket /\ Connect(NewTcpSocket) \in Socket
  BY <1>1, NewSocketOK, CallsOK
<1> QED
  BY <1>2 DEF Listen, Connect, Enter, SetOut, NewTcpSocket, FreeSlot
==============================================================================

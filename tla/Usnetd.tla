------------------------------- MODULE Usnetd -------------------------------
(***************************************************************************)
(* usnetd, the switch daemon that several processes share.  It is not part *)
(* of this repository: its side of the control protocol is modelled from   *)
(* how device.rs and usnetconfig.rs use it.                                *)
(*                                                                         *)
(* Every process has one datagram socket for control messages.  Requests   *)
(* of all processes reach the daemon in the order in which they were sent, *)
(* and its answers to one process arrive in the order in which it answers. *)
(* An answer carries no number: the next datagram is the answer.           *)
(***************************************************************************)
EXTENDS Naturals, Sequences, FiniteSets

CONSTANT Procs              \* the processes of the host
CONSTANT None               \* Option::None

VARIABLE requests           \* datagrams on their way to the daemon
VARIABLE answers            \* answers[p]: datagrams p has not received yet
VARIABLE registered         \* the clients the daemon knows
VARIABLE table              \* the matches it has granted

usnetdVars == <<requests, answers, registered, table>>

UsnetdInit ==
  /\ requests = <<>>
  /\ answers = [p \in Procs |-> <<>>]
  /\ registered = {}
  /\ table = {}

(* A match is a WantMsg: packets for dst and port, from src if that is    *)
(* given, belong to the client.                                           *)
WantMsg(proto, dst, port, src) ==
  [proto |-> proto, dst |-> dst, port |-> port, src |-> src]

SendTo(p, type, want) ==
  requests' = Append(requests, [from |-> p, type |-> type, want |-> want])

Answer(p, a) ==
  answers' = [answers EXCEPT ![p] = Append(@, a)]

Holders(want) == {p \in Procs : [client |-> p, want |-> want] \in table}

(* A device is handed over: a socket for RequestUDS, a netmap pipe for    *)
(* RequestNetmapPipe.                                                     *)
HandleRequestDevice(m) ==
  /\ m.type = "RequestDevice"
  /\ registered' = registered \cup {m.from}
  /\ Answer(m.from, [type |-> "fd"])
  /\ UNCHANGED table

(* "OK" unless another client holds the match.  Whether a client may ask  *)
(* again for what it already holds is the daemon's own business.          *)
HandleAddMatch(m) ==
  /\ m.type = "AddMatch"
  /\ \E ok \in BOOLEAN :
       /\ Holders(m.want) = {} => ok
       /\ Holders(m.want) \ {m.from} # {} => ~ok
       /\ table' = IF ok THEN table \cup {[client |-> m.from, want |-> m.want]}
                   ELSE table
       /\ Answer(m.from, [type |-> IF ok THEN "OK" ELSE "NO"])
  /\ UNCHANGED registered

UsedPorts(connected) ==
  {[proto |-> e.want.proto, dst |-> e.want.dst, port |-> e.want.port] :
     e \in {t \in table : (t.want.src # None) = connected}}

HandleQueryUsedPorts(m) ==
  /\ m.type = "QueryUsedPorts"
  /\ Answer(m.from, [type |-> "ports", listening |-> UsedPorts(FALSE),
                     connected |-> UsedPorts(TRUE)])
  /\ UNCHANGED <<registered, table>>

HandleDeleteClient(m) ==
  /\ m.type = "DeleteClient"
  /\ registered' = registered \ {m.from}
  /\ table' = {e \in table : e.client # m.from}
  /\ UNCHANGED answers

UsnetdHandle ==
  /\ requests # <<>>
  /\ requests' = Tail(requests)
  /\ \/ HandleRequestDevice(Head(requests))
     \/ HandleAddMatch(Head(requests))
     \/ HandleQueryUsedPorts(Head(requests))
     \/ HandleDeleteClient(Head(requests))
=============================================================================

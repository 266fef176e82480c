---------------------------- MODULE PortOwnership ----------------------------
(***************************************************************************)
(* What the processes that share a host's address through usnetd are       *)
(* promised: a match (protocol, address, port and, for a connection, the   *)
(* remote end) is granted to one of them at a time, and a process opens a  *)
(* socket only for a match it has been granted.  A process that missed an  *)
(* answer of the daemon is not sound any more: nothing is promised of what *)
(* it opens.                                                               *)
(***************************************************************************)
CONSTANTS Client, Match

VARIABLE granted            \* pairs <<c, m>>: c holds m
VARIABLE open               \* pairs <<c, m>>: c uses m
VARIABLE sound              \* the clients that have missed no answer

vars == <<granted, open, sound>>

Init ==
  /\ granted = {}
  /\ open = {}
  /\ sound = Client

Grant(c, m) ==
  /\ \A x \in granted : x[2] = m => x[1] = c
  /\ granted' = granted \cup {<<c, m>>}
  /\ UNCHANGED <<open, sound>>

Open(c, m) ==
  /\ c \in sound => <<c, m>> \in granted
  /\ open' = open \cup {<<c, m>>}
  /\ UNCHANGED <<granted, sound>>

(* Some or all of the sockets of a client are closed.                     *)
Close(c) ==
  /\ open' \subseteq open
  /\ \A x \in open \ open' : x[1] = c
  /\ UNCHANGED <<granted, sound>>

Miss(c) ==
  /\ sound' = sound \ {c}
  /\ UNCHANGED <<granted, open>>

(* The daemon forgets a client that has closed everything.                *)
Forget(c) ==
  /\ \A x \in open : x[1] # c
  /\ granted' = {x \in granted : x[1] # c}
  /\ UNCHANGED <<open, sound>>

Next ==
  \E c \in Client :
    \/ \E m \in Match : Grant(c, m) \/ Open(c, m)
    \/ Close(c) \/ Miss(c) \/ Forget(c)

Spec == Init /\ [][Next]_vars

(* No two sound clients have a socket for the same match.                 *)
Exclusive ==
  \A c, d \in sound : \A m \in Match :
    <<c, m>> \in open /\ <<d, m>> \in open => c = d
=============================================================================

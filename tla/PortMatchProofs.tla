-------------------------- MODULE PortMatchProofs ---------------------------
(***************************************************************************)
(* Processes, usnetd and the kernel, for any number of processes, ports,   *)
(* addresses, configurations, calls and interrupted receives: the messages *)
(* implement the exclusive ownership of ports (PortOwnership), and ports,  *)
(* links and control paths are given back.  The actions have the effects   *)
(* of PortMatchEffects (PortMatchTypes); here the effects keep the         *)
(* invariants and are steps of PortOwnership.                              *)
(***************************************************************************)
EXTENDS PortMatchTypes

------------------------------------------------------------------------------
(* What the effects have in common *)

(* A process that is starting has neither interface nor sockets. *)
LEMMA NotUp ==
  ASSUME StateInv, NEW p \in Procs, st[p] # "up"
  PROVE  /\ iface[p] = None /\ ~control(p) /\ pc[p] = "idle" /\ Owned(p) = {}
         /\ st[p] \in Starting => interrupts[p] = 0
         /\ st[p] \in Starting \ {"new"} =>
              setup[p].mac \in Macs /\ (conf[p].kind \in CreateKinds => setup[p].ifname \in LinkNames)
<1>1. PlaceOK(p)
      BY DEF StateInv
<1>2. iface[p] = None
      BY <1>1, ZenonT(30) DEF PlaceOK
<1> QED BY <1>1, <1>2, ZenonT(30) DEF PlaceOK, control

(* The first message of a queue. *)
LEMMA FirstOf ==
  ASSUME NEW S, NEW s \in Seq(S), s # <<>>
  PROVE  1 \in DOMAIN s /\ Head(s) = s[1] /\ Head(s) \in S
OBVIOUS

(* A request is one that usnetd understands. *)
LEMMA Sending ==
  ASSUME TypeInv, NEW p \in Procs, NEW type, NEW want,
         SendTo(p, type, want),
         \/ type = "AddMatch" /\ want \in Matches
         \/ type \in {"RequestDevice", "QueryUsedPorts", "DeleteClient"} /\ want = None
  PROVE  /\ [from |-> p, type |-> type, want |-> want] \in Requests
         /\ requests' = Append(requests, [from |-> p, type |-> type, want |-> want])
         /\ requests' \in Seq(Requests)
<1>1. [from |-> p, type |-> type, want |-> want] \in Requests
      BY DEF Requests
<1> QED BY <1>1 DEF TypeInv, SendTo

(* An answer that is taken leaves the other answers. *)
LEMMA Taking ==
  ASSUME TypeInv, NEW p \in Procs, answers[p] # <<>>, answers' = [answers EXCEPT ![p] = Tail(@)]
  PROVE  /\ answers' \in [Procs -> Seq(Answers)] /\ answers'[p] = Tail(answers[p])
         /\ \A q \in Procs \ {p} : answers'[q] = answers[q]
<1>1. answers \in [Procs -> Seq(Answers)] /\ Tail(answers[p]) \in Seq(Answers)
      BY DEF TypeInv
<1> QED BY <1>1

(* An answer goes to the one who asked. *)
LEMMA Replying ==
  ASSUME TypeInv, NEW p \in Procs, NEW a \in Answers, Answer(p, a)
  PROVE  /\ answers' \in [Procs -> Seq(Answers)] /\ answers'[p] = Append(answers[p], a)
         /\ \A q \in Procs \ {p} : answers'[q] = answers[q]
BY DEF TypeInv, Answer

------------------------------------------------------------------------------
(* The datagrams of a process are counted right. *)

Sent(reqs, p) == {i \in DOMAIN reqs : reqs[i].from = p}
Outstanding(p) == Cardinality(Sent(requests, p)) + Len(answers[p])

(* One datagram is outstanding for each request that waits and for each    *)
(* answer that was missed; none before the first request.                  *)
OutOK(p) ==
  /\ st[p] \in {"new", "device", "open", "address"} => Outstanding(p) = 0
  /\ st[p] = "request" => Outstanding(p) = 1
  /\ control(p) =>
       Outstanding(p) = interrupts[p] + IF pc[p] \in {"answer", "query"} THEN 1 ELSE 0

(* A process that takes its leave does so after its last call. *)
LastOK == \A i \in DOMAIN requests :
  requests[i].type = "DeleteClient" => st[requests[i].from] \in {"dropped", "denied"}

OutInv == LastOK /\ \A p \in Procs : OutOK(p)

(* What the invariant needs to know of cardinalities, derived below from   *)
(* the library's theorems about finite sets (Counting).                    *)
CountLaws ==
  /\ Cardinality({}) = 0
  /\ \A reqs \in Seq(Requests), p \in Procs :
       /\ Cardinality(Sent(reqs, p)) \in Nat
       /\ Cardinality(Sent(reqs, p)) = 0 => Sent(reqs, p) = {}
       /\ \A r \in Requests : r.from = p =>
            Cardinality(Sent(Append(reqs, r), p)) = Cardinality(Sent(reqs, p)) + 1
       /\ reqs # <<>> =>
            Cardinality(Sent(reqs, p))
              = Cardinality(Sent(Tail(reqs), p)) + IF Head(reqs).from = p THEN 1 ELSE 0

(* A request that is sent is the last of its sender. *)
LEMMA SentAppend ==
  ASSUME NEW S, NEW reqs \in Seq(S), NEW r \in S, NEW p
  PROVE  /\ r.from = p => Sent(Append(reqs, r), p) = Sent(reqs, p) \cup {Len(reqs) + 1}
         /\ r.from # p => Sent(Append(reqs, r), p) = Sent(reqs, p)
<1>1. DOMAIN Append(reqs, r) = DOMAIN reqs \cup {Len(reqs) + 1}
      OBVIOUS
<1>2. \A i \in DOMAIN reqs : Append(reqs, r)[i] = reqs[i]
      OBVIOUS
<1>3. Append(reqs, r)[Len(reqs) + 1] = r /\ Len(reqs) + 1 \notin DOMAIN reqs
      OBVIOUS
<1> QED BY <1>1, <1>2, <1>3, Zenon DEF Sent

(* What that makes of the requests of its sender. *)
LEMMA SentOwn ==
  ASSUME NEW S, NEW reqs \in Seq(S), NEW r \in S
  PROVE  Sent(Append(reqs, r), r.from) = Sent(reqs, r.from) \cup {Len(reqs) + 1}
BY SentAppend

(* Where the requests of a process are in the queue. *)
LEMMA SentWithin ==
  ASSUME NEW S, NEW reqs \in Seq(S), NEW p
  PROVE  /\ 1 \in Int /\ Len(reqs) \in Int
         /\ Sent(reqs, p) \subseteq 1..Len(reqs) /\ Len(reqs) + 1 \notin Sent(reqs, p)
BY DEF Sent

(* Where they are once usnetd has taken the first request. *)
LEMMA SentShifts ==
  ASSUME NEW S, NEW reqs \in Seq(S), reqs # <<>>, NEW p
  PROVE  /\ Tail(reqs) \in Seq(S)
         /\ \A i \in Sent(Tail(reqs), p) : i \in Nat /\ i + 1 \in Sent(reqs, p) \ {1}
         /\ \A i, j \in Sent(Tail(reqs), p) : i + 1 = j + 1 => i = j
         /\ \A j \in Sent(reqs, p) \ {1} : j - 1 \in Sent(Tail(reqs), p) /\ (j - 1) + 1 = j
         /\ 1 \in Sent(reqs, p) <=> Head(reqs).from = p
<1>1. Tail(reqs) \in Seq(S) /\ Len(Tail(reqs)) = Len(reqs) - 1 /\ Len(reqs) \in Nat
      OBVIOUS
<1>2. DOMAIN reqs = 1..Len(reqs) /\ DOMAIN Tail(reqs) = 1..(Len(reqs) - 1)
      BY <1>1
<1>3. \A i \in 1..(Len(reqs) - 1) : Tail(reqs)[i] = reqs[i + 1]
      OBVIOUS
<1>4. \A i \in Sent(Tail(reqs), p) : i \in Nat /\ i + 1 \in Sent(reqs, p) \ {1}
      BY <1>1, <1>2, <1>3 DEF Sent
<1>5. \A i, j \in Sent(Tail(reqs), p) : i + 1 = j + 1 => i = j
      BY <1>4
<1>6. \A j \in Sent(reqs, p) \ {1} : j - 1 \in Sent(Tail(reqs), p) /\ (j - 1) + 1 = j
      BY <1>1, <1>2, <1>3 DEF Sent
<1>7. 1 \in Sent(reqs, p) <=> Head(reqs).from = p
      BY <1>1, <1>2 DEF Sent
<1> QED BY <1>1, <1>4, <1>5, <1>6, <1>7

(* One more than one less. *)
LEMMA OneMore == \A n \in Nat : (n - 1) + 1 = n /\ n + 0 = n
OBVIOUS

(* Nothing has changed for a process. *)
LEMMA OutSame ==
  ASSUME NEW q \in Procs, OutOK(q), Sent(requests', q) = Sent(requests, q),
         answers'[q] = answers[q], st'[q] = st[q], iface'[q] = iface[q],
         interrupts'[q] = interrupts[q], pc'[q] \in Waiting <=> pc[q] \in Waiting
  PROVE  OutOK(q)'
<1>1. Outstanding(q)' = Outstanding(q)
      BY ZenonT(30) DEF Outstanding, Sent
<1>2. control(q)' <=> control(q)
      BY ZenonT(30) DEF control
<1> QED BY <1>1, <1>2, ZenonT(30) DEF OutOK, Waiting

(* The number of datagrams is a number. *)
LEMMA OutNat ==
  ASSUME CountLaws, TypeInv, NEW q \in Procs
  PROVE  /\ Cardinality(Sent(requests, q)) \in Nat /\ Len(answers[q]) \in Nat
         /\ interrupts[q] \in Nat /\ requests \in Seq(Requests) /\ answers[q] \in Seq(Answers)
<1>1. requests \in Seq(Requests) /\ answers[q] \in Seq(Answers) /\ interrupts[q] \in Nat
      BY DEF TypeInv
<1> QED BY <1>1 DEF CountLaws

(* A request counts for the one who sends it. *)
LEMMA OutSend ==
  ASSUME CountLaws, TypeInv, NEW p \in Procs, NEW type, NEW want, SendTo(p, type, want),
         \/ type = "AddMatch" /\ want \in Matches
         \/ type \in {"RequestDevice", "QueryUsedPorts", "DeleteClient"} /\ want = None
  PROVE  /\ Cardinality(Sent(requests', p)) = Cardinality(Sent(requests, p)) + 1
         /\ Sent(requests', p) = Sent(requests, p) \cup {Len(requests) + 1}
         /\ \A q \in Procs \ {p} : Sent(requests', q) = Sent(requests, q)
<1> DEFINE r == [from |-> p, type |-> type, want |-> want]
<1>1. r \in Requests /\ requests' = Append(requests, r) /\ requests \in Seq(Requests)
      BY Sending, ZenonT(30) DEF TypeInv
<1>2. r.from = p
      OBVIOUS
<1> HIDE DEF r
<1>3. /\ Cardinality(Sent(requests', p)) = Cardinality(Sent(requests, p)) + 1
      /\ Sent(requests', p) = Sent(requests, p) \cup {Len(requests) + 1}
  <2>1. r \in Requests /\ requests \in Seq(Requests)
        BY <1>1
  <2>2. Sent(Append(requests, r), p) = Sent(requests, p) \cup {Len(requests) + 1}
        BY <1>2, <2>1, SentAppend
  <2>3. Cardinality(Sent(Append(requests, r), p)) = Cardinality(Sent(requests, p)) + 1
        BY <1>2, <2>1, ZenonT(30) DEF CountLaws
  <2> QED BY <1>1, <2>2, <2>3, ZenonT(30)
<1>4. ASSUME NEW q \in Procs \ {p} PROVE Sent(requests', q) = Sent(requests, q)
  <2>1. r.from # q
        BY <1>2
  <2> QED BY <1>1, <2>1, SentAppend
<1> QED BY <1>3, <1>4

(* The steps of calls. *)
LEMMA OutCall ==
  ASSUME CountLaws, StateInv, OutInv, NEW p \in Procs, CallEffect(p)
  PROVE  \A q \in Procs : OutOK(q)'
<1>1. TypeInv /\ \A q \in Procs : OutOK(q)
      BY DEF StateInv, OutInv
<1>2. UNCHANGED <<st, iface>> /\ control(p)' = control(p)
      BY ZenonT(30) DEF CallEffect, CallFrame, backendVars, control
<1>3. ASSUME NEW q \in Procs \ {p}, Sent(requests', q) = Sent(requests, q) PROVE OutOK(q)'
  <2>1. /\ answers'[q] = answers[q] /\ pc'[q] = pc[q] /\ interrupts'[q] = interrupts[q]
        BY ZenonT(30) DEF CallEffect, CallFrame
  <2> QED BY <1>1, <1>2, <1>3, <2>1, OutSame, ZenonT(30)
<1>4. /\ Cardinality(Sent(requests, p)) \in Nat /\ Len(answers[p]) \in Nat
      /\ interrupts[p] \in Nat /\ answers[p] \in Seq(Answers)
      BY <1>1, OutNat, ZenonT(30)
<1>5. ASSUME st[p] = "up",
             control(p) => Cardinality(Sent(requests', p)) + Len(answers'[p])
                             = interrupts'[p] + IF pc'[p] \in Waiting THEN 1 ELSE 0
      PROVE  OutOK(p)'
  <2>1. Outstanding(p)' = Cardinality(Sent(requests', p)) + Len(answers'[p])
        BY DEF Outstanding, Sent
  <2> QED BY <1>2, <1>5, <2>1, ZenonT(30) DEF OutOK, Waiting
<1>6. control(p) => Cardinality(Sent(requests, p)) + Len(answers[p])
                       = interrupts[p] + IF pc[p] \in Waiting THEN 1 ELSE 0
      BY <1>1, ZenonT(30) DEF OutOK, Outstanding, Waiting
<1>7. st[p] # "up" => pc[p] \notin Waiting /\ ~control(p)
      BY NotUp, ZenonT(30) DEF Waiting
<1>8. CASE Quiet(p) \/ Opens(p) \/ Drops(p)
  <2>1. UNCHANGED <<requests, answers, interrupts>> /\ pc[p] \notin Waiting /\ pc'[p] \notin Waiting
        BY <1>8, ZenonT(30) DEF Quiet, Opens, Drops
  <2>2. Sent(requests', p) = Sent(requests, p) /\ answers'[p] = answers[p]
        /\ st'[p] = st[p] /\ iface'[p] = iface[p] /\ interrupts'[p] = interrupts[p]
        BY <1>2, <2>1, ZenonT(30)
  <2>3. OutOK(p)'
        BY <1>1, <2>1, <2>2, OutSame, ZenonT(30)
  <2> QED BY <1>3, <2>1, <2>3
<1>9. CASE Asks(p) \/ Queries(p)
  <2>1. /\ Cardinality(Sent(requests', p)) = Cardinality(Sent(requests, p)) + 1
        /\ \A q \in Procs \ {p} : Sent(requests', q) = Sent(requests, q)
    <3>1. CASE Asks(p)
          BY <1>1, <3>1, OutSend, ZenonT(30) DEF Asks
    <3>2. CASE Queries(p)
          BY <1>1, <3>2, OutSend, ZenonT(30) DEF Queries
    <3> QED BY <1>9, <3>1, <3>2
  <2>2. UNCHANGED <<answers, interrupts>> /\ pc[p] \notin Waiting /\ pc'[p] \in Waiting
        BY <1>9, ZenonT(30) DEF Asks, Queries, Waiting
  <2>3. control(p) /\ st[p] = "up"
        BY <1>9, <1>7, ZenonT(30) DEF Asks, Queries
  <2>4. OutOK(p)'
        BY <1>4, <1>5, <1>6, <2>1, <2>2, <2>3
  <2> QED BY <1>3, <2>1, <2>4
<1>10. CASE Hears(p) \/ HearsPorts(p)
  <2>1. /\ UNCHANGED <<requests, interrupts>> /\ pc[p] \in Waiting /\ pc'[p] \notin Waiting
        /\ answers[p] # <<>> /\ answers' = [answers EXCEPT ![p] = Tail(@)]
        BY <1>10, ZenonT(30) DEF Hears, HearsPorts, Waiting
  <2>2. answers'[p] = Tail(answers[p])
        BY <1>1, <2>1, Taking, ZenonT(30)
  <2>3. Len(answers'[p]) = Len(answers[p]) - 1 /\ Len(answers'[p]) \in Nat
    <3>1. Len(Tail(answers[p])) = Len(answers[p]) - 1 /\ Len(Tail(answers[p])) \in Nat
          BY <1>4, <2>1
    <3> QED BY <2>2, <3>1, ZenonT(30)
  <2>4. OutOK(p)'
    <3>1. UNCHANGED <<requests, interrupts>> /\ pc[p] \in Waiting /\ pc'[p] \notin Waiting
          BY <2>1, ZenonT(30)
    <3>2. control(p) => Cardinality(Sent(requests', p)) + Len(answers'[p]) = interrupts'[p] + 0
          BY <1>4, <1>6, <2>3, <3>1
    <3> QED BY <1>5, <1>7, <3>1, <3>2, ZenonT(30)
  <2> QED BY <1>3, <2>1, <2>4, ZenonT(30)
<1>11. CASE Misses(p)
  <2>1. /\ UNCHANGED <<requests, answers>> /\ pc[p] \in Waiting /\ pc'[p] \notin Waiting
        /\ interrupts' = [interrupts EXCEPT ![p] = @ + 1]
        BY <1>11 DEF Misses, Waiting
  <2>2. interrupts'[p] = interrupts[p] + 1
        BY <1>1, <2>1, ZenonT(30) DEF TypeInv
  <2>3. OutOK(p)'
        BY <1>4, <1>5, <1>6, <1>7, <2>1, <2>2
  <2> QED BY <1>3, <2>1, <2>3, ZenonT(30)
<1> QED BY <1>8, <1>9, <1>10, <1>11, ZenonT(30) DEF CallEffect

(* The steps of the start-up: one request, one answer. *)
LEMMA OutStart ==
  ASSUME CountLaws, StateInv, StateInv', OutInv, NEW p \in Procs, StartEffect(p)
  PROVE  \A q \in Procs : OutOK(q)'
<1>1. TypeInv /\ \A q \in Procs : OutOK(q)
      BY DEF StateInv, OutInv
<1>2. StartFrame(p)
      BY ZenonT(30) DEF StartEffect
<1>3. st[p] \in Starting /\ UNCHANGED <<pc, interrupts>> /\ st[p] # "up"
      BY <1>2, ZenonT(30) DEF StartFrame, callVars, Starting
<1>4. interrupts[p] = 0 /\ pc[p] = "idle" /\ iface[p] = None
      BY <1>3, NotUp, ZenonT(30)
<1>5. /\ Cardinality(Sent(requests, p)) \in Nat /\ Len(answers[p]) \in Nat
      /\ answers[p] \in Seq(Answers)
      BY <1>1, OutNat
<1>6. /\ st[p] \in {"new", "device", "open", "address"} =>
           Cardinality(Sent(requests, p)) + Len(answers[p]) = 0
      /\ st[p] = "request" => Cardinality(Sent(requests, p)) + Len(answers[p]) = 1
      BY <1>1, ZenonT(30) DEF OutOK, Outstanding
<1>7. Outstanding(p)' = Cardinality(Sent(requests', p)) + Len(answers'[p])
      BY DEF Outstanding, Sent
<1>8. ASSUME NEW q \in Procs \ {p}, Sent(requests', q) = Sent(requests, q) PROVE OutOK(q)'
  <2>1. /\ answers'[q] = answers[q] /\ st'[q] = st[q] /\ iface'[q] = iface[q]
        /\ pc'[q] = pc[q] /\ interrupts'[q] = interrupts[q]
        BY <1>2, <1>3, ZenonT(30) DEF StartFrame
  <2> QED BY <1>1, <1>8, <2>1, OutSame, ZenonT(30)
<1>9. ASSUME st'[p] \in {"device", "open", "address", "up", "panicked"},
             st'[p] # "panicked" =>
               Cardinality(Sent(requests', p)) + Len(answers'[p]) = 0,
             st'[p] # "up" => iface'[p] = None
      PROVE  OutOK(p)'
  <2>1. control(p)' => st'[p] = "up"
        BY <1>9, ZenonT(30) DEF control
  <2>2. interrupts'[p] = 0 /\ pc'[p] = "idle"
        BY <1>3, <1>4
  <2> QED BY <1>7, <1>9, <2>1, <2>2 DEF OutOK
<1>10. CASE ChoosesMac(p) \/ CreatesLink(p) \/ OpensDevice(p) \/ Configures(p)
  <2>1. /\ UNCHANGED <<requests, answers>> /\ st[p] \in {"new", "device", "open", "address"}
        /\ st'[p] \in {"device", "open", "address", "up", "panicked"} /\ StateInv'
        BY <1>10, ZenonT(30) DEF ChoosesMac, CreatesLink, OpensDevice, Configures, usnetdVars
  <2>2. st'[p] # "up" => iface'[p] = None
        BY <2>1, ZenonT(30) DEF StateInv, PlaceOK
  <2>3. OutOK(p)'
        BY <1>6, <1>9, <2>1, <2>2, ZenonT(30)
  <2> QED BY <1>8, <2>1, <2>3, ZenonT(30)
<1>11. CASE RequestsDevice(p)
  <2>1. /\ UNCHANGED <<answers, iface>> /\ st[p] = "device"
        /\ \/ SendTo(p, "RequestDevice", None) /\ st'[p] = "request"
           \/ UNCHANGED requests /\ st'[p] = "panicked"
        BY <1>11, ZenonT(30) DEF RequestsDevice
  <2>2. CASE SendTo(p, "RequestDevice", None) /\ st'[p] = "request"
    <3>1. /\ Cardinality(Sent(requests', p)) = Cardinality(Sent(requests, p)) + 1
          /\ \A q \in Procs \ {p} : Sent(requests', q) = Sent(requests, q)
          BY <1>1, <2>2, OutSend, ZenonT(30)
    <3>2. Outstanding(p)' = 1
          BY <1>5, <1>6, <1>7, <2>1, <3>1
    <3>3. ~control(p)'
          BY <1>4, <2>1, ZenonT(30) DEF control
    <3>4. OutOK(p)'
          BY <2>2, <3>2, <3>3, ZenonT(30) DEF OutOK
    <3> QED BY <1>8, <3>1, <3>4, ZenonT(30)
  <2>3. CASE UNCHANGED requests /\ st'[p] = "panicked"
        BY <1>4, <1>8, <1>9, <2>1, <2>3, ZenonT(30)
  <2> QED BY <2>1, <2>2, <2>3
<1>12. CASE ReceivesDevice(p)
  <2>1. /\ UNCHANGED <<requests, iface>> /\ st[p] = "request" /\ st'[p] \in {"address", "panicked"}
        /\ \/ answers[p] # <<>> /\ answers' = [answers EXCEPT ![p] = Tail(@)]
           \/ st'[p] = "panicked"
        BY <1>12, ZenonT(30) DEF ReceivesDevice
  <2>2. CASE answers[p] # <<>> /\ answers' = [answers EXCEPT ![p] = Tail(@)]
    <3>1. answers'[p] = Tail(answers[p])
          BY <1>1, <2>2, Taking, ZenonT(30)
    <3>2. Len(Tail(answers[p])) = Len(answers[p]) - 1
          BY <1>5, <2>2
    <3>3. UNCHANGED <<requests, iface>> /\ st[p] = "request" /\ st'[p] \in {"address", "panicked"}
          BY <2>1
    <3>4. Cardinality(Sent(requests', p)) + Len(answers'[p]) = 0
          BY <1>5, <1>6, <3>1, <3>2, <3>3
    <3>5. OutOK(p)'
          BY <1>4, <1>9, <3>3, <3>4, ZenonT(30)
    <3> QED BY <1>8, <3>3, <3>5
  <2>3. CASE st'[p] = "panicked"
    <3>1. UNCHANGED <<requests, iface>>
          BY <2>1
    <3> QED BY <1>4, <1>8, <1>9, <2>3, <3>1, ZenonT(30)
  <2> QED BY <2>1, <2>2, <2>3, ZenonT(30)
<1> QED BY <1>10, <1>11, <1>12 DEF StartEffect

(* The end of a process. *)
LEMMA OutEnd ==
  ASSUME CountLaws, StateInv, OutInv, NEW p \in Procs, EndFrame(p)
  PROVE  \A q \in Procs : OutOK(q)'
<1>1. TypeInv /\ \A q \in Procs : OutOK(q)
      BY DEF StateInv, OutInv
<1>2. OutOK(p)'
  <2>1. st'[p] \in {"exited", "dropped", "denied"} /\ iface'[p] = None
        BY ZenonT(30) DEF EndFrame
  <2> QED BY <2>1 DEF OutOK, control
<1>3. ASSUME NEW q \in Procs \ {p} PROVE OutOK(q)'
  <2>1. Sent(requests', q) = Sent(requests, q)
    <3>1. CASE UNCHANGED requests
          BY <3>1
    <3>2. CASE SendTo(p, "DeleteClient", None)
          BY <1>1, <3>2, OutSend, ZenonT(30)
    <3> QED BY <3>1, <3>2, ZenonT(30) DEF EndFrame
  <2>2. /\ answers'[q] = answers[q] /\ st'[q] = st[q] /\ iface'[q] = iface[q]
        /\ pc'[q] = pc[q] /\ interrupts'[q] = interrupts[q]
        BY ZenonT(30) DEF EndFrame
  <2> QED BY <1>1, <2>1, <2>2, OutSame, ZenonT(30)
<1> QED BY <1>2, <1>3, ZenonT(30)

(* usnetd takes a request and gives an answer. *)
LEMMA OutHandle ==
  ASSUME CountLaws, StateInv, OutInv, HandleFrame PROVE \A q \in Procs : OutOK(q)'
<1> DEFINE m == Head(requests)
<1>1. TypeInv /\ \A q \in Procs : OutOK(q)
      BY DEF StateInv, OutInv
<1>2. /\ requests \in Seq(Requests) /\ requests # <<>> /\ requests' = Tail(requests)
      /\ m \in Requests /\ m.from \in Procs
      BY <1>1, ZenonT(30) DEF HandleFrame, TypeInv, Requests
<1>3. UNCHANGED <<st, iface, pc, interrupts>>
      BY ZenonT(30) DEF HandleFrame, backendVars, callVars
<1>4. ASSUME NEW q \in Procs
      PROVE  /\ Cardinality(Sent(requests, q))
                  = Cardinality(Sent(requests', q)) + IF m.from = q THEN 1 ELSE 0
             /\ Cardinality(Sent(requests', q)) \in Nat
  <2>1. Tail(requests) \in Seq(Requests)
        BY <1>2
  <2> QED BY <1>2, <2>1, ZenonT(30) DEF CountLaws
<1>5. ASSUME NEW q \in Procs, Outstanding(q)' = Outstanding(q) PROVE OutOK(q)'
  <2>1. control(q)' <=> control(q)
        BY <1>3, ZenonT(30) DEF control
  <2> QED BY <1>1, <1>3, <1>5, <2>1, ZenonT(30) DEF OutOK
<1>6. ASSUME NEW q \in Procs
      PROVE  /\ Outstanding(q)' = Cardinality(Sent(requests', q)) + Len(answers'[q])
             /\ Outstanding(q) = Cardinality(Sent(requests, q)) + Len(answers[q])
             /\ Len(answers[q]) \in Nat /\ answers[q] \in Seq(Answers)
      BY <1>1, OutNat, ZenonT(30) DEF Outstanding, Sent
<1>7. ASSUME NEW a \in Answers, Answer(m.from, a) PROVE \A q \in Procs : OutOK(q)'
  <2>1. /\ answers'[m.from] = Append(answers[m.from], a)
        /\ \A q \in Procs \ {m.from} : answers'[q] = answers[q]
        BY <1>1, <1>2, <1>7, Replying, ZenonT(30)
  <2>2. Len(answers'[m.from]) = Len(answers[m.from]) + 1
        BY <1>2, <1>6, <2>1
  <2> HIDE DEF m
  <2>3. ASSUME NEW q \in Procs PROVE Outstanding(q)' = Outstanding(q)
    <3>1. CASE q = m.from
      <4>1. Cardinality(Sent(requests, q)) = Cardinality(Sent(requests', q)) + 1
            BY <1>4, <3>1
      <4>2. Len(answers'[q]) = Len(answers[q]) + 1
            BY <2>2, <3>1, ZenonT(30)
      <4> QED BY <1>4, <1>6, <4>1, <4>2
    <3>2. CASE q # m.from
      <4>1. Cardinality(Sent(requests, q)) = Cardinality(Sent(requests', q)) + 0
            BY <1>4, <3>2, ZenonT(30)
      <4>2. answers'[q] = answers[q]
            BY <2>1, <3>2, ZenonT(30)
      <4> QED BY <1>4, <1>6, <4>1, <4>2
    <3> QED BY <3>1, <3>2, ZenonT(30)
  <2> QED BY <1>5, <2>3
<1>8. CASE m.type = "DeleteClient" /\ UNCHANGED answers
  <2>1. m = requests[1] /\ 1 \in DOMAIN requests
        BY <1>2
  <2>2. st[m.from] \in {"dropped", "denied"}
        BY <1>8, <2>1 DEF OutInv, LastOK
  <2>3. ASSUME NEW q \in Procs, q = m.from PROVE OutOK(q)'
    <3>1. st'[q] \in {"dropped", "denied"} /\ iface'[q] = None
          BY <1>3, <2>2, <2>3, NotUp, ZenonT(30)
    <3> QED BY <3>1, ZenonT(30) DEF OutOK, control
  <2>4. ASSUME NEW q \in Procs, q # m.from PROVE OutOK(q)'
    <3>1. Cardinality(Sent(requests, q)) = Cardinality(Sent(requests', q)) + 0
          BY <1>4, <2>4, ZenonT(30)
    <3>2. answers'[q] = answers[q]
          BY <1>8, ZenonT(30)
    <3>3. Outstanding(q)' = Outstanding(q)
          BY <1>4, <1>6, <3>1, <3>2
    <3> QED BY <1>5, <3>3
  <2> QED BY <2>3, <2>4, ZenonT(30)
<1>9. \/ \E a \in Answers : Answer(m.from, a)
      \/ m.type = "DeleteClient" /\ UNCHANGED answers
  <2>1. \A ok \in BOOLEAN : [type |-> IF ok THEN "OK" ELSE "NO"] \in Answers
        BY DEF Answers
  <2> QED BY <2>1, Zenon DEF HandleFrame
<1> QED BY <1>7, <1>8, <1>9, ZenonT(30)

(* What is in a queue after a datagram was sent or taken. *)
LEMMA QueueMembers ==
  ASSUME NEW S, NEW s \in Seq(S), NEW x
  PROVE  /\ \A i \in DOMAIN Append(s, x) :
              Append(s, x)[i] = x \/ \E j \in DOMAIN s : Append(s, x)[i] = s[j]
         /\ s # <<>> => \A i \in DOMAIN Tail(s) : \E j \in DOMAIN s : Tail(s)[i] = s[j]
<1>1. ASSUME NEW i \in DOMAIN Append(s, x)
      PROVE  Append(s, x)[i] = x \/ \E j \in DOMAIN s : Append(s, x)[i] = s[j]
  <2>1. DOMAIN Append(s, x) = DOMAIN s \cup {Len(s) + 1} /\ Append(s, x)[Len(s) + 1] = x
        OBVIOUS
  <2>2. \A j \in DOMAIN s : Append(s, x)[j] = s[j]
        OBVIOUS
  <2> QED BY <2>1, <2>2
<1>2. ASSUME s # <<>>, NEW i \in DOMAIN Tail(s) PROVE \E j \in DOMAIN s : Tail(s)[i] = s[j]
  <2>1. Len(Tail(s)) = Len(s) - 1 /\ Len(s) \in Nat /\ Tail(s) \in Seq(S)
        BY <1>2
  <2>2. DOMAIN s = 1..Len(s) /\ DOMAIN Tail(s) = 1..(Len(s) - 1)
        BY <2>1
  <2>3. Tail(s)[i] = s[i + 1] /\ i + 1 \in DOMAIN s
        BY <1>2, <2>1, <2>2
  <2> QED BY <2>3
<1> QED BY <1>1, <1>2, ZenonT(30)

(* DeleteClient is the last request of a process. *)
LEMMA LastStep ==
  ASSUME StateInv, OutInv,
         \/ HandleFrame
         \/ \E p \in Procs : StartEffect(p) \/ CallEffect(p) \/ EndFrame(p)
  PROVE  LastOK'
<1>1. requests \in Seq(Requests) /\ \A i \in DOMAIN requests : requests[i] \in Requests
      BY DEF StateInv, TypeInv
<1>2. \A i \in DOMAIN requests : requests[i].from \in Procs
      BY <1>1, ZenonT(30) DEF Requests
<1>3. ASSUME \A q \in Procs : st[q] \in {"dropped", "denied"} => st'[q] = st[q],
             \A i \in DOMAIN requests' :
               \/ \E j \in DOMAIN requests : requests'[i] = requests[j]
               \/ requests'[i].type # "DeleteClient"
               \/ st'[requests'[i].from] \in {"dropped", "denied"}
      PROVE  LastOK'
      BY <1>2, <1>3, ZenonT(30) DEF OutInv, LastOK
<1>4. ASSUME NEW p \in Procs, NEW type, NEW want, SendTo(p, type, want),
             type # "DeleteClient" \/ st'[p] \in {"dropped", "denied"}
      PROVE  \A i \in DOMAIN requests' :
               \/ \E j \in DOMAIN requests : requests'[i] = requests[j]
               \/ requests'[i].type # "DeleteClient"
               \/ st'[requests'[i].from] \in {"dropped", "denied"}
  <2> DEFINE x == [from |-> p, type |-> type, want |-> want]
  <2>1. requests' = Append(requests, x)
        BY <1>4 DEF SendTo
  <2>2. x.type # "DeleteClient" \/ st'[x.from] \in {"dropped", "denied"}
        BY <1>4
  <2> HIDE DEF x
  <2>3. \A i \in DOMAIN requests' :
          requests'[i] = x \/ \E j \in DOMAIN requests : requests'[i] = requests[j]
        BY <1>1, <2>1, QueueMembers
  <2> QED BY <2>2, <2>3, ZenonT(30)
<1>5. CASE HandleFrame
  <2>1. requests # <<>> /\ requests' = Tail(requests) /\ UNCHANGED st
        BY <1>5, ZenonT(30) DEF HandleFrame, backendVars
  <2>2. \A i \in DOMAIN requests' : \E j \in DOMAIN requests : requests'[i] = requests[j]
        BY <1>1, <2>1, QueueMembers, ZenonT(30)
  <2> QED BY <1>3, <2>1, <2>2, ZenonT(30)
<1>6. ASSUME NEW p \in Procs, StartEffect(p) PROVE LastOK'
  <2>1. StartFrame(p) /\ (UNCHANGED requests \/ SendTo(p, "RequestDevice", None))
        BY <1>6, ZenonT(30) DEF StartEffect, ChoosesMac, CreatesLink, OpensDevice, RequestsDevice,
             ReceivesDevice, Configures, usnetdVars
  <2>2. \A q \in Procs : st[q] \in {"dropped", "denied"} => st'[q] = st[q]
        BY <2>1 DEF StartFrame, Starting
  <2> QED BY <1>3, <1>4, <2>1, <2>2, ZenonT(30)
<1>7. ASSUME NEW p \in Procs, CallEffect(p) PROVE LastOK'
  <2>1. UNCHANGED st
        BY <1>7, ZenonT(30) DEF CallEffect, CallFrame, backendVars
  <2>2. \/ UNCHANGED requests
        \/ SendTo(p, "AddMatch", CurWant(p, op'[p]))
        \/ SendTo(p, "QueryUsedPorts", None)
        BY <1>7, ZenonT(30) DEF CallEffect, Quiet, Asks, Queries, Opens, Hears, Misses, HearsPorts, Drops
  <2> QED BY <1>3, <1>4, <2>1, <2>2, ZenonT(30)
<1>8. ASSUME NEW p \in Procs, EndFrame(p) PROVE LastOK'
  <2>1. \A q \in Procs : st[q] \in {"dropped", "denied"} => st'[q] = st[q]
        BY <1>8, ZenonT(30) DEF EndFrame
  <2>2. \/ UNCHANGED requests
        \/ SendTo(p, "DeleteClient", None) /\ st'[p] \in {"dropped", "denied"}
        BY <1>8, ZenonT(30) DEF EndFrame
  <2> QED BY <1>3, <1>4, <2>1, <2>2, ZenonT(30)
<1> QED BY <1>5, <1>6, <1>7, <1>8, ZenonT(30)

(* The count is right at first and stays right. *)
LEMMA InitOut ==
  ASSUME CountLaws, Init PROVE OutInv
<1>1. requests = <<>> /\ requests \in Seq(Requests)
      BY DEF Init, BackendInit, UsnetdInit
<1>2. LastOK
      BY <1>1 DEF LastOK
<1>3. ASSUME NEW p \in Procs PROVE OutOK(p)
  <2>1. st[p] = "new" /\ iface[p] = None /\ answers[p] = <<>>
        BY DEF Init, BackendInit, UsnetdInit
  <2>2. Sent(requests, p) = {}
        BY <1>1 DEF Sent
  <2>3. Outstanding(p) = 0
        BY <2>1, <2>2 DEF Outstanding, CountLaws
  <2> QED BY <2>1, <2>3, ZenonT(30) DEF OutOK, control
<1> QED BY <1>2, <1>3, ZenonT(30) DEF OutInv

(* Every step. *)
LEMMA NextOut == CountLaws /\ StateInv /\ StateInv' /\ OutInv /\ Effect => OutInv'
<1> QED BY LastStep, OutHandle, OutStart, OutCall, OutEnd, ZenonT(30) DEF OutInv, Effect

------------------------------------------------------------------------------
(* usnetd's OK is about the match that was asked for. *)

(* As long as p has missed nothing, what is outstanding is about the match *)
(* that p waits for, and OK is only said of one that was granted.          *)
WaitOK(p) ==
  control(p) /\ pc[p] = "answer" /\ interrupts[p] = 0 =>
    /\ \A i \in Sent(requests, p) : requests[i].type = "AddMatch" /\ requests[i].want = CurWant(p, op[p])
    /\ \A i \in DOMAIN answers[p] :
         answers[p][i].type = "OK" => [client |-> p, want |-> CurWant(p, op[p])] \in table

(* A socket rests on its grant, and a grant on being the only one. *)
SocksGranted ==
  \A s \in socks : Matched(s) /\ interrupts[s.owner] = 0
                     => [client |-> s.owner, want |-> s.want] \in table

GrantsUnique == \A d, e \in table : d.want = e.want => d = e
GrantInv == (\A p \in Procs : WaitOK(p)) /\ SocksGranted /\ GrantsUnique

(* Taking the first request moves the others up. *)
LEMMA SentTail ==
  ASSUME NEW S, NEW reqs \in Seq(S), reqs # <<>>, NEW p
  PROVE  \A i \in Sent(Tail(reqs), p) : i + 1 \in Sent(reqs, p) /\ Tail(reqs)[i] = reqs[i + 1]
<1>1. Tail(reqs) \in Seq(S) /\ Len(Tail(reqs)) = Len(reqs) - 1 /\ Len(reqs) \in Nat
      OBVIOUS
<1>2. DOMAIN reqs = 1..Len(reqs) /\ DOMAIN Tail(reqs) = 1..(Len(reqs) - 1)
      BY <1>1
<1>3. \A i \in 1..(Len(reqs) - 1) : Tail(reqs)[i] = reqs[i + 1]
      OBVIOUS
<1> QED BY <1>1, <1>2, <1>3 DEF Sent

(* Nothing that concerns the call of a process has changed. *)
LEMMA WaitSame ==
  ASSUME TypeInv, NEW q \in Procs, WaitOK(q),
         \A i \in Sent(requests', q) : \E j \in Sent(requests, q) : requests'[i] = requests[j],
         answers'[q] = answers[q],
         \A w : [client |-> q, want |-> w] \in table => [client |-> q, want |-> w] \in table',
         pc'[q] = pc[q], op'[q] = op[q], iface'[q] = iface[q], interrupts'[q] = interrupts[q]
  PROVE  WaitOK(q)'
<1> SUFFICES ASSUME control(q)', pc'[q] = "answer", interrupts'[q] = 0
             PROVE  /\ \A i \in Sent(requests', q) :
                         /\ requests'[i].type = "AddMatch"
                         /\ requests'[i].want = CurWant(q, op[q])'
                    /\ \A i \in DOMAIN answers'[q] :
                         answers'[q][i].type = "OK" =>
                           [client |-> q, want |-> CurWant(q, op[q])'] \in table'
    BY ZenonT(30) DEF WaitOK, Sent
<1>1. control(q) /\ pc[q] = "answer" /\ interrupts[q] = 0
      BY Zenon DEF control
<1>2. CurWant(q, op[q])' = CurWant(q, op[q])
      BY Zenon DEF CurWant, Want, Ip
<1> QED BY <1>1, <1>2, ZenonT(30) DEF WaitOK

(* A request of another process is not one of q's. *)
LEMMA SentByOther ==
  ASSUME TypeInv, NEW p \in Procs, NEW q \in Procs, p # q, NEW type, NEW want,
         UNCHANGED requests \/ SendTo(p, type, want)
  PROVE  \A i \in Sent(requests', q) : \E j \in Sent(requests, q) : requests'[i] = requests[j]
<1>1. requests \in Seq(Requests)
      BY ZenonT(30) DEF TypeInv
<1>2. CASE SendTo(p, type, want)
  <2> DEFINE r == [from |-> p, type |-> type, want |-> want]
  <2>1. requests' = Append(requests, r) /\ r.from # q
        BY <1>2, ZenonT(30) DEF SendTo
  <2> HIDE DEF r
  <2>2. \A i \in DOMAIN Append(requests, r) :
          Append(requests, r)[i] = r \/ \E j \in DOMAIN requests : Append(requests, r)[i] = requests[j]
        BY <1>1, QueueMembers
  <2> QED BY <2>1, <2>2, ZenonT(30) DEF Sent
<1>3. CASE UNCHANGED requests
      BY <1>3
<1> QED BY <1>2, <1>3, ZenonT(30)

(* A call that begins to wait has nothing else outstanding. *)
LEMMA WaitAsk ==
  ASSUME CountLaws, StateInv, OutInv, NEW p \in Procs, Asks(p), UNCHANGED <<backendVars, table>>
  PROVE  WaitOK(p)'
<1> SUFFICES ASSUME interrupts'[p] = 0
             PROVE  /\ \A i \in Sent(requests', p) :
                         /\ requests'[i].type = "AddMatch"
                         /\ requests'[i].want = CurWant(p, op[p])'
                    /\ answers'[p] = <<>>
    BY DEF WaitOK, Sent
<1>1. /\ control(p) /\ pc[p] \notin Waiting /\ SendTo(p, "AddMatch", CurWant(p, op'[p]))
      /\ CurWant(p, op'[p]) \in Matches /\ UNCHANGED <<answers, interrupts>>
      BY DEF Asks
<1>2. TypeInv /\ OutOK(p)
      BY ZenonT(30) DEF StateInv, OutInv
<1>3. /\ Cardinality(Sent(requests, p)) \in Nat /\ Len(answers[p]) \in Nat
      /\ requests \in Seq(Requests) /\ answers[p] \in Seq(Answers)
      BY <1>2, OutNat, ZenonT(30)
<1>4. Cardinality(Sent(requests, p)) + Len(answers[p]) = 0
      BY <1>1, <1>2 DEF OutOK, Outstanding, Waiting
<1>5. Cardinality(Sent(requests, p)) = 0 /\ Len(answers[p]) = 0
      BY <1>3, <1>4
<1>6. Sent(requests, p) = {} /\ answers[p] = <<>>
      BY <1>3, <1>5 DEF CountLaws
<1> DEFINE r == [from |-> p, type |-> "AddMatch", want |-> CurWant(p, op'[p])]
<1>7. r \in Requests /\ requests' = Append(requests, r)
      BY <1>1, <1>2, Sending
<1>8. r.from = p /\ r.type = "AddMatch" /\ r.want = CurWant(p, op'[p])
      OBVIOUS
<1> HIDE DEF r
<1>9. Sent(requests', p) = {Len(requests) + 1}
      BY <1>1, <1>2, <1>6, OutSend
<1>10. requests'[Len(requests) + 1] = r
       BY <1>3, <1>7
<1>11. CurWant(p, op[p])' = CurWant(p, op'[p])
       BY Zenon DEF CurWant, Want, Ip, backendVars
<1> QED BY <1>1, <1>6, <1>8, <1>9, <1>10, <1>11, ZenonT(30)

(* What is promised of sockets does not depend on the call. *)
LEMMA MatchedSame ==
  ASSUME NEW s, iface'[s.owner] = iface[s.owner], conf' = conf
  PROVE  Matched(s)' <=> Matched(s)
BY Zenon DEF Matched, control

(* The steps of calls. *)
LEMMA GrantCall ==
  ASSUME CountLaws, StateInv, OutInv, GrantInv, NEW p \in Procs, CallEffect(p) PROVE GrantInv'
<1>1. TypeInv /\ \A q \in Procs : WaitOK(q)
      BY ZenonT(30) DEF StateInv, GrantInv
<1>2. UNCHANGED <<table, conf, st, iface, backendVars>>
      BY ZenonT(30) DEF CallEffect, CallFrame, backendVars
<1>3. ASSUME NEW q \in Procs \ {p} PROVE WaitOK(q)'
  <2>1. /\ answers'[q] = answers[q] /\ pc'[q] = pc[q] /\ op'[q] = op[q]
        /\ interrupts'[q] = interrupts[q]
        BY ZenonT(30) DEF CallEffect, CallFrame
  <2>2. \/ UNCHANGED requests
        \/ SendTo(p, "AddMatch", CurWant(p, op'[p]))
        \/ SendTo(p, "QueryUsedPorts", None)
        BY ZenonT(30) DEF CallEffect, Quiet, Asks, Queries, Opens, Hears, Misses, HearsPorts, Drops
  <2>3. \A i \in Sent(requests', q) : \E j \in Sent(requests, q) : requests'[i] = requests[j]
        BY <1>1, <2>2, SentByOther, ZenonT(30)
  <2> QED BY <1>1, <1>2, <2>1, <2>3, WaitSame, ZenonT(30)
<1>4. WaitOK(p)'
  <2>1. CASE Asks(p)
        BY <1>2, <2>1, WaitAsk, ZenonT(30)
  <2>2. CASE ~Asks(p)
    <3>1. pc'[p] # "answer"
          BY <2>2, ZenonT(30) DEF CallEffect, Quiet, Queries, Opens, Hears, Misses, HearsPorts, Drops, Waiting
    <3> QED BY <3>1, ZenonT(30) DEF WaitOK
  <2> QED BY <2>1, <2>2, ZenonT(30)
<1>5. ASSUME NEW s \in socks', Matched(s)', interrupts'[s.owner] = 0
      PROVE  [client |-> s.owner, want |-> s.want] \in table'
  <2>1. Matched(s)
        BY <1>2, <1>5, MatchedSame, ZenonT(30)
  <2>2. CASE s \in socks
    <3>1. s.owner \in Procs
          BY <1>1, <2>2, ZenonT(30) DEF TypeInv, Socks
    <3>2. interrupts[s.owner] = 0
      <4>1. CASE s.owner # p
            BY <1>5, <3>1, <4>1, ZenonT(30) DEF CallEffect, CallFrame
      <4>2. CASE s.owner = p /\ Misses(p)
        <5>1. interrupts[p] \in Nat /\ interrupts'[p] = interrupts[p] + 1
              BY <1>1, <4>2, ZenonT(30) DEF Misses, TypeInv
        <5> QED BY <1>5, <4>2, <5>1
      <4>3. CASE ~Misses(p)
            BY <1>5, <4>3, ZenonT(30) DEF CallEffect, Quiet, Asks, Queries, Opens, Hears, HearsPorts, Drops
      <4> QED BY <4>1, <4>2, <4>3, ZenonT(30)
    <3> QED BY <1>2, <2>1, <2>2, <3>2, ZenonT(30) DEF GrantInv, SocksGranted
  <2>3. CASE s \notin socks
    <3>1. Hears(p) /\ Accepted(Head(answers[p])) /\ Succeeds(p)
      <4>1. Hears(p)
        <5>1. ASSUME Opens(p) \/ HearsPorts(p) PROVE FALSE
          <6>1. s \in socks'
                BY <1>5
          <6>2. UNCHANGED socks \/ \E t \in Socks : ~Matched(t) /\ socks' = socks \cup {t}
                BY <5>1, ZenonT(30) DEF Opens, HearsPorts
          <6> QED BY <2>1, <2>3, <6>1, <6>2, ZenonT(30)
        <5>2. ~(Quiet(p) \/ Asks(p) \/ Queries(p) \/ Misses(p))
              BY <1>5, <2>3, ZenonT(30) DEF Quiet, Asks, Queries, Misses, GivesUp
        <5>3. ~Drops(p)
              BY <1>5, <2>3, ZenonT(30) DEF Drops, CloseSocks
        <5> QED BY <5>1, <5>2, <5>3, ZenonT(30) DEF CallEffect
      <4> QED BY <1>5, <2>3, <4>1, ZenonT(30) DEF Hears, GivesUp
    <3>2. s.owner = p /\ s.want = CurWant(p, op[p])
          BY <1>5, <2>3, <3>1 DEF Succeeds, Sock
    <3>3. /\ interrupts[p] = 0 /\ pc[p] = "answer" /\ control(p)
          /\ answers[p] # <<>> /\ answers[p] \in Seq(Answers)
          BY <1>1, <1>5, <2>1, <3>1, <3>2, ZenonT(30) DEF Hears, Matched, TypeInv
    <3>4. 1 \in DOMAIN answers[p] /\ answers[p][1].type = "OK"
          BY <3>1, <3>3, FirstOf, ZenonT(30) DEF Accepted
    <3>5. [client |-> p, want |-> CurWant(p, op[p])] \in table
          BY <1>1, <3>3, <3>4 DEF WaitOK
    <3> QED BY <1>2, <3>2, <3>5, ZenonT(30)
  <2> QED BY <2>2, <2>3
<1>6. GrantsUnique'
      BY <1>2, ZenonT(30) DEF GrantInv, GrantsUnique
<1> QED BY <1>3, <1>4, <1>5, <1>6 DEF GrantInv, SocksGranted

(* The steps of the start-up. *)
LEMMA GrantStart ==
  ASSUME StateInv, GrantInv, NEW p \in Procs, StartEffect(p) PROVE GrantInv'
<1>1. TypeInv /\ \A q \in Procs : WaitOK(q)
      BY DEF StateInv, GrantInv
<1>2. StartFrame(p) /\ (UNCHANGED requests \/ SendTo(p, "RequestDevice", None))
      BY ZenonT(30) DEF StartEffect, ChoosesMac, CreatesLink, OpensDevice, RequestsDevice,
             ReceivesDevice, Configures, usnetdVars
<1>3. st[p] \in Starting /\ UNCHANGED <<table, conf, pc, op, socks, interrupts>> /\ st[p] # "up"
      BY <1>2, ZenonT(30) DEF StartFrame, callVars, Starting
<1>4. pc[p] = "idle" /\ Owned(p) = {}
      BY <1>3, NotUp, ZenonT(30)
<1>5. ASSUME NEW q \in Procs \ {p} PROVE WaitOK(q)'
  <2>1. /\ answers'[q] = answers[q] /\ iface'[q] = iface[q] /\ pc'[q] = pc[q] /\ op'[q] = op[q]
        /\ interrupts'[q] = interrupts[q]
        BY <1>2, <1>3, ZenonT(30) DEF StartFrame
  <2>2. \A i \in Sent(requests', q) : \E j \in Sent(requests, q) : requests'[i] = requests[j]
        BY <1>1, <1>2, SentByOther, ZenonT(30)
  <2> QED BY <1>1, <1>3, <2>1, <2>2, WaitSame, ZenonT(30)
<1>6. WaitOK(p)'
      BY <1>3, <1>4, ZenonT(30) DEF WaitOK
<1>7. ASSUME NEW s \in socks', Matched(s)', interrupts'[s.owner] = 0
      PROVE  [client |-> s.owner, want |-> s.want] \in table'
  <2>1. s \in socks /\ s.owner \in Procs \ {p}
        BY <1>1, <1>3, <1>4, ZenonT(30) DEF TypeInv, Socks, Owned
  <2>2. Matched(s)
    <3>1. iface'[s.owner] = iface[s.owner]
          BY <1>2, <2>1 DEF StartFrame
    <3> QED BY <1>3, <1>7, <3>1, MatchedSame, ZenonT(30)
  <2> QED BY <1>3, <1>7, <2>1, <2>2, ZenonT(30) DEF GrantInv, SocksGranted
<1>8. GrantsUnique'
      BY <1>3, ZenonT(30) DEF GrantInv, GrantsUnique
<1> QED BY <1>5, <1>6, <1>7, <1>8, ZenonT(30) DEF GrantInv, SocksGranted

(* The end of a process: its sockets are gone before its grants. *)
LEMMA GrantEnd ==
  ASSUME StateInv, GrantInv, NEW p \in Procs, EndFrame(p) PROVE GrantInv'
<1>1. TypeInv /\ \A q \in Procs : WaitOK(q)
      BY DEF StateInv, GrantInv
<1>2. /\ UNCHANGED <<table, conf, interrupts>> /\ pc'[p] = "idle" /\ socks' = socks \ Owned(p)
      /\ UNCHANGED requests \/ SendTo(p, "DeleteClient", None)
      BY ZenonT(30) DEF EndFrame
<1>3. ASSUME NEW q \in Procs \ {p} PROVE WaitOK(q)'
  <2>1. /\ answers'[q] = answers[q] /\ iface'[q] = iface[q] /\ pc'[q] = pc[q] /\ op'[q] = op[q]
        /\ interrupts'[q] = interrupts[q]
        BY ZenonT(30) DEF EndFrame
  <2>2. \A i \in Sent(requests', q) : \E j \in Sent(requests, q) : requests'[i] = requests[j]
        BY <1>1, <1>2, SentByOther, ZenonT(30)
  <2> QED BY <1>1, <1>2, <2>1, <2>2, WaitSame, ZenonT(30)
<1>4. WaitOK(p)'
      BY <1>2 DEF WaitOK
<1>5. ASSUME NEW s \in socks', Matched(s)', interrupts'[s.owner] = 0
      PROVE  [client |-> s.owner, want |-> s.want] \in table'
  <2>1. s \in socks /\ s.owner \in Procs \ {p}
        BY <1>1, <1>2 DEF TypeInv, Socks, Owned
  <2>2. Matched(s)
    <3>1. iface'[s.owner] = iface[s.owner]
          BY <2>1, ZenonT(30) DEF EndFrame
    <3> QED BY <1>2, <1>5, <3>1, MatchedSame, ZenonT(30)
  <2> QED BY <1>2, <1>5, <2>1, <2>2, ZenonT(30) DEF GrantInv, SocksGranted
<1>6. GrantsUnique'
      BY <1>2, ZenonT(30) DEF GrantInv, GrantsUnique
<1> QED BY <1>3, <1>4, <1>5, <1>6, ZenonT(30) DEF GrantInv, SocksGranted

(* usnetd grants a match that nobody else holds, and forgets a client that *)
(* has gone.                                                               *)
LEMMA GrantHandle ==
  ASSUME StateInv, OutInv, GrantInv, HandleFrame PROVE GrantInv'
<1> DEFINE m == Head(requests)
           g == [client |-> m.from, want |-> m.want]
<1>1. TypeInv /\ \A q \in Procs : WaitOK(q)
      BY DEF StateInv, GrantInv
<1>2. /\ requests \in Seq(Requests) /\ requests # <<>> /\ requests' = Tail(requests)
      /\ m \in Requests /\ m.from \in Procs /\ 1 \in DOMAIN requests /\ m = requests[1]
  <2>1. requests \in Seq(Requests) /\ requests # <<>> /\ requests' = Tail(requests)
        BY <1>1, ZenonT(30) DEF HandleFrame, TypeInv
  <2>2. m \in Requests /\ 1 \in DOMAIN requests /\ m = requests[1]
        BY <2>1, FirstOf, ZenonT(30)
  <2>3. m.from \in Procs
        BY <2>2, ZenonT(30) DEF Requests
  <2> QED BY <2>1, <2>2, <2>3, ZenonT(30)
<1>3. UNCHANGED <<conf, st, iface, pc, op, socks, interrupts>>
      BY ZenonT(30) DEF HandleFrame, backendVars, callVars
<1>4. m.type = "DeleteClient" => ~control(m.from)
  <2>1. m.type = "DeleteClient" => st[m.from] # "up"
        BY <1>2 DEF OutInv, LastOK
  <2> QED BY <1>2, <2>1, NotUp, ZenonT(30)
<1>5. /\ \A e \in table : e.client # m.from \/ m.type # "DeleteClient" => e \in table'
      /\ \A e \in table' : e \in table \/ (e = g /\ m.type = "AddMatch" /\ m.want \in Matches
                                                 /\ Holders(m.want) \ {m.from} = {})
      BY ZenonT(30) DEF HandleFrame
<1>6. GrantsUnique'
  <2>1. ASSUME NEW e \in table, e.want = m.want, Holders(m.want) \ {m.from} = {}
        PROVE  e = g
    <3>1. e \in Grants
          BY <1>1 DEF TypeInv
    <3>2. e = [client |-> e.client, want |-> e.want] /\ e.client \in Procs
          BY <3>1 DEF Grants
    <3>3. e.client \in Holders(m.want)
          BY <2>1, <3>2 DEF Holders
    <3> QED BY <2>1, <3>2, <3>3, ZenonT(30)
  <2>2. g.want = m.want
        OBVIOUS
  <2> HIDE DEF g, m
  <2> QED BY <1>5, <2>1, <2>2, ZenonT(30) DEF GrantInv, GrantsUnique
<1>7. ASSUME NEW s \in socks', Matched(s)', interrupts'[s.owner] = 0
      PROVE  [client |-> s.owner, want |-> s.want] \in table'
  <2>1. s \in socks /\ Matched(s) /\ interrupts[s.owner] = 0
        BY <1>3, <1>7, MatchedSame, ZenonT(30)
  <2>2. [client |-> s.owner, want |-> s.want] \in table
        BY <2>1 DEF GrantInv, SocksGranted
  <2>3. s.owner # m.from \/ m.type # "DeleteClient"
        BY <1>4, <2>1, ZenonT(30) DEF Matched
  <2> QED BY <1>5, <2>2, <2>3, ZenonT(30)
<1>8. ASSUME NEW q \in Procs PROVE WaitOK(q)'
  <2>1. \A i \in Sent(requests', q) : \E j \in Sent(requests, q) : requests'[i] = requests[j]
    <3>1. \A i \in Sent(Tail(requests), q) :
            i + 1 \in Sent(requests, q) /\ Tail(requests)[i] = requests[i + 1]
          BY <1>2, SentTail, ZenonT(30)
    <3> QED BY <1>2, <3>1, Zenon
  <2>2. CASE ~(control(q) /\ pc[q] = "answer" /\ interrupts[q] = 0)
        BY <1>3, <2>2, ZenonT(30) DEF WaitOK, control
  <2>3. CASE control(q) /\ pc[q] = "answer" /\ interrupts[q] = 0
    <3>1. \A w : [client |-> q, want |-> w] \in table => [client |-> q, want |-> w] \in table'
          BY <1>4, <1>5, <2>3
    <3>2. CASE answers'[q] = answers[q]
          BY <1>1, <1>3, <2>1, <3>1, <3>2, WaitSame, ZenonT(30)
    <3>3. CASE answers'[q] # answers[q]
      <4>1. PICK a \in Answers :
              /\ Answer(m.from, a)
              /\ a.type = "OK" => m.type = "AddMatch" /\ g \in table'
        <5>1. \A ok \in BOOLEAN : /\ [type |-> IF ok THEN "OK" ELSE "NO"] \in Answers
                                  /\ [type |-> IF ok THEN "OK" ELSE "NO"].type = "OK" => ok
              BY DEF Answers
        <5>2. CASE UNCHANGED answers
              BY <3>3, <5>2
        <5>3. CASE \E a \in Answers : a.type # "OK" /\ Answer(m.from, a)
              BY <5>3, ZenonT(30)
        <5>4. ASSUME NEW ok \in BOOLEAN, m.type = "AddMatch",
                     table' = IF ok THEN table \cup {g} ELSE table,
                     Answer(m.from, [type |-> IF ok THEN "OK" ELSE "NO"])
              PROVE  \E a \in Answers :
                       /\ Answer(m.from, a)
                       /\ a.type = "OK" => m.type = "AddMatch" /\ g \in table'
              BY <5>1, <5>4, Zenon
        <5> QED BY <5>2, <5>3, <5>4, ZenonT(30) DEF HandleFrame
      <4>2. /\ answers'[m.from] = Append(answers[m.from], a)
            /\ \A r \in Procs \ {m.from} : answers'[r] = answers[r]
            BY <1>1, <1>2, <4>1, Replying, ZenonT(30)
      <4>3. q = m.from /\ 1 \in Sent(requests, q)
            BY <1>2, <3>3, <4>2, ZenonT(30) DEF Sent
      <4>4. a.type = "OK" => [client |-> q, want |-> CurWant(q, op[q])] \in table'
        <5>1. requests[1].want = CurWant(q, op[q])
              BY <1>1, <2>3, <4>3, ZenonT(30) DEF WaitOK
        <5> QED BY <1>2, <4>1, <4>3, <5>1
      <4>5. \A i \in DOMAIN answers'[q] :
              answers'[q][i] = a \/ \E j \in DOMAIN answers[q] : answers'[q][i] = answers[q][j]
        <5>1. answers[q] \in Seq(Answers) /\ answers'[q] = Append(answers[q], a)
              BY <1>1, <4>2, <4>3, ZenonT(30) DEF TypeInv
        <5> QED BY <5>1, QueueMembers
      <4>6. /\ \A i \in Sent(requests, q) :
                 requests[i].type = "AddMatch" /\ requests[i].want = CurWant(q, op[q])
            /\ \A i \in DOMAIN answers[q] :
                 answers[q][i].type = "OK" => [client |-> q, want |-> CurWant(q, op[q])] \in table
            BY <1>1, <2>3 DEF WaitOK
      <4>7. CurWant(q, op[q])' = CurWant(q, op[q])
            BY <1>3, Zenon DEF CurWant, Want, Ip
      <4>8. \A i \in Sent(requests', q) :
              requests'[i].type = "AddMatch" /\ requests'[i].want = CurWant(q, op[q])'
            BY <2>1, <4>6, <4>7, ZenonT(30)
      <4>9. \A i \in DOMAIN answers'[q] :
              answers'[q][i].type = "OK" => [client |-> q, want |-> CurWant(q, op[q])'] \in table'
            BY <3>1, <4>4, <4>5, <4>6, <4>7, ZenonT(30)
      <4> QED BY <4>8, <4>9, ZenonT(30) DEF WaitOK, Sent
    <3> QED BY <3>2, <3>3, ZenonT(30)
  <2> QED BY <2>2, <2>3
<1> QED BY <1>6, <1>7, <1>8, ZenonT(30) DEF GrantInv, SocksGranted

(* At first nothing is granted, and every step keeps the promise. *)
LEMMA InitGrant == Init => GrantInv
BY ZenonT(30) DEF Init, BackendInit, UsnetdInit, GrantInv, WaitOK, SocksGranted, GrantsUnique

(* Every step. *)
LEMMA NextGrant == CountLaws /\ StateInv /\ OutInv /\ GrantInv /\ Effect => GrantInv'
<1> QED BY GrantHandle, GrantStart, GrantCall, GrantEnd, ZenonT(30) DEF Effect

------------------------------------------------------------------------------
(* The kernel's sockets *)

Binding(p) == pc[p] = "answer" /\ op[p].call = "bind"
Pending == {CurLo(p, op[p]) : p \in {q \in Procs : Binding(q)}}

(* The kernel has the sockets of the listeners, one each, and those of the *)
(* calls that wait for usnetd.                                             *)
KernelOK(S, K, P) ==
  /\ \A s \in S : s.lo # None => s.lo \in K \ P /\ s.lo.owner = s.owner
  /\ \A s, t \in S : s.lo = t.lo /\ s.lo # None => s = t
  /\ P \subseteq K
  /\ \A k \in K : k \in P \/ \E s \in S : s.lo = k

KernelInv == KernelOK(socks, kernel, Pending)

(* The sockets of a process that waits for nothing go with their listeners. *)
LEMMA KernelClosed ==
  ASSUME NEW S, NEW K, NEW P, NEW gone \in SUBSET S, KernelOK(S, K, P), None \notin K
  PROVE  KernelOK(S \ gone, K \ {s.lo : s \in gone}, P)
BY DEF KernelOK

(* A pending socket is that of its owner's call. *)
LEMMA PendingOf ==
  /\ \A k \in Pending : k.owner \in Procs /\ Binding(k.owner) /\ k = CurLo(k.owner, op[k.owner])
  /\ \A q \in Procs : /\ CurLo(q, op[q]).owner = q
                      /\ Binding(q) => CurLo(q, op[q]) \in Pending
<1>1. \A q, o : CurLo(q, o).owner = q
      BY DEF CurLo, KernelSocket
<1> QED BY <1>1 DEF Pending

(* The other processes' calls stay as they are. *)
LEMMA PendingFrame ==
  ASSUME NEW p \in Procs,
         \A q \in Procs \ {p} : pc'[q] = pc[q] /\ op'[q] = op[q] /\ iface'[q] = iface[q]
  PROVE  \A k : k.owner # p => (k \in Pending' <=> k \in Pending)
<1>1. ASSUME NEW q \in Procs \ {p}
      PROVE  (Binding(q)' <=> Binding(q)) /\ CurLo(q, op[q])' = CurLo(q, op[q])
      BY <1>1, Zenon DEF Binding, CurLo, LoAddr, Ip
<1>2. /\ \A k \in Pending' : \E q \in Procs : Binding(q)' /\ k = CurLo(q, op[q])'
      /\ \A k \in Pending : \E q \in Procs : Binding(q) /\ k = CurLo(q, op[q])
      /\ \A q \in Procs : /\ Binding(q)' => CurLo(q, op[q])' \in Pending'
                          /\ Binding(q) => CurLo(q, op[q]) \in Pending
      BY Zenon DEF Pending
<1>3. \A q \in Procs : CurLo(q, op[q])'.owner = q /\ CurLo(q, op[q]).owner = q
      BY ZenonT(30) DEF CurLo, KernelSocket
<1>4. ASSUME NEW k, k.owner # p, k \in Pending' PROVE k \in Pending
  <2>1. PICK q \in Procs : Binding(q)' /\ k = CurLo(q, op[q])'
        BY <1>2, <1>4, ZenonT(30)
  <2>2. q \in Procs \ {p}
        BY <1>3, <1>4, <2>1, ZenonT(30)
  <2> QED BY <1>1, <1>2, <2>1, <2>2, ZenonT(30)
<1>5. ASSUME NEW k, k.owner # p, k \in Pending PROVE k \in Pending'
  <2>1. PICK q \in Procs : Binding(q) /\ k = CurLo(q, op[q])
        BY <1>2, <1>5, ZenonT(30)
  <2>2. q \in Procs \ {p}
        BY <1>3, <1>5, <2>1, ZenonT(30)
  <2> QED BY <1>1, <1>2, <2>1, <2>2, ZenonT(30)
<1> QED BY <1>4, <1>5

(* How the step of a process changes what is pending. *)
LEMMA PendingStep ==
  ASSUME NEW p \in Procs,
         \A q \in Procs \ {p} : pc'[q] = pc[q] /\ op'[q] = op[q] /\ iface'[q] = iface[q]
  PROVE  /\ ~Binding(p)' /\ ~Binding(p) => Pending' = Pending
         /\ ~Binding(p)' => Pending' = {k \in Pending : k.owner # p}
         /\ ~Binding(p)' /\ Binding(p) => Pending' = Pending \ {CurLo(p, op[p])}
         /\ Binding(p)' /\ ~Binding(p) => Pending' = Pending \cup {CurLo(p, op[p])'}
<1>1. \A k : k.owner # p => (k \in Pending' <=> k \in Pending)
      BY PendingFrame
<1>2. /\ \A k \in Pending' : k.owner = p => Binding(p)' /\ k = CurLo(p, op[p])'
      /\ Binding(p)' => CurLo(p, op[p])' \in Pending'
      /\ CurLo(p, op[p])'.owner = p
  <2>1. /\ \A k \in Pending' : \E q \in Procs : Binding(q)' /\ k = CurLo(q, op[q])'
        /\ Binding(p)' => CurLo(p, op[p])' \in Pending'
        BY Zenon DEF Pending
  <2>2. \A q \in Procs : CurLo(q, op[q])'.owner = q
        BY ZenonT(30) DEF CurLo, KernelSocket
  <2>3. ASSUME NEW k \in Pending', k.owner = p PROVE Binding(p)' /\ k = CurLo(p, op[p])'
    <3>1. PICK q \in Procs : Binding(q)' /\ k = CurLo(q, op[q])'
          BY <2>1, ZenonT(30)
    <3>2. q = p
          BY <2>2, <2>3, <3>1, ZenonT(30)
    <3> QED BY <3>1, <3>2, ZenonT(30)
  <2> QED BY <2>1, <2>2, <2>3, ZenonT(30)
<1>3. /\ \A k \in Pending : k.owner = p => Binding(p) /\ k = CurLo(p, op[p])
      /\ Binding(p) => CurLo(p, op[p]) \in Pending
      /\ CurLo(p, op[p]).owner = p
      BY PendingOf, ZenonT(30)
<1> DEFINE new == CurLo(p, op[p])'
           old == CurLo(p, op[p])
<1> HIDE DEF new, old
<1>4. /\ \A k \in Pending' : k.owner = p => Binding(p)' /\ k = new
      /\ Binding(p)' => new \in Pending'
      /\ new.owner = p
      BY <1>2, ZenonT(30) DEF new
<1>5. /\ \A k \in Pending : k.owner = p => Binding(p) /\ k = old
      /\ Binding(p) => old \in Pending
      /\ old.owner = p
      BY <1>3, ZenonT(30) DEF old
<1>6. /\ ~Binding(p)' /\ ~Binding(p) => Pending' = Pending
      /\ ~Binding(p)' => Pending' = {k \in Pending : k.owner # p}
      BY <1>1, <1>4, <1>5, ZenonT(30)
<1>7. ~Binding(p)' /\ Binding(p) => Pending' = Pending \ {old}
      BY <1>1, <1>4, <1>5, ZenonT(30)
<1>8. Binding(p)' /\ ~Binding(p) => Pending' = Pending \cup {new}
      BY <1>1, <1>4, <1>5, ZenonT(30)
<1> QED BY <1>6, <1>7, <1>8, ZenonT(30) DEF new, old

(* The steps of calls. *)
LEMMA KernelCall ==
  ASSUME StateInv, KernelInv, NEW p \in Procs, CallEffect(p) PROVE KernelInv'
<1> DEFINE lo == CurLo(p, op[p])
<1>1. TypeInv /\ KernelOK(socks, kernel, Pending)
      BY DEF StateInv, KernelInv
<1>2. UNCHANGED iface /\ \A q \in Procs \ {p} : pc'[q] = pc[q] /\ op'[q] = op[q] /\ iface'[q] = iface[q]
      BY ZenonT(30) DEF CallEffect, CallFrame, backendVars
<1>3. /\ ~Binding(p)' /\ ~Binding(p) => Pending' = Pending
      /\ ~Binding(p)' /\ Binding(p) => Pending' = Pending \ {lo} /\ lo \in Pending
      /\ Binding(p)' /\ ~Binding(p) => Pending' = Pending \cup {CurLo(p, op[p])'}
      /\ lo.owner = p
      BY <1>2, PendingStep, PendingOf, ZenonT(30)
<1>4. \A s \in socks : s \in Socks
      BY <1>1 DEF TypeInv
<1> SUFFICES KernelOK(socks', kernel', Pending')
    BY ZenonT(30) DEF KernelInv, KernelOK
<1>5. CASE Quiet(p) \/ Queries(p)
  <2>1. ~Binding(p) /\ ~Binding(p)' /\ UNCHANGED <<kernel, socks>>
        BY <1>5, ZenonT(30) DEF Quiet, Queries, Binding, Waiting
  <2> QED BY <1>1, <1>3, <2>1, ZenonT(30)
<1>6. CASE Asks(p)
  <2>1. ~Binding(p) /\ UNCHANGED socks /\ pc'[p] = "answer"
        BY <1>6, ZenonT(30) DEF Asks, Binding, Waiting
  <2>2. CASE op'[p].call = "bind"
    <3>1. CurLo(p, op'[p]) \notin kernel /\ kernel' = kernel \cup {CurLo(p, op'[p])}
          BY <1>6, <2>2, ZenonT(30) DEF Asks
    <3>2. CurLo(p, op[p])' = CurLo(p, op'[p])
          BY <1>2, Zenon DEF CurLo, LoAddr, Ip
    <3>3. Pending' = Pending \cup {CurLo(p, op'[p])}
          BY <1>3, <2>1, <2>2, <3>2, ZenonT(30) DEF Binding
    <3> QED BY <1>1, <2>1, <3>1, <3>3, ZenonT(30) DEF KernelOK
  <2>3. CASE op'[p].call # "bind"
    <3>1. UNCHANGED kernel /\ ~Binding(p)'
          BY <1>6, <2>3, ZenonT(30) DEF Asks, Binding
    <3> QED BY <1>1, <1>3, <2>1, <3>1, ZenonT(30)
  <2> QED BY <2>2, <2>3, ZenonT(30)
<1>7. CASE Opens(p)
  <2>1. ~Binding(p) /\ ~Binding(p)'
        BY <1>7, ZenonT(30) DEF Opens, Binding, Waiting
  <2>2. PICK s \in Socks :
          /\ s.owner = p /\ socks' = socks \cup {s}
          /\ IF s.lo = None THEN UNCHANGED kernel
             ELSE s.lo \notin kernel /\ s.lo.owner = p /\ kernel' = kernel \cup {s.lo}
        BY <1>7, ZenonT(30) DEF Opens
  <2>3. Pending' = Pending
        BY <1>3, <2>1, ZenonT(30)
  <2>4. CASE s.lo = None
        BY <1>1, <2>2, <2>3, <2>4, ZenonT(30) DEF KernelOK
  <2>5. CASE s.lo # None
        BY <1>1, <2>2, <2>3, <2>5, ZenonT(30) DEF KernelOK
  <2> QED BY <2>4, <2>5
<1>8. ASSUME GivesUp(p), pc[p] = "answer", pc'[p] \notin Waiting
      PROVE  KernelOK(socks', kernel', Pending')
  <2>1. ~Binding(p)' /\ UNCHANGED socks
        BY <1>8, ZenonT(30) DEF Binding, GivesUp, Waiting
  <2>2. CASE op[p].call = "bind"
    <3>1. Binding(p) /\ kernel' = kernel \ {lo}
          BY <1>8, <2>2, ZenonT(30) DEF Binding, GivesUp
    <3> HIDE DEF lo
    <3> QED BY <1>1, <1>3, <2>1, <3>1, ZenonT(30) DEF KernelOK
  <2>3. CASE op[p].call # "bind"
    <3>1. ~Binding(p) /\ UNCHANGED kernel
          BY <1>8, <2>3, ZenonT(30) DEF Binding, GivesUp
    <3> QED BY <1>1, <1>3, <2>1, <3>1, ZenonT(30)
  <2> QED BY <2>2, <2>3, ZenonT(30)
<1>9. CASE Misses(p)
      BY <1>8, <1>9, ZenonT(30) DEF Misses
<1>10. ASSUME Succeeds(p), pc[p] = "answer", pc'[p] \notin Waiting
       PROVE  KernelOK(socks', kernel', Pending')
  <2> DEFINE s == Sock(p, CurWant(p, op[p]), IF op[p].call = "bind" THEN lo ELSE None)
  <2>1. /\ ~Binding(p)' /\ UNCHANGED kernel /\ socks' = socks \cup {s}
        BY <1>10, ZenonT(30) DEF Binding, Succeeds, Waiting
  <2>2. s.owner = p /\ s.lo = IF op[p].call = "bind" THEN lo ELSE None
        BY DEF Sock
  <2>3. CASE op[p].call = "bind"
    <3>1. Binding(p) /\ s.lo = lo
          BY <1>10, <2>2, <2>3, ZenonT(30) DEF Binding
    <3> HIDE DEF lo, s
    <3> QED BY <1>1, <1>3, <2>1, <2>2, <3>1, ZenonT(30) DEF KernelOK
  <2>4. CASE op[p].call # "bind"
    <3>1. ~Binding(p) /\ s.lo = None
          BY <2>2, <2>4 DEF Binding
    <3>2. Pending' = Pending
          BY <1>3, <2>1, <3>1, ZenonT(30)
    <3> HIDE DEF s
    <3> QED BY <1>1, <2>1, <3>1, <3>2, ZenonT(30) DEF KernelOK
  <2> QED BY <2>3, <2>4, ZenonT(30)
<1>11. CASE Hears(p)
       BY <1>8, <1>10, <1>11, ZenonT(30) DEF Hears
<1>12. CASE HearsPorts(p)
  <2>1. ~Binding(p) /\ ~Binding(p)' /\ UNCHANGED kernel
        BY <1>12, ZenonT(30) DEF HearsPorts, Binding, Waiting
  <2>2. Pending' = Pending
        BY <1>3, <2>1, ZenonT(30)
  <2>3. UNCHANGED socks \/ \E s \in Socks : s.lo = None /\ socks' = socks \cup {s}
        BY <1>12, ZenonT(30) DEF HearsPorts
  <2> QED BY <1>1, <2>1, <2>2, <2>3, ZenonT(30) DEF KernelOK
<1>13. CASE Drops(p)
  <2>1. PICK s \in Owned(p) : CloseSocks(p, {s})
        BY <1>13 DEF Drops
  <2>2. s \in socks /\ socks' = socks \ {s} /\ kernel' = kernel \ {s.lo}
        BY <2>1 DEF CloseSocks, Owned
  <2>3. ~Binding(p) /\ ~Binding(p)'
        BY <1>13, ZenonT(30) DEF Drops, Binding, Waiting
  <2>4. Pending' = Pending
        BY <1>3, <2>3, ZenonT(30)
  <2>5. None \notin kernel
        BY <1>1, NoneAssumption, ZenonT(30) DEF TypeInv
  <2> QED BY <1>1, <2>2, <2>4, <2>5, ZenonT(30) DEF KernelOK
<1> QED BY <1>5, <1>6, <1>7, <1>9, <1>11, <1>12, <1>13, ZenonT(30) DEF CallEffect

(* The end of a process closes its sockets and no others. *)
LEMMA KernelEnd ==
  ASSUME StateInv, KernelInv, NEW p \in Procs, EndFrame(p) PROVE KernelInv'
<1>1. TypeInv /\ KernelOK(socks, kernel, Pending)
      BY DEF StateInv, KernelInv
<1>2. /\ \A q \in Procs \ {p} : pc'[q] = pc[q] /\ op'[q] = op[q] /\ iface'[q] = iface[q]
      /\ ~Binding(p)' /\ socks' = socks \ Owned(p)
      /\ \/ kernel' = {k \in kernel : k.owner # p}
         \/ ~Binding(p) /\ kernel' = kernel \ {s.lo : s \in Owned(p)}
      BY ZenonT(30) DEF EndFrame, Binding
<1>3. /\ ~Binding(p) => Pending' = Pending
      /\ Pending' = {k \in Pending : k.owner # p}
      BY <1>2, PendingStep, ZenonT(30)
<1>4. None \notin kernel
      BY <1>1, NoneAssumption, ZenonT(30) DEF TypeInv
<1> SUFFICES KernelOK(socks', kernel', Pending')
    BY ZenonT(30) DEF KernelInv, KernelOK
<1>5. CASE kernel' = {k \in kernel : k.owner # p}
  <2>1. \A s : s \in socks' <=> s \in socks /\ s.owner # p
        BY <1>2, ZenonT(30) DEF Owned
  <2>2. \A k : /\ k \in kernel' <=> k \in kernel /\ k.owner # p
               /\ k \in Pending' <=> k \in Pending /\ k.owner # p
        BY <1>3, <1>5, ZenonT(30)
  <2>3. KernelOK(socks, kernel, Pending)
        BY <1>1, ZenonT(30)
  <2> QED BY <1>4, <2>1, <2>2, <2>3 DEF KernelOK
<1>6. CASE ~Binding(p) /\ kernel' = kernel \ {s.lo : s \in Owned(p)}
  <2>1. Owned(p) \in SUBSET socks
        BY ZenonT(30) DEF Owned
  <2> QED BY <1>1, <1>2, <1>3, <1>4, <1>6, <2>1, KernelClosed, ZenonT(30)
<1> QED BY <1>2, <1>5, <1>6

(* The start-up of a process has no sockets. *)
LEMMA KernelStart ==
  ASSUME StateInv, KernelInv, NEW p \in Procs, StartEffect(p) PROVE KernelInv'
<1>1. StartFrame(p)
      BY ZenonT(30) DEF StartEffect
<1>2. /\ UNCHANGED <<pc, op, kernel, socks>> /\ st[p] # "up"
      /\ \A q \in Procs \ {p} : iface'[q] = iface[q]
      BY <1>1, ZenonT(30) DEF StartFrame, callVars, Starting
<1>3. ~Binding(p) /\ ~Binding(p)'
      BY <1>2, NotUp DEF Binding
<1>4. Pending' = Pending
      BY <1>2, <1>3, PendingStep, ZenonT(30)
<1> QED BY <1>2, <1>4 DEF KernelInv, KernelOK

(* Nothing is bound at first, and every step keeps the kernel in order. *)
LEMMA InitKernel == Init => KernelInv
<1> SUFFICES ASSUME Init PROVE KernelInv
    OBVIOUS
<1>1. socks = {} /\ kernel = {} /\ \A q \in Procs : pc[q] = "idle"
      BY DEF Init
<1>2. Pending = {}
      BY <1>1, PendingOf, ZenonT(30) DEF Binding
<1> QED BY <1>1, <1>2 DEF KernelInv, KernelOK

(* Every step. *)
LEMMA NextKernel == StateInv /\ KernelInv /\ Effect => KernelInv'
<1> SUFFICES ASSUME StateInv, KernelInv, Effect PROVE KernelInv'
    OBVIOUS
<1>1. CASE HandleFrame
  <2>1. UNCHANGED <<pc, op, kernel, socks, iface>>
        BY <1>1, ZenonT(30) DEF HandleFrame, backendVars, callVars
  <2>2. Pending' = Pending
        BY <2>1, Zenon DEF Pending, Binding, CurLo, LoAddr, Ip
  <2> QED BY <2>1, <2>2 DEF KernelInv, KernelOK
<1> QED BY <1>1, KernelStart, KernelCall, KernelEnd, ZenonT(30) DEF Effect

------------------------------------------------------------------------------
(* Links and control paths *)

Taken(l) == \E q \in Procs :
  st[q] = "dropped" /\ conf[q].kind \in CreateKinds /\ setup[q].ifname = l

LinkInv ==
  /\ \A l \in DOMAIN links : links[l].by \in Procs =>
       /\ conf[links[l].by].kind \in CreateKinds /\ setup[links[l].by].ifname = l
       /\ l \in LinkNames /\ st[links[l].by] \notin {"new", "device", "dropped"}
  /\ \A p \in ctl : conf[p].kind \in UsnetKinds /\ st[p] \notin {"new", "device", "dropped", "denied"}
  /\ \A l \in DOMAIN HostLinks : Exists(l) \/ Taken(l)
  /\ \A p \in Procs : st[p] \in {"address", "up"} /\ conf[p].kind \notin UsnetKinds
                        => Exists(setup[p].ifname) \/ Taken(setup[p].ifname)
  /\ \A p \in Procs : st[p] = "request" => conf[p].kind \in UsnetKinds

(* The steps of the start-up. *)
LEMMA LinkStart ==
  ASSUME StateInv, LinkInv, NEW p \in Procs, StartEffect(p) PROVE LinkInv'
<1>1. /\ StartFrame(p)
      /\ \A q \in Procs \ {p} : st'[q] = st[q] /\ setup'[q] = setup[q]
      /\ UNCHANGED conf /\ st[p] \in Starting
  <2>1. StartFrame(p)
        BY DEF StartEffect
  <2> QED BY <2>1, ZenonT(30) DEF StartFrame
<1>2. /\ Added(p)
      /\ \A l \in DOMAIN links' : l \notin DOMAIN links =>
           st[p] = "device" /\ conf[p].kind \in CreateKinds
      /\ \/ UNCHANGED links
         \/ st[p] = "device" /\ conf[p].kind \in CreateKinds /\ st'[p] \in {"open", "panicked"}
      /\ st[p] # "new" => UNCHANGED setup
      /\ st[p] = "new" => UNCHANGED links
  <2>1. CASE CreatesLink(p)
        BY <2>1, ZenonT(30) DEF CreatesLink
  <2>2. CASE ~CreatesLink(p)
    <3>1. UNCHANGED links /\ (st[p] # "new" => UNCHANGED setup)
          BY <2>2, ZenonT(30) DEF StartEffect, ChoosesMac, OpensDevice, RequestsDevice, ReceivesDevice,
                    Configures
    <3> QED BY <3>1 DEF Added
  <2> QED BY <2>1, <2>2, ZenonT(30)
<1>3. /\ st'[p] \notin {"new", "dropped", "denied"}
      /\ st[p] = "device" => st'[p] # "device"
      /\ st'[p] = "device" => st[p] = "new"
      /\ st'[p] = "request" => conf[p].kind \in UsnetKinds
      /\ st'[p] \in {"address", "up"} => st[p] \in {"open", "device", "request", "address"}
      /\ st'[p] \in {"address", "up"} /\ st[p] \in {"open", "device"} => Exists(setup[p].ifname)
      /\ \/ UNCHANGED ctl
         \/ st'[p] \in {"request", "panicked"} /\ conf[p].kind \in UsnetKinds /\ ctl' = ctl \cup {p}
      BY ZenonT(30) DEF StartEffect, ChoosesMac, CreatesLink, OpensDevice, RequestsDevice,
             ReceivesDevice, Configures
<1>4. ASSUME NEW l, Taken(l) PROVE Taken(l)'
      BY <1>1, <1>4, ZenonT(30) DEF Taken, Starting
<1>5. ASSUME NEW l, Exists(l) PROVE Exists(l)'
      BY <1>2, <1>5, ZenonT(30) DEF Added, Exists
<1>6. ASSUME NEW l \in DOMAIN links', links'[l].by \in Procs
      PROVE  /\ conf'[links'[l].by].kind \in CreateKinds /\ setup'[links'[l].by].ifname = l
             /\ l \in LinkNames /\ st'[links'[l].by] \notin {"new", "device", "dropped"}
  <2>1. CASE l \in DOMAIN links /\ links'[l].by = links[l].by
    <3>1. /\ conf[links[l].by].kind \in CreateKinds /\ setup[links[l].by].ifname = l
          /\ l \in LinkNames /\ st[links[l].by] \notin {"new", "device", "dropped"}
          BY <1>6, <2>1, ZenonT(30) DEF LinkInv
    <3> QED BY <1>1, <1>2, <1>3, <1>6, <2>1, <3>1, ZenonT(30)
  <2>2. CASE ~(l \in DOMAIN links /\ links'[l].by = links[l].by)
    <3>1. l = setup[p].ifname /\ links'[l].by = p
          BY <1>2, <2>2, ZenonT(30) DEF Added
    <3>2. st[p] = "device" /\ conf[p].kind \in CreateKinds /\ st'[p] \in {"open", "panicked"}
          BY <1>2, <2>2, ZenonT(30)
    <3>3. l \in LinkNames
          BY <3>1, <3>2, NotUp, ZenonT(30) DEF Starting
    <3> QED BY <1>1, <1>2, <3>1, <3>2, <3>3, ZenonT(30)
  <2> QED BY <2>1, <2>2
<1>7. ASSUME NEW q \in ctl'
      PROVE  conf'[q].kind \in UsnetKinds /\ st'[q] \notin {"new", "device", "dropped", "denied"}
  <2>1. q \in Procs
        BY <1>3, ZenonT(30) DEF StateInv, TypeInv
  <2>2. CASE q \in ctl
    <3>1. conf[q].kind \in UsnetKinds /\ st[q] \notin {"new", "device", "dropped", "denied"}
          BY <2>2, ZenonT(30) DEF LinkInv
    <3> QED BY <1>1, <1>3, <2>1, <3>1, ZenonT(30)
  <2>3. CASE q \notin ctl
    <3>1. \/ UNCHANGED ctl
          \/ /\ st'[p] \in {"request", "panicked"} /\ conf[p].kind \in UsnetKinds
             /\ ctl' = ctl \cup {p}
          BY <1>3, ZenonT(30)
    <3>2. q = p /\ st'[p] \in {"request", "panicked"} /\ conf[p].kind \in UsnetKinds
          BY <1>7, <2>3, <3>1, ZenonT(30)
    <3> QED BY <1>1, <3>2
  <2> QED BY <2>2, <2>3, ZenonT(30)
<1>8. ASSUME NEW q \in Procs, st'[q] \in {"address", "up"}, conf'[q].kind \notin UsnetKinds
      PROVE  Exists(setup[q].ifname)' \/ Taken(setup[q].ifname)'
  <2>1. Exists(setup[q].ifname) \/ Taken(setup[q].ifname)
        BY <1>1, <1>3, <1>8, ZenonT(30) DEF LinkInv
  <2>2. setup'[q].ifname = setup[q].ifname
        BY <1>1, <1>2, <1>3, <1>8, ZenonT(30)
  <2> QED BY <1>4, <1>5, <2>1, <2>2, ZenonT(30) DEF Exists, Taken
<1>9. \A l \in DOMAIN HostLinks : Exists(l)' \/ Taken(l)'
      BY <1>4, <1>5, ZenonT(30) DEF LinkInv
<1>10. \A q \in Procs : st'[q] = "request" => conf'[q].kind \in UsnetKinds
       BY <1>1, <1>3, ZenonT(30) DEF LinkInv
<1> QED BY <1>6, <1>7, <1>8, <1>9, <1>10, ZenonT(30) DEF LinkInv

(* The end of a process: the link that was added for it goes, if any. *)
LEMMA LinkEnd ==
  ASSUME StateInv, LinkInv, NEW p \in Procs, EndFrame(p) PROVE LinkInv'
<1>1. /\ st[p] = "up" /\ UNCHANGED <<conf, setup>> /\ st'[p] \in {"exited", "dropped", "denied"}
      /\ \A q \in Procs \ {p} : st'[q] = st[q] /\ (q \in ctl' <=> q \in ctl)
      /\ ctl' \subseteq ctl /\ ctl \subseteq Procs
      BY ZenonT(30) DEF EndFrame, StateInv, TypeInv
<1>2. /\ iface[p] # None /\ iface[p].kind = conf[p].kind
      /\ iface[p].destroy = Destroy(conf[p], setup[p])
      BY <1>1, Zenon DEF StateInv, PlaceOK
<1>3. \/ UNCHANGED links /\ st'[p] # "dropped"
      \/ UNCHANGED links /\ st'[p] = "dropped" /\ iface[p].destroy = None
      \/ links' = Without(iface[p].destroy) /\ st'[p] = "dropped" /\ iface[p].destroy # None
  <2>1. CASE st'[p] = "exited"
        BY <2>1, <1>1, ZenonT(30) DEF EndFrame
  <2>2. CASE DeleteLink(p)
    <3>1. ASSUME NEW s, Goto(p, s) PROVE st'[p] = s
          BY <3>1, ZenonT(30) DEF Goto, StateInv, TypeInv
    <3> QED BY <2>2, <3>1, ZenonT(30) DEF DeleteLink
  <2> QED BY <2>1, <2>2, ZenonT(30) DEF EndFrame
<1>4. ASSUME NEW l, Taken(l) PROVE Taken(l)'
      BY <1>1, <1>4, ZenonT(30) DEF Taken
<1>5. ASSUME NEW l, Exists(l) PROVE Exists(l)' \/ Taken(l)'
  <2>1. CASE UNCHANGED links
        BY <1>5, <2>1, ZenonT(30) DEF Exists
  <2>2. CASE links' = Without(iface[p].destroy) /\ st'[p] = "dropped" /\ iface[p].destroy # None
    <3>1. conf[p].kind \in CreateKinds /\ iface[p].destroy = setup[p].ifname
          BY <1>2, <2>2, ZenonT(30) DEF Destroy
    <3> QED BY <1>1, <1>5, <2>2, <3>1, ZenonT(30) DEF Exists, Taken, Without
  <2> QED BY <1>3, <2>1, <2>2
<1>6. ASSUME NEW l \in DOMAIN links', links'[l].by \in Procs
      PROVE  /\ conf'[links'[l].by].kind \in CreateKinds /\ setup'[links'[l].by].ifname = l
             /\ l \in LinkNames /\ st'[links'[l].by] \notin {"new", "device", "dropped"}
  <2>1. l \in DOMAIN links /\ links'[l] = links[l]
        BY <1>3, ZenonT(30) DEF Without
  <2>2. /\ conf[links[l].by].kind \in CreateKinds /\ setup[links[l].by].ifname = l
        /\ l \in LinkNames /\ st[links[l].by] \notin {"new", "device", "dropped"}
        BY <1>6, <2>1, ZenonT(30) DEF LinkInv
  <2>3. CASE links[l].by # p
        BY <1>1, <1>6, <2>1, <2>2, <2>3, ZenonT(30)
  <2>4. CASE links[l].by = p
    <3>1. iface[p].destroy = l /\ l # None
          BY <1>2, <2>2, <2>4, NoneAssumption, ZenonT(30) DEF Destroy
    <3>2. st'[p] # "dropped"
          BY <1>3, <3>1 DEF Without
    <3> QED BY <1>1, <2>1, <2>2, <2>4, <3>2, ZenonT(30)
  <2> QED BY <2>3, <2>4, ZenonT(30)
<1>7. ASSUME NEW q \in ctl'
      PROVE  conf'[q].kind \in UsnetKinds /\ st'[q] \notin {"new", "device", "dropped", "denied"}
  <2>1. q \in ctl /\ conf[q].kind \in UsnetKinds /\ st[q] \notin {"new", "device", "dropped", "denied"}
        BY <1>1 DEF LinkInv
  <2>2. CASE q = p
    <3>1. control(p)
          BY <1>2, <2>1, <2>2, ZenonT(30) DEF control
    <3>2. st'[p] = "exited"
          BY <1>7, <2>2, <3>1, ZenonT(30) DEF EndFrame
    <3> QED BY <1>1, <2>1, <2>2, <3>2, ZenonT(30)
  <2>3. CASE q # p
        BY <1>1, <2>1, <2>3, ZenonT(30)
  <2> QED BY <2>2, <2>3, ZenonT(30)
<1>8. ASSUME NEW q \in Procs, st'[q] \in {"address", "up"}, conf'[q].kind \notin UsnetKinds
      PROVE  Exists(setup[q].ifname)' \/ Taken(setup[q].ifname)'
  <2>1. Exists(setup[q].ifname) \/ Taken(setup[q].ifname)
        BY <1>1, <1>8 DEF LinkInv
  <2> QED BY <1>1, <1>4, <1>5, <2>1, ZenonT(30) DEF Exists, Taken
<1>9. \A l \in DOMAIN HostLinks : Exists(l)' \/ Taken(l)'
      BY <1>4, <1>5, ZenonT(30) DEF LinkInv
<1>10. \A q \in Procs : st'[q] = "request" => conf'[q].kind \in UsnetKinds
       BY <1>1, ZenonT(30) DEF LinkInv
<1> QED BY <1>6, <1>7, <1>8, <1>9, <1>10, ZenonT(30) DEF LinkInv

(* At first there are the links of the host. *)
LEMMA InitLink == Init => LinkInv
BY HostAssumption, ZenonT(30) DEF Init, BackendInit, LinkInv, Exists

(* Every step. *)
LEMMA NextLink == StateInv /\ LinkInv /\ Effect => LinkInv'
<1> SUFFICES ASSUME StateInv, LinkInv, Effect PROVE LinkInv'
    OBVIOUS
<1>1. ASSUME UNCHANGED backendVars PROVE LinkInv'
      BY <1>1, Zenon DEF backendVars, LinkInv, Exists, Taken
<1>2. HandleFrame => UNCHANGED backendVars
      BY ZenonT(30) DEF HandleFrame
<1>3. \A p \in Procs : CallEffect(p) => UNCHANGED backendVars
      BY ZenonT(30) DEF CallEffect, CallFrame
<1> QED BY <1>1, <1>2, <1>3, LinkStart, LinkEnd, ZenonT(30) DEF Effect

------------------------------------------------------------------------------
(* The inductive invariant *)

IndInv == StateInv /\ OutInv /\ GrantInv /\ KernelInv /\ LinkInv

(* It holds when the host boots. *)
LEMMA IndInit == CountLaws /\ Init /\ StateInv => IndInv
BY InitOut, InitGrant, InitKernel, InitLink DEF IndInv

(* Every step of a process, of a call or of usnetd preserves it. *)
LEMMA IndNext == CountLaws /\ IndInv /\ ((StateInv' /\ Effect) \/ UNCHANGED vars) => IndInv'
<1> SUFFICES ASSUME CountLaws, IndInv, (StateInv' /\ Effect) \/ UNCHANGED vars PROVE IndInv'
    OBVIOUS
<1>1. CASE StateInv' /\ Effect
      BY <1>1, NextOut, NextGrant, NextKernel, NextLink, ZenonT(30) DEF IndInv
<1>2. CASE UNCHANGED vars
  <2>1. /\ UNCHANGED <<requests, answers, registered, table>>
        /\ UNCHANGED <<conf, st, links, setup, iface, ctl>>
        /\ UNCHANGED <<pc, op, kernel, socks, calls, interrupts>>
        BY <1>2 DEF vars, usnetdVars, backendVars, callVars
  <2>2. StateInv'
    <3>1. TypeInv'
          BY <2>1, Zenon DEF IndInv, StateInv, TypeInv, LinkOK
    <3>2. ASSUME NEW p \in Procs PROVE PlaceOK(p)'
      <4>1. PlaceOK(p)
            BY DEF IndInv, StateInv
      <4>2. ActiveOK(p, pc[p], op[p])'
            BY <2>1, <4>1, Zenon DEF PlaceOK, ActiveOK, CallOK, control, LoAddr, Ip
      <4>3. Owned(p)' = Owned(p)
            BY <2>1, Zenon DEF Owned
      <4>4. Destroy(conf[p], setup[p])' = Destroy(conf[p], setup[p])
            BY <2>1, Zenon DEF Destroy
      <4> QED BY <2>1, <4>1, <4>2, <4>3, <4>4, Zenon DEF PlaceOK
    <3> QED BY <3>1, <3>2, ZenonT(30) DEF StateInv
  <2>3. OutInv'
        BY <2>1, Zenon DEF IndInv, OutInv, LastOK, OutOK, Outstanding, Sent, control
  <2>4. GrantInv'
    <3>1. GrantInv
          BY DEF IndInv
    <3>2. ASSUME NEW p \in Procs PROVE WaitOK(p)'
      <4>1. WaitOK(p)
            BY <3>1 DEF GrantInv
      <4> QED BY <2>1, <4>1, ZenonT(30) DEF WaitOK, Sent, control, CurWant, Want, Ip
    <3>3. SocksGranted'
          BY <2>1, <3>1, ZenonT(30) DEF GrantInv, SocksGranted, Matched, control
    <3>4. GrantsUnique'
          BY <2>1, <3>1, ZenonT(30) DEF GrantInv, GrantsUnique
    <3> QED BY <3>2, <3>3, <3>4, ZenonT(30) DEF GrantInv
  <2>5. KernelInv'
    <3>1. Pending' = Pending
          BY <2>1, Zenon DEF Pending, Binding, CurLo, LoAddr, Ip
    <3> QED BY <2>1, <3>1 DEF IndInv, KernelInv, KernelOK
  <2>6. LinkInv'
        BY <2>1, Zenon DEF IndInv, LinkInv, Exists, Taken
  <2> QED BY <2>2, <2>3, <2>4, <2>5, <2>6, ZenonT(30) DEF IndInv
<1> QED BY <1>1, <1>2

------------------------------------------------------------------------------
(* What the invariant shows *)

(* Every datagram is accounted for. *)
LEMMA ShowsAnswers == IndInv => AnswersMatch
BY DEF IndInv, OutInv, OutOK, Outstanding, Sent, AnswersMatch

(* The variables keep their types, and a kernel socket has an owner. *)
LEMMA ShowsKernel == IndInv => KernelPortsOwned
<1> SUFFICES ASSUME IndInv PROVE KernelPortsOwned
    BY ZenonT(30)
<1>1. TypeInv /\ KernelOK(socks, kernel, Pending) /\ \A p \in Procs : st[p] = "up" <=> iface[p] # None
      BY DEF IndInv, StateInv, KernelInv, PlaceOK
<1>2. TypeOK
  <2>1. \A i \in DOMAIN requests :
          requests[i].from \in Procs /\ requests[i].want \in Matches \cup {None}
    <3>1. \A i \in DOMAIN requests : requests[i] \in Requests
          BY <1>1 DEF TypeInv
    <3> QED BY <3>1, ZenonT(30) DEF Requests
  <2>2. \A e \in table : e.client \in Procs /\ e.want \in Matches
        BY <1>1, ZenonT(30) DEF TypeInv, Grants
  <2>3. \A k \in kernel : k.port \in AnyPort \ {0} /\ k.ip \in Ips
        BY <1>1 DEF TypeInv, LoSockets
  <2>4. \A s \in socks : s.want \in Matches \cup {None} /\ s.lo \in kernel \cup {None}
        BY <1>1, ZenonT(30) DEF TypeInv, Socks, KernelOK
  <2> QED BY <1>1, <2>1, <2>2, <2>3, <2>4, ZenonT(30) DEF TypeOK, TypeInv, Stages, Starting, Places
<1>3. ASSUME NEW k \in kernel
      PROVE  \/ \E s \in socks : s.lo = k /\ s.owner = k.owner
             \/ pc[k.owner] = "answer" /\ op[k.owner].call = "bind" /\ op[k.owner].port = k.port
  <2>1. k # None
        BY <1>1, NoneAssumption, ZenonT(30) DEF TypeInv
  <2>2. CASE \E s \in socks : s.lo = k
        BY <1>1, <2>1, <2>2, ZenonT(30) DEF KernelOK
  <2>3. CASE k \in Pending
    <3>1. Binding(k.owner) /\ k = CurLo(k.owner, op[k.owner])
          BY <2>3, PendingOf, ZenonT(30)
    <3>2. CurLo(k.owner, op[k.owner]).port = op[k.owner].port
          BY ZenonT(30) DEF CurLo, KernelSocket
    <3> QED BY <3>1, <3>2, ZenonT(30) DEF Binding
  <2> QED BY <1>1, <2>2, <2>3, ZenonT(30) DEF KernelOK
<1> QED BY <1>2, <1>3 DEF KernelPortsOwned

(* A dropped interface has left nothing behind. *)
LEMMA ShowsNothingLeft == IndInv => NothingLeftBehind
BY DEF IndInv, LinkInv, NothingLeftBehind

(* The links of others are there. *)
LEMMA ShowsLinks == IndInv => LinksStay
<1> SUFFICES ASSUME IndInv PROVE LinksStay
    OBVIOUS
<1>1. \A p \in Procs : st[p] = "up" /\ ~control(p) => conf[p].kind \notin UsnetKinds
      BY ZenonT(30) DEF IndInv, StateInv, PlaceOK, control
<1> QED BY <1>1, ZenonT(30) DEF IndInv, LinkInv, LinksStay, Taken

------------------------------------------------------------------------------
(* The refinement: what PortOwnership calls granted, open and sound *)

GrantedPairs == {<<e.client, e.want>> : e \in table}
OpenPairs == {<<s.owner, s.want>> : s \in {t \in socks : Matched(t)}}
SoundProcs == {p \in Procs : interrupts[p] = 0}

(* A step of PortOwnership is one of these changes to them. *)
LEMMA OwnershipSteps ==
  ASSUME NEW c \in Procs,
         \/ /\ UNCHANGED <<OpenPairs, SoundProcs>>
            /\ \E m \in Matches : /\ \A x \in GrantedPairs : x[2] = m => x[1] = c
                                  /\ GrantedPairs' = GrantedPairs \cup {<<c, m>>}
         \/ /\ UNCHANGED <<GrantedPairs, SoundProcs>>
            /\ \E m \in Matches : /\ c \in SoundProcs => <<c, m>> \in GrantedPairs
                                  /\ OpenPairs' = OpenPairs \cup {<<c, m>>}
         \/ /\ UNCHANGED <<GrantedPairs, SoundProcs>>
            /\ OpenPairs' \subseteq OpenPairs /\ \A x \in OpenPairs \ OpenPairs' : x[1] = c
         \/ /\ UNCHANGED <<GrantedPairs, OpenPairs>> /\ SoundProcs' = SoundProcs \ {c}
         \/ /\ UNCHANGED <<OpenPairs, SoundProcs>>
            /\ \A x \in OpenPairs : x[1] # c
            /\ GrantedPairs' = {x \in GrantedPairs : x[1] # c}
  PROVE  Ownership!Next
BY ZenonT(30) DEF Ownership!Next, Ownership!Grant, Ownership!Open, Ownership!Close, Ownership!Miss,
       Ownership!Forget, GrantedPairs, OpenPairs, SoundProcs

(* A step that changes none of them is a stuttering step. *)
LEMMA OwnershipStutters ==
  UNCHANGED <<GrantedPairs, OpenPairs, SoundProcs>> => UNCHANGED Ownership!vars
BY ZenonT(30) DEF Ownership!vars, GrantedPairs, OpenPairs, SoundProcs

(* The pairs depend on these variables. *)
LEMMA PairsSame ==
  /\ UNCHANGED table => UNCHANGED GrantedPairs
  /\ UNCHANGED interrupts => UNCHANGED SoundProcs
  /\ UNCHANGED <<socks, conf, iface>> => UNCHANGED OpenPairs
<1>1. UNCHANGED <<socks, conf, iface>> => UNCHANGED OpenPairs
      BY Zenon DEF OpenPairs, Matched, control
<1> QED BY <1>1 DEF GrantedPairs, SoundProcs

(* usnetd grants a match, forgets a client, or does nothing to either. *)
LEMMA OwnershipHandle ==
  ASSUME IndInv, HandleFrame PROVE [Ownership!Next]_Ownership!vars
<1> DEFINE m == Head(requests)
           g == [client |-> m.from, want |-> m.want]
<1>1. TypeInv /\ \A e \in table : e \in Grants
      BY DEF IndInv, StateInv, TypeInv
<1>2. /\ UNCHANGED <<conf, iface, socks, interrupts>> /\ m.from \in Procs
      /\ 1 \in DOMAIN requests /\ m = requests[1]
  <2>1. UNCHANGED <<conf, iface, socks, interrupts>> /\ requests # <<>>
        BY ZenonT(30) DEF HandleFrame, backendVars, callVars
  <2>2. 1 \in DOMAIN requests /\ m = requests[1] /\ m \in Requests
        BY <1>1, <2>1, FirstOf, ZenonT(30) DEF TypeInv
  <2>3. m.from \in Procs
        BY <2>2, ZenonT(30) DEF Requests
  <2> QED BY <2>1, <2>2, <2>3, ZenonT(30)
<1>3. UNCHANGED <<OpenPairs, SoundProcs>>
      BY <1>2, PairsSame
<1>4. CASE UNCHANGED table
      BY <1>3, <1>4, PairsSame, OwnershipStutters, ZenonT(30)
<1>5. CASE /\ m.type = "AddMatch" /\ m.want \in Matches /\ Holders(m.want) \ {m.from} = {}
           /\ table' = table \cup {g}
  <2>1. GrantedPairs' = GrantedPairs \cup {<<m.from, m.want>>}
    <3>1. <<g.client, g.want>> = <<m.from, m.want>>
          BY ZenonT(30)
    <3> HIDE DEF g, m
    <3> QED BY <1>5, <3>1, ZenonT(30) DEF GrantedPairs
  <2>2. ASSUME NEW x \in GrantedPairs, x[2] = m.want PROVE x[1] = m.from
    <3>1. PICK e \in table : x = <<e.client, e.want>>
          BY DEF GrantedPairs
    <3>2. e = [client |-> e.client, want |-> e.want] /\ e.client \in Procs
          BY <1>1 DEF Grants
    <3>3. x[1] = e.client /\ e.want = m.want
          BY <2>2, <3>1
    <3>4. e.client \in Holders(m.want)
          BY <3>2, <3>3, ZenonT(30) DEF Holders
    <3> QED BY <1>5, <3>3, <3>4, ZenonT(30)
  <2> HIDE DEF m
  <2> QED BY <1>2, <1>3, <1>5, <2>1, <2>2, OwnershipSteps, ZenonT(30)
<1>6. CASE m.type = "DeleteClient" /\ table' = {e \in table : e.client # m.from}
  <2>1. st[m.from] # "up"
        BY <1>2, <1>6, ZenonT(30) DEF IndInv, OutInv, LastOK
  <2>2. ~control(m.from)
        BY <1>2, <2>1, NotUp, ZenonT(30) DEF IndInv
  <2> HIDE DEF m
  <2>3. \A x \in OpenPairs : x[1] # m.from
        BY <2>2 DEF OpenPairs, Matched
  <2>4. GrantedPairs' = {x \in GrantedPairs : x[1] # m.from}
    <3>1. \A e : <<e.client, e.want>>[1] = e.client
          OBVIOUS
    <3> QED BY <1>6, <3>1, ZenonT(30) DEF GrantedPairs
  <2> QED BY <1>2, <1>3, <2>3, <2>4, OwnershipSteps, ZenonT(30)
<1>7. \/ UNCHANGED table
      \/ /\ m.type = "AddMatch" /\ m.want \in Matches /\ Holders(m.want) \ {m.from} = {}
         /\ table' = table \cup {g}
      \/ m.type = "DeleteClient" /\ table' = {e \in table : e.client # m.from}
      BY ZenonT(30) DEF HandleFrame
<1> QED BY <1>4, <1>5, <1>6, <1>7, ZenonT(30)

(* A process that starts has no sockets: nothing changes. *)
LEMMA OwnershipStart ==
  ASSUME IndInv, NEW p \in Procs, StartEffect(p) PROVE [Ownership!Next]_Ownership!vars
<1>1. StartFrame(p) /\ StateInv
      BY ZenonT(30) DEF IndInv, StartEffect
<1>2. /\ UNCHANGED <<table, conf, socks, interrupts>> /\ st[p] # "up"
      /\ \A q \in Procs \ {p} : iface'[q] = iface[q]
      BY <1>1 DEF StartFrame, callVars, Starting
<1>3. Owned(p) = {}
      BY <1>1, <1>2, NotUp, ZenonT(30)
<1>4. \A s \in socks : s.owner \in Procs \ {p}
      BY <1>1, <1>3, ZenonT(30) DEF StateInv, TypeInv, Socks, Owned
<1>5. \A s \in socks : Matched(s)' <=> Matched(s)
      BY <1>2, <1>4, MatchedSame, ZenonT(30)
<1>6. OpenPairs' = OpenPairs
      BY <1>2, <1>5, ZenonT(30) DEF OpenPairs
<1> QED BY <1>2, <1>6, PairsSame, OwnershipStutters, ZenonT(30)

(* The end of a process closes its sockets. *)
LEMMA OwnershipEnd ==
  ASSUME IndInv, NEW p \in Procs, EndFrame(p) PROVE [Ownership!Next]_Ownership!vars
<1>1. /\ UNCHANGED <<table, conf, interrupts>> /\ socks' = socks \ Owned(p)
      /\ \A q \in Procs \ {p} : iface'[q] = iface[q]
      BY ZenonT(30) DEF EndFrame
<1>2. \A s \in socks : s.owner \in Procs
      BY DEF IndInv, StateInv, TypeInv, Socks
<1>3. \A s \in socks : s \in socks' <=> s.owner # p
      BY <1>1 DEF Owned
<1>4. \A s \in socks' : s \in socks /\ (Matched(s)' <=> Matched(s))
      BY <1>1, <1>2, <1>3, MatchedSame, ZenonT(30)
<1>5. OpenPairs' \subseteq OpenPairs
      BY <1>4 DEF OpenPairs
<1>6. ASSUME NEW x \in OpenPairs \ OpenPairs' PROVE x[1] = p
  <2>1. PICK s \in socks : Matched(s) /\ x = <<s.owner, s.want>>
        BY DEF OpenPairs
  <2>2. s \notin socks'
        BY <1>4, <2>1, ZenonT(30) DEF OpenPairs
  <2> QED BY <1>3, <2>1, <2>2, ZenonT(30)
<1> QED BY <1>1, <1>5, <1>6, PairsSame, OwnershipSteps, ZenonT(30)

(* A call opens a socket for what it was granted, misses an answer, closes *)
(* a socket, or does nothing to them.                                      *)
LEMMA OwnershipCall ==
  ASSUME IndInv, IndInv', NEW p \in Procs, CallEffect(p)
  PROVE  [Ownership!Next]_Ownership!vars
<1>1. /\ UNCHANGED <<table, conf, iface>> /\ interrupts \in [Procs -> Nat]
      /\ socks \subseteq Socks /\ socks' \subseteq Socks
      BY ZenonT(30) DEF CallEffect, CallFrame, backendVars, IndInv, StateInv, TypeInv
<1>2. \A s : Matched(s)' <=> Matched(s)
      BY <1>1, MatchedSame, ZenonT(30)
<1>3. UNCHANGED GrantedPairs /\ (UNCHANGED interrupts => UNCHANGED SoundProcs)
      /\ (UNCHANGED socks => UNCHANGED OpenPairs)
      BY <1>1, PairsSame, ZenonT(30)
<1>4. CASE UNCHANGED <<socks, interrupts>>
      BY <1>3, <1>4, OwnershipStutters, ZenonT(30)
<1>5. ASSUME NEW s, ~Matched(s), socks' = socks \cup {s}, UNCHANGED interrupts
      PROVE  [Ownership!Next]_Ownership!vars
  <2>1. OpenPairs' = OpenPairs
        BY <1>2, <1>5, ZenonT(30) DEF OpenPairs
  <2> QED BY <1>3, <1>5, <2>1, OwnershipStutters, ZenonT(30)
<1>6. ASSUME Succeeds(p), UNCHANGED interrupts PROVE [Ownership!Next]_Ownership!vars
  <2> DEFINE w == CurWant(p, op[p])
  <2>1. \E s : s = Sock(p, w, IF op[p].call = "bind" THEN CurLo(p, op[p]) ELSE None)
        BY ZenonT(30)
  <2>2. PICK s : socks' = socks \cup {s} /\ s.owner = p /\ s.want = w
        BY <1>6, <2>1 DEF Succeeds, Sock
  <2> HIDE DEF w
  <2>3. CASE Matched(s)
    <3>1. w \in Matches
          BY <1>1, <2>2, <2>3, ZenonT(30) DEF Socks, Matched
    <3>2. OpenPairs' = OpenPairs \cup {<<p, w>>}
          BY <1>2, <2>2, <2>3, ZenonT(30) DEF OpenPairs
    <3>3. ASSUME p \in SoundProcs PROVE <<p, w>> \in GrantedPairs
      <4>1. s \in socks' /\ Matched(s)' /\ interrupts'[s.owner] = 0
            BY <1>2, <1>6, <2>2, <2>3, <3>3, ZenonT(30) DEF SoundProcs
      <4>2. [client |-> s.owner, want |-> s.want] \in table'
            BY <4>1, ZenonT(30) DEF IndInv, GrantInv, SocksGranted
      <4>3. [client |-> p, want |-> w] \in table
            BY <1>1, <2>2, <4>2, ZenonT(30)
      <4> DEFINE g == [client |-> p, want |-> w]
      <4>4. g.client = p /\ g.want = w /\ g \in table
            BY <4>3
      <4> HIDE DEF g
      <4> QED BY <4>4, ZenonT(30) DEF GrantedPairs
    <3> QED BY <1>3, <1>6, <3>1, <3>2, <3>3, OwnershipSteps, ZenonT(30)
  <2>4. CASE ~Matched(s)
        BY <1>5, <1>6, <2>2, <2>4, ZenonT(30)
  <2> QED BY <2>3, <2>4, ZenonT(30)
<1>7. CASE Quiet(p) \/ Asks(p) \/ Queries(p)
      BY <1>4, <1>7, ZenonT(30) DEF Quiet, Asks, Queries
<1>8. CASE Opens(p)
      BY <1>5, <1>8, ZenonT(30) DEF Opens
<1>9. CASE HearsPorts(p)
      BY <1>4, <1>5, <1>9, ZenonT(30) DEF HearsPorts
<1>10. CASE Hears(p)
       BY <1>4, <1>6, <1>10, ZenonT(30) DEF Hears, GivesUp
<1>11. CASE Misses(p)
  <2>1. UNCHANGED socks /\ interrupts' = [interrupts EXCEPT ![p] = @ + 1]
        BY <1>11 DEF Misses, GivesUp
  <2>2. SoundProcs' = SoundProcs \ {p}
        BY <1>1, <2>1 DEF SoundProcs
  <2> QED BY <1>3, <2>1, <2>2, OwnershipSteps, ZenonT(30)
<1>12. CASE Drops(p)
  <2>1. PICK s \in Owned(p) : CloseSocks(p, {s})
        BY <1>12, ZenonT(30) DEF Drops
  <2>2. s.owner = p /\ socks' = socks \ {s} /\ UNCHANGED interrupts
        BY <1>12, <2>1, ZenonT(30) DEF CloseSocks, Owned, Drops
  <2>3. OpenPairs' \subseteq OpenPairs
        BY <1>2, <2>2, ZenonT(30) DEF OpenPairs
  <2>4. ASSUME NEW x \in OpenPairs \ OpenPairs' PROVE x[1] = p
    <3>1. PICK t \in socks : Matched(t) /\ x = <<t.owner, t.want>>
          BY ZenonT(30) DEF OpenPairs
    <3>2. t = s
          BY <1>2, <2>2, <3>1, ZenonT(30) DEF OpenPairs
    <3> QED BY <2>2, <3>1, <3>2, ZenonT(30)
  <2> QED BY <1>3, <2>2, <2>3, <2>4, OwnershipSteps, ZenonT(30)
<1> QED BY <1>7, <1>8, <1>9, <1>10, <1>11, <1>12, ZenonT(30) DEF CallEffect

(* At first nothing is granted or open. *)
LEMMA RefinesInit == Init => Ownership!Init
<1> SUFFICES ASSUME Init PROVE Ownership!Init
    OBVIOUS
<1>1. table = {} /\ socks = {} /\ interrupts = [p \in Procs |-> 0]
      BY ZenonT(30) DEF Init, BackendInit, UsnetdInit
<1>2. GrantedPairs = {} /\ OpenPairs = {}
      BY <1>1, ZenonT(30) DEF GrantedPairs, OpenPairs
<1>3. SoundProcs = Procs
      BY <1>1, ZenonT(30) DEF SoundProcs
<1> QED BY <1>2, <1>3, ZenonT(30) DEF Ownership!Init, GrantedPairs, OpenPairs, SoundProcs

(* Every step is a step of PortOwnership or a stuttering step. *)
LEMMA RefinesNext ==
  IndInv /\ IndInv' /\ (Effect \/ UNCHANGED vars) => [Ownership!Next]_Ownership!vars
<1> SUFFICES ASSUME IndInv, IndInv', Effect \/ UNCHANGED vars PROVE [Ownership!Next]_Ownership!vars
    OBVIOUS
<1>1. CASE Effect
      BY <1>1, OwnershipHandle, OwnershipStart, OwnershipCall, OwnershipEnd, ZenonT(30) DEF Effect
<1>2. CASE UNCHANGED vars
  <2>1. UNCHANGED <<table, conf, iface, socks, interrupts>>
        BY <1>2 DEF vars, usnetdVars, backendVars, callVars
  <2> QED BY <2>1, PairsSame, OwnershipStutters, ZenonT(30)
<1> QED BY <1>1, <1>2, ZenonT(30)

(* The owner of a port is the only one. *)
LEMMA ShowsExclusive == IndInv => Ownership!Exclusive
<1> SUFFICES ASSUME IndInv, NEW c \in SoundProcs, NEW d \in SoundProcs, NEW m \in Matches,
                    <<c, m>> \in OpenPairs, <<d, m>> \in OpenPairs
             PROVE  c = d
    BY DEF Ownership!Exclusive, SoundProcs, OpenPairs
<1>1. ASSUME NEW e \in SoundProcs, <<e, m>> \in OpenPairs
      PROVE  [client |-> e, want |-> m] \in table
  <2>1. PICK s \in socks : Matched(s) /\ <<e, m>> = <<s.owner, s.want>>
        BY <1>1 DEF OpenPairs
  <2>2. s.owner = e /\ s.want = m
        BY <2>1, ZenonT(30)
  <2> QED BY <2>1, <2>2, ZenonT(30) DEF IndInv, GrantInv, SocksGranted, SoundProcs
<1>2. [client |-> c, want |-> m] = [client |-> d, want |-> m]
      BY <1>1 DEF IndInv, GrantInv, GrantsUnique
<1> QED BY <1>2, ZenonT(30)


------------------------------------------------------------------------------
(* Counting the datagrams of a process *)

INSTANCE FiniteSetTheorems
INSTANCE FunctionTheorems

(* A queue holds finitely many requests of a process. *)
LEMMA SentFinite ==
  ASSUME NEW S, NEW reqs \in Seq(S), NEW p
  PROVE  IsFiniteSet(Sent(reqs, p)) /\ Cardinality(Sent(reqs, p)) \in Nat
<1>1. IsFiniteSet(1..Len(reqs))
      BY SentWithin, FS_Interval, ZenonT(30)
<1>2. Sent(reqs, p) \subseteq 1..Len(reqs)
      BY SentWithin, ZenonT(30)
<1>3. IsFiniteSet(Sent(reqs, p))
      BY <1>1, <1>2, FS_Subset, ZenonT(30)
<1> QED BY <1>3, FS_CardinalityType, ZenonT(30)

(* A request that is sent counts for its sender. *)
LEMMA CountAppend ==
  ASSUME NEW S, NEW reqs \in Seq(S), NEW r \in S, NEW p, r.from = p
  PROVE  Cardinality(Sent(Append(reqs, r), p)) = Cardinality(Sent(reqs, p)) + 1
<1>1. Sent(Append(reqs, r), p) = Sent(reqs, p) \cup {Len(reqs) + 1}
      BY SentOwn, ZenonT(30)
<1>2. Len(reqs) + 1 \notin Sent(reqs, p)
      BY SentWithin, ZenonT(30)
<1> QED BY <1>1, <1>2, SentFinite, FS_AddElement, Zenon

(* A request that usnetd takes does not count any more. *)
LEMMA CountTail ==
  ASSUME NEW S, NEW reqs \in Seq(S), reqs # <<>>, NEW p
  PROVE  Cardinality(Sent(reqs, p))
           = Cardinality(Sent(Tail(reqs), p)) + IF Head(reqs).from = p THEN 1 ELSE 0
<1> DEFINE T == Sent(Tail(reqs), p)
           U == Sent(reqs, p) \ {1}
           F == [i \in T |-> i + 1]
<1>1. Tail(reqs) \in Seq(S)
      BY SentShifts, ZenonT(30)
<1>2. \A i \in T : i + 1 \in U
      BY SentShifts, ZenonT(30)
<1>3. \A i, j \in T : i + 1 = j + 1 => i = j
      BY SentShifts, ZenonT(30)
<1>4. \A j \in U : j - 1 \in T /\ (j - 1) + 1 = j
      BY SentShifts, ZenonT(30)
<1>5. 1 \in Sent(reqs, p) <=> Head(reqs).from = p
      BY SentShifts, ZenonT(30)
<1>6. IsFiniteSet(T) /\ IsFiniteSet(Sent(reqs, p))
      BY <1>1, SentFinite, ZenonT(30)
<1> HIDE DEF T, U
<1>7. F \in Bijection(T, U)
  <2>1. F \in [T -> U]
        BY <1>2, ZenonT(30)
  <2>2. \A i, j \in T : F[i] = F[j] => i = j
        BY <1>3, ZenonT(30)
  <2>3. \A j \in U : F[j - 1] = j
        BY <1>4, ZenonT(30)
  <2>4. \A j \in U : \E i \in T : F[i] = j
        BY <2>3, <1>4, ZenonT(30)
  <2> QED BY <2>1, <2>2, <2>4, Fun_IsBij, ZenonT(30)
<1>8. Cardinality(T) = Cardinality(U)
      BY <1>6, <1>7, FS_Bijection, ZenonT(30) DEF ExistsBijection
<1>9. Cardinality(Sent(reqs, p)) = Cardinality(U) + IF 1 \in Sent(reqs, p) THEN 1 ELSE 0
  <2>1. Cardinality(U) = IF 1 \in Sent(reqs, p) THEN Cardinality(Sent(reqs, p)) - 1
                                                ELSE Cardinality(Sent(reqs, p))
        BY <1>6, FS_RemoveElement, ZenonT(30) DEF U
  <2>2. Cardinality(Sent(reqs, p)) \in Nat
        BY <1>6, FS_CardinalityType, ZenonT(30)
  <2> QED BY <2>1, <2>2, OneMore, ZenonT(30)
<1> QED BY <1>5, <1>8, <1>9, ZenonT(30) DEF T

(* If nothing counts there is nothing. *)
LEMMA SentNone ==
  ASSUME NEW S, NEW reqs \in Seq(S), NEW p, Cardinality(Sent(reqs, p)) = 0
  PROVE  Sent(reqs, p) = {}
BY SentFinite, FS_EmptySet, ZenonT(30)

(* The laws that the invariant rests on. *)
LEMMA Counting == CountLaws
<1>1. \A reqs \in Seq(Requests), p \in Procs :
        /\ Cardinality(Sent(reqs, p)) \in Nat
        /\ Cardinality(Sent(reqs, p)) = 0 => Sent(reqs, p) = {}
      BY SentFinite, SentNone, ZenonT(30)
<1>2. \A reqs \in Seq(Requests), p \in Procs : \A r \in Requests : r.from = p =>
        Cardinality(Sent(Append(reqs, r), p)) = Cardinality(Sent(reqs, p)) + 1
      BY CountAppend, ZenonT(30)
<1>3. \A reqs \in Seq(Requests), p \in Procs : reqs # <<>> =>
        Cardinality(Sent(reqs, p))
          = Cardinality(Sent(Tail(reqs), p)) + IF Head(reqs).from = p THEN 1 ELSE 0
      BY CountTail, ZenonT(30)
<1> QED BY <1>1, <1>2, <1>3, FS_EmptySet, ZenonT(30) DEF CountLaws

------------------------------------------------------------------------------
(* The theorems *)

(* The inductive invariant always holds. *)
LEMMA Inductive == Spec => []IndInv
<1>1. Init => IndInv
      BY Counting, InitState, IndInit, ZenonT(30)
<1>2. IndInv /\ [Next]_vars => IndInv'
      BY Counting, NextState, IndNext, ZenonT(30) DEF IndInv
<1> QED BY <1>1, <1>2, PTL DEF Spec

(* The datagrams of a process are accounted for: as many answers are to    *)
(* come as receives were interrupted, and one more while it waits.         *)
THEOREM AnswersAlwaysMatch == Spec => []AnswersMatch
BY ShowsAnswers, Inductive, PTL

(* The variables keep their types, and every socket of the kernel has a    *)
(* listener or a bind that waits for usnetd.                               *)
THEOREM KernelPortsAlwaysOwned == Spec => []KernelPortsOwned
BY ShowsKernel, Inductive, PTL

(* After the Drop of an interface its link and its control path are gone,  *)
(* unless deleting the link was refused.                                   *)
THEOREM NothingEverLeftBehind == Spec => []NothingLeftBehind
BY ShowsNothingLeft, Inductive, PTL

(* No process takes away the link of another or of the host, except under  *)
(* a name it was configured to create.                                     *)
THEOREM LinksAlwaysStay == Spec => []LinksStay
BY ShowsLinks, Inductive, PTL

(* The processes, usnetd and the messages between them implement the       *)
(* exclusive ownership of ports.                                           *)
THEOREM OwnershipRefined == Spec => OwnershipImplemented
<1>1. IndInv /\ IndInv' /\ [Next]_vars => [Ownership!Next]_Ownership!vars
      BY NextState, RefinesNext, ZenonT(30) DEF IndInv
<1> QED BY <1>1, RefinesInit, Inductive, PTL DEF Spec, OwnershipImplemented, Ownership!Spec

(* Two processes that have missed no answer of usnetd never have a socket  *)
(* for the same protocol, address, port and remote end.                    *)
THEOREM PortsExclusive == Spec => []Ownership!Exclusive
BY ShowsExclusive, Inductive, PTL

=============================================================================

------------------------------ MODULE Resolver ------------------------------
(***************************************************************************)
(* One lookup of a host name, DnsResolver::resolve_host, with a resolver   *)
(* and a socket of its own (src/resolve/resolver.rs, socket.rs): the names *)
(* to try, an A and an AAAA query for each, and for each query the         *)
(* attempts, name servers and timeouts of send_message. The network loses, *)
(* delays, repeats and reorders answers; other senders may reach the       *)
(* socket. Messages are abstracted to sender, id and outcome of decoding.  *)
(***************************************************************************)
EXTENDS Naturals, Sequences, Functions

CONSTANTS Servers,      \* number of name_servers
          Attempts,     \* config.attempts
          Timeout,      \* config.timeout, in ticks
          NDots,        \* config.n_dots
          Search,       \* config.search, a sequence of domains
          MaxDots,      \* dots in a host name
          IdMod,        \* ids are modulo 2^16
          FirstId,      \* generate_id starts anywhere
          MaxMessages   \* messages that reach the socket during the lookup

ASSUME ConfigAssumption ==
  /\ Servers \in Nat \ {0} /\ Attempts \in Nat \ {0} /\ Timeout \in Nat \ {0}
  /\ NDots \in Nat /\ MaxDots \in Nat /\ MaxMessages \in Nat
  /\ Search \in Seq(Range(Search))
  /\ FirstId \in 0..(IdMod - 1)

(* A lookup needs fewer ids than there are. *)
ASSUME IdAssumption == IdMod \in Nat /\ 2 * (Len(Search) + 1) <= IdMod

VARIABLES rotate, use_inet6,
          names,      \* names still to try, the current one first
          second,     \* the second of the two queries for a name?
          found,      \* res is not empty
          query,      \* queries made: the current one has this number
          pc,         \* "attempt", "recv", or the outcome: "ok", "failed"
          retries, next_ns,
          ns,         \* the server of the current attempt
          timeout,    \* what is left of the timeout
          sent,       \* <<query, server>> of every message sent
          socket,     \* messages received and not yet read
          arrived,    \* how many messages have reached the socket
          waited,     \* time spent receiving in this attempt
          ignored,    \* messages of the current server ignored in this attempt
          answered    \* the query that the accepted answer was made to

vars == <<rotate, use_inet6, names, second, found, query, pc, retries, next_ns, ns,
          timeout, sent, socket, arrived, waited, ignored, answered>>
config == <<rotate, use_inet6>>
lookup == <<names, second, found, query, answered>>
network == <<sent, socket, arrived>>

ServerIds == 0..(Servers - 1)
Other == Servers     \* a sender that is no name server
Bare == "bare"       \* the host name without a suffix

(* An answer, no record, an error code, undecodable, not a response. *)
Outcomes == {"address", "empty", "error", "garbage", "request"}
Queries == 1..(2 * (Len(Search) + 1))
Messages == [to : Queries, from : ServerIds \union {Other}, outcome : Outcomes]

(* The types of the variables. *)
TypeOK ==
  /\ rotate \in BOOLEAN /\ use_inet6 \in BOOLEAN
  /\ names \in Seq(Range(Search) \union {Bare}) /\ second \in BOOLEAN /\ found \in BOOLEAN
  /\ query \in Queries /\ answered \in Queries \union {0}
  /\ pc \in {"attempt", "recv", "ok", "failed"}
  /\ retries \in 0..Attempts /\ next_ns \in ServerIds /\ ns \in ServerIds
  /\ timeout \in 0..Timeout /\ waited \in Nat /\ ignored \in Nat
  /\ sent \subseteq Queries \X ServerIds
  /\ socket \in Seq(Messages) /\ arrived \in 0..MaxMessages

(* query_names: the names tried for a host name, with_suffixes or as it is.*)
QueryNames(dots, absolute) ==
  IF ~absolute /\ dots >= NDots THEN Append(Search, Bare) ELSE <<Bare>>

Init ==
  /\ rotate \in BOOLEAN /\ use_inet6 \in BOOLEAN
  /\ \E dots \in 0..MaxDots, absolute \in BOOLEAN : names = QueryNames(dots, absolute)
  /\ second = FALSE /\ found = FALSE /\ query = 1 /\ answered = 0
  /\ pc = "attempt" /\ retries = 0 /\ next_ns = 0 /\ ns = 0
  /\ timeout = Timeout /\ waited = 0 /\ ignored = 0
  /\ sent = {} /\ socket = <<>> /\ arrived = 0

Id(q) == (FirstId + q) % IdMod

------------------------------------------------------------------------------
(* resolve_host *)

(* send_message has returned; got is TRUE if its answer held an address.   *)
(* The second query is made unless inet6 is set and the first found one.   *)
(* With no address the next name is tried, and errors are forgotten.       *)
QueryEnds(got) ==
  /\ found' = (found \/ got)
  /\ retries' = 0
  /\ IF ~second /\ ~(use_inet6 /\ got)
     THEN /\ second' = TRUE /\ query' = query + 1 /\ pc' = "attempt"
          /\ UNCHANGED names
     ELSE IF found' \/ Len(names) = 1
     THEN pc' = (IF found' THEN "ok" ELSE "failed") /\ UNCHANGED <<names, second, query>>
     ELSE names' = Tail(names) /\ second' = FALSE /\ query' = query + 1 /\ pc' = "attempt"

------------------------------------------------------------------------------
(* send_message *)

(* Variant: a resolver that only asks its first server. *)
NextServerFirst == ns' = 0 /\ UNCHANGED next_ns

NextNameserver == ns' = next_ns /\ next_ns' = (next_ns + 1) % Servers

(* The server of the next attempt. *)
NextServer ==
  IF rotate THEN NextNameserver
  ELSE ns' = retries % Servers /\ UNCHANGED next_ns

Attempt ==
  /\ pc = "attempt" /\ retries < Attempts
  /\ NextServer
  /\ timeout' = Timeout /\ waited' = 0 /\ ignored' = 0
  /\ \/ sent' = sent \union {<<query, ns'>>} /\ pc' = "recv"
        /\ UNCHANGED <<lookup, retries>>
     \/ QueryEnds(FALSE) /\ UNCHANGED <<sent, answered>>       \* send_to fails
  /\ UNCHANGED <<config, socket, arrived>>

(* All attempts have timed out: last_err is returned. *)
OutOfAttempts ==
  /\ pc = "attempt" /\ retries = Attempts
  /\ QueryEnds(FALSE)
  /\ UNCHANGED <<config, answered, next_ns, ns, timeout, network, waited, ignored>>

(* Variant: the attempt is not counted. *)
RecvTimeoutUncounted ==
  /\ pc = "recv" /\ timeout > 0
  /\ waited' = waited + timeout
  /\ pc' = "attempt"
  /\ UNCHANGED <<config, lookup, retries, next_ns, ns, timeout, network, ignored>>

(* recv_from times out, possibly just as a message arrives. *)
RecvTimeout ==
  /\ pc = "recv" /\ timeout > 0
  /\ waited' = waited + timeout
  /\ pc' = "attempt" /\ retries' = retries + 1
  /\ UNCHANGED <<config, lookup, next_ns, ns, timeout, network, ignored>>

(* set_read_timeout refuses a duration of 0, and the query fails. *)
ZeroTimeout ==
  /\ pc = "recv" /\ timeout = 0
  /\ QueryEnds(FALSE)
  /\ UNCHANGED <<config, answered, next_ns, ns, timeout, network, waited, ignored>>

(* Variant: the timeout starts again. *)
RestKeeps(passed) == UNCHANGED timeout

(* After a message from someone else, received after this time. *)
Rest(passed) == timeout' = timeout - passed

(* Variant: any response of the server is taken. *)
RelevantAny(msg) == msg.outcome # "request"

Relevant(msg) == Id(msg.to) = Id(query) /\ msg.outcome # "request"

Recv(passed) ==
  /\ pc = "recv" /\ timeout > 0 /\ socket # <<>>
  /\ socket' = Tail(socket) /\ waited' = waited + passed
  /\ LET msg == Head(socket)
     IN \/ /\ msg.from # ns
           /\ Rest(passed)
           /\ UNCHANGED <<lookup, pc, retries, ignored>>
        \/ /\ msg.from = ns /\ msg.outcome # "garbage" /\ ~Relevant(msg)
           /\ ignored' = ignored + 1
           /\ UNCHANGED <<lookup, pc, retries, timeout>>
        \/ /\ msg.from = ns /\ (msg.outcome = "garbage" \/ Relevant(msg))
           /\ QueryEnds(msg.outcome = "address")
           /\ answered' = IF msg.outcome = "address" THEN msg.to ELSE answered
           /\ UNCHANGED <<timeout, ignored>>
  /\ UNCHANGED <<config, next_ns, ns, sent, arrived>>

------------------------------------------------------------------------------
(* The name servers and the network: any answer to any message sent may    *)
(* arrive at any time, and more than once; others send what they like.     *)
Arrive(msg) ==
  /\ arrived < MaxMessages /\ arrived' = arrived + 1
  /\ socket' = Append(socket, msg)
  /\ UNCHANGED <<config, lookup, pc, retries, next_ns, ns, timeout, sent, waited, ignored>>

Step == \/ Attempt \/ OutOfAttempts \/ RecvTimeout \/ ZeroTimeout
        \/ \E passed \in 0..timeout : Recv(passed)

Next ==
  \/ Step
  \/ pc \in {"attempt", "recv"} /\ \E to \in sent, outcome \in Outcomes :
       Arrive([to |-> to[1], from |-> to[2], outcome |-> outcome])
  \/ pc \in {"attempt", "recv"} /\ Arrive([to |-> query, from |-> Other, outcome |-> "address"])

(* The resolver's thread runs, and recv_from ends by its timeout. *)
Spec == Init /\ [][Next]_vars /\ WF_vars(Step)

------------------------------------------------------------------------------
(* Properties *)

(* An address is never taken from an answer to another query: a late       *)
(* answer to the A query or to a previous name is told apart by its id,    *)
(* although send_message compares neither name nor record type.            *)
AnswerIsOurs == [][answered' # answered => answered' = query]_vars

(* A query is given up for lack of an answer only after every server was   *)
(* asked, if there are as many attempts as servers, with and without       *)
(* rotate.                                                                 *)
AllServersAsked ==
  pc = "attempt" /\ retries = Attempts /\ Attempts >= Servers =>
    \A s \in ServerIds : <<query, s>> \in sent

(* "Maintain the right total timeout": messages of other senders do not    *)
(* prolong an attempt; each ignored message of the server itself does, by  *)
(* at most the timeout.  The variables keep their types.                   *)
AttemptTimeBounded == TypeOK /\ waited <= Timeout * (1 + ignored)

(* Every lookup ends, whatever the network does. *)
LookupEnds == <>(pc \in {"ok", "failed"})
==============================================================================

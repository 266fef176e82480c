--------------------------- MODULE ListenerProofs ---------------------------
(***************************************************************************)
(* What a listener and its loopback socket rely on. accept() keeps the     *)
(* list of listening sockets complete and loses no connection between its  *)
(* two critical sections, for any number of threads and any backlog. And   *)
(* as long as the application drops only sockets that bind registered,     *)
(* bg()'s list of descriptors agrees with the sockets that exist, and its  *)
(* unwrap never panics: for any number of sockets and descriptors.         *)
(***************************************************************************)
EXTENDS Listener, PollFds, SmoltcpProofs, TLAPS

------------------------------------------------------------------------------
(* The descriptors bg() polls *)

(* No socket exists initially, and no descriptor is listed. *)
LEMMA InitFds == FdInit => FdTypeOK /\ FdInv
<1> SUFFICES ASSUME FdInit PROVE FdTypeOK /\ FdInv
  OBVIOUS
<1>1. FdTypeOK
  BY Zenon DEF FdInit, FdTypeOK
<1>2. \A f \in Fds : ~Registered(f)
  BY DEF FdInit, Registered
<1>3. FdAccounting
  BY <1>2, ZenonT(30) DEF FdInit, FdAccounting
<1> QED BY <1>1, <1>3 DEF FdInit, FdInv, BgSurvives

(* Each action preserves the types. *)
LEMMA NextFdType ==
  ASSUME FdTypeOK, [FdNext]_fdVars
  PROVE  FdTypeOK'
<1> USE DEF FdTypeOK
<1>1. ASSUME NEW o \in Objs, NEW f \in Fds, NEW state \in {"registered", "unregistered"},
             Create(o, f, state)
      PROVE  obj' \in [Objs -> Sockets \union {Absent}]
  BY <1>1 DEF Create, Sockets
<1>2. ASSUME NEW o \in Objs, NEW f \in Fds,
             Bind(o, f) \/ BindLoopback(o, f) \/ \E c \in Objs : TryClone(o, c, f)
      PROVE  FdTypeOK'
  BY <1>1, <1>2 DEF Bind, BindLoopback, TryClone
<1>3. ASSUME NEW o \in Objs, Drop(o)
      PROVE  FdTypeOK'
  <2>1. obj[o] \in Sockets
    BY <1>3 DEF Drop
  <2> QED BY <1>3, <2>1 DEF Drop, Sockets
<1>4. ASSUME NEW o \in Objs, DropLo(o) \/ LoArrives(o) \/ TakeLo(o)
      PROVE  FdTypeOK'
  BY <1>4 DEF DropLo, LoArrives, TakeLo, Sockets
<1>5. CASE BgPrepare
  BY <1>5 DEF BgPrepare
<1>6. CASE BgPoll \/ ArriveOther
  BY <1>6, ZenonT(30) DEF BgPoll, ArriveOther
<1>7. CASE FdDrain
  BY <1>7, ZenonT(30) DEF FdDrain, Sockets
<1>8. CASE UNCHANGED fdVars
  BY <1>8, ZenonT(30) DEF fdVars
<1> QED BY <1>2, <1>3, <1>4, <1>5, <1>6, <1>7, <1>8, ZenonT(30) DEF FdNext, Bg

(* Each action preserves the agreement of the lists with the sockets. *)
LEMMA NextFdInv ==
  ASSUME ~DropsUnregistered, FdTypeOK, FdInv, [FdNext]_fdVars
  PROVE  FdInv'
<1> USE DEF FdTypeOK, FdInv
<1>1. ASSUME NEW o \in Objs, NEW f \in Fds, Bind(o, f)
      PROVE  FdInv'
  <2>1. /\ ~Registered(f) /\ Registered(f)'
        /\ \A g \in Fds : g # f => Registered(g)' = Registered(g)
    BY <1>1 DEF Bind, Create, Registered, Absent, Sockets
  <2>2. FdAccounting'
    BY <1>1, <2>1 DEF Bind, FdAccounting
  <2> QED BY <1>1, <2>2, ZenonT(30) DEF Bind, Create, BgSurvives, Absent
<1>2. ASSUME NEW o \in Objs, NEW f \in Fds, Create(o, f, "unregistered"),
             UNCHANGED <<fds_add, fds_remove, fds_extra, bgpc, other>>
      PROVE  FdInv'
  <2>1. \A g \in Fds : Registered(g)' = Registered(g)
    BY <1>2, ZenonT(30) DEF Create, Registered, Absent, Sockets
  <2> QED BY <1>2, <2>1, ZenonT(30) DEF Create, FdAccounting, BgSurvives, Absent
<1>3. ASSUME NEW o \in Objs, Drop(o)
      PROVE  FdInv'
  <2>1. obj[o] \in Sockets /\ obj[o].state = "registered"
    BY <1>3 DEF Drop
  <2>2. obj'[o].state = "dropping" /\ obj'[o].fd = obj[o].fd /\ obj'[o] # Absent
    BY <1>3, <2>1 DEF Drop, Sockets, Absent
  <2>3. \A p \in Objs : p # o => obj'[p] = obj[p]
    BY <1>3 DEF Drop
  <2>4. /\ Registered(obj[o].fd) /\ ~Registered(obj[o].fd)'
        /\ \A g \in Fds : g # obj[o].fd => Registered(g)' = Registered(g)
    BY <1>3, <2>1, <2>2, <2>3, ZenonT(30) DEF Drop, Registered
  <2>5. obj[o].fd \in Fds
    BY <2>1 DEF Sockets
  <2>6. FdAccounting'
    BY <1>3, <2>4, <2>5 DEF Drop, FdAccounting
  <2> QED BY <1>3, <2>2, <2>3, <2>6 DEF Drop, BgSurvives
<1>4. ASSUME NEW o \in Objs, DropLo(o)
      PROVE  FdInv'
  <2>1. \A g \in Fds : Registered(g)' = Registered(g)
    BY <1>4 DEF DropLo, Registered
  <2> QED BY <1>4, <2>1, ZenonT(30) DEF DropLo, FdAccounting, BgSurvives
<1>5. ASSUME NEW o \in Objs, LoArrives(o) \/ TakeLo(o)
      PROVE  FdInv'
  <2>1. \A p \in Objs : /\ obj'[p] = Absent <=> obj[p] = Absent
                        /\ obj[p] # Absent => obj'[p].fd = obj[p].fd /\ obj'[p].state = obj[p].state
    BY <1>5 DEF LoArrives, TakeLo, Absent, Sockets
  <2>2. \A g \in Fds : Registered(g)' = Registered(g)
    BY <2>1, ZenonT(30) DEF Registered
  <2> QED BY <1>5, <2>1, <2>2, ZenonT(30) DEF LoArrives, TakeLo, FdAccounting, BgSurvives
<1>6. CASE BgPrepare
  <2>1. \A f \in Fds : fds_remove[f] <= fds_extra[f] + fds_add[f]
    BY DEF FdAccounting
  <2>2. \A g \in Fds : Registered(g)' = Registered(g)
    BY <1>6, ZenonT(30) DEF BgPrepare, Registered
  <2>3. FdAccounting'
    BY <1>6, <2>1, <2>2 DEF BgPrepare, FdAccounting
  <2> QED BY <1>6, <2>1, <2>3 DEF BgPrepare, BgSurvives
<1>7. CASE BgPoll \/ ArriveOther \/ UNCHANGED fdVars
  <2>1. \A g \in Fds : Registered(g)' = Registered(g)
    BY <1>7 DEF BgPoll, ArriveOther, fdVars, Registered
  <2> QED BY <1>7, <2>1, ZenonT(30) DEF BgPoll, ArriveOther, fdVars, FdAccounting, BgSurvives
<1>8. CASE FdDrain
  <2>1. \A p \in Objs : /\ obj'[p] = Absent <=> obj[p] = Absent
                        /\ obj[p] # Absent => obj'[p].fd = obj[p].fd /\ obj'[p].state = obj[p].state
    BY <1>8, ZenonT(30) DEF FdDrain, Absent, Sockets
  <2>2. \A g \in Fds : Registered(g)' = Registered(g)
    BY <2>1 DEF Registered
  <2> QED BY <1>8, <2>1, <2>2 DEF FdDrain, FdAccounting, BgSurvives
<1> QED BY <1>1, <1>2, <1>3, <1>4, <1>5, <1>6, <1>7, <1>8, ZenonT(30)
        DEF FdNext, Bg, BindLoopback, TryClone

(* bg() survives, and polls exactly the registered descriptors once it has *)
(* caught up, for every application that drops only registered sockets.    *)
THEOREM FdsCorrect == ~DropsUnregistered => (FdSpec => [](FdAccounting /\ BgSurvives))
<1> SUFFICES ASSUME ~DropsUnregistered PROVE FdSpec => [](FdAccounting /\ BgSurvives)
  OBVIOUS
<1>1. FdTypeOK /\ FdInv /\ [FdNext]_fdVars => (FdTypeOK /\ FdInv)'
  BY NextFdType, NextFdInv, ZenonT(30)
<1>2. FdTypeOK /\ FdInv => FdAccounting /\ BgSurvives
  BY DEF FdInv
<1> QED BY <1>1, <1>2, InitFds, PTL DEF FdSpec

------------------------------------------------------------------------------
(* accept() *)

INSTANCE SequenceTheorems

(* The indices of the list differ in their handles. *)
Distinct(s) == \A i, j \in DOMAIN s : s[i] = s[j] => i = j

Members(s) == {s[j] : j \in DOMAIN s}

Refilling == \E t \in Threads : call[t] = "refill"

(* The inductive invariant: the thread inside accept() holds the mutex, so *)
(* that at most one thread is between the two critical sections; the list  *)
(* has no handle twice and misses one exactly then.                        *)
AcceptInv ==
  /\ TypeOK
  /\ \A t \in Threads : call[t] # "idle" => holder = t
  /\ Distinct(listen_handles)
  /\ Len(listen_handles) = IF Refilling THEN SocketBacklog - 1 ELSE SocketBacklog

(* r is s without its i-th element, where n is the length of s. *)
LeavesOut(r, s, i, n) ==
  /\ DOMAIN s = 1 .. n /\ DOMAIN r = 1 .. n - 1
  /\ \A j \in 1 .. n - 1 : r[j] = IF j < i THEN s[j] ELSE s[j + 1]

(* Leaving one element out repeats no other and loses no other. *)
LEMMA LeftOut ==
  ASSUME NEW n \in Nat, NEW i \in 1 .. n, NEW s, NEW r,
         Distinct(s), LeavesOut(r, s, i, n)
  PROVE  /\ Distinct(r)
         /\ Members(r) = Members(s) \ {s[i]}
<1> DEFINE at(j) == IF j < i THEN j ELSE j + 1
<1>1. \A j \in DOMAIN r : at(j) \in DOMAIN s /\ at(j) # i /\ r[j] = s[at(j)]
  BY DEF LeavesOut
<1>2. \A j, k \in DOMAIN r : at(j) = at(k) => j = k
  BY DEF LeavesOut
<1>3. \A k \in DOMAIN s : k # i => \E j \in DOMAIN r : at(j) = k
  <2> SUFFICES ASSUME NEW k \in DOMAIN s, k # i
               PROVE  \E j \in DOMAIN r : at(j) = k
    OBVIOUS
  <2>1. CASE k < i
    BY <2>1 DEF LeavesOut
  <2>2. CASE k > i
    <3>1. k - 1 \in DOMAIN r /\ at(k - 1) = k
      BY <2>2 DEF LeavesOut
    <3> QED
      BY <3>1
  <2> QED
    BY <2>1, <2>2 DEF LeavesOut
<1> HIDE DEF at
<1>4. Distinct(r)
  BY <1>1, <1>2, ZenonT(30) DEF Distinct
<1>5. Members(r) \subseteq Members(s) \ {s[i]}
  <2>1. i \in DOMAIN s
    BY DEF LeavesOut
  <2>2. \A j \in DOMAIN r : s[at(j)] # s[i]
    BY <1>1, <2>1 DEF Distinct
  <2> QED
    BY <1>1, <2>2, ZenonT(30) DEF Members
<1>6. Members(s) \ {s[i]} \subseteq Members(r)
  BY <1>1, <1>3 DEF Members
<1> QED
  BY <1>4, <1>5, <1>6, Zenon

(* What accept() does to the list when the i-th socket is ready. *)
Removed(s, i) == SubSeq(s, 1, i - 1) \o SubSeq(s, i + 1, Len(s))

(* Removing the i-th element keeps the others, in a list one shorter. *)
LEMMA RemovedOK ==
  ASSUME NEW S, NEW s \in Seq(S), Distinct(s), NEW i \in 1 .. Len(s)
  PROVE  /\ Removed(s, i) \in Seq(S)
         /\ Len(Removed(s, i)) = Len(s) - 1
         /\ Distinct(Removed(s, i))
         /\ Members(Removed(s, i)) = Members(s) \ {s[i]}
<1> DEFINE n == Len(s)
           a == SubSeq(s, 1, i - 1)
           b == SubSeq(s, i + 1, n)
           r == Removed(s, i)
<1>1. n \in Nat /\ DOMAIN s = 1 .. n /\ \A j \in 1 .. n : s[j] \in S
  BY LenProperties, ElementOfSeq
<1>2. 1 \in Int /\ i - 1 \in Int /\ i + 1 \in Int /\ n \in Int /\ i \in 1 .. n
  BY <1>1
<1>3. (\A j \in 1 .. i - 1 : s[j] \in S) /\ \A j \in i + 1 .. n : s[j] \in S
  BY <1>1, <1>2
<1>4. /\ a \in Seq(S) /\ Len(a) = IF 1 <= i - 1 THEN i - 1 - 1 + 1 ELSE 0
      /\ \A j \in 1 .. i - 1 - 1 + 1 : a[j] = s[1 + j - 1]
  BY <1>2, <1>3, SubSeqProperties
<1>5. /\ b \in Seq(S) /\ Len(b) = IF i + 1 <= n THEN n - (i + 1) + 1 ELSE 0
      /\ \A j \in 1 .. n - (i + 1) + 1 : b[j] = s[i + 1 + j - 1]
  BY <1>2, <1>3, SubSeqProperties
<1>6. r = a \o b
  BY DEF Removed
<1> HIDE DEF n, a, b, r
<1>7. Len(a) = i - 1 /\ \A j \in 1 .. i - 1 : a[j] = s[j]
  BY <1>1, <1>2, <1>4
<1>8. Len(b) = n - i /\ \A j \in 1 .. n - i : b[j] = s[i + j]
  BY <1>1, <1>2, <1>5
<1>9. /\ r \in Seq(S) /\ Len(r) = Len(a) + Len(b)
      /\ \A j \in 1 .. Len(a) + Len(b) : r[j] = IF j <= Len(a) THEN a[j] ELSE b[j - Len(a)]
  BY <1>4, <1>5, <1>6, ConcatProperties, ZenonT(30)
<1>10. Len(r) = n - 1 /\ \A j \in 1 .. n - 1 : r[j] = IF j < i THEN s[j] ELSE s[j + 1]
  BY <1>1, <1>2, <1>7, <1>8, <1>9
<1>11. DOMAIN r = 1 .. n - 1
  BY <1>9, <1>10, LenProperties
<1>12. Distinct(r) /\ Members(r) = Members(s) \ {s[i]}
  <2>1. LeavesOut(r, s, i, n)
    BY <1>1, <1>10, <1>11 DEF LeavesOut
  <2>2. n \in Nat /\ i \in 1 .. n
    BY <1>1, <1>2
  <2> QED
    BY <2>1, <2>2, LeftOut, ZenonT(30)
<1> QED
  BY ZenonT(30), <1>9, <1>10, <1>12 DEF n, r

(* Appending a handle that is not in the list. *)
LEMMA AppendedOK ==
  ASSUME NEW S, NEW s \in Seq(S), Distinct(s), NEW h \in S, h \notin Members(s)
  PROVE  /\ Append(s, h) \in Seq(S)
         /\ Len(Append(s, h)) = Len(s) + 1
         /\ Distinct(Append(s, h))
         /\ Members(s) \subseteq Members(Append(s, h))
<1> DEFINE r == Append(s, h)
<1>1. /\ Len(s) \in Nat /\ DOMAIN s = 1 .. Len(s)
      /\ r \in Seq(S) /\ Len(r) = Len(s) + 1
      /\ \A j \in 1 .. Len(s) : r[j] = s[j]
      /\ r[Len(s) + 1] = h
  BY AppendProperties, LenProperties
<1> HIDE DEF r
<1>2. DOMAIN r = 1 .. Len(s) + 1
  BY <1>1, LenProperties
<1>3. Distinct(r)
  BY <1>1, <1>2 DEF Distinct, Members
<1>4. Members(s) \subseteq Members(r)
  BY <1>1, <1>2 DEF Members
<1> QED
  BY <1>1, <1>3, <1>4, ZenonT(30) DEF r

(* bind lists every handle once. *)
LEMMA InitAccept == Init => AcceptInv
<1> SUFFICES ASSUME Init PROVE AcceptInv
  OBVIOUS
<1>1. /\ listen_handles \in Seq(Handles) /\ Len(listen_handles) = SocketBacklog
      /\ DOMAIN listen_handles = Handles
  BY BacklogAssumption DEF Init, Handles
<1>2. Distinct(listen_handles)
  BY <1>1 DEF Init, Distinct
<1>3. Listen(NewTcpSocket) \in Socket
  BY OpenedOK
<1>4. TypeOK
  BY <1>1, <1>3, ModesAssumption, ThreadAssumption DEF Init, TypeOK
<1>5. ~Refilling
  BY DEF Init, Refilling
<1> QED
  BY <1>1, <1>2, <1>4, <1>5 DEF Init, AcceptInv

(* A thread that enters accept() finds the others outside; while one is    *)
(* inside, the others stay outside.                                        *)
LEMMA AloneInside ==
  ASSUME AcceptInv, NEW t \in Threads, call[t] # "idle" \/ holder = NoThread
  PROVE  \A u \in Threads : u # t => call[u] = "idle"
BY ThreadAssumption DEF AcceptInv

(* A step of a thread that moves only the thread keeps the invariant,      *)
(* unless the thread comes from or goes to the second critical section.    *)
LEMMA MoveKeeps ==
  ASSUME AcceptInv, NEW t \in Threads, call[t] # "idle" \/ holder = NoThread,
         NEW to \in {"idle", "lock", "wait", "woken"}, call[t] # "refill",
         call' = [call EXCEPT ![t] = to],
         holder' = IF to = "idle" THEN NoThread ELSE t,
         lo' \in 0..MaxLo, UNCHANGED <<listen_handles, nonblocking, sockets, wire>>
  PROVE  AcceptInv'
<1>1. \A u \in Threads : u # t => call[u] = "idle" /\ call'[u] = "idle"
  BY AloneInside DEF AcceptInv, TypeOK
<1>2. call'[t] = to
  BY DEF AcceptInv, TypeOK
<1>3. ~Refilling /\ ~Refilling'
  BY <1>1, <1>2 DEF Refilling
<1>4. TypeOK'
  BY DEF AcceptInv, TypeOK
<1>5. \A u \in Threads : call'[u] # "idle" => holder' = u
  BY <1>1, <1>2
<1>6. Distinct(listen_handles')
  BY DEF AcceptInv
<1>7. Len(listen_handles') = SocketBacklog
  BY <1>3 DEF AcceptInv
<1> QED
  BY <1>3, <1>4, <1>5, <1>6, <1>7, ZenonT(30) DEF AcceptInv

(* The first critical section. *)
LEMMA CheckKeeps ==
  ASSUME AcceptInv, NEW t \in Threads, AcceptCheck(t)
  PROVE  AcceptInv'
<1>1. call[t] \in {"lock", "woken"} /\ holder = t
  BY ZenonT(30) DEF AcceptCheck, AcceptInv
<1>2. CASE AcceptReturns(t) /\ lo' \in 0..MaxLo /\ UNCHANGED listen_handles
  BY <1>1, <1>2, MoveKeeps, ZenonT(30) DEF AcceptCheck, AcceptReturns
<1>3. CASE call' = [call EXCEPT ![t] = "lock"] /\ UNCHANGED <<holder, listen_handles, lo>>
  <2>1. lo' \in 0..MaxLo
    BY <1>3 DEF AcceptInv, TypeOK
  <2> QED
    BY <1>1, <1>3, <2>1, MoveKeeps, ZenonT(30) DEF AcceptCheck
<1>4. CASE /\ \E i \in DOMAIN listen_handles : listen_handles' = Removed(listen_handles, i)
           /\ call' = [call EXCEPT ![t] = "refill"]
           /\ UNCHANGED <<holder, lo>>
  <2>1. PICK i \in DOMAIN listen_handles : listen_handles' = Removed(listen_handles, i)
    BY <1>4
  <2>2. listen_handles \in Seq(Handles) /\ Distinct(listen_handles)
    BY DEF AcceptInv, TypeOK
  <2>3. i \in 1 .. Len(listen_handles)
    BY <2>2, LenProperties
  <2>4. /\ listen_handles' \in Seq(Handles) /\ Distinct(listen_handles')
        /\ Len(listen_handles') = Len(listen_handles) - 1
    BY <2>1, <2>2, <2>3, RemovedOK, ZenonT(30)
  <2>5. ~Refilling /\ Refilling'
    BY <1>1, <1>4, AloneInside, ZenonT(30) DEF Refilling, AcceptInv, TypeOK
  <2>6. TypeOK'
    BY <1>4, <2>4, ZenonT(30) DEF AcceptInv, TypeOK, AcceptCheck
  <2>7. \A u \in Threads : call'[u] # "idle" => holder' = u
    BY <1>1, <1>4 DEF AcceptInv, TypeOK
  <2> QED
    BY <2>4, <2>5, <2>6, <2>7, ZenonT(30) DEF AcceptInv
<1>5. lo > 0 => lo - 1 \in 0..MaxLo
  BY ThreadAssumption DEF AcceptInv, TypeOK
<1>6. lo \in 0..MaxLo
  BY DEF AcceptInv, TypeOK
<1> QED
  BY <1>2, <1>3, <1>4, <1>5, <1>6, ZenonT(30) DEF AcceptCheck, Removed

(* The second critical section. *)
LEMMA RefillKeeps ==
  ASSUME AcceptInv, NEW t \in Threads, AcceptRefill(t)
  PROVE  AcceptInv'
<1>1. PICK h \in Handles \ Listed :
        /\ sockets' = [sockets EXCEPT ![h] = Listen(NewTcpSocket)]
        /\ wire' = [wire EXCEPT ![h] = {}]
        /\ listen_handles' = Append(listen_handles, h)
  BY Zenon DEF AcceptRefill
<1>2. /\ listen_handles' \in Seq(Handles) /\ Distinct(listen_handles')
      /\ Len(listen_handles') = Len(listen_handles) + 1
  <2>1. listen_handles \in Seq(Handles) /\ Distinct(listen_handles)
    BY DEF AcceptInv, TypeOK
  <2>2. h \in Handles /\ h \notin Members(listen_handles)
    BY DEF Listed, Members
  <2> QED
    BY <1>1, <2>1, <2>2, AppendedOK, ZenonT(30)
<1>3. TypeOK'
  <2>1. sockets' \in [Handles -> Socket] /\ wire' \in [Handles -> SUBSET Frames]
    BY <1>1, OpenedOK DEF AcceptInv, TypeOK
  <2> QED
    BY <1>2, <2>1 DEF AcceptInv, TypeOK, AcceptRefill, AcceptReturns
<1>4. \A u \in Threads : call'[u] = "idle"
  BY AloneInside DEF AcceptInv, TypeOK, AcceptRefill, AcceptReturns
<1>5. Refilling /\ ~Refilling'
  BY <1>4 DEF Refilling, AcceptRefill
<1>6. Len(listen_handles') = SocketBacklog
  BY <1>2, <1>5, BacklogAssumption DEF AcceptInv
<1> QED
  BY <1>2, <1>3, <1>4, <1>5, <1>6, ZenonT(30) DEF AcceptInv

(* Each step keeps the invariant. *)
LEMMA NextAccept ==
  ASSUME AcceptInv, [Next]_vars
  PROVE  AcceptInv'
<1>1. ASSUME NEW t \in Threads, AcceptLock(t) \/ AcceptWait(t)
      PROVE  AcceptInv'
  <2>1. lo' \in 0..MaxLo
    BY <1>1 DEF AcceptInv, TypeOK, AcceptLock, AcceptWait
  <2>2. call[t] # "idle" => holder = t
    BY DEF AcceptInv
  <2> QED
    BY <1>1, <2>1, <2>2, MoveKeeps, ZenonT(30) DEF AcceptLock, AcceptWait
<1>2. ASSUME NEW b \in Modes, SetNonblocking(b)
      PROVE  AcceptInv'
  BY <1>2, ModesAssumption, ZenonT(30) DEF SetNonblocking, AcceptInv, TypeOK, Distinct, Refilling
<1>3. CASE BgDrain
  <2>1. sockets' \in [Handles -> Socket]
    BY <1>3, PollSocketOK, ZenonT(30) DEF BgDrain, AcceptInv, TypeOK
  <2>2. \A t \in Threads : /\ call'[t] = "idle" <=> call[t] = "idle"
                           /\ call'[t] = "refill" <=> call[t] = "refill"
    BY <1>3 DEF BgDrain, AcceptInv, TypeOK
  <2>3. Refilling' <=> Refilling
    BY <2>2 DEF Refilling
  <2>4. TypeOK'
    BY <1>3, <2>1, ZenonT(30) DEF BgDrain, AcceptInv, TypeOK
  <2> QED
    BY <1>3, <2>2, <2>3, <2>4 DEF BgDrain, AcceptInv, Distinct
<1>4. ASSUME NEW h \in Handles, NEW f \in Frames, Arrive(h, f)
      PROVE  AcceptInv'
  <2>1. TypeOK'
    BY <1>4, ZenonT(30) DEF Arrive, AcceptInv, TypeOK
  <2> QED
    BY <1>4, <2>1, ZenonT(30) DEF Arrive, AcceptInv, Distinct, Refilling
<1>5. CASE ArriveLo
  <2>1. lo' \in 0..MaxLo
    BY <1>5, ThreadAssumption DEF ArriveLo, AcceptInv, TypeOK
  <2> QED
    BY <1>5, <2>1, ZenonT(30) DEF ArriveLo, AcceptInv, TypeOK, Distinct, Refilling
<1>6. CASE UNCHANGED vars
  BY <1>6 DEF vars, AcceptInv, TypeOK, Distinct, Refilling
<1> QED
  BY <1>1, <1>2, <1>3, <1>4, <1>5, <1>6, CheckKeeps, RefillKeeps, ZenonT(30) DEF Next, AcceptStep

(* What a step may do to a connection that a peer has established. *)
Kept(h) == sockets[h].state = "Established" =>
             \/ h \in Listed' /\ sockets'[h].state = "Established"
             \/ h \in Listed' /\ wire[h] \intersect {"Fin", "Rst"} # {}
             \/ h \notin Listed' /\ \E t \in Threads : call'[t] = "refill"

(* Each step keeps every established connection of the list, or hands it   *)
(* to a thread that is about to return it.                                 *)
LEMMA StepKeepsConnection ==
  ASSUME AcceptInv, [Next]_vars, NEW h \in Listed
  PROVE  Kept(h)
<1> SUFFICES ASSUME sockets[h].state = "Established"
             PROVE  \/ h \in Listed' /\ sockets'[h].state = "Established"
                    \/ h \in Listed' /\ wire[h] \intersect {"Fin", "Rst"} # {}
                    \/ h \notin Listed' /\ \E t \in Threads : call'[t] = "refill"
  BY DEF Kept
<1>1. h \in Handles
  BY LenProperties, ElementOfSeq DEF AcceptInv, TypeOK, Listed
<1>2. CASE UNCHANGED <<listen_handles, sockets>>
  BY <1>2 DEF Listed
<1>3. ASSUME NEW t \in Threads, NEW i \in DOMAIN listen_handles,
             listen_handles' = Removed(listen_handles, i),
             call' = [call EXCEPT ![t] = "refill"], UNCHANGED sockets
      PROVE  \/ h \in Listed' /\ sockets'[h].state = "Established"
             \/ h \notin Listed' /\ \E u \in Threads : call'[u] = "refill"
  <2>1. listen_handles \in Seq(Handles) /\ Distinct(listen_handles)
    BY DEF AcceptInv, TypeOK
  <2>2. i \in 1 .. Len(listen_handles)
    BY <2>1, LenProperties
  <2>3. Members(listen_handles') = Members(listen_handles) \ {listen_handles[i]}
    BY <1>3, <2>1, <2>2, RemovedOK, ZenonT(30)
  <2>4. Listed' = Listed \ {listen_handles[i]}
    BY <2>3, ZenonT(30) DEF Listed, Members
  <2>5. call'[t] = "refill"
    BY <1>3 DEF AcceptInv, TypeOK
  <2> QED
    BY <1>3, <2>4, <2>5, ZenonT(30)
<1>4. ASSUME NEW t \in Threads, AcceptCheck(t)
      PROVE  \/ UNCHANGED <<listen_handles, sockets>>
             \/ \E i \in DOMAIN listen_handles :
                  /\ listen_handles' = Removed(listen_handles, i)
                  /\ call' = [call EXCEPT ![t] = "refill"]
                  /\ UNCHANGED sockets
  BY <1>4, Zenon DEF AcceptCheck, Removed
<1>5. ASSUME NEW t \in Threads, AcceptRefill(t)
      PROVE  h \in Listed' /\ sockets'[h].state = "Established"
  <2>1. PICK g \in Handles \ Listed :
          /\ sockets' = [sockets EXCEPT ![g] = Listen(NewTcpSocket)]
          /\ listen_handles' = Append(listen_handles, g)
    BY <1>5, Zenon DEF AcceptRefill
  <2>2. listen_handles \in Seq(Handles) /\ Distinct(listen_handles)
    BY DEF AcceptInv, TypeOK
  <2>3. g \in Handles /\ g \notin Members(listen_handles)
    BY DEF Listed, Members
  <2>4. Members(listen_handles) \subseteq Members(Append(listen_handles, g))
    BY <2>2, <2>3, AppendedOK, ZenonT(30)
  <2>5. h \in Listed'
    BY <2>1, <2>4 DEF Listed, Members
  <2>6. sockets'[h] = sockets[h]
    BY <2>1, <1>1, ZenonT(30) DEF AcceptInv, TypeOK
  <2> QED
    BY <2>5, <2>6
<1>6. CASE BgDrain
  <2>1. h \in Listed'
    BY <1>6, ZenonT(30) DEF BgDrain, Listed
  <2>2. sockets'[h] = PollSocket(sockets[h], wire[h], FALSE) /\ sockets[h] \in Socket
    BY <1>1, <1>6, ZenonT(30) DEF BgDrain, AcceptInv, TypeOK
  <2>3. CASE "Fin" \notin wire[h] /\ "Rst" \notin wire[h]
    BY <2>1, <2>2, <2>3, EstablishedKept, ZenonT(30)
  <2>4. CASE "Fin" \in wire[h] \/ "Rst" \in wire[h]
    BY <2>1, <2>4
  <2> QED
    BY <2>3, <2>4, ZenonT(30)
<1>7. ASSUME NEW t \in Threads, AcceptLock(t) \/ AcceptWait(t)
      PROVE  UNCHANGED <<listen_handles, sockets>>
  BY <1>7, ZenonT(30) DEF AcceptLock, AcceptWait
<1>8. ASSUME \/ \E b \in Modes : SetNonblocking(b)
             \/ \E g \in Handles, f \in Frames : Arrive(g, f)
             \/ ArriveLo \/ UNCHANGED vars
      PROVE  UNCHANGED <<listen_handles, sockets>>
  BY <1>8 DEF SetNonblocking, Arrive, ArriveLo, vars
<1> QED
  BY <1>2, <1>3, <1>4, <1>5, <1>6, <1>7, <1>8, ZenonT(30) DEF Next, AcceptStep

(* accept() loses no connection that a peer has established: only the peer *)
(* ends it, and only a thread that returns it takes it from the list.      *)
THEOREM ConnectionCorrect == Spec => ConnectionNotDropped
<1>1. AcceptInv /\ [Next]_vars => AcceptInv'
  BY NextAccept
<1>2. AcceptInv /\ [Next]_vars
        => [\A h \in Listed : sockets[h].state = "Established" =>
             \/ h \in Listed' /\ sockets'[h].state = "Established"
             \/ h \in Listed' /\ wire[h] \intersect {"Fin", "Rst"} # {}
             \/ h \notin Listed' /\ \E t \in Threads : call'[t] = "refill"]_vars
  BY StepKeepsConnection DEF Kept
<1> QED
  BY <1>1, <1>2, InitAccept, PTL DEF Spec, ConnectionNotDropped

------------------------------------------------------------------------------
(* How long the list is *)

INSTANCE FiniteSetTheorems

(* A list without repetitions has as many members as entries. *)
LEMMA DistinctSize ==
  ASSUME NEW S, NEW s \in Seq(S), Distinct(s)
  PROVE  Cardinality(Members(s)) = Len(s)
<1>1. Len(s) \in Nat /\ DOMAIN s = 1 .. Len(s) /\ s \in [1 .. Len(s) -> S]
  BY LenProperties
<1>2. s \in [1 .. Len(s) -> Members(s)]
  BY <1>1 DEF Members
<1>3. s \in Surjection(1 .. Len(s), Members(s))
  BY <1>1, <1>2 DEF Surjection, Members
<1>4. s \in Injection(1 .. Len(s), Members(s))
  BY <1>1, <1>2 DEF Injection, IsInjective, Distinct
<1>5. IsFiniteSet(1 .. Len(s)) /\ Cardinality(1 .. Len(s)) = Len(s)
  <2>1. \A n \in Nat : 1 \in Int /\ n \in Int /\ (IF 1 > n THEN 0 ELSE n - 1 + 1) = n
    OBVIOUS
  <2> QED
    BY <1>1, <2>1, FS_Interval, ZenonT(30)
<1> QED
  BY <1>3, <1>4, <1>5, FS_Surjection, ZenonT(30)

(* What the run checks follows from the inductive invariant. *)
LEMMA AcceptImplies == AcceptInv => ListenerConsistent
<1> SUFFICES ASSUME AcceptInv PROVE ListenerConsistent
  OBVIOUS
<1>1. Cardinality(Listed) = Len(listen_handles)
  BY DistinctSize DEF AcceptInv, TypeOK, Listed, Members
<1> DEFINE R == {t \in Threads : call[t] = "refill"}
<1>2. Cardinality(R) = IF Refilling THEN 1 ELSE 0
  <2>1. CASE Refilling
    <3>1. R = {holder}
      BY <2>1 DEF Refilling, AcceptInv
    <3> QED
      BY <2>1, <3>1, FS_Singleton, ZenonT(30)
  <2>2. CASE ~Refilling
    <3>1. R = {}
      BY <2>2 DEF Refilling
    <3> QED
      BY <2>2, <3>1, FS_EmptySet
  <2> QED
    BY <2>1, <2>2
<1>3. Len(listen_handles) = SocketBacklog - Cardinality(R)
  BY <1>2, BacklogAssumption DEF AcceptInv
<1> QED
  BY <1>1, <1>3 DEF AcceptInv, ListenerConsistent

(* The list of listening sockets stays complete, whatever threads call     *)
(* accept() at the same time: a thread inside holds the mutex, no handle   *)
(* is listed twice, and at most the one that is being replaced is missing. *)
THEOREM ListenerCorrect == Spec => []ListenerConsistent
<1>1. AcceptInv /\ [Next]_vars => AcceptInv'
  BY NextAccept, ZenonT(30)
<1> QED
  BY <1>1, InitAccept, AcceptImplies, PTL DEF Spec
==============================================================================

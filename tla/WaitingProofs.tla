-------------------------- MODULE WaitingProofs ----------------------------
(***************************************************************************)
(* Calls that wait, for any number of threads, name servers and messages:  *)
(* when the locks around read_timeout cannot deadlock (TimeoutLocks), when *)
(* a UDP socket never waits where it must not (UdpSocket), and whom a      *)
(* lookup asks, how long and whose answer it takes (Resolver).             *)
(***************************************************************************)
EXTENDS UdpSocket, TimeoutLocks, Resolver, TLAPS

(* Each stream is read by one thread at a time. *)
OneReader == \A r, q \in Readers : StreamOf[r] = StreamOf[q] => r = q

(* Who holds the mutex is about to read the timeout, and a guard is held   *)
(* in cond.wait only.                                                      *)
LockInv ==
  /\ LockTypeOK
  /\ \A r \in Readers : mutex = r => where[r] = "timeout"
  /\ \A r \in Readers : where[r] = "timeout" => mutex = r
  /\ \A r \in guards : where[r] \in {"wait", "woken"}

(* Nobody holds a lock before the first call. *)
LEMMA InitLocks == LockInit => LockInv
<1> SUFFICES ASSUME LockInit PROVE LockInv
  OBVIOUS
<1>1. LockTypeOK
  BY DEF LockInit, LockTypeOK
<1> QED
  BY <1>1, NoThreadAssumption DEF LockInit, LockInv, Users

(* No step of a reader, a setter or bg() breaks who holds what. *)
LEMMA NextLocks == LockInv /\ [LockNext]_lockVars => LockInv'
<1> SUFFICES ASSUME LockInv, [LockNext]_lockVars PROVE LockInv'
  OBVIOUS
<1> USE NoThreadAssumption, StreamOfAssumption DEF LockInv, LockTypeOK, Users, Move
<1>1. ASSUME NEW r \in Readers, Lock(r) PROVE LockInv'
  BY <1>1 DEF Lock, Loop
<1>2. ASSUME NEW r \in Readers, ReadTimeout(r) PROVE LockInv'
  BY <1>2 DEF ReadTimeout
<1>3. ASSUME NEW r \in Readers, Wake(r) PROVE LockInv'
  BY <1>3 DEF Wake, Loop
<1>4. ASSUME NEW w \in Setters, Write(w) PROVE LockInv'
  BY <1>4 DEF Write
<1>5. ASSUME NEW r \in Readers, Begin(r) PROVE LockInv'
  BY <1>5 DEF Begin
<1>6. ASSUME NEW w \in Setters, Set(w) PROVE LockInv'
  BY <1>6 DEF Set
<1>7. ASSUME NEW streams \in SUBSET Streams, BgWakes(streams) PROVE LockInv'
  BY <1>7 DEF BgWakes
<1>8. CASE UNCHANGED lockVars
  BY <1>8 DEF lockVars
<1> QED
  BY <1>1, <1>2, <1>3, <1>4, <1>5, <1>6, <1>7, <1>8 DEF LockNext, LockStep

(* A thread that holds the mutex and waits behind a writer is never kept   *)
(* waiting by a guard, as long as each stream is read by one thread at a   *)
(* time: the guard would be its own, and it dropped that one on waking up. *)
THEOREM LocksCorrect == OneReader => (LockSpec => []NoLockCycle)
<1> SUFFICES ASSUME OneReader PROVE LockSpec => []NoLockCycle
  OBVIOUS
<1>1. LockInv => NoLockCycle
  BY DEF LockInv, LockTypeOK, NoLockCycle, OneReader
<1> QED
  BY <1>1, InitLocks, NextLocks, PTL DEF LockSpec

------------------------------------------------------------------------------
(* The UDP socket *)

(* Nobody waits in the kernel or on the condition variable of a socket     *)
(* that is not blocking.                                                   *)
Waiting == {"kernel", "held", "wait", "sendwait"}

(* Where a thread that changes the flag of lo is, and what it will restore *)
(* or store: send_to leaves the flag as it was, or on its way back to it.  *)
FlagInv(t) ==
  /\ At(t, {"loflag", "lorestore"}) => ~nonblocking
  /\ At(t, {"store"}) => (call[t].nb => lo_nonblocking)

(* While someone changes the flag nobody else is in a call. Otherwise lo   *)
(* is nonblocking if the socket is, or if it is not connected.             *)
UdpInv ==
  /\ UdpTypeOK
  /\ \A t, u \in Threads : At(t, Configures) /\ u # t => At(u, {"idle"})
  /\ \A t \in Threads : FlagInv(t)
  /\ (\A t \in Threads : ~At(t, {"store"})) => (nonblocking => lo_nonblocking)
  /\ (\A t \in Threads : ~At(t, {"losend", "lorestore", "connect"})) =>
       (connected = NotConnected => lo_nonblocking)
  /\ \A t \in Threads : ~At(t, {"held"})
  /\ nonblocking => \A t \in Threads : ~At(t, Waiting)

(* What a call remembers depends on where it is. *)
LEMMA CallKinds ==
  ASSUME NEW c \in Calls
  PROVE  /\ c.at \in {"kernel", "held", "wait", "woken"} => c.recv \in BOOLEAN
         /\ c.at = "wait" => [c EXCEPT !.at = "woken"] \in Calls
         /\ c.at = "store" => c.nb \in BOOLEAN
         /\ c.at = "connect" => c.addr \in ConnectAddrs
<1>1. CASE c \in [at : {"kernel", "held", "wait", "woken"}, recv : BOOLEAN]
  BY <1>1 DEF Calls
<1>2. CASE c \in [at : {"store"}, nb : BOOLEAN]
  BY <1>2
<1>3. CASE c \in [at : {"connect"}, addr : ConnectAddrs]
  BY <1>3
<1>4. CASE c = Idle
  BY <1>4 DEF Idle
<1>5. CASE c \in [at : {"spin", "sendwait", "sendwoken", "loflag", "losend", "lorestore"}]
  BY <1>5
<1> QED
  BY <1>1, <1>2, <1>3, <1>4, <1>5 DEF Calls

(* Every place a call can go to is one. *)
LEMMA CallPlaces ==
  /\ Idle \in Calls
  /\ \A at \in {"kernel", "held", "wait", "woken"}, recv \in BOOLEAN :
       [at |-> at, recv |-> recv] \in Calls
  /\ \A at \in {"spin", "sendwait", "sendwoken", "loflag", "losend", "lorestore"} :
       [at |-> at] \in Calls
  /\ \A nb \in BOOLEAN : [at |-> "store", nb |-> nb] \in Calls
  /\ \A addr \in ConnectAddrs : [at |-> "connect", addr |-> addr] \in Calls
<1>1. ASSUME NEW at \in {"kernel", "held", "wait", "woken"}, NEW recv \in BOOLEAN
      PROVE  [at |-> at, recv |-> recv] \in Calls
  BY DEF Calls
<1>2. ASSUME NEW at \in {"spin", "sendwait", "sendwoken", "loflag", "losend", "lorestore"}
      PROVE  [at |-> at] \in Calls
  BY DEF Calls
<1>3. ASSUME NEW nb \in BOOLEAN PROVE [at |-> "store", nb |-> nb] \in Calls
  BY DEF Calls
<1>4. ASSUME NEW addr \in ConnectAddrs PROVE [at |-> "connect", addr |-> addr] \in Calls
  BY DEF Calls
<1> QED
  BY <1>1, <1>2, <1>3, <1>4 DEF Calls

(* An empty queue. *)
LEMMA Emptied == <<>> \in Seq(Senders) /\ Len(<<>>) = 0
OBVIOUS

(* Receiving drops datagrams from the front of the queue. *)
LEMMA QueueDropped ==
  ASSUME rx \in Seq(Senders), Len(rx) <= QueueCap, NEW first \in DOMAIN rx
  PROVE  /\ SubSeq(rx, first + 1, Len(rx)) \in Seq(Senders)
         /\ Len(SubSeq(rx, first + 1, Len(rx))) <= QueueCap
<1>1. Len(rx) \in Nat /\ first \in 1..Len(rx)
  OBVIOUS
<1>2. \A i \in (first + 1)..Len(rx) : rx[i] \in Senders
  BY <1>1
<1>3. /\ SubSeq(rx, first + 1, Len(rx)) \in Seq(Senders)
      /\ Len(SubSeq(rx, first + 1, Len(rx))) =
           IF first + 1 <= Len(rx) THEN Len(rx) - (first + 1) + 1 ELSE 0
  BY <1>1, <1>2, SMTT(30)
<1> QED
  BY <1>1, <1>3, QueueCapAssumption

(* A step of one thread that leaves the configuration alone: the thread    *)
(* goes somewhere, the queues change.                                      *)
Passes(t, at) ==
  /\ Goto(t, at)
  /\ UNCHANGED <<connected, nonblocking, lo_nonblocking>>
  /\ rx' \in Seq(Senders) /\ Len(rx') <= QueueCap
  /\ lorx' \in 0..QueueCap /\ tx' \in 0..QueueCap

(* The receive loop ends or waits; it waits only on a blocking socket, and *)
(* with the mutex only if lo is blocking and the socket not connected.     *)
LEMMA LoopReceives ==
  ASSUME UdpTypeOK, NEW t \in Threads, NEW recv \in BOOLEAN, RecvLoop(t, recv),
         UNCHANGED <<connected, nonblocking, lo_nonblocking, tx>>
  PROVE  \E at \in Calls :
           /\ Passes(t, at) /\ at.at \in {"idle", "spin", "wait", "held"}
           /\ at.at = "wait" => ~nonblocking
           /\ at.at = "held" => connected = NotConnected /\ ~lo_nonblocking
<1> DEFINE Fit == {i \in DOMAIN rx : Matches(rx[i])}
<1> USE QueueCapAssumption, CallPlaces DEF UdpTypeOK, Passes, Idle
<1>1. CASE rx # <<>> /\ ~recv /\ Goto(t, IF Matches(Head(rx)) THEN Idle ELSE [at |-> "spin"])
           /\ UNCHANGED <<rx, lorx>>
  BY <1>1
<1>2. CASE /\ \E first \in Fit : rx' = SubSeq(rx, first + 1, Len(rx))
           /\ Goto(t, Idle) /\ UNCHANGED lorx
  BY <1>2, QueueDropped, ZenonT(30)
<1>3. CASE rx' = <<>> /\ UNCHANGED lorx /\ WouldBlockOrWait(t, recv)
  BY <1>3, Emptied DEF WouldBlockOrWait
<1>4. CASE rx' = <<>> /\ TakeLo(recv) /\ Goto(t, Idle)
  BY <1>4, Emptied DEF TakeLo
<1>5. CASE /\ rx' = <<>> /\ UNCHANGED lorx /\ connected = NotConnected /\ ~lo_nonblocking
           /\ Goto(t, [at |-> "held", recv |-> recv])
  BY <1>5, Emptied
<1> QED
  BY <1>1, <1>2, <1>3, <1>4, <1>5 DEF RecvLoop

(* A call that configures nothing keeps the invariant if it waits on a     *)
(* blocking socket only, and never in the kernel with the mutex.           *)
LEMMA PassKeeps ==
  ASSUME UdpInv, NEW t \in Threads, NEW at \in Calls, Passes(t, at),
         \A u \in Threads : ~At(u, Configures),
         at.at \notin Configures \union {"held"}, at.at \in Waiting => ~nonblocking
  PROVE  UdpInv'
<1>1. UdpTypeOK'
  BY DEF UdpInv, UdpTypeOK, Passes, Goto
<1>2. /\ call'[t] = at
      /\ \A u \in Threads \ {t} : call'[u] = call[u]
      /\ \A u \in Threads : call'[u].at \notin Configures \union {"held"}
  BY DEF UdpInv, UdpTypeOK, Passes, Goto, At
<1>3. nonblocking => lo_nonblocking
  BY DEF UdpInv, At, Configures
<1>4. connected = NotConnected => lo_nonblocking
  BY DEF UdpInv, At, Configures
<1>5. nonblocking => \A u \in Threads : call'[u].at \notin Waiting
  BY <1>2 DEF UdpInv, At
<1> QED
  BY <1>1, <1>2, <1>3, <1>4, <1>5 DEF UdpInv, FlagInv, At, Passes, Configures

(* Steps of the thread that configures while all others are idle. *)
Configured(t, at) ==
  /\ Goto(t, at)
  /\ UNCHANGED <<rx, lorx, tx>>
  /\ connected' \in Addrs \union {NotConnected}
  /\ nonblocking' \in BOOLEAN /\ lo_nonblocking' \in BOOLEAN

(* Such a step keeps the invariant if it leaves the flag as the place the  *)
(* thread goes to requires.                                                *)
LEMMA ConfigKeeps ==
  ASSUME UdpInv, NEW t \in Threads, NEW at \in Calls, Configured(t, at),
         \A u \in Threads \ {t} : At(u, {"idle"}),
         at.at \in Configures \union {"idle"},
         at.at \in {"loflag", "lorestore"} => ~nonblocking',
         at.at = "store" => (at.nb => lo_nonblocking'),
         at.at # "store" => (nonblocking' => lo_nonblocking'),
         at.at \notin {"losend", "lorestore", "connect"} =>
           (connected' = NotConnected => lo_nonblocking')
  PROVE  UdpInv'
<1>1. UdpTypeOK'
  BY DEF UdpInv, UdpTypeOK, Configured, Goto
<1>2. /\ call'[t] = at
      /\ \A u \in Threads \ {t} : call'[u].at = "idle"
  BY DEF UdpInv, UdpTypeOK, Configured, Goto, At
<1>3. \A u \in Threads : call'[u].at \notin Waiting
  BY <1>2 DEF Waiting, Configures
<1> QED
  BY <1>1, <1>2, <1>3 DEF UdpInv, FlagInv, At, Configures, Waiting

(* A receive that goes on after waiting for the mutex, or starts.          *)
LEMMA LoopKeeps ==
  ASSUME UdpInv, NEW t \in Threads, NEW recv \in BOOLEAN, RecvLoop(t, recv),
         \A u \in Threads : ~At(u, Configures),
         UNCHANGED <<connected, nonblocking, lo_nonblocking, tx>>
  PROVE  UdpInv'
<1>1. UdpTypeOK /\ (connected = NotConnected => lo_nonblocking)
  BY DEF UdpInv, At, Configures
<1>2. PICK at \in Calls :
        /\ Passes(t, at) /\ at.at \in {"idle", "spin", "wait", "held"}
        /\ at.at = "wait" => ~nonblocking
        /\ at.at = "held" => connected = NotConnected /\ ~lo_nonblocking
  BY <1>1, LoopReceives
<1>3. at.at \notin Configures \union {"held"} /\ (at.at \in Waiting => ~nonblocking)
  BY <1>1, <1>2 DEF Configures, Waiting
<1> QED
  BY <1>2, <1>3, PassKeeps

(* Calls that receive or send. *)
LEMMA TransferKeeps ==
  ASSUME Exclusive, UdpInv, NEW t \in Threads,
         \/ \E recv \in BOOLEAN : RecvFrom(t, recv)
         \/ RecvWoken(t) \/ KernelReturns(t) \/ SendTo(t) \/ SendWoken(t) \/ WaitTimesOut(t)
  PROVE  UdpInv'
<1> DEFINE NoneConfigures == \A u \in Threads : ~At(u, Configures)
<1>1. MayStart(t) => NoneConfigures
  BY ZenonT(30) DEF MayStart
<1>2. ASSUME NEW ats, At(t, ats), ats \intersect (Configures \union {"idle"}) = {}
      PROVE  NoneConfigures
  BY <1>2 DEF UdpInv, At
<1>3. UdpTypeOK /\ call[t] \in Calls /\ ~At(t, {"held"})
  BY DEF UdpInv, UdpTypeOK
<1>4. NoneConfigures => (nonblocking => lo_nonblocking)
  BY DEF UdpInv, At, Configures
<1> HIDE DEF NoneConfigures
<1>5. ASSUME NEW recv \in BOOLEAN, RecvFrom(t, recv) PROVE UdpInv'
  <2>1. NoneConfigures
    BY <1>1, <1>5 DEF RecvFrom
  <2>2. CASE RecvLoop(t, recv)
    BY <1>5, <2>1, <2>2, LoopKeeps DEF RecvFrom, NoneConfigures
  <2>3. CASE UNCHANGED rx /\ TakeLo(recv) /\ Goto(t, Idle)
    <3>1. Passes(t, Idle)
      BY <1>3, <1>5, <2>3, QueueCapAssumption DEF Passes, TakeLo, UdpTypeOK, RecvFrom
    <3> QED
      BY <2>1, <3>1, PassKeeps, CallPlaces DEF NoneConfigures, Idle, Configures, Waiting
  <2>4. CASE /\ UNCHANGED <<rx, lorx>>
             /\ Goto(t, IF lo_nonblocking THEN Idle ELSE [at |-> "kernel", recv |-> recv])
    <3> DEFINE At0 == IF lo_nonblocking THEN Idle ELSE [at |-> "kernel", recv |-> recv]
    <3>1. Passes(t, At0)
      BY <1>3, <1>5, <2>4 DEF Passes, UdpTypeOK, RecvFrom
    <3>2. /\ At0 \in Calls /\ At0.at \notin Configures \union {"held"}
          /\ At0.at \in Waiting => ~nonblocking
      BY <1>4, <2>1, CallPlaces DEF Idle, Configures, Waiting
    <3> QED
      BY <2>1, <3>1, <3>2, PassKeeps DEF NoneConfigures
  <2> QED
    BY <1>5, <2>2, <2>3, <2>4 DEF RecvFrom
<1>6. CASE RecvWoken(t)
  <2>1. NoneConfigures
    BY <1>2, <1>6 DEF RecvWoken, Configures
  <2>2. call[t].recv \in BOOLEAN
    BY <1>3, <1>6, CallKinds, ZenonT(30) DEF RecvWoken, At
  <2> QED
    BY <1>6, <2>1, <2>2, LoopKeeps DEF RecvWoken, NoneConfigures
<1>7. CASE KernelReturns(t)
  <2>1. NoneConfigures
    BY <1>2, <1>7 DEF KernelReturns, Configures
  <2>2. call[t].recv \in BOOLEAN
    BY <1>3, <1>7, CallKinds, Zenon DEF KernelReturns, At
  <2>3. Passes(t, Idle)
    BY <1>3, <1>7, <2>2, QueueCapAssumption DEF Passes, TakeLo, UdpTypeOK, KernelReturns
  <2> QED
    BY <2>1, <2>3, PassKeeps, CallPlaces DEF NoneConfigures, Idle, Configures, Waiting
<1>8. CASE SendTo(t) \/ SendWoken(t)
  <2>1. NoneConfigures /\ SendLoop(t)
    BY <1>1, <1>2, <1>8 DEF SendTo, SendWoken, Configures
  <2>2. \E at \in {Idle, [at |-> "sendwait"]} :
          Passes(t, at) /\ (at.at = "sendwait" => ~nonblocking)
    BY <1>3, <2>1, QueueCapAssumption DEF SendLoop, Passes, UdpTypeOK, Idle
  <2> QED
    BY <2>1, <2>2, PassKeeps, CallPlaces DEF NoneConfigures, Idle, Configures, Waiting
<1>9. CASE WaitTimesOut(t)
  <2>1. NoneConfigures
    BY <1>2, <1>9 DEF WaitTimesOut, Configures
  <2>2. Passes(t, Idle)
    BY <1>3, <1>9 DEF WaitTimesOut, Passes, UdpTypeOK
  <2> QED
    BY <2>1, <2>2, PassKeeps, CallPlaces DEF NoneConfigures, Idle, Configures, Waiting
<1> QED
  BY <1>5, <1>6, <1>7, <1>8, <1>9

(* Calls that change the flag of lo, and their later steps. *)
LEMMA ConfigureKeeps ==
  ASSUME Exclusive, UdpInv, NEW t \in Threads,
         \/ SendLo(t) \/ SendLoFlag(t) \/ SendLoSend(t) \/ SendLoRestore(t)
         \/ \E nb \in BOOLEAN : SetNonblocking(t, nb)
         \/ \E addr \in ConnectAddrs : Connect(t, addr)
         \/ StoreNonblocking(t) \/ ConnectStore(t)
  PROVE  UdpInv'
<1> DEFINE OthersIdle == \A u \in Threads \ {t} : At(u, {"idle"})
<1>1. UdpTypeOK /\ call[t] \in Calls
  BY ZenonT(30) DEF UdpInv, UdpTypeOK
<1>2. MayConfigure(t) =>
        /\ OthersIdle /\ (nonblocking => lo_nonblocking)
        /\ connected = NotConnected => lo_nonblocking
  BY DEF MayConfigure, UdpInv, At
<1>3. At(t, Configures) => OthersIdle
  BY ZenonT(30) DEF UdpInv
<1>4. At(t, Configures \ {"store"}) => (nonblocking => lo_nonblocking)
  BY <1>3 DEF UdpInv, At, Configures
<1>5. At(t, {"store", "loflag"}) => (connected = NotConnected => lo_nonblocking)
  BY <1>3 DEF UdpInv, At, Configures
<1> HIDE DEF OthersIdle
<1>6. ASSUME NEW nb \in BOOLEAN, OthersIdle, SetFlag(t, nb) PROVE UdpInv'
  <2>1. Configured(t, [at |-> "store", nb |-> nb]) /\ [at |-> "store", nb |-> nb] \in Calls
    BY <1>1, <1>6, CallPlaces, Zenon DEF SetFlag, LoFlag, Configured, UdpTypeOK
  <2>2. (nb => lo_nonblocking') /\ (connected' = NotConnected => lo_nonblocking')
    BY <1>6 DEF SetFlag, LoFlag
  <2> QED
    BY <1>6, <2>1, <2>2, ConfigKeeps DEF OthersIdle, Configures
<1>7. CASE SendLo(t)
  <2> DEFINE at == [at |-> IF nonblocking THEN "losend" ELSE "loflag"]
  <2>1. Configured(t, at) /\ at \in Calls
    BY <1>1, <1>7, CallPlaces DEF SendLo, Configured, UdpTypeOK
  <2> QED
    BY <1>2, <1>7, <2>1, ConfigKeeps, ZenonT(30) DEF SendLo, OthersIdle, Configures
<1>8. CASE SendLoFlag(t)
  <2>1. Configured(t, [at |-> "losend"]) /\ [at |-> "losend"] \in Calls
    BY <1>1, <1>8, CallPlaces, ZenonT(30) DEF SendLoFlag, Configured, UdpTypeOK
  <2>2. FlagInv(t)
    BY ZenonT(30) DEF UdpInv
  <2>3. ~nonblocking' /\ OthersIdle
    BY <1>3, <1>8, <2>2 DEF SendLoFlag, FlagInv, At, Configures
  <2> QED
    BY <2>1, <2>3, ConfigKeeps DEF OthersIdle, Configures
<1>9. CASE SendLoSend(t)
  <2> DEFINE at == [at |-> IF nonblocking THEN "idle" ELSE "lorestore"]
  <2>1. at \in Calls /\ Configured(t, at)
    <3>1. at \in Calls
      BY CallPlaces DEF Idle
    <3>2. Configured(t, at)
      BY <1>1, <1>9, ZenonT(30) DEF SendLoSend, Configured, UdpTypeOK
    <3> QED
      BY <3>1, <3>2
  <2>2. OthersIdle /\ (nonblocking' => lo_nonblocking') /\ UNCHANGED nonblocking
    BY <1>3, <1>4, <1>9 DEF SendLoSend, At, Configures
  <2> QED
    BY <2>1, <2>2, ConfigKeeps DEF OthersIdle, Configures
<1>10. CASE SendLoRestore(t)
  BY <1>1, <1>3, <1>6, <1>10 DEF SendLoRestore, At, Configures, UdpTypeOK
<1>11. ASSUME NEW nb \in BOOLEAN, SetNonblocking(t, nb) PROVE UdpInv'
  BY <1>2, <1>6, <1>11 DEF SetNonblocking
<1>12. ASSUME NEW addr \in ConnectAddrs, Connect(t, addr) PROVE UdpInv'
  <2> DEFINE at == [at |-> "connect", addr |-> addr]
  <2>1. Configured(t, at) /\ at \in Calls
    BY <1>1, <1>12, CallPlaces, Zenon DEF Connect, Configured, UdpTypeOK
  <2>2. OthersIdle /\ (nonblocking' => lo_nonblocking')
    BY <1>2, <1>12, ZenonT(30) DEF Connect
  <2> QED
    BY <2>1, <2>2, ConfigKeeps DEF OthersIdle, Configures
<1>13. CASE StoreNonblocking(t)
  <2>1. call[t].nb \in BOOLEAN
    BY <1>1, <1>13, CallKinds, Zenon DEF StoreNonblocking, At
  <2>2. Configured(t, Idle)
    BY <1>1, <1>13, <2>1, ZenonT(30) DEF StoreNonblocking, Configured, UdpTypeOK
  <2>3. /\ OthersIdle /\ (nonblocking' => lo_nonblocking')
        /\ connected' = NotConnected => lo_nonblocking'
    <3>1. FlagInv(t)
      BY DEF UdpInv
    <3> QED
      BY <1>3, <1>5, <1>13, <3>1 DEF StoreNonblocking, FlagInv, At, Configures
  <2> QED
    BY <2>2, <2>3, ConfigKeeps, CallPlaces DEF OthersIdle, Idle
<1>14. CASE ConnectStore(t)
  <2>1. call[t].addr \in Addrs
    BY <1>1, <1>14, CallKinds, AddrAssumption, Zenon DEF ConnectStore, At
  <2>2. connected' \in Addrs
    BY <1>14, <2>1 DEF ConnectStore, Addrs
  <2>3. Configured(t, Idle)
    BY <1>1, <1>14, <2>2 DEF ConnectStore, Configured, UdpTypeOK
  <2>4. /\ OthersIdle /\ (nonblocking' => lo_nonblocking')
        /\ connected' # NotConnected
    BY <1>3, <1>4, <1>14, <2>2, AddrAssumption DEF ConnectStore, At, Configures
  <2> QED
    BY <2>3, <2>4, ConfigKeeps, CallPlaces, ZenonT(30) DEF OthersIdle, Idle
<1> QED
  BY <1>7, <1>8, <1>9, <1>10, <1>11, <1>12, <1>13, <1>14

(* bg() wakes up who waits, and moves nobody else. *)
LEMMA BgKeeps ==
  ASSUME UdpInv, NEW new \in Seq(Senders), Bg(new)
  PROVE  UdpInv'
<1>1. \A t \in Threads :
        /\ call'[t] \in Calls
        /\ At(t, {"wait", "sendwait"}) \/ call'[t] = call[t]
        /\ At(t, {"wait", "sendwait"}) => call'[t].at \in {"woken", "sendwoken"}
  BY CallKinds, CallPlaces DEF Bg, UdpInv, UdpTypeOK, At
<1>2. call' \in [Threads -> Calls]
  BY <1>1 DEF Bg
<1>3. rx' \in Seq(Senders) /\ Len(rx') <= QueueCap
  BY DEF Bg, UdpInv, UdpTypeOK
<1>4. UdpTypeOK'
  BY <1>2, <1>3, QueueCapAssumption DEF Bg, UdpInv, UdpTypeOK
<1>5. \A t \in Threads : call'[t] = call[t] \/ call'[t].at \in {"woken", "sendwoken"}
  BY <1>1
<1>6. ASSUME NEW t \in Threads, NEW u \in Threads, u # t, call'[t].at \in Configures
      PROVE  call'[u].at = "idle"
  BY <1>1, <1>6 DEF UdpInv, At, Configures
<1>7. \A t \in Threads : FlagInv(t)'
  BY <1>5 DEF UdpInv, FlagInv, At, Bg
<1>8. \A t \in Threads : At(t, {"store", "losend", "lorestore", "connect"}) =>
        call'[t] = call[t]
  BY <1>1 DEF At
<1>9. /\ (\A t \in Threads : ~At(t, {"store"})') => (nonblocking => lo_nonblocking)
      /\ (\A t \in Threads : ~At(t, {"losend", "lorestore", "connect"})') =>
           (connected = NotConnected => lo_nonblocking)
  BY <1>8 DEF UdpInv, At
<1>10. \A t \in Threads : call'[t].at # "held" /\ (nonblocking => call'[t].at \notin Waiting)
  BY <1>5 DEF UdpInv, At, Waiting
<1> QED
  BY <1>4, <1>6, <1>7, <1>9, <1>10 DEF UdpInv, At, Bg

(* A socket fresh from bind_udp. *)
LEMMA InitUdp == UdpInit => UdpInv
<1> SUFFICES ASSUME UdpInit PROVE UdpInv
  OBVIOUS
<1>1. rx \in Seq(Senders) /\ Len(rx) = 0
  BY Emptied DEF UdpInit
<1>2. call \in [Threads -> Calls]
  BY CallPlaces DEF UdpInit
<1>3. lorx \in 0..QueueCap /\ tx \in 0..QueueCap /\ Len(rx) <= QueueCap
  BY <1>1, QueueCapAssumption DEF UdpInit
<1>4. UdpTypeOK
  BY <1>1, <1>2, <1>3, ZenonT(30) DEF UdpInit, UdpTypeOK
<1> QED
  BY <1>4 DEF UdpInit, UdpInv, FlagInv, At, Idle, Configures, Waiting

(* Every step keeps the invariant, if no call overlaps one that configures.*)
LEMMA NextUdp ==
  ASSUME Exclusive, UdpInv, [UdpNext]_udpVars
  PROVE  UdpInv'
<1>1. ASSUME NEW new \in {<<>>} \union {<<s>> : s \in Senders}, Bg(new) PROVE UdpInv'
  <2>1. CASE new = <<>>
    <3>1. new \in Seq(Senders)
      BY <2>1
    <3> QED
      BY <1>1, <3>1, BgKeeps
  <2>2. ASSUME NEW s \in Senders, new = <<s>> PROVE UdpInv'
    <3>1. new \in Seq(Senders)
      BY <2>2
    <3> QED
      BY <1>1, <3>1, BgKeeps
  <2> QED
    BY <1>1, <2>1, <2>2
<1>2. CASE ArriveLo \/ UNCHANGED udpVars
  <2>1. UdpTypeOK' /\ UNCHANGED <<connected, nonblocking, lo_nonblocking, call>>
    BY <1>2, QueueCapAssumption DEF ArriveLo, udpVars, UdpInv, UdpTypeOK
  <2> QED
    BY <2>1 DEF UdpInv, FlagInv, At
<1>3. ASSUME NEW t \in Threads,
             \/ \E recv \in BOOLEAN : RecvFrom(t, recv)
             \/ SendTo(t) \/ SendLo(t)
             \/ \E nb \in BOOLEAN : SetNonblocking(t, nb)
             \/ \E addr \in ConnectAddrs : Connect(t, addr)
             \/ Continue(t) \/ WaitTimesOut(t)
      PROVE  UdpInv'
  <2>1. CASE \/ \E recv \in BOOLEAN : RecvFrom(t, recv)
             \/ RecvWoken(t) \/ KernelReturns(t) \/ SendTo(t) \/ SendWoken(t) \/ WaitTimesOut(t)
    BY <2>1, TransferKeeps
  <2>2. CASE \/ SendLo(t) \/ SendLoFlag(t) \/ SendLoSend(t) \/ SendLoRestore(t)
             \/ \E nb \in BOOLEAN : SetNonblocking(t, nb)
             \/ \E addr \in ConnectAddrs : Connect(t, addr)
             \/ StoreNonblocking(t) \/ ConnectStore(t)
    BY <2>2, ConfigureKeeps
  <2> QED
    BY <1>3, <2>1, <2>2 DEF Continue
<1> QED
  BY <1>1, <1>2, <1>3 DEF UdpNext

(* The invariant holds throughout, if no call overlaps one that configures.*)
LEMMA UdpAlways == Exclusive => (UdpSpec => []UdpInv)
<1> SUFFICES ASSUME Exclusive PROVE UdpSpec => []UdpInv
  OBVIOUS
<1>1. UdpInv /\ [UdpNext]_udpVars => UdpInv'
  BY NextUdp
<1> QED
  BY <1>1, InitUdp, PTL DEF UdpSpec

(* A receiver never waits in the kernel with the global mutex, as long as  *)
(* no call overlaps one that changes the flag of lo: by the time anyone    *)
(* receives on a socket that is not connected, the flag is set again.      *)
THEOREM MutexWaitCorrect == Exclusive => (UdpSpec => []NoKernelWaitWithMutex)
<1>1. UdpInv => NoKernelWaitWithMutex
  BY ZenonT(30) DEF UdpInv, NoKernelWaitWithMutex
<1> QED
  BY <1>1, UdpAlways, PTL

(* Under the same condition a call on a nonblocking socket never waits, on *)
(* the condition variable or in the kernel.                                *)
THEOREM NonblockingCorrect == Exclusive => (UdpSpec => []NonblockingNeverBlocks)
<1>1. UdpInv => NonblockingNeverBlocks
  BY DEF UdpInv, NonblockingNeverBlocks, Waiting
<1> QED
  BY <1>1, UdpAlways, PTL

------------------------------------------------------------------------------
(* One lookup: Resolver *)

(* The remainders that the choice of a server needs. *)
LEMMA SmallMod ==
  ASSUME NEW n \in Nat \ {0}, NEW a \in 0..n
  PROVE  a % n = IF a = n THEN 0 ELSE a
OBVIOUS

(* Two numbers less than a modulus apart have different remainders. *)
LEMMA ModInjective ==
  ASSUME NEW m \in Nat \ {0}, NEW a \in Nat, NEW b \in Nat, a % m = b % m,
         a - b < m, b - a < m
  PROVE  a = b
<1>1. ASSUME NEW x \in Nat
      PROVE  x \div m \in Nat /\ x = (x \div m) * m + (x % m)
  <2>1. x \div m \in Int /\ x \div m >= 0
    OBVIOUS
  <2>2. x = (x \div m) * m + (x % m)
    OBVIOUS
  <2> QED
    BY <2>1, <2>2
<1>2. ASSUME NEW q \in Nat, NEW r \in Nat, q < r PROVE q * m + m <= r * m
  <2>1. r - q \in Nat /\ 1 <= r - q
    BY <1>2
  <2>2. r * m = q * m + (r - q) * m
    OBVIOUS
  <2>3. m <= (r - q) * m
    BY <2>1
  <2> QED
    BY <2>2, <2>3
<1> DEFINE qa == a \div m
           qb == b \div m
<1>3. qa \in Nat /\ qb \in Nat /\ a = qa * m + (a % m) /\ b = qb * m + (b % m)
  BY <1>1
<1>4. a % m \in Nat
  OBVIOUS
<1> HIDE DEF qa, qb
<1>5. qa * m \in Nat /\ qb * m \in Nat
  BY <1>3
<1>6. CASE qa = qb
  BY <1>3, <1>6
<1>7. CASE qa < qb
  BY <1>2, <1>3, <1>4, <1>5, <1>7
<1>8. CASE qb < qa
  BY <1>2, <1>3, <1>4, <1>5, <1>8
<1> QED
  BY <1>3, <1>6, <1>7, <1>8

------------------------------------------------------------------------------
(* The inductive invariant *)

(* Two queries for every name that is left, one if the first was made. *)
Remaining == (IF second THEN 0 ELSE 1) + 2 * (Len(names) - 1)

(* Attempts made for the current query, and how many attempts ago rotate   *)
(* chose a server if the next one is this.                                 *)
Made == IF pc = "recv" THEN retries + 1 ELSE retries
Ago(s, next) == IF s < next THEN next - s ELSE next + Servers - s

(* The servers that those attempts must have reached. *)
Due(s) == IF rotate THEN Ago(s, next_ns) <= Made ELSE s < Made

LookupInv ==
  /\ TypeOK
  /\ names # <<>> /\ query + Remaining <= 2 * (Len(Search) + 1)
  /\ pc = "recv" => retries < Attempts /\ waited + timeout <= Timeout * (1 + ignored)
  /\ waited <= Timeout * (1 + ignored)
  /\ pc \in {"attempt", "recv"} => \A s \in ServerIds : Due(s) => <<query, s>> \in sent

(* A sequence stays one when more elements are allowed. *)
LEMMA WiderSeq ==
  ASSUME NEW S, NEW T, S \subseteq T, NEW s \in Seq(S)
  PROVE  s \in Seq(T)
<1>1. \A i \in 1..Len(s) : s[i] \in T
  OBVIOUS
<1> QED BY <1>1

(* There is a whole number of search domains, of servers and of messages. *)
LEMMA ConfigOK ==
  /\ Len(Search) \in Nat /\ Search \in Seq(Range(Search) \union {Bare})
  /\ Servers \in Nat \ {0} /\ Attempts \in Nat \ {0} /\ Timeout \in Nat \ {0}
  /\ MaxMessages \in Nat /\ IdMod \in Nat \ {0} /\ FirstId \in Nat
<1>1. Search \in Seq(Range(Search))
  BY ConfigAssumption
<1>2. Len(Search) \in Nat
  BY <1>1
<1>3. Search \in Seq(Range(Search) \union {Bare})
  BY <1>1, WiderSeq, ZenonT(30)
<1> QED
  BY <1>2, <1>3, ConfigAssumption, IdAssumption

(* rotate comes to every server once in as many attempts as there are. *)
LEMMA AgoBounds ==
  ASSUME NEW s \in ServerIds, NEW next \in ServerIds
  PROVE  Ago(s, next) \in 1..Servers
BY ConfigOK DEF Ago, ServerIds

(* With every attempt the other servers were chosen one attempt earlier. *)
LEMMA AgoNext ==
  ASSUME NEW s \in ServerIds, NEW next \in ServerIds
  PROVE  /\ (next + 1) % Servers \in ServerIds
         /\ Ago(s, (next + 1) % Servers) = IF s = next THEN 1 ELSE Ago(s, next) + 1
<1> DEFINE after == IF next + 1 = Servers THEN 0 ELSE next + 1
<1>1. Servers \in Nat \ {0} /\ next + 1 \in 0..Servers
  BY ConfigOK DEF ServerIds
<1>2. (next + 1) % Servers = after
  BY <1>1, SmallMod
<1>3. after \in ServerIds /\ Ago(s, after) = IF s = next THEN 1 ELSE Ago(s, next) + 1
  BY <1>1 DEF Ago, ServerIds
<1> QED
  BY <1>2, <1>3

(* The names to try: at most one more than there are search domains. *)
LEMMA NamesOK ==
  ASSUME NEW dots, NEW absolute
  PROVE  /\ QueryNames(dots, absolute) \in Seq(Range(Search) \union {Bare})
         /\ Len(QueryNames(dots, absolute)) \in 1..(Len(Search) + 1)
<1> DEFINE S == Range(Search) \union {Bare}
<1>1. Search \in Seq(S) /\ Bare \in S /\ Len(Search) \in Nat
  BY ConfigOK
<1> HIDE DEF S
<1>2. Append(Search, Bare) \in Seq(S) /\ Len(Append(Search, Bare)) = Len(Search) + 1
  BY <1>1
<1>3. <<Bare>> \in Seq(S) /\ Len(<<Bare>>) = 1
  BY <1>1
<1>4. Len(Append(Search, Bare)) \in 1..(Len(Search) + 1) /\ Len(<<Bare>>) \in 1..(Len(Search) + 1)
  BY <1>1, <1>2, <1>3
<1>5. QueryNames(dots, absolute) \in {Append(Search, Bare), <<Bare>>}
  BY Zenon DEF QueryNames
<1> QED
  BY <1>2, <1>3, <1>4, <1>5, ZenonT(30) DEF S

(* The lookup before its first attempt. *)
LEMMA InitLookup == Init => LookupInv
<1> SUFFICES ASSUME Init PROVE LookupInv
  OBVIOUS
<1>1. /\ names \in Seq(Range(Search) \union {Bare})
      /\ Len(names) \in 1..(Len(Search) + 1)
  BY NamesOK DEF Init
<1>2. names # <<>>
  BY <1>1
<1>3. query + Remaining <= 2 * (Len(Search) + 1) /\ query \in Queries
  BY <1>1, ConfigOK DEF Init, Remaining, Queries
<1>4. socket \in Seq(Messages)
  BY DEF Init
<1>5. /\ retries \in 0..Attempts /\ next_ns \in ServerIds /\ ns \in ServerIds
      /\ timeout \in 0..Timeout /\ waited \in Nat /\ ignored \in Nat /\ arrived \in 0..MaxMessages
  BY ConfigOK DEF Init, ServerIds
<1>6. TypeOK
  BY <1>1, <1>3, <1>4, <1>5, ZenonT(30) DEF Init, TypeOK
<1>7. waited <= Timeout * (1 + ignored)
  BY ConfigOK DEF Init
<1>8. \A s \in ServerIds : ~Due(s)
  BY ConfigOK DEF Init, Due, Made, Ago, ServerIds
<1> QED
  BY <1>2, <1>3, <1>6, <1>7, <1>8 DEF LookupInv, Init

(* What surrounds the end of a query: nothing is sent, the clock is right. *)
Surrounds ==
  /\ UNCHANGED <<rotate, use_inet6, sent>>
  /\ answered' \in Queries \union {0} /\ next_ns' \in ServerIds /\ ns' \in ServerIds
  /\ timeout' \in 0..Timeout /\ waited' \in Nat /\ ignored' \in Nat
  /\ waited' <= Timeout * (1 + ignored')
  /\ socket' \in Seq(Messages) /\ arrived' \in 0..MaxMessages

(* The next query, the next name, or the end: the numbers of the queries   *)
(* suffice, and the new query starts without attempts.                     *)
LEMMA QueryEndsKeeps ==
  ASSUME LookupInv, NEW got \in BOOLEAN, QueryEnds(got), Surrounds
  PROVE  LookupInv'
<1> DEFINE S == Range(Search) \union {Bare}
<1> HIDE DEF S
<1>1. /\ names \in Seq(S) /\ names # <<>> /\ second \in BOOLEAN /\ found \in BOOLEAN
      /\ query \in Queries
  BY DEF LookupInv, TypeOK, S
<1>2. Len(names) \in Nat \ {0} /\ Tail(names) \in Seq(S) /\ Len(Tail(names)) = Len(names) - 1
  BY <1>1
<1>3. pc' \in {"attempt", "ok", "failed"} /\ retries' = 0
  BY DEF QueryEnds
<1>4. /\ names' \in Seq(S) /\ names' # <<>>
      /\ query' \in Queries /\ query' + Remaining' <= 2 * (Len(Search) + 1)
  <2>1. query + Remaining <= 2 * (Len(Search) + 1) /\ Len(Search) \in Nat
    BY ConfigOK DEF LookupInv
  <2>2. CASE second' = TRUE /\ query' = query + 1 /\ ~second /\ UNCHANGED names
    BY <1>1, <1>2, <2>1, <2>2 DEF Remaining, Queries
  <2>3. CASE UNCHANGED <<names, second, query>>
    BY <1>1, <2>1, <2>3 DEF Remaining
  <2>4. CASE Len(names) # 1 /\ second /\ names' = Tail(names) /\ second' = FALSE /\ query' = query + 1
    <3>1. names' # <<>> /\ Len(names') = Len(names) - 1 /\ names' \in Seq(S)
      BY <1>2, <2>4
    <3> QED
      BY <1>1, <1>2, <2>1, <2>4, <3>1 DEF Remaining, Queries
  <2>5. CASE Len(names) # 1 /\ ~second /\ names' = Tail(names) /\ second' = FALSE /\ query' = query + 1
    <3>1. names' # <<>> /\ Len(names') = Len(names) - 1 /\ names' \in Seq(S)
      BY <1>2, <2>5
    <3> QED
      BY <1>1, <1>2, <2>1, <2>5, <3>1 DEF Remaining, Queries
  <2> QED
    BY <2>2, <2>3, <2>4, <2>5, ZenonT(30) DEF QueryEnds
<1>5. second' \in BOOLEAN /\ found' \in BOOLEAN
  BY <1>1, ZenonT(30) DEF QueryEnds
<1>6. retries' \in 0..Attempts
  BY <1>3, ConfigOK
<1>7. TypeOK'
  BY <1>3, <1>4, <1>5, <1>6, ZenonT(30) DEF LookupInv, TypeOK, Surrounds, S
<1>8. ASSUME NEW s \in ServerIds PROVE ~Due(s)'
  <2>1. Made' = 0
    BY <1>3 DEF Made
  <2>2. Ago(s, next_ns') \in 1..Servers /\ s \in 0..(Servers - 1) /\ Servers \in Nat
    BY AgoBounds, ConfigOK, ZenonT(30) DEF Surrounds, ServerIds
  <2> QED
    BY <2>1, <2>2 DEF Due
<1> QED
  BY <1>3, <1>4, <1>7, <1>8 DEF LookupInv, Surrounds

(* The server of the next attempt is one, and it is the only one to ask    *)
(* that the attempts so far have not asked.                                *)
LEMMA ServerChosen ==
  ASSUME LookupInv, pc = "attempt", NextServer, pc' = "recv", UNCHANGED <<rotate, retries>>
  PROVE  /\ ns' \in ServerIds /\ next_ns' \in ServerIds
         /\ \A s \in ServerIds : Due(s)' => Due(s) \/ s = ns'
<1>1. /\ next_ns \in ServerIds /\ retries \in Nat /\ Servers \in Nat \ {0}
      /\ Made = retries /\ Made' = retries + 1
  BY ConfigOK DEF LookupInv, TypeOK, Made
<1>2. CASE rotate
  <2>1. ns' = next_ns /\ next_ns' = (next_ns + 1) % Servers
    BY <1>2 DEF NextServer, NextNameserver
  <2>2. next_ns' \in ServerIds
    BY <1>1, <2>1, AgoNext
  <2>3. ASSUME NEW s \in ServerIds, Due(s)', s # ns' PROVE Due(s)
    <3>1. Ago(s, next_ns') = Ago(s, next_ns) + 1 /\ Ago(s, next_ns) \in Nat
      BY <1>1, <2>1, <2>3, AgoNext, AgoBounds, ConfigOK
    <3>2. Ago(s, next_ns') <= retries + 1
      BY <1>1, <1>2, <2>3 DEF Due
    <3> QED
      BY <1>1, <1>2, <3>1, <3>2 DEF Due
  <2> QED
    BY <1>1, <2>1, <2>2, <2>3
<1>3. CASE ~rotate
  <2>1. ns' = retries % Servers /\ UNCHANGED next_ns
    BY <1>3 DEF NextServer
  <2>2. ns' \in ServerIds /\ (retries < Servers => ns' = retries)
    BY <1>1, <2>1, SmallMod DEF ServerIds
  <2>3. ASSUME NEW s \in ServerIds, Due(s)', s # ns' PROVE Due(s)
    <3>1. s < retries + 1 /\ s \in 0..(Servers - 1)
      BY <1>1, <1>3, <2>3 DEF Due, ServerIds
    <3>2. s < retries
      BY <1>1, <2>2, <2>3, <3>1
    <3> QED
      BY <1>1, <1>3, <3>2 DEF Due
  <2> QED
    BY <1>1, <2>1, <2>2, <2>3
<1> QED
  BY <1>2, <1>3

(* An attempt is sent, or the query ends. *)
LEMMA AttemptKeeps ==
  ASSUME LookupInv, Attempt
  PROVE  LookupInv'
<1>1. timeout' = Timeout /\ waited' = 0 /\ ignored' = 0 /\ retries < Attempts /\ NextServer
      /\ pc = "attempt" /\ UNCHANGED <<rotate, use_inet6, socket, arrived>>
  BY DEF Attempt, config
<1>2. /\ timeout' \in 0..Timeout /\ waited' \in Nat /\ ignored' \in Nat
      /\ waited' + timeout' <= Timeout * (1 + ignored') /\ waited' <= Timeout * (1 + ignored')
  BY <1>1, ConfigOK
<1>3. CASE /\ sent' = sent \union {<<query, ns'>>} /\ pc' = "recv"
           /\ UNCHANGED <<lookup, retries>>
  <2>1. /\ ns' \in ServerIds /\ next_ns' \in ServerIds
        /\ \A s \in ServerIds : Due(s)' => Due(s) \/ s = ns'
    BY <1>1, <1>3, ServerChosen
  <2>2. sent' \subseteq Queries \X ServerIds
    BY <1>3, <2>1 DEF LookupInv, TypeOK
  <2>3. UNCHANGED <<names, second, found, query, answered, retries>>
    BY <1>3 DEF lookup
  <2>4. TypeOK'
    BY <1>1, <1>2, <1>3, <2>1, <2>2, <2>3, ZenonT(30) DEF LookupInv, TypeOK
  <2>5. \A s \in ServerIds : Due(s)' => <<query, s>> \in sent'
    BY <1>1, <1>3, <2>1, ZenonT(30) DEF LookupInv
  <2> QED
    BY <1>1, <1>2, <1>3, <2>3, <2>4, <2>5 DEF LookupInv, Remaining
<1>4. CASE QueryEnds(FALSE) /\ UNCHANGED <<sent, answered>>
  <2>1. ns' \in ServerIds /\ next_ns' \in ServerIds
    <3>1. next_ns \in ServerIds /\ retries \in Nat /\ Servers \in Nat \ {0}
      BY ConfigOK DEF LookupInv, TypeOK
    <3> QED
      BY <1>1, <3>1, AgoNext DEF NextServer, NextNameserver, ServerIds
  <2>2. Surrounds
    BY <1>1, <1>2, <1>4, <2>1, ZenonT(30) DEF Surrounds, LookupInv, TypeOK
  <2> QED
    BY <1>4, <2>2, QueryEndsKeeps, ZenonT(30)
<1> QED
  BY <1>3, <1>4, ZenonT(30) DEF Attempt

(* A query that ends without an answer: out of attempts, or a timeout of 0.*)
LEMMA GivenUpKeeps ==
  ASSUME LookupInv, OutOfAttempts \/ ZeroTimeout
  PROVE  LookupInv'
<1>1. /\ QueryEnds(FALSE)
      /\ UNCHANGED <<rotate, use_inet6, answered, next_ns, ns, timeout, sent, socket, arrived,
                     waited, ignored>>
  BY Zenon DEF OutOfAttempts, ZeroTimeout, config, network
<1>2. Surrounds
  BY <1>1 DEF Surrounds, LookupInv, TypeOK
<1> QED
  BY <1>1, <1>2, QueryEndsKeeps, ZenonT(30)

(* recv_from times out. *)
LEMMA TimeoutKeeps ==
  ASSUME LookupInv, RecvTimeout
  PROVE  LookupInv'
<1>1. /\ pc = "recv" /\ pc' = "attempt" /\ retries' = retries + 1 /\ waited' = waited + timeout
      /\ UNCHANGED <<rotate, use_inet6, names, second, found, query, answered, next_ns, ns,
                     timeout, sent, socket, arrived, ignored>>
  BY DEF RecvTimeout, config, lookup, network
<1>2. /\ retries \in 0..Attempts /\ retries < Attempts /\ waited \in Nat /\ timeout \in 0..Timeout
      /\ Attempts \in Nat /\ Timeout \in Nat
  BY <1>1, ConfigOK DEF LookupInv, TypeOK
<1>3. retries' \in 0..Attempts /\ waited' \in Nat
  BY <1>1, <1>2
<1>4. TypeOK'
  BY <1>1, <1>3, ZenonT(30) DEF LookupInv, TypeOK
<1>5. \A s \in ServerIds : Due(s)' <=> Due(s)
  BY <1>1 DEF Due, Made
<1> QED
  BY <1>1, <1>4, <1>5 DEF LookupInv, Remaining

(* The clock of an attempt: what was waited and what is left of the        *)
(* timeout are bounded before and after a message.                         *)
LEMMA ClockStep ==
  ASSUME NEW n \in Nat, NEW w \in Nat, NEW t \in 0..Timeout, NEW p \in 0..t,
         w + t <= Timeout * (1 + n)
  PROVE  /\ w + p \in Nat /\ w + p <= Timeout * (1 + n)
         /\ t - p \in 0..Timeout /\ w + p + (t - p) <= Timeout * (1 + n)
         /\ w + p <= Timeout * (1 + (n + 1)) /\ w + p + t <= Timeout * (1 + (n + 1))
<1>1. Timeout \in Nat
  BY ConfigOK
<1>2. PICK b \in Nat : b = Timeout * (1 + n)
  BY <1>1
<1>3. Timeout * (1 + (n + 1)) = b + Timeout
  BY <1>1, <1>2
<1>4. /\ w + p \in Nat /\ w + p <= b /\ t - p \in 0..Timeout /\ w + p + (t - p) <= b
      /\ w + p <= b + Timeout /\ w + p + t <= b + Timeout
  BY <1>1, <1>2
<1> QED
  BY <1>2, <1>3, <1>4, ZenonT(30)

(* One message is read: another sender's, an irrelevant one, or the answer.*)
LEMMA RecvKeeps ==
  ASSUME LookupInv, NEW passed \in 0..timeout, Recv(passed)
  PROVE  LookupInv'
<1> DEFINE msg == Head(socket)
<1>1. /\ pc = "recv" /\ waited' = waited + passed /\ socket' = Tail(socket)
      /\ UNCHANGED <<rotate, use_inet6, next_ns, ns, sent, arrived>>
  BY DEF Recv, config
<1>2. /\ waited \in Nat /\ ignored \in Nat /\ ignored + 1 \in Nat /\ timeout \in 0..Timeout
      /\ waited + timeout <= Timeout * (1 + ignored)
  BY <1>1 DEF LookupInv, TypeOK
<1>3. socket' \in Seq(Messages) /\ msg \in Messages
  BY DEF Recv, LookupInv, TypeOK
<1>4. /\ waited' \in Nat /\ waited' <= Timeout * (1 + ignored)
      /\ timeout - passed \in 0..Timeout
      /\ waited' + (timeout - passed) <= Timeout * (1 + ignored)
      /\ waited' <= Timeout * (1 + (ignored + 1))
      /\ waited' + timeout <= Timeout * (1 + (ignored + 1))
  BY <1>1, <1>2, ClockStep, ZenonT(30)
<1> HIDE DEF msg
<1>5. CASE /\ UNCHANGED <<names, second, found, query, answered, pc, retries>>
           /\ \/ timeout' = timeout - passed /\ UNCHANGED ignored
              \/ UNCHANGED timeout /\ ignored' = ignored + 1
  <2>1. /\ timeout' \in 0..Timeout /\ ignored' \in Nat
        /\ waited' + timeout' <= Timeout * (1 + ignored') /\ waited' <= Timeout * (1 + ignored')
    BY <1>2, <1>4, <1>5, ZenonT(30)
  <2>2. TypeOK'
    BY <1>1, <1>3, <1>4, <1>5, <2>1, ZenonT(30) DEF LookupInv, TypeOK
  <2>3. \A s \in ServerIds : Due(s)' <=> Due(s)
    BY <1>1, <1>5 DEF Due, Made
  <2> QED
    BY <1>1, <1>5, <2>1, <2>2, <2>3 DEF LookupInv, Remaining
<1>6. CASE /\ QueryEnds(msg.outcome = "address")
           /\ answered' = IF msg.outcome = "address" THEN msg.to ELSE answered
           /\ UNCHANGED <<timeout, ignored>>
  <2>1. answered' \in Queries \union {0}
    BY <1>3, <1>6, ZenonT(30) DEF Messages, LookupInv, TypeOK
  <2>2. Surrounds
    BY <1>1, <1>2, <1>3, <1>4, <1>6, <2>1, ZenonT(30) DEF Surrounds, LookupInv, TypeOK
  <2> QED
    BY <1>6, <2>2, QueryEndsKeeps, ZenonT(30)
<1> QED
  BY <1>5, <1>6, ZenonT(30) DEF Recv, Rest, lookup, msg

(* A message reaches the socket. *)
LEMMA ArriveKeeps ==
  ASSUME LookupInv, NEW msg \in Messages, Arrive(msg)
  PROVE  LookupInv'
<1>1. UNCHANGED <<rotate, use_inet6, names, second, found, query, answered, pc, retries,
                  next_ns, ns, timeout, sent, waited, ignored>>
  BY DEF Arrive, config, lookup
<1>2. socket' \in Seq(Messages)
  BY DEF Arrive, LookupInv, TypeOK
<1>3. arrived' \in 0..MaxMessages
  BY ConfigOK DEF Arrive, LookupInv, TypeOK
<1>4. TypeOK'
  BY <1>1, <1>2, <1>3, ZenonT(30) DEF LookupInv, TypeOK
<1>5. \A s \in ServerIds : Due(s)' <=> Due(s)
  BY <1>1 DEF Due, Made
<1> QED
  BY <1>1, <1>4, <1>5 DEF LookupInv, Remaining

(* Every step keeps the invariant; a message that arrives carries the      *)
(* number of a query that was made.                                        *)
LEMMA NextKeeps == LookupInv /\ [Next]_vars => LookupInv'
<1> SUFFICES ASSUME LookupInv, [Next]_vars PROVE LookupInv'
  OBVIOUS
<1>1. CASE Step
  BY <1>1, AttemptKeeps, GivenUpKeeps, TimeoutKeeps, RecvKeeps DEF Step
<1>2. ASSUME NEW to \in sent, NEW outcome \in Outcomes,
             Arrive([to |-> to[1], from |-> to[2], outcome |-> outcome])
      PROVE  LookupInv'
  <2>1. to[1] \in Queries /\ to[2] \in ServerIds
    BY DEF LookupInv, TypeOK
  <2>2. [to |-> to[1], from |-> to[2], outcome |-> outcome] \in Messages
    BY <2>1 DEF Messages
  <2> QED
    BY <1>2, <2>2, ArriveKeeps
<1>3. CASE Arrive([to |-> query, from |-> Other, outcome |-> "address"])
  <2>1. [to |-> query, from |-> Other, outcome |-> "address"] \in Messages
    BY DEF LookupInv, TypeOK, Messages, Outcomes
  <2> QED
    BY <1>3, <2>1, ArriveKeeps, ZenonT(30)
<1>4. CASE UNCHANGED vars
  <2>1. UNCHANGED <<rotate, use_inet6, names, second, found, query, answered, pc, retries,
                    next_ns, ns, timeout, sent, socket, arrived, waited, ignored>>
    BY <1>4 DEF vars
  <2>2. \A s \in ServerIds : Due(s)' <=> Due(s)
    BY <2>1 DEF Due, Made
  <2>3. TypeOK'
    BY <2>1, ZenonT(30) DEF LookupInv, TypeOK
  <2> QED
    BY <2>1, <2>2, <2>3 DEF LookupInv, Remaining
<1> QED
  BY <1>1, <1>2, <1>3, <1>4, ZenonT(30) DEF Next

------------------------------------------------------------------------------
(* The theorems *)

(* A query is given up for lack of an answer only after all servers were   *)
(* asked, if there are as many attempts as servers: without rotate because *)
(* retries counts up from 0, with rotate because next_ns goes round.       *)
THEOREM ServersCorrect == Spec => []AllServersAsked
<1>1. LookupInv => AllServersAsked
  <2> SUFFICES ASSUME LookupInv, pc = "attempt", retries = Attempts, Attempts >= Servers,
                      NEW s \in ServerIds
               PROVE  <<query, s>> \in sent
    BY ZenonT(30) DEF AllServersAsked
  <2>1. /\ Ago(s, next_ns) \in 1..Servers /\ s \in 0..(Servers - 1)
        /\ Servers \in Nat /\ Attempts \in Nat
    BY AgoBounds, ConfigOK DEF LookupInv, TypeOK, ServerIds
  <2>2. Due(s)
    BY <2>1 DEF Due, Made
  <2> QED
    BY <2>2 DEF LookupInv
<1> QED
  BY <1>1, InitLookup, NextKeeps, PTL DEF Spec

(* Messages of other senders do not prolong an attempt, and each ignored   *)
(* message of the server itself prolongs it by at most the timeout.        *)
THEOREM AttemptTimeCorrect == Spec => []AttemptTimeBounded
<1>1. LookupInv => AttemptTimeBounded
  BY DEF LookupInv, AttemptTimeBounded
<1> QED
  BY <1>1, InitLookup, NextKeeps, PTL DEF Spec

(* The queries of a lookup have different ids, whatever the first one is.  *)
LEMMA IdsDiffer ==
  ASSUME NEW p \in Queries, NEW q \in Queries, Id(p) = Id(q)
  PROVE  p = q
<1>1. IdMod \in Nat \ {0} /\ FirstId \in Nat /\ Len(Search) \in Nat
  BY ConfigOK
<1>2. /\ FirstId + p \in Nat /\ FirstId + q \in Nat
      /\ (FirstId + p) - (FirstId + q) < IdMod /\ (FirstId + q) - (FirstId + p) < IdMod
  BY <1>1, IdAssumption DEF Queries
<1>3. FirstId + p = FirstId + q
  BY <1>1, <1>2, ModInjective, ZenonT(30) DEF Id
<1> QED
  BY <1>1, <1>3 DEF Queries

(* An address is only ever taken from an answer to the current query: an   *)
(* answer to another query of the lookup has another id.                   *)
THEOREM AnswerCorrect == Spec => AnswerIsOurs
<1>1. ASSUME LookupInv, [Next]_vars
      PROVE  [answered' # answered => answered' = query]_vars
  <2> SUFFICES ASSUME Next, answered' # answered PROVE answered' = query
    BY <1>1
  <2>1. \E passed \in 0..timeout : Recv(passed)
    BY ZenonT(30) DEF Next, Step, Attempt, OutOfAttempts, RecvTimeout, ZeroTimeout, Arrive, lookup
  <2>2. /\ socket # <<>> /\ answered' = Head(socket).to
        /\ Head(socket).outcome = "address"
        /\ Head(socket).outcome = "garbage" \/ Relevant(Head(socket))
    BY <2>1, ZenonT(30) DEF Recv, lookup
  <2>3. Head(socket) \in Messages /\ query \in Queries
    BY <1>1, <2>2 DEF LookupInv, TypeOK
  <2>4. Id(Head(socket).to) = Id(query)
    BY <2>2 DEF Relevant
  <2> QED
    BY <2>2, <2>3, <2>4, IdsDiffer DEF Messages
<1> QED
  BY <1>1, InitLookup, NextKeeps, PTL DEF Spec, AnswerIsOurs
=============================================================================

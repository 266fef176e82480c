---------------------------- MODULE TimeoutLocks ----------------------------
(***************************************************************************)
(* The locks a blocking call holds while it waits (src/apimultithread.rs). *)
(* A call that has to wait evaluates match *self.read_timeout.read() { .. }*)
(* with the global mutex held, and the guard of the RwLock lives until the *)
(* end of the match, that is, during cond.wait. set_read_timeout takes the *)
(* write lock, without the mutex. The clones of a stream share the RwLock. *)
(* parking_lot's RwLock is task-fair: a waiting writer blocks new readers. *)
(***************************************************************************)
EXTENDS Naturals

CONSTANTS Readers,    \* threads that read, peek or recv_from on a clone
          Setters,    \* threads that call set_read_timeout
          Streams,
          StreamOf,   \* the stream each thread uses
          NoThread

Users == Readers \union Setters

ASSUME StreamOfAssumption == StreamOf \in [Users -> Streams]
ASSUME NoThreadAssumption == NoThread \notin Users /\ Readers \intersect Setters = {}

VARIABLES mutex,     \* who holds the global mutex: a reader or nobody
          where,        \* where each thread is
          guards,    \* readers that hold a guard of their stream's read_timeout
          data       \* streams that have data to read

lockVars == <<mutex, where, guards, data>>

(* The types of the variables. *)
LockTypeOK ==
  /\ mutex \in Readers \union {NoThread}
  /\ where \in [Users -> {"idle", "lock", "timeout", "wait", "woken", "write"}]
  /\ guards \subseteq Readers
  /\ data \subseteq Streams

LockInit ==
  /\ mutex = NoThread
  /\ where = [t \in Users |-> "idle"]
  /\ guards = {}
  /\ data \in SUBSET Streams

Move(t, at) == where' = [where EXCEPT ![t] = at]

(* The loop of the call, with the mutex held: return with the data, or go  *)
(* on to read the timeout.                                                 *)
Loop(r) ==
  \/ /\ StreamOf[r] \in data
     /\ data' = data \ {StreamOf[r]}
     /\ Move(r, "idle") /\ mutex' = NoThread
  \/ /\ StreamOf[r] \notin data
     /\ Move(r, "timeout") /\ mutex' = r
     /\ UNCHANGED data

Begin(r) ==
  /\ where[r] = "idle"
  /\ Move(r, "lock")
  /\ UNCHANGED <<mutex, guards, data>>

Lock(r) ==
  /\ where[r] = "lock" /\ mutex = NoThread
  /\ Loop(r)
  /\ UNCHANGED guards

WriterWaits(s) == \E w \in Setters : where[w] = "write" /\ StreamOf[w] = s

(* self.read_timeout.read(), then cond.wait, which releases the mutex. *)
ReadTimeout(r) ==
  /\ where[r] = "timeout" /\ ~WriterWaits(StreamOf[r])
  /\ guards' = guards \union {r}
  /\ Move(r, "wait") /\ mutex' = NoThread
  /\ UNCHANGED data

(* Variant: the guard lives until the call returns. *)
WakeKeepsGuard(r) ==
  /\ where[r] = "woken" /\ mutex = NoThread
  /\ Loop(r)
  /\ UNCHANGED guards

(* cond.wait returns with the mutex, the match ends and drops the guard.   *)
Wake(r) ==
  /\ where[r] = "woken" /\ mutex = NoThread
  /\ guards' = guards \ {r}
  /\ Loop(r)

(* set_read_timeout *)
Set(w) ==
  /\ where[w] = "idle"
  /\ Move(w, "write")
  /\ UNCHANGED <<mutex, guards, data>>

Write(w) ==
  /\ where[w] = "write" /\ \A r \in guards : StreamOf[r] # StreamOf[w]
  /\ Move(w, "idle")
  /\ UNCHANGED <<mutex, guards, data>>

(* Variant: nobody is notified. *)
BgWakesNobody(arrived) ==
  /\ mutex = NoThread
  /\ data' = data \union arrived
  /\ UNCHANGED <<mutex, where, guards>>

(* The second critical section of bg(): data may have arrived. *)
BgWakes(arrived) ==
  /\ mutex = NoThread
  /\ data' = data \union arrived
  /\ where' = [t \in Users |-> IF where[t] = "wait" THEN "woken" ELSE where[t]]
  /\ UNCHANGED <<mutex, guards>>

LockStep(t) ==
  \/ t \in Readers /\ (Lock(t) \/ ReadTimeout(t) \/ Wake(t))
  \/ t \in Setters /\ Write(t)

LockNext ==
  \/ \E t \in Users : LockStep(t)
  \/ \E r \in Readers : Begin(r)
  \/ \E w \in Setters : Set(w)
  \/ \E arrived \in SUBSET Streams : BgWakes(arrived)

(* bg() loops (it polls, or events keep ending its poll()); the mutex is   *)
(* eventually fair; a thread that is not blocked runs.                     *)
LockFairness ==
  /\ SF_lockVars(\E arrived \in SUBSET Streams : BgWakes(arrived))
  /\ \A t \in Users : SF_lockVars(LockStep(t))

LockSpec == LockInit /\ [][LockNext]_lockVars /\ LockFairness

------------------------------------------------------------------------------
(* Properties *)

(* Everyone waiting on everyone: a thread that holds the mutex waits for a *)
(* writer, which waits for the guard of a thread, which waits for the      *)
(* mutex.                                                                  *)
(* The variables keep their types.                                         *)
NoLockCycle ==
  /\ LockTypeOK
  /\ \A r \in Readers :
       mutex = r /\ where[r] = "timeout" /\ WriterWaits(StreamOf[r]) =>
         \A g \in guards : StreamOf[g] # StreamOf[r]

(* set_read_timeout returns. *)
SetReturns == \A w \in Setters : where[w] = "write" ~> where[w] = "idle"
==============================================================================

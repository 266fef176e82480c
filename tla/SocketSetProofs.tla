-------------------------- MODULE SocketSetProofs ---------------------------
(***************************************************************************)
(* The reference counts are right, no object holds a dangling handle, and  *)
(* listeners keep their backlog for themselves, for any number of objects, *)
(* sockets and any backlog.                                                *)
(***************************************************************************)
EXTENDS SocketSet, FiniteSetTheorems, TLAPS

SlotKinds == {"free", "listen", "tcp", "closed", "udp"}

Inv == TypeOK /\ OwnershipInv

(* The number of objects that hold a handle is a natural number, and not   *)
(* zero for a handle that an object holds.                                 *)
LEMMA OwnersCount ==
  ASSUME NEW h \in Handles
  PROVE  /\ IsFiniteSet(Owners(h))
         /\ Cardinality(Owners(h)) \in Nat
         /\ \A o \in Objs : h \in obj[o].hs => Cardinality(Owners(h)) > 0
<1>1. Owners(h) \in SUBSET Objs
  BY DEF Owners
<1>2. IsFiniteSet(Owners(h))
  BY <1>1, FS_Subset, ObjsAssumption
<1>3. Cardinality(Owners(h)) \in Nat
  BY <1>2, FS_CardinalityType
<1>4. \A o \in Objs : h \in obj[o].hs => Owners(h) # {}
  BY DEF Owners
<1>5. Owners(h) # {} => Cardinality(Owners(h)) # 0
  BY <1>2, FS_EmptySet
<1> QED BY <1>2, <1>3, <1>4, <1>5

(* What Become does to the number of owners of a handle. *)
LEMMA BecomeCount ==
  ASSUME TypeOK, NEW o \in Objs, NEW kind, NEW hs \in SUBSET Handles,
         Become(o, kind, hs), NEW h \in Handles
  PROVE  Cardinality(Owners(h))' = Cardinality(Owners(h))
                                     + (IF h \in hs THEN 1 ELSE 0)
                                     - (IF h \in obj[o].hs THEN 1 ELSE 0)
<1>1. \A p \in Objs : obj'[p].hs = IF p = o THEN hs ELSE obj[p].hs
  BY DEF Become, TypeOK
<1>2. o \in Owners(h) <=> h \in obj[o].hs
  BY DEF Owners
<1>3. IsFiniteSet(Owners(h)) /\ Cardinality(Owners(h)) \in Nat
  BY OwnersCount
<1>4. CASE h \in hs
  <2>1. Owners(h)' = Owners(h) \union {o}
    BY <1>1, <1>4 DEF Owners
  <2>2. Cardinality(Owners(h) \union {o})
          = IF o \in Owners(h) THEN Cardinality(Owners(h)) ELSE Cardinality(Owners(h)) + 1
    BY <1>3, FS_AddElement, Zenon
  <2>3. Cardinality(Owners(h))' = Cardinality(Owners(h) \union {o})
    BY <2>1
  <2> QED BY <1>2, <1>3, <1>4, <2>2, <2>3
<1>5. CASE h \notin hs
  <2>1. Owners(h)' = Owners(h) \ {o}
    BY <1>1, <1>5 DEF Owners
  <2>2. Cardinality(Owners(h) \ {o})
          = IF o \in Owners(h) THEN Cardinality(Owners(h)) - 1 ELSE Cardinality(Owners(h))
    BY <1>3, FS_RemoveElement, ZenonT(30)
  <2>3. Cardinality(Owners(h))' = Cardinality(Owners(h) \ {o})
    BY <2>1
  <2> QED BY <1>2, <1>3, <1>5, <2>2, <2>3
<1> QED BY <1>4, <1>5

(* A free slot is held by no object and has no lost references. *)
LEMMA FreeSlots ==
  ASSUME Inv, NEW h \in Handles, slot[h] = "free"
  PROVE  /\ Cardinality(Owners(h)) = 0 /\ leaked[h] = 0
         /\ \A o \in Objs : h \notin obj[o].hs
<1>1. \A o \in Objs : h \notin obj[o].hs
  BY DEF Inv, OwnershipInv, HandlesAreLive
<1>2. Cardinality(Owners(h)) + leaked[h] = 0
  BY DEF Inv, OwnershipInv, RefsCountOwners
<1>3. Cardinality(Owners(h)) \in Nat /\ leaked[h] \in Nat
  BY OwnersCount DEF Inv, TypeOK
<1> QED BY <1>1, <1>2, <1>3

(* Sockets are added in free slots, for an object that had no handles or   *)
(* keeps those it had.                                                     *)
LEMMA AddKeeps ==
  ASSUME Inv, NEW o \in Objs, NEW kind \in Kinds, NEW what \in {"listen", "tcp", "udp"},
         NEW new \in SUBSET Handles,
         \A h \in new : slot[h] = "free",
         Add(new, what), Become(o, kind, obj[o].hs \union new), UNCHANGED leaked,
         kind = "udp" <=> what = "udp",
         obj[o].hs # {} => obj[o].kind # "udp" /\ kind # "udp",
         kind # "none",
         kind \in {"connecting", "stream", "udp"} => \E h \in Handles : obj[o].hs \union new = {h}
  PROVE  Inv'
<1> USE DEF Inv, OwnershipInv
<1>1. TypeOK'
  BY DEF TypeOK, Add, Become
<1>2. RefsCountOwners'
  <2> SUFFICES ASSUME NEW h \in Handles
               PROVE  refs'[h] = Cardinality(Owners(h))' + leaked[h]
    BY DEF RefsCountOwners
  <2>1. /\ Cardinality(Owners(h)) \in Nat /\ leaked[h] \in Nat
        /\ refs[h] = Cardinality(Owners(h)) + leaked[h]
    BY OwnersCount DEF RefsCountOwners, TypeOK
  <2>2. obj[o].hs \union new \in SUBSET Handles
    BY DEF TypeOK
  <2>3. Cardinality(Owners(h))' = Cardinality(Owners(h))
                                    + (IF h \in obj[o].hs \union new THEN 1 ELSE 0)
                                    - (IF h \in obj[o].hs THEN 1 ELSE 0)
    BY <2>2, BecomeCount
  <2>4. refs'[h] = IF h \in new THEN 1 ELSE refs[h]
    BY DEF Add
  <2>5. CASE h \in new
    BY <2>1, <2>3, <2>4, <2>5, FreeSlots
  <2>6. CASE h \notin new
    BY <2>1, <2>3, <2>4, <2>6
  <2> QED BY <2>5, <2>6
<1>3. HandlesAreLive'
  <2>1. \A p \in Objs : p # o => obj'[p] = obj[p] /\ \A h \in new : h \notin obj[p].hs
    BY FreeSlots DEF Become, TypeOK
  <2>2. obj'[o].kind = kind /\ obj'[o].hs = obj[o].hs \union new
    BY DEF Become, TypeOK
  <2>3. \A h \in Handles : slot'[h] = IF h \in new THEN what ELSE slot[h]
    BY DEF Add
  <2>4. \A h \in obj[o].hs : h \notin new
    BY FreeSlots DEF TypeOK
  <2> QED BY <2>1, <2>2, <2>3, <2>4 DEF HandlesAreLive
<1>4. \A h \in Handles : slot'[h] = "free" => refs'[h] = 0
  BY DEF Add
<1>5. \A p \in Objs :
        /\ obj'[p].kind = "none" => obj'[p].hs = {}
        /\ obj'[p].kind \in {"connecting", "stream", "udp"} => \E h \in Handles : obj'[p].hs = {h}
  BY DEF Become, TypeOK
<1> QED BY <1>1, <1>2, <1>3, <1>4, <1>5

(* An object gives up its handles; sk differs from slot only in TCP        *)
(* sockets of that object that were closed.                                *)
LEMMA ReleaseKeeps ==
  ASSUME Inv, NEW o \in Objs, NEW sk \in [Handles -> SlotKinds],
         \A h \in Handles : \/ sk[h] = slot[h]
                            \/ h \in obj[o].hs /\ obj[o].kind # "udp" /\ sk[h] = "closed",
         ReleaseAndPrune(obj[o].hs, sk), Become(o, "none", {}), UNCHANGED leaked
  PROVE  Inv'
<1> USE DEF Inv, OwnershipInv
<1>1. RefsCountOwners' /\ refs' \in [Handles -> Nat]
  <2>1. ASSUME NEW h \in Handles
        PROVE  refs'[h] = Cardinality(Owners(h))' + leaked'[h] /\ refs'[h] \in Nat
    <3>1. /\ Cardinality(Owners(h)) \in Nat /\ leaked[h] \in Nat
          /\ refs[h] = Cardinality(Owners(h)) + leaked[h]
          /\ h \in obj[o].hs => Cardinality(Owners(h)) > 0
      BY OwnersCount DEF RefsCountOwners, TypeOK
    <3>2. Cardinality(Owners(h))' = Cardinality(Owners(h)) - (IF h \in obj[o].hs THEN 1 ELSE 0)
      BY <3>1, BecomeCount
    <3>3. refs'[h] = IF h \in obj[o].hs THEN refs[h] - 1 ELSE refs[h]
      BY DEF ReleaseAndPrune
    <3> QED BY <3>1, <3>2, <3>3
  <2>2. refs' = [h \in Handles |-> refs'[h]]
    BY DEF ReleaseAndPrune
  <2> QED BY <2>1, <2>2 DEF RefsCountOwners
<1>2. /\ slot' \in [Handles -> SlotKinds]
      /\ \A h \in Handles : refs'[h] # 0 => slot'[h] = sk[h]
      /\ \A h \in Handles : slot'[h] = "free" => refs'[h] = 0 \/ sk[h] = "free"
  BY DEF ReleaseAndPrune, SlotKinds
<1>3. TypeOK'
  BY <1>1, <1>2 DEF TypeOK, Become, Kinds, SlotKinds
<1>4. \A p \in Objs, h \in Handles : h \in obj'[p].hs => p # o /\ obj'[p] = obj[p] /\ refs'[h] # 0
  <2>1. \A p \in Objs : obj'[p].hs = IF p = o THEN {} ELSE obj[p].hs
    BY DEF Become, TypeOK
  <2>2. ASSUME NEW p \in Objs, NEW h \in Handles, h \in obj'[p].hs
        PROVE  refs'[h] # 0
    <3>1. Owners(h)' \in SUBSET Objs /\ p \in Owners(h)'
      BY <2>2 DEF Owners
    <3>2. IsFiniteSet(Owners(h)')
      BY <3>1, FS_Subset, ObjsAssumption
    <3>3. Cardinality(Owners(h)') \in Nat /\ Cardinality(Owners(h)') # 0
      BY <3>1, <3>2, FS_CardinalityType, FS_EmptySet
    <3> QED BY <1>1, <1>3, <3>3 DEF RefsCountOwners, TypeOK
  <2> QED BY <2>1, <2>2 DEF Become, TypeOK
<1>5. HandlesAreLive'
  <2> SUFFICES ASSUME NEW p \in Objs, NEW h \in Handles, h \in obj'[p].hs
               PROVE  IF obj'[p].kind = "udp" THEN slot'[h] = "udp"
                      ELSE slot'[h] \in {"listen", "tcp", "closed"}
    BY DEF HandlesAreLive
  <2>1. p # o /\ obj'[p] = obj[p] /\ slot'[h] = sk[h]
    BY <1>2, <1>4
  <2>2. IF obj[p].kind = "udp" THEN slot[h] = "udp" ELSE slot[h] \in {"listen", "tcp", "closed"}
    BY <2>1 DEF HandlesAreLive
  <2>3. h \in obj[o].hs /\ obj[o].kind # "udp" => slot[h] \in {"listen", "tcp", "closed"}
    BY DEF HandlesAreLive
  <2> QED BY <2>1, <2>2, <2>3
<1>6. \A h \in Handles : slot'[h] = "free" => refs'[h] = 0
  <2> SUFFICES ASSUME NEW h \in Handles, sk[h] = "free" PROVE refs'[h] = 0
    BY <1>2
  <2>1. slot[h] = "free"
    OBVIOUS
  <2>2. h \notin obj[o].hs /\ refs[h] = 0
    BY <2>1, FreeSlots
  <2> QED BY <2>2 DEF ReleaseAndPrune
<1>7. \A p \in Objs :
        /\ obj'[p].kind = "none" => obj'[p].hs = {}
        /\ obj'[p].kind \in {"connecting", "stream", "udp"} => \E h \in Handles : obj'[p].hs = {h}
  BY DEF Become, TypeOK
<1> QED BY <1>1, <1>3, <1>5, <1>6, <1>7

(* Initially there are no objects, and no slot has a reference. *)
LEMMA InitOwnership == Init => Inv
<1> SUFFICES ASSUME Init PROVE Inv
  OBVIOUS
<1>1. TypeOK
  BY DEF Init, TypeOK, None, Kinds
<1>2. \A h \in Handles : Owners(h) = {}
  BY DEF Init, Owners, None
<1>3. RefsCountOwners
  BY <1>2, FS_EmptySet DEF Init, RefsCountOwners
<1> QED BY <1>1, <1>3 DEF Init, Inv, OwnershipInv, HandlesAreLive, None

(* Every action keeps the reference counts and the handles right. *)
LEMMA NextOwnership ==
  ASSUME Inv, [Next]_vars
  PROVE  Inv'
<1> USE DEF Kinds
<1>1. ASSUME NEW o \in Objs, Bind(o)
      PROVE  Inv'
  <2>1. PICK hs \in SUBSET Handles : FirstFree(hs, SocketBacklog) /\ Add(hs, "listen")
                                     /\ Become(o, "listener", hs)
    BY <1>1 DEF Bind
  <2>2. obj[o].hs = {} /\ UNCHANGED leaked /\ \A h \in hs : slot[h] = "free"
    BY <1>1, <2>1 DEF Bind, Inv, OwnershipInv, FirstFree
  <2> QED BY <2>1, <2>2, AddKeeps
<1>2. ASSUME NEW o \in Objs, BindUdp(o) \/ ConnectStart(o)
      PROVE  Inv'
  <2>1. PICK hs \in SUBSET Handles :
          /\ FirstFree(hs, 1)
          /\ \/ Add(hs, "udp") /\ Become(o, "udp", hs)
             \/ Add(hs, "tcp") /\ Become(o, "connecting", hs)
    BY <1>2 DEF BindUdp, ConnectStart
  <2>2. obj[o].hs = {} /\ UNCHANGED leaked /\ \A h \in hs : slot[h] = "free"
    BY <1>2, <2>1 DEF BindUdp, ConnectStart, Inv, OwnershipInv, FirstFree
  <2>3. \E h \in Handles : hs = {h}
    <3>1. IsFiniteSet(Handles)
      BY FS_Interval, MaxSocketsAssumption DEF Handles
    <3>2. IsFiniteSet(hs) /\ Cardinality(hs) = 1
      BY <2>1, <3>1, FS_Subset DEF FirstFree
    <3>3. \E h : hs = {h}
      BY <3>2, FS_Singleton
    <3> QED BY <3>3
  <2>4. CASE Add(hs, "udp") /\ Become(o, "udp", hs)
    BY <2>2, <2>3, <2>4, AddKeeps
  <2>5. CASE Add(hs, "tcp") /\ Become(o, "connecting", hs)
    BY <2>2, <2>3, <2>5, AddKeeps
  <2> QED BY <2>1, <2>4, <2>5
<1>3. ASSUME NEW o \in Objs, AcceptRefill(o)
      PROVE  Inv'
  <2>1. PICK hs \in SUBSET Handles : FirstFree(hs, 1) /\ Add(hs, "listen")
                                     /\ Become(o, "listener", obj[o].hs \union hs)
    BY <1>3 DEF AcceptRefill
  <2>2. obj[o].kind = "accepting" /\ UNCHANGED leaked /\ \A h \in hs : slot[h] = "free"
    BY <1>3, <2>1 DEF AcceptRefill, FirstFree
  <2> QED BY <2>1, <2>2, AddKeeps
<1>4. ASSUME NEW o \in Objs, ConnectFail(o)
      PROVE  Inv'
  <2> DEFINE sk == [h \in Handles |-> IF h \in obj[o].hs THEN "closed" ELSE slot[h]]
  <2>1. sk \in [Handles -> SlotKinds]
    BY DEF Inv, TypeOK, SlotKinds
  <2>2. \A h \in Handles : \/ sk[h] = slot[h]
                           \/ h \in obj[o].hs /\ obj[o].kind # "udp" /\ sk[h] = "closed"
    BY <1>4 DEF ConnectFail
  <2>3. ReleaseAndPrune(obj[o].hs, sk) /\ Become(o, "none", {}) /\ UNCHANGED leaked
    BY <1>4 DEF ConnectFail
  <2> HIDE DEF sk
  <2> QED BY <2>1, <2>2, <2>3, ReleaseKeeps
<1>5. ASSUME NEW o \in Objs, Drop(o)
      PROVE  Inv'
  <2>1. slot \in [Handles -> SlotKinds]
    BY DEF Inv, TypeOK, SlotKinds
  <2> QED BY <1>5, <2>1, ReleaseKeeps DEF Drop
<1>6. ASSUME NEW o \in Objs, ConnectOk(o)
      PROVE  Inv'
  <2>1. \A p \in Objs : obj'[p].hs = obj[p].hs
    BY <1>6 DEF ConnectOk, Become, Inv, TypeOK
  <2>2. \A h \in Handles : Owners(h)' = Owners(h)
    BY <2>1 DEF Owners
  <2>3. TypeOK' /\ RefsCountOwners'
    BY <1>6, <2>2 DEF ConnectOk, Become, Inv, TypeOK, OwnershipInv, RefsCountOwners
  <2> QED BY <1>6, <2>3 DEF ConnectOk, Become, Inv, TypeOK, OwnershipInv, HandlesAreLive
<1>7. ASSUME NEW l \in Objs, NEW o \in Objs, NEW h \in Handles, AcceptTake(l, o, h)
      PROVE  Inv'
  <2>1. /\ o # l /\ obj[o].hs = {} /\ obj[l].kind = "listener" /\ h \in obj[l].hs
        /\ slot[h] = "tcp"
    BY <1>7 DEF AcceptTake, Inv, OwnershipInv
  <2>2. /\ obj'[l] = [kind |-> "accepting", hs |-> obj[l].hs \ {h}]
        /\ obj'[o] = [kind |-> "stream", hs |-> {h}]
        /\ \A p \in Objs \ {l, o} : obj'[p] = obj[p]
    BY <1>7, <2>1, ZenonT(30) DEF AcceptTake, Inv, TypeOK
  <2>3. TypeOK'
    BY <1>7 DEF AcceptTake, Inv, TypeOK
  <2>4. \A g \in Handles : Cardinality(Owners(g))' = Cardinality(Owners(g))
    <3>1. \A g \in Handles \ {h} : Owners(g)' = Owners(g)
      BY <2>1, <2>2 DEF Owners
    <3>2. Owners(h)' = (Owners(h) \ {l}) \union {o}
      BY <2>1, <2>2 DEF Owners
    <3>3. l \in Owners(h) /\ o \notin Owners(h) \ {l}
      BY <2>1 DEF Owners
    <3>4. IsFiniteSet(Owners(h)) /\ Cardinality(Owners(h)) \in Nat
      BY OwnersCount
    <3>5. IsFiniteSet(Owners(h) \ {l}) /\ Cardinality(Owners(h) \ {l}) = Cardinality(Owners(h)) - 1
      BY <3>3, <3>4, FS_RemoveElement
    <3>6. Cardinality((Owners(h) \ {l}) \union {o}) = Cardinality(Owners(h) \ {l}) + 1
      BY <3>3, <3>5, FS_AddElement
    <3>7. Cardinality(Owners(h))' = Cardinality((Owners(h) \ {l}) \union {o})
      BY <3>2
    <3>8. Cardinality(Owners(h))' = Cardinality(Owners(h))
      BY <3>4, <3>5, <3>6, <3>7
    <3> QED BY <3>1, <3>8
  <2>5. RefsCountOwners'
    BY <1>7, <2>4 DEF AcceptTake, Inv, OwnershipInv, RefsCountOwners
  <2>6. UNCHANGED <<slot, refs, leaked>>
    BY <1>7 DEF AcceptTake
  <2>7. HandlesAreLive'
    <3>1. HandlesAreLive
      BY DEF Inv, OwnershipInv
    <3> SUFFICES ASSUME NEW p \in Objs, NEW g \in Handles, g \in obj'[p].hs
                 PROVE  IF obj'[p].kind = "udp" THEN slot[g] = "udp"
                        ELSE slot[g] \in {"listen", "tcp", "closed"}
      BY <2>6 DEF HandlesAreLive
    <3>2. CASE p = l
      BY <2>1, <2>2, <3>1, <3>2 DEF HandlesAreLive
    <3>3. CASE p = o
      BY <2>1, <2>2, <3>3
    <3>4. CASE p \notin {l, o}
      BY <2>2, <3>1, <3>4 DEF HandlesAreLive
    <3> QED BY <3>2, <3>3, <3>4
  <2>8. \A p \in Objs :
          /\ obj'[p].kind = "none" => obj'[p].hs = {}
          /\ obj'[p].kind \in {"connecting", "stream", "udp"} => \E g \in Handles : obj'[p].hs = {g}
    <3> TAKE p \in Objs
    <3>1. CASE p = l
      BY <2>1, <2>2, <3>1
    <3>2. CASE p = o
      BY <2>2, <3>2
    <3>3. CASE p \notin {l, o}
      BY <2>2, <3>3 DEF Inv, OwnershipInv
    <3> QED BY <3>1, <3>2, <3>3
  <2>9. \A g \in Handles : slot'[g] = "free" => refs'[g] = 0
    BY <2>6 DEF Inv, OwnershipInv
  <2> QED BY <2>3, <2>5, <2>7, <2>8, <2>9 DEF Inv, OwnershipInv
<1>8. ASSUME NEW o \in Objs, NEW c \in Objs, TryClone(o, c)
      PROVE  Inv'
  <2>1. PICK h \in Handles : obj[o].hs = {h}
    BY <1>8 DEF TryClone, Inv, OwnershipInv
  <2>2. /\ obj[c].hs = {} /\ Retain(h) /\ Become(c, obj[o].kind, {h})
        /\ obj[o].kind \in {"stream", "udp"} /\ UNCHANGED <<slot, leaked>>
    BY <1>8, <2>1 DEF TryClone, Inv, OwnershipInv
  <2>3. TypeOK'
    BY <2>2 DEF Retain, Become, Inv, TypeOK
  <2>4. RefsCountOwners'
    <3> SUFFICES ASSUME NEW g \in Handles
                 PROVE  refs'[g] = Cardinality(Owners(g))' + leaked[g]
      BY <2>2 DEF RefsCountOwners
    <3>1. /\ Cardinality(Owners(g)) \in Nat /\ leaked[g] \in Nat
          /\ refs[g] = Cardinality(Owners(g)) + leaked[g]
      BY OwnersCount DEF Inv, TypeOK, OwnershipInv, RefsCountOwners
    <3>2. Cardinality(Owners(g))' = Cardinality(Owners(g)) + (IF g \in {h} THEN 1 ELSE 0)
      BY <2>2, <3>1, BecomeCount DEF Inv
    <3>3. refs'[g] = IF g = h THEN refs[g] + 1 ELSE refs[g]
      BY <2>2 DEF Retain, Inv, TypeOK
    <3> QED BY <3>1, <3>2, <3>3
  <2>5. /\ obj'[c] = [kind |-> obj[o].kind, hs |-> {h}]
        /\ \A p \in Objs \ {c} : obj'[p] = obj[p]
    BY <2>2 DEF Become, Inv, TypeOK
  <2>6. HandlesAreLive'
    BY <2>1, <2>2, <2>5 DEF Inv, OwnershipInv, HandlesAreLive
  <2>7. \A g \in Handles : slot'[g] = "free" => refs'[g] = 0
    <3>1. slot[h] # "free"
      BY <2>1, FreeSlots, ZenonT(30)
    <3> QED BY <2>2, <3>1 DEF Retain, Inv, TypeOK, OwnershipInv
  <2> QED BY <2>2, <2>3, <2>4, <2>5, <2>6, <2>7 DEF Inv, OwnershipInv
<1>9. ASSUME NEW o \in Objs, TryCloneFails(o)
      PROVE  Inv'
  <2>1. PICK h \in Handles : /\ h \in obj[o].hs /\ Retain(h)
                             /\ leaked' = [leaked EXCEPT ![h] = @ + 1]
    BY <1>9, ZenonT(30) DEF TryCloneFails, Inv, TypeOK
  <2>2. \A g \in Handles : Owners(g)' = Owners(g) /\ Cardinality(Owners(g)) \in Nat
    BY <1>9, OwnersCount, ZenonT(30) DEF TryCloneFails, Owners
  <2>3. TypeOK'
    BY <1>9, <2>1 DEF TryCloneFails, Retain, Inv, TypeOK
  <2>4. RefsCountOwners'
    BY <2>1, <2>2 DEF Retain, Inv, TypeOK, OwnershipInv, RefsCountOwners
  <2>5. slot[h] # "free"
    BY <2>1, FreeSlots
  <2>6. \A g \in Handles : slot'[g] = "free" => refs'[g] = 0
    BY <1>9, <2>1, <2>5 DEF TryCloneFails, Retain, Inv, TypeOK, OwnershipInv
  <2> QED BY <1>9, <2>3, <2>4, <2>6 DEF TryCloneFails, Inv, OwnershipInv, HandlesAreLive
<1>10. ASSUME UNCHANGED <<refs, leaked, obj>>,
              slot' \in [Handles -> SlotKinds],
              \A h \in Handles : \/ slot'[h] = slot[h]
                                 \/ /\ slot'[h] \in {"listen", "tcp", "closed"}
                                    /\ slot[h] \in {"listen", "tcp", "closed"}
       PROVE  Inv'
  <2>1. \A h \in Handles : Owners(h)' = Owners(h)
    BY <1>10 DEF Owners
  <2>2. TypeOK' /\ RefsCountOwners'
    BY <1>10, <2>1 DEF Inv, TypeOK, SlotKinds, OwnershipInv, RefsCountOwners
  <2>3. HandlesAreLive'
    BY <1>10 DEF Inv, OwnershipInv, HandlesAreLive
  <2> QED BY <1>10, <2>2, <2>3 DEF Inv, OwnershipInv
<1>11. ASSUME NEW o \in Objs, Shutdown(o)
       PROVE  Inv'
  <2>1. \A h \in Handles : h \in obj[o].hs => slot[h] \in {"listen", "tcp", "closed"}
    BY <1>11 DEF Shutdown, Inv, OwnershipInv, HandlesAreLive
  <2> QED BY <1>10, <1>11, <2>1 DEF Shutdown, Inv, TypeOK, SlotKinds
<1>12. ASSUME NEW h \in Handles, NEW what \in {"listen", "tcp", "closed"}, Poll(h, what)
       PROVE  Inv'
  BY <1>10, <1>12 DEF Poll, Inv, TypeOK, SlotKinds
<1>13. CASE UNCHANGED vars
  BY <1>10, <1>13 DEF vars, Inv, TypeOK, SlotKinds
<1> QED BY <1>1, <1>2, <1>3, <1>4, <1>5, <1>6, <1>7, <1>8, <1>9, <1>11, <1>12, <1>13, ZenonT(30) DEF Next

(* For every number of objects, sockets and listening sockets, a reference *)
(* count is the number of owners and of failed clones.                     *)
THEOREM RefsCorrect == Spec => [](TypeOK /\ RefsCountOwners)
<1>1. Inv /\ [Next]_vars => Inv'
  BY NextOwnership
<1>2. Inv => TypeOK /\ RefsCountOwners
  BY DEF Inv, OwnershipInv
<1> QED BY <1>1, <1>2, InitOwnership, PTL DEF Spec

(* Likewise, no object holds a dangling handle or one of another protocol. *)
THEOREM OwnershipCorrect == Spec => []HandlesAreLive
<1>1. Inv /\ [Next]_vars => Inv'
  BY NextOwnership
<1>2. Inv => HandlesAreLive
  BY DEF Inv, OwnershipInv
<1> QED BY <1>1, <1>2, InitOwnership, PTL DEF Spec

------------------------------------------------------------------------------
(* The backlog.  Two objects clash if one of them listens and they share a *)
(* handle.                                                                 *)
Listens(kind) == kind \in {"listener", "accepting"}
Clash(r, q) == (Listens(r.kind) \/ Listens(q.kind)) /\ r.hs \intersect q.hs # {}
SizeOK(r) ==
  /\ r.kind = "listener" => Cardinality(r.hs) = SocketBacklog
  /\ r.kind = "accepting" => Cardinality(r.hs) = SocketBacklog - 1

(* BacklogKept as a property of each object and of each two of them. *)
LEMMA BacklogBy ==
  BacklogKept <=> /\ \A o \in Objs : SizeOK(obj[o])
                  /\ \A o, p \in Objs : o # p => ~Clash(obj[o], obj[p])
BY DEF BacklogKept, SizeOK, Clash, Listens

(* One object changes, to one that clashes with no other. *)
LEMMA BacklogBecome ==
  ASSUME TypeOK, BacklogKept, NEW o \in Objs, NEW kind, NEW hs, Become(o, kind, hs),
         SizeOK([kind |-> kind, hs |-> hs]),
         \A p \in Objs \ {o} : ~Clash([kind |-> kind, hs |-> hs], obj[p])
  PROVE  BacklogKept'
<1> DEFINE new == [kind |-> kind, hs |-> hs]
<1>1. \A p \in Objs : obj'[p] = IF p = o THEN new ELSE obj[p]
  BY DEF Become, TypeOK
<1>2. SizeOK(new) /\ \A p \in Objs \ {o} : ~Clash(new, obj[p])
  OBVIOUS
<1> HIDE DEF new
<1>3. \A p \in Objs : SizeOK(obj'[p])
  BY <1>1, <1>2, BacklogBy
<1>4. \A p, q \in Objs : p # q => ~Clash(obj'[p], obj'[q])
  <2>1. \A r, q : Clash(r, q) <=> Clash(q, r)
    BY DEF Clash
  <2>2. \A p, q \in Objs : p # q => ~Clash(obj[p], obj[q])
    BY BacklogBy, ZenonT(30)
  <2> QED
    BY <1>1, <1>2, <2>1, <2>2
<1> QED
  BY <1>3, <1>4 DEF BacklogKept, SizeOK, Clash, Listens

(* Every action keeps the backlog of every listener. *)
LEMMA NextBacklog ==
  ASSUME Inv, BacklogKept, [Next]_vars
  PROVE  BacklogKept'
<1>0. TypeOK /\ \A o, p \in Objs : SizeOK(obj[o]) /\ (o # p => ~Clash(obj[o], obj[p]))
  BY BacklogBy DEF Inv
<1>1. ASSUME NEW o \in Objs, NEW new \in SUBSET Handles,
             \A h \in new : slot[h] = "free",
             NEW kind, Become(o, kind, obj[o].hs \union new),
             SizeOK([kind |-> kind, hs |-> obj[o].hs \union new]),
             obj[o].kind = "none" \/ Listens(obj[o].kind)
      PROVE  BacklogKept'
  <2>1. ASSUME NEW p \in Objs \ {o}
        PROVE  (obj[o].hs \union new) \intersect obj[p].hs = {}
               \/ ~(Listens(kind) \/ Listens(obj[p].kind))
    <3>1. new \intersect obj[p].hs = {}
      BY <1>1, FreeSlots
    <3>2. obj[o].hs # {} => Listens(obj[o].kind)
      BY <1>1 DEF Inv, OwnershipInv
    <3>3. obj[o].hs \intersect obj[p].hs = {} \/ obj[o].hs = {}
      BY <1>0, <3>2 DEF Clash
    <3> QED
      BY <3>1, <3>3
  <2> QED
    BY <1>0, <1>1, <2>1, BacklogBecome, ZenonT(30) DEF Clash
<1>2. ASSUME NEW o \in Objs, Bind(o)
      PROVE  BacklogKept'
  <2>1. PICK hs \in SUBSET Handles : FirstFree(hs, SocketBacklog) /\ Become(o, "listener", hs)
    BY <1>2 DEF Bind
  <2>2. obj[o].kind = "none" /\ obj[o].hs \union hs = hs /\ \A h \in hs : slot[h] = "free"
    BY <1>2, <2>1 DEF Bind, Inv, OwnershipInv, FirstFree
  <2>3. SizeOK([kind |-> "listener", hs |-> hs])
    BY <2>1 DEF SizeOK, FirstFree
  <2> QED
    BY <1>1, <2>1, <2>2, <2>3, ZenonT(30)
<1>3. ASSUME NEW o \in Objs, BindUdp(o) \/ ConnectStart(o)
      PROVE  BacklogKept'
  <2>1. PICK hs \in SUBSET Handles, kind \in {"udp", "connecting"} :
          FirstFree(hs, 1) /\ Become(o, kind, hs)
    BY <1>3 DEF BindUdp, ConnectStart
  <2>2. obj[o].kind = "none" /\ obj[o].hs \union hs = hs /\ \A h \in hs : slot[h] = "free"
    BY <1>3, <2>1 DEF BindUdp, ConnectStart, Inv, OwnershipInv, FirstFree
  <2>3. SizeOK([kind |-> kind, hs |-> hs])
    BY DEF SizeOK
  <2> QED
    BY <1>1, <2>1, <2>2, <2>3, ZenonT(30)
<1>4. ASSUME NEW o \in Objs, AcceptRefill(o)
      PROVE  BacklogKept'
  <2>1. PICK hs \in SUBSET Handles :
          FirstFree(hs, 1) /\ Become(o, "listener", obj[o].hs \union hs)
    BY <1>4 DEF AcceptRefill
  <2>2. obj[o].kind = "accepting" /\ \A h \in hs : slot[h] = "free"
    BY <1>4, <2>1 DEF AcceptRefill, FirstFree
  <2>3. Cardinality(obj[o].hs \union hs) = SocketBacklog
    <3>1. IsFiniteSet(Handles) /\ obj[o].hs \in SUBSET Handles
      BY <1>0, FS_Interval, MaxSocketsAssumption DEF Handles, TypeOK
    <3>2. IsFiniteSet(hs) /\ IsFiniteSet(obj[o].hs) /\ Cardinality(hs) = 1
      BY <2>1, <3>1, FS_Subset DEF FirstFree
    <3>3. PICK h : hs = {h}
      BY <3>2, FS_Singleton, ZenonT(30)
    <3>4. h \notin obj[o].hs
      BY <2>2, <3>3, FreeSlots
    <3>5. Cardinality(obj[o].hs \union {h}) = Cardinality(obj[o].hs) + 1
      BY <3>2, <3>4, FS_AddElement, ZenonT(30)
    <3>6. Cardinality(obj[o].hs) = SocketBacklog - 1
      BY <1>0, <2>2 DEF SizeOK
    <3> QED
      BY <3>3, <3>5, <3>6, SocketBacklogAssumption
  <2>4. SizeOK([kind |-> "listener", hs |-> obj[o].hs \union hs]) /\ Listens(obj[o].kind)
    BY <2>2, <2>3 DEF SizeOK, Listens
  <2> QED
    BY <1>1, <2>1, <2>2, <2>4, ZenonT(30)
<1>5. ASSUME NEW o \in Objs, ConnectFail(o) \/ Drop(o)
      PROVE  BacklogKept'
  <2>1. Become(o, "none", {})
    BY <1>5 DEF ConnectFail, Drop
  <2>2. SizeOK([kind |-> "none", hs |-> {}]) /\ \A p \in Objs : ~Clash([kind |-> "none", hs |-> {}], obj[p])
    BY DEF SizeOK, Clash
  <2> QED
    BY <1>0, <2>1, <2>2, BacklogBecome
<1>6. ASSUME NEW o \in Objs, NEW c \in Objs, (ConnectOk(o) /\ c = o) \/ TryClone(o, c)
      PROVE  BacklogKept'
  <2>1. PICK kind \in {"stream", "udp"} : Become(c, kind, obj[o].hs)
    BY <1>6 DEF ConnectOk, TryClone
  <2>2. SizeOK([kind |-> kind, hs |-> obj[o].hs])
    BY DEF SizeOK
  <2>3. \A p \in Objs \ {c} : ~Clash([kind |-> kind, hs |-> obj[o].hs], obj[p])
    <3>1. ~Listens(obj[o].kind)
      BY <1>6 DEF ConnectOk, TryClone, Listens
    <3> QED
      BY <1>0, <3>1 DEF Clash, Listens
  <2> QED
    BY <1>0, <2>1, <2>2, <2>3, BacklogBecome
<1>7. ASSUME NEW l \in Objs, NEW o \in Objs, NEW h \in Handles, AcceptTake(l, o, h)
      PROVE  BacklogKept'
  <2>1. /\ o # l /\ obj[o].hs = {} /\ obj[l].kind = "listener" /\ h \in obj[l].hs
    BY <1>7 DEF AcceptTake, Inv, OwnershipInv
  <2>2. /\ obj'[l] = [kind |-> "accepting", hs |-> obj[l].hs \ {h}]
        /\ obj'[o] = [kind |-> "stream", hs |-> {h}]
        /\ \A p \in Objs \ {l, o} : obj'[p] = obj[p]
    BY <1>7, <2>1, ZenonT(30) DEF AcceptTake, Inv, TypeOK
  <2>3. SizeOK(obj'[l]) /\ SizeOK(obj'[o])
    <3>0. IsFiniteSet(Handles) /\ obj[l].hs \in SUBSET Handles
      BY <1>0, FS_Interval, MaxSocketsAssumption DEF Handles, TypeOK
    <3>1. IsFiniteSet(obj[l].hs)
      BY <3>0, FS_Subset
    <3>2. Cardinality(obj[l].hs) = SocketBacklog
      BY <1>0, <2>1 DEF SizeOK
    <3>3. Cardinality(obj[l].hs \ {h}) = SocketBacklog - 1
      BY <2>1, <3>1, <3>2, FS_RemoveElement, ZenonT(30)
    <3> QED
      BY <2>2, <3>3 DEF SizeOK
  <2>4. \A p \in Objs \ {l, o} : obj[l].hs \intersect obj[p].hs = {}
    BY <1>0, <2>1 DEF Clash, Listens
  <2>5. ASSUME NEW p \in Objs, NEW q \in Objs, p # q
        PROVE  ~Clash(obj'[p], obj'[q])
    <3>1. CASE {p, q} = {l, o}
      BY <2>1, <2>2, <2>5, <3>1 DEF Clash
    <3>2. CASE {p, q} \intersect {l, o} = {}
      BY <1>0, <2>2, <2>5, <3>2, ZenonT(30)
    <3>3. CASE p \in {l, o} /\ q \notin {l, o}
      BY <2>1, <2>2, <2>4, <3>3 DEF Clash
    <3>4. CASE q \in {l, o} /\ p \notin {l, o}
      BY <2>1, <2>2, <2>4, <3>4 DEF Clash
    <3> QED
      BY <2>5, <3>1, <3>2, <3>3, <3>4
  <2>6. \A p \in Objs : SizeOK(obj'[p])
    BY <1>0, <2>2, <2>3
  <2> QED
    BY <2>5, <2>6 DEF BacklogKept, SizeOK, Clash, Listens
<1>8. CASE UNCHANGED obj
  BY <1>8 DEF BacklogKept
<1> QED
  BY <1>2, <1>3, <1>4, <1>5, <1>6, <1>7, <1>8
  DEF Next, vars, TryCloneFails, Shutdown, Poll

(* For every number of objects and sockets, and any backlog: a listener    *)
(* has SOCKET_BACKLOG handles, one less while accept replaces one, and     *)
(* shares none of them with another listener, a stream or a UDP socket.    *)
THEOREM BacklogCorrect == Spec => []BacklogKept
<1>1. Init => BacklogKept
  BY DEF Init, None, BacklogKept
<1>2. Inv /\ [Next]_vars => Inv'
  BY NextOwnership
<1>3. Inv /\ BacklogKept /\ [Next]_vars => BacklogKept'
  BY NextBacklog
<1> QED
  BY <1>1, <1>2, <1>3, InitOwnership, PTL DEF Spec
==============================================================================

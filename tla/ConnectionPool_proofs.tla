------------------------- MODULE ConnectionPool_proofs -------------------------
(***************************************************************************)
(* Slot accounting and exclusive use of connections, for any number of     *)
(* threads and any pool size.                                              *)
(***************************************************************************)
EXTENDS ConnectionPool, FiniteSetTheorems, SequenceTheorems, TLAPS

-----------------------------------------------------------------------------
(* How a move of one user changes the number of owners.                    *)

LEMMA OwnersFinite == IsFiniteSet(Owners) /\ Cardinality(Owners) \in Nat
BY PoolAssumption, FS_Subset, FS_CardinalityType DEF Owners

LEMMA OwnerJoins ==
    ASSUME pc \in [Users -> Labels], NEW u \in Users, NEW label \in OwnerLabels,
           pc[u] \notin OwnerLabels, Goto(u, label)
    PROVE  Cardinality(Owners') = Cardinality(Owners) + 1
<1>1. Owners' = Owners \cup {u} /\ u \notin Owners
  BY DEF Owners, Goto
<1>2. QED
  BY <1>1, OwnersFinite, FS_AddElement

LEMMA OwnerLeaves ==
    ASSUME pc \in [Users -> Labels], NEW u \in Users, NEW label \in Labels \ OwnerLabels,
           pc[u] \in OwnerLabels, Goto(u, label)
    PROVE  Cardinality(Owners') = Cardinality(Owners) - 1
<1>1. Owners' = Owners \ {u} /\ u \in Owners
  BY DEF Owners, Goto
<1>2. QED
  BY <1>1, OwnersFinite, FS_RemoveElement

LEMMA OwnersStay ==
    ASSUME pc \in [Users -> Labels], NEW u \in Users, NEW label \in Labels,
           pc[u] \in OwnerLabels <=> label \in OwnerLabels, Goto(u, label)
    PROVE  Owners' = Owners
BY DEF Owners, Goto

-----------------------------------------------------------------------------
(* The queue.                                                              *)

LEMMA PopQueue ==
    ASSUME pool \in Seq(Conns), pool # <<>>, pool' = Tail(pool)
    PROVE  /\ pool' \in Seq(Conns)
           /\ Len(pool') = Len(pool) - 1
           /\ Len(pool) \in Nat
           /\ Head(pool) \in InPool /\ Head(pool) \in Conns
           /\ InPool' \subseteq InPool
           /\ (\A j, k \in DOMAIN pool : pool[j] = pool[k] => j = k)
                => /\ \A j, k \in DOMAIN pool' : pool'[j] = pool'[k] => j = k
                   /\ Head(pool) \notin InPool'
<1>1. /\ pool' \in Seq(Conns) /\ Head(pool) \in Conns
      /\ Len(pool') = Len(pool) - 1
      /\ \A k \in 1 .. Len(pool') : pool'[k] = pool[k + 1]
  BY HeadTailProperties
<1>2. /\ Len(pool) \in Nat \ {0} /\ DOMAIN pool = 1 .. Len(pool)
      /\ DOMAIN pool' = 1 .. Len(pool')
      /\ Head(pool) = pool[1]
  BY <1>1, EmptySeq, LenProperties
<1>3. Head(pool) \in InPool
  BY <1>2 DEF InPool
<1>4. InPool' \subseteq InPool
  BY <1>1, <1>2 DEF InPool
<1>5. ASSUME \A j, k \in DOMAIN pool : pool[j] = pool[k] => j = k
      PROVE  /\ \A j, k \in DOMAIN pool' : pool'[j] = pool'[k] => j = k
             /\ Head(pool) \notin InPool'
  <2>1. \A j, k \in DOMAIN pool' : pool'[j] = pool'[k] => j = k
    <3>1. SUFFICES ASSUME NEW j \in 1 .. Len(pool'), NEW k \in 1 .. Len(pool'),
                          pool'[j] = pool'[k]
                   PROVE  j = k
      BY <1>2
    <3>2. pool[j + 1] = pool[k + 1] /\ j + 1 \in DOMAIN pool /\ k + 1 \in DOMAIN pool
      BY <1>1, <1>2, <3>1
    <3>3. j + 1 = k + 1
      BY <1>5, <3>2
    <3>4. QED
      BY <3>3
  <2>2. Head(pool) \notin InPool'
    <3>1. SUFFICES ASSUME NEW k \in 1 .. Len(pool'), pool[1] = pool'[k]
                   PROVE  FALSE
      BY <1>2 DEF InPool
    <3>2. pool[1] = pool[k + 1] /\ 1 \in DOMAIN pool /\ k + 1 \in DOMAIN pool
      BY <1>1, <1>2, <3>1
    <3>3. 1 = k + 1
      BY <1>5, <3>2
    <3>4. QED
      BY <3>3
  <2>3. QED
    BY <2>1, <2>2
<1>6. QED
  BY <1>1, <1>2, <1>3, <1>4, <1>5

LEMMA PushQueue ==
    ASSUME pool \in Seq(Conns), NEW x \in Conns, x \notin InPool,
           pool' = <<x>> \o pool,
           \A j, k \in DOMAIN pool : pool[j] = pool[k] => j = k
    PROVE  /\ pool' \in Seq(Conns)
           /\ Len(pool') = Len(pool) + 1
           /\ InPool' = InPool \cup {x}
           /\ \A j, k \in DOMAIN pool' : pool'[j] = pool'[k] => j = k
<1>1. <<x>> \in Seq(Conns) /\ Len(<<x>>) = 1
  OBVIOUS
<1>2. /\ pool' \in Seq(Conns) /\ Len(pool') = 1 + Len(pool)
      /\ \A k \in 1 .. 1 + Len(pool) :
            pool'[k] = IF k <= 1 THEN <<x>>[k] ELSE pool[k - 1]
  BY <1>1, ConcatProperties
<1>3. /\ Len(pool) \in Nat /\ DOMAIN pool = 1 .. Len(pool)
      /\ DOMAIN pool' = 1 .. Len(pool) + 1
  BY <1>2, LenProperties
<1>4. pool'[1] = x /\ \A k \in 2 .. Len(pool) + 1 : pool'[k] = pool[k - 1]
  BY <1>2, <1>3
<1>5. InPool' = InPool \cup {x}
  <2>1. ASSUME NEW y \in InPool' PROVE y \in InPool \cup {x}
    BY <1>3, <1>4, <2>1 DEF InPool
  <2>2. x \in InPool'
    BY <1>3, <1>4 DEF InPool
  <2>3. ASSUME NEW y \in InPool PROVE y \in InPool'
    <3>1. PICK k \in 1 .. Len(pool) : y = pool[k]
      BY <1>3 DEF InPool
    <3>2. k + 1 \in DOMAIN pool' /\ pool'[k + 1] = y
      BY <1>3, <1>4, <3>1
    <3>3. QED
      BY <3>2 DEF InPool
  <2>4. QED
    BY <2>1, <2>2, <2>3
<1>6. \A j, k \in DOMAIN pool' : pool'[j] = pool'[k] => j = k
  <2>1. \A k \in 2 .. Len(pool) + 1 : pool'[k] # x
    BY <1>3, <1>4 DEF InPool
  <2>2. ASSUME NEW j \in 2 .. Len(pool) + 1, NEW k \in 2 .. Len(pool) + 1, pool'[j] = pool'[k]
        PROVE  j = k
    <3>1. j - 1 \in DOMAIN pool /\ k - 1 \in DOMAIN pool
      BY <1>3
    <3>2. pool[j - 1] = pool[k - 1]
      BY <1>4, <2>2
    <3>3. j - 1 = k - 1
      BY <3>1, <3>2
    <3>4. QED
      BY <1>3, <3>3
  <2>3. QED
    BY <1>3, <1>4, <2>1, <2>2
<1>7. QED
  BY <1>2, <1>3, <1>5, <1>6

-----------------------------------------------------------------------------
(* The invariant.                                                          *)

PoolInv == PoolTypeOK /\ SlotAccounting /\ NeverOvershoots /\ ExclusiveUse

\* A user that moves without touching the queue, the counter or a connection,
\* and stays on the same side of owning a slot.
LEMMA MoveStep ==
    ASSUME PoolInv, NEW u \in Users, NEW label \in Labels, Goto(u, label),
           pc[u] \in OwnerLabels <=> label \in OwnerLabels,
           pc[u] \in {"ping", "held"} <=> label \in {"ping", "held"},
           UNCHANGED <<pool, created, conn, reaped, shutdown>>
    PROVE  PoolInv'
<1> USE DEF PoolInv
<1>1. pc \in [Users -> Labels] /\ Owners' = Owners
  BY OwnersStay DEF PoolTypeOK
<1>2. PoolTypeOK'
  BY DEF PoolTypeOK, Goto
<1>3. SlotAccounting' /\ NeverOvershoots'
  BY <1>1 DEF SlotAccounting, NeverOvershoots
<1>4. ExclusiveUse'
  BY DEF ExclusiveUse, InPool
<1>5. QED
  BY <1>2, <1>3, <1>4

LEMMA TakeStep ==
    ASSUME PoolInv, NEW u \in Users, pc[u] \in {"get", "wait"}, Take(u)
    PROVE  PoolInv'
<1> USE DEF PoolInv
<1>1. /\ pool # <<>> /\ pool' = Tail(pool)
      /\ conn' = [conn EXCEPT ![u] = Head(pool)]
      /\ Goto(u, "ping")
      /\ UNCHANGED <<created, reaped, shutdown>>
  BY DEF Take
<1>2. /\ pool \in Seq(Conns) /\ pc \in [Users -> Labels]
      /\ conn \in [Users -> Conns \cup {NoConn}]
      /\ created \in Int /\ reaped \in Nat
      /\ \A v \in Users : conn[v] # NoConn <=> pc[v] \in {"ping", "held"}
  BY DEF PoolTypeOK
<1>3. /\ pool' \in Seq(Conns) /\ Len(pool') = Len(pool) - 1 /\ Len(pool) \in Nat
      /\ Head(pool) \in InPool /\ Head(pool) \in Conns
      /\ InPool' \subseteq InPool
      /\ \A j, k \in DOMAIN pool' : pool'[j] = pool'[k] => j = k
      /\ Head(pool) \notin InPool'
  BY <1>1, <1>2, PopQueue DEF ExclusiveUse
<1>4. PoolTypeOK'
  BY <1>1, <1>2, <1>3, PoolAssumption DEF PoolTypeOK, Goto, Labels
<1>5. Cardinality(Owners') = Cardinality(Owners) + 1
  BY <1>1, <1>2, OwnerJoins DEF OwnerLabels
<1>6. SlotAccounting' /\ NeverOvershoots'
  BY <1>1, <1>2, <1>3, <1>5, OwnersFinite DEF SlotAccounting, NeverOvershoots
<1>7. ExclusiveUse'
  <2>1. \A v \in Users : conn[v] \notin InPool
    BY DEF ExclusiveUse
  <2>2. \A v \in Users : conn'[v] = IF v = u THEN Head(pool) ELSE conn[v]
    BY <1>1, <1>2
  <2>3. \A v \in Users : conn'[v] \notin InPool'
    BY <1>3, <2>1, <2>2
  <2>4. \A v, w \in Users : v # w /\ conn'[v] = conn'[w] => conn'[v] = NoConn
    BY <1>3, <2>1, <2>2 DEF ExclusiveUse
  <2>5. QED
    BY <1>3, <2>3, <2>4 DEF ExclusiveUse
<1>8. QED
  BY <1>4, <1>6, <1>7

LEMMA ReserveStep ==
    ASSUME PoolInv, NEW u \in Users, Reserve(u)
    PROVE  PoolInv'
<1>1. CASE created < PoolSize
  <2>1. /\ created' = created + 1 /\ Goto(u, "open") /\ pc[u] = "reserve"
        /\ UNCHANGED <<pool, conn, reaped, shutdown>>
    BY <1>1 DEF Reserve
  <2>2. /\ pc \in [Users -> Labels] /\ created \in Int /\ reaped \in Nat
        /\ Len(pool) \in Nat
    BY LenProperties DEF PoolInv, PoolTypeOK
  <2>3. Cardinality(Owners') = Cardinality(Owners) + 1
    BY <2>1, <2>2, OwnerJoins DEF OwnerLabels
  <2>4. PoolTypeOK'
    BY <2>1, <2>2 DEF PoolInv, PoolTypeOK, Goto, Labels
  <2>5. SlotAccounting' /\ NeverOvershoots'
    BY <1>1, <2>1, <2>2, <2>3, OwnersFinite, PoolAssumption
       DEF PoolInv, SlotAccounting, NeverOvershoots
  <2>6. ExclusiveUse'
    BY <2>1 DEF PoolInv, ExclusiveUse, InPool
  <2>7. QED
    BY <2>4, <2>5, <2>6 DEF PoolInv
<1>2. CASE ~(created < PoolSize)
  BY <1>2, MoveStep DEF Reserve, Labels, OwnerLabels
<1>3. QED
  BY <1>1, <1>2

LEMMA ConnectStep ==
    ASSUME PoolInv, NEW u \in Users, pc[u] \in {"open", "reopen"}, Connect(u)
    PROVE  PoolInv'
<1> USE DEF PoolInv
<1>1. PICK x \in Conns \ (InPool \cup InUse) : conn' = [conn EXCEPT ![u] = x]
  BY DEF Connect
<1>2. Goto(u, "held") /\ UNCHANGED <<pool, created, reaped, shutdown>>
  BY DEF Connect
<1>3. pc \in [Users -> Labels] /\ conn \in [Users -> Conns \cup {NoConn}]
  BY DEF PoolTypeOK
<1>4. Owners' = Owners
  BY <1>2, <1>3, OwnersStay DEF Labels, OwnerLabels
<1>5. PoolTypeOK'
  BY <1>1, <1>2, <1>3, PoolAssumption DEF PoolTypeOK, Goto, Labels
<1>6. SlotAccounting' /\ NeverOvershoots'
  BY <1>2, <1>4 DEF SlotAccounting, NeverOvershoots
<1>7. \A v \in Users : conn'[v] = IF v = u THEN x ELSE conn[v]
  BY <1>1, <1>3
<1>8. \A v \in Users : conn[v] # x
  BY <1>1, PoolAssumption DEF InUse
<1>9. ExclusiveUse'
  BY <1>1, <1>2, <1>7, <1>8 DEF ExclusiveUse, InPool
<1>10. QED
  BY <1>5, <1>6, <1>9

LEMMA UnreserveStep ==
    ASSUME PoolInv, NEW u \in Users, Unreserve(u)
    PROVE  PoolInv'
<1> USE DEF PoolInv
<1>1. /\ pc[u] = "unreserve" /\ created' = created - 1 /\ Goto(u, "idle")
      /\ UNCHANGED <<pool, conn, reaped, shutdown>>
  BY DEF Unreserve
<1>2. /\ pc \in [Users -> Labels] /\ created \in Int /\ reaped \in Nat
      /\ Len(pool) \in Nat
  BY LenProperties DEF PoolTypeOK
<1>3. Cardinality(Owners') = Cardinality(Owners) - 1
  BY <1>1, <1>2, OwnerLeaves DEF Labels, OwnerLabels
<1>4. PoolTypeOK'
  BY <1>1, <1>2 DEF PoolTypeOK, Goto, Labels
<1>5. SlotAccounting' /\ NeverOvershoots'
  BY <1>1, <1>2, <1>3, OwnersFinite, PoolAssumption DEF SlotAccounting, NeverOvershoots
<1>6. ExclusiveUse'
  BY <1>1 DEF ExclusiveUse, InPool
<1>7. QED
  BY <1>4, <1>5, <1>6

LEMMA PingFailsStep ==
    ASSUME PoolInv, NEW u \in Users, PingFails(u)
    PROVE  PoolInv'
<1> USE DEF PoolInv
<1>1. /\ pc[u] = "ping" /\ conn' = [conn EXCEPT ![u] = NoConn] /\ Goto(u, "reopen")
      /\ UNCHANGED <<pool, created, reaped, shutdown>>
  BY DEF PingFails
<1>2. pc \in [Users -> Labels] /\ conn \in [Users -> Conns \cup {NoConn}]
  BY DEF PoolTypeOK
<1>3. Owners' = Owners
  BY <1>1, <1>2, OwnersStay DEF Labels, OwnerLabels
<1>4. PoolTypeOK'
  BY <1>1, <1>2 DEF PoolTypeOK, Goto, Labels
<1>5. SlotAccounting' /\ NeverOvershoots'
  BY <1>1, <1>3 DEF SlotAccounting, NeverOvershoots
<1>6. NoConn \notin InPool
  BY PoolAssumption, LenProperties DEF PoolTypeOK, InPool
<1>7. ExclusiveUse'
  BY <1>1, <1>2, <1>6 DEF ExclusiveUse, InPool
<1>8. QED
  BY <1>4, <1>5, <1>7

\* A held connection owns a slot, and with it the room in the queue it will need.
LEMMA HeldHasRoom ==
    ASSUME PoolInv
    PROVE  ReturnFindsRoom
<1> SUFFICES ASSUME NEW u \in Users, pc[u] = "held"
             PROVE  ~QueueFull
  BY DEF ReturnFindsRoom
<1>1. Cardinality(Owners) # 0
  <2>1. u \in Owners
    BY DEF Owners, OwnerLabels
  <2>2. QED
    BY <2>1, OwnersFinite, FS_EmptySet
<1>2. Len(pool) \in Nat /\ reaped \in Nat /\ created \in Int
  BY LenProperties DEF PoolInv, PoolTypeOK
<1>3. Len(pool) < PoolSize
  BY <1>1, <1>2, OwnersFinite, PoolAssumption DEF PoolInv, SlotAccounting, NeverOvershoots
<1>4. QED
  BY <1>2, <1>3, PoolAssumption DEF QueueFull

LEMMA ReleaseStep ==
    ASSUME PoolInv, NEW u \in Users, Release(u)
    PROVE  PoolInv'
<1>0. ~QueueFull
  BY HeldHasRoom DEF Release, ReturnFindsRoom
<1> USE DEF PoolInv
<1>1. /\ pc[u] = "held" /\ Goto(u, "idle")
      /\ pool' = <<conn[u]>> \o pool
      /\ conn' = [conn EXCEPT ![u] = NoConn]
      /\ UNCHANGED <<created, reaped, shutdown>>
  BY <1>0 DEF Release
<1>2. /\ pool \in Seq(Conns) /\ Len(pool) \in Nat /\ pc \in [Users -> Labels]
      /\ conn \in [Users -> Conns \cup {NoConn}] /\ conn[u] \in Conns
      /\ created \in Int /\ reaped \in Nat
  BY <1>1, LenProperties DEF PoolTypeOK
<1>3. /\ pool' \in Seq(Conns) /\ Len(pool') = Len(pool) + 1
      /\ InPool' = InPool \cup {conn[u]}
      /\ \A j, k \in DOMAIN pool' : pool'[j] = pool'[k] => j = k
  BY <1>1, <1>2, PushQueue DEF ExclusiveUse
<1>4. Cardinality(Owners') = Cardinality(Owners) - 1
  BY <1>1, <1>2, OwnerLeaves DEF Labels, OwnerLabels
<1>5. PoolTypeOK'
  BY <1>1, <1>2, <1>3 DEF PoolTypeOK, Goto, Labels
<1>6. SlotAccounting' /\ NeverOvershoots'
  BY <1>1, <1>2, <1>3, <1>4, OwnersFinite DEF SlotAccounting, NeverOvershoots
<1>7. NoConn \notin InPool
  BY <1>2, PoolAssumption, LenProperties DEF InPool
<1>8. \A v \in Users : conn'[v] = IF v = u THEN NoConn ELSE conn[v]
  BY <1>1, <1>2
<1>9. ExclusiveUse'
  BY <1>2, <1>3, <1>7, <1>8, PoolAssumption DEF ExclusiveUse
<1>10. QED
  BY <1>5, <1>6, <1>9

LEMMA CloseStep ==
    ASSUME PoolInv, Close
    PROVE  PoolInv'
<1> USE DEF PoolInv
<1>1. CASE Shutdown \/ CloseDone
  <2>1. UNCHANGED <<pool, created, pc, conn, reaped>> /\ shutdown' \in {"closing", "closed"}
    BY <1>1 DEF Shutdown, CloseDone
  <2>2. QED
    BY <2>1 DEF PoolTypeOK, SlotAccounting, NeverOvershoots, ExclusiveUse, Owners, InPool
<1>2. CASE CloseOne
  <2>1. /\ pool # <<>> /\ pool' = Tail(pool) /\ reaped' = reaped + 1
        /\ UNCHANGED <<created, pc, conn, shutdown>>
    BY <1>2 DEF CloseOne
  <2>2. pool \in Seq(Conns) /\ reaped \in Nat /\ created \in Int
    BY DEF PoolTypeOK
  <2>3. /\ pool' \in Seq(Conns) /\ Len(pool') = Len(pool) - 1 /\ Len(pool) \in Nat
        /\ InPool' \subseteq InPool
        /\ \A j, k \in DOMAIN pool' : pool'[j] = pool'[k] => j = k
    BY <2>1, <2>2, PopQueue DEF ExclusiveUse
  <2>4. PoolTypeOK'
    BY <2>1, <2>2, <2>3 DEF PoolTypeOK
  <2>5. Owners' = Owners
    BY <2>1 DEF Owners
  <2>6. SlotAccounting' /\ NeverOvershoots'
    BY <2>1, <2>2, <2>3, <2>5, OwnersFinite DEF SlotAccounting, NeverOvershoots
  <2>7. ExclusiveUse'
    BY <2>1, <2>3 DEF ExclusiveUse
  <2>8. QED
    BY <2>4, <2>6, <2>7
<1>3. QED
  BY <1>1, <1>2 DEF Close

LEMMA PoolInvStep ==
    ASSUME PoolInv, [PoolNext]_poolVars
    PROVE  PoolInv'
<1>1. ASSUME NEW u \in Users, Enter(u) PROVE PoolInv'
  BY <1>1, MoveStep DEF Enter, Labels, OwnerLabels
<1>2. ASSUME NEW u \in Users, GetNow(u) PROVE PoolInv'
  <2>1. CASE Take(u)
    BY <1>2, <2>1, TakeStep DEF GetNow
  <2>2. CASE ~Take(u)
    BY <1>2, <2>2, MoveStep DEF GetNow, Labels, OwnerLabels
  <2>3. QED
    BY <2>1, <2>2
<1>3. ASSUME NEW u \in Users, Reserve(u) PROVE PoolInv'
  BY <1>3, ReserveStep
<1>4. ASSUME NEW u \in Users, Open(u) \/ Reopen(u) PROVE PoolInv'
  BY <1>4, ConnectStep DEF Open, Reopen
<1>5. ASSUME NEW u \in Users, OpenFails(u) \/ ReopenFails(u) PROVE PoolInv'
  BY <1>5, MoveStep DEF OpenFails, ReopenFails, ConnectFails, Labels, OwnerLabels
<1>6. ASSUME NEW u \in Users, Unreserve(u) PROVE PoolInv'
  BY <1>6, UnreserveStep
<1>7. ASSUME NEW u \in Users, Wait(u) PROVE PoolInv'
  BY <1>7, TakeStep DEF Wait
<1>8. ASSUME NEW u \in Users, WaitTimeout(u) PROVE PoolInv'
  BY <1>8, MoveStep DEF WaitTimeout, Labels, OwnerLabels
<1>9. ASSUME NEW u \in Users, Ping(u) PROVE PoolInv'
  BY <1>9, MoveStep DEF Ping, Labels, OwnerLabels
<1>10. ASSUME NEW u \in Users, PingFails(u) PROVE PoolInv'
  BY <1>10, PingFailsStep
<1>11. ASSUME NEW u \in Users, Release(u) PROVE PoolInv'
  BY <1>11, ReleaseStep
<1>12. CASE Close
  BY <1>12, CloseStep
<1>13. CASE UNCHANGED poolVars
  BY <1>13 DEF poolVars, PoolInv, PoolTypeOK, SlotAccounting, NeverOvershoots,
               ExclusiveUse, Owners, InPool
<1>14. QED
  BY <1>1, <1>2, <1>3, <1>4, <1>5, <1>6, <1>7, <1>8, <1>9, <1>10, <1>11, <1>12, <1>13
     DEF PoolNext, UserStep, Progress, Failures

LEMMA PoolInvInit == PoolInit => PoolInv
<1> SUFFICES ASSUME PoolInit
             PROVE  PoolInv
  OBVIOUS
<1>1. /\ pool \in Seq(Conns) /\ Len(pool) = created /\ DOMAIN pool = 1 .. created
      /\ created \in {0, 1} /\ created <= PoolSize
  <2>1. CASE pool = <<>> /\ created = 0
    BY <2>1, EmptySeq, LenProperties, PoolAssumption
  <2>2. CASE PoolSize > 0 /\ \E x \in Conns : pool = <<x>> /\ created = 1
    BY <2>2, PoolAssumption
  <2>3. QED
    BY <2>1, <2>2 DEF PoolInit
<1>2. Owners = {} /\ Cardinality(Owners) = 0
  BY FS_EmptySet DEF PoolInit, Owners, OwnerLabels
<1>3. PoolTypeOK
  BY <1>1 DEF PoolInit, PoolTypeOK, Labels
<1>4. SlotAccounting /\ NeverOvershoots
  BY <1>1, <1>2 DEF PoolInit, SlotAccounting, NeverOvershoots
<1>5. ExclusiveUse
  <2>1. InPool \subseteq Conns
    BY <1>1, ElementOfSeq DEF InPool
  <2>2. \A u \in Users : conn[u] = NoConn
    BY DEF PoolInit
  <2>3. \A j, k \in DOMAIN pool : pool[j] = pool[k] => j = k
    BY <1>1
  <2>4. QED
    BY <2>1, <2>2, <2>3, PoolAssumption DEF ExclusiveUse
<1>6. QED
  BY <1>3, <1>4, <1>5 DEF PoolInv

THEOREM PoolInvariant == PoolSpec => []PoolInv
BY PoolInvInit, PoolInvStep, PTL DEF PoolSpec

\* Every slot has one owner, whatever fails and whoever times out.
THEOREM SlotsAreAccountedFor == PoolSpec => []SlotAccounting
<1>1. PoolInv => SlotAccounting
  BY DEF PoolInv
<1>2. QED
  BY <1>1, PoolInvariant, PTL

\* The pool never exceeds its size.
THEOREM PoolNeverOvershoots == PoolSpec => []NeverOvershoots
<1>1. PoolInv => NeverOvershoots
  BY DEF PoolInv
<1>2. QED
  BY <1>1, PoolInvariant, PTL

\* The queue never fills: the defensive branch of _release is dead code.
THEOREM QueueNeverFills == PoolSpec => []ReturnFindsRoom
BY HeldHasRoom, PoolInvariant, PTL

\* No two users share a connection, and none uses a queued one.
THEOREM ConnectionsAreExclusive == PoolSpec => []ExclusiveUse
<1>1. PoolInv => ExclusiveUse
  BY DEF PoolInv
<1>2. QED
  BY <1>1, PoolInvariant, PTL
=============================================================================

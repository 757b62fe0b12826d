------------------------- MODULE UserResolution_proofs -------------------------
(***************************************************************************)
(* The lookup of the user on top of the pool, for any number of threads:   *)
(* it keeps to the pool's specification, so that all that is proved of the *)
(* pool holds here, it never runs twice, and no request leaves anything    *)
(* behind.                                                                 *)
(***************************************************************************)
EXTENDS UserResolution, ConnectionPool_proofs

ThreadsTypeOK ==
    /\ at \in [Threads -> {"idle", "acquire", "need", "lock", "resolve", "assign", "leave"}]
    /\ kind \in [Threads -> {"outside", "inside", "ping"}]
    /\ resolved \in BOOLEAN
    /\ lockOwner \in Threads \cup {Nobody}
    /\ found \in BOOLEAN

\* Where a request is says where its two connections are, and whether it holds
\* the lock.
Coupled(t) ==
    /\ at[t] = "idle" => pc[Req(t)] = "idle"
    /\ at[t] = "leave" => pc[Req(t)] = "held"
    /\ at[t] \in {"need", "lock", "resolve", "assign"} =>
          /\ kind[t] \in {"outside", "inside"}
          /\ kind[t] = "inside" => pc[Req(t)] = "held"
          /\ kind[t] = "outside" => pc[Req(t)] = "idle"
    /\ at[t] # "resolve" => pc[Res(t)] = "idle"
    /\ lockOwner = t <=> at[t] \in {"resolve", "assign"}
    /\ lockOwner = t => ~resolved

ResolutionInv ==
    /\ PoolInv
    /\ ThreadsTypeOK
    /\ \A t \in Threads : Coupled(t)

-----------------------------------------------------------------------------
(* What the pool's actions do to its users.                                *)

LEMMA UsersOfThreads ==
    /\ \A t \in Threads : Req(t) \in Users /\ Res(t) \in Users
    /\ \A t, u \in Threads : Req(t) # Res(u)
    /\ \A t, u \in Threads : t # u => Req(t) # Req(u) /\ Res(t) # Res(u)
BY ResolutionAssumption DEF Req, Res

\* Only u has moved, to label.
OnlyMoved(u, label) ==
    /\ pc'[u] = label
    /\ \A v \in Users : v # u => pc'[v] = pc[v]

LEMMA GotoMoves ==
    ASSUME PoolInv, NEW u \in Users, NEW label, Goto(u, label)
    PROVE  OnlyMoved(u, label)
BY DEF PoolInv, PoolTypeOK, Goto, OnlyMoved

LEMMA EnterMoves ==
    ASSUME PoolInv, NEW u \in Users, Enter(u)
    PROVE  pc[u] = "idle" /\ OnlyMoved(u, "get")
BY GotoMoves DEF Enter

LEMMA AcquiringMoves ==
    ASSUME PoolInv, NEW u \in Users, Acquiring(u)
    PROVE  /\ pc[u] \notin {"idle", "held"}
           /\ \E label \in Labels \ {"idle"} : OnlyMoved(u, label)
<1>1. PICK label \in Labels \ {"idle"} : Goto(u, label)
  BY DEF Acquiring, GetNow, Take, Reserve, Open, Wait, Ping, Reopen, OpenFails, PingFails,
         ReopenFails, Connect, ConnectFails, Labels
<1>2. pc[u] \notin {"idle", "held"}
  BY DEF Acquiring, GetNow, Reserve, Open, Wait, Ping, Reopen, OpenFails, PingFails, ReopenFails
<1>3. QED
  BY <1>1, <1>2, GotoMoves

LEMMA RaisesMoves ==
    ASSUME PoolInv, NEW u \in Users, Raises(u)
    PROVE  pc[u] \notin {"idle", "held"} /\ OnlyMoved(u, "idle")
BY GotoMoves DEF Raises, WaitTimeout, Unreserve

\* A connection that is returned finds room, so the user is out of cursor().
LEMMA ReleaseMoves ==
    ASSUME PoolInv, NEW u \in Users, Release(u)
    PROVE  pc[u] = "held" /\ OnlyMoved(u, "idle")
<1>1. pc[u] = "held" /\ ~QueueFull
  BY HeldHasRoom DEF Release, ReturnFindsRoom
<1>2. Goto(u, "idle")
  BY <1>1 DEF Release
<1>3. QED
  BY <1>1, <1>2, GotoMoves

\* Every step of a request, and of shutdown, is a step of the pool or leaves it.
LEMMA StepIsPoolStep ==
    ASSUME [ResolutionNext]_vars
    PROVE  [PoolNext]_poolVars
<1>1. ASSUME NEW t \in Threads, NEW u \in {Req(t), Res(t)}
      PROVE  /\ Enter(u) => PoolNext
             /\ Acquiring(u) => PoolNext
             /\ Raises(u) => PoolNext
             /\ Release(u) => PoolNext
  <2>1. u \in Users
    BY <1>1, UsersOfThreads
  <2>2. (Enter(u) => UserStep(u)) /\ (Release(u) => UserStep(u))
    BY DEF UserStep
  <2>3. (Acquiring(u) => UserStep(u)) /\ (Raises(u) => UserStep(u))
    BY DEF Acquiring, Raises, UserStep, Progress, Failures
  <2>4. QED
    BY <2>1, <2>2, <2>3 DEF PoolNext
<1>2. ASSUME NEW t \in Threads, WithUserId(t) PROVE [PoolNext]_poolVars
  BY <1>1, <1>2 DEF WithUserId
<1>3. ASSUME NEW t \in Threads, NEW k \in Kinds, Start(t, k) PROVE [PoolNext]_poolVars
  BY <1>1, <1>3 DEF Start
<1>4. ASSUME NEW t \in Threads, RequestStep(t) PROVE [PoolNext]_poolVars
  <2>1. CASE Acquiring(Req(t)) \/ Acquiring(Res(t))
    BY <1>1, <2>1
  <2>2. CASE Acquired(t)
    BY <2>2 DEF Acquired
  <2>3. CASE AcquireFails(t)
    BY <1>1, <2>3 DEF AcquireFails
  <2>4. CASE GetUserId(t)
    BY <1>2, <2>4 DEF GetUserId
  <2>5. CASE Lookup(t)
    BY <1>1, <2>5 DEF Lookup
  <2>6. CASE LookupFails(t)
    BY <1>1, <2>6 DEF LookupFails
  <2>7. CASE Assign(t)
    BY <1>2, <2>7 DEF Assign
  <2>8. QED
    BY <1>4, <2>1, <2>2, <2>3, <2>4, <2>5, <2>6, <2>7 DEF RequestStep
<1>5. ASSUME NEW t \in Threads, TakeLock(t) PROVE [PoolNext]_poolVars
  BY <1>1, <1>2, <1>5 DEF TakeLock
<1>6. ASSUME NEW t \in Threads, Leave(t) PROVE [PoolNext]_poolVars
  BY <1>1, <1>6 DEF Leave
<1>7. CASE CloseAll
  BY <1>7 DEF CloseAll, PoolNext
<1>8. CASE UNCHANGED vars
  BY <1>8 DEF vars
<1>9. QED
  BY <1>3, <1>4, <1>5, <1>6, <1>7, <1>8 DEF ResolutionNext, Serving

\* The lookup keeps to the pool's specification.
THEOREM ResolutionImplementsPool == ResolutionSpec => PoolSpec
<1>1. ResolutionInit => PoolInit
  BY DEF ResolutionInit
<1>2. [ResolutionNext]_vars => [PoolNext]_poolVars
  BY StepIsPoolStep
<1>3. QED
  BY <1>1, <1>2, PTL DEF ResolutionSpec, PoolSpec

-----------------------------------------------------------------------------
(* The invariant.                                                          *)

\* The connections of other threads than t stay where they are.
OthersKeep(t) ==
    \A u \in Threads : u # t => pc'[Req(u)] = pc[Req(u)] /\ pc'[Res(u)] = pc[Res(u)]

LEMMA MoveKeepsOthers ==
    ASSUME NEW t \in Threads, NEW label
    PROVE  /\ OnlyMoved(Req(t), label) =>
                 OthersKeep(t) /\ pc'[Req(t)] = label /\ pc'[Res(t)] = pc[Res(t)]
           /\ OnlyMoved(Res(t), label) =>
                 OthersKeep(t) /\ pc'[Res(t)] = label /\ pc'[Req(t)] = pc[Req(t)]
BY UsersOfThreads DEF OnlyMoved, OthersKeep

\* A step of thread t leaves every other thread as it was: the lock, if it
\* changes hands, goes from or to t, and only its owner resolves the user.
LEMMA OtherThreads ==
    ASSUME ResolutionInv, NEW t \in Threads, OthersKeep(t),
           \A u \in Threads : u # t => at'[u] = at[u] /\ kind'[u] = kind[u],
           lockOwner' = lockOwner \/ {lockOwner, lockOwner'} \subseteq {t, Nobody},
           resolved' = resolved \/ lockOwner = t
    PROVE  \A u \in Threads : u # t => Coupled(u)'
BY ResolutionAssumption DEF ResolutionInv, Coupled, OthersKeep

LEMMA StartStep ==
    ASSUME ResolutionInv, NEW t \in Threads, NEW k \in Kinds, Start(t, k)
    PROVE  ThreadsTypeOK' /\ \A u \in Threads : Coupled(u)'
<1>1. /\ at[t] = "idle" /\ kind' = [kind EXCEPT ![t] = k]
      /\ UNCHANGED <<resolved, lockOwner, found>>
      /\ k \in {"outside", "inside", "ping"}
  BY ResolutionAssumption DEF Start
<1>2. CASE k = "outside"
  <2>1. MoveTo(t, "need") /\ pc' = pc
    BY <1>2 DEF Start, poolVars
  <2>2. ThreadsTypeOK'
    BY <1>1, <2>1 DEF MoveTo, ResolutionInv, ThreadsTypeOK
  <2>3. \A u \in Threads : u # t => Coupled(u)'
    <3>1. \A u \in Threads : u # t => at'[u] = at[u] /\ kind'[u] = kind[u]
      BY <1>1, <2>1 DEF MoveTo, ResolutionInv, ThreadsTypeOK
    <3>2. OthersKeep(t)
      BY <2>1 DEF OthersKeep
    <3>3. QED
      BY <1>1, <3>1, <3>2, OtherThreads
  <2>4. Coupled(t)'
    <3>1. at'[t] = "need" /\ kind'[t] = "outside"
      BY <1>1, <1>2, <2>1 DEF MoveTo, ResolutionInv, ThreadsTypeOK
    <3>2. QED
      BY <1>1, <2>1, <3>1 DEF ResolutionInv, Coupled
  <2>5. QED
    BY <2>2, <2>3, <2>4
<1>3. CASE k # "outside"
  <2>1. MoveTo(t, "acquire") /\ Enter(Req(t))
    BY <1>3 DEF Start
  <2>2. OthersKeep(t) /\ pc'[Res(t)] = pc[Res(t)]
    BY <2>1, UsersOfThreads, EnterMoves, MoveKeepsOthers DEF ResolutionInv
  <2>3. ThreadsTypeOK'
    BY <1>1, <2>1 DEF MoveTo, ResolutionInv, ThreadsTypeOK
  <2>4. /\ \A u \in Threads : u # t => at'[u] = at[u] /\ kind'[u] = kind[u]
        /\ at'[t] = "acquire"
    BY <1>1, <2>1 DEF MoveTo, ResolutionInv, ThreadsTypeOK
  <2>5. \A u \in Threads : u # t => Coupled(u)'
    BY <1>1, <2>2, <2>4, OtherThreads
  <2>6. Coupled(t)'
    BY <1>1, <2>2, <2>4 DEF ResolutionInv, Coupled
  <2>7. QED
    BY <2>3, <2>5, <2>6
<1>4. QED
  BY <1>2, <1>3

LEMMA AcquiringStep ==
    ASSUME ResolutionInv, NEW t \in Threads, Acquiring(Req(t)) \/ Acquiring(Res(t))
    PROVE  ThreadsTypeOK' /\ \A u \in Threads : Coupled(u)'
<1>1. UNCHANGED threadVars
  BY DEF Acquiring
<1>2. ThreadsTypeOK'
  BY <1>1 DEF threadVars, ResolutionInv, ThreadsTypeOK
<1>3. OthersKeep(t) /\ Coupled(t)'
  <2>1. CASE Acquiring(Req(t))
    <3>1. PICK label \in Labels \ {"idle"} : OnlyMoved(Req(t), label)
      BY <2>1, UsersOfThreads, AcquiringMoves DEF ResolutionInv
    <3>2. pc[Req(t)] \notin {"idle", "held"}
      BY <2>1, UsersOfThreads, AcquiringMoves DEF ResolutionInv
    <3>3. OthersKeep(t) /\ pc'[Res(t)] = pc[Res(t)]
      BY <3>1, MoveKeepsOthers
    <3>4. at[t] = "acquire"
      BY <3>2 DEF ResolutionInv, Coupled, ThreadsTypeOK
    <3>5. QED
      BY <1>1, <3>3, <3>4 DEF ResolutionInv, Coupled, threadVars
  <2>2. CASE Acquiring(Res(t))
    <3>1. PICK label \in Labels \ {"idle"} : OnlyMoved(Res(t), label)
      BY <2>2, UsersOfThreads, AcquiringMoves DEF ResolutionInv
    <3>2. pc[Res(t)] \notin {"idle", "held"}
      BY <2>2, UsersOfThreads, AcquiringMoves DEF ResolutionInv
    <3>3. OthersKeep(t) /\ pc'[Req(t)] = pc[Req(t)]
      BY <3>1, MoveKeepsOthers
    <3>4. at[t] = "resolve"
      BY <3>2 DEF ResolutionInv, Coupled
    <3>5. QED
      BY <1>1, <3>3, <3>4 DEF ResolutionInv, Coupled, threadVars
  <2>3. QED
    BY <2>1, <2>2
<1>4. \A u \in Threads : u # t => Coupled(u)'
  BY <1>1, <1>3, OtherThreads DEF threadVars
<1>5. QED
  BY <1>2, <1>3, <1>4

\* A request that has the id, or an error, goes on: the rest of a step in which
\* the lock ends up in no hands, or stays where it was.
LEMMA GoOn ==
    ASSUME ResolutionInv, NEW t \in Threads, at[t] \in {"need", "lock", "resolve", "assign"},
           \/ WithUserId(t) /\ pc[Res(t)] = "idle"
           \/ WithoutUserId(t) /\ OthersKeep(t) /\ pc'[Req(t)] = pc[Req(t)] /\ pc'[Res(t)] = "idle",
           kind' = kind, resolved' \in BOOLEAN, found' \in BOOLEAN,
           lockOwner' = Nobody \/ lockOwner' = lockOwner,
           lockOwner # t => lockOwner' = lockOwner /\ resolved' = resolved,
           lockOwner = t => lockOwner' = Nobody
    PROVE  ThreadsTypeOK' /\ \A u \in Threads : Coupled(u)'
<1>1. kind[t] \in {"outside", "inside"}
  BY DEF ResolutionInv, Coupled
<1>2. PICK label \in {"leave", "acquire", "idle"} :
        /\ at' = [at EXCEPT ![t] = label]
        /\ OthersKeep(t) /\ pc'[Res(t)] = "idle"
        /\ label = "leave" => pc'[Req(t)] = "held"
        /\ label = "idle" => pc'[Req(t)] = "idle"
  <2>1. CASE WithUserId(t) /\ pc[Res(t)] = "idle" /\ kind[t] = "inside"
    <3>1. at' = [at EXCEPT ![t] = "leave"] /\ pc' = pc
      BY <2>1 DEF WithUserId, MoveTo, poolVars
    <3>2. pc[Req(t)] = "held"
      BY <2>1 DEF ResolutionInv, Coupled
    <3>3. QED
      BY <2>1, <3>1, <3>2 DEF OthersKeep
  <2>2. CASE WithUserId(t) /\ pc[Res(t)] = "idle" /\ kind[t] # "inside"
    <3>1. at' = [at EXCEPT ![t] = "acquire"] /\ Enter(Req(t))
      BY <2>2 DEF WithUserId, MoveTo
    <3>2. OthersKeep(t) /\ pc'[Res(t)] = pc[Res(t)]
      BY <3>1, UsersOfThreads, EnterMoves, MoveKeepsOthers DEF ResolutionInv
    <3>3. QED
      BY <2>2, <3>1, <3>2
  <2>3. CASE WithoutUserId(t) /\ OthersKeep(t) /\ pc'[Req(t)] = pc[Req(t)] /\ pc'[Res(t)] = "idle"
    <3>1. at' = [at EXCEPT ![t] = IF kind[t] = "inside" THEN "leave" ELSE "idle"]
      BY <2>3 DEF WithoutUserId, MoveTo
    <3>2. pc[Req(t)] = IF kind[t] = "inside" THEN "held" ELSE "idle"
      BY <1>1 DEF ResolutionInv, Coupled
    <3>3. QED
      BY <2>3, <3>1, <3>2
  <2>4. QED
    BY <2>1, <2>2, <2>3
<1>3. ThreadsTypeOK'
  BY <1>2 DEF ResolutionInv, ThreadsTypeOK
<1>4. at'[t] = label /\ \A u \in Threads : u # t => at'[u] = at[u]
  BY <1>2 DEF ResolutionInv, ThreadsTypeOK
<1>5. \A u \in Threads : u # t => Coupled(u)'
  BY <1>2, <1>4, OtherThreads
<1>6. lockOwner' # t
  BY ResolutionAssumption
<1>7. Coupled(t)'
  BY <1>2, <1>4, <1>6 DEF Coupled
<1>8. QED
  BY <1>3, <1>5, <1>7

LEMMA AcquiredStep ==
    ASSUME ResolutionInv, NEW t \in Threads, Acquired(t)
    PROVE  ThreadsTypeOK' /\ \A u \in Threads : Coupled(u)'
<1>1. /\ at[t] = "acquire" /\ pc[Req(t)] = "held"
      /\ at' = [at EXCEPT ![t] = IF kind[t] = "inside" THEN "need" ELSE "leave"]
      /\ pc' = pc /\ UNCHANGED <<kind, resolved, lockOwner, found>>
  BY DEF Acquired, MoveTo, poolVars
<1>2. ThreadsTypeOK'
  BY <1>1 DEF ResolutionInv, ThreadsTypeOK
<1>3. /\ at'[t] = IF kind[t] = "inside" THEN "need" ELSE "leave"
      /\ \A u \in Threads : u # t => at'[u] = at[u]
  BY <1>1 DEF ResolutionInv, ThreadsTypeOK
<1>4. \A u \in Threads : u # t => Coupled(u)'
  BY <1>1, <1>3, OtherThreads DEF OthersKeep
<1>5. Coupled(t)'
  BY <1>1, <1>3 DEF ResolutionInv, Coupled
<1>6. QED
  BY <1>2, <1>4, <1>5

\* A request ends: its own connection is back, or was never there.
LEMMA EndStep ==
    ASSUME ResolutionInv, NEW t \in Threads, AcquireFails(t) \/ Leave(t)
    PROVE  ThreadsTypeOK' /\ \A u \in Threads : Coupled(u)'
<1>1. /\ at[t] \in {"acquire", "leave"}
      /\ at' = [at EXCEPT ![t] = "idle"]
      /\ Raises(Req(t)) \/ Release(Req(t))
      /\ UNCHANGED <<kind, resolved, lockOwner, found>>
  BY DEF AcquireFails, Leave, MoveTo
<1>2. OthersKeep(t) /\ pc'[Req(t)] = "idle" /\ pc'[Res(t)] = pc[Res(t)]
  BY <1>1, UsersOfThreads, RaisesMoves, ReleaseMoves, MoveKeepsOthers DEF ResolutionInv
<1>3. ThreadsTypeOK'
  BY <1>1 DEF ResolutionInv, ThreadsTypeOK
<1>4. at'[t] = "idle" /\ \A u \in Threads : u # t => at'[u] = at[u]
  BY <1>1 DEF ResolutionInv, ThreadsTypeOK
<1>5. \A u \in Threads : u # t => Coupled(u)'
  BY <1>1, <1>2, <1>4, OtherThreads
<1>6. Coupled(t)'
  BY <1>1, <1>2, <1>4 DEF ResolutionInv, Coupled
<1>7. QED
  BY <1>3, <1>5, <1>6

LEMMA GetUserIdStep ==
    ASSUME ResolutionInv, NEW t \in Threads, GetUserId(t)
    PROVE  ThreadsTypeOK' /\ \A u \in Threads : Coupled(u)'
<1>1. /\ at[t] = "need" /\ UNCHANGED <<kind, resolved, lockOwner, found>>
      /\ lockOwner # t /\ pc[Res(t)] = "idle"
      /\ resolved \in BOOLEAN /\ found \in BOOLEAN
  BY DEF GetUserId, ResolutionInv, Coupled, ThreadsTypeOK
<1>2. CASE resolved
  BY <1>1, <1>2, GoOn DEF GetUserId
<1>3. CASE ~resolved
  <2>1. at' = [at EXCEPT ![t] = "lock"] /\ pc' = pc
    BY <1>3 DEF GetUserId, MoveTo, poolVars
  <2>2. ThreadsTypeOK'
    BY <1>1, <2>1 DEF ResolutionInv, ThreadsTypeOK
  <2>3. at'[t] = "lock" /\ \A u \in Threads : u # t => at'[u] = at[u]
    BY <2>1 DEF ResolutionInv, ThreadsTypeOK
  <2>4. \A u \in Threads : u # t => Coupled(u)'
    BY <1>1, <2>1, <2>3, OtherThreads DEF OthersKeep
  <2>5. Coupled(t)'
    BY <1>1, <2>1, <2>3 DEF ResolutionInv, Coupled
  <2>6. QED
    BY <2>2, <2>4, <2>5
<1>4. QED
  BY <1>2, <1>3

LEMMA TakeLockStep ==
    ASSUME ResolutionInv, NEW t \in Threads, TakeLock(t)
    PROVE  ThreadsTypeOK' /\ \A u \in Threads : Coupled(u)'
<1>1. /\ at[t] = "lock" /\ lockOwner = Nobody /\ UNCHANGED <<kind, resolved, found>>
      /\ lockOwner # t /\ pc[Res(t)] = "idle"
      /\ resolved \in BOOLEAN /\ found \in BOOLEAN
  BY DEF TakeLock, ResolutionInv, Coupled, ThreadsTypeOK
<1>2. CASE resolved
  BY <1>1, <1>2, GoOn DEF TakeLock
<1>3. CASE ~resolved
  <2>1. lockOwner' = t /\ at' = [at EXCEPT ![t] = "resolve"] /\ Enter(Res(t))
    BY <1>3 DEF TakeLock, MoveTo
  <2>2. OthersKeep(t) /\ pc'[Req(t)] = pc[Req(t)]
    BY <2>1, UsersOfThreads, EnterMoves, MoveKeepsOthers DEF ResolutionInv
  <2>3. ThreadsTypeOK'
    BY <1>1, <2>1 DEF ResolutionInv, ThreadsTypeOK
  <2>4. at'[t] = "resolve" /\ \A u \in Threads : u # t => at'[u] = at[u]
    BY <2>1 DEF ResolutionInv, ThreadsTypeOK
  <2>5. \A u \in Threads : u # t => Coupled(u)'
    BY <1>1, <2>1, <2>2, <2>4, OtherThreads
  <2>6. Coupled(t)'
    BY <1>1, <1>3, <2>1, <2>2, <2>4 DEF ResolutionInv, Coupled
  <2>7. QED
    BY <2>3, <2>5, <2>6
<1>4. QED
  BY <1>2, <1>3

LEMMA LookupStep ==
    ASSUME ResolutionInv, NEW t \in Threads, Lookup(t)
    PROVE  ThreadsTypeOK' /\ \A u \in Threads : Coupled(u)'
<1>1. /\ at[t] = "resolve" /\ at' = [at EXCEPT ![t] = "assign"]
      /\ Release(Res(t)) /\ found' \in BOOLEAN
      /\ UNCHANGED <<kind, resolved, lockOwner>>
  BY ResolutionAssumption DEF Lookup, MoveTo
<1>2. OthersKeep(t) /\ pc'[Res(t)] = "idle" /\ pc'[Req(t)] = pc[Req(t)]
  BY <1>1, UsersOfThreads, ReleaseMoves, MoveKeepsOthers DEF ResolutionInv
<1>3. ThreadsTypeOK'
  BY <1>1 DEF ResolutionInv, ThreadsTypeOK
<1>4. at'[t] = "assign" /\ \A u \in Threads : u # t => at'[u] = at[u]
  BY <1>1 DEF ResolutionInv, ThreadsTypeOK
<1>5. \A u \in Threads : u # t => Coupled(u)'
  BY <1>1, <1>2, <1>4, OtherThreads
<1>6. Coupled(t)'
  BY <1>1, <1>2, <1>4 DEF ResolutionInv, Coupled
<1>7. QED
  BY <1>3, <1>5, <1>6

LEMMA LookupFailsStep ==
    ASSUME ResolutionInv, NEW t \in Threads, LookupFails(t)
    PROVE  ThreadsTypeOK' /\ \A u \in Threads : Coupled(u)'
<1>1. /\ at[t] = "resolve" /\ Raises(Res(t)) /\ WithoutUserId(t)
      /\ lockOwner' = Nobody /\ UNCHANGED <<kind, resolved, found>>
      /\ resolved \in BOOLEAN /\ found \in BOOLEAN
  BY DEF LookupFails, ResolutionInv, ThreadsTypeOK
<1>2. OthersKeep(t) /\ pc'[Res(t)] = "idle" /\ pc'[Req(t)] = pc[Req(t)]
  BY <1>1, UsersOfThreads, RaisesMoves, MoveKeepsOthers DEF ResolutionInv
<1>3. lockOwner = t
  BY <1>1 DEF ResolutionInv, Coupled
<1>4. QED
  BY <1>1, <1>2, <1>3, GoOn

LEMMA AssignStep ==
    ASSUME ResolutionInv, NEW t \in Threads, Assign(t)
    PROVE  ThreadsTypeOK' /\ \A u \in Threads : Coupled(u)'
<1>1. /\ at[t] = "assign" /\ lockOwner' = Nobody /\ kind' = kind
      /\ found' \in BOOLEAN /\ resolved' \in BOOLEAN
      /\ lockOwner = t /\ pc[Res(t)] = "idle"
  BY DEF Assign, ResolutionInv, Coupled, ThreadsTypeOK
<1>2. CASE found
  BY <1>1, <1>2, GoOn DEF Assign
<1>3. CASE ~found
  <2>1. WithoutUserId(t) /\ pc' = pc
    BY <1>3 DEF Assign, poolVars
  <2>2. QED
    BY <1>1, <2>1, GoOn DEF OthersKeep
<1>4. QED
  BY <1>2, <1>3

THEOREM ResolutionInvInit == ResolutionInit => ResolutionInv
<1>1. SUFFICES ASSUME ResolutionInit PROVE ResolutionInv
  OBVIOUS
<1>2. PoolInv
  BY <1>1, PoolInvInit DEF ResolutionInit
<1>3. ThreadsTypeOK
  BY <1>1 DEF ResolutionInit, ThreadsTypeOK
<1>4. \A t \in Threads : Coupled(t)
  BY <1>1, UsersOfThreads, ResolutionAssumption DEF ResolutionInit, PoolInit, Coupled
<1>5. QED
  BY <1>2, <1>3, <1>4 DEF ResolutionInv

THEOREM ResolutionInvStep == ResolutionInv /\ [ResolutionNext]_vars => ResolutionInv'
<1>1. SUFFICES ASSUME ResolutionInv, [ResolutionNext]_vars PROVE ResolutionInv'
  OBVIOUS
<1>2. PoolInv'
  BY <1>1, StepIsPoolStep, PoolInvStep DEF ResolutionInv
<1>3. ThreadsTypeOK' /\ \A u \in Threads : Coupled(u)'
  <2>1. ASSUME NEW t \in Threads, RequestStep(t)
        PROVE  ThreadsTypeOK' /\ \A u \in Threads : Coupled(u)'
    BY <1>1, <2>1, AcquiringStep, AcquiredStep, EndStep, GetUserIdStep, LookupStep,
       LookupFailsStep, AssignStep DEF RequestStep
  <2>2. ASSUME CloseAll \/ UNCHANGED vars
        PROVE  ThreadsTypeOK' /\ \A u \in Threads : Coupled(u)'
    <3>1. pc' = pc /\ UNCHANGED threadVars
      BY <2>2 DEF CloseAll, Close, Shutdown, CloseOne, CloseDone, vars, poolVars
    <3>2. QED
      BY <1>1, <3>1 DEF threadVars, ResolutionInv, ThreadsTypeOK, Coupled
  <2>3. QED
    BY <1>1, <2>1, <2>2, StartStep, TakeLockStep, EndStep DEF ResolutionNext, Serving
<1>4. QED
  BY <1>2, <1>3 DEF ResolutionInv

THEOREM ResolutionInvariant == ResolutionSpec => []ResolutionInv
BY ResolutionInvInit, ResolutionInvStep, PTL DEF ResolutionSpec

\* Every variable keeps its type, the pool's included: a connection is with a
\* user exactly while it is pinged or held.
THEOREM ResolutionTypes == ResolutionSpec => []ResolutionTypeOK
<1>1. ResolutionInv => ResolutionTypeOK
  BY DEF ResolutionInv, PoolInv, ThreadsTypeOK, ResolutionTypeOK
<1>2. QED
  BY <1>1, ResolutionInvariant, PTL

\* Lookups never overlap, and none runs once the id is known.
THEOREM UserIsResolvedOnce == ResolutionSpec => []ResolvesOnce
<1>1. ResolutionInv => ResolvesOnce
  BY DEF ResolutionInv, Coupled, ResolvesOnce
<1>2. QED
  BY <1>1, ResolutionInvariant, PTL

\* A request that is over holds no connection, no slot and no lock.
THEOREM NothingStaysBehind == ResolutionSpec => []NothingLeftBehind
<1>1. ResolutionInv => NothingLeftBehind
  BY DEF ResolutionInv, Coupled, NothingLeftBehind
<1>2. QED
  BY <1>1, ResolutionInvariant, PTL

\* What is proved of the pool holds under the lookups: accounting, the bound,
\* room for every return, and exclusive use.
THEOREM PoolHoldsUnderLookups ==
    ResolutionSpec => [](SlotAccounting /\ NeverOvershoots /\ ReturnFindsRoom /\ ExclusiveUse)
<1>1. PoolInv => SlotAccounting /\ NeverOvershoots /\ ReturnFindsRoom /\ ExclusiveUse
  BY HeldHasRoom DEF PoolInv
<1>2. QED
  BY <1>1, ResolutionImplementsPool, PoolInvariant, PTL
=============================================================================

---------------------------- MODULE ConnectionPool ----------------------------
(***************************************************************************)
(* Database of db.py: a LIFO queue of idle connections, a counter of       *)
(* reserved slots, and the threads that enter and leave cursor().  Every   *)
(* access to the queue and every access to the counter is atomic (both are *)
(* locked), but they are locked separately: a thread that found the queue  *)
(* empty reserves its slot in a later step, and opening, pinging, closing  *)
(* and reconnecting happen outside any lock and may each fail.             *)
(***************************************************************************)
EXTENDS Integers, Sequences, FiniteSets

CONSTANTS
    Users,      \* threads inside cursor(), one entry for each nesting level
    Conns,      \* connection identities
    NoConn,
    PoolSize    \* db_pool_size

ASSUME PoolAssumption ==
    /\ IsFiniteSet(Users)
    /\ PoolSize \in Nat
    /\ NoConn \notin Conns

VARIABLES
    pool,       \* idle connections, the last one returned first
    created,    \* _created: reserved slots
    pc,         \* where each user is in cursor()
    conn,       \* the connection it has
    reaped,     \* slots whose connection close() has closed (history)
    shutdown    \* has close() been called: "no", "closing" or "closed"

poolVars == <<pool, created, pc, conn, reaped, shutdown>>

Labels == {"idle", "get", "reserve", "open", "wait", "ping", "reopen", "unreserve", "held"}

\* The application has started: its look-up of the user got no connection, or has
\* returned the one it opened.
PoolInit ==
    /\ \/ pool = <<>> /\ created = 0
       \/ PoolSize > 0 /\ \E x \in Conns : pool = <<x>> /\ created = 1
    /\ pc = [u \in Users |-> "idle"]
    /\ conn = [u \in Users |-> NoConn]
    /\ reaped = 0
    /\ shutdown = "no"

Goto(u, label) == pc' = [pc EXCEPT ![u] = label]

InPool == {pool[k] : k \in DOMAIN pool}

InUse == {conn[u] : u \in Users} \ {NoConn}

\* Users that own a reserved slot.
OwnerLabels == {"open", "ping", "reopen", "unreserve", "held"}
Owners == {u \in Users : pc[u] \in OwnerLabels}

-----------------------------------------------------------------------------
Enter(u) ==
    /\ pc[u] = "idle"
    /\ Goto(u, "get")
    /\ UNCHANGED <<pool, created, conn, reaped, shutdown>>

\* Variant: the connection is handed out and stays in the queue.
Peek(u) ==
    /\ pool # <<>>
    /\ pool' = pool
    /\ conn' = [conn EXCEPT ![u] = Head(pool)]
    /\ Goto(u, "ping")
    /\ UNCHANGED <<created, reaped, shutdown>>

\* An idle connection is taken from the queue.
Take(u) ==
    /\ pool # <<>>
    /\ pool' = Tail(pool)
    /\ conn' = [conn EXCEPT ![u] = Head(pool)]
    /\ Goto(u, "ping")
    /\ UNCHANGED <<created, reaped, shutdown>>

\* get_nowait()
GetNow(u) ==
    /\ pc[u] = "get"
    /\ \/ Take(u)
       \/ pool = <<>> /\ Goto(u, "reserve") /\ UNCHANGED <<pool, created, conn, reaped, shutdown>>

\* Variant: the capacity test admits one more.
ReserveOneTooMany(u) ==
    /\ pc[u] = "reserve"
    /\ IF created <= PoolSize
       THEN created' = created + 1 /\ Goto(u, "open")
       ELSE created' = created /\ Goto(u, "wait")
    /\ UNCHANGED <<pool, conn, reaped, shutdown>>

\* _try_reserve_slot
Reserve(u) ==
    /\ pc[u] = "reserve"
    /\ IF created < PoolSize
       THEN created' = created + 1 /\ Goto(u, "open")
       ELSE created' = created /\ Goto(u, "wait")
    /\ UNCHANGED <<pool, conn, reaped, shutdown>>

\* A new connection for the slot u owns.
Connect(u) ==
    /\ \E x \in Conns \ (InPool \cup InUse) : conn' = [conn EXCEPT ![u] = x]
    /\ Goto(u, "held")
    /\ UNCHANGED <<pool, created, reaped, shutdown>>

\* The slot is given back in a later step.
ConnectFails(u) ==
    /\ Goto(u, "unreserve")
    /\ UNCHANGED <<pool, created, conn, reaped, shutdown>>

Open(u) == pc[u] = "open" /\ Connect(u)
OpenFails(u) == pc[u] = "open" /\ ConnectFails(u)

\* Variant: a failed connection keeps its slot.
UnreserveNothing(u) ==
    /\ pc[u] = "unreserve"
    /\ Goto(u, "idle")
    /\ UNCHANGED <<pool, created, conn, reaped, shutdown>>

\* _unreserve_slot, and cursor() is left, by the exception if there is one.
Unreserve(u) ==
    /\ pc[u] = "unreserve"
    /\ created' = created - 1
    /\ Goto(u, "idle")
    /\ UNCHANGED <<pool, conn, reaped, shutdown>>

\* get(timeout=...) wakes with a connection ...
Wait(u) == pc[u] = "wait" /\ Take(u)

\* Variant: the wait has no bound.
WaitForever(u) == u \notin Users /\ UNCHANGED poolVars

\* ... or gives up: 503.  It looks once more before it does.
WaitTimeout(u) ==
    /\ pc[u] = "wait" /\ pool = <<>>
    /\ Goto(u, "idle")
    /\ UNCHANGED <<pool, created, conn, reaped, shutdown>>

Ping(u) ==
    /\ pc[u] = "ping"
    /\ Goto(u, "held")
    /\ UNCHANGED <<pool, created, conn, reaped, shutdown>>

\* Variant: the dead connection is kept while a new one is opened.
PingFailsUnclosed(u) ==
    /\ pc[u] = "ping"
    /\ Goto(u, "reopen")
    /\ UNCHANGED <<pool, created, conn, reaped, shutdown>>

\* The connection is dead, and pymysql.Error says so: it is closed, and its slot
\* kept for a new one.  (_acquire handles no other exception of ping().)
PingFails(u) ==
    /\ pc[u] = "ping"
    /\ conn' = [conn EXCEPT ![u] = NoConn]
    /\ Goto(u, "reopen")
    /\ UNCHANGED <<pool, created, reaped, shutdown>>

Reopen(u) == pc[u] = "reopen" /\ Connect(u)
ReopenFails(u) == pc[u] = "reopen" /\ ConnectFails(u)

QueueFull == PoolSize > 0 /\ Len(pool) >= PoolSize

\* put_nowait: the connection goes back whatever state it is in, or, should the
\* queue be full, is closed and its slot given back.
Release(u) ==
    /\ pc[u] = "held"
    /\ conn' = [conn EXCEPT ![u] = NoConn]
    /\ IF QueueFull
       THEN pool' = pool /\ Goto(u, "unreserve")
       ELSE pool' = <<conn[u]>> \o pool /\ Goto(u, "idle")
    /\ UNCHANGED <<created, reaped, shutdown>>

\* close() empties the queue.  It does not look for users in flight: the
\* application calls it when none is left (UserResolution).
Shutdown ==
    /\ shutdown = "no"
    /\ shutdown' = "closing"
    /\ UNCHANGED <<pool, created, pc, conn, reaped>>

CloseOne ==
    /\ shutdown = "closing" /\ pool # <<>>
    /\ pool' = Tail(pool)
    /\ reaped' = reaped + 1
    /\ UNCHANGED <<created, pc, conn, shutdown>>

CloseDone ==
    /\ shutdown = "closing" /\ pool = <<>>
    /\ shutdown' = "closed"
    /\ UNCHANGED <<pool, created, pc, conn, reaped>>

Close == Shutdown \/ CloseOne \/ CloseDone

Failures(u) == OpenFails(u) \/ PingFails(u) \/ ReopenFails(u) \/ Unreserve(u)

\* What a user does with the database up.
Progress(u) ==
    \/ GetNow(u) \/ Reserve(u) \/ Open(u) \/ Wait(u) \/ WaitTimeout(u)
    \/ Ping(u) \/ Reopen(u)

UserStep(u) == Enter(u) \/ Progress(u) \/ Failures(u) \/ Release(u)

PoolNext == Close \/ \E u \in Users : UserStep(u)

PoolSpec == PoolInit /\ [][PoolNext]_poolVars

-----------------------------------------------------------------------------
PoolTypeOK ==
    /\ pool \in Seq(Conns)
    /\ created \in Int
    /\ pc \in [Users -> Labels]
    /\ conn \in [Users -> Conns \cup {NoConn}]
    /\ \A u \in Users : conn[u] # NoConn <=> pc[u] \in {"ping", "held"}
    /\ reaped \in Nat
    /\ shutdown \in {"no", "closing", "closed"}

\* Every reserved slot has exactly one owner: a user, a queued connection, or a
\* connection that close() closed.  No failure of connecting, and none of
\* pinging that the driver reports as its own, leaks one.
SlotAccounting == created = Cardinality(Owners) + Len(pool) + reaped

\* db_pool_size bounds the connections, at every interleaving.
NeverOvershoots == created <= PoolSize

\* "Sound accounting keeps the queue from ever filling": a connection that is
\* returned always finds room.
ReturnFindsRoom == \A u \in Users : pc[u] = "held" => ~QueueFull

\* No connection is ever shared: between two users, between a user and the
\* queue, or twice in the queue.
ExclusiveUse ==
    /\ \A u, v \in Users : u # v /\ conn[u] = conn[v] => conn[u] = NoConn
    /\ \A u \in Users : conn[u] \notin InPool
    /\ \A j, k \in DOMAIN pool : pool[j] = pool[k] => j = k

\* Whoever enters cursor() gets a connection or an error, even if nobody ever
\* returns one to the queue.
EveryAcquireEnds == \A u \in Users : pc[u] = "get" ~> pc[u] \in {"held", "idle"}
=============================================================================

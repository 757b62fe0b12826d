---------------------------- MODULE UserResolution ----------------------------
(***************************************************************************)
(* get_user_id on top of the connection pool.  The id is looked up once,   *)
(* under a lock of its own, by the first request that needs it (startup    *)
(* tries first, and goes on without it when the database is down).  The    *)
(* lookup takes a connection of the pool.  A request needs the id either   *)
(* before it takes its own connection (list_tasks, the writes) or while it *)
(* holds it (get_task, task_exists, list_exists, ...), or not at all (the  *)
(* readiness ping).  The server sends requests from the start to the end   *)
(* of the lifespan, which closes the pool when the last one is over.       *)
(***************************************************************************)
EXTENDS ConnectionPool

CONSTANTS
    Threads, Nobody,
    Kinds,          \* kinds of request sent: "outside", "inside", "ping"
    Lookups,        \* what the lookup may come to: TRUE found, FALSE raises
    DbUp            \* the database answers every connection attempt and ping

ASSUME ResolutionAssumption ==
    /\ Users = Threads \X {"req", "res"}
    /\ Nobody \notin Threads
    /\ Kinds \subseteq {"outside", "inside", "ping"}
    /\ Lookups \subseteq BOOLEAN
    /\ DbUp \in BOOLEAN

VARIABLES
    at,         \* where each request is
    kind,
    resolved,   \* is _user_id cached?
    lockOwner,  \* who holds _user_lock
    found       \* what the lookup under way came to

threadVars == <<at, kind, resolved, lockOwner, found>>
vars == <<poolVars, threadVars>>

\* The two connections a thread may be after: its own, and the lookup's.
Req(t) == <<t, "req">>
Res(t) == <<t, "res">>

\* Startup resolved the user, or the database failed it: on connecting, or on
\* the query.
ResolutionInit ==
    /\ PoolInit
    /\ at = [t \in Threads |-> "idle"]
    /\ kind = [t \in Threads |-> "ping"]
    /\ resolved \in {b \in BOOLEAN : b => TRUE \in Lookups /\ pool # <<>>}
    /\ lockOwner = Nobody
    /\ found = FALSE

MoveTo(t, label) == at' = [at EXCEPT ![t] = label]

Start(t, k) ==
    /\ at[t] = "idle" /\ shutdown = "no"
    /\ kind' = [kind EXCEPT ![t] = k]
    /\ IF k = "outside"
       THEN MoveTo(t, "need") /\ UNCHANGED poolVars
       ELSE MoveTo(t, "acquire") /\ Enter(Req(t))
    /\ UNCHANGED <<resolved, lockOwner, found>>

\* A step of _acquire that neither hands out a connection nor raises.
Acquiring(u) ==
    /\ \/ GetNow(u) \/ Reserve(u) \/ Open(u) \/ Wait(u) \/ Ping(u) \/ Reopen(u)
       \/ ~DbUp /\ (OpenFails(u) \/ PingFails(u) \/ ReopenFails(u))
    /\ UNCHANGED threadVars

\* cursor() is entered: the body starts.
Acquired(t) ==
    /\ at[t] = "acquire" /\ pc[Req(t)] = "held"
    /\ MoveTo(t, IF kind[t] = "inside" THEN "need" ELSE "leave")
    /\ UNCHANGED <<poolVars, kind, resolved, lockOwner, found>>

\* _acquire raises: the request ends with 503.
Raises(u) == WaitTimeout(u) \/ Unreserve(u)

AcquireFails(t) ==
    /\ at[t] = "acquire" /\ Raises(Req(t))
    /\ MoveTo(t, "idle")
    /\ UNCHANGED <<kind, resolved, lockOwner, found>>

\* get_user_id returned: go on to the query.
WithUserId(t) ==
    IF kind[t] = "inside"
    THEN MoveTo(t, "leave") /\ UNCHANGED poolVars
    ELSE MoveTo(t, "acquire") /\ Enter(Req(t))

\* get_user_id raised: the connection, if any, is released on the way out.
WithoutUserId(t) == MoveTo(t, IF kind[t] = "inside" THEN "leave" ELSE "idle")

\* The unlocked test of the cache.
GetUserId(t) ==
    /\ at[t] = "need"
    /\ IF resolved THEN WithUserId(t) ELSE MoveTo(t, "lock") /\ UNCHANGED poolVars
    /\ UNCHANGED <<kind, resolved, lockOwner, found>>

\* Variant: the cache is not tested again under the lock.
TakeLockAndLookUp(t) ==
    /\ at[t] = "lock" /\ lockOwner = Nobody
    /\ lockOwner' = t /\ MoveTo(t, "resolve") /\ Enter(Res(t))
    /\ UNCHANGED <<kind, resolved, found>>

\* with self._user_lock: the cache is tested again; if it is still empty, the
\* lookup enters cursor() with the lock held.
TakeLock(t) ==
    /\ at[t] = "lock" /\ lockOwner = Nobody
    /\ IF resolved
       THEN lockOwner' = Nobody /\ WithUserId(t)
       ELSE lockOwner' = t /\ MoveTo(t, "resolve") /\ Enter(Res(t))
    /\ UNCHANGED <<kind, resolved, found>>

\* The lookup runs and leaves its cursor(), with an id or an exception.
Lookup(t) ==
    /\ at[t] = "resolve" /\ Release(Res(t))
    /\ found' \in Lookups \cup {b \in {FALSE} : ~DbUp}
    /\ MoveTo(t, "assign")
    /\ UNCHANGED <<kind, resolved, lockOwner>>

\* Variant: the lock is not released by the exception.
LookupFailsLocked(t) ==
    /\ at[t] = "resolve" /\ Raises(Res(t))
    /\ lockOwner' = lockOwner
    /\ WithoutUserId(t)
    /\ UNCHANGED <<kind, resolved, found>>

\* No connection for the lookup: the exception leaves the lock.
LookupFails(t) ==
    /\ at[t] = "resolve" /\ Raises(Res(t))
    /\ lockOwner' = Nobody
    /\ WithoutUserId(t)
    /\ UNCHANGED <<kind, resolved, found>>

\* The result is cached and the lock released.
Assign(t) ==
    /\ at[t] = "assign"
    /\ lockOwner' = Nobody /\ found' = FALSE
    /\ resolved' = (resolved \/ found)
    /\ IF found THEN WithUserId(t) ELSE WithoutUserId(t) /\ UNCHANGED poolVars
    /\ UNCHANGED kind

\* The request's own statement has run, or raised; its cursor() is left.
Leave(t) ==
    /\ at[t] = "leave" /\ Release(Req(t))
    /\ MoveTo(t, "idle")
    /\ UNCHANGED <<kind, resolved, lockOwner, found>>

RequestStep(t) ==
    \/ Acquiring(Req(t)) \/ Acquiring(Res(t))
    \/ Acquired(t) \/ AcquireFails(t) \/ GetUserId(t)
    \/ Lookup(t) \/ LookupFails(t) \/ Assign(t)

\* The lifespan ends: the server has let the requests in flight finish.
CloseAll ==
    /\ \A t \in Threads : at[t] = "idle"
    /\ Close
    /\ UNCHANGED threadVars

Serving ==
    \E t \in Threads :
        (\E k \in Kinds : Start(t, k)) \/ RequestStep(t) \/ TakeLock(t) \/ Leave(t)

ResolutionNext == CloseAll \/ Serving

ResolutionSpec == ResolutionInit /\ [][ResolutionNext]_vars

\* Every call of the pool and of the lookup returns (the driver's carry timeouts,
\* and so does the queue's), and a waiter for the lock gets it if it is released
\* again and again.  Nothing is assumed of a request's own statement.
ResolutionFairness ==
    \A t \in Threads : WF_vars(RequestStep(t)) /\ SF_vars(TakeLock(t))

FairResolutionSpec == ResolutionSpec /\ ResolutionFairness

\* A service that stays up: moreover requests keep coming, and their statements
\* end.
Traffic == \A t \in Threads : WF_vars(\E k \in Kinds : Start(t, k)) /\ WF_vars(Leave(t))

BusyResolutionSpec ==
    ResolutionInit /\ [][Serving]_vars /\ ResolutionFairness /\ Traffic

-----------------------------------------------------------------------------
ResolutionTypeOK ==
    /\ PoolTypeOK
    /\ at \in [Threads -> {"idle", "acquire", "need", "lock", "resolve", "assign", "leave"}]
    /\ kind \in [Threads -> {"outside", "inside", "ping"}]
    /\ resolved \in BOOLEAN
    /\ lockOwner \in Threads \cup {Nobody}
    /\ found \in BOOLEAN

\* "Resolved once and cached": a lookup runs only under the lock, and never
\* after an id was cached.
ResolvesOnce ==
    \A t \in Threads : at[t] \in {"resolve", "assign"} => lockOwner = t /\ ~resolved

\* A request that is over has left nothing behind: no connection, no slot, no lock.
NothingLeftBehind ==
    \A t \in Threads : at[t] = "idle" =>
        pc[Req(t)] = "idle" /\ pc[Res(t)] = "idle" /\ lockOwner # t

\* The lock and the pool never deadlock each other: every request gets to run
\* its statement or ends in an error, even if no other ever ends its own.
EveryRequestEnds ==
    \A t \in Threads : at[t] \notin {"idle", "leave"} ~> at[t] \in {"idle", "leave"}

\* With the database up, the requests that need the user resolve it.
EventuallyResolved == <>resolved
=============================================================================

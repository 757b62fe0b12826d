------------------------------ MODULE DeltaSync ------------------------------
(***************************************************************************)
(* GET /v1/tasks[?since=<ms>] and a client that follows its contract: it   *)
(* passes the returned cursor as the next `since`, applies what it is sent *)
(* idempotently, and starts over without `since` after a 410.  One call is *)
(* several steps (the freshness check, now_ms(), the page SELECT, the      *)
(* drain SELECT, the reply), and the table changes between any two.        *)
(*                                                                         *)
(* `late` and `missed` are history variables.  They hold the rows whose    *)
(* last write landed BELOW a cursor: one the client already holds (late),  *)
(* or one the call in progress is about to hand out (missed).              *)
(***************************************************************************)
EXTENDS StampedTable, FiniteSets

CONSTANTS
    DefaultLimit, MaxLimit,   \* DEFAULT_PAGE_LIMIT, MAX_PAGE_LIMIT
    LimitParams, NoLimit,     \* `limit` query parameters; NoLimit: omitted
    CursorMaxAge,             \* CURSOR_MAX_AGE_MS; 0 disables the check
    Scope,                    \* rows that pass the list_id / inbox filter
    Hidden,                   \* rows a full read leaves out (include_completed=false)
    NoCursor,                 \* the client has no cursor: a full read
    NotSent                   \* the reply says nothing of this row

ASSUME SyncAssumption ==
    /\ IsFiniteSet(Ids)
    /\ DefaultLimit \in Nat \ {0} /\ MaxLimit \in Nat \ {0}
    /\ LimitParams \subseteq Nat \cup {NoLimit} /\ NoLimit \notin Nat
    /\ CursorMaxAge \in Nat
    /\ Scope \subseteq Data /\ Hidden \subseteq Data
    /\ NoCursor \notin Nat
    /\ NotSent \notin Data \cup {Absent}
    /\ Absent \notin Data

VARIABLES
    replica,    \* the client's copy: the data of every row it thinks active
    cursor,     \* the cursor it passes as `since`
    phase,      \* where the call in progress is
    limit,      \* its effective limit
    now,        \* its server_now
    got,        \* what its reply says of every row
    next,       \* the cursor its reply carries
    more,       \* the has_more its reply carries
    after,      \* last id of the page, where the drain resumes
    missed, late

callVars == <<phase, limit, now, got, next, more, after>>
clientVars == <<replica, cursor>>
vars == <<tableVars, clientVars, callVars, missed, late>>

Cursors == 0 .. MaxClock + 1

\* What a client that is told of `row` holds for it.
View(row) == IF row.deleted \/ row.data \in Hidden THEN Absent ELSE row.data

InScope(i) == Present(i) /\ table[i].data \in Scope

Precedes(i, j) ==                   \* ORDER BY last_modified ASC, task_id ASC
    \/ table[i].lm < table[j].lm
    \/ table[i].lm = table[j].lm /\ i < j

IsPage(page, rows, n) ==            \* ... LIMIT n
    /\ page \subseteq rows
    /\ Cardinality(page) = IF Cardinality(rows) < n THEN Cardinality(rows) ELSE n
    /\ \A i \in page, j \in rows \ page : Precedes(i, j)

IsLast(i, page) == i \in page /\ \A j \in page \ {i} : Precedes(j, i)

\* Variant: an omitted limit is passed through.
UndefaultedLimit(l) == l

ClampLimit(l) ==
    IF l = NoLimit THEN DefaultLimit
    ELSE IF l > MaxLimit THEN MaxLimit
    ELSE IF l < 1 THEN 1 ELSE l

EffectiveLimits == {ClampLimit(l) : l \in LimitParams}

Expired(since) == CursorMaxAge > 0 /\ since + CursorMaxAge < clock

\* Variant: a delta that leaves soft-deleted rows out.
SelectedActiveOnly ==
    {i \in Ids : /\ InScope(i)
                 /\ View(table[i]) # Absent
                 /\ cursor # NoCursor => cursor <= table[i].lm /\ table[i].lm <= now}

\* The rows the WHERE clause selects.
Selected ==
    {i \in Ids : /\ InScope(i)
                 /\ IF cursor = NoCursor
                    THEN View(table[i]) # Absent
                    ELSE cursor <= table[i].lm /\ table[i].lm <= now}

IsFullPage(page) == page # {} /\ Cardinality(page) = limit

\* Variant: the page is never recognised as sitting on one millisecond.
NeverSingleMs(page) == page # page

IsSingleMsFullPage(page) ==
    IsFullPage(page) /\ \A i, j \in page : table[i].lm = table[j].lm

Rows(ids) == [i \in Ids |-> IF i \in ids THEN View(table[i]) ELSE got[i]]

NothingSent == [i \in Ids |-> NotSent]

-----------------------------------------------------------------------------
SyncInit ==
    /\ TableInit
    /\ replica = [i \in Ids |-> Absent]
    /\ cursor = NoCursor
    /\ phase = "idle"
    /\ limit = DefaultLimit
    /\ now = 0 /\ next = 0 /\ after = 0
    /\ got = NothingSent
    /\ more = FALSE
    /\ missed = {} /\ late = {}

\* The request arrives and passes ensure_cursor_fresh ...
Admit ==
    /\ phase = "idle"
    /\ cursor # NoCursor => ~Expired(cursor)
    /\ phase' = "admitted"
    /\ limit' \in EffectiveLimits
    /\ UNCHANGED <<tableVars, clientVars, now, got, next, more, after, missed, late>>

\* ... or is answered 410: the client drops its cursor and resyncs.
Refuse ==
    /\ phase = "idle"
    /\ cursor # NoCursor /\ Expired(cursor)
    /\ cursor' = NoCursor
    /\ late' = {}
    /\ UNCHANGED <<tableVars, replica, callVars, missed>>

ReadClock ==
    /\ phase = "admitted"
    /\ now' = clock
    /\ phase' = "clocked"
    /\ UNCHANGED <<tableVars, clientVars, limit, got, next, more, after, missed, late>>

\* The tail: everything up to server_now is on this page.
TailPage(page) ==
    /\ ~IsFullPage(page)
    /\ next' = now /\ more' = FALSE
    /\ phase' = "reply"
    /\ UNCHANGED after

\* A capped page: the cursor stays on its last row.
CappedPage(page) ==
    /\ IsFullPage(page) /\ ~(cursor # NoCursor /\ IsSingleMsFullPage(page))
    /\ \E i \in page : IsLast(i, page) /\ next' = table[i].lm
    /\ more' = TRUE
    /\ phase' = "reply"
    /\ UNCHANGED after

\* A capped delta page on one millisecond: drain it and move past it.
SingleMsPage(page) ==
    /\ cursor # NoCursor /\ IsSingleMsFullPage(page)
    /\ \E i \in page : IsLast(i, page) /\ next' = table[i].lm + 1 /\ after' = i
    /\ more' = FALSE
    /\ phase' = "drain"

\* The page SELECT, and the cursor and has_more computed from it.
SelectPage(page) ==
    /\ phase = "clocked"
    /\ IsPage(page, Selected, limit)
    /\ got' = Rows(page)
    /\ TailPage(page) \/ CappedPage(page) \/ SingleMsPage(page)
    /\ UNCHANGED <<tableVars, clientVars, limit, now, missed, late>>

Select == \E page \in SUBSET Ids : SelectPage(page)

\* Variant: the drain starts one id too late.
DrainedPastNext == {i \in Ids : InScope(i) /\ table[i].lm + 1 = next /\ i > after + 1}

\* _drain_tasks_at: the second SELECT of a page that sits on one millisecond.
Drained == {i \in Ids : InScope(i) /\ table[i].lm + 1 = next /\ i > after}

Drain ==
    /\ phase = "drain"
    /\ got' = Rows(Drained)
    /\ missed' = missed \ Drained
    /\ phase' = "reply"
    /\ UNCHANGED <<tableVars, clientVars, limit, now, next, more, after, late>>

\* The client applies the reply: a full read replaces its copy.
Applied(i) ==
    IF got[i] # NotSent THEN got[i]
    ELSE IF cursor = NoCursor THEN Absent ELSE replica[i]

EndCall ==
    /\ phase' = "idle"
    /\ got' = NothingSent
    /\ now' = 0 /\ next' = 0 /\ after' = 0 /\ more' = FALSE
    /\ missed' = {}
    /\ limit' = DefaultLimit

Accept ==
    /\ phase = "reply"
    /\ replica' = [i \in Ids |-> Applied(i)]
    /\ cursor' = next
    /\ late' = late \cup missed
    /\ EndCall
    /\ UNCHANGED tableVars

\* Any step may fail (503 without a connection, a lost reply): the client
\* keeps its cursor and asks again.
Fail ==
    /\ phase # "idle"
    /\ EndCall
    /\ UNCHANGED <<tableVars, clientVars, late>>

Below(lm, c) == c # NoCursor /\ lm < c

Landed(ids, i, below) == IF below THEN ids \cup {i} ELSE ids \ {i}

\* A row changes under the call in progress.
RowWrite(i) ==
    /\ Write(i)
    /\ late' = Landed(late, i, Below(table'[i].lm, cursor))
    /\ missed' = Landed(missed, i, phase \in {"drain", "reply"} /\ Below(table'[i].lm, next))
    /\ UNCHANGED <<clientVars, callVars>>

Stamping ==
    /\ Tick \/ \E w \in Writers : TakeStamp(w) \/ Withdraw(w)
    /\ UNCHANGED <<clientVars, callVars, missed, late>>

SyncStep == Admit \/ Refuse \/ ReadClock \/ Select \/ Drain \/ Accept

SyncNext == SyncStep \/ Fail \/ Stamping \/ \E i \in Ids : RowWrite(i)

SyncSpec == SyncInit /\ [][SyncNext]_vars

\* Time passes, the client keeps polling, and no step of a call fails forever.
Fairness ==
    /\ WF_vars(Stamping /\ Tick)
    /\ WF_vars(Admit) /\ WF_vars(Refuse)
    /\ SF_vars(ReadClock) /\ SF_vars(Select) /\ SF_vars(Drain) /\ SF_vars(Accept)

FairSyncSpec == SyncSpec /\ Fairness

-----------------------------------------------------------------------------
\* Every variable keeps its type; a drain always has a cursor to move past.
SyncTypeOK ==
    /\ TableTypeOK
    /\ replica \in [Ids -> Data \cup {Absent}]
    /\ cursor \in Cursors \cup {NoCursor}
    /\ phase \in {"idle", "admitted", "clocked", "drain", "reply"}
    /\ limit \in Nat \ {0}
    /\ now \in Stamps
    /\ got \in [Ids -> Data \cup {Absent, NotSent}]
    /\ next \in Cursors
    /\ more \in BOOLEAN
    /\ after \in Ids \cup {0}
    /\ missed \subseteq Ids /\ late \subseteq Ids

\* The sync contract: the client's copy of a row is current, or the row will
\* still be delivered because its stamp is at or above the cursor, or its last
\* write landed below a cursor already handed out.  No page boundary, drain,
\* failed call, deletion or resync loses a change in any other way.
NoSilentLoss ==
    cursor # NoCursor =>
        \A i \in Ids : InScope(i) => \/ replica[i] = View(table[i])
                                     \/ table[i].lm >= cursor
                                     \/ i \in late

\* "Pagination can never stall": a delta page that asks the client to call
\* again hands out a later cursor than the one it was called with.
PagingNeverStalls ==
    phase = "reply" /\ more /\ cursor # NoCursor => next > cursor

\* No write ever lands below a cursor the client holds.
NoLateChange == late = {}

\* What a reply being put together says of a row: its current view, or the row
\* will be seen again (its stamp is at or above the reply's cursor, or the drain
\* is still to come), or a write landed below that cursor meanwhile, or the
\* reply may leave it out because the client already has it right.
ReplyAccountsFor(i) ==
    \/ got[i] = View(table[i])
    \/ table[i].lm >= next
    \/ i \in missed
    \/ phase = "drain" /\ table[i].lm + 1 = next /\ i > after
    \/ /\ got[i] = NotSent
       /\ IF cursor = NoCursor
          THEN View(table[i]) = Absent
          ELSE replica[i] = View(table[i]) \/ i \in late

\* The strengthening of NoSilentLoss inside a call: whatever happens between
\* its steps, its reply accounts for every row.
ReplyAccountsForAll ==
    phase \in {"drain", "reply"} => \A i \in Ids : InScope(i) => ReplyAccountsFor(i)

UpToDate ==
    /\ cursor # NoCursor
    /\ \A i \in Ids \ late : InScope(i) => replica[i] = View(table[i])

TableSettles == <>[][UNCHANGED table]_vars

\* If the table stops changing, the client's copy becomes and stays current in
\* every row whose last write was not late, whatever limits it pages with.
ReplicaConverges == TableSettles => <>[]UpToDate
=============================================================================

# Verification of supernote-task-service

TLA+ models of the task service, model-checked with TLC and, where it matters
most, proved with TLAPS. The service is a FastAPI application that exposes the
to-do tasks of one Supernote user: it reads and writes the MariaDB tables the
Supernote device itself synchronises with, and offers its clients incremental
sync and optimistic concurrency over them. It holds almost no state of its own;
what is hard about it is the order in which independent statements of several
threads, the device, the clock and the clients happen.

Source paths below are relative to `src/supernote_task_service/`.

## 1. Inventory

| component | code | state | operations |
|---|---|---|---|
| Incremental task sync | `repository.py` `list_tasks`, `_drain_tasks_at`, `_page_cursor`; `routers/tasks.py` `list_tasks`; `deps.py` `ensure_cursor_fresh` | none in the service: the table `t_schedule_task`, and the client's copy and cursor | freshness check, `now_ms()`, page SELECT, drain SELECT, reply |
| Task writes | `repository.py` `create_task`, `update_task`, `set_status`, `delete_task`, `_next_sort`; `routers/tasks.py` | the rows of `t_schedule_task` | POST, PATCH, DELETE, complete, uncomplete; each a sequence of autocommitted statements |
| Single-task read | `get_task`, `_require_task` | none | GET, and the reload every successful write answers with |
| Lists | `repository.py` `list_lists`, `create_list`, `update_list`, `delete_list`, ...; `routers/lists.py` | the rows of `t_schedule_task_group` | GET (full and delta), POST (reusing a list of the same title), PATCH, DELETE |
| Connection pool | `db.py` `_acquire`, `_release`, `cursor`, `close` | `_pool` (LIFO queue), `_created` | take, reserve, connect, ping, reconnect, release, close |
| User resolution | `db.py` `get_user_id`, `_resolve_user_id`; `main.py` `_lifespan` | `_user_id`, `_user_lock` | look up once, cache |
| Rate limiter and request gate | `ratelimit.py`, `deps.py` `enforce_rate_limit` | `_buckets` | `check`, `_evict_expired` |
| Encodings | `encoding.py` | none | emoji, detail truncation, links, dates |
| Request and response models | `models.py` | none | validation |
| API keys, error handlers, app factory, health, configuration | `security.py`, `errors.py`, `main.py`, `routers/health.py`, `config.py` | none that changes | stateless |

How they interact. Endpoints are plain `def` functions, so FastAPI runs them on a
pool of worker threads: two handlers interleave at every statement. Every
repository method calls `get_user_id` (which may take a lock and a connection)
and `Database.cursor()` (which takes a connection from the pool, perhaps waiting
for it, and gives it back). Some methods call `get_user_id` *before* they take
their connection (`list_tasks`, the writes), others *while they hold it*
(`get_task`, `task_exists`, `list_exists`, `_row_matches_version`, ...).
Connections are in autocommit mode, so a handler is never a transaction. The
device writes the same tables with its own clock, and never talks to the service.

What is hard, and what each component has to get right:

- **Sync.** `server_now`, the page and the drain are read at three moments; rows
  are written in between, with stamps computed earlier still. Pages are cut by
  `LIMIT` at any row, also between two rows of one millisecond. Right means: no
  change is lost, pagination makes progress, a client that keeps polling ends up
  with the table.
- **Writes.** The stamp, the next sort position, the WHERE clause, the second
  look of `_resolve_write` and the reload of `_require_task` are separate
  moments. Right means: 404 and 409 have a cause, a conditional write never
  overwrites what its client has not seen, an appended task is placed after the
  others but for overlapping writes, and the table stays what sync relies on.
- **Pool.** The queue and the counter have different locks, and connecting,
  pinging and reconnecting happen under none. Right means: no slot leaks, the
  size is a bound, no connection is shared, and nobody waits forever.
- **User resolution.** A lock is held while a connection is waited for, and a
  connection is held while the lock is waited for. Right means: one lookup, no
  deadlock, nothing left behind by an exception, and it succeeds eventually.
- **Rate limiter.** The clock is read before the lock, and other checks may evict
  or renew a window in between. Right means: a client gets no more than the limit
  in its window and is refused only when it has had it, memory is bounded, and
  Retry-After tells the truth.
- **Lists.** Reuse by title is check-then-insert; renames and deletions are
  conditional writes like those of tasks; a full read is ordered by title but
  hands out a cursor in time. Right means: what it means for tasks, and, as the
  README of the service has it, no second list of a title.
- **Encodings.** A text changes its length on the way into the column, is cut off
  there, and everything that looks like a token is decoded on the way out, whoever
  wrote it. Right means: no token is cut, a client reads what it sent, and what it
  reads can be written back and looked up.

PROJECT.json lists every component with what is modelled of it, and under
"hazards" each of these points at its line with the properties that watch it.

## 2. Modules

| module | models | composes |
|---|---|---|
| `StampedTable` | the contract of the two tables: rows stamped with `last_modified`, never removed, tombstones the service never writes again, stamps taken in one step and committed in a later one, a device that writes what it likes | - |
| `DeltaSync` | `GET /v1/tasks` and a client that follows the documented contract | EXTENDS `StampedTable` as its environment |
| `TaskStore` | the writing endpoints, statement by statement | refines `StampedTable` (`Table == INSTANCE StampedTable WITH table <- tasks, pending <- stamp`) |
| `ConnectionPool` | `Database._acquire`, `_release`, `close` | - |
| `ListStore` | the writing endpoints of the lists, statement by statement | EXTENDS `StampedTable`, whose `table` it writes, and is shown to obey its specification |
| `ListSync` | `GET /v1/lists` and its client | EXTENDS `DeltaSync`: the delta call is the same, the full read is new |
| `RateLimiter` | `RateLimiter.check`, `_evict_expired` and the answer of `enforce_rate_limit` | - |
| `Encoding` | `encode_emoji`, `encode_detail`, `decode_emoji` around a title and a detail column | - |
| `UserResolution` | `get_user_id` and the three kinds of request that need it, or do not | EXTENDS `ConnectionPool`: a thread is two users of the pool, its request and its lookup |
| `MC*` | small constants for TLC | |
| `*_proofs` | theorems | |

`StampedTable` is the hinge. `DeltaSync` is checked against *any* table that
behaves as `StampedTable` says, and `TaskStore` is shown (by TLC on a small
instance, by TLAPS for every one) to behave so. `ListStore` and `ListSync` meet
there in the same way. The sync results therefore hold for the tables the write
endpoints produce, without one module holding both. `Encoding` keeps to itself:
what the other modules call a text goes through it, and none of them looks inside.

### How the modules correspond to the code

**DeltaSync.** One call is the phases `idle -> admitted -> clocked -> (drain ->)
reply`. `Admit`/`Refuse` are `ensure_cursor_fresh`; `ReadClock` is `server_now =
now_ms()`; `SelectPage` is the page SELECT with everything computed from it,
whose three outcomes are the three returns of the paging logic: `TailPage`
(cursor `server_now`), `CappedPage` (cursor of the last row, `has_more`) and
`SingleMsPage` (the page sits on one millisecond; cursor `boundary + 1`). `Drain`
is the second SELECT. `Accept` is the client applying the reply (a full read
replaces its copy, a delta updates it); `Fail` is a 503 or a lost reply at any
point, after which the client repeats its call. A reply is a function from rows
to what it says of them, so pages need no sequences; `Precedes` is the ORDER BY.
`RowWrite` lets any row change between two steps. What a row holds is one of a
few model values; `Scope` are those that pass the `list_id`/`inbox` filter and
`Hidden` those a full read leaves out under `include_completed=false`.

**TaskStore.** A worker walks the labels `list`, `complete`, `stamp`, `sort`,
`execute`, `match`, `resolve`, `reload`, `done`: the calls its handler makes, in
order. `TakeCompletedTime` and `TakeStamp` are the two `now_ms()` of a PATCH that
completes a task. `Update` requires the WHERE clause to match *and* the row to
change, because the driver reports rows changed, not rows matched;
`UpdateNothing` is the other case. `Fail` is a 503 before a statement ran, and
`Committed` lets the connection be lost after one did. Title, detail, importance,
due date and link are one field `text` (they only ever get copied); list, sort
and status/completed_time are kept since the code treats them differently. An
explicit `null` is ignored for title, detail, status and sort, means the Inbox for
`list_id` (`Settable`), and clears due date, importance and document link, which in
the model is a body that sets another text. The device adds, edits, moves, deletes
and restores rows (`DeviceEdit`: any stamp of `DeviceStamps`, any contents of
`DeviceData`). A worker also stands for its client: `known` is the version it read
last. `changed`, `gone`, `noop` and `placed` are history variables; `placed` holds
the tasks that got another place (list, sort, deletion) since a worker computed the
position it is about to insert at.

**ConnectionPool.** A user is a thread inside `cursor()`; its `pc` names the
place in `_acquire`. A connection is `Take`n from the queue and pinged; an empty
queue leads to `Reserve`, then `Open` or `Wait`. A failed connect keeps its slot
until `Unreserve`, a step of its own as in the code. `Release` has both branches
of `_release`. `Shutdown`, `CloseOne`, `CloseDone` are `close()`; `reaped` (history)
counts the slots it leaves reserved, since it does not decrement `_created`. The
pool starts empty, or with the one connection that the startup's look-up returned.
The failures of the driver are `pymysql.Error`, as `_acquire` expects them: an
exception of another kind out of `ping()` would leave `_acquire` with its
connection and slot, and is not modelled.

**UserResolution.** `GetUserId` is the unlocked test, `TakeLock` the lock with the
second test, `Lookup` the SELECTs (found, or raised), `LookupFails` the exception
that leaves the lock when no connection is to be had, `Assign` the caching. Startup is the initial state: resolved, with the connection it
used in the queue, or the database was down (a user that cannot be determined
stops the boot). The server sends requests only while the lifespan lasts, and ends
it (`CloseAll`) when the last one in flight is over.

**ListStore.** A worker walks `lookup`, `stamp`, `execute`, `resolve`, `reload`,
`done`. `Found` is the ORDER BY of `get_list_by_title`; `LookUp` answers with the
list it finds (200) or goes on to the insert; `Stamp` is `now_ms()`; `Insert`,
`Update` and `UpdateNothing` are the statements (rows changed, not rows matched,
as in `TaskStore`); `Resolve` is the second look of `_resolve_write`, `Reload`
`get_list`. What a title is compared by (case, accents: the column's collation)
is equality here. `since` (history) holds the lists written after the look-up.

**ListSync.** `ReadAll` is the full read: a page of the active lists cut by title
(`IsTitlePage`; `Rank` is the place of a title in the order), its cursor the last
row's stamp when it is full. `ReadDelta` and every other step are `DeltaSync`'s.
The lists a capped page leaves behind below its cursor join `missed`, so that
`NoSilentLoss` says what else may get lost: nothing.

**RateLimiter.** A check is `ReadClock` and, under the lock, `Allow` or `Deny`;
both evict first (`Kept`). Time is in ticks, `Second` of them to a second, because
Retry-After is rounded to seconds (halves to the even one). `enforce_rate_limit` is an
`async def` and calls `check` on the event loop, so in the service checks do not
overlap; the class promises to be thread-safe, and the model has threads. `ends`
and `granted` (history) are the end of the window a client was last given and
what it was granted before the clock reached it.

**Encoding.** A text is a sequence of symbols, a run of hexadecimal digits being
one symbol, each with the number of characters it stands for. There is an emoji,
a character below U+FFFF with a token of its own, a token that spells `[`, one
that spells a surrogate, and the parts of tokens, so that texts which look like
tokens, typed or made by decoding another one, occur. A row is written by the
device or the client, read, and written back as it was read, again and again.
The three functions are recursive functions on sequences, and the loop of
`encode_detail` is the place where it stops: the first symbol that does not fit
(`Fits`). The code goes character by character and so may keep the beginning of a
symbol of several characters (a run of digits, or `U+`), which the model drops whole;
no property tells the two apart, since what is kept of it forms no token.

## 3. What is checked

Passing runs (two workers, each below three minutes):

| run | bounds | shows |
|---|---|---|
| `sync_converge` | 2 rows of 2 kinds (one hidden from full reads), 1 writer, a device that stamps 0 or the maximum, limits 1 and 2 | `NoSilentLoss`: a row in scope is current at the client, or still above its cursor, or its last write landed below a cursor (`late`). `ReplyAccountsForAll`: the same inside a call. `ReplicaConverges`: once the table settles, the client ends up with it. |
| `list_sync` | 3 lists, 1 writer, clock to 2, limits 1 and 2, cursors expire after 1, starting empty, on one millisecond or on two | the same safety for lists with a full read cut by title, and `PagingNeverStalls`: `has_more` on a delta page comes with a later cursor. |
| `store` | 2 workers, 1 task that comes and goes, Inbox and a list that may be deleted, 5 kinds of request, a device that writes any row with the least or the greatest stamp, clock to 2 | `StoreTypeOK`, `ConflictIsReal`, `NotFoundIsReal`, `NoLostUpdate`, and the refinement `ImplementsStampedTable`. |
| `lists` | 2 workers, 2 list ids, 2 titles, create, rename (with and without a version), delete, device edits with a lagging stamp | `ListTypeOK`, `ListAnswersAreReal`, `ListNoLostUpdate`, and the refinement `ListsAreStamped`. |
| `users` | 2 threads (4 users) on a pool of 2, 3 connection identities, everything may fail, the end of the lifespan | the pool: `SlotAccounting`, `NeverOvershoots`, `ReturnFindsRoom`, `ExclusiveUse`, `EveryAcquireEnds`; and the lookup over it: `ResolvesOnce`, `NothingLeftBehind`, `EveryRequestEnds`. |
| `limiter` | 2 threads, 2 clients, limit 2, windows of 2 seconds of 4 ticks, eviction from 1 bucket on, clock to 12 | `LimitHolds`, `DeniedForCause`, `OnlyLiveWindowsPileUp`, `RetryAfterIsClose`. |
| `encoding` | every text of up to 4 symbols and 26 longer ones, device rows with each token, title column of 16 characters, detail of 19 | `ReadsAsSent`, `ReadBackSettles`, `ReadTitleIsFound`, `RefusedOnlyForEmoji`. |

Why the bounds are enough. Sync needs a page boundary inside a millisecond, one
between milliseconds, and a row left for the drain: three rows and limits 1 and 2
give all of them, and a clock of three values gives a stamp below, at and above a
cursor. A conditional write needs two writers and a third party on one row that may be
deleted and restored; what it says is told apart by the stamps, so one text will
do. A pool of two whose two threads each need up to two connections has
holders, a waiter and a user about to reserve at the same time, and the lookup
may wait for what the other thread and its own hold. The limiter's clock passes the
end of a window and half of another one, and halves of a second occur at every reading. The detail column ends at each place of
a token in turn. Where a theorem exists
(section 4) the bound does not matter.

Bounds that are not the code's: `MaxClock` (the clock stops), `MaxSort` (a sort
beyond it is not taken). Symmetry is used in `store` and `lists`, whose
workers are interchangeable, and in `limiter` (threads, and clients); these check
safety only. `users`, `limiter` and `encoding` may stop (at the end of the lifespan;
at the bound of the clock; at a row of the device that was read and is not written
again), so they do not check for deadlock; the other runs do. In `users` the
deadlock that matters is `EveryRequestEnds`.

Every passing property has a mutant in PROJECT.json: a definition replaced by a
plausible slip (the `Variant` operators in the modules) that violates it.

### Fairness

- `FairSyncSpec`: time passes while it can (`WF` of the tick), the client keeps
  polling (`WF` of `Admit` and `Refuse`), and a step of a call that is possible again and again is
  taken (`SF`): calls may fail any number of times but not forever. `ReplicaConverges`
  is conditional on the table settling (`TableSettles`); nothing is assumed of
  writers.
- `FairResolutionSpec`: a step of a request that can go on is taken (`WF`): driver
  calls carry `connect_timeout`, `read_timeout` and `write_timeout`, and the queue
  wait has a timeout; and a thread that waits for `_user_lock` gets it if it is free
  again and again (`SF`). Nothing is assumed of a request's own statement, so
  `EveryAcquireEnds` and `EveryRequestEnds` hold although whoever holds a
  connection may keep it.
- `BusyResolutionSpec` (`user_starved` only) is the service while it serves: the
  lifespan does not end, requests keep coming and their statements end. Even so the
  lookup may starve.

### Findings

Each is a run with `expect: violation`: TLC finds the behaviour, and the finding
in PROJECT.json quotes the sentence it contradicts.

1. `sync_late`: a write that was stamped before a sync call and commits after it
   is below the cursor handed out and is never delivered. A second way to the same
   end is the drain: its cursor `boundary + 1` may lie above the present
   millisecond, so a later write in that millisecond is below it (the run stays clear
   of drained pages to show the first way; with a limit of 1 and a clock that stands
   still it shows the second).
2. `sync_expiry`: with `CURSOR_MAX_AGE_MS` set, a capped page of old rows hands
   out a cursor that is already expired; the client alternates between full read
   and 410 and never gets past that page.
3. `user_starved`: with the database up and a pool of two, two requests at a time
   that hold a connection while they wait for the user's lookup keep it from ever
   getting one. Both connections are held, the lookup times out and its request
   fails; the connection the request gives back is taken by the next request before
   the other one's lookup has looked into the queue; and so on. No request fails for
   another reason, and the service is not being shut down.
4. `list_capped`: a full read of the lists that is cut by its limit (more than 500
   lists by default) hands out the stamp of its last *title*; lists behind the
   page that are older than that are returned neither by it nor by delta calls
   that start there.
5. `list_twins`: two clients that ensure a list by its name at the same time both
   look before either inserts, and make two lists of that name. `POST /v1/lists` is
   documented to remove this very race. `TwinsOverlap` (section 4) proves that an
   overlap is the only way: the other list got its title, by a create, a rename or
   the device, after the create had looked.

Seen while modelling, and left as they are: a drained page answers `has_more:
false` although rows of later milliseconds were cut off by LIMIT, so a client that
stops there is behind until it polls again (`ReplicaConverges` has a client that
does, and so does not show it); a client that syncs one list is never told that a
task left it; two concurrent creates in one list get the same position, although an
omitted sort is documented to append at the end (`AppendedComesLast` proves that
only a write between the SELECT of the position and the INSERT disturbs the order).

Seen too, and stated in the properties as exceptions: two writes in one
millisecond give a row the same version, so a conditional write does not notice
the second (`changed = "clash"` in `NoLostUpdate` and `ListNoLostUpdate`; the same for a device whose
clock lags and for stamps that commit in the opposite order of being taken); an
UPDATE that leaves the row as it was affects no row and is answered 404 or 409
(`noop` in `ConflictIsReal`, `NotFoundIsReal` and `ListAnswersAreReal`); a list
whose title the device wrote with a token for a character below U+FFFF is read
decoded and not found by what was read, so a create makes a second one
(`ReadTitleIsFound`); a text with a typed token is read decoded, and may be decoded
once more after it is written back (`ReadsAsSent`, `ReadBackSettles`); a title
within the limit of the model may exceed the column for its emoji and is answered
503 (`RefusedOnlyForEmoji`); Retry-After may name a moment up to half a second before
the window ends (`RetryAfterIsClose`); a slot freed by a failed
connect wakes no waiter, which then times out with capacity left
(`EveryAcquireEnds` only says that it ends).

## 4. What is proved

All theorems hold for every value of the constants that satisfies the named
ASSUMEs (`TableAssumption`, `SyncAssumption`, `StoreAssumption`,
`RequestAssumption`, `PoolAssumption`, `ResolutionAssumption`, `ListAssumption`,
`RankAssumption`, `LimiterAssumption`, `EncodingAssumption`): finite sets of ids and threads, natural
bounds, distinguished values outside the sets they mark, and, for requests, what
the models of the bodies let through. The texts of `Encoding` are any set of
sequences of its symbols, of any length.

**DeltaSync_proofs.** `SyncTypeCorrect`, `NothingIsSilentlyLost`,
`RepliesAccountForAll`, `PagingProgress`. `NoSilentLoss` is not inductive: it
speaks only of the client between calls. `SyncInv` adds `ReplyAccountsForAll`,
which says during a call why the reply, once applied, will re-establish it, and
`CallShape`, which ties cursor, `more` and phase together. The page SELECT is
where the argument is: a row left off a capped page orders after the page's last
row, so its stamp is at or above the cursor (`LeftOffPageIsLater`); an uncapped
page is everything selected (`UncappedPageIsWhole`); a page that is not on a
single millisecond has a last stamp above its first, hence above `since`
(`MultiMsPageMovesOn`), which is `PagingNeverStalls`.

**TaskStore_proofs.** `StoreTypeCorrect`, `ConflictsAreReal`, `MissingIsReal`,
`NoUpdateIsLost`, `AppendedComesLast`, `StoreImplementsTable`. The inductive invariant `StoreInv` says
of each worker: it holds a stamp exactly between taking it and its statement
(`StampInv`, which makes the refinement map work); the version its client knows
is the row's, or the row has a later one, or the two clash (`KnownInv`); and what
its call has established so far (`CallInv`: a target that is not active was seen
gone; a failed match has its reason recorded before `_resolve_write` looks).
`NotedWrite` shows that a write by anyone, service or device, keeps these for
everyone else, so each action needs an argument only about its own worker. The
type invariant rests on `NewDataType`: a row built from an accepted body has
values its columns can hold; it would fail if an explicit null were written.
`AppendedComesLast` proves `AppendedIsLast`, which no run checks (it takes two tasks
and two overlapping writers, too many states together with the device), and adds
`PositionInv`: from the SELECT of the position on, every task of the list that is
not in `placed` lies before it. The SELECT establishes it
(`NextPositionType`: the least bound of finitely many sorts exists), and any write
by anybody either leaves a task in its place or puts it into `placed`.

**ConnectionPool_proofs.** `SlotsAreAccountedFor`, `PoolNeverOvershoots`,
`QueueNeverFills`, `ConnectionsAreExclusive`, for any number of threads and any
size. `PoolInv` is the conjunction of the type, the accounting equation, the
bound and exclusiveness; `QueueNeverFills` follows from it, since a held
connection and the queued ones all count as created. So the defensive branch of
`_release` cannot be reached.

**UserResolution_proofs.** `ResolutionImplementsPool` (every step of a request and
its lookup is a step of the pool, or leaves it alone), so what is proved of the
pool holds under lookups (`PoolHoldsUnderLookups`); `ResolutionTypes`,
`UserIsResolvedOnce`, `NothingStaysBehind`. The invariant `ResolutionInv` adds to
the pool's one the coupling of a thread to its two users (`Coupled`): at each
place of a request it fixes which of them may hold or wait for a connection, who
owns the lock, and that nothing is cached while somebody looks up. Neither
property is inductive without it.

**ListStore_proofs.** `ListTypeCorrect`, `AnswersAreReal`, `NoListUpdateIsLost`,
`TwinsOverlap`, `ListsImplementTable`. `ListInv` has the parts of `StoreInv`
(`StampInv`, `KnownInv`, `CallInv`) and `TwinInv`: a create that found no list of
its title has every list that has the title now in `since`. What makes `LookUp`
establish it is that a title that is taken is found: the oldest of finitely many
lists exists, although Ids need not be finite (stamps are bounded numbers and ids
are numbers, so the order has a least element). `TwinsOverlap` is what remains of
`NoTwins`, which `list_twins` refutes.

**ListSync_proofs.** `ListSyncTypes`, `NoListIsSilentlyLost`,
`ListRepliesAccountForAll`, `ListPagingProgress`. `SyncInv` is the invariant here
too, and the steps `ListSync` shares with `DeltaSync` keep it by the lemmas proved
there. Only `ReadAll` is new (`FullReadPage`): a full page that is cut by title
accounts for the rows behind it because they are above its cursor or missed.

**RateLimiter_proofs.** `TypesHold`, `NeverOverLimit`, `DenialsHaveCause`,
`MemoryIsBounded`, `RetryAfterHolds`, for any threads, clients, limits, windows and
threshold. `LimiterInv` ties the bucket to the history (`WindowIsLastGiven`): a
bucket is the window its client was last given and has counted what was granted,
and a client without one was last given a window the clock has passed; and no
reading is ahead of the clock (`ReadingsArePast`), so a window a check finds
expired, or evicts, has ended.

**Encoding_proofs.** `ColumnsHoldTexts`, `TextIsReadAsSent`,
`ReadingBackSettles`, `TitleReadIsFound`, `OnlyEmojiAreRefused`, for texts of any
length and any limits. The invariant `EncodingInv` is simple: what is stored is the
encoding of what was sent, what was seen is the decoding of what is stored, and
what was refused was too long. The work is in the functions. That they are what
their recursive equations say, and every fact about all texts, comes from one
principle: a nonempty set of sequences has a shortest one (`Shortest`), so that
recursion on the length has a solution (`RecursionOnLength`) and a set that
contains a text whenever it contains the shorter ones, or its tail, contains every
text (`LengthInduction`, `TailInduction`; stated with sets, since a lemma with an
operator as parameter cannot be instantiated). On them rests the main lemma,
`NoAccidentalToken`: an encoded text begins with a token only where the text begins
with an emoji or with a token that was typed. So encoding and decoding go through a
text side by side (`AgainStep`); a text without typed tokens comes back
(`AgainTheSame`), and any other one comes back shorter (`AgainSettles`), because a
token is longer than its character. `EncodeDetailIsCut` is the loop of
`encode_detail`: it stops somewhere, what it has fits, and the next character does
not.

**Only model-checked.** Liveness (`ReplicaConverges`, `EveryAcquireEnds`,
`EveryRequestEnds`): fairness and ENABLED are outside the prover. Every invariant
and every action property of a passing run is a theorem.

## 5. What is not modelled

- The join that adds a list's title to a task (`category`), document links (Base64
  and JSON of the standard library) and dates (floating point): no state. A row
  the response model refuses makes the whole page a 500; that and a due date that
  loses a millisecond are listed as hazards.
- API-key comparison, the address a request is counted under, middleware,
  configuration parsing, health constants: stateless.
- The collation of titles: equal titles are equal texts. The Inbox entry of a full
  read of lists, which never changes.
- Transactions and isolation inside MariaDB: each statement is atomic, which
  autocommit and single-row UPDATEs justify. SELECTs read one snapshot.

## 6. Plan

Done, in this order: `StampedTable` and `DeltaSync`, `TaskStore`,
`ConnectionPool`, `UserResolution`, `ListStore`, `ListSync`, `RateLimiter`,
`Encoding`, and the proofs of all of them.

Next:

1. One module that holds the writing endpoints and a client of the sync endpoint
   together, and the theorem that the client loses nothing, from
   `StoreImplementsTable` and `NothingIsSilentlyLost`.
2. The category join: a delta client's view of a list's title, with `ListStore`
   and `DeltaSync` over two tables.
3. Retries after a 503 whose statement had committed: what a client may conclude
   from an answer it did not get.
4. The proof that a client of `DeltaSync` with no late writes ends each full round
   of pages with the table as it was at some moment of the round.

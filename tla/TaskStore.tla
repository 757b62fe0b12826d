------------------------------ MODULE TaskStore ------------------------------
(***************************************************************************)
(* The task endpoints that write: POST /v1/tasks, PATCH and DELETE on      *)
(* /v1/tasks/{id}, and POST .../complete and .../uncomplete (a PATCH of    *)
(* the status alone).  A handler runs on a worker thread and is a sequence *)
(* of autocommitted statements, each on a connection of its own; other     *)
(* workers, the device and the clock move between any two.                 *)
(*                                                                         *)
(* A worker also stands for its client: what the client last read of a     *)
(* task (`known`) is the version it sends as If-Unmodified-Since.          *)
(* `changed`, `gone`, `noop` and `placed` are history variables.           *)
(***************************************************************************)
EXTENDS Naturals, FiniteSets

CONSTANTS
    Tasks, Workers, Lists, Texts,
    Requests,           \* the requests clients send
    Inbox, Null,        \* task_list_id NULL; JSON null
    Absent, NoStamp, NoVersion, NoRequest,
    MaxClock, MaxSort,  \* bounds
    DeviceStamps,       \* stamps the device writes,
    DeviceData,         \* and what else
    InitialTables       \* contents of t_schedule_task at start

Stamps == 0 .. MaxClock

TaskData == [text : Texts, completed : Stamps, list : Lists \cup {Inbox}, sort : 0 .. MaxSort]

Row == [lm : Stamps, deleted : BOOLEAN, data : TaskData]

Responses == {"none", "ok", "no_list", "missing", "conflict", "unavailable"}

VARIABLES
    clock, tasks,
    lists,      \* the lists that are not deleted
    pc, req,
    target,     \* the task the request is about
    stamp,      \* its last_modified, once computed
    position,   \* the sort computed by _next_sort
    finished,   \* the completed_time computed for a PATCH
    resp,       \* the response
    known,      \* the version of a task the client read last
    changed,    \* was that task written since, and always with a later stamp?
    gone,       \* was the target not active at some moment of the call?
    noop,       \* did the UPDATE match a row it left as it was?
    placed      \* tasks that got another place since the position was computed

locals == <<req, target, position, finished>>
callVars == <<pc, locals, resp>>
ghosts == <<known, changed, gone, noop, placed>>
vars == <<clock, tasks, lists, stamp, callVars, ghosts>>

\* The table contract this module implements.
Table == INSTANCE StampedTable
    WITH Ids <- Tasks, Data <- TaskData, Writers <- Workers,
         table <- tasks, pending <- stamp

ASSUME StoreAssumption ==
    /\ IsFiniteSet(Tasks) /\ Tasks \subseteq Nat
    /\ MaxClock \in Nat /\ MaxSort \in Nat
    /\ DeviceStamps \subseteq Stamps /\ DeviceData \subseteq TaskData
    /\ InitialTables \subseteq [Tasks -> Row \cup {Absent}]
    /\ Absent \notin Row /\ Absent \notin Tasks
    /\ NoStamp \notin Stamps
    /\ Inbox \notin Lists

Present(t) == tasks[t] # Absent
Active(t) == Present(t) /\ ~tasks[t].deleted

-----------------------------------------------------------------------------
(* Requests.                                                               *)

\* The fields a body sets.  An explicit null is ignored for title, detail, status
\* and sort, and moves the task to the Inbox for list_id.  For the fields it clears
\* (due, importance, document_link) it is a value like any other: another text.
Settable(fields) == {f \in DOMAIN fields : fields[f] # Null \/ f = "list"}

\* Variant: an explicit null is written like any other value.
KeepUnlessSent(fields, f, old) == IF f \in DOMAIN fields THEN fields[f] ELSE old

Keep(fields, f, old) == IF f \in Settable(fields) THEN fields[f] ELSE old

ListOf(fields) == IF fields.list = Null THEN Inbox ELSE fields.list

Completes(fields) == "done" \in Settable(fields) /\ fields.done

\* c is the completed_time of a body that completes the task.
NewData(old, fields, c) ==
    [text |-> Keep(fields, "text", old.text),
     completed |-> IF Completes(fields) THEN c
                   ELSE IF "done" \in Settable(fields) THEN 0 ELSE old.completed,
     list |-> IF "list" \in DOMAIN fields THEN ListOf(fields) ELSE old.list,
     sort |-> Keep(fields, "sort", old.sort)]

NamesList(r) == "list" \in DOMAIN r.fields /\ r.fields.list # Null

Appends(r) == r.op = "create" /\ "sort" \notin Settable(r.fields)

\* What the models of the request bodies let through.
RequestOK(r) ==
    /\ r.op \in {"create", "patch", "delete"} /\ r.task \in Tasks /\ r.cond \in BOOLEAN
    /\ r.op = "create" => ~r.cond /\ "text" \in Settable(r.fields)
    /\ r.op = "create" /\ "done" \in DOMAIN r.fields => r.fields.done # Null
    /\ DOMAIN r.fields = {} <=> r.op = "delete"
    /\ "text" \in Settable(r.fields) => r.fields.text \in Texts
    /\ "list" \in DOMAIN r.fields => r.fields.list \in Lists \cup {Null}
    /\ "sort" \in Settable(r.fields) => r.fields.sort \in 0 .. MaxSort
    /\ "done" \in Settable(r.fields) => r.fields.done \in BOOLEAN

ASSUME RequestAssumption ==
    /\ \A r \in Requests : RequestOK(r)
    /\ NoRequest \notin Requests
    /\ Null \notin Lists
    /\ NoVersion \notin [task : Tasks, lm : Stamps]

\* What a create stores in the fields its body omits.
Blank(pos) == [text |-> Null, completed |-> 0, list |-> Inbox, sort |-> pos]

-----------------------------------------------------------------------------
StoreInit ==
    /\ clock \in 1 .. MaxClock
    /\ tasks \in InitialTables
    /\ lists = Lists
    /\ pc = [w \in Workers |-> "idle"]
    /\ req = [w \in Workers |-> NoRequest]
    /\ target = [w \in Workers |-> Absent]
    /\ stamp = [w \in Workers |-> NoStamp]
    /\ position = [w \in Workers |-> 0]
    /\ finished = [w \in Workers |-> 0]
    /\ resp = [w \in Workers |-> "none"]
    /\ known = [w \in Workers |-> NoVersion]
    /\ changed = [w \in Workers |-> "no"]
    /\ gone = [w \in Workers |-> FALSE]
    /\ noop = [w \in Workers |-> FALSE]
    /\ placed = [w \in Workers |-> {}]

Goto(w, label) == pc' = [pc EXCEPT ![w] = label] /\ UNCHANGED resp

Respond(w, r) ==
    /\ pc' = [pc EXCEPT ![w] = "done"]
    /\ resp' = [resp EXCEPT ![w] = r]

Version(t) == [task |-> t, lm |-> tasks[t].lm]

Learn(w, t) ==
    /\ known' = [known EXCEPT ![w] = Version(t)]
    /\ changed' = [changed EXCEPT ![w] = "no"]

\* The client reads a task before it writes (GET /v1/tasks/{id}, or a list).
Read(w, t) ==
    /\ pc[w] = "idle" /\ Active(t)
    /\ Learn(w, t)
    /\ UNCHANGED <<clock, tasks, lists, stamp, callVars, gone, noop, placed>>

\* update_task reads the clock once for completed_time and again for
\* last_modified; create_task reads it once.
FirstClockRead(r) == IF r.op = "patch" /\ Completes(r.fields) THEN "complete" ELSE "stamp"

\* A handler starts.  A conditional request carries the version its client knows.
Begin(w, r) ==
    /\ pc[w] = "idle"
    /\ r.cond => known[w] # NoVersion /\ known[w].task = r.task
    /\ req' = [req EXCEPT ![w] = r]
    /\ target' = [target EXCEPT ![w] = IF r.op = "create" THEN Absent ELSE r.task]
    /\ gone' = [gone EXCEPT ![w] = r.op # "create" /\ ~Active(r.task)]
    /\ noop' = [noop EXCEPT ![w] = FALSE]
    /\ IF NamesList(r) THEN Goto(w, "list")
       ELSE IF r.op = "patch" /\ Settable(r.fields) = {} THEN Goto(w, "match")
       ELSE Goto(w, FirstClockRead(r))
    /\ UNCHANGED <<clock, tasks, lists, stamp, position, finished, known, changed, placed>>

\* _ensure_list_exists
EnsureListExists(w) ==
    /\ pc[w] = "list"
    /\ IF req[w].fields.list \in lists
       THEN Goto(w, FirstClockRead(req[w])) ELSE Respond(w, "no_list")
    /\ UNCHANGED <<clock, tasks, lists, locals, stamp, ghosts>>

\* now_ms() for completed_time.
TakeCompletedTime(w) ==
    /\ pc[w] = "complete"
    /\ finished' = [finished EXCEPT ![w] = clock]
    /\ Goto(w, "stamp")
    /\ UNCHANGED <<clock, tasks, lists, req, target, stamp, position, ghosts>>

\* now_ms(), before the statement has a connection to run on.
TakeStamp(w) ==
    /\ pc[w] = "stamp"
    /\ stamp' = [stamp EXCEPT ![w] = clock]
    /\ Goto(w, IF Appends(req[w]) THEN "sort" ELSE "execute")
    /\ UNCHANGED <<clock, tasks, lists, locals, ghosts>>

Siblings(list) == {t \in Tasks : Active(t) /\ tasks[t].data.list = list}

TargetList(w) ==
    IF "list" \in DOMAIN req[w].fields THEN ListOf(req[w].fields) ELSE Inbox

\* COALESCE(MAX(sort), -1) + 1 over the active tasks of the list.
NextPosition(list) ==
    LET taken == {tasks[t].data.sort : t \in Siblings(list)}
    IN  CHOOSE p \in 0 .. MaxSort + 1 :
            /\ \A q \in taken : q < p
            /\ p # 0 => p - 1 \in taken

NextSort(w) ==
    /\ pc[w] = "sort"
    /\ NextPosition(TargetList(w)) <= MaxSort
    /\ position' = [position EXCEPT ![w] = NextPosition(TargetList(w))]
    /\ placed' = [placed EXCEPT ![w] = {}]
    /\ Goto(w, "execute")
    /\ UNCHANGED <<clock, tasks, lists, req, target, finished, stamp, known, changed, gone, noop>>

\* Where a task is shown, if it is.
Place(row) ==
    IF row = Absent \/ row.deleted THEN <<>> ELSE <<row.data.list, row.data.sort>>

\* A write of row t may take or leave a position another worker counts on.
NotePlace(t) ==
    placed' = [v \in Workers |->
                  IF pc[v] = "execute" /\ Appends(req[v]) /\ Place(tasks'[t]) # Place(tasks[t])
                  THEN placed[v] \cup {t} ELSE placed[v]]

Advances(t) == tasks'[t].lm > tasks[t].lm

\* What a write of row t tells the history variables.
NoteWrite(t) ==
    /\ changed' = [v \in Workers |->
                      IF known[v] = NoVersion \/ known[v].task # t THEN changed[v]
                      ELSE IF Advances(t) /\ changed[v] # "clash" THEN "later"
                      ELSE "clash"]
    /\ gone' = [v \in Workers |-> gone[v] \/ (target[v] = t /\ tasks'[t].deleted)]
    /\ NotePlace(t)

\* The statement committed; its connection may still be lost before the
\* handler hears of it, which is answered like any database error.
Committed(w, label) == Goto(w, label) \/ Respond(w, "unavailable")

Clear(w) == stamp' = [stamp EXCEPT ![w] = NoStamp]

\* INSERT of create_task under a new id.
Insert(w) ==
    /\ pc[w] = "execute" /\ req[w].op = "create"
    /\ \E t \in Tasks :
          /\ ~Present(t)
          /\ tasks' = [tasks EXCEPT ![t] =
                [lm |-> stamp[w], deleted |-> FALSE,
                 data |-> NewData(Blank(position[w]), req[w].fields, stamp[w])]]
          /\ target' = [target EXCEPT ![w] = t]
          /\ NotePlace(t)
    /\ Clear(w)
    /\ Committed(w, "reload")
    /\ UNCHANGED <<clock, lists, req, position, finished, known, changed, gone, noop>>

\* Variant: the precondition is checked before the statement, not in its WHERE.
MatchesActive(w) == Active(target[w])

\* Variant: the WHERE clause does not ask for an active row.
MatchesAnyRow(w) ==
    /\ Present(target[w])
    /\ req[w].cond => tasks[target[w]].lm = known[w].lm

\* WHERE task_id = ... AND is_deleted = 'N' [AND last_modified = ...]
Matches(w) ==
    /\ Active(target[w])
    /\ req[w].cond => tasks[target[w]].lm = known[w].lm

\* The row as the UPDATE of update_task or delete_task leaves it.
Written(w) ==
    LET row == tasks[target[w]]
    IN  IF req[w].op = "delete"
        THEN [row EXCEPT !.lm = stamp[w], !.deleted = TRUE]
        ELSE [row EXCEPT !.lm = stamp[w], !.data = NewData(row.data, req[w].fields, finished[w])]

\* The driver counts rows that changed, not rows that matched.
Update(w) ==
    /\ pc[w] = "execute" /\ req[w].op # "create"
    /\ Matches(w) /\ Written(w) # tasks[target[w]]
    /\ tasks' = [tasks EXCEPT ![target[w]] = Written(w)]
    /\ NoteWrite(target[w])
    /\ Clear(w)
    /\ IF req[w].op = "delete"
       THEN Respond(w, "ok") \/ Respond(w, "unavailable")
       ELSE Committed(w, "reload")
    /\ UNCHANGED <<clock, lists, locals, known, noop>>

\* No row affected: false from update_task or delete_task.
UpdateNothing(w) ==
    /\ pc[w] = "execute" /\ req[w].op # "create"
    /\ Matches(w) => Written(w) = tasks[target[w]]
    /\ noop' = [noop EXCEPT ![w] = Matches(w)]
    /\ Clear(w)
    /\ Goto(w, "resolve")
    /\ UNCHANGED <<clock, tasks, lists, locals, known, changed, gone, placed>>

\* A body that sets nothing: _row_matches_version or task_exists.
MatchVersion(w) ==
    /\ pc[w] = "match"
    /\ Goto(w, IF Matches(w) THEN "reload" ELSE "resolve")
    /\ UNCHANGED <<clock, tasks, lists, locals, stamp, ghosts>>

\* Variant: any failed write of a task that exists is a conflict.
ConflictIfExists(w) == Active(target[w])

\* Variant: a failed conditional write is always a missing task.
NeverConflict(w) == FALSE /\ w = w

IsConflict(w) == req[w].cond /\ Active(target[w])

\* _resolve_write after a write that affected nothing.
Resolve(w) ==
    /\ pc[w] = "resolve"
    /\ Respond(w, IF IsConflict(w) THEN "conflict" ELSE "missing")
    /\ UNCHANGED <<clock, tasks, lists, locals, stamp, ghosts>>

\* _require_task: the response is the row as it is now, and the client's next
\* version.
Reload(w) ==
    /\ pc[w] = "reload"
    /\ IF Active(target[w])
       THEN Respond(w, "ok") /\ Learn(w, target[w])
       ELSE Respond(w, "missing") /\ UNCHANGED <<known, changed>>
    /\ UNCHANGED <<clock, tasks, lists, locals, stamp, gone, noop, placed>>

\* No connection, or one lost before its statement ran: 503.
Fail(w) ==
    /\ pc[w] \notin {"idle", "complete", "stamp", "done"}
    /\ pc[w] = "resolve" => req[w].cond
    /\ Clear(w)
    /\ Respond(w, "unavailable")
    /\ UNCHANGED <<clock, tasks, lists, locals, ghosts>>

\* The client takes the response; the worker is free again.
Collect(w) ==
    /\ pc[w] = "done"
    /\ pc' = [pc EXCEPT ![w] = "idle"]
    /\ resp' = [resp EXCEPT ![w] = "none"]
    /\ req' = [req EXCEPT ![w] = NoRequest]
    /\ target' = [target EXCEPT ![w] = Absent]
    /\ position' = [position EXCEPT ![w] = 0]
    /\ finished' = [finished EXCEPT ![w] = 0]
    /\ gone' = [gone EXCEPT ![w] = FALSE]
    /\ noop' = [noop EXCEPT ![w] = FALSE]
    /\ placed' = [placed EXCEPT ![w] = {}]
    /\ UNCHANGED <<clock, tasks, lists, stamp, known, changed>>

\* The device's sync adds, edits, moves, deletes or restores a task, with a stamp
\* of its own clock.
DeviceEdit(t) ==
    /\ \E s \in DeviceStamps, del \in BOOLEAN, d \in DeviceData :
          tasks' = [tasks EXCEPT ![t] = [lm |-> s, deleted |-> del, data |-> d]]
    /\ NoteWrite(t)
    /\ UNCHANGED <<clock, lists, stamp, callVars, known, noop>>

\* A list is soft-deleted; its tasks keep pointing at it.
DeleteList(l) ==
    /\ l \in lists
    /\ lists' = lists \ {l}
    /\ UNCHANGED <<clock, tasks, stamp, callVars, ghosts>>

Tick ==
    /\ clock < MaxClock
    /\ clock' = clock + 1
    /\ UNCHANGED <<tasks, lists, stamp, callVars, ghosts>>

WorkerStep(w) ==
    \/ \E t \in Tasks : Read(w, t)
    \/ \E r \in Requests : Begin(w, r)
    \/ EnsureListExists(w) \/ TakeCompletedTime(w) \/ TakeStamp(w) \/ NextSort(w)
    \/ Insert(w) \/ Update(w) \/ UpdateNothing(w) \/ MatchVersion(w)
    \/ Resolve(w) \/ Reload(w) \/ Fail(w) \/ Collect(w)

StoreNext ==
    \/ \E w \in Workers : WorkerStep(w)
    \/ \E t \in Tasks : DeviceEdit(t)
    \/ \E l \in Lists : DeleteList(l)
    \/ Tick

StoreSpec == StoreInit /\ [][StoreNext]_vars

-----------------------------------------------------------------------------
StoreTypeOK ==
    /\ clock \in Stamps
    /\ tasks \in [Tasks -> Row \cup {Absent}]
    /\ lists \subseteq Lists
    /\ pc \in [Workers -> {"idle", "list", "complete", "stamp", "sort", "execute", "match",
                           "resolve", "reload", "done"}]
    /\ req \in [Workers -> Requests \cup {NoRequest}]
    /\ target \in [Workers -> Tasks \cup {Absent}]
    /\ stamp \in [Workers -> Stamps \cup {NoStamp}]
    /\ position \in [Workers -> 0 .. MaxSort]
    /\ finished \in [Workers -> Stamps]
    /\ resp \in [Workers -> Responses]
    /\ known \in [Workers -> [task : Tasks, lm : Stamps] \cup {NoVersion}]
    /\ changed \in [Workers -> {"no", "later", "clash"}]
    /\ gone \in [Workers -> BOOLEAN]
    /\ noop \in [Workers -> BOOLEAN]
    /\ placed \in [Workers -> SUBSET Tasks]

\* 409 is told only to a client that sent a version, and the task was written
\* since it read that version (or its write changed nothing and was taken for
\* a mismatch).
ConflictIsReal ==
    \A w \in Workers : resp[w] = "conflict" => req[w].cond /\ (changed[w] # "no" \/ noop[w])

\* 404 is told only of a task that was not active at some moment of the call
\* (or of a write that changed nothing).
NotFoundIsReal ==
    \A w \in Workers : resp[w] = "missing" => gone[w] \/ noop[w]

\* A conditional write never overwrites an edit its client has not seen, as long
\* as the edits gave the row later stamps: the version is a millisecond, and two
\* writes that share it, or a device whose clock lags, go unnoticed.
NoLostUpdate ==
    [][\A w \in Workers :
          /\ pc[w] = "execute" /\ pc'[w] # "execute"
          /\ req[w].cond /\ tasks' # tasks
          => changed[w] # "later"]_vars

\* A task created without a sort comes last in its list, but for tasks that got
\* their place between the SELECT of the position and the INSERT.
AppendedIsLast ==
    [][\A t \in Tasks, w \in Workers :
          /\ pc[w] = "execute" /\ pc'[w] # "execute" /\ Appends(req[w])
          /\ tasks'[t] # tasks[t]
          => \A u \in Siblings(TargetList(w)) \ placed[w] :
                tasks[u].data.sort < tasks'[t].data.sort]_vars

\* Whatever the workers interleave, the table changes as StampedTable allows:
\* stamped rows that never vanish, and tombstones the service never writes.
ImplementsStampedTable == Table!TableSpec
=============================================================================

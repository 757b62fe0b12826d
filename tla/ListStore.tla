------------------------------ MODULE ListStore ------------------------------
(***************************************************************************)
(* The list endpoints that write: POST /v1/lists, which reuses a list of   *)
(* the same title, and PATCH (rename) and DELETE on /v1/lists/{id}.  As in *)
(* TaskStore, a handler is a sequence of autocommitted statements on a     *)
(* worker thread: a create looks the title up, stamps, inserts and reloads *)
(* as four steps.                                                          *)
(*                                                                         *)
(* The table is StampedTable's own: Ids are list ids, Data their titles,   *)
(* Writers the worker threads.  A worker also stands for its client, whose *)
(* last read of a list (`known`) is what it sends as If-Unmodified-Since.  *)
(* `changed`, `gone`, `noop` and `since` are history variables.            *)
(***************************************************************************)
EXTENDS StampedTable

CONSTANTS
    Requests,           \* the requests clients send
    NoVersion, NoRequest

Versions == [list : Ids, lm : Stamps]

Responses == {"none", "ok", "existing", "missing", "conflict", "unavailable"}

\* What the routes and the models of the bodies let through.
RequestOK(r) ==
    /\ r.op \in {"create", "rename", "delete"}
    /\ r.list \in Ids /\ r.title \in Data /\ r.cond \in BOOLEAN
    /\ r.op = "create" => ~r.cond

ASSUME ListAssumption ==
    /\ \A r \in Requests : RequestOK(r)
    /\ NoRequest \notin Requests
    /\ NoVersion \notin Versions
    /\ Absent \notin Ids

VARIABLES
    pc, req,
    target,     \* the list the request is about
    resp,       \* the response
    known,      \* the version of a list the client read last
    changed,    \* was that list written since, and always with a later stamp?
    gone,       \* was the target not active at some moment of the call?
    noop,       \* did the UPDATE match a row it left as it was?
    since       \* lists written since the title was looked up

callVars == <<pc, req, target, resp>>
ghosts == <<known, changed, gone, noop, since>>
vars == <<tableVars, callVars, ghosts>>

ListInit ==
    /\ TableInit
    /\ pc = [w \in Writers |-> "idle"]
    /\ req = [w \in Writers |-> NoRequest]
    /\ target = [w \in Writers |-> Absent]
    /\ resp = [w \in Writers |-> "none"]
    /\ known = [w \in Writers |-> NoVersion]
    /\ changed = [w \in Writers |-> "no"]
    /\ gone = [w \in Writers |-> FALSE]
    /\ noop = [w \in Writers |-> FALSE]
    /\ since = [w \in Writers |-> {}]

Goto(w, label) == pc' = [pc EXCEPT ![w] = label] /\ UNCHANGED resp

Respond(w, r) ==
    /\ pc' = [pc EXCEPT ![w] = "done"]
    /\ resp' = [resp EXCEPT ![w] = r]

\* The client is sent list i.
Learn(w, i) ==
    /\ known' = [known EXCEPT ![w] = [list |-> i, lm |-> table[i].lm]]
    /\ changed' = [changed EXCEPT ![w] = "no"]

\* The client reads the lists before it writes.
Read(w, i) ==
    /\ pc[w] = "idle" /\ Active(i)
    /\ Learn(w, i)
    /\ UNCHANGED <<tableVars, callVars, gone, noop, since>>

Begin(w, r) ==
    /\ pc[w] = "idle"
    /\ r.cond => known[w] # NoVersion /\ known[w].list = r.list
    /\ req' = [req EXCEPT ![w] = r]
    /\ target' = [target EXCEPT ![w] = IF r.op = "create" THEN Absent ELSE r.list]
    /\ gone' = [gone EXCEPT ![w] = r.op # "create" /\ ~Active(r.list)]
    /\ noop' = [noop EXCEPT ![w] = FALSE]
    /\ Goto(w, IF r.op = "create" THEN "lookup" ELSE "stamp")
    /\ UNCHANGED <<tableVars, known, changed, since>>

Titled(title) == {i \in Ids : Active(i) /\ table[i].data = title}

\* get_list_by_title: ORDER BY last_modified, task_list_id LIMIT 1.
Found(title) ==
    {i \in Titled(title) : \A j \in Titled(title) \ {i} :
        \/ table[i].lm < table[j].lm
        \/ table[i].lm = table[j].lm /\ i < j}

\* A create looks for a list of its title, and answers with it if there is one.
LookUp(w) ==
    /\ pc[w] = "lookup"
    /\ since' = [since EXCEPT ![w] = {}]
    /\ \/ /\ Found(req[w].title) = {}
          /\ Goto(w, "stamp")
          /\ UNCHANGED <<target, known, changed>>
       \/ \E i \in Found(req[w].title) :
          /\ Respond(w, "existing")
          /\ target' = [target EXCEPT ![w] = i]
          /\ Learn(w, i)
    /\ UNCHANGED <<tableVars, req, gone, noop>>

\* Variant: no stamp is taken, and the statement has none to write.
StampNothing(w) ==
    /\ pc[w] = "stamp"
    /\ Goto(w, "execute")
    /\ UNCHANGED <<tableVars, req, target, ghosts>>

\* now_ms(), before the statement has a connection to run on.
Stamp(w) ==
    /\ pc[w] = "stamp"
    /\ TakeStamp(w)
    /\ Goto(w, "execute")
    /\ UNCHANGED <<req, target, ghosts>>

Advances(i) == table'[i].lm > table[i].lm

\* Row i may have got its title after a create under way looked.
NoteTitle(i) ==
    since' = [v \in Writers |->
                 IF pc[v] \in {"stamp", "execute"} /\ req[v].op = "create"
                 THEN since[v] \cup {i} ELSE since[v]]

\* What a write of row i tells the history variables.
NoteWrite(i) ==
    /\ changed' = [v \in Writers |->
                      IF known[v] = NoVersion \/ known[v].list # i THEN changed[v]
                      ELSE IF Advances(i) /\ changed[v] # "clash" THEN "later"
                      ELSE "clash"]
    /\ gone' = [v \in Writers |-> gone[v] \/ (target[v] = i /\ table'[i].deleted)]
    /\ NoteTitle(i)

\* The statement committed; its connection may be lost before the handler
\* hears of it, which is answered like any database error.
Committed(w, label) == Goto(w, label) \/ Respond(w, "unavailable")

Spend(w) == pending' = [pending EXCEPT ![w] = NoStamp] /\ UNCHANGED clock

\* INSERT of create_list under a new id.
Insert(w) ==
    /\ pc[w] = "execute" /\ req[w].op = "create"
    /\ \E i \in Ids :
          /\ ~Present(i)
          /\ Put(i, pending[w], FALSE, req[w].title)
          /\ target' = [target EXCEPT ![w] = i]
          /\ NoteTitle(i)
    /\ Spend(w)
    /\ Committed(w, "reload")
    /\ UNCHANGED <<req, known, changed, gone, noop>>

\* Variant: the precondition is left out of the WHERE clause.
MatchesActive(w) == Active(target[w])

\* Variant: the WHERE clause does not ask for an active row.
MatchesAnyRow(w) ==
    /\ Present(target[w])
    /\ req[w].cond => table[target[w]].lm = known[w].lm

\* WHERE task_list_id = ... AND is_deleted = 'N' [AND last_modified = ...]
Matches(w) ==
    /\ Active(target[w])
    /\ req[w].cond => table[target[w]].lm = known[w].lm

\* The row as the UPDATE of update_list or delete_list leaves it.
Written(w) ==
    LET row == table[target[w]]
    IN  IF req[w].op = "delete"
        THEN [lm |-> pending[w], deleted |-> TRUE, data |-> row.data]
        ELSE [lm |-> pending[w], deleted |-> row.deleted, data |-> req[w].title]

\* The driver counts rows that changed, not rows that matched.
Update(w) ==
    /\ pc[w] = "execute" /\ req[w].op # "create"
    /\ Matches(w) /\ Written(w) # table[target[w]]
    /\ table' = [table EXCEPT ![target[w]] = Written(w)]
    /\ NoteWrite(target[w])
    /\ Spend(w)
    /\ IF req[w].op = "delete"
       THEN Respond(w, "ok") \/ Respond(w, "unavailable")
       ELSE Committed(w, "reload")
    /\ UNCHANGED <<req, target, known, noop>>

UpdateNothing(w) ==
    /\ pc[w] = "execute" /\ req[w].op # "create"
    /\ Matches(w) => Written(w) = table[target[w]]
    /\ noop' = [noop EXCEPT ![w] = Matches(w)]
    /\ Withdraw(w)
    /\ Goto(w, "resolve")
    /\ UNCHANGED <<req, target, known, changed, gone, since>>

\* Variant: a conflict is told as a missing list.
NeverConflict(w) == w \notin Writers

IsConflict(w) == req[w].cond /\ Active(target[w])

\* _resolve_write: list_exists looks again, on a connection of its own.
Resolve(w) ==
    /\ pc[w] = "resolve"
    /\ Respond(w, IF IsConflict(w) THEN "conflict" ELSE "missing")
    /\ UNCHANGED <<tableVars, req, target, ghosts>>

\* The response is the row as it is now, and the client's next version.
Reload(w) ==
    /\ pc[w] = "reload"
    /\ IF Active(target[w])
       THEN Respond(w, "ok") /\ Learn(w, target[w])
       ELSE Respond(w, "missing") /\ UNCHANGED <<known, changed>>
    /\ UNCHANGED <<tableVars, req, target, gone, noop, since>>

\* No connection, or one lost before its statement ran: 503.
Fail(w) ==
    /\ pc[w] \in {"lookup", "execute", "resolve", "reload"}
    /\ pc[w] = "resolve" => req[w].cond
    /\ Spend(w) /\ UNCHANGED table
    /\ Respond(w, "unavailable")
    /\ UNCHANGED <<req, target, ghosts>>

\* The client takes the response; the worker is free again.
Collect(w) ==
    /\ pc[w] = "done"
    /\ pc' = [pc EXCEPT ![w] = "idle"]
    /\ resp' = [resp EXCEPT ![w] = "none"]
    /\ req' = [req EXCEPT ![w] = NoRequest]
    /\ target' = [target EXCEPT ![w] = Absent]
    /\ gone' = [gone EXCEPT ![w] = FALSE]
    /\ noop' = [noop EXCEPT ![w] = FALSE]
    /\ since' = [since EXCEPT ![w] = {}]
    /\ UNCHANGED <<tableVars, known, changed>>

\* The device's sync writes rows of its own, and knows nothing of titles.
DeviceEdit(i) ==
    /\ DeviceWrite(i)
    /\ NoteWrite(i)
    /\ UNCHANGED <<callVars, known, noop>>

Time == Tick /\ UNCHANGED <<callVars, ghosts>>

ListStep(w) ==
    \/ \E i \in Ids : Read(w, i)
    \/ \E r \in Requests : Begin(w, r)
    \/ LookUp(w) \/ Stamp(w) \/ Insert(w) \/ Update(w) \/ UpdateNothing(w)
    \/ Resolve(w) \/ Reload(w) \/ Fail(w) \/ Collect(w)

ListNext == Time \/ (\E w \in Writers : ListStep(w)) \/ (\E i \in Ids : DeviceEdit(i))

ListSpec == ListInit /\ [][ListNext]_vars

-----------------------------------------------------------------------------
ListTypeOK ==
    /\ TableTypeOK
    /\ pc \in [Writers -> {"idle", "lookup", "stamp", "execute", "resolve", "reload", "done"}]
    /\ req \in [Writers -> Requests \cup {NoRequest}]
    /\ target \in [Writers -> Ids \cup {Absent}]
    /\ resp \in [Writers -> Responses]
    /\ known \in [Writers -> Versions \cup {NoVersion}]
    /\ changed \in [Writers -> {"no", "later", "clash"}]
    /\ gone \in [Writers -> BOOLEAN]
    /\ noop \in [Writers -> BOOLEAN]
    /\ since \in [Writers -> SUBSET Ids]

\* 409 is told only to a client that sent a version, of a list written since it
\* read that version, and 404 only of a list that was not active at some moment
\* of the call (or of a write that changed nothing and was taken for a failure).
ListAnswersAreReal ==
    \A w \in Writers :
        /\ resp[w] = "conflict" => req[w].cond /\ (changed[w] # "no" \/ noop[w])
        /\ resp[w] = "missing" => gone[w] \/ noop[w]

\* A conditional rename or delete never overwrites an edit its client has not
\* seen, as long as the edits gave the row later stamps.
ListNoLostUpdate ==
    [][\A w \in Writers :
          /\ pc[w] = "execute" /\ pc'[w] # "execute"
          /\ req[w].cond /\ table' # table
          => changed[w] # "later"]_vars

\* "Idempotent by title": a create never makes a list whose title an active list
\* already has (the INSERT of create_list).
NoTwins ==
    [][\A w \in Writers, i \in Ids :
          /\ pc[w] = "execute" /\ pc'[w] # "execute" /\ req[w].op = "create"
          /\ table'[i] # table[i]
          => Titled(req[w].title) = {}]_vars

\* What is left of it: a create makes a second list of a title only if the first
\* one got its title after the create had looked for it.
TwinOnlyByOverlap ==
    [][\A w \in Writers, i \in Ids :
          /\ pc[w] = "execute" /\ pc'[w] # "execute" /\ req[w].op = "create"
          /\ table'[i] # table[i]
          => Titled(req[w].title) \subseteq since[w]]_vars

\* However the workers interleave, the lists change as StampedTable allows.
ListsAreStamped == TableSpec
=============================================================================

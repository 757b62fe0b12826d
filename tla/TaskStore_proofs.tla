--------------------------- MODULE TaskStore_proofs ---------------------------
(***************************************************************************)
(* What the task endpoints guarantee, for any tasks, workers, requests and *)
(* device writes: 404 and 409 are told for a reason, a conditional write   *)
(* does not overwrite a later version, and the table changes only as       *)
(* StampedTable allows.                                                    *)
(***************************************************************************)
EXTENDS TaskStore, WellFoundedInduction, TLAPS

-----------------------------------------------------------------------------
(* Rows.                                                                   *)

LEMMA NewDataType ==
    ASSUME NEW old, NEW r \in Requests, NEW c \in Stamps,
           old \in TaskData \/ (r.op = "create" /\ \E p \in 0 .. MaxSort : old = Blank(p))
    PROVE  NewData(old, r.fields, c) \in TaskData
<1> DEFINE f == r.fields
<1>1. RequestOK(r)
  BY RequestAssumption
<1>2. 0 \in Stamps
  BY StoreAssumption DEF Stamps
<1>3. /\ old.completed \in Stamps /\ old.list \in Lists \cup {Inbox} /\ old.sort \in 0 .. MaxSort
      /\ "text" \notin Settable(f) => old.text \in Texts
  BY <1>1, <1>2 DEF TaskData, Blank, RequestOK
<1>4. Keep(f, "text", old.text) \in Texts
  BY <1>1, <1>3 DEF Keep, RequestOK
<1>5. Keep(f, "sort", old.sort) \in 0 .. MaxSort
  BY <1>1, <1>3 DEF Keep, RequestOK
<1>6. (IF "list" \in DOMAIN f THEN ListOf(f) ELSE old.list) \in Lists \cup {Inbox}
  BY <1>1, <1>3 DEF ListOf, RequestOK
<1>7. (IF Completes(f) THEN c ELSE IF "done" \in Settable(f) THEN 0 ELSE old.completed) \in Stamps
  BY <1>2, <1>3
<1>8. QED
  BY <1>4, <1>5, <1>6, <1>7 DEF NewData, TaskData

LEMMA RequestFacts ==
    ASSUME NEW r \in Requests
    PROVE  /\ r.op \in {"create", "patch", "delete"} /\ r.task \in Tasks
           /\ r.cond => r.op # "create"
BY RequestAssumption DEF RequestOK

-----------------------------------------------------------------------------
(* The invariant.                                                          *)

\* A worker holds a stamp exactly between computing it and its statement.
StampInv(v) == stamp[v] # NoStamp <=> pc[v] \in {"sort", "execute"}

\* What a version says of its row now.
KnownInv(v) ==
    known[v] # NoVersion =>
        LET t == known[v].task
        IN  /\ changed[v] = "no" => Active(t) /\ tasks[t].lm = known[v].lm
            /\ changed[v] = "later" => Present(t) /\ tasks[t].lm > known[v].lm

\* What a call in progress has established.
CallInv(v) ==
    /\ req[v] \in Requests
    /\ req[v].op # "create" => target[v] = req[v].task
    /\ req[v].cond => known[v] # NoVersion /\ known[v].task = target[v]
    /\ target[v] \in Tasks => gone[v] \/ Active(target[v])
    /\ pc[v] = "reload" => target[v] \in Tasks
    /\ pc[v] \in {"match", "resolve"} => req[v].op # "create"
    /\ pc[v] = "resolve" => IF req[v].cond THEN changed[v] # "no" \/ noop[v]
                                           ELSE gone[v] \/ noop[v]
    /\ resp[v] = "conflict" => req[v].cond /\ (changed[v] # "no" \/ noop[v])
    /\ resp[v] = "missing" => gone[v] \/ noop[v]

WorkerInv(v) ==
    /\ StampInv(v) /\ KnownInv(v)
    /\ pc[v] # "idle" => CallInv(v)
    /\ pc[v] # "done" => resp[v] = "none"

StoreInv == StoreTypeOK /\ \A v \in Workers : WorkerInv(v)

\* Worker v takes no part in the step.
Aside(v) ==
    /\ pc'[v] = pc[v] /\ req'[v] = req[v] /\ target'[v] = target[v]
    /\ stamp'[v] = stamp[v] /\ resp'[v] = resp[v]
    /\ known'[v] = known[v] /\ noop'[v] = noop[v]

\* A step that leaves the table alone.
LEMMA AsideStep ==
    ASSUME NEW v \in Workers, WorkerInv(v), Aside(v), tasks' = tasks,
           changed'[v] = changed[v], gone'[v] = gone[v]
    PROVE  WorkerInv(v)'
BY DEF WorkerInv, StampInv, KnownInv, CallInv, Aside, Active, Present

\* A row is written and the history variables take note.
LEMMA NotedWrite ==
    ASSUME StoreTypeOK, NEW t \in Tasks, NEW row \in Row,
           tasks' = [tasks EXCEPT ![t] = row], NoteWrite(t),
           NEW v \in Workers, KnownInv(v), known'[v] = known[v], target'[v] = target[v]
    PROVE  /\ KnownInv(v)'
           /\ changed[v] # "no" => changed'[v] # "no"
           /\ gone[v] => gone'[v]
           /\ target[v] \in Tasks /\ (gone[v] \/ Active(target[v]))
                 => (gone[v] \/ Active(target[v]))'
<1>1. /\ tasks'[t] = row /\ \A u \in Tasks : u # t => tasks'[u] = tasks[u]
      /\ row # Absent /\ row.lm \in Nat
  BY StoreAssumption DEF StoreTypeOK, Row, Stamps
<1>2. /\ gone'[v] = (gone[v] \/ (target[v] = t /\ row.deleted))
      /\ changed'[v] = IF known[v] = NoVersion \/ known[v].task # t THEN changed[v]
                       ELSE IF row.lm > tasks[t].lm /\ changed[v] # "clash" THEN "later"
                       ELSE "clash"
  BY <1>1 DEF NoteWrite, Advances
<1>3. Present(t) => tasks[t].lm \in Nat
  BY StoreAssumption DEF StoreTypeOK, Row, Stamps, Present
<1>4. changed[v] \in {"no", "later", "clash"}
      /\ (known[v] # NoVersion => known[v].task \in Tasks /\ known[v].lm \in Nat)
  BY DEF StoreTypeOK, Stamps
<1>5. KnownInv(v)'
  <2>1. CASE known[v] = NoVersion \/ known[v].task # t
    BY <1>1, <1>2, <1>4, <2>1 DEF KnownInv, Active, Present
  <2>2. CASE known[v] # NoVersion /\ known[v].task = t /\ ~Present(t)
    BY <1>2, <1>4, <2>2 DEF KnownInv, Active
  <2>3. CASE known[v] # NoVersion /\ known[v].task = t /\ Present(t)
    BY <1>1, <1>2, <1>3, <1>4, <2>3 DEF KnownInv, Active, Present
  <2> QED
    BY <2>1, <2>2, <2>3
<1>6. (target[v] \in Tasks /\ (gone[v] \/ Active(target[v])))
         => (gone[v] \/ Active(target[v]))'
  BY <1>1, <1>2 DEF Active, Present
<1>7. QED
  BY <1>2, <1>5, <1>6

LEMMA PlacedType ==
    ASSUME StoreTypeOK, NEW t \in Tasks, NotePlace(t)
    PROVE  placed' \in [Workers -> SUBSET Tasks]
<1> DEFINE f(v) == IF pc[v] = "execute" /\ Appends(req[v]) /\ Place(tasks'[t]) # Place(tasks[t])
                   THEN placed[v] \cup {t} ELSE placed[v]
<1>1. \A v \in Workers : f(v) \in SUBSET Tasks
  BY DEF StoreTypeOK
<1>2. placed' = [v \in Workers |-> f(v)]
  BY DEF NotePlace
<1> HIDE DEF f
<1> QED
  BY <1>1, <1>2

\* The history variables keep their type.
LEMMA NoteType ==
    ASSUME StoreTypeOK, NEW t \in Tasks, NEW row \in Row,
           tasks' = [tasks EXCEPT ![t] = row], NoteWrite(t)
    PROVE  /\ tasks' \in [Tasks -> Row \cup {Absent}]
           /\ changed' \in [Workers -> {"no", "later", "clash"}]
           /\ gone' \in [Workers -> BOOLEAN]
           /\ placed' \in [Workers -> SUBSET Tasks]
<1>1. tasks' \in [Tasks -> Row \cup {Absent}] /\ tasks'[t] = row
  BY DEF StoreTypeOK
<1>2. changed' \in [Workers -> {"no", "later", "clash"}]
  BY DEF StoreTypeOK, NoteWrite
<1>3. row.deleted \in BOOLEAN
  BY DEF Row
<1>4. gone' \in [Workers -> BOOLEAN]
  BY <1>1, <1>3 DEF StoreTypeOK, NoteWrite
<1>5. placed' \in [Workers -> SUBSET Tasks]
  BY PlacedType DEF NoteWrite
<1>6. QED
  BY <1>1, <1>2, <1>4, <1>5

\* A worker that takes no part in such a write keeps its invariant.
LEMMA NotedAside ==
    ASSUME StoreTypeOK, NEW t \in Tasks, NEW row \in Row,
           tasks' = [tasks EXCEPT ![t] = row], NoteWrite(t),
           NEW v \in Workers, WorkerInv(v), Aside(v)
    PROVE  WorkerInv(v)'
<1>1. /\ KnownInv(v)' /\ (changed[v] # "no" => changed'[v] # "no") /\ (gone[v] => gone'[v])
      /\ target[v] \in Tasks /\ (gone[v] \/ Active(target[v]))
            => (gone[v] \/ Active(target[v]))'
  BY NotedWrite DEF WorkerInv, Aside
<1>2. StampInv(v)' /\ (pc[v] # "done" => resp[v] = "none")'
  BY DEF WorkerInv, StampInv, Aside
<1>3. ASSUME pc[v] # "idle" PROVE CallInv(v)'
  BY <1>1, <1>3 DEF WorkerInv, CallInv, Aside
<1>4. QED
  BY <1>1, <1>2, <1>3 DEF WorkerInv, Aside

-----------------------------------------------------------------------------
(* One lemma per action.                                                   *)

LEMMA ReadStep ==
    ASSUME StoreInv, NEW w \in Workers, NEW t \in Tasks, Read(w, t)
    PROVE  StoreInv'
<1> USE DEF StoreInv
<1>1. /\ pc[w] = "idle" /\ Active(t)
      /\ known' = [known EXCEPT ![w] = Version(t)]
      /\ changed' = [changed EXCEPT ![w] = "no"]
      /\ UNCHANGED <<clock, tasks, lists, stamp, pc, req, target, position, finished, resp, gone, noop, placed>>
  BY DEF Read, Learn, callVars, locals
<1>2. Version(t) \in [task : Tasks, lm : Stamps]
  BY <1>1, StoreAssumption DEF StoreTypeOK, Version, Active, Present, Row
<1>3. StoreTypeOK'
  BY <1>1, <1>2 DEF StoreTypeOK
<1>4. ASSUME NEW v \in Workers PROVE WorkerInv(v)'
  <2>1. CASE v # w
    BY <1>1, <2>1, AsideStep DEF Aside, StoreTypeOK
  <2>2. CASE v = w
    <3>1. known'[w] = Version(t) /\ changed'[w] = "no"
      BY <1>1 DEF StoreTypeOK
    <3>2. KnownInv(w)'
      BY <1>1, <3>1 DEF KnownInv, Version, Active, Present
    <3>3. QED
      BY <1>1, <2>2, <3>2 DEF WorkerInv, StampInv
  <2>3. QED
    BY <2>1, <2>2
<1>5. QED
  BY <1>3, <1>4

LEMMA BeginStep ==
    ASSUME StoreInv, NEW w \in Workers, NEW r \in Requests, Begin(w, r)
    PROVE  StoreInv'
<1> USE DEF StoreInv
<1> DEFINE label == pc'[w]
<1>1. /\ pc[w] = "idle"
      /\ r.cond => known[w] # NoVersion /\ known[w].task = r.task
      /\ req' = [req EXCEPT ![w] = r]
      /\ target' = [target EXCEPT ![w] = IF r.op = "create" THEN Absent ELSE r.task]
      /\ gone' = [gone EXCEPT ![w] = r.op # "create" /\ ~Active(r.task)]
      /\ noop' = [noop EXCEPT ![w] = FALSE]
      /\ UNCHANGED <<clock, tasks, lists, stamp, position, finished, known, changed, resp,
                     placed>>
  BY DEF Begin, Goto
<1>2. /\ pc' = [pc EXCEPT ![w] = label]
      /\ label \in {"list", "match", "complete", "stamp"}
      /\ label = "match" => r.op = "patch"
  <2>1. pc \in [Workers -> {"idle", "list", "complete", "stamp", "sort", "execute", "match",
                            "resolve", "reload", "done"}]
    BY DEF StoreTypeOK
  <2>2. CASE NamesList(r)
    BY <2>1, <2>2 DEF Begin, Goto
  <2>3. CASE ~NamesList(r) /\ r.op = "patch" /\ Settable(r.fields) = {}
    BY <2>1, <2>3 DEF Begin, Goto
  <2>4. CASE /\ ~NamesList(r)
             /\ ~(r.op = "patch" /\ Settable(r.fields) = {})
    BY <2>1, <2>4 DEF Begin, Goto, FirstClockRead
  <2>5. QED
    BY <2>2, <2>3, <2>4
<1>3. r.op \in {"create", "patch", "delete"} /\ r.task \in Tasks /\ (r.cond => r.op # "create")
  BY RequestFacts
<1>4. StoreTypeOK'
  BY <1>1, <1>2, <1>3 DEF StoreTypeOK
<1>5. ASSUME NEW v \in Workers PROVE WorkerInv(v)'
  <2>1. CASE v # w
    BY <1>1, <1>2, <2>1, AsideStep DEF Aside, StoreTypeOK
  <2>2. CASE v = w
    <3>1. /\ req'[w] = r /\ noop'[w] = FALSE
          /\ target'[w] = (IF r.op = "create" THEN Absent ELSE r.task)
          /\ gone'[w] = (r.op # "create" /\ ~Active(r.task))
      BY <1>1 DEF StoreTypeOK
    <3>2. resp[w] = "none" /\ stamp[w] = NoStamp
      BY <1>1 DEF WorkerInv, StampInv
    <3>3. Absent \notin Tasks
      BY StoreAssumption
    <3>4. CallInv(w)'
      BY <1>1, <1>2, <1>3, <3>1, <3>2, <3>3 DEF CallInv, Active, Present
    <3>5. KnownInv(w)' /\ StampInv(w)'
      BY <1>1, <1>2, <3>2 DEF WorkerInv, KnownInv, StampInv, Active, Present
    <3>6. QED
      BY <1>1, <2>2, <3>2, <3>4, <3>5 DEF WorkerInv
  <2>3. QED
    BY <2>1, <2>2
<1>6. QED
  BY <1>4, <1>5

\* A step of a call that changes neither the table, the request nor the version
\* its client knows.
LEMMA CallStep ==
    ASSUME StoreInv, NEW w \in Workers, pc[w] # "idle", pc'[w] # "idle", StoreTypeOK',
           \A v \in Workers \ {w} : pc'[v] = pc[v] /\ resp'[v] = resp[v]
                                    /\ stamp'[v] = stamp[v] /\ noop'[v] = noop[v],
           UNCHANGED <<tasks, req, target, known, changed, gone>>,
           stamp'[w] # NoStamp <=> pc'[w] \in {"sort", "execute"},
           pc'[w] # "done" => resp'[w] = "none",
           pc'[w] = "reload" => target[w] \in Tasks,
           pc'[w] \in {"match", "resolve"} => req[w].op # "create",
           pc'[w] = "resolve" => IF req[w].cond THEN changed[w] # "no" \/ noop'[w]
                                                ELSE gone[w] \/ noop'[w],
           resp'[w] = "conflict" => req[w].cond /\ (changed[w] # "no" \/ noop'[w]),
           resp'[w] = "missing" => gone[w] \/ noop'[w]
    PROVE  StoreInv'
<1> USE DEF StoreInv
<1>1. ASSUME NEW v \in Workers PROVE WorkerInv(v)'
  <2>1. CASE v # w
    BY <2>1, AsideStep DEF Aside
  <2>2. CASE v = w
    <3>1. CallInv(w)
      BY DEF WorkerInv
    <3>2. CallInv(w)'
      BY <3>1 DEF CallInv, Active, Present
    <3>3. KnownInv(w)' /\ StampInv(w)'
      BY DEF WorkerInv, KnownInv, StampInv, Active, Present
    <3>4. QED
      BY <2>2, <3>2, <3>3 DEF WorkerInv
  <2>3. QED
    BY <2>1, <2>2
<1>2. QED
  BY <1>1

\* What the invariant says of a worker in the middle of a call.
LEMMA CallFacts ==
    ASSUME StoreInv, NEW w \in Workers, pc[w] \notin {"idle", "done"}
    PROVE  /\ CallInv(w) /\ resp[w] = "none"
           /\ stamp[w] # NoStamp <=> pc[w] \in {"sort", "execute"}
BY DEF StoreInv, WorkerInv, StampInv

LEMMA EnsureListExistsStep ==
    ASSUME StoreInv, NEW w \in Workers, EnsureListExists(w)
    PROVE  StoreInv'
<1>1. /\ pc[w] = "list"
      /\ UNCHANGED <<clock, tasks, lists, req, target, position, finished, stamp,
                     known, changed, gone, noop, placed>>
  BY DEF EnsureListExists, ghosts, locals
<1>2. PICK label \in {"complete", "stamp", "done"}, answer \in {"none", "no_list"} :
          /\ pc' = [pc EXCEPT ![w] = label] /\ resp' = [resp EXCEPT ![w] = answer]
          /\ label # "done" => answer = "none"
  <2>1. CASE req[w].fields.list \in lists
    BY <1>1, <2>1, CallFacts DEF EnsureListExists, Goto, FirstClockRead, StoreInv, StoreTypeOK
  <2>2. CASE ~(req[w].fields.list \in lists)
    BY <2>2 DEF EnsureListExists, Respond
  <2>3. QED
    BY <2>1, <2>2
<1>3. StoreTypeOK'
  BY <1>1, <1>2 DEF StoreInv, StoreTypeOK, Responses
<1>4. pc'[w] = label /\ resp'[w] = answer
  BY <1>2 DEF StoreInv, StoreTypeOK
<1>5. QED
  BY <1>1, <1>2, <1>3, <1>4, CallFacts, CallStep DEF StoreInv, StoreTypeOK

LEMMA TakeCompletedTimeStep ==
    ASSUME StoreInv, NEW w \in Workers, TakeCompletedTime(w)
    PROVE  StoreInv'
<1>1. /\ pc[w] = "complete" /\ pc' = [pc EXCEPT ![w] = "stamp"] /\ resp' = resp
      /\ finished' = [finished EXCEPT ![w] = clock]
      /\ UNCHANGED <<clock, tasks, lists, req, target, position, stamp,
                     known, changed, gone, noop, placed>>
  BY DEF TakeCompletedTime, Goto, ghosts
<1>2. StoreTypeOK' /\ pc'[w] = "stamp"
  BY <1>1 DEF StoreInv, StoreTypeOK
<1>3. QED
  BY <1>1, <1>2, CallFacts, CallStep DEF StoreInv, StoreTypeOK

LEMMA TakeStampStep ==
    ASSUME StoreInv, NEW w \in Workers, TakeStamp(w)
    PROVE  StoreInv'
<1>1. /\ pc[w] = "stamp" /\ resp' = resp
      /\ stamp' = [stamp EXCEPT ![w] = clock]
      /\ UNCHANGED <<clock, tasks, lists, req, target, position, finished,
                     known, changed, gone, noop, placed>>
  BY DEF TakeStamp, Goto, ghosts, locals
<1>2. PICK label \in {"sort", "execute"} : pc' = [pc EXCEPT ![w] = label]
  BY DEF TakeStamp, Goto
<1>3. StoreTypeOK' /\ pc'[w] = label /\ stamp'[w] # NoStamp
  BY <1>1, <1>2, StoreAssumption DEF StoreInv, StoreTypeOK
<1>4. \A v \in Workers \ {w} : pc'[v] = pc[v] /\ resp'[v] = resp[v]
                               /\ stamp'[v] = stamp[v] /\ noop'[v] = noop[v]
  BY <1>1, <1>2 DEF StoreInv, StoreTypeOK
<1>5. CallInv(w) /\ resp[w] = "none"
  BY <1>1, CallFacts
<1>6. QED
  BY <1>1, <1>2, <1>3, <1>4, <1>5, CallStep

LEMMA LeastNumber ==
    ASSUME NEW S, S \subseteq Nat, S # {}
    PROVE  \E b \in S : \A c \in S : b <= c
<1>1. PICK b \in S : \A c \in S : ~ (<<c, b>> \in OpToRel(<, Nat))
  BY NatLessThanWellFounded, WFMin
<1>2. \A c \in Nat : c < b => <<c, b>> \in OpToRel(<, Nat)
  BY DEF OpToRel
<1>3. ASSUME NEW c \in S PROVE b <= c
  <2>1. ~ (<<c, b>> \in OpToRel(<, Nat))
    BY <1>1
  <2> HIDE DEF OpToRel
  <2>2. c \in Nat /\ b \in Nat
    OBVIOUS
  <2>3. ~(c < b)
    BY <1>2, <2>1, <2>2, Zenon
  <2>4. QED
    BY <2>2, <2>3
<1>4. QED
  BY <1>3

\* The choice in NextPosition has a witness: the least bound of the sorts.
LEMMA NextPositionType ==
    ASSUME StoreTypeOK, NEW list
    PROVE  /\ NextPosition(list) \in 0 .. MaxSort + 1
           /\ \A t \in Siblings(list) : tasks[t].data.sort < NextPosition(list)
<1> DEFINE taken == {tasks[t].data.sort : t \in Siblings(list)}
           bounds == {b \in Nat : \A q \in taken : q < b}
           OK(p) == (\A q \in taken : q < p) /\ (p # 0 => p - 1 \in taken)
<1>1. taken \subseteq 0 .. MaxSort /\ MaxSort \in Nat
  BY StoreAssumption DEF StoreTypeOK, Siblings, Active, Present, Row, TaskData
<1>2. \E b \in 0 .. MaxSort + 1 : OK(b)
  <2> HIDE DEF taken
  <2>1. MaxSort + 1 \in bounds
    BY <1>1
  <2>2. PICK b \in bounds : \A c \in bounds : b <= c
    BY <2>1, LeastNumber
  <2>3. b \in 0 .. MaxSort + 1
    BY <1>1, <2>1, <2>2
  <2>4. ASSUME b # 0 PROVE b - 1 \in taken
    <3>1. b - 1 \in Nat /\ b - 1 \notin bounds
      BY <2>2, <2>4
    <3>2. PICK q \in taken : ~(q < b - 1)
      BY <3>1
    <3>3. q < b /\ q \in Nat
      BY <1>1, <2>2, <3>2
    <3>4. q = b - 1
      BY <3>1, <3>2, <3>3
    <3>5. QED
      BY <3>2, <3>4
  <2>5. QED
    BY <2>2, <2>3, <2>4
<1>3. NextPosition(list) = CHOOSE p \in 0 .. MaxSort + 1 : OK(p)
  BY DEF NextPosition
<1>4. NextPosition(list) \in 0 .. MaxSort + 1 /\ OK(NextPosition(list))
  <2> HIDE DEF OK
  <2>1. QED
    BY <1>2, <1>3
<1>5. QED
  BY <1>4

LEMMA NextSortStep ==
    ASSUME StoreInv, NEW w \in Workers, NextSort(w)
    PROVE  StoreInv'
<1>1. /\ pc[w] = "sort" /\ pc' = [pc EXCEPT ![w] = "execute"] /\ resp' = resp
      /\ position' = [position EXCEPT ![w] = NextPosition(TargetList(w))]
      /\ NextPosition(TargetList(w)) <= MaxSort
      /\ placed' = [placed EXCEPT ![w] = {}]
      /\ UNCHANGED <<clock, tasks, lists, req, target, finished, stamp,
                     known, changed, gone, noop>>
  BY DEF NextSort, Goto
<1>2. NextPosition(TargetList(w)) \in 0 .. MaxSort
  BY <1>1, NextPositionType, StoreAssumption DEF StoreInv
<1>3. StoreTypeOK' /\ pc'[w] = "execute"
  BY <1>1, <1>2 DEF StoreInv, StoreTypeOK
<1>4. QED
  BY <1>1, <1>3, CallFacts, CallStep

\* A failed match of a conditional request: its version is no longer the row's.
LEMMA MismatchIsReal ==
    ASSUME StoreInv, NEW w \in Workers, pc[w] # "idle", req[w].op # "create", ~Matches(w)
    PROVE  IF req[w].cond THEN changed[w] # "no" ELSE gone[w]
<1>1. CallInv(w) /\ KnownInv(w)
  BY DEF StoreInv, WorkerInv
<1>2. target[w] \in Tasks
  BY <1>1, RequestFacts DEF CallInv
<1>3. QED
  BY <1>1, <1>2 DEF CallInv, KnownInv, Matches

LEMMA UpdateNothingStep ==
    ASSUME StoreInv, NEW w \in Workers, UpdateNothing(w)
    PROVE  StoreInv'
<1>1. /\ pc[w] = "execute" /\ req[w].op # "create"
      /\ noop' = [noop EXCEPT ![w] = Matches(w)]
      /\ stamp' = [stamp EXCEPT ![w] = NoStamp]
      /\ pc' = [pc EXCEPT ![w] = "resolve"] /\ resp' = resp
      /\ UNCHANGED <<clock, tasks, lists, req, target, position, finished, known, changed, gone,
                     placed>>
  BY DEF UpdateNothing, Clear, Goto, locals
<1>2. StoreTypeOK' /\ pc'[w] = "resolve" /\ stamp'[w] = NoStamp /\ noop'[w] = Matches(w)
  BY <1>1 DEF StoreInv, StoreTypeOK, Matches
<1>3. IF req[w].cond THEN changed[w] # "no" \/ Matches(w) ELSE gone[w] \/ Matches(w)
  BY <1>1, MismatchIsReal
<1>4. QED
  BY <1>1, <1>2, <1>3, CallFacts, CallStep DEF StoreInv, StoreTypeOK

LEMMA MatchVersionStep ==
    ASSUME StoreInv, NEW w \in Workers, MatchVersion(w)
    PROVE  StoreInv'
<1>1. /\ pc[w] = "match" /\ resp' = resp
      /\ pc' = [pc EXCEPT ![w] = IF Matches(w) THEN "reload" ELSE "resolve"]
      /\ UNCHANGED <<clock, tasks, lists, req, target, position, finished, stamp,
                     known, changed, gone, noop, placed>>
  BY DEF MatchVersion, Goto, ghosts, locals
<1>2. req[w].op # "create" /\ target[w] \in Tasks
  BY <1>1, CallFacts, RequestFacts DEF CallInv
<1>3. StoreTypeOK' /\ pc'[w] = IF Matches(w) THEN "reload" ELSE "resolve"
  BY <1>1 DEF StoreInv, StoreTypeOK
<1>4. ~Matches(w) => IF req[w].cond THEN changed[w] # "no" ELSE gone[w]
  BY <1>1, <1>2, MismatchIsReal
<1>5. QED
  BY <1>1, <1>2, <1>3, <1>4, CallFacts, CallStep DEF StoreInv, StoreTypeOK

LEMMA ResolveStep ==
    ASSUME StoreInv, NEW w \in Workers, Resolve(w)
    PROVE  StoreInv'
<1> DEFINE answer == IF IsConflict(w) THEN "conflict" ELSE "missing"
<1>1. /\ pc[w] = "resolve" /\ pc' = [pc EXCEPT ![w] = "done"]
      /\ resp' = [resp EXCEPT ![w] = answer]
      /\ UNCHANGED <<clock, tasks, lists, req, target, position, finished, stamp,
                     known, changed, gone, noop, placed>>
  BY DEF Resolve, Respond, ghosts, locals
<1>2. CallInv(w) /\ target[w] \in Tasks
  BY <1>1, CallFacts, RequestFacts DEF CallInv
<1>3. StoreTypeOK' /\ pc'[w] = "done" /\ resp'[w] = answer
  BY <1>1 DEF StoreInv, StoreTypeOK, Responses
<1>4. IF IsConflict(w) THEN req[w].cond /\ (changed[w] # "no" \/ noop[w])
                       ELSE gone[w] \/ noop[w]
  BY <1>1, <1>2 DEF IsConflict, CallInv
<1>5. \A v \in Workers \ {w} : pc'[v] = pc[v] /\ resp'[v] = resp[v]
                               /\ stamp'[v] = stamp[v] /\ noop'[v] = noop[v]
  BY <1>1 DEF StoreInv, StoreTypeOK
<1>6. stamp[w] = NoStamp
  BY <1>1, CallFacts
<1> HIDE DEF answer
<1>7. /\ resp'[w] = "conflict" => req[w].cond /\ (changed[w] # "no" \/ noop[w])
      /\ resp'[w] = "missing" => gone[w] \/ noop[w]
  BY <1>3, <1>4 DEF answer
<1>8. QED
  BY <1>1, <1>3, <1>5, <1>6, <1>7, CallStep

LEMMA FailStep ==
    ASSUME StoreInv, NEW w \in Workers, Fail(w)
    PROVE  StoreInv'
<1>1. /\ pc[w] \notin {"idle", "done"} /\ pc' = [pc EXCEPT ![w] = "done"]
      /\ resp' = [resp EXCEPT ![w] = "unavailable"]
      /\ stamp' = [stamp EXCEPT ![w] = NoStamp]
      /\ UNCHANGED <<clock, tasks, lists, req, target, position, finished,
                     known, changed, gone, noop, placed>>
  BY DEF Fail, Clear, Respond, ghosts, locals
<1>2. StoreTypeOK' /\ pc'[w] = "done" /\ resp'[w] = "unavailable" /\ stamp'[w] = NoStamp
  BY <1>1 DEF StoreInv, StoreTypeOK, Responses
<1>3. QED
  BY <1>1, <1>2, CallStep DEF StoreInv, StoreTypeOK

\* The device writes a whole row: a stamp, a deletion mark, its data.
LEMMA DeviceRow ==
    ASSUME NEW t \in Tasks, DeviceEdit(t)
    PROVE  \E s \in DeviceStamps, del \in BOOLEAN, d \in TaskData :
               tasks' = [tasks EXCEPT ![t] = [lm |-> s, deleted |-> del, data |-> d]]
BY StoreAssumption DEF DeviceEdit

LEMMA DeviceEditStep ==
    ASSUME StoreInv, NEW t \in Tasks, DeviceEdit(t)
    PROVE  StoreInv'
<1> USE DEF StoreInv
<1>1. PICK s \in DeviceStamps, del \in BOOLEAN, d \in TaskData :
          tasks' = [tasks EXCEPT ![t] = [lm |-> s, deleted |-> del, data |-> d]]
  BY DeviceRow
<1> DEFINE row == [lm |-> s, deleted |-> del, data |-> d]
<1>2. /\ NoteWrite(t)
      /\ UNCHANGED <<clock, lists, stamp, pc, req, target, position, finished, resp, known, noop>>
  BY DEF DeviceEdit, callVars, locals
<1>3. row \in Row /\ tasks' = [tasks EXCEPT ![t] = row]
  BY <1>1, StoreAssumption DEF Row
<1> HIDE DEF row
<1>4. StoreTypeOK'
  BY <1>2, <1>3, NoteType DEF StoreTypeOK
<1>5. ASSUME NEW v \in Workers PROVE WorkerInv(v)'
  BY <1>2, <1>3, NotedAside DEF Aside
<1>6. QED
  BY <1>4, <1>5

LEMMA CollectStep ==
    ASSUME StoreInv, NEW w \in Workers, Collect(w)
    PROVE  StoreInv'
<1> USE DEF StoreInv
<1>1. /\ pc[w] = "done"
      /\ pc' = [pc EXCEPT ![w] = "idle"] /\ resp' = [resp EXCEPT ![w] = "none"]
      /\ req' = [req EXCEPT ![w] = NoRequest] /\ target' = [target EXCEPT ![w] = Absent]
      /\ position' = [position EXCEPT ![w] = 0] /\ finished' = [finished EXCEPT ![w] = 0]
      /\ gone' = [gone EXCEPT ![w] = FALSE] /\ noop' = [noop EXCEPT ![w] = FALSE]
      /\ placed' = [placed EXCEPT ![w] = {}]
      /\ UNCHANGED <<clock, tasks, lists, stamp, known, changed>>
  BY DEF Collect
<1>2. StoreTypeOK'
  BY <1>1, StoreAssumption DEF StoreTypeOK, Responses, Stamps
<1>3. ASSUME NEW v \in Workers PROVE WorkerInv(v)'
  <2>1. CASE v # w
    BY <1>1, <2>1, AsideStep DEF Aside, StoreTypeOK
  <2>2. CASE v = w
    <3>1. pc'[w] = "idle" /\ resp'[w] = "none"
      BY <1>1 DEF StoreTypeOK
    <3>2. StampInv(w)' /\ KnownInv(w)'
      BY <1>1, <3>1 DEF WorkerInv, StampInv, KnownInv, Active, Present
    <3>3. QED
      BY <2>2, <3>1, <3>2 DEF WorkerInv
  <2>3. QED
    BY <2>1, <2>2
<1>4. QED
  BY <1>2, <1>3

LEMMA ReloadStep ==
    ASSUME StoreInv, NEW w \in Workers, Reload(w)
    PROVE  StoreInv'
<1>1. /\ pc[w] = "reload" /\ pc' = [pc EXCEPT ![w] = "done"]
      /\ UNCHANGED <<clock, tasks, lists, req, target, position, finished, stamp, gone, noop, placed>>
  BY DEF Reload, Respond, locals
<1>2. /\ CallInv(w) /\ target[w] \in Tasks /\ stamp[w] = NoStamp
      /\ StoreTypeOK /\ WorkerInv(w)
  BY <1>1, CallFacts DEF CallInv, StoreInv
<1>3. CASE Active(target[w])
  <2>1. /\ resp' = [resp EXCEPT ![w] = "ok"]
        /\ known' = [known EXCEPT ![w] = Version(target[w])]
        /\ changed' = [changed EXCEPT ![w] = "no"]
    BY <1>3 DEF Reload, Respond, Learn
  <2>2. Version(target[w]) \in [task : Tasks, lm : Stamps]
    BY <1>2, <1>3 DEF StoreTypeOK, Version, Active, Present, Row
  <2>3. StoreTypeOK'
    BY <1>1, <1>2, <2>1, <2>2 DEF StoreTypeOK, Responses
  <2>4. /\ pc'[w] = "done" /\ resp'[w] = "ok" /\ changed'[w] = "no"
        /\ known'[w] = Version(target[w])
    BY <1>1, <1>2, <2>1 DEF StoreTypeOK
  <2>5. Version(target[w]) # NoVersion
    BY <2>2, RequestAssumption
  <2>6. ASSUME NEW v \in Workers PROVE WorkerInv(v)'
    <3>1. CASE v # w
      BY <1>1, <1>2, <2>1, <3>1, AsideStep DEF Aside, StoreTypeOK, StoreInv
    <3>2. CASE v = w
      <4>1. CallInv(w)'
        BY <1>1, <1>2, <1>3, <2>4, <2>5 DEF CallInv, Version, Active, Present
      <4>2. KnownInv(w)' /\ StampInv(w)'
        BY <1>1, <1>2, <1>3, <2>4 DEF KnownInv, StampInv, Version, Active, Present
      <4>3. QED
        BY <2>4, <3>2, <4>1, <4>2 DEF WorkerInv
    <3>3. QED
      BY <3>1, <3>2
  <2>7. QED
    BY <2>3, <2>6 DEF StoreInv
<1>4. CASE ~Active(target[w])
  <2>1. resp' = [resp EXCEPT ![w] = "missing"] /\ UNCHANGED <<known, changed>>
    BY <1>4 DEF Reload, Respond
  <2>2. StoreTypeOK' /\ pc'[w] = "done" /\ resp'[w] = "missing"
    BY <1>1, <1>2, <2>1 DEF StoreTypeOK, Responses
  <2>3. gone[w]
    BY <1>2, <1>4 DEF CallInv
  <2>4. QED
    BY <1>1, <1>2, <2>1, <2>2, <2>3, CallStep DEF StoreTypeOK
<1>5. QED
  BY <1>3, <1>4

\* A new row: no version and no call in progress is about it.
LEMMA InsertStep ==
    ASSUME StoreInv, NEW w \in Workers, Insert(w)
    PROVE  StoreInv'
<1> USE DEF StoreInv
<1> DEFINE row == [lm |-> stamp[w], deleted |-> FALSE,
                   data |-> NewData(Blank(position[w]), req[w].fields, stamp[w])]
<1>1. PICK t \in Tasks :
          /\ ~Present(t) /\ tasks' = [tasks EXCEPT ![t] = row]
          /\ target' = [target EXCEPT ![w] = t] /\ NotePlace(t)
  BY DEF Insert
<1>2. /\ pc[w] = "execute" /\ req[w].op = "create"
      /\ stamp' = [stamp EXCEPT ![w] = NoStamp]
      /\ UNCHANGED <<clock, lists, req, position, finished, known, changed, gone, noop>>
  BY DEF Insert, Clear
<1>3. PICK label \in {"reload", "done"}, answer \in {"none", "unavailable"} :
          /\ pc' = [pc EXCEPT ![w] = label] /\ resp' = [resp EXCEPT ![w] = answer]
          /\ label = "reload" => answer = "none"
  <2>1. resp' = resp => resp' = [resp EXCEPT ![w] = "none"]
    BY <1>2, CallFacts DEF StoreTypeOK
  <2>2. QED
    BY <2>1 DEF Insert, Committed, Goto, Respond
<1>4. /\ CallInv(w) /\ resp[w] = "none" /\ stamp[w] \in Stamps
      /\ req[w] \in Requests /\ position[w] \in 0 .. MaxSort
  BY <1>2, CallFacts DEF CallInv, StoreTypeOK
<1>5. row \in Row
  BY <1>2, <1>4, NewDataType DEF Row
<1>6. /\ tasks'[t] = row /\ \A u \in Tasks : u # t => tasks'[u] = tasks[u]
      /\ row # Absent /\ row.deleted = FALSE
  BY <1>1, <1>5, StoreAssumption DEF StoreTypeOK
<1> HIDE DEF row
<1>7. StoreTypeOK'
  BY <1>1, <1>2, <1>3, <1>5, PlacedType DEF StoreTypeOK, Responses
<1>8. /\ pc'[w] = label /\ resp'[w] = answer /\ target'[w] = t /\ stamp'[w] = NoStamp
      /\ \A v \in Workers \ {w} : Aside(v)
  BY <1>1, <1>2, <1>3 DEF StoreTypeOK, Aside
<1>9. \A u \in Tasks : Present(u) => Present(u)' /\ tasks'[u] = tasks[u]
  BY <1>1, <1>6 DEF Present
<1>10. ASSUME NEW v \in Workers PROVE WorkerInv(v)'
  <2>1. KnownInv(v) /\ (known[v] # NoVersion => known[v].task \in Tasks)
    BY DEF WorkerInv, StoreTypeOK
  <2>2. KnownInv(v)'
    BY <1>2, <1>9, <2>1 DEF KnownInv, Active
  <2>3. CASE v # w
    <3>1. Aside(v) /\ WorkerInv(v)
      BY <1>8, <2>3
    <3>2. pc[v] # "idle" => CallInv(v)'
      BY <1>2, <1>9, <3>1 DEF WorkerInv, CallInv, Aside, Active
    <3>3. QED
      BY <2>2, <3>1, <3>2 DEF WorkerInv, StampInv, Aside
  <2>4. CASE v = w
    <3>1. ~req[w].cond
      BY <1>2, <1>4, RequestFacts
    <3>2. CallInv(w)'
      BY <1>2, <1>4, <1>6, <1>8, <3>1 DEF CallInv, Active, Present
    <3>3. QED
      BY <1>2, <1>3, <1>8, <2>2, <2>4, <3>2 DEF WorkerInv, StampInv
  <2>5. QED
    BY <2>3, <2>4
<1>11. QED
  BY <1>7, <1>10

\* The row an UPDATE writes, with the stamp its worker holds.
LEMMA WrittenType ==
    ASSUME StoreInv, NEW w \in Workers, pc[w] = "execute", req[w].op # "create", Active(target[w])
    PROVE  /\ target[w] \in Tasks /\ Written(w) \in Row
           /\ Written(w).lm = stamp[w]
           /\ Written(w).deleted = (req[w].op = "delete")
<1>1. /\ CallInv(w) /\ stamp[w] # NoStamp
      /\ StoreTypeOK
  BY CallFacts DEF StoreInv
<1>2. req[w] \in Requests /\ target[w] \in Tasks /\ stamp[w] \in Stamps /\ finished[w] \in Stamps
  BY <1>1, RequestFacts DEF CallInv, StoreTypeOK
<1>3. tasks[target[w]] \in Row /\ ~tasks[target[w]].deleted
  BY <1>1, <1>2 DEF StoreTypeOK, Active, Present
<1>4. NewData(tasks[target[w]].data, req[w].fields, finished[w]) \in TaskData
  BY <1>2, <1>3, NewDataType DEF Row
<1>5. QED
  BY <1>2, <1>3, <1>4 DEF Written, Row

LEMMA UpdateStep ==
    ASSUME StoreInv, NEW w \in Workers, Update(w)
    PROVE  StoreInv'
<1> USE DEF StoreInv
<1>1. /\ pc[w] = "execute" /\ req[w].op # "create" /\ Active(target[w])
      /\ tasks' = [tasks EXCEPT ![target[w]] = Written(w)]
      /\ NoteWrite(target[w])
      /\ stamp' = [stamp EXCEPT ![w] = NoStamp]
      /\ UNCHANGED <<clock, lists, req, target, position, finished, known, noop>>
  BY DEF Update, Matches, Clear, locals
<1>2. PICK label \in {"reload", "done"}, answer \in {"none", "ok", "unavailable"} :
          /\ pc' = [pc EXCEPT ![w] = label] /\ resp' = [resp EXCEPT ![w] = answer]
          /\ label = "reload" => answer = "none"
  <2>1. resp' = resp => resp' = [resp EXCEPT ![w] = "none"]
    BY <1>1, CallFacts DEF StoreTypeOK
  <2>2. QED
    BY <2>1 DEF Update, Committed, Goto, Respond
<1>3. CallInv(w) /\ KnownInv(w) /\ resp[w] = "none"
  BY <1>1, CallFacts DEF WorkerInv
<1>4. target[w] \in Tasks /\ Written(w) \in Row
  BY <1>1, WrittenType
<1>5. StoreTypeOK'
  BY <1>1, <1>2, <1>4, NoteType DEF StoreTypeOK, Responses
<1>6. /\ pc'[w] = label /\ resp'[w] = answer /\ stamp'[w] = NoStamp
      /\ \A v \in Workers \ {w} : Aside(v)
  BY <1>1, <1>2 DEF StoreTypeOK, Aside
<1>7. ASSUME NEW v \in Workers PROVE WorkerInv(v)'
  <2>1. CASE v # w
    BY <1>1, <1>4, <1>6, <2>1, NotedAside
  <2>2. CASE v = w
    <3>1. KnownInv(w)' /\ (gone[w] \/ Active(target[w]))'
      BY <1>1, <1>3, <1>4, NotedWrite
    <3>2. CallInv(w)'
      BY <1>1, <1>3, <1>4, <1>6, <3>1 DEF CallInv
    <3>3. QED
      BY <1>2, <1>6, <2>2, <3>1, <3>2 DEF WorkerInv, StampInv
  <2>3. QED
    BY <2>1, <2>2
<1>8. QED
  BY <1>5, <1>7

LEMMA BystanderStep ==
    ASSUME StoreInv, UNCHANGED <<tasks, stamp, callVars, ghosts>>,
           clock' \in Stamps, lists' \subseteq Lists
    PROVE  StoreInv'
<1>1. UNCHANGED <<tasks, stamp, pc, req, target, position, finished, resp,
                  known, changed, gone, noop, placed>>
  BY DEF callVars, locals, ghosts
<1>2. StoreTypeOK'
  BY <1>1 DEF StoreInv, StoreTypeOK
<1>3. ASSUME NEW v \in Workers PROVE WorkerInv(v)'
  BY <1>1, AsideStep DEF StoreInv, Aside
<1>4. QED
  BY <1>2, <1>3 DEF StoreInv

-----------------------------------------------------------------------------
(* The invariant holds, and what follows.                                  *)

LEMMA StoreInvInit == StoreInit => StoreInv
<1> SUFFICES ASSUME StoreInit PROVE StoreInv
  OBVIOUS
<1>1. StoreTypeOK
  BY StoreAssumption DEF StoreInit, StoreTypeOK, Stamps, Responses
<1>2. ASSUME NEW v \in Workers PROVE WorkerInv(v)
  BY DEF StoreInit, WorkerInv, StampInv, KnownInv
<1>3. QED
  BY <1>1, <1>2 DEF StoreInv

LEMMA StoreInvStep == StoreInv /\ [StoreNext]_vars => StoreInv'
<1> SUFFICES ASSUME StoreInv, [StoreNext]_vars PROVE StoreInv'
  OBVIOUS
<1>1. ASSUME NEW w \in Workers, WorkerStep(w) PROVE StoreInv'
  BY <1>1, ReadStep, BeginStep, EnsureListExistsStep, TakeCompletedTimeStep, TakeStampStep,
     NextSortStep, InsertStep, UpdateStep, UpdateNothingStep, MatchVersionStep, ResolveStep,
     ReloadStep, FailStep, CollectStep
     DEF WorkerStep
<1>2. ASSUME NEW t \in Tasks, DeviceEdit(t) PROVE StoreInv'
  BY <1>2, DeviceEditStep
<1>3. ASSUME NEW l \in Lists, DeleteList(l) PROVE StoreInv'
  BY <1>3, BystanderStep DEF DeleteList, StoreInv, StoreTypeOK
<1>4. CASE Tick
  BY <1>4, BystanderStep, StoreAssumption DEF Tick, StoreInv, StoreTypeOK, Stamps
<1>5. CASE UNCHANGED vars
  BY <1>5, BystanderStep DEF vars, StoreInv, StoreTypeOK
<1>6. QED
  BY <1>1, <1>2, <1>3, <1>4, <1>5 DEF StoreNext

THEOREM StoreInvariant == StoreSpec => []StoreInv
BY StoreInvInit, StoreInvStep, PTL DEF StoreSpec

\* Rows, requests and versions stay well formed: in particular no request
\* writes a null into a column that cannot hold it.
THEOREM StoreTypeCorrect == StoreSpec => []StoreTypeOK
<1>1. StoreInv => StoreTypeOK
  BY DEF StoreInv
<1>2. QED
  BY <1>1, StoreInvariant, PTL

\* A 409 is told for a reason (update_task, delete_task and _resolve_write):
\* the client's version is no longer the row's.
THEOREM ConflictsAreReal == StoreSpec => []ConflictIsReal
<1>1. StoreInv => ConflictIsReal
  BY DEF StoreInv, WorkerInv, CallInv, ConflictIsReal
<1>2. QED
  BY <1>1, StoreInvariant, PTL

\* A 404 is told for a reason: the task was deleted before or during the call.
THEOREM MissingIsReal == StoreSpec => []NotFoundIsReal
<1>1. StoreInv => NotFoundIsReal
  BY DEF StoreInv, WorkerInv, CallInv, NotFoundIsReal
<1>2. QED
  BY <1>1, StoreInvariant, PTL

-----------------------------------------------------------------------------
(* Conditional writes.                                                     *)

\* Only a worker's own steps move it.
LEMMA OwnStep ==
    ASSUME StoreTypeOK, [StoreNext]_vars, NEW w \in Workers, pc'[w] # pc[w]
    PROVE  WorkerStep(w)
<1>1. ASSUME NEW v \in Workers, WorkerStep(v), v # w PROVE FALSE
  <2>1. (\E t \in Tasks : Read(v, t)) => pc' = pc
    BY DEF Read, callVars
  <2>2. ~ (\E t \in Tasks : Read(v, t)) => \E label : pc' = [pc EXCEPT ![v] = label]
    BY <1>1 DEF WorkerStep, Begin, EnsureListExists, TakeCompletedTime, TakeStamp, NextSort,
       Insert, Update, UpdateNothing, MatchVersion, Resolve, Reload, Fail, Collect,
       Goto, Respond, Committed
  <2>3. QED
    BY <1>1, <2>1, <2>2 DEF StoreTypeOK
<1>2. ~ (\E t \in Tasks : DeviceEdit(t)) /\ ~ (\E l \in Lists : DeleteList(l)) /\ ~Tick
      /\ ~UNCHANGED vars
  BY DEF DeviceEdit, DeleteList, Tick, vars, callVars
<1>3. QED
  BY <1>1, <1>2 DEF StoreNext

\* The WHERE clause of update_task and delete_task: a conditional write lands
\* only on the version its client knows, so never on a later one.
THEOREM NoUpdateIsLost == StoreSpec => NoLostUpdate
<1> DEFINE Overwrites(w) == /\ pc[w] = "execute" /\ pc'[w] # "execute"
                            /\ req[w].cond /\ tasks' # tasks
<1>1. StoreInv /\ [StoreNext]_vars =>
          [\A w \in Workers : Overwrites(w) => changed[w] # "later"]_vars
  <2> SUFFICES ASSUME StoreInv, [StoreNext]_vars, NEW w \in Workers, Overwrites(w)
               PROVE  changed[w] # "later"
    OBVIOUS
  <2>1. StoreTypeOK /\ KnownInv(w) /\ CallInv(w) /\ req[w].op # "create"
    BY RequestFacts DEF StoreInv, WorkerInv, CallInv
  <2>2. WorkerStep(w)
    BY <2>1, OwnStep
  <2>3. ~Fail(w) /\ ~UpdateNothing(w) /\ ~Insert(w)
    BY <2>1 DEF Fail, UpdateNothing, Insert
  <2>4. Update(w)
    BY <2>2, <2>3 DEF WorkerStep, Read, Begin, EnsureListExists, TakeCompletedTime, TakeStamp,
       NextSort, MatchVersion, Resolve, Reload, Collect
  <2>5. target[w] \in Tasks /\ Active(target[w]) /\ tasks[target[w]].lm = known[w].lm
        /\ known[w] # NoVersion /\ known[w].task = target[w]
    BY <2>1, <2>4, RequestFacts DEF Update, Matches, CallInv
  <2>6. known[w].lm \in Nat
    BY <2>1, <2>5 DEF StoreTypeOK, Stamps
  <2>7. QED
    BY <2>1, <2>5, <2>6 DEF KnownInv
<1>2. QED
  BY <1>1, StoreInvariant, PTL DEF StoreSpec, NoLostUpdate

-----------------------------------------------------------------------------
(* Positions.                                                              *)

\* The position a worker computed is behind every task of its list that has
\* stayed where it was since.
PositionInv(v) ==
    pc[v] = "execute" /\ Appends(req[v]) =>
        \A u \in Siblings(TargetList(v)) \ placed[v] : tasks[u].data.sort < position[v]

\* A task that is not in `placed` has the place it had.
Unmoved(v) ==
    /\ req'[v] = req[v] /\ position'[v] = position[v] /\ placed[v] \subseteq placed'[v]
    /\ Appends(req[v]) => \A u \in Tasks \ placed'[v] : Place(tasks'[u]) = Place(tasks[u])

LEMMA PositionKept ==
    ASSUME NEW v \in Workers, PositionInv(v), pc[v] = "execute", Unmoved(v)
    PROVE  PositionInv(v)'
<1> SUFFICES ASSUME Appends(req[v]), NEW u \in Siblings(TargetList(v))', u \notin placed'[v]
             PROVE  tasks'[u].data.sort < position'[v]
  BY DEF PositionInv, Unmoved
<1>1. TargetList(v)' = TargetList(v)
  BY DEF Unmoved, TargetList
<1>2. /\ u \in Tasks /\ tasks'[u] # Absent /\ ~tasks'[u].deleted
      /\ tasks'[u].data.list = TargetList(v)
  BY <1>1 DEF Siblings, Active, Present
<1>3. Place(tasks[u]) = <<tasks'[u].data.list, tasks'[u].data.sort>>
  BY <1>2 DEF Unmoved, Place
<1>4. /\ tasks[u] # Absent /\ ~tasks[u].deleted
      /\ tasks[u].data.list = tasks'[u].data.list /\ tasks[u].data.sort = tasks'[u].data.sort
  BY <1>3 DEF Place
<1>5. u \in Siblings(TargetList(v)) \ placed[v]
  BY <1>2, <1>4 DEF Siblings, Active, Present, Unmoved
<1> QED
  BY <1>4, <1>5 DEF PositionInv, Unmoved

LEMMA NotedPlace ==
    ASSUME StoreTypeOK, NEW t \in Tasks, NEW row, tasks' = [tasks EXCEPT ![t] = row], NotePlace(t),
           NEW v \in Workers, pc[v] = "execute", req'[v] = req[v], position'[v] = position[v]
    PROVE  Unmoved(v)
<1>1. \A u \in Tasks : u # t => tasks'[u] = tasks[u]
  BY DEF StoreTypeOK
<1>2. placed'[v] = IF Appends(req[v]) /\ Place(tasks'[t]) # Place(tasks[t])
                   THEN placed[v] \cup {t} ELSE placed[v]
  BY DEF NotePlace
<1> QED
  BY <1>1, <1>2 DEF Unmoved

LEMMA WaitingStep ==
    ASSUME StoreInv, [StoreNext]_vars, NEW v \in Workers, pc[v] = "execute", pc'[v] = "execute"
    PROVE  Unmoved(v)
<1> USE DEF StoreInv
<1>1. ASSUME NEW w \in Workers, WorkerStep(w) PROVE Unmoved(v)
  <2>1. CASE w = v
    <3>1. UNCHANGED <<tasks, req, position, placed>> \/ Update(v) \/ Insert(v)
          \/ UpdateNothing(v) \/ Fail(v)
      BY <1>1, <2>1 DEF WorkerStep, Read, Begin, EnsureListExists, TakeCompletedTime, TakeStamp,
         NextSort, MatchVersion, Resolve, Reload, Collect, callVars, locals, ghosts
    <3>2. Update(v) \/ Insert(v) \/ UpdateNothing(v) \/ Fail(v) => pc'[v] # "execute"
      BY DEF Update, Insert, UpdateNothing, Fail, Committed, Goto, Respond, StoreTypeOK
    <3> QED
      BY <3>1, <3>2 DEF Unmoved
  <2>2. CASE w # v
    <3>1. CASE Insert(w)
      <4>1. PICK t \in Tasks : /\ NotePlace(t)
                               /\ tasks' = [tasks EXCEPT ![t] =
                                     [lm |-> stamp[w], deleted |-> FALSE,
                                      data |-> NewData(Blank(position[w]), req[w].fields, stamp[w])]]
        BY <3>1 DEF Insert
      <4>2. req' = req /\ position' = position
        BY <3>1 DEF Insert
      <4> QED
        BY <4>1, <4>2, NotedPlace
    <3>2. CASE Update(w)
      <4>1. /\ pc[w] = "execute" /\ req[w].op # "create" /\ Active(target[w])
            /\ tasks' = [tasks EXCEPT ![target[w]] = Written(w)] /\ NoteWrite(target[w])
            /\ req' = req /\ position' = position
        BY <3>2 DEF Update, Matches, locals
      <4>2. target[w] \in Tasks /\ NotePlace(target[w])
        BY <4>1, WrittenType DEF NoteWrite
      <4> QED
        BY <4>1, <4>2, NotedPlace
    <3>3. CASE ~Insert(w) /\ ~Update(w)
      <4>1. /\ UNCHANGED tasks
            /\ req' = req \/ \E x : req' = [req EXCEPT ![w] = x]
            /\ position' = position \/ \E x : position' = [position EXCEPT ![w] = x]
            /\ placed' = placed \/ placed' = [placed EXCEPT ![w] = {}]
        BY <1>1, <3>3 DEF WorkerStep, Read, Begin, EnsureListExists, TakeCompletedTime, TakeStamp,
           NextSort, UpdateNothing, MatchVersion, Resolve, Reload, Fail, Collect,
           callVars, locals, ghosts
      <4>2. req'[v] = req[v] /\ position'[v] = position[v] /\ placed'[v] = placed[v]
        BY <2>2, <4>1 DEF StoreTypeOK
      <4> QED
        BY <4>1, <4>2 DEF Unmoved
    <3> QED
      BY <3>1, <3>2, <3>3
  <2> QED
    BY <2>1, <2>2
<1>2. ASSUME NEW t \in Tasks, DeviceEdit(t) PROVE Unmoved(v)
  <2>1. PICK row : tasks' = [tasks EXCEPT ![t] = row]
    BY <1>2, DeviceRow
  <2>2. NotePlace(t) /\ req' = req /\ position' = position
    BY <1>2 DEF DeviceEdit, NoteWrite, callVars, locals
  <2> QED
    BY <2>1, <2>2, NotedPlace
<1>3. (\E l \in Lists : DeleteList(l)) \/ Tick \/ UNCHANGED vars
          => UNCHANGED <<tasks, req, position, placed>>
  BY DEF DeleteList, Tick, vars, callVars, locals, ghosts
<1> QED
  BY <1>1, <1>2, <1>3 DEF StoreNext, Unmoved

LEMMA PositionStep ==
    ASSUME StoreInv, [StoreNext]_vars, NEW v \in Workers, PositionInv(v)
    PROVE  PositionInv(v)'
<1> USE DEF StoreInv
<1>1. CASE pc'[v] # "execute"
  BY <1>1 DEF PositionInv
<1>2. CASE pc[v] = "execute" /\ pc'[v] = "execute"
  BY <1>2, WaitingStep, PositionKept
<1>3. CASE pc[v] # "execute" /\ pc'[v] = "execute"
  <2>1. WorkerStep(v)
    BY <1>3, OwnStep
  <2>2. TakeStamp(v) \/ NextSort(v)
    BY <1>3, <2>1 DEF WorkerStep, Read, Begin, EnsureListExists, TakeCompletedTime,
       Insert, Update, UpdateNothing, MatchVersion, Resolve, Reload, Fail, Collect,
       Goto, Respond, Committed, FirstClockRead, StoreTypeOK, callVars
  <2>3. CASE TakeStamp(v)
    <3>1. ~Appends(req[v]) /\ req' = req
      BY <1>3, <2>3 DEF TakeStamp, Goto, StoreTypeOK, locals
    <3> QED
      BY <3>1 DEF PositionInv
  <2>4. CASE NextSort(v)
    <3>1. /\ position'[v] = NextPosition(TargetList(v))
          /\ UNCHANGED <<tasks, req>>
      BY <2>4 DEF NextSort, StoreTypeOK
    <3>2. Siblings(TargetList(v))' = Siblings(TargetList(v))
      BY <3>1 DEF Siblings, TargetList, Active, Present
    <3>3. \A u \in Siblings(TargetList(v)) : tasks[u].data.sort < NextPosition(TargetList(v))
      BY NextPositionType
    <3> QED
      BY <3>1, <3>2, <3>3 DEF PositionInv
  <2> QED
    BY <2>2, <2>3, <2>4
<1> QED
  BY <1>1, <1>2, <1>3

\* _next_sort and the INSERT are two statements: between them the list may get
\* another task at the same position, but one that stayed in its place is never
\* behind or beside the new task.
THEOREM AppendedComesLast == StoreSpec => AppendedIsLast
<1> DEFINE Positions == StoreInv /\ \A v \in Workers : PositionInv(v)
           Last == \A t \in Tasks, w \in Workers :
                      /\ pc[w] = "execute" /\ pc'[w] # "execute" /\ Appends(req[w])
                      /\ tasks'[t] # tasks[t]
                      => \A u \in Siblings(TargetList(w)) \ placed[w] :
                            tasks[u].data.sort < tasks'[t].data.sort
<1>1. StoreInit => Positions
  BY StoreInvInit DEF StoreInit, PositionInv
<1>2. Positions /\ [StoreNext]_vars => Positions'
  BY StoreInvStep, PositionStep
<1>3. Positions /\ [StoreNext]_vars => [Last]_vars
  <2> SUFFICES ASSUME Positions, [StoreNext]_vars, NEW t \in Tasks, NEW w \in Workers,
                      pc[w] = "execute", pc'[w] # "execute", Appends(req[w]),
                      tasks'[t] # tasks[t], NEW u \in Siblings(TargetList(w)) \ placed[w]
               PROVE  tasks[u].data.sort < tasks'[t].data.sort
    OBVIOUS
  <2>1. StoreTypeOK /\ PositionInv(w) /\ req[w].op = "create"
    BY DEF StoreInv, Appends
  <2>2. WorkerStep(w)
    BY <2>1, OwnStep
  <2>3. ~Fail(w)
    BY DEF Fail
  <2>4. Insert(w)
    BY <2>1, <2>2, <2>3 DEF WorkerStep, Read, Begin, EnsureListExists, TakeCompletedTime,
       TakeStamp, NextSort, Update, UpdateNothing, MatchVersion, Resolve, Reload, Collect
  <2>5. tasks'[t] = [lm |-> stamp[w], deleted |-> FALSE,
                     data |-> NewData(Blank(position[w]), req[w].fields, stamp[w])]
    BY <2>1, <2>4 DEF Insert, StoreTypeOK
  <2>6. tasks'[t].data.sort = position[w]
    BY <2>5 DEF NewData, Keep, Appends, Blank
  <2> QED
    BY <2>1, <2>6 DEF PositionInv
<1> QED
  BY <1>1, <1>2, <1>3, PTL DEF StoreSpec, AppendedIsLast

-----------------------------------------------------------------------------
(* TaskStore implements StampedTable.                                      *)

LEMMA StampedInit == StoreInit => Table!TableInit
BY StoreAssumption DEF StoreInit, Table!TableInit, Table!Stamps

LEMMA StampedWorkerStep ==
    ASSUME StoreInv, NEW w \in Workers, WorkerStep(w)
    PROVE  Table!TableNext \/ UNCHANGED <<clock, tasks, stamp>>
<1> USE DEF StoreInv
<1>1. CASE TakeStamp(w)
  <2>1. stamp[w] = NoStamp
    BY <1>1 DEF TakeStamp, WorkerInv, StampInv
  <2>2. Table!TakeStamp(w)
    BY <1>1, <2>1 DEF TakeStamp, Table!TakeStamp
  <2>3. QED
    BY <2>2 DEF Table!TableNext
<1>2. CASE Insert(w)
  <2>1. /\ pc[w] = "execute" /\ req[w].op = "create" /\ clock' = clock
        /\ stamp' = [stamp EXCEPT ![w] = NoStamp]
    BY <1>2 DEF Insert, Clear
  <2>2. /\ stamp[w] \in Stamps /\ stamp[w] # NoStamp
        /\ req[w] \in Requests /\ position[w] \in 0 .. MaxSort
    BY <2>1, CallFacts DEF CallInv, StoreTypeOK
  <2>3. NewData(Blank(position[w]), req[w].fields, stamp[w]) \in TaskData
    BY <2>1, <2>2, NewDataType
  <2>4. PICK t \in Tasks : Table!InsertRow(w, t)
    BY <1>2, <2>3 DEF Insert, Table!InsertRow, Table!Put, Table!Present, Present
  <2>5. Table!Commit(w, t)
    BY <2>1, <2>2, <2>4 DEF Table!Commit
  <2>6. QED
    BY <2>5 DEF Table!TableNext, Table!Write
<1>3. CASE Update(w)
  <2> DEFINE t == target[w]
  <2>1. /\ pc[w] = "execute" /\ req[w].op # "create" /\ clock' = clock /\ Active(t)
        /\ tasks' = [tasks EXCEPT ![t] = Written(w)]
        /\ stamp' = [stamp EXCEPT ![w] = NoStamp]
    BY <1>3 DEF Update, Clear, Matches
  <2>2. stamp[w] # NoStamp /\ t \in Tasks /\ tasks[t] \in Row /\ Written(w) \in Row
    BY <2>1, CallFacts, WrittenType DEF StoreTypeOK, Active, Present
  <2>3. CASE req[w].op = "delete"
    <3>1. Written(w) = [lm |-> stamp[w], deleted |-> TRUE, data |-> tasks[t].data]
      BY <2>2, <2>3 DEF Written, Row
    <3>2. Table!SoftDeleteRow(w, t)
      BY <2>1, <3>1
         DEF Table!SoftDeleteRow, Table!Put, Table!Active, Table!Present, Active, Present
    <3>3. Table!Commit(w, t)
      BY <2>1, <2>2, <3>2 DEF Table!Commit
    <3>4. QED
      BY <2>2, <3>3 DEF Table!TableNext, Table!Write
  <2>4. CASE req[w].op # "delete"
    <3>1. /\ Written(w).lm = stamp[w] /\ Written(w).deleted = FALSE
          /\ Written(w).data \in TaskData
      BY <2>1, <2>2, <2>4, WrittenType DEF Row
    <3>2. Written(w) = [lm |-> stamp[w], deleted |-> FALSE, data |-> Written(w).data]
      BY <2>2, <3>1 DEF Row
    <3>3. Table!UpdateRow(w, t)
      BY <2>1, <3>1, <3>2
         DEF Table!UpdateRow, Table!Put, Table!Active, Table!Present, Active, Present
    <3>4. Table!Commit(w, t)
      BY <2>1, <2>2, <3>3 DEF Table!Commit
    <3>5. QED
      BY <2>2, <3>4 DEF Table!TableNext, Table!Write
  <2>5. QED
    BY <2>3, <2>4
<1>4. CASE UpdateNothing(w) \/ Fail(w)
  <2>1. stamp' = [stamp EXCEPT ![w] = NoStamp] /\ UNCHANGED <<clock, tasks>>
    BY <1>4 DEF UpdateNothing, Fail, Clear
  <2>2. CASE stamp[w] = NoStamp
    BY <2>1, <2>2 DEF StoreTypeOK
  <2>3. CASE stamp[w] # NoStamp
    BY <2>1, <2>3 DEF Table!Withdraw, Table!TableNext
  <2>4. QED
    BY <2>2, <2>3
<1>5. QED
  BY <1>1, <1>2, <1>3, <1>4 DEF WorkerStep, Read, Begin, EnsureListExists, TakeCompletedTime,
     NextSort, MatchVersion, Resolve, Reload, Collect

LEMMA StampedDeviceEdit ==
    ASSUME StoreInv, NEW t \in Tasks, DeviceEdit(t)
    PROVE  Table!TableNext
<1>1. Table!DeviceWrite(t)
  BY DeviceRow DEF StoreInv, Table!DeviceWrite, Table!Put, DeviceEdit
<1>2. QED
  BY <1>1 DEF Table!TableNext, Table!Write

\* Every handler of the task endpoints, whatever it interleaves with, changes
\* t_schedule_task in a way StampedTable allows: the environment DeltaSync is
\* checked against is the one the writing endpoints produce.
THEOREM StoreImplementsTable == StoreSpec => ImplementsStampedTable
<1>1. StoreInv /\ [StoreNext]_vars => [Table!TableNext]_(Table!tableVars)
  <2> SUFFICES ASSUME StoreInv, [StoreNext]_vars
               PROVE  Table!TableNext \/ UNCHANGED <<clock, tasks, stamp>>
    BY DEF Table!tableVars
  <2>1. CASE Tick
    BY <2>1 DEF Tick, Table!Tick, Table!TableNext
  <2>2. QED
    BY <2>1, StampedWorkerStep, StampedDeviceEdit DEF StoreNext, DeleteList, vars
<1>2. QED
  BY <1>1, StampedInit, StoreInvariant, PTL
     DEF StoreSpec, ImplementsStampedTable, Table!TableSpec
=============================================================================

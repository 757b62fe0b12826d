--------------------------- MODULE ListStore_proofs ---------------------------
(***************************************************************************)
(* What the list endpoints guarantee, for any lists, workers, requests and *)
(* device writes: 404 and 409 are told for a reason, a conditional write   *)
(* does not overwrite a later version, a create makes a twin only of a     *)
(* list that got its title behind its back, and the table changes only as  *)
(* StampedTable allows.                                                    *)
(***************************************************************************)
EXTENDS ListStore, WellFoundedInduction, TLAPS

\* A worker holds a stamp exactly between computing it and its statement.
StampInv(v) == pending[v] # NoStamp <=> pc[v] = "execute"

\* What a version says of its row now.
KnownInv(v) ==
    known[v] # NoVersion =>
        LET i == known[v].list
        IN  /\ Present(i)
            /\ changed[v] = "no" => Active(i) /\ table[i].lm = known[v].lm
            /\ changed[v] = "later" => table[i].lm > known[v].lm

\* What a call in progress has established.
CallInv(v) ==
    /\ req[v] \in Requests
    /\ req[v].op # "create" => target[v] = req[v].list
    /\ req[v].cond => known[v] # NoVersion /\ known[v].list = target[v]
    /\ target[v] \in Ids => gone[v] \/ Active(target[v])
    /\ pc[v] = "reload" => target[v] \in Ids
    /\ pc[v] = "lookup" => req[v].op = "create"
    /\ pc[v] = "resolve" => /\ req[v].op # "create"
                            /\ IF req[v].cond THEN changed[v] # "no" \/ noop[v]
                                              ELSE gone[v] \/ noop[v]
    /\ resp[v] = "conflict" => req[v].cond /\ (changed[v] # "no" \/ noop[v])
    /\ resp[v] = "missing" => gone[v] \/ noop[v]

\* A create that found no list of its title knows of every list that has got
\* the title since.
TwinInv(v) ==
    pc[v] \in {"stamp", "execute"} /\ req[v].op = "create" => Titled(req[v].title) \subseteq since[v]

WorkerInv(v) ==
    /\ StampInv(v) /\ KnownInv(v)
    /\ pc[v] # "idle" => CallInv(v)
    /\ TwinInv(v)
    /\ pc[v] # "done" => resp[v] = "none"

ListInv == ListTypeOK /\ \A v \in Writers : WorkerInv(v)

-----------------------------------------------------------------------------
(* Steps seen from a worker that takes no part in them.                    *)

Aside(v) ==
    /\ pc'[v] = pc[v] /\ req'[v] = req[v] /\ target'[v] = target[v] /\ resp'[v] = resp[v]
    /\ pending'[v] = pending[v] /\ known'[v] = known[v] /\ noop'[v] = noop[v]

LEMMA RequestFacts ==
    ASSUME NEW r \in Requests
    PROVE  /\ r.op \in {"create", "rename", "delete"} /\ r.list \in Ids /\ r.title \in Data
           /\ r.cond => r.op # "create"
BY ListAssumption DEF RequestOK

\* A step that leaves the table alone.
LEMMA AsideStep ==
    ASSUME NEW v \in Writers, WorkerInv(v), Aside(v), table' = table,
           changed'[v] = changed[v], gone'[v] = gone[v], since'[v] = since[v]
    PROVE  WorkerInv(v)'
BY DEF WorkerInv, StampInv, KnownInv, CallInv, TwinInv, Titled, Aside, Active, Present

\* A row is written and the history variables take note.
LEMMA NotedWrite ==
    ASSUME ListTypeOK, NEW i \in Ids, NEW row \in Row,
           table' = [table EXCEPT ![i] = row], NoteWrite(i),
           NEW v \in Writers, KnownInv(v), known'[v] = known[v], target'[v] = target[v]
    PROVE  /\ KnownInv(v)'
           /\ changed[v] # "no" => changed'[v] # "no"
           /\ gone[v] => gone'[v]
           /\ target[v] \in Ids /\ (gone[v] \/ Active(target[v]))
                 => (gone[v] \/ Active(target[v]))'
<1>1. /\ table'[i] = row /\ \A j \in Ids : j # i => table'[j] = table[j]
      /\ row # Absent /\ row.lm \in Nat
  BY TableAssumption DEF ListTypeOK, TableTypeOK, Tables, Row, Stamps
<1>2. /\ gone'[v] = (gone[v] \/ (target[v] = i /\ row.deleted))
      /\ changed'[v] = IF known[v] = NoVersion \/ known[v].list # i THEN changed[v]
                       ELSE IF row.lm > table[i].lm /\ changed[v] # "clash" THEN "later"
                       ELSE "clash"
  BY <1>1 DEF NoteWrite, Advances
<1>3. Present(i) => table[i].lm \in Nat
  BY DEF ListTypeOK, TableTypeOK, Tables, Row, Stamps, Present
<1>4. changed[v] \in {"no", "later", "clash"}
      /\ (known[v] # NoVersion => known[v].list \in Ids /\ known[v].lm \in Nat)
  BY DEF ListTypeOK, Versions, Stamps
<1>5. KnownInv(v)'
  <2>1. CASE known[v] = NoVersion
    BY <2>1 DEF KnownInv
  <2>2. CASE known[v] # NoVersion /\ known[v].list # i
    BY <1>1, <1>2, <1>4, <2>2 DEF KnownInv, Active, Present
  <2>3. CASE known[v] # NoVersion /\ known[v].list = i
    BY <1>1, <1>2, <1>3, <1>4, <2>3 DEF KnownInv, Active, Present
  <2>4. QED
    BY <2>1, <2>2, <2>3
<1>6. (target[v] \in Ids /\ (gone[v] \/ Active(target[v])))
         => (gone[v] \/ Active(target[v]))'
  BY <1>1, <1>2 DEF Active, Present
<1>7. QED
  BY <1>2, <1>5, <1>6

LEMMA NotedTitle ==
    ASSUME ListTypeOK, NEW i \in Ids, NEW row \in Row,
           table' = [table EXCEPT ![i] = row], NoteTitle(i),
           NEW v \in Writers, TwinInv(v), pc'[v] = pc[v], req'[v] = req[v]
    PROVE  TwinInv(v)'
<1>1. SUFFICES ASSUME pc[v] \in {"stamp", "execute"}, req[v].op = "create"
               PROVE  Titled(req[v].title)' \subseteq since'[v]
  BY DEF TwinInv
<1>2. since'[v] = since[v] \cup {i} /\ Titled(req[v].title) \subseteq since[v]
  BY <1>1 DEF NoteTitle, TwinInv
<1>3. \A j \in Ids : j # i => table'[j] = table[j]
  BY DEF ListTypeOK, TableTypeOK, Tables
<1>4. Titled(req[v].title)' \subseteq Titled(req[v].title) \cup {i}
  BY <1>3 DEF Titled, Active, Present
<1>5. QED
  BY <1>2, <1>4

\* The history variables keep their type.
LEMMA NoteType ==
    ASSUME ListTypeOK, NEW i \in Ids, NEW row \in Row,
           table' = [table EXCEPT ![i] = row], NoteWrite(i)
    PROVE  /\ table' \in Tables
           /\ changed' \in [Writers -> {"no", "later", "clash"}]
           /\ gone' \in [Writers -> BOOLEAN]
           /\ since' \in [Writers -> SUBSET Ids]
<1>1. table' \in Tables /\ table'[i] = row
  BY DEF ListTypeOK, TableTypeOK, Tables
<1>2. changed' \in [Writers -> {"no", "later", "clash"}]
  BY DEF ListTypeOK, NoteWrite
<1>3. gone' \in [Writers -> BOOLEAN]
  BY <1>1 DEF ListTypeOK, NoteWrite, Row
<1>4. since' \in [Writers -> SUBSET Ids]
  BY DEF ListTypeOK, NoteWrite, NoteTitle
<1>5. QED
  BY <1>1, <1>2, <1>3, <1>4

\* A worker that takes no part in such a write keeps its invariant.
LEMMA NotedAside ==
    ASSUME ListTypeOK, NEW i \in Ids, NEW row \in Row,
           table' = [table EXCEPT ![i] = row], NoteWrite(i),
           NEW v \in Writers, WorkerInv(v), Aside(v)
    PROVE  WorkerInv(v)'
<1>1. /\ KnownInv(v)' /\ (changed[v] # "no" => changed'[v] # "no") /\ (gone[v] => gone'[v])
      /\ target[v] \in Ids /\ (gone[v] \/ Active(target[v]))
            => (gone[v] \/ Active(target[v]))'
  BY NotedWrite DEF WorkerInv, Aside
<1>2. StampInv(v)' /\ (pc[v] # "done" => resp[v] = "none")'
  BY DEF WorkerInv, StampInv, Aside
<1>3. ASSUME pc[v] # "idle" PROVE CallInv(v)'
  BY <1>1, <1>3 DEF WorkerInv, CallInv, Aside
<1>4. TwinInv(v)'
  BY NotedTitle DEF NoteWrite, WorkerInv, Aside
<1>5. QED
  BY <1>1, <1>2, <1>3, <1>4 DEF WorkerInv, Aside

-----------------------------------------------------------------------------
(* One lemma per action.                                                   *)

LEMMA VersionType ==
    ASSUME ListTypeOK, NEW i \in Ids, Active(i)
    PROVE  /\ [list |-> i, lm |-> table[i].lm] \in Versions
           /\ [list |-> i, lm |-> table[i].lm] # NoVersion
BY ListAssumption DEF ListTypeOK, TableTypeOK, Tables, Versions, Row, Active, Present

LEMMA ReadStep ==
    ASSUME ListInv, NEW w \in Writers, NEW i \in Ids, Read(w, i)
    PROVE  ListInv'
<1> USE DEF ListInv
<1>1. /\ pc[w] = "idle" /\ Active(i)
      /\ known' = [known EXCEPT ![w] = [list |-> i, lm |-> table[i].lm]]
      /\ changed' = [changed EXCEPT ![w] = "no"]
      /\ UNCHANGED <<clock, table, pending, pc, req, target, resp, gone, noop, since>>
  BY DEF Read, Learn, callVars, tableVars
<1>2. ListTypeOK'
  BY <1>1, VersionType DEF ListTypeOK, TableTypeOK
<1>3. ASSUME NEW v \in Writers PROVE WorkerInv(v)'
  <2>1. CASE v # w
    BY <1>1, <2>1, AsideStep DEF Aside, ListTypeOK
  <2>2. CASE v = w
    <3>1. known'[w] = [list |-> i, lm |-> table[i].lm] /\ changed'[w] = "no"
      BY <1>1 DEF ListTypeOK
    <3>2. KnownInv(w)'
      BY <1>1, <3>1 DEF KnownInv, Active, Present
    <3>3. QED
      BY <1>1, <2>2, <3>2 DEF WorkerInv, StampInv, TwinInv
  <2>3. QED
    BY <2>1, <2>2
<1>4. QED
  BY <1>2, <1>3

LEMMA BeginStep ==
    ASSUME ListInv, NEW w \in Writers, NEW r \in Requests, Begin(w, r)
    PROVE  ListInv'
<1> USE DEF ListInv
<1> DEFINE label == IF r.op = "create" THEN "lookup" ELSE "stamp"
<1>1. /\ pc[w] = "idle" /\ pc' = [pc EXCEPT ![w] = label]
      /\ r.cond => known[w] # NoVersion /\ known[w].list = r.list
      /\ req' = [req EXCEPT ![w] = r]
      /\ target' = [target EXCEPT ![w] = IF r.op = "create" THEN Absent ELSE r.list]
      /\ gone' = [gone EXCEPT ![w] = r.op # "create" /\ ~Active(r.list)]
      /\ noop' = [noop EXCEPT ![w] = FALSE]
      /\ UNCHANGED <<clock, table, pending, known, changed, resp, since>>
  BY DEF Begin, Goto, tableVars
<1>2. r.op \in {"create", "rename", "delete"} /\ r.list \in Ids /\ (r.cond => r.op # "create")
  BY RequestFacts
<1>3. ListTypeOK'
  BY <1>1, <1>2 DEF ListTypeOK, TableTypeOK
<1>4. ASSUME NEW v \in Writers PROVE WorkerInv(v)'
  <2>1. CASE v # w
    BY <1>1, <2>1, AsideStep DEF Aside, ListTypeOK
  <2>2. CASE v = w
    <3>1. /\ req'[w] = r /\ noop'[w] = FALSE /\ pc'[w] = label
          /\ target'[w] = (IF r.op = "create" THEN Absent ELSE r.list)
          /\ gone'[w] = (r.op # "create" /\ ~Active(r.list))
      BY <1>1 DEF ListTypeOK
    <3>2. resp[w] = "none" /\ pending[w] = NoStamp
      BY <1>1 DEF WorkerInv, StampInv
    <3>3. Absent \notin Ids
      BY ListAssumption
    <3>4. CallInv(w)'
      <4>1. /\ resp'[w] = "none"
            /\ target[w]' \in Ids => gone[w]' \/ Active(target[w])'
        BY <1>1, <3>1, <3>2, <3>3 DEF Active, Present
      <4>2. CASE r.op = "create"
        BY <1>1, <1>2, <3>1, <3>3, <4>1, <4>2 DEF CallInv
      <4>3. CASE r.op # "create"
        BY <1>1, <1>2, <3>1, <4>1, <4>3 DEF CallInv
      <4>4. QED
        BY <4>2, <4>3
    <3>5. KnownInv(w)' /\ StampInv(w)' /\ TwinInv(w)'
      BY <1>1, <3>1, <3>2 DEF WorkerInv, KnownInv, StampInv, TwinInv, Active, Present
    <3>6. QED
      BY <1>1, <2>2, <3>2, <3>4, <3>5 DEF WorkerInv
  <2>3. QED
    BY <2>1, <2>2
<1>5. QED
  BY <1>3, <1>4

\* A step of a call that changes neither the table, the request nor the version
\* its client knows.
LEMMA CallStep ==
    ASSUME ListInv, NEW w \in Writers, pc[w] # "idle", pc'[w] # "idle", ListTypeOK',
           \A v \in Writers \ {w} : /\ pc'[v] = pc[v] /\ resp'[v] = resp[v]
                                    /\ pending'[v] = pending[v] /\ noop'[v] = noop[v]
                                    /\ since'[v] = since[v],
           UNCHANGED <<table, req, target, known, changed, gone>>,
           pending'[w] # NoStamp <=> pc'[w] = "execute",
           pc'[w] # "done" => resp'[w] = "none",
           pc'[w] = "reload" => target[w] \in Ids,
           pc'[w] # "lookup", TwinInv(w)',
           pc'[w] = "resolve" => /\ req[w].op # "create"
                                 /\ IF req[w].cond THEN changed[w] # "no" \/ noop'[w]
                                                   ELSE gone[w] \/ noop'[w],
           resp'[w] = "conflict" => req[w].cond /\ (changed[w] # "no" \/ noop'[w]),
           resp'[w] = "missing" => gone[w] \/ noop'[w]
    PROVE  ListInv'
<1> USE DEF ListInv
<1>1. ASSUME NEW v \in Writers PROVE WorkerInv(v)'
  <2>1. CASE v # w
    BY <2>1, AsideStep DEF Aside
  <2>2. CASE v = w
    <3>1. CallInv(w)
      BY DEF WorkerInv
    <3>2. CallInv(w)'
      BY <3>1 DEF CallInv, Active, Present
    <3>3. KnownInv(w)' /\ StampInv(w)'
      BY DEF WorkerInv, KnownInv, StampInv, Active, Present
    <3>4. QED
      BY <2>2, <3>2, <3>3 DEF WorkerInv
  <2>3. QED
    BY <2>1, <2>2
<1>2. QED
  BY <1>1

\* What the invariant says of a worker in the middle of a call.
LEMMA CallFacts ==
    ASSUME ListInv, NEW w \in Writers, pc[w] \notin {"idle", "done"}
    PROVE  /\ CallInv(w) /\ resp[w] = "none"
           /\ pending[w] # NoStamp <=> pc[w] = "execute"
BY DEF ListInv, WorkerInv, StampInv

LEMMA StampStep ==
    ASSUME ListInv, NEW w \in Writers, Stamp(w)
    PROVE  ListInv'
<1>1. /\ pc[w] = "stamp" /\ pc' = [pc EXCEPT ![w] = "execute"] /\ resp' = resp
      /\ pending' = [pending EXCEPT ![w] = clock]
      /\ UNCHANGED <<clock, table, req, target, known, changed, gone, noop, since>>
  BY DEF Stamp, TakeStamp, Goto, ghosts
<1>2. ListTypeOK' /\ pc'[w] = "execute" /\ pending'[w] # NoStamp
  BY <1>1, TableAssumption DEF ListInv, ListTypeOK, TableTypeOK
<1>3. TwinInv(w)'
  BY <1>1, <1>2 DEF ListInv, WorkerInv, TwinInv, Titled, Active, Present
<1>4. QED
  BY <1>1, <1>2, <1>3, CallFacts, CallStep DEF ListInv, ListTypeOK, TableTypeOK

LEMMA LeastNumber ==
    ASSUME NEW S, S \subseteq Nat, S # {}
    PROVE  \E b \in S : \A c \in S : b <= c
<1>1. PICK b \in S : \A c \in S : ~ (<<c, b>> \in OpToRel(<, Nat))
  BY NatLessThanWellFounded, WFMin
<1>2. \A c \in Nat : c < b => <<c, b>> \in OpToRel(<, Nat)
  BY DEF OpToRel
<1>3. ASSUME NEW c \in S PROVE b <= c
  <2>1. ~ (<<c, b>> \in OpToRel(<, Nat))
    BY <1>1
  <2> HIDE DEF OpToRel
  <2>2. c \in Nat /\ b \in Nat
    OBVIOUS
  <2>3. ~(c < b)
    BY <1>2, <2>1, <2>2, Zenon
  <2>4. QED
    BY <2>2, <2>3
<1>4. QED
  BY <1>3

\* A title that is taken is found: the choice of the oldest list has a witness.
LEMMA FoundIfTitled ==
    ASSUME ListTypeOK, NEW title, Found(title) = {}
    PROVE  Titled(title) = {}
<1>1. SUFFICES ASSUME Titled(title) # {} PROVE FALSE
  OBVIOUS
<1> DEFINE S == Titled(title)
           lms == {table[i].lm : i \in S}
<1>2. S \subseteq Ids /\ S \subseteq Nat /\ \A i \in S : table[i].lm \in Nat
  <2>1. S \subseteq Ids /\ Ids \subseteq Nat
    BY TableAssumption DEF Titled
  <2>2. \A i \in S : table[i] \in Row
    BY DEF Titled, Active, Present, ListTypeOK, TableTypeOK, Tables
  <2>3. \A row \in Row : row.lm \in Nat
    BY DEF Row, Stamps
  <2>4. QED
    BY <2>1, <2>2, <2>3
<1>3. PICK m \in lms : \A n \in lms : m <= n
  <2>1. lms \subseteq Nat /\ lms # {}
    BY <1>1, <1>2
  <2> HIDE DEF lms
  <2>2. QED
    BY <2>1, LeastNumber
<1> DEFINE oldest == {i \in S : table[i].lm = m}
<1>4. PICK i \in oldest : \A j \in oldest : i <= j
  <2>1. oldest \subseteq Nat /\ oldest # {}
    BY <1>2, <1>3
  <2> HIDE DEF oldest
  <2>2. QED
    BY <2>1, LeastNumber
<1>5. ASSUME NEW j \in S \ {i}
      PROVE  table[i].lm < table[j].lm \/ (table[i].lm = table[j].lm /\ i < j)
  <2>1. table[j].lm \in Nat /\ table[i].lm = m /\ m \in Nat /\ i \in Nat /\ j \in Nat
    BY <1>2
  <2>2. m <= table[j].lm
    BY <1>3
  <2>3. table[j].lm = m => i < j
    BY <1>4, <2>1
  <2>4. QED
    BY <2>1, <2>2, <2>3
<1>6. i \in Found(title)
  BY <1>5 DEF Found
<1>7. QED
  BY <1>6

LEMMA LookUpStep ==
    ASSUME ListInv, NEW w \in Writers, LookUp(w)
    PROVE  ListInv'
<1>1. /\ pc[w] = "lookup" /\ since' = [since EXCEPT ![w] = {}]
      /\ UNCHANGED <<clock, table, pending, req, gone, noop>>
  BY DEF LookUp, tableVars
<1>2. /\ CallInv(w) /\ req[w].op = "create" /\ resp[w] = "none" /\ pending[w] = NoStamp
      /\ ListTypeOK /\ WorkerInv(w)
  BY <1>1, CallFacts DEF CallInv, ListInv
<1>3. CASE Found(req[w].title) = {}
  <2>1. /\ pc' = [pc EXCEPT ![w] = "stamp"] /\ resp' = resp
        /\ UNCHANGED <<target, known, changed>>
    BY <1>3 DEF LookUp, Goto
  <2>2. ListTypeOK' /\ pc'[w] = "stamp"
    BY <1>1, <1>2, <2>1 DEF ListTypeOK, TableTypeOK
  <2>3. Titled(req[w].title) = {}
    BY <1>2, <1>3, FoundIfTitled
  <2>4. TwinInv(w)'
    BY <1>1, <2>1, <2>3 DEF TwinInv, Titled, Active, Present
  <2>5. QED
    BY <1>1, <1>2, <2>1, <2>2, <2>4, CallStep DEF ListTypeOK, TableTypeOK
<1>4. CASE Found(req[w].title) # {}
  <2>1. PICK i \in Found(req[w].title) :
            /\ pc' = [pc EXCEPT ![w] = "done"] /\ resp' = [resp EXCEPT ![w] = "existing"]
            /\ target' = [target EXCEPT ![w] = i]
            /\ known' = [known EXCEPT ![w] = [list |-> i, lm |-> table[i].lm]]
            /\ changed' = [changed EXCEPT ![w] = "no"]
    BY <1>4 DEF LookUp, Respond, Learn
  <2>2. i \in Ids /\ Active(i)
    BY DEF Found, Titled
  <2>3. ListTypeOK'
    BY <1>1, <1>2, <2>1, <2>2, VersionType DEF ListTypeOK, TableTypeOK, Responses
  <2>4. ASSUME NEW v \in Writers PROVE WorkerInv(v)'
    <3>1. CASE v # w
      BY <1>1, <1>2, <2>1, <3>1, AsideStep DEF Aside, ListTypeOK, ListInv
    <3>2. CASE v = w
      <4>1. /\ pc'[w] = "done" /\ resp'[w] = "existing" /\ target'[w] = i
            /\ known'[w] = [list |-> i, lm |-> table[i].lm] /\ changed'[w] = "no"
        BY <1>2, <2>1 DEF ListTypeOK
      <4>2. ~req[w].cond /\ req[w] \in Requests
        BY <1>2, RequestFacts DEF CallInv
      <4>3. CallInv(w)'
        BY <1>1, <1>2, <2>2, <4>1, <4>2 DEF CallInv, Active, Present
      <4>4. KnownInv(w)' /\ StampInv(w)' /\ TwinInv(w)'
        BY <1>1, <1>2, <2>2, <4>1 DEF KnownInv, StampInv, TwinInv, Active, Present
      <4>5. QED
        BY <3>2, <4>1, <4>3, <4>4 DEF WorkerInv
    <3>3. QED
      BY <3>1, <3>2
  <2>5. QED
    BY <2>3, <2>4 DEF ListInv
<1>5. QED
  BY <1>3, <1>4

\* A failed match of a conditional request: its version is no longer the row's.
LEMMA MismatchIsReal ==
    ASSUME ListInv, NEW w \in Writers, pc[w] # "idle", req[w].op # "create", ~Matches(w)
    PROVE  IF req[w].cond THEN changed[w] # "no" ELSE gone[w]
<1>1. CallInv(w) /\ KnownInv(w)
  BY DEF ListInv, WorkerInv
<1>2. target[w] \in Ids
  BY <1>1, RequestFacts DEF CallInv
<1>3. QED
  BY <1>1, <1>2 DEF CallInv, KnownInv, Matches

LEMMA UpdateNothingStep ==
    ASSUME ListInv, NEW w \in Writers, UpdateNothing(w)
    PROVE  ListInv'
<1>1. /\ pc[w] = "execute" /\ req[w].op # "create"
      /\ noop' = [noop EXCEPT ![w] = Matches(w)]
      /\ pending' = [pending EXCEPT ![w] = NoStamp]
      /\ pc' = [pc EXCEPT ![w] = "resolve"] /\ resp' = resp
      /\ UNCHANGED <<clock, table, req, target, known, changed, gone, since>>
  BY DEF UpdateNothing, Withdraw, Goto
<1>2. /\ ListTypeOK' /\ pc'[w] = "resolve" /\ pending'[w] = NoStamp /\ noop'[w] = Matches(w)
      /\ TwinInv(w)'
  BY <1>1 DEF ListInv, ListTypeOK, TableTypeOK, Matches, TwinInv
<1>3. IF req[w].cond THEN changed[w] # "no" \/ Matches(w) ELSE gone[w] \/ Matches(w)
  BY <1>1, MismatchIsReal
<1>4. QED
  BY <1>1, <1>2, <1>3, CallFacts, CallStep DEF ListInv, ListTypeOK, TableTypeOK

LEMMA ResolveStep ==
    ASSUME ListInv, NEW w \in Writers, Resolve(w)
    PROVE  ListInv'
<1> DEFINE answer == IF IsConflict(w) THEN "conflict" ELSE "missing"
<1>1. /\ pc[w] = "resolve" /\ pc' = [pc EXCEPT ![w] = "done"]
      /\ resp' = [resp EXCEPT ![w] = answer]
      /\ UNCHANGED <<clock, table, pending, req, target, known, changed, gone, noop, since>>
  BY DEF Resolve, Respond, ghosts, tableVars
<1>2. CallInv(w) /\ target[w] \in Ids
  BY <1>1, CallFacts, RequestFacts DEF CallInv
<1>3. ListTypeOK' /\ pc'[w] = "done" /\ resp'[w] = answer /\ TwinInv(w)'
  BY <1>1 DEF ListInv, ListTypeOK, TableTypeOK, Responses, TwinInv
<1>4. IF IsConflict(w) THEN req[w].cond /\ (changed[w] # "no" \/ noop[w])
                       ELSE gone[w] \/ noop[w]
  BY <1>1, <1>2 DEF IsConflict, CallInv
<1>5. QED
  BY <1>1, <1>3, <1>4, CallFacts, CallStep DEF ListInv, ListTypeOK

LEMMA FailStep ==
    ASSUME ListInv, NEW w \in Writers, Fail(w)
    PROVE  ListInv'
<1>1. /\ pc[w] \notin {"idle", "done"} /\ pc' = [pc EXCEPT ![w] = "done"]
      /\ resp' = [resp EXCEPT ![w] = "unavailable"]
      /\ pending' = [pending EXCEPT ![w] = NoStamp]
      /\ UNCHANGED <<clock, table, req, target, known, changed, gone, noop, since>>
  BY DEF Fail, Spend, Respond, ghosts
<1>2. /\ ListTypeOK' /\ pc'[w] = "done" /\ resp'[w] = "unavailable" /\ pending'[w] = NoStamp
      /\ TwinInv(w)'
  BY <1>1 DEF ListInv, ListTypeOK, TableTypeOK, Responses, TwinInv
<1>3. QED
  BY <1>1, <1>2, CallStep DEF ListInv, ListTypeOK, TableTypeOK

LEMMA ReloadStep ==
    ASSUME ListInv, NEW w \in Writers, Reload(w)
    PROVE  ListInv'
<1>1. /\ pc[w] = "reload" /\ pc' = [pc EXCEPT ![w] = "done"]
      /\ UNCHANGED <<clock, table, pending, req, target, gone, noop, since>>
  BY DEF Reload, Respond, tableVars
<1>2. /\ CallInv(w) /\ target[w] \in Ids /\ pending[w] = NoStamp
      /\ ListTypeOK /\ WorkerInv(w)
  BY <1>1, CallFacts DEF CallInv, ListInv
<1> DEFINE version == [list |-> target[w], lm |-> table[target[w]].lm]
<1>3. CASE Active(target[w])
  <2>1. /\ resp' = [resp EXCEPT ![w] = "ok"]
        /\ known' = [known EXCEPT ![w] = version]
        /\ changed' = [changed EXCEPT ![w] = "no"]
    BY <1>3 DEF Reload, Respond, Learn
  <2>2. version \in Versions /\ version # NoVersion
    BY <1>2, <1>3, VersionType
  <2>3. ListTypeOK'
    BY <1>1, <1>2, <2>1, <2>2 DEF ListTypeOK, TableTypeOK, Responses
  <2>4. /\ pc'[w] = "done" /\ resp'[w] = "ok" /\ changed'[w] = "no" /\ known'[w] = version
    BY <1>1, <1>2, <2>1 DEF ListTypeOK
  <2>5. ASSUME NEW v \in Writers PROVE WorkerInv(v)'
    <3>1. CASE v # w
      BY <1>1, <1>2, <2>1, <3>1, AsideStep DEF Aside, ListTypeOK, ListInv
    <3>2. CASE v = w
      <4>1. CallInv(w)'
        BY <1>1, <1>2, <1>3, <2>2, <2>4 DEF CallInv, Active, Present
      <4>2. KnownInv(w)' /\ StampInv(w)' /\ TwinInv(w)'
        BY <1>1, <1>2, <1>3, <2>4 DEF KnownInv, StampInv, TwinInv, Active, Present
      <4>3. QED
        BY <2>4, <3>2, <4>1, <4>2 DEF WorkerInv
    <3>3. QED
      BY <3>1, <3>2
  <2>6. QED
    BY <2>3, <2>5 DEF ListInv
<1>4. CASE ~Active(target[w])
  <2>1. resp' = [resp EXCEPT ![w] = "missing"] /\ UNCHANGED <<known, changed>>
    BY <1>4 DEF Reload, Respond
  <2>2. ListTypeOK' /\ pc'[w] = "done" /\ resp'[w] = "missing" /\ TwinInv(w)'
    BY <1>1, <1>2, <2>1 DEF ListTypeOK, TableTypeOK, Responses, TwinInv
  <2>3. gone[w]
    BY <1>2, <1>4 DEF CallInv
  <2>4. QED
    BY <1>1, <1>2, <2>1, <2>2, <2>3, CallStep DEF ListTypeOK
<1>5. QED
  BY <1>3, <1>4

LEMMA CollectStep ==
    ASSUME ListInv, NEW w \in Writers, Collect(w)
    PROVE  ListInv'
<1> USE DEF ListInv
<1>1. /\ pc[w] = "done"
      /\ pc' = [pc EXCEPT ![w] = "idle"] /\ resp' = [resp EXCEPT ![w] = "none"]
      /\ req' = [req EXCEPT ![w] = NoRequest] /\ target' = [target EXCEPT ![w] = Absent]
      /\ gone' = [gone EXCEPT ![w] = FALSE] /\ noop' = [noop EXCEPT ![w] = FALSE]
      /\ since' = [since EXCEPT ![w] = {}]
      /\ UNCHANGED <<clock, table, pending, known, changed>>
  BY DEF Collect, tableVars
<1>2. ListTypeOK'
  BY <1>1 DEF ListTypeOK, TableTypeOK, Responses
<1>3. ASSUME NEW v \in Writers PROVE WorkerInv(v)'
  <2>1. CASE v # w
    BY <1>1, <2>1, AsideStep DEF Aside, ListTypeOK
  <2>2. CASE v = w
    <3>1. pc'[w] = "idle" /\ resp'[w] = "none"
      BY <1>1 DEF ListTypeOK
    <3>2. StampInv(w)' /\ KnownInv(w)' /\ TwinInv(w)'
      BY <1>1, <3>1 DEF WorkerInv, StampInv, KnownInv, TwinInv, Active, Present
    <3>3. QED
      BY <2>2, <3>1, <3>2 DEF WorkerInv
  <2>3. QED
    BY <2>1, <2>2
<1>4. QED
  BY <1>2, <1>3

-----------------------------------------------------------------------------
(* Writes.                                                                 *)

LEMMA DeviceEditStep ==
    ASSUME ListInv, NEW i \in Ids, DeviceEdit(i)
    PROVE  ListInv'
<1> USE DEF ListInv
<1>1. PICK s \in DeviceStamps, del \in BOOLEAN, d \in Data :
          table' = [table EXCEPT ![i] = [lm |-> s, deleted |-> del, data |-> d]]
  BY DEF DeviceEdit, DeviceWrite, Put
<1> DEFINE row == [lm |-> s, deleted |-> del, data |-> d]
<1>2. /\ NoteWrite(i)
      /\ UNCHANGED <<clock, pending, pc, req, target, resp, known, noop>>
  BY DEF DeviceEdit, DeviceWrite, callVars
<1>3. row \in Row /\ table' = [table EXCEPT ![i] = row]
  BY <1>1, TableAssumption DEF Row
<1> HIDE DEF row
<1>4. ListTypeOK'
  BY <1>2, <1>3, NoteType DEF ListTypeOK, TableTypeOK
<1>5. ASSUME NEW v \in Writers PROVE WorkerInv(v)'
  BY <1>2, <1>3, NotedAside DEF Aside
<1>6. QED
  BY <1>4, <1>5

\* Nobody knows of the row before it is inserted: for the history variables the
\* insert is a write like any other.
LEMMA InsertIsNoted ==
    ASSUME ListInv, NEW i \in Ids, ~Present(i), NEW row \in Row, row.deleted = FALSE,
           table' = [table EXCEPT ![i] = row], NoteTitle(i), UNCHANGED <<known, changed, gone>>
    PROVE  NoteWrite(i)
<1>1. \A v \in Writers : known[v] = NoVersion \/ known[v].list # i
  BY DEF ListInv, WorkerInv, KnownInv
<1>2. table'[i] = row
  BY DEF ListInv, ListTypeOK, TableTypeOK, Tables
<1>3. changed = [v \in Writers |-> changed[v]] /\ gone = [v \in Writers |-> gone[v]]
  BY DEF ListInv, ListTypeOK
<1>4. \A v \in Writers : gone[v] = (gone[v] \/ (target[v] = i /\ table'[i].deleted))
  BY <1>2 DEF ListInv, ListTypeOK
<1>5. changed' = [v \in Writers |->
                     IF known[v] = NoVersion \/ known[v].list # i THEN changed[v]
                     ELSE IF Advances(i) /\ changed[v] # "clash" THEN "later"
                     ELSE "clash"]
  BY <1>1, <1>3
<1>6. gone' = [v \in Writers |-> gone[v] \/ (target[v] = i /\ table'[i].deleted)]
  BY <1>3, <1>4
<1>7. QED
  BY <1>5, <1>6 DEF NoteWrite

LEMMA InsertStep ==
    ASSUME ListInv, NEW w \in Writers, Insert(w)
    PROVE  ListInv'
<1> USE DEF ListInv
<1> DEFINE row == [lm |-> pending[w], deleted |-> FALSE, data |-> req[w].title]
<1>1. PICK i \in Ids :
          /\ ~Present(i) /\ table' = [table EXCEPT ![i] = row]
          /\ target' = [target EXCEPT ![w] = i] /\ NoteTitle(i)
  BY DEF Insert, Put
<1>2. /\ pc[w] = "execute" /\ req[w].op = "create"
      /\ pending' = [pending EXCEPT ![w] = NoStamp]
      /\ UNCHANGED <<clock, req, known, changed, gone, noop>>
  BY DEF Insert, Spend
<1>3. PICK label \in {"reload", "done"}, answer \in {"none", "unavailable"} :
          /\ pc' = [pc EXCEPT ![w] = label] /\ resp' = [resp EXCEPT ![w] = answer]
          /\ label = "reload" => answer = "none"
  <2>1. resp' = resp => resp' = [resp EXCEPT ![w] = "none"]
    BY <1>2, CallFacts DEF ListTypeOK
  <2>2. QED
    BY <2>1 DEF Insert, Committed, Goto, Respond
<1>4. /\ CallInv(w) /\ KnownInv(w) /\ resp[w] = "none" /\ pending[w] \in Stamps
      /\ req[w] \in Requests /\ req[w].title \in Data
  BY <1>2, CallFacts, RequestFacts DEF CallInv, ListTypeOK, TableTypeOK, WorkerInv
<1>5. row \in Row /\ row.deleted = FALSE
  BY <1>4 DEF Row
<1> HIDE DEF row
<1>6. NoteWrite(i)
  BY <1>1, <1>2, <1>5, InsertIsNoted
<1>7. ListTypeOK'
  BY <1>1, <1>2, <1>3, <1>5, <1>6, NoteType DEF ListTypeOK, TableTypeOK, Responses
<1>8. /\ pc'[w] = label /\ resp'[w] = answer /\ target'[w] = i /\ pending'[w] = NoStamp
      /\ \A v \in Writers \ {w} : Aside(v)
  BY <1>1, <1>2, <1>3 DEF ListTypeOK, TableTypeOK, Aside
<1>9. ASSUME NEW v \in Writers PROVE WorkerInv(v)'
  <2>1. CASE v # w
    BY <1>1, <1>5, <1>6, <1>8, <2>1, NotedAside
  <2>2. CASE v = w
    <3>1. table'[i] = row /\ row # Absent
      BY <1>1, <1>5, TableAssumption DEF ListTypeOK, TableTypeOK, Tables
    <3>2. Active(target[w])'
      BY <1>5, <1>8, <3>1 DEF Active, Present
    <3>3. KnownInv(w)'
      <4>1. \A j \in Ids : Present(j) => table'[j] = table[j]
        BY <1>1 DEF ListTypeOK, TableTypeOK, Tables
      <4>2. known[w] # NoVersion => known[w].list \in Ids
        BY DEF ListTypeOK, Versions
      <4>3. QED
        BY <1>2, <1>4, <4>1, <4>2 DEF KnownInv, Active, Present
    <3>4. ~req[w].cond
      BY <1>2, <1>4, RequestFacts
    <3>5. CallInv(w)'
      BY <1>2, <1>4, <1>8, <3>2, <3>4 DEF CallInv
    <3>6. QED
      BY <1>2, <1>3, <1>8, <2>2, <3>3, <3>5 DEF WorkerInv, StampInv, TwinInv
  <2>3. QED
    BY <2>1, <2>2
<1>10. QED
  BY <1>7, <1>9

\* The row an UPDATE writes, with the stamp its worker holds.
LEMMA WrittenType ==
    ASSUME ListInv, NEW w \in Writers, pc[w] = "execute", req[w].op # "create", Active(target[w])
    PROVE  /\ target[w] \in Ids /\ Written(w) \in Row
           /\ pending[w] \in Stamps /\ pending[w] # NoStamp
           /\ Written(w) = IF req[w].op = "delete"
                           THEN [lm |-> pending[w], deleted |-> TRUE, data |-> table[target[w]].data]
                           ELSE [lm |-> pending[w], deleted |-> FALSE, data |-> req[w].title]
           /\ req[w].title \in Data /\ table[target[w]].data \in Data
<1>1. /\ CallInv(w) /\ pending[w] # NoStamp /\ ListTypeOK
  BY CallFacts DEF ListInv
<1>2. req[w] \in Requests /\ target[w] \in Ids /\ pending[w] \in Stamps /\ req[w].title \in Data
  BY <1>1, RequestFacts DEF CallInv, ListTypeOK, TableTypeOK
<1>3. table[target[w]] \in Row /\ ~table[target[w]].deleted
  BY <1>1, <1>2 DEF ListTypeOK, TableTypeOK, Tables, Active, Present
<1>4. PICK old \in Stamps, d \in Data : table[target[w]] = [lm |-> old, deleted |-> FALSE, data |-> d]
  BY <1>3 DEF Row
<1>5. Written(w) = IF req[w].op = "delete"
                   THEN [lm |-> pending[w], deleted |-> TRUE, data |-> d]
                   ELSE [lm |-> pending[w], deleted |-> FALSE, data |-> req[w].title]
  BY <1>4 DEF Written
<1>6. Written(w) \in Row
  BY <1>2, <1>5 DEF Row
<1>7. QED
  BY <1>1, <1>2, <1>4, <1>5, <1>6

LEMMA UpdateStep ==
    ASSUME ListInv, NEW w \in Writers, Update(w)
    PROVE  ListInv'
<1> USE DEF ListInv
<1>1. /\ pc[w] = "execute" /\ req[w].op # "create" /\ Active(target[w])
      /\ table' = [table EXCEPT ![target[w]] = Written(w)]
      /\ NoteWrite(target[w])
      /\ pending' = [pending EXCEPT ![w] = NoStamp]
      /\ UNCHANGED <<clock, req, target, known, noop>>
  BY DEF Update, Matches, Spend
<1>2. PICK label \in {"reload", "done"}, answer \in {"none", "ok", "unavailable"} :
          /\ pc' = [pc EXCEPT ![w] = label] /\ resp' = [resp EXCEPT ![w] = answer]
          /\ label = "reload" => answer = "none"
  <2>1. resp' = resp => resp' = [resp EXCEPT ![w] = "none"]
    BY <1>1, CallFacts DEF ListTypeOK
  <2>2. QED
    BY <2>1 DEF Update, Committed, Goto, Respond
<1>3. CallInv(w) /\ KnownInv(w) /\ resp[w] = "none"
  BY <1>1, CallFacts DEF WorkerInv
<1>4. target[w] \in Ids /\ Written(w) \in Row
  BY <1>1, WrittenType
<1>5. ListTypeOK'
  BY <1>1, <1>2, <1>4, NoteType DEF ListTypeOK, TableTypeOK, Responses
<1>6. /\ pc'[w] = label /\ resp'[w] = answer /\ pending'[w] = NoStamp
      /\ \A v \in Writers \ {w} : Aside(v)
  BY <1>1, <1>2 DEF ListTypeOK, TableTypeOK, Aside
<1>7. ASSUME NEW v \in Writers PROVE WorkerInv(v)'
  <2>1. CASE v # w
    BY <1>1, <1>4, <1>6, <2>1, NotedAside
  <2>2. CASE v = w
    <3>1. KnownInv(w)' /\ (gone[w] \/ Active(target[w]))'
      BY <1>1, <1>3, <1>4, NotedWrite
    <3>2. CallInv(w)'
      BY <1>1, <1>3, <1>4, <1>6, <3>1 DEF CallInv
    <3>3. QED
      BY <1>1, <1>2, <1>6, <2>2, <3>1, <3>2 DEF WorkerInv, StampInv, TwinInv
  <2>3. QED
    BY <2>1, <2>2
<1>8. QED
  BY <1>5, <1>7

LEMMA TimeStep ==
    ASSUME ListInv, UNCHANGED <<table, pending, callVars, ghosts>>, clock' \in Stamps
    PROVE  ListInv'
<1>1. UNCHANGED <<table, pending, pc, req, target, resp, known, changed, gone, noop, since>>
  BY DEF callVars, ghosts
<1>2. ListTypeOK'
  BY <1>1 DEF ListInv, ListTypeOK, TableTypeOK
<1>3. ASSUME NEW v \in Writers PROVE WorkerInv(v)'
  BY <1>1, AsideStep DEF ListInv, Aside
<1>4. QED
  BY <1>2, <1>3 DEF ListInv

-----------------------------------------------------------------------------
(* The invariant holds, and what follows.                                  *)

LEMMA ListInvInit == ListInit => ListInv
<1> SUFFICES ASSUME ListInit PROVE ListInv
  OBVIOUS
<1>1. ListTypeOK
  BY TableAssumption DEF ListInit, TableInit, ListTypeOK, TableTypeOK, Responses
<1>2. ASSUME NEW v \in Writers PROVE WorkerInv(v)
  BY DEF ListInit, TableInit, WorkerInv, StampInv, KnownInv, TwinInv
<1>3. QED
  BY <1>1, <1>2 DEF ListInv

LEMMA ListInvStep == ListInv /\ [ListNext]_vars => ListInv'
<1> SUFFICES ASSUME ListInv, [ListNext]_vars PROVE ListInv'
  OBVIOUS
<1>1. ASSUME NEW w \in Writers, ListStep(w) PROVE ListInv'
  BY <1>1, ReadStep, BeginStep, LookUpStep, StampStep, InsertStep, UpdateStep,
     UpdateNothingStep, ResolveStep, ReloadStep, FailStep, CollectStep
     DEF ListStep
<1>2. ASSUME NEW i \in Ids, DeviceEdit(i) PROVE ListInv'
  BY <1>2, DeviceEditStep
<1>3. CASE Time
  BY <1>3, TimeStep, TableAssumption DEF Time, Tick, ListInv, ListTypeOK, TableTypeOK, Stamps
<1>4. CASE UNCHANGED vars
  BY <1>4, TimeStep DEF vars, tableVars, ListInv, ListTypeOK, TableTypeOK
<1>5. QED
  BY <1>1, <1>2, <1>3, <1>4 DEF ListNext

THEOREM ListInvariant == ListSpec => []ListInv
BY ListInvInit, ListInvStep, PTL DEF ListSpec

\* Rows, requests and versions stay well formed.
THEOREM ListTypeCorrect == ListSpec => []ListTypeOK
<1>1. ListInv => ListTypeOK
  BY DEF ListInv
<1>2. QED
  BY <1>1, ListInvariant, PTL

\* update_list, delete_list and _resolve_write tell a 409 and a 404 for a reason.
THEOREM AnswersAreReal == ListSpec => []ListAnswersAreReal
<1>1. ListInv => ListAnswersAreReal
  <2>1. SUFFICES ASSUME ListInv, NEW w \in Writers
                 PROVE  /\ resp[w] = "conflict" => req[w].cond /\ (changed[w] # "no" \/ noop[w])
                        /\ resp[w] = "missing" => gone[w] \/ noop[w]
    BY DEF ListAnswersAreReal
  <2>2. resp[w] # "none" => CallInv(w)
    BY <2>1 DEF ListInv, WorkerInv
  <2>3. QED
    BY <2>2 DEF CallInv
<1>2. QED
  BY <1>1, ListInvariant, PTL

\* Only a worker's own steps move it.
LEMMA OwnStep ==
    ASSUME ListTypeOK, [ListNext]_vars, NEW w \in Writers, pc'[w] # pc[w]
    PROVE  ListStep(w)
<1>1. ASSUME NEW v \in Writers, ListStep(v), v # w PROVE FALSE
  <2>1. (\E i \in Ids : Read(v, i)) => pc' = pc
    BY DEF Read, callVars
  <2>2. ~ (\E i \in Ids : Read(v, i)) => \E label : pc' = [pc EXCEPT ![v] = label]
    BY <1>1 DEF ListStep, Begin, LookUp, Stamp, Insert, Update, UpdateNothing, Resolve, Reload,
       Fail, Collect, Goto, Respond, Committed
  <2>3. QED
    BY <1>1, <2>1, <2>2 DEF ListTypeOK
<1>2. ~ (\E i \in Ids : DeviceEdit(i)) /\ ~Time /\ ~UNCHANGED vars
  BY DEF DeviceEdit, Time, vars, callVars
<1>3. QED
  BY <1>1, <1>2 DEF ListNext

\* The step in which a statement of w changes the table is its own.
LEMMA WritingStep ==
    ASSUME ListInv, [ListNext]_vars, NEW w \in Writers,
           pc[w] = "execute", pc'[w] # "execute", table' # table
    PROVE  Insert(w) \/ Update(w)
<1>1. ListStep(w)
  BY OwnStep DEF ListInv
<1>2. ~Fail(w) /\ ~UpdateNothing(w)
  BY DEF Fail, UpdateNothing, Withdraw
<1>3. QED
  BY <1>1, <1>2 DEF ListStep, Read, Begin, LookUp, Stamp, Resolve, Reload, Collect

\* The WHERE clause of update_list and delete_list: a conditional write lands
\* only on the version its client knows, so never on a later one.
THEOREM NoListUpdateIsLost == ListSpec => ListNoLostUpdate
<1> DEFINE Overwrites(w) == /\ pc[w] = "execute" /\ pc'[w] # "execute"
                            /\ req[w].cond /\ table' # table
<1>1. ListInv /\ [ListNext]_vars =>
          [\A w \in Writers : Overwrites(w) => changed[w] # "later"]_vars
  <2> SUFFICES ASSUME ListInv, [ListNext]_vars, NEW w \in Writers, Overwrites(w)
               PROVE  changed[w] # "later"
    OBVIOUS
  <2>1. ListTypeOK /\ KnownInv(w) /\ CallInv(w) /\ req[w].op # "create"
    BY RequestFacts DEF ListInv, WorkerInv, CallInv
  <2>2. Update(w)
    BY <2>1, WritingStep DEF Insert
  <2>3. target[w] \in Ids /\ Active(target[w]) /\ table[target[w]].lm = known[w].lm
        /\ known[w] # NoVersion /\ known[w].list = target[w]
    BY <2>1, <2>2, RequestFacts DEF Update, Matches, CallInv
  <2>4. known[w].lm \in Nat
    BY <2>1, <2>3 DEF ListTypeOK, Versions, Stamps
  <2>5. QED
    BY <2>1, <2>3, <2>4 DEF KnownInv
<1>2. QED
  BY <1>1, ListInvariant, PTL DEF ListSpec, ListNoLostUpdate

\* A create and an existing list of its title: the list got the title after
\* get_list_by_title had looked.
THEOREM TwinsOverlap == ListSpec => TwinOnlyByOverlap
<1> DEFINE Creates(w, i) == /\ pc[w] = "execute" /\ pc'[w] # "execute" /\ req[w].op = "create"
                            /\ table'[i] # table[i]
<1>1. ListInv /\ [ListNext]_vars =>
          [\A w \in Writers, i \in Ids :
              Creates(w, i) => Titled(req[w].title) \subseteq since[w]]_vars
  BY DEF ListInv, WorkerInv, TwinInv
<1>2. QED
  BY <1>1, ListInvariant, PTL DEF ListSpec, TwinOnlyByOverlap

\* Every step of the list endpoints is a step StampedTable allows.
LEMMA StampedListStep ==
    ASSUME ListInv, NEW w \in Writers, ListStep(w)
    PROVE  TableNext \/ UNCHANGED tableVars
<1>1. CASE Stamp(w)
  BY <1>1 DEF Stamp, TableNext
<1>2. CASE Insert(w)
  <2>1. pending[w] # NoStamp /\ req[w].title \in Data
    BY <1>2, CallFacts, RequestFacts DEF Insert, CallInv
  <2>2. PICK i \in Ids : ~Present(i) /\ Put(i, pending[w], FALSE, req[w].title)
    BY <1>2 DEF Insert
  <2>3. Commit(w, i)
    BY <1>2, <2>1, <2>2 DEF Insert, Spend, Commit, InsertRow
  <2>4. QED
    BY <2>3 DEF Write, TableNext
<1>3. CASE Update(w)
  <2> DEFINE i == target[w]
  <2>1. /\ pc[w] = "execute" /\ req[w].op # "create" /\ Active(i) /\ clock' = clock
        /\ table' = [table EXCEPT ![i] = Written(w)]
        /\ pending' = [pending EXCEPT ![w] = NoStamp]
    BY <1>3 DEF Update, Matches, Spend
  <2>2. /\ i \in Ids /\ pending[w] # NoStamp
        /\ Written(w) = IF req[w].op = "delete"
                        THEN [lm |-> pending[w], deleted |-> TRUE, data |-> table[i].data]
                        ELSE [lm |-> pending[w], deleted |-> FALSE, data |-> req[w].title]
        /\ req[w].title \in Data
    BY <2>1, WrittenType
  <2>3. SoftDeleteRow(w, i) \/ UpdateRow(w, i)
    BY <2>1, <2>2 DEF SoftDeleteRow, UpdateRow, Put
  <2>4. Commit(w, i)
    BY <2>1, <2>2, <2>3 DEF Commit
  <2>5. QED
    BY <2>2, <2>4 DEF Write, TableNext
<1>4. CASE UpdateNothing(w)
  BY <1>4 DEF UpdateNothing, TableNext
<1>5. CASE Fail(w)
  <2>1. pending' = [pending EXCEPT ![w] = NoStamp] /\ UNCHANGED <<clock, table>>
    BY <1>5 DEF Fail, Spend
  <2>2. CASE pending[w] = NoStamp
    BY <2>1, <2>2 DEF ListInv, ListTypeOK, TableTypeOK, tableVars
  <2>3. CASE pending[w] # NoStamp
    BY <2>1, <2>3 DEF Withdraw, TableNext
  <2>4. QED
    BY <2>2, <2>3
<1>6. QED
  BY <1>1, <1>2, <1>3, <1>4, <1>5 DEF ListStep, Read, Begin, LookUp, Resolve, Reload, Collect

\* Every handler of the list endpoints, whatever it interleaves with, changes
\* t_schedule_task_group as StampedTable allows: ListSync reads from the table
\* the list endpoints write.
THEOREM ListsImplementTable == ListSpec => ListsAreStamped
<1>1. ListInit => TableInit
  BY DEF ListInit
<1>2. ListInv /\ [ListNext]_vars => [TableNext]_tableVars
  <2> SUFFICES ASSUME ListInv, [ListNext]_vars PROVE TableNext \/ UNCHANGED tableVars
    OBVIOUS
  <2>1. CASE Time
    BY <2>1 DEF Time, TableNext
  <2>2. ASSUME NEW i \in Ids, DeviceEdit(i) PROVE TableNext
    BY <2>2 DEF DeviceEdit, Write, TableNext
  <2>3. QED
    BY <2>1, <2>2, StampedListStep DEF ListNext, vars
<1>3. QED
  BY <1>1, <1>2, ListInvariant, PTL DEF ListSpec, ListsAreStamped, TableSpec
=============================================================================

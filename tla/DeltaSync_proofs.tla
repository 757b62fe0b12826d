--------------------------- MODULE DeltaSync_proofs ---------------------------
(***************************************************************************)
(* The sync contract, for any table, any number of writers, any page       *)
(* limits, any device stamps and any retention.                            *)
(***************************************************************************)
EXTENDS DeltaSync, FiniteSetTheorems, TLAPS

-----------------------------------------------------------------------------
(* The table.                                                              *)

\* A committed or device write replaces row i by another row and leaves the
\* clock and every other row alone.
LEMMA WriteReplacesOneRow ==
    ASSUME TableTypeOK, NEW i \in Ids, Write(i)
    PROVE  /\ TableTypeOK'
           /\ clock' = clock
           /\ table'[i] \in Row
           /\ \A j \in Ids : j # i => table'[j] = table[j]
<1> USE TableAssumption
<1>1. ASSUME NEW s \in Stamps, NEW del \in BOOLEAN, NEW d \in Data, Put(i, s, del, d)
      PROVE  /\ table' \in Tables
             /\ table'[i] \in Row
             /\ \A j \in Ids : j # i => table'[j] = table[j]
  <2> DEFINE row == [lm |-> s, deleted |-> del, data |-> d]
  <2>1. row \in Row
    BY DEF Row
  <2>2. table' = [table EXCEPT ![i] = row]
    BY <1>1 DEF Put
  <2> HIDE DEF row
  <2>3. QED
    BY <2>1, <2>2 DEF TableTypeOK, Tables
<1>2. CASE DeviceWrite(i)
  <2>1. PICK s \in DeviceStamps, del \in BOOLEAN, d \in Data : Put(i, s, del, d)
    BY <1>2 DEF DeviceWrite
  <2>2. clock' = clock /\ pending' = pending
    BY <1>2 DEF DeviceWrite
  <2>3. QED
    BY <1>1, <2>1, <2>2 DEF TableTypeOK
<1>3. ASSUME NEW w \in Writers, Commit(w, i)
      PROVE  /\ TableTypeOK'
             /\ clock' = clock
             /\ table'[i] \in Row
             /\ \A j \in Ids : j # i => table'[j] = table[j]
  <2>1. pending[w] \in Stamps
    BY <1>3 DEF Commit, TableTypeOK
  <2>2. /\ clock' = clock
        /\ pending' \in [Writers -> Stamps \cup {NoStamp}]
    BY <1>3 DEF Commit, TableTypeOK
  <2>3. \E del \in BOOLEAN, d \in Data : Put(i, pending[w], del, d)
    <3>1. CASE InsertRow(w, i)
      BY <3>1 DEF InsertRow
    <3>2. CASE UpdateRow(w, i)
      BY <3>2 DEF UpdateRow
    <3>3. CASE SoftDeleteRow(w, i)
      <4>1. table[i] \in Row
        BY <3>3 DEF SoftDeleteRow, Active, Present, TableTypeOK, Tables
      <4>2. QED
        BY <3>3, <4>1 DEF SoftDeleteRow, Row
    <3>4. QED
      BY <1>3, <3>1, <3>2, <3>3 DEF Commit
  <2>4. QED
    BY <1>1, <2>1, <2>2, <2>3 DEF TableTypeOK
<1>4. QED
  BY <1>2, <1>3 DEF Write

\* Time and stamps move without touching a row.
LEMMA StampingKeepsTable ==
    ASSUME TableTypeOK, Stamping
    PROVE  TableTypeOK' /\ table' = table
BY TableAssumption DEF TableTypeOK, Stamping, Tick, TakeStamp, Withdraw, Stamps

LEMMA ViewType ==
    ASSUME NEW row \in Row
    PROVE  View(row) \in Data \cup {Absent} /\ View(row) # NotSent
BY SyncAssumption DEF View, Row

LEMMA ScopeIsPresent ==
    ASSUME TableTypeOK, NEW i \in Ids, InScope(i)
    PROVE  table[i] \in Row /\ table[i].lm \in Stamps /\ table[i].lm \in Nat
BY TableAssumption DEF TableTypeOK, Tables, InScope, Present, Row, Stamps

-----------------------------------------------------------------------------
(* Pages.                                                                  *)

\* A page that is not full holds every selected row.
LEMMA UncappedPageIsWhole ==
    ASSUME NEW page, page \subseteq Selected, limit \in Nat \ {0},
           IsPage(page, Selected, limit), ~IsFullPage(page)
    PROVE  page = Selected
<1>1. IsFiniteSet(Selected)
  BY SyncAssumption, FS_Subset DEF Selected
<1>2. Cardinality(Selected) \in Nat
  BY <1>1, FS_CardinalityType
<1>3. /\ IsFiniteSet(page)
      /\ Cardinality(page) = Cardinality(Selected) => page = Selected
  BY <1>1, FS_Subset
<1>4. CASE page = {}
  <2>1. Cardinality(page) = 0
    BY <1>4, FS_EmptySet
  <2>2. Cardinality(Selected) = 0
    BY <1>2, <2>1 DEF IsPage
  <2>3. QED
    BY <1>3, <2>1, <2>2
<1>5. CASE page # {}
  <2>1. Cardinality(page) # limit
    BY <1>5 DEF IsFullPage
  <2>2. Cardinality(page) = Cardinality(Selected)
    BY <1>2, <2>1 DEF IsPage
  <2>3. QED
    BY <1>3, <2>2
<1>6. QED
  BY <1>4, <1>5

\* A row left off a page does not precede the page's last row.
LEMMA LeftOffPageIsLater ==
    ASSUME TableTypeOK, NEW page, IsPage(page, Selected, limit),
           NEW i \in page, IsLast(i, page), NEW j \in Selected \ page
    PROVE  \/ table[j].lm > table[i].lm
           \/ table[j].lm = table[i].lm /\ j > i
<1>1. i \in Ids /\ j \in Ids /\ InScope(i) /\ InScope(j)
  BY DEF IsPage, Selected
<1>2. Precedes(i, j)
  BY DEF IsPage
<1>3. QED
  BY <1>1, <1>2, ScopeIsPresent, TableAssumption DEF Precedes

\* The last row of a page that is not on a single millisecond lies past the
\* lower bound of the window.
LEMMA MultiMsPageMovesOn ==
    ASSUME SyncTypeOK, NEW page, IsPage(page, Selected, limit), IsFullPage(page),
           cursor # NoCursor, ~IsSingleMsFullPage(page),
           NEW i \in page, IsLast(i, page)
    PROVE  table[i].lm > cursor
<1>1. PICK a \in page, b \in page : table[a].lm # table[b].lm
  BY DEF IsSingleMsFullPage
<1>2. \A j \in page : /\ j \in Ids /\ table[j].lm \in Nat
                      /\ cursor <= table[j].lm
  BY ScopeIsPresent DEF IsPage, Selected, SyncTypeOK
<1>3. \A j \in page : table[j].lm <= table[i].lm
  BY <1>2 DEF IsLast, Precedes
<1>4. cursor \in Nat
  BY TableAssumption DEF SyncTypeOK, Cursors
<1>5. QED
  BY <1>1, <1>2, <1>3, <1>4

-----------------------------------------------------------------------------
(* Type correctness.                                                       *)

LEMMA LimitType == EffectiveLimits \subseteq Nat \ {0}
BY SyncAssumption DEF EffectiveLimits, ClampLimit

LEMMA RowsType ==
    ASSUME SyncTypeOK, NEW ids, \A i \in ids : InScope(i)
    PROVE  Rows(ids) \in [Ids -> Data \cup {Absent, NotSent}]
<1> SUFFICES \A i \in Ids : (IF i \in ids THEN View(table[i]) ELSE got[i])
                                    \in Data \cup {Absent, NotSent}
  BY DEF Rows
<1> TAKE i \in Ids
<1>1. CASE i \in ids
  BY <1>1, ScopeIsPresent, ViewType DEF SyncTypeOK
<1>2. CASE i \notin ids
  BY <1>2 DEF SyncTypeOK
<1>3. QED
  BY <1>1, <1>2

\* A call that ends leaves the call variables as they were before it.
LEMMA EndCallType ==
    ASSUME EndCall
    PROVE  /\ phase' = "idle" /\ limit' \in Nat \ {0} /\ now' \in Stamps
           /\ got' = NothingSent /\ got' \in [Ids -> Data \cup {Absent, NotSent}]
           /\ next' \in Cursors /\ more' = FALSE /\ after' = 0 /\ missed' = {}
BY TableAssumption, SyncAssumption DEF EndCall, NothingSent, Stamps, Cursors

LEMMA PageCursorType ==
    ASSUME SyncTypeOK, NEW i \in Selected
    PROVE  i \in Ids /\ table[i].lm \in Cursors /\ table[i].lm + 1 \in Cursors
BY ScopeIsPresent, TableAssumption DEF Selected, SyncTypeOK, Stamps, Cursors

LEMMA SelectType ==
    ASSUME SyncTypeOK, Select
    PROVE  SyncTypeOK'
<1>1. PICK page \in SUBSET Ids : SelectPage(page)
  BY DEF Select
<1>2. page \subseteq Selected
  BY <1>1 DEF SelectPage, IsPage
<1>3. got' \in [Ids -> Data \cup {Absent, NotSent}]
  BY <1>1, <1>2, RowsType DEF SelectPage, Selected
<1>4. now \in Cursors
  BY TableAssumption DEF SyncTypeOK, Stamps, Cursors
<1>5. /\ next' \in Cursors /\ more' \in BOOLEAN /\ after' \in Ids \cup {0}
      /\ phase' \in {"drain", "reply"}
  <2>1. CASE TailPage(page)
    BY <1>4, <2>1 DEF TailPage, SyncTypeOK
  <2>2. CASE CappedPage(page)
    <3>1. PICK i \in page : next' = table[i].lm
      BY <2>2 DEF CappedPage
    <3>2. QED
      BY <1>2, <2>2, <3>1, PageCursorType DEF CappedPage, SyncTypeOK
  <2>3. CASE SingleMsPage(page)
    <3>1. PICK i \in page : next' = table[i].lm + 1 /\ after' = i
      BY <2>3 DEF SingleMsPage
    <3>2. QED
      BY <1>2, <2>3, <3>1, PageCursorType DEF SingleMsPage
  <2>4. QED
    BY <1>1, <2>1, <2>2, <2>3 DEF SelectPage
<1>6. UNCHANGED <<tableVars, clientVars, limit, now, missed, late>>
  BY <1>1 DEF SelectPage
<1>7. QED
  BY <1>3, <1>5, <1>6 DEF SyncTypeOK, TableTypeOK, tableVars, clientVars

LEMMA AppliedType ==
    ASSUME SyncTypeOK, NEW i \in Ids
    PROVE  Applied(i) \in Data \cup {Absent}
BY DEF SyncTypeOK, Applied

LEMMA TypeStep ==
    ASSUME SyncTypeOK, [SyncNext]_vars
    PROVE  SyncTypeOK'
<1> USE DEF SyncTypeOK
<1>1. CASE Admit
  BY <1>1, LimitType DEF Admit, tableVars, clientVars, TableTypeOK
<1>2. CASE Refuse
  BY <1>2 DEF Refuse, tableVars, callVars, TableTypeOK
<1>3. CASE ReadClock
  BY <1>3 DEF ReadClock, tableVars, clientVars, TableTypeOK
<1>4. CASE Select
  BY <1>4, SelectType
<1>5. CASE Drain
  <2>1. got' \in [Ids -> Data \cup {Absent, NotSent}]
    BY <1>5, RowsType DEF Drain, Drained
  <2>2. QED
    BY <1>5, <2>1 DEF Drain, tableVars, clientVars, TableTypeOK
<1>6. CASE Accept
  <2>1. replica' \in [Ids -> Data \cup {Absent}]
    BY <1>6, AppliedType DEF Accept
  <2>2. cursor' \in Cursors /\ late' \subseteq Ids
    BY <1>6 DEF Accept
  <2>3. TableTypeOK'
    BY <1>6 DEF Accept, tableVars, TableTypeOK
  <2>4. EndCall
    BY <1>6 DEF Accept
  <2>5. QED
    BY <2>1, <2>2, <2>3, <2>4, EndCallType
<1>7. CASE Fail
  <2>1. TableTypeOK'
    BY <1>7 DEF Fail, tableVars, TableTypeOK
  <2>2. EndCall /\ UNCHANGED <<clientVars, late>>
    BY <1>7 DEF Fail
  <2>3. QED
    BY <2>1, <2>2, EndCallType DEF clientVars
<1>8. CASE Stamping
  <2>1. TableTypeOK'
    BY <1>8, StampingKeepsTable
  <2>2. UNCHANGED <<clientVars, callVars, missed, late>>
    BY <1>8 DEF Stamping
  <2>3. QED
    BY <2>1, <2>2 DEF clientVars, callVars
<1>9. ASSUME NEW i \in Ids, RowWrite(i)
      PROVE  SyncTypeOK'
  <2>1. TableTypeOK'
    BY <1>9, WriteReplacesOneRow DEF RowWrite
  <2>2. missed' \subseteq Ids /\ late' \subseteq Ids
    BY <1>9 DEF RowWrite, Landed
  <2>3. UNCHANGED <<clientVars, callVars>>
    BY <1>9 DEF RowWrite
  <2>4. QED
    BY <2>1, <2>2, <2>3 DEF clientVars, callVars
<1>10. CASE UNCHANGED vars
  BY <1>10 DEF vars, tableVars, clientVars, callVars, TableTypeOK
<1>11. QED
  BY <1>1, <1>2, <1>3, <1>4, <1>5, <1>6, <1>7, <1>8, <1>9, <1>10 DEF SyncNext, SyncStep

LEMMA TypeInit == SyncInit => SyncTypeOK
<1> SUFFICES ASSUME SyncInit
             PROVE  SyncTypeOK
  OBVIOUS
<1>1. TableTypeOK
  BY TableAssumption DEF SyncInit, TableInit, TableTypeOK
<1>2. /\ replica \in [Ids -> Data \cup {Absent}]
      /\ got \in [Ids -> Data \cup {Absent, NotSent}]
  BY DEF SyncInit, NothingSent
<1>3. now \in Stamps /\ next \in Cursors
  BY TableAssumption DEF SyncInit, Stamps, Cursors
<1>4. limit \in Nat \ {0} /\ more \in BOOLEAN /\ cursor \in Cursors \cup {NoCursor}
  BY SyncAssumption DEF SyncInit
<1>5. QED
  BY <1>1, <1>2, <1>3, <1>4 DEF SyncInit, SyncTypeOK

\* Type correctness, for every value of the constants.
THEOREM SyncTypeCorrect == SyncSpec => []SyncTypeOK
BY TypeInit, TypeStep, PTL DEF SyncSpec

-----------------------------------------------------------------------------
(* The sync contract.                                                      *)

\* Outside the two last phases nothing has been sent; a drain never asks the
\* client to call again.
CallShape ==
    /\ phase \notin {"drain", "reply"} => got = NothingSent
    /\ phase = "drain" => ~more

SyncInv ==
    /\ SyncTypeOK
    /\ CallShape
    /\ NoSilentLoss
    /\ ReplyAccountsForAll
    /\ PagingNeverStalls

\* A row stamped after server_now is at or above the cursor of a delta page.
LEMMA LaterRowsStayAbove ==
    ASSUME SyncTypeOK, cursor # NoCursor,
           NEW page \in SUBSET Ids, SelectPage(page),
           NEW i \in Ids, InScope(i), table[i].lm > now
    PROVE  table[i].lm >= next'
<1>1. page \subseteq Selected
  BY DEF SelectPage, IsPage
<1>2. now \in Nat /\ table[i].lm \in Nat
  BY ScopeIsPresent, TableAssumption DEF SyncTypeOK, Stamps
<1>3. \A j \in page : table[j].lm \in Nat /\ table[j].lm <= now
  BY <1>1, ScopeIsPresent DEF Selected, SyncTypeOK
<1>4. CASE TailPage(page)
  BY <1>2, <1>4 DEF TailPage
<1>5. CASE CappedPage(page)
  BY <1>2, <1>3, <1>5 DEF CappedPage
<1>6. CASE SingleMsPage(page)
  BY <1>2, <1>3, <1>6 DEF SingleMsPage
<1>7. QED
  BY <1>4, <1>5, <1>6 DEF SelectPage

\* A selected row that is left off the page is at or above the cursor of the
\* page, or the drain will find it.
LEMMA LeftOffRowsComeLater ==
    ASSUME SyncTypeOK, NEW page \in SUBSET Ids, SelectPage(page),
           NEW i \in Selected \ page
    PROVE  \/ table[i].lm >= next'
           \/ phase' = "drain" /\ table[i].lm + 1 = next' /\ i > after'
<1>1. page \subseteq Selected /\ IsPage(page, Selected, limit)
  BY DEF SelectPage, IsPage
<1>2. \A j \in Selected : j \in Ids /\ table[j].lm \in Nat
  BY ScopeIsPresent DEF Selected, SyncTypeOK
<1>3. CASE TailPage(page)
  <2>1. page = Selected
    BY <1>1, <1>3, UncappedPageIsWhole DEF TailPage, SyncTypeOK
  <2>2. QED
    BY <2>1
<1>4. CASE CappedPage(page)
  <2>1. PICK j \in page : IsLast(j, page) /\ next' = table[j].lm
    BY <1>4 DEF CappedPage
  <2>2. \/ table[i].lm > table[j].lm
        \/ table[i].lm = table[j].lm /\ i > j
    BY <1>1, <2>1, LeftOffPageIsLater DEF SyncTypeOK
  <2>3. QED
    BY <1>1, <1>2, <2>1, <2>2
<1>5. CASE SingleMsPage(page)
  <2>1. PICK j \in page : IsLast(j, page) /\ next' = table[j].lm + 1 /\ after' = j
    BY <1>5 DEF SingleMsPage
  <2>2. \/ table[i].lm > table[j].lm
        \/ table[i].lm = table[j].lm /\ i > j
    BY <1>1, <2>1, LeftOffPageIsLater DEF SyncTypeOK
  <2>3. phase' = "drain"
    BY <1>5 DEF SingleMsPage
  <2>4. QED
    BY <1>1, <1>2, <2>1, <2>2, <2>3
<1>6. QED
  BY <1>3, <1>4, <1>5 DEF SelectPage

\* The reply a page SELECT starts accounts for every row.
LEMMA SelectAccounts ==
    ASSUME SyncInv, Select, NEW i \in Ids, InScope(i)
    PROVE  ReplyAccountsFor(i)'
<1>1. PICK page \in SUBSET Ids : SelectPage(page)
  BY DEF Select
<1>2. /\ phase = "clocked"
      /\ UNCHANGED <<table, replica, cursor, now, missed, late>>
      /\ got' = Rows(page)
  BY <1>1 DEF SelectPage, tableVars, clientVars
<1>3. got[i] = NotSent
  BY <1>2 DEF SyncInv, CallShape, NothingSent
<1>4. CASE i \in page
  <2>1. got'[i] = View(table[i])
    BY <1>2, <1>4 DEF Rows
  <2>2. QED
    BY <1>2, <2>1 DEF ReplyAccountsFor
<1>5. CASE i \in Selected \ page
  BY <1>1, <1>2, <1>5, LeftOffRowsComeLater DEF ReplyAccountsFor, SyncInv
<1>6. CASE i \notin Selected /\ i \notin page
  <2>1. got'[i] = NotSent
    BY <1>2, <1>3, <1>6 DEF Rows
  <2>2. CASE cursor = NoCursor
    BY <1>2, <1>6, <2>1, <2>2 DEF Selected, ReplyAccountsFor
  <2>3. CASE cursor # NoCursor /\ table[i].lm > now
    BY <1>1, <1>2, <2>3, LaterRowsStayAbove DEF ReplyAccountsFor, SyncInv
  <2>4. CASE cursor # NoCursor /\ ~(table[i].lm > now)
    <3>1. table[i].lm \in Nat /\ now \in Nat /\ cursor \in Nat
      BY <2>4, ScopeIsPresent, TableAssumption DEF SyncInv, SyncTypeOK, Stamps, Cursors
    <3>2. ~(cursor <= table[i].lm)
      BY <1>6, <2>4, <3>1 DEF Selected
    <3>3. replica[i] = View(table[i]) \/ i \in late
      BY <2>4, <3>1, <3>2 DEF SyncInv, NoSilentLoss
    <3>4. QED
      BY <1>2, <2>1, <2>4, <3>3 DEF ReplyAccountsFor
  <2>5. QED
    BY <2>2, <2>3, <2>4
<1>7. QED
  BY <1>4, <1>5, <1>6

LEMMA SelectStep ==
    ASSUME SyncInv, Select
    PROVE  SyncInv'
<1>1. PICK page \in SUBSET Ids : SelectPage(page)
  BY DEF Select
<1>2. UNCHANGED <<table, replica, cursor, late>> /\ phase' \in {"drain", "reply"}
  BY <1>1 DEF SelectPage, tableVars, clientVars, TailPage, CappedPage, SingleMsPage
<1>3. SyncTypeOK'
  BY SelectType DEF SyncInv
<1>4. CallShape'
  BY <1>1, <1>2 DEF CallShape, SelectPage, TailPage, CappedPage, SingleMsPage
<1>5. NoSilentLoss'
  BY <1>2 DEF SyncInv, NoSilentLoss, InScope, Present
<1>6. ReplyAccountsForAll'
  BY <1>2, SelectAccounts DEF ReplyAccountsForAll, InScope, Present
<1>7. PagingNeverStalls'
  <2>1. SUFFICES ASSUME more', cursor # NoCursor
                 PROVE  next' > cursor
    BY <1>2 DEF PagingNeverStalls
  <2>2. CappedPage(page) /\ IsPage(page, Selected, limit)
    BY <1>1, <2>1 DEF SelectPage, TailPage, SingleMsPage
  <2>3. PICK i \in page : IsLast(i, page) /\ next' = table[i].lm
    BY <2>2 DEF CappedPage
  <2>4. QED
    BY <2>1, <2>2, <2>3, MultiMsPageMovesOn DEF CappedPage, SyncInv
<1>8. QED
  BY <1>3, <1>4, <1>5, <1>6, <1>7 DEF SyncInv

LEMMA DrainStep ==
    ASSUME SyncInv, Drain
    PROVE  SyncInv'
<1>1. /\ phase = "drain" /\ phase' = "reply"
      /\ got' = Rows(Drained)
      /\ missed' = missed \ Drained
      /\ UNCHANGED <<table, replica, cursor, next, more, after, late>>
  BY DEF Drain, tableVars, clientVars
<1>2. SyncTypeOK'
  BY TypeStep DEF SyncInv, SyncNext, SyncStep
<1>3. ASSUME NEW i \in Ids, InScope(i)
      PROVE  ReplyAccountsFor(i)'
  <2>1. CASE i \in Drained
    <3>1. got'[i] = View(table[i])
      BY <1>1, <2>1 DEF Rows
    <3>2. QED
      BY <1>1, <3>1 DEF ReplyAccountsFor
  <2>2. CASE i \notin Drained
    <3>1. got'[i] = got[i] /\ (i \in missed' <=> i \in missed)
      BY <1>1, <2>2 DEF Rows
    <3>2. ~(table[i].lm + 1 = next /\ i > after)
      BY <1>3, <2>2 DEF Drained
    <3>3. ReplyAccountsFor(i)
      BY <1>1, <1>3 DEF SyncInv, ReplyAccountsForAll
    <3>4. QED
      BY <1>1, <3>1, <3>2, <3>3 DEF ReplyAccountsFor
  <2>3. QED
    BY <2>1, <2>2
<1>4. ReplyAccountsForAll'
  BY <1>1, <1>3 DEF ReplyAccountsForAll, InScope, Present
<1>5. NoSilentLoss'
  BY <1>1 DEF SyncInv, NoSilentLoss, InScope, Present
<1>6. CallShape' /\ PagingNeverStalls'
  BY <1>1 DEF SyncInv, CallShape, PagingNeverStalls
<1>7. QED
  BY <1>2, <1>4, <1>5, <1>6 DEF SyncInv

\* Applying a reply that accounts for every row loses none.
LEMMA AcceptStep ==
    ASSUME SyncInv, Accept
    PROVE  SyncInv'
<1>1. /\ phase = "reply"
      /\ replica' = [i \in Ids |-> Applied(i)]
      /\ cursor' = next
      /\ late' = late \cup missed
      /\ table' = table
      /\ EndCall
  BY DEF Accept, tableVars
<1>2. SyncTypeOK'
  BY TypeStep DEF SyncInv, SyncNext, SyncStep
<1>3. ASSUME NEW i \in Ids, InScope(i)
      PROVE  replica'[i] = View(table[i]) \/ table[i].lm >= next \/ i \in late'
  <2>1. ReplyAccountsFor(i)
    BY <1>1, <1>3 DEF SyncInv, ReplyAccountsForAll
  <2>2. replica'[i] = Applied(i)
    BY <1>1
  <2>3. CASE got[i] = View(table[i])
    <3>1. got[i] # NotSent
      BY <1>3, <2>3, ScopeIsPresent, ViewType DEF SyncInv, SyncTypeOK
    <3>2. QED
      BY <2>2, <2>3, <3>1 DEF Applied
  <2>4. CASE table[i].lm >= next \/ i \in missed
    BY <1>1, <2>4
  <2>5. CASE /\ got[i] = NotSent
             /\ IF cursor = NoCursor
                THEN View(table[i]) = Absent
                ELSE replica[i] = View(table[i]) \/ i \in late
    BY <1>1, <2>2, <2>5 DEF Applied
  <2>6. QED
    BY <1>1, <2>1, <2>3, <2>4, <2>5 DEF ReplyAccountsFor
<1>4. NoSilentLoss'
  BY <1>1, <1>3 DEF NoSilentLoss, InScope, Present
<1>5. CallShape' /\ ReplyAccountsForAll' /\ PagingNeverStalls'
  BY <1>1, EndCallType DEF CallShape, ReplyAccountsForAll, PagingNeverStalls
<1>6. QED
  BY <1>2, <1>4, <1>5 DEF SyncInv

\* A write under the call lands above its cursor or is recorded as missed.
LEMMA RowWriteStep ==
    ASSUME SyncInv, NEW i \in Ids, RowWrite(i)
    PROVE  SyncInv'
<1>1. /\ late' = Landed(late, i, Below(table'[i].lm, cursor))
      /\ missed' = Landed(missed, i, phase \in {"drain", "reply"} /\ Below(table'[i].lm, next))
      /\ UNCHANGED <<replica, cursor, phase, got, next, more, after>>
  BY DEF RowWrite, clientVars, callVars
<1>2. /\ TableTypeOK'
      /\ table'[i] \in Row
      /\ \A j \in Ids : j # i => table'[j] = table[j]
  BY WriteReplacesOneRow DEF RowWrite, SyncInv, SyncTypeOK
<1>3. SyncTypeOK'
  BY TypeStep DEF SyncInv, SyncNext
<1>4. table'[i].lm \in Nat /\ next \in Nat /\ (cursor # NoCursor => cursor \in Nat)
  BY <1>2, TableAssumption DEF SyncInv, SyncTypeOK, Row, Stamps, Cursors
<1>5. \A j \in Ids : j # i => /\ j \in late' <=> j \in late
                              /\ j \in missed' <=> j \in missed
  BY <1>1 DEF Landed
<1>6. cursor # NoCursor => table'[i].lm >= cursor \/ i \in late'
  BY <1>1, <1>4 DEF Landed, Below
<1>7. phase \in {"drain", "reply"} => table'[i].lm >= next \/ i \in missed'
  BY <1>1, <1>4, SyncAssumption DEF Landed, Below
<1>8. NoSilentLoss'
  <2>1. SUFFICES ASSUME cursor # NoCursor, NEW j \in Ids, InScope(j)'
                 PROVE  \/ replica[j] = View(table'[j])
                        \/ table'[j].lm >= cursor
                        \/ j \in late'
    BY <1>1 DEF NoSilentLoss
  <2>2. CASE j = i
    BY <1>6, <2>1, <2>2
  <2>3. CASE j # i
    BY <1>2, <1>5, <2>1, <2>3 DEF SyncInv, NoSilentLoss, InScope, Present
  <2>4. QED
    BY <2>2, <2>3
<1>9. ReplyAccountsForAll'
  <2>1. SUFFICES ASSUME phase \in {"drain", "reply"}, NEW j \in Ids, InScope(j)'
                 PROVE  ReplyAccountsFor(j)'
    BY <1>1 DEF ReplyAccountsForAll
  <2>2. CASE j = i
    BY <1>1, <1>7, <2>1, <2>2 DEF ReplyAccountsFor
  <2>3. CASE j # i
    <3>1. ReplyAccountsFor(j)
      BY <1>2, <2>1, <2>3 DEF SyncInv, ReplyAccountsForAll, InScope, Present
    <3>2. QED
      BY <1>1, <1>2, <1>5, <2>3, <3>1 DEF ReplyAccountsFor
  <2>4. QED
    BY <2>2, <2>3
<1>10. CallShape' /\ PagingNeverStalls'
  BY <1>1 DEF SyncInv, CallShape, PagingNeverStalls
<1>11. QED
  BY <1>3, <1>8, <1>9, <1>10 DEF SyncInv

\* Steps that touch neither the rows nor what the reply says.
LEMMA QuietStep ==
    ASSUME SyncInv, SyncTypeOK',
           UNCHANGED <<table, replica, cursor, got, late>>,
           phase \notin {"drain", "reply"} => phase' \notin {"drain", "reply"},
           phase \in {"drain", "reply"} => UNCHANGED <<phase, next, more, after, missed>>
    PROVE  SyncInv'
<1>1. CallShape'
  BY DEF SyncInv, CallShape, NothingSent
<1>2. NoSilentLoss'
  BY DEF SyncInv, NoSilentLoss, InScope, Present
<1>3. ReplyAccountsForAll'
  BY DEF SyncInv, ReplyAccountsForAll, ReplyAccountsFor, InScope, Present
<1>4. PagingNeverStalls'
  BY DEF SyncInv, PagingNeverStalls
<1>5. QED
  BY <1>1, <1>2, <1>3, <1>4 DEF SyncInv

LEMMA InvStep ==
    ASSUME SyncInv, [SyncNext]_vars
    PROVE  SyncInv'
<1>1. SyncTypeOK'
  BY TypeStep DEF SyncInv
<1>2. CASE Admit
  BY <1>1, <1>2, QuietStep DEF Admit, tableVars, clientVars
<1>3. CASE Refuse
  <2>1. /\ cursor' = NoCursor /\ phase = "idle"
        /\ UNCHANGED <<phase, got, more>>
    BY <1>3 DEF Refuse, callVars
  <2>2. QED
    BY <1>1, <2>1 DEF SyncInv, CallShape, NoSilentLoss, ReplyAccountsForAll,
                      PagingNeverStalls, NothingSent
<1>4. CASE ReadClock
  BY <1>1, <1>4, QuietStep DEF ReadClock, tableVars, clientVars
<1>5. CASE Select
  BY <1>5, SelectStep
<1>6. CASE Drain
  BY <1>6, DrainStep
<1>7. CASE Accept
  BY <1>7, AcceptStep
<1>8. CASE Fail
  <2>1. EndCall /\ UNCHANGED <<table, replica, cursor, late>>
    BY <1>8 DEF Fail, tableVars, clientVars
  <2>2. CallShape' /\ ReplyAccountsForAll' /\ PagingNeverStalls'
    BY <2>1, EndCallType DEF CallShape, ReplyAccountsForAll, PagingNeverStalls
  <2>3. NoSilentLoss'
    BY <2>1 DEF SyncInv, NoSilentLoss, InScope, Present
  <2>4. QED
    BY <1>1, <2>2, <2>3 DEF SyncInv
<1>9. CASE Stamping
  <2>1. table' = table
    BY <1>9, StampingKeepsTable DEF SyncInv, SyncTypeOK
  <2>2. UNCHANGED <<clientVars, callVars, missed, late>>
    BY <1>9 DEF Stamping
  <2>3. QED
    BY <1>1, <2>1, <2>2, QuietStep DEF clientVars, callVars
<1>10. ASSUME NEW i \in Ids, RowWrite(i)
       PROVE  SyncInv'
  BY <1>10, RowWriteStep
<1>11. CASE UNCHANGED vars
  BY <1>1, <1>11, QuietStep DEF vars, tableVars, clientVars, callVars
<1>12. QED
  BY <1>2, <1>3, <1>4, <1>5, <1>6, <1>7, <1>8, <1>9, <1>10, <1>11 DEF SyncNext, SyncStep

LEMMA InvInit == SyncInit => SyncInv
BY TypeInit DEF SyncInit, SyncInv, CallShape, NoSilentLoss, ReplyAccountsForAll,
                PagingNeverStalls

THEOREM SyncInvariant == SyncSpec => []SyncInv
BY InvInit, InvStep, PTL DEF SyncSpec

\* The only way a client that follows the contract loses a change is a write
\* that lands below a cursor already handed out.
THEOREM NothingIsSilentlyLost == SyncSpec => []NoSilentLoss
<1>1. SyncInv => NoSilentLoss
  BY DEF SyncInv
<1>2. QED
  BY <1>1, SyncInvariant, PTL

\* Every reply under construction accounts for every row of the scope.
THEOREM RepliesAccountForAll == SyncSpec => []ReplyAccountsForAll
<1>1. SyncInv => ReplyAccountsForAll
  BY DEF SyncInv
<1>2. QED
  BY <1>1, SyncInvariant, PTL

\* has_more on a delta page always comes with a later cursor.
THEOREM PagingProgress == SyncSpec => []PagingNeverStalls
<1>1. SyncInv => PagingNeverStalls
  BY DEF SyncInv
<1>2. QED
  BY <1>1, SyncInvariant, PTL
=============================================================================

--------------------------- MODULE ListSync_proofs ---------------------------
(***************************************************************************)
(* The sync contract of the lists.  Every step but the full read is a step *)
(* of DeltaSync and keeps its invariant there; what is new is a page cut   *)
(* by title, which keeps it too, because the rows a capped page leaves     *)
(* behind are counted among the missed ones.                               *)
(***************************************************************************)
EXTENDS ListSync, DeltaSync_proofs

\* A title page that is not full holds every list.
LEMMA UncappedTitlePageIsWhole ==
    ASSUME NEW page, limit \in Nat \ {0},
           IsTitlePage(page, Selected, limit), ~IsFullPage(page)
    PROVE  page = Selected
<1>1. IsFiniteSet(Selected)
  BY SyncAssumption, FS_Subset DEF Selected
<1>2. Cardinality(Selected) \in Nat
  BY <1>1, FS_CardinalityType
<1>3. /\ IsFiniteSet(page)
      /\ Cardinality(page) = Cardinality(Selected) => page = Selected
  BY <1>1, FS_Subset DEF IsTitlePage
<1>4. CASE page = {}
  <2>1. Cardinality(page) = 0
    BY <1>4, FS_EmptySet
  <2>2. Cardinality(Selected) = 0
    BY <1>2, <2>1 DEF IsTitlePage
  <2>3. QED
    BY <1>3, <2>1, <2>2
<1>5. CASE page # {}
  <2>1. Cardinality(page) # limit
    BY <1>5 DEF IsFullPage
  <2>2. Cardinality(page) = Cardinality(Selected)
    BY <1>2, <2>1 DEF IsTitlePage
  <2>3. QED
    BY <1>3, <2>2
<1>6. QED
  BY <1>4, <1>5

\* What a full read fixes: the rows it sends, and a cursor no list it leaves
\* off the page escapes without being recorded.
LEMMA FullReadPage ==
    ASSUME SyncTypeOK, NEW page \in SUBSET Ids, ReadAll(page)
    PROVE  /\ phase = "clocked" /\ cursor = NoCursor /\ phase' = "reply"
           /\ page \subseteq Selected /\ got' = Rows(page)
           /\ UNCHANGED <<table, clock, pending, replica, cursor, limit, now, after, late>>
           /\ next' \in Cursors /\ more' \in BOOLEAN /\ missed' \subseteq Ids
           /\ \A j \in Selected \ page : table[j].lm >= next' \/ j \in missed'
<1>1. /\ phase = "clocked" /\ cursor = NoCursor /\ got' = Rows(page)
      /\ IsTitlePage(page, Selected, limit) /\ page \subseteq Selected
      /\ UNCHANGED <<table, clock, pending, replica, cursor, limit, now, late>>
  BY DEF ReadAll, IsTitlePage, tableVars, clientVars
<1>2. CASE TailPage(page) /\ UNCHANGED missed
  <2>1. page = Selected
    BY <1>1, <1>2, UncappedTitlePageIsWhole DEF TailPage, SyncTypeOK
  <2>2. next' \in Cursors
    BY <1>2, TableAssumption DEF TailPage, SyncTypeOK, Stamps, Cursors
  <2>3. QED
    BY <1>1, <1>2, <2>1, <2>2 DEF TailPage, SyncTypeOK
<1>3. CASE CappedTitlePage(page)
  <2>1. PICK i \in page : next' = table[i].lm /\ missed' = LeftBehind(page, i)
    BY <1>3 DEF CappedTitlePage, ToRow
  <2>2. i \in Selected /\ table[i].lm \in Cursors
    BY <1>1, PageCursorType
  <2>3. \A j \in Selected : j \in Ids /\ table[j].lm \in Nat
    BY ScopeIsPresent DEF Selected, SyncTypeOK
  <2>4. \A j \in Selected \ page : table[j].lm >= next' \/ j \in missed'
    BY <2>1, <2>2, <2>3 DEF LeftBehind
  <2>5. missed' \subseteq Ids
    BY <2>1, <2>3 DEF LeftBehind
  <2>6. QED
    BY <1>1, <1>3, <2>1, <2>2, <2>4, <2>5 DEF CappedTitlePage
<1>4. QED
  BY <1>2, <1>3 DEF ReadAll

LEMMA FullReadStep ==
    ASSUME SyncInv, NEW page \in SUBSET Ids, ReadAll(page)
    PROVE  SyncInv'
<1> USE DEF SyncInv
<1>1. /\ phase = "clocked" /\ cursor = NoCursor /\ phase' = "reply"
      /\ page \subseteq Selected /\ got' = Rows(page)
      /\ UNCHANGED <<table, clock, pending, replica, cursor, limit, now, after, late>>
      /\ next' \in Cursors /\ more' \in BOOLEAN /\ missed' \subseteq Ids
  BY FullReadPage
<1>2. \A j \in Selected \ page : table[j].lm >= next' \/ j \in missed'
  BY FullReadPage
<1>3. SyncTypeOK'
  <2>1. got' \in [Ids -> Data \cup {Absent, NotSent}]
    BY <1>1, RowsType DEF Selected
  <2>2. QED
    BY <1>1, <2>1 DEF SyncTypeOK, TableTypeOK
<1>4. ASSUME NEW i \in Ids, InScope(i)
      PROVE  ReplyAccountsFor(i)'
  <2>1. CASE i \in page
    <3>1. got'[i] = View(table[i])
      BY <1>1, <2>1 DEF Rows
    <3>2. QED
      BY <1>1, <3>1 DEF ReplyAccountsFor
  <2>2. CASE i \in Selected \ page
    BY <1>1, <1>2, <2>2 DEF ReplyAccountsFor
  <2>3. CASE i \notin Selected
    <3>1. View(table[i]) = Absent
      BY <1>1, <1>4, <2>3 DEF Selected
    <3>2. got'[i] = NotSent
      BY <1>1, <2>3 DEF Rows, CallShape, NothingSent
    <3>3. QED
      BY <1>1, <3>1, <3>2 DEF ReplyAccountsFor
  <2>4. QED
    BY <2>1, <2>2, <2>3
<1>5. ReplyAccountsForAll'
  BY <1>1, <1>4 DEF ReplyAccountsForAll, InScope, Present
<1>6. CallShape' /\ NoSilentLoss' /\ PagingNeverStalls'
  BY <1>1 DEF CallShape, NoSilentLoss, PagingNeverStalls
<1>7. QED
  BY <1>3, <1>5, <1>6

LEMMA ListSyncStep ==
    ASSUME SyncInv, [ListSyncNext]_vars
    PROVE  SyncInv'
<1>1. ASSUME NEW page \in SUBSET Ids, ReadAll(page)
      PROVE  SyncInv'
  BY <1>1, FullReadStep
<1>2. ASSUME NEW page \in SUBSET Ids, ReadDelta(page)
      PROVE  SyncInv'
  BY <1>2, SelectStep DEF ReadDelta, Select
<1>3. CASE \/ Admit \/ Refuse \/ ReadClock \/ Drain \/ Accept
           \/ Fail \/ Stamping \/ \E i \in Ids : RowWrite(i)
  BY <1>3, InvStep DEF SyncNext, SyncStep
<1>4. CASE UNCHANGED vars
  BY <1>4, InvStep
<1>5. QED
  BY <1>1, <1>2, <1>3, <1>4 DEF ListSyncNext, ListStep

THEOREM ListSyncInvariant == ListSyncSpec => []SyncInv
BY InvInit, ListSyncStep, PTL DEF ListSyncSpec

\* Type correctness of the list sync.
THEOREM ListSyncTypes == ListSyncSpec => []SyncTypeOK
<1>1. SyncInv => SyncTypeOK
  BY DEF SyncInv
<1>2. QED
  BY <1>1, ListSyncInvariant, PTL

\* A client of the lists that follows the contract misses a list only when a
\* write lands below a cursor already handed out, or when a capped full read
\* leaves the list behind.
THEOREM NoListIsSilentlyLost == ListSyncSpec => []NoSilentLoss
<1>1. SyncInv => NoSilentLoss
  BY DEF SyncInv
<1>2. QED
  BY <1>1, ListSyncInvariant, PTL

\* Every reply under construction, cut by title or by stamp, accounts for every
\* list.
THEOREM ListRepliesAccountForAll == ListSyncSpec => []ReplyAccountsForAll
<1>1. SyncInv => ReplyAccountsForAll
  BY DEF SyncInv
<1>2. QED
  BY <1>1, ListSyncInvariant, PTL

\* A delta page of lists with has_more comes with a later cursor.
THEOREM ListPagingProgress == ListSyncSpec => []PagingNeverStalls
<1>1. SyncInv => PagingNeverStalls
  BY DEF SyncInv
<1>2. QED
  BY <1>1, ListSyncInvariant, PTL
=============================================================================

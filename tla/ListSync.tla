------------------------------ MODULE ListSync ------------------------------
(***************************************************************************)
(* GET /v1/lists[?since=<ms>] and the same client.  A delta call is the    *)
(* one of DeltaSync, drain included.  A full read is ordered by TITLE and  *)
(* yet cut by the limit and given the last row's last_modified as cursor:  *)
(* lists that sort behind the page may be older than that.  (The Inbox     *)
(* entry a full read adds never changes, and is left out.)                 *)
(*                                                                         *)
(* Here `missed` and `late` also hold the lists a capped full read leaves  *)
(* behind: the client's next call starts above them.                       *)
(***************************************************************************)
EXTENDS DeltaSync

CONSTANT Rank       \* the place of each title in ORDER BY title

ASSUME RankAssumption == Rank \in [Data -> Nat]

ByTitle(i) == Rank[table[i].data]

IsTitlePage(page, rows, n) ==       \* ORDER BY title LIMIT n; ties in any order
    /\ page \subseteq rows
    /\ Cardinality(page) = IF Cardinality(rows) < n THEN Cardinality(rows) ELSE n
    /\ \A i \in page, j \in rows \ page : ByTitle(i) <= ByTitle(j)

IsLastTitle(i, page) == i \in page /\ \A j \in page : ByTitle(j) <= ByTitle(i)

LeftBehind(page, i) == {j \in Selected \ page : table[j].lm < table[i].lm}

\* Variant: a capped page hands out server_now.
ToNow(i) == now

\* The cursor of a capped page, after its last row.
ToRow(i) == table[i].lm

CappedTitlePage(page) ==
    /\ IsFullPage(page)
    /\ \E i \in page :
          /\ IsLastTitle(i, page)
          /\ next' = ToRow(i)
          /\ missed' = LeftBehind(page, i)
    /\ more' = TRUE
    /\ phase' = "reply"
    /\ UNCHANGED after

\* A full read: is_deleted = 'N', no bound in time.
ReadAll(page) ==
    /\ phase = "clocked" /\ cursor = NoCursor
    /\ IsTitlePage(page, Selected, limit)
    /\ got' = Rows(page)
    /\ (TailPage(page) /\ UNCHANGED missed) \/ CappedTitlePage(page)
    /\ UNCHANGED <<tableVars, clientVars, limit, now, late>>

ReadDelta(page) == cursor # NoCursor /\ SelectPage(page)

ListStep ==
    \/ Admit \/ Refuse \/ ReadClock \/ Drain \/ Accept
    \/ \E page \in SUBSET Ids : ReadAll(page) \/ ReadDelta(page)

ListSyncNext == ListStep \/ Fail \/ Stamping \/ \E i \in Ids : RowWrite(i)

ListSyncSpec == SyncInit /\ [][ListSyncNext]_vars

-----------------------------------------------------------------------------
\* "Omitting `since` returns the current active set, and the cursor can be used
\* to begin incremental syncing afterwards": with or without writes, a list the
\* client does not have right will still be delivered.
FullReadStartsSync ==
    cursor # NoCursor =>
        \A i \in Ids : InScope(i) => replica[i] = View(table[i]) \/ table[i].lm >= cursor
=============================================================================

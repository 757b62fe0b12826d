---------------------------- MODULE StampedTable ----------------------------
(***************************************************************************)
(* What t_schedule_task (and t_schedule_task_group) look like to a reader  *)
(* that synchronises from them: rows that are stamped with last_modified,  *)
(* never vanish, and, once soft-deleted, are never written by the service  *)
(* again.  Every write of repository.py computes its stamp (now_ms()) in   *)
(* one step and commits it in a later one: between the two lie the wait    *)
(* for a pooled connection and the statement itself.  The Supernote device *)
(* writes the same tables with stamps of its own clock.                    *)
(*                                                                         *)
(* This is the contract TaskStore is shown to implement and the            *)
(* environment DeltaSync reads from.                                       *)
(***************************************************************************)
EXTENDS Naturals

CONSTANTS
    Ids,            \* task ids, as numbers: only their order is used (ORDER BY)
    Data,           \* what else a row holds (title, list, status, ...)
    Writers,        \* requests that write
    Absent,         \* no such row
    NoStamp,        \* the writer holds no stamp
    MaxClock,       \* bound on the millisecond clock
    DeviceStamps,   \* last_modified values the device may write
    InitialTables   \* contents the service may find when it starts

Stamps == 0 .. MaxClock

Row == [lm : Stamps, deleted : BOOLEAN, data : Data]

Tables == [Ids -> Row \cup {Absent}]

ASSUME TableAssumption ==
    /\ Ids \subseteq Nat
    /\ MaxClock \in Nat
    /\ DeviceStamps \subseteq Stamps
    /\ InitialTables \subseteq Tables
    /\ Absent \notin Row
    /\ NoStamp \notin Stamps

VARIABLES
    clock,      \* wall clock, in milliseconds
    table,      \* the committed rows
    pending     \* stamp each writer computed and has not committed yet

tableVars == <<clock, table, pending>>

TableTypeOK ==
    /\ clock \in Stamps
    /\ table \in Tables
    /\ pending \in [Writers -> Stamps \cup {NoStamp}]

TableInit ==
    /\ clock \in Stamps
    /\ table \in InitialTables
    /\ pending = [w \in Writers |-> NoStamp]

Present(i) == table[i] # Absent

Active(i) == Present(i) /\ ~table[i].deleted

Tick ==
    /\ clock < MaxClock
    /\ clock' = clock + 1
    /\ UNCHANGED <<table, pending>>

\* ts = now_ms(), before the connection is acquired and the statement executed.
TakeStamp(w) ==
    /\ pending[w] = NoStamp
    /\ pending' = [pending EXCEPT ![w] = clock]
    /\ UNCHANGED <<clock, table>>

Put(i, s, del, d) ==
    table' = [table EXCEPT ![i] = [lm |-> s, deleted |-> del, data |-> d]]

\* create_task inserts an active row; update_task and delete_task only touch
\* active ones, and a delete keeps every other column.
InsertRow(w, i) == ~Present(i) /\ \E d \in Data : Put(i, pending[w], FALSE, d)

UpdateRow(w, i) == Active(i) /\ \E d \in Data : Put(i, pending[w], FALSE, d)

SoftDeleteRow(w, i) == Active(i) /\ Put(i, pending[w], TRUE, table[i].data)

Commit(w, i) ==
    /\ pending[w] # NoStamp
    /\ InsertRow(w, i) \/ UpdateRow(w, i) \/ SoftDeleteRow(w, i)
    /\ pending' = [pending EXCEPT ![w] = NoStamp]
    /\ UNCHANGED clock

\* No row matched, or the statement never ran (no connection, lost server).
Withdraw(w) ==
    /\ pending[w] # NoStamp
    /\ pending' = [pending EXCEPT ![w] = NoStamp]
    /\ UNCHANGED <<clock, table>>

\* The device's own sync writes rows directly.
DeviceWrite(i) ==
    /\ \E s \in DeviceStamps, del \in BOOLEAN, d \in Data : Put(i, s, del, d)
    /\ UNCHANGED <<clock, pending>>

Write(i) == DeviceWrite(i) \/ \E w \in Writers : Commit(w, i)

TableNext ==
    \/ Tick
    \/ \E w \in Writers : TakeStamp(w) \/ Withdraw(w)
    \/ \E i \in Ids : Write(i)

TableSpec == TableInit /\ [][TableNext]_tableVars
=============================================================================

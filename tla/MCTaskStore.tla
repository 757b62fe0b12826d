----------------------------- MODULE MCTaskStore -----------------------------
(* TaskStore with a few tasks, workers and kinds of request. *)
EXTENDS TaskStore, TLC

CONSTANTS x, l1

OneTask == 1 .. 1

\* The workers are interchangeable.
WorkerSymmetry == Permutations(Workers)

SkewedStamps == {0, MaxClock}

Patch(t, fields, cond) == [op |-> "patch", task |-> t, fields |-> fields, cond |-> cond]
Delete(t, cond) == [op |-> "delete", task |-> t, fields |-> <<>>, cond |-> cond]
Create(fields) == [op |-> "create", task |-> 1, fields |-> fields, cond |-> FALSE]

\* An append to a list, a PATCH of the title, and, with If-Unmodified-Since, a
\* PATCH that completes and moves to the Inbox, an empty one and a DELETE.
\* Nulls are sent wherever the models let them through.
StoreRequests ==
    {Create([text |-> x, list |-> l1, sort |-> Null]), Patch(1, [text |-> x], FALSE),
     Patch(1, [text |-> Null, done |-> TRUE, list |-> Null], TRUE),
     Patch(1, [text |-> Null], TRUE), Delete(1, TRUE)}

\* What the device writes into a row.
Synced == [text |-> x, completed |-> 0, list |-> Inbox, sort |-> 0]
DeviceTask == {Synced}

EmptyTable == {[t \in Tasks |-> Absent]}
=============================================================================

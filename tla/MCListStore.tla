----------------------------- MODULE MCListStore -----------------------------
(* ListStore with two workers, two list ids and two titles. *)
EXTENDS ListStore, TLC

CONSTANTS x, y

TwoLists == 1 .. 2

\* The workers are interchangeable.
WorkerSymmetry == Permutations(Writers)

LaggingStamps == {0}

Create(title) == [op |-> "create", list |-> 1, title |-> title, cond |-> FALSE]
Rename(i, title, cond) == [op |-> "rename", list |-> i, title |-> title, cond |-> cond]
Delete(i, cond) == [op |-> "delete", list |-> i, title |-> x, cond |-> cond]

ListRequests ==
    {Create(x), Rename(1, x, FALSE), Rename(1, y, TRUE), Delete(1, TRUE)}

\* Both clients ensure one list by its name.
TwinRequests == {Create(x)}
NoStamps == {}

EmptyTable == {[i \in Ids |-> Absent]}
EmptyOrOne ==
    EmptyTable \cup {[i \in Ids |-> IF i = 1 THEN [lm |-> 0, deleted |-> FALSE, data |-> x] ELSE Absent]}
=============================================================================

----------------------------- MODULE MCListSync -----------------------------
(* ListSync on small tables.  Lists of equal titles come in any order, so one *)
(* title stands for every order of titles.                                    *)
EXTENDS ListSync

CONSTANTS d1, d2, w1

IdsTwo == 1 .. 2
IdsThree == 1 .. 3

TitleRank == [d \in Data |-> IF d = d1 THEN 1 ELSE 2]

NoStamps == {}

ListRow(lm, d) == [lm |-> lm, deleted |-> FALSE, data |-> d]

EmptyTable == [i \in Ids |-> Absent]
\* No lists, lists of one millisecond, and lists of two.
SomeLists == {EmptyTable} \cup {[i \in Ids |-> ListRow(IF i < n THEN 0 ELSE 1, d1)] : n \in {3, 4}}

\* The first title was written last.
LastTitleFirst == {[i \in Ids |-> IF i = 1 THEN ListRow(0, d2) ELSE ListRow(1, d1)]}
=============================================================================

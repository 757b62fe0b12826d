----------------------------- MODULE MCDeltaSync -----------------------------
(* DeltaSync on small tables. *)
EXTENDS DeltaSync

CONSTANTS d1, d2, w1

IdsTwo == 1 .. 2

NoStamps == {}
\* The device's clock lags or leads.
SkewedStamps == {0, MaxClock}

\* The service starts on rows that share the millisecond 0.
FullTable == {[i \in Ids |-> [lm |-> 0, deleted |-> FALSE, data |-> d1]]}
=============================================================================

--------------------------- MODULE MCUserResolution ---------------------------
(* UserResolution with two threads. *)
EXTENDS UserResolution

ThreadLevels == Threads \X {"req", "res"}
=============================================================================

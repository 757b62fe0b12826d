---------------------------- MODULE MCRateLimiter ----------------------------
(* RateLimiter with two checks that overlap and two clients. *)
EXTENDS RateLimiter, TLC

\* Neither the threads nor the clients differ.
LimiterSymmetry == Permutations(Threads) \cup Permutations(Clients)
=============================================================================

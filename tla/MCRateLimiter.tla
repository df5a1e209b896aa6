---------------------------- MODULE MCRateLimiter ----------------------------
(* RateLimiter with two clients and two requests in flight: time for three   *)
(* windows, a map that is pruned as soon as it holds both clients.           *)
EXTENDS RateLimiter, TLC

Symmetry == Permutations(Request) \cup Permutations(Client)
=============================================================================

----------------------------- MODULE MCRateLimiter ------------------------------
(***************************************************************************)
(* Small instances of RateLimiter: two requests a window of three seconds, *)
(* and two processes.                                                      *)
(***************************************************************************)
EXTENDS RateLimiter, TLC

CONSTANTS web1, web2

Symmetry == Permutations(Processes)
=============================================================================

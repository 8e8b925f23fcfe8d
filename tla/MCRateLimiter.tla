--------------------------- MODULE MCRateLimiter ---------------------------
(* A small instance of RateLimiter for TLC: two addresses.                  *)
EXTENDS RateLimiter, TLC

CONSTANTS x, y

MCSymmetry == Permutations(Addrs)
=============================================================================

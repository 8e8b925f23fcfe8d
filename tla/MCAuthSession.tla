--------------------------- MODULE MCAuthSession ---------------------------
(* Small instances of AuthSession for TLC: arbitrary clients that have up   *)
(* to two requests in progress.                                             *)
EXTENDS AuthSession, TLC

CONSTANTS c1, c2

MCSymmetry == Permutations(Calls)
=============================================================================

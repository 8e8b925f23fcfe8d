---------------------------- MODULE MCMonitoring ----------------------------
(* A small instance of Monitoring for TLC.                                  *)
EXTENDS Monitoring, TLC

CONSTANTS c1, c2

MCBudget == {"tunnel"} :> 6 @@ {"clients"} :> 3 @@ {"tunnel", "clients"} :> 1

MCSymmetry == Permutations(Clients)
=============================================================================

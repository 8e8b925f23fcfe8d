--------------------------- MODULE MCSingBoxStats ---------------------------
(* Small instances of SingBoxStats for TLC: two clients behind one address, *)
(* and connections there that sing-box reports without their user: c2 over  *)
(* VLESS, c4 over another inbound.                                          *)
EXTENDS SingBoxStats, TLC

CONSTANTS p1, p2, c1, c2, c3, c4, home

MCUser   == [c \in Conns |-> IF c = c1 THEN p1 ELSE IF c = c3 THEN p2 ELSE Nobody]
MCSource == [c \in Conns |-> home]
=============================================================================

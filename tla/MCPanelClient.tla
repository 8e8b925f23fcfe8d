--------------------------- MODULE MCPanelClient ---------------------------
(* Small instances of PanelClient for TLC: one tab, or two that share their *)
(* local storage, with one or two requests each.                            *)
EXTENDS PanelClient, TLC

CONSTANTS t1, t2, a1, a2, b1

MCTab == [c \in Calls |-> IF c = b1 THEN t2 ELSE t1]
=============================================================================

---------------------------- MODULE MCRuleTable ----------------------------
(* A small instance of RuleTable for TLC: two seed rows, a preset of two    *)
(* rules, reorders that name every rule, some of them, a rule that is not   *)
(* there, or one rule twice.                                                *)
EXTENDS RuleTable, TLC

CONSTANTS h1, h2, a, b

MCSeed     == <<a, b>>
MCPresets  == {<<b, a>>}
MCOrders   == {<<2, 1>>, <<2, 3, 1>>, <<1, 2, 1>>, <<4>>}
MCEdits    == {{"body"}, {"priority", "active"}}
MCPriorities == {-1, 2}
MCSymmetry == Permutations(Handlers)
=============================================================================

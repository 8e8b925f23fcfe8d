---------------------------- MODULE MCConfigSync ----------------------------
(* A small instance of ConfigSync for TLC.                                  *)
EXTENDS ConfigSync, TLC

CONSTANT Unfit     \* DNS settings sing-box refuses

(* sing-box refuses every configuration with the unfit DNS settings.        *)
MCRefused == {c \in Config : c.dns = Unfit}
=============================================================================

------------------------------ MODULE MCScreen ------------------------------
(* Screen's specification under TLC: the constants are set in the cfg.     *)
EXTENDS Screen
=============================================================================

---------------------------- MODULE MCRowStream ----------------------------
(* Values of RowStream's constants for TLC.                                *)
EXTENDS RowStream

CONSTANTS m1, m2, s1, s2, d1, d2

OneSession == [m \in Mentions |-> s1]
TwoSessions == [m \in Mentions |-> IF m = m1 THEN s1 ELSE s2]
OneModel == [m \in Mentions |-> d1]
TwoModels == [m \in Mentions |-> IF m = m1 THEN d1 ELSE d2]
=============================================================================

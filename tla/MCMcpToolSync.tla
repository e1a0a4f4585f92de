--------------------------- MODULE MCMcpToolSync ---------------------------
(* Values of McpToolSync's constants for TLC.                              *)
EXTENDS McpToolSync

CONSTANTS n1, n2, t1, t2

OneListEach ==
  [e \in Endpoints |-> IF e = CHOOSE x \in Endpoints : TRUE THEN {{t1}} ELSE {{t2}}]
===========================================================================

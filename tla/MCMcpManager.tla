--------------------------- MODULE MCMcpManager ---------------------------
(* Values of McpManager's constants for TLC.                              *)
EXTENDS McpManager

CONSTANTS t1, t2

\* Every server answers one list, and no two servers the same one.
OneListEach ==
  [e \in Endpoints |-> IF e = CHOOSE x \in Endpoints : TRUE THEN {{t1}} ELSE {{t2}}]

\* A server's list may have changed when it is asked again.
ChangingLists == [e \in Endpoints |-> {{}, {t1}}]
===========================================================================

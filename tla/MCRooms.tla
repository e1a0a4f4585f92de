------------------------------ MODULE MCRooms ------------------------------
(* Instances of Rooms: two sessions of two users, a reply, an MCP client.   *)
EXTENDS Rooms

CONSTANTS s1, s2, m1, u1, u2

MCUserOf == [c \in Sessions \cup Replies |-> IF c = s2 THEN u2 ELSE u1]
=============================================================================

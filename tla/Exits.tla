-------------------------------- MODULE Exits --------------------------------
(***************************************************************************)
(* Ways between rooms, kept twice: by name with a room (room_kv, written   *)
(* by the MCP tool add_exit, read by go), and between the things that      *)
(* stand for rooms (db/exits.rs).  A way there and back is two writes.     *)
(***************************************************************************)
EXTENDS Integers, Sequences, FiniteSets

CONSTANTS
  Diggers,     \* who adds exits
  Rooms,       \* names of rooms and of their things
  MaxDigs      \* bound: commands

ASSUME ExitsAssumption == MaxDigs \in Nat

VARIABLES
  built,       \* the rooms there are; a room is never deleted
  things,      \* their things that are not deleted
  doors,       \* the exits in room_kv: [room, way] to a name
  exits,       \* the table exits
  dig,         \* the command of a digger that is under way
  pairs,       \* ways there and back that a command reported and nobody changed
  digs         \* commands so far

exitsVars == <<built, things, doors, exits, dig, pairs, digs>>

Ways == {"north", "n"}
\* What db_add_exit takes for the way back
Reverse(way) == CASE way = "north" -> "south" [] way = "south" -> "north" [] OTHER -> "back"
AllWays == Ways \cup {"south", "back"}

\* The helpers of db/exits.rs also know the short names.
Normalize(way) == IF way = "n" THEN "north" ELSE way
Opposite(way) == CASE way \in {"north", "n"} -> "south" [] way = "south" -> "north"
                   [] OTHER -> "none"

NoDig == [pc |-> "idle"]

ExitsInit ==
  /\ built \in SUBSET Rooms /\ things = built
  /\ doors = << >> /\ exits = << >> /\ pairs = {} /\ digs = 0
  /\ dig = [d \in Diggers |-> NoDig]

\* A table is a function on the keys it has: an upsert.
With(table, key, value) == [k \in DOMAIN table \cup {key} |-> IF k = key THEN value ELSE table[k]]

Live == {k \in DOMAIN exits : exits[k].live}
\* Where the ways of one of the two tables lead
Table(op) == IF op = "door" THEN doors ELSE [k \in Live |-> exits[k].to]
\* get_exits_from joins the thing of the target, has_path does not.
GetExits(from) == {k \in Live : k[1] = from /\ exits[k].to \in things}

\* has_path: the rooms looked at, and the list of those to look at
Searches == [visited : SUBSET Rooms, list : Seq(Rooms), to : Rooms]
Current(s) == s.list[Len(s.list)]
\* Where some exits lead, in one of their orders
Targets(keys) ==
  LET order == CHOOSE o \in [1..Cardinality(keys) -> keys] : {o[n] : n \in DOMAIN o} = keys
  IN  [n \in DOMAIN order |-> exits[order[n]].to]

\* One round of its loop: the last room of the list, unless it was looked at, is
\* replaced by those its exits lead to that were not.
Round(s) ==
  LET rest == SubSeq(s.list, 1, Len(s.list) - 1)
      visited == s.visited \cup {Current(s)}
      onward == {k \in Live : k[1] = Current(s) /\ exits[k].to \notin visited}
  IN  IF Current(s) \in s.visited THEN [s EXCEPT !.list = rest]
      ELSE [s EXCEPT !.visited = visited, !.list = rest \o Targets(onward)]

Search[s \in Searches] ==
  IF s.list = << >> THEN FALSE ELSE Current(s) = s.to \/ Search[Round(s)]
HasPath(from, to) == Search[[visited |-> {}, list |-> <<from>>, to |-> to]]

\* A pair that a write to an exit changed is no longer counted.
Kept(op, key) == {p \in pairs : p[1] # op \/ key \notin {p[2], p[3]}}

-----------------------------------------------------------------------------
(* Commands                                                                *)

Digs(d, op, pc, from, way, to, back) ==
  /\ dig[d].pc = "idle" /\ digs < MaxDigs
  /\ digs' = digs + 1
  /\ dig' = [dig EXCEPT ![d] = [pc |-> pc, op |-> op, from |-> from, to |-> to, way |-> way,
                                back |-> back]]
  /\ UNCHANGED <<built, things, doors, exits, pairs>>

\* tools.db_add_exit: one way or both, by name
AddExit(d) ==
  \E from, to \in Rooms, way \in Ways, both \in BOOLEAN :
    Digs(d, "door", "from", from, way, to, IF both THEN Reverse(way) ELSE "none")

\* create_exit and create_bidirectional_exit, with the ways the caller gives
CreateExit(d) ==
  \E from, to \in built, way \in {"north", "south"}, back \in {"south", "none"} :
    Digs(d, "exit", "forth", from, way, to, back)

DeleteExit(d) ==
  \E k \in DOMAIN exits :
    /\ dig[d].pc = "idle" /\ digs < MaxDigs /\ digs' = digs + 1
    /\ exits' = [exits EXCEPT ![k].live = FALSE]
    /\ pairs' = Kept("exit", k)
    /\ UNCHANGED <<built, things, doors, dig>>

\* soft_delete_thing of a room
DeleteThing(d) ==
  \E r \in things :
    /\ dig[d].pc = "idle" /\ digs < MaxDigs /\ digs' = digs + 1
    /\ things' = things \ {r}
    /\ UNCHANGED <<built, doors, exits, dig, pairs>>

-----------------------------------------------------------------------------
(* Steps                                                                   *)

CheckFrom(d) ==
  /\ dig[d].pc = "from"
  /\ dig' = [dig EXCEPT ![d] = IF @.from \in built THEN [@ EXCEPT !.pc = "to"] ELSE NoDig]
  /\ UNCHANGED <<built, things, doors, exits, pairs, digs>>
CheckTo(d) ==
  /\ dig[d].pc = "to"
  /\ dig' = [dig EXCEPT ![d] = IF @.to \in built THEN [@ EXCEPT !.pc = "forth"] ELSE NoDig]
  /\ UNCHANGED <<built, things, doors, exits, pairs, digs>>

Write(d, key, to) ==
  /\ IF dig[d].op = "door" THEN doors' = With(doors, key, to) /\ UNCHANGED exits
     ELSE exits' = With(exits, key, [to |-> to, live |-> TRUE]) /\ UNCHANGED doors
  /\ UNCHANGED <<built, things, digs>>

Forth(d) ==
  LET r == dig[d]
      key == <<r.from, r.way>>
  IN /\ r.pc = "forth"
     /\ Write(d, key, r.to)
     /\ pairs' = Kept(r.op, key)
     /\ dig' = [dig EXCEPT ![d] = IF r.back = "none" THEN NoDig ELSE [r EXCEPT !.pc = "back"]]

\* Variant: the way back starts where the way there does.
SameKey(r) == <<r.from, r.back>>
BackKey(r) == <<r.to, r.back>>

\* The pair counts unless the way there was changed since it was written.
Back(d) ==
  LET r == dig[d]
      there == <<r.from, r.way>>
      here == <<r.to, r.back>>
      whole == there # here /\ there \in DOMAIN Table(r.op) /\ Table(r.op)[there] = r.to
  IN /\ r.pc = "back"
     /\ Write(d, BackKey(r), r.from)
     /\ pairs' = Kept(r.op, here) \cup (IF whole THEN {<<r.op, there, here>>} ELSE {})
     /\ dig' = [dig EXCEPT ![d] = NoDig]

ExitsNext ==
  \E d \in Diggers : \/ AddExit(d) \/ CreateExit(d) \/ DeleteExit(d) \/ DeleteThing(d)
                     \/ CheckFrom(d) \/ CheckTo(d) \/ Forth(d) \/ Back(d)

-----------------------------------------------------------------------------
(* Properties                                                              *)

ExitKeys == Rooms \X AllWays

ExitsTypeOK ==
  /\ built \subseteq Rooms /\ things \subseteq built /\ digs \in 0..MaxDigs
  /\ DOMAIN doors \subseteq ExitKeys /\ DOMAIN exits \subseteq ExitKeys
  /\ \A k \in DOMAIN doors : k[1] \in built /\ doors[k] \in built
  /\ \A k \in DOMAIN exits : k[1] \in built /\ exits[k] \in [to : built, live : BOOLEAN]
  /\ pairs \subseteq {"door", "exit"} \X ExitKeys \X ExitKeys

\* The rooms that can be reached over a set of pairs of rooms
Reach(steps, from) ==
  LET closed == {s \in SUBSET Rooms : from \in s /\ \A p \in steps : p[1] \in s => p[2] \in s}
  IN  {r \in Rooms : \A s \in closed : r \in s}

\* A way there and back, once made, leads there and back until one of its
\* exits is written or deleted, whatever else diggers do in between, and is
\* shown on both sides while both rooms have their things.
PairLeads(p) ==
  /\ {p[2], p[3]} \subseteq DOMAIN Table(p[1])
  /\ Table(p[1])[p[2]] = p[3][1] /\ Table(p[1])[p[3]] = p[2][1]
  /\ p[1] = "exit" /\ {p[2][1], p[3][1]} \subseteq things =>
       p[2] \in GetExits(p[2][1]) /\ p[3] \in GetExits(p[3][1])
PairsLead == \A p \in pairs : PairLeads(p)

\* So it is; and the search for a path finds a room just if exits lead there.
ExitsLead ==
  /\ PairsLead
  /\ LET steps == {<<k[1], exits[k].to>> : k \in Live}
     IN  \A from \in Rooms : {to \in Rooms : HasPath(from, to)} = Reach(steps, from)
  /\ \A way \in AllWays : Opposite(way) # "none" => Opposite(Opposite(way)) = Normalize(way)
=============================================================================

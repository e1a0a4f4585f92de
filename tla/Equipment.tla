----------------------------- MODULE Equipment ------------------------------
(***************************************************************************)
(* The tables room_equip and agent_equip (db/equipped.rs, db/schema.rs) as *)
(* operators on one table e, a function from row numbers to rows or None.  *)
(* A context ctx is a room or an agent; the two tables have the same       *)
(* columns, indexes and statements.  The column config is left out.        *)
(***************************************************************************)
EXTENDS Things

EquipRow(ctx, thing, slot, priority) ==
  [ctx |-> ctx, thing |-> thing, slot |-> slot, priority |-> priority,
   deleted |-> FALSE]

LiveRows(e) == {i \in DOMAIN e : e[i] # None /\ ~e[i].deleted}

-----------------------------------------------------------------------------
(* Queries                                                                 *)

\* get_room_equipment and get_agent_equipment: the rows and their things,
\* both not deleted.
Equipment(e, t, ctx) ==
  {i \in LiveRows(e) : e[i].ctx = ctx /\ Live(t, e[i].thing)}

\* The priority equip_tool gives: one above all there is.
NextPriority(e, t, ctx) ==
  LET used == {e[i].priority : i \in Equipment(e, t, ctx)}
  IN  IF used = {} THEN 1 ELSE 1 + (CHOOSE p \in used : \A q \in used : q <= p)

-----------------------------------------------------------------------------
(* Statements                                                              *)

\* The unique index (ctx, thing, slot) covers live rows; a NULL slot is
\* different from every other, so that it never conflicts.
SameKey(e, r) ==
  {i \in LiveRows(e) : /\ r.slot # None
                       /\ e[i].ctx = r.ctx /\ e[i].thing = r.thing
                       /\ e[i].slot = r.slot}

FreshRow(e) == CHOOSE i \in DOMAIN e : e[i] = None
HasRoom(e) == \E i \in DOMAIN e : e[i] = None

\* room_equip and agent_equip
WithRow(e, r) ==
  IF SameKey(e, r) # {}
  THEN [i \in DOMAIN e |-> IF i \in SameKey(e, r)
                           THEN [e[i] EXCEPT !.priority = r.priority, !.deleted = FALSE]
                           ELSE e[i]]
  ELSE [e EXCEPT ![FreshRow(e)] = r]

\* room_unequip and agent_unequip: every row of that slot, or of NULL.
WithoutRow(e, ctx, thing, slot) ==
  [i \in DOMAIN e |->
     IF e[i] # None /\ e[i].ctx = ctx /\ e[i].thing = thing /\ e[i].slot = slot
     THEN [e[i] EXCEPT !.deleted = TRUE]
     ELSE e[i]]
=============================================================================

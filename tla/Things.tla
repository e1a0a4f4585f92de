------------------------------- MODULE Things -------------------------------
(***************************************************************************)
(* The table things (db/things.rs, db/schema.rs): what each query selects  *)
(* and what each statement writes, as operators on a table t, a function   *)
(* from ids to rows or None.  A row keeps its columns parent, kind,        *)
(* qualified name, default slot, description (a version number),           *)
(* available, deleted and copied_from; the texts are left out.             *)
(***************************************************************************)
EXTENDS Naturals, FiniteSets

CONSTANT None   \* NULL, and no row

Kinds == {"container", "room", "agent", "mcp", "tool", "data", "reference"}

\* Thing::new and with_parent: the other columns have their defaults.
NewThing(kind, parent) ==
  [kind |-> kind, parent |-> parent, name |-> None, slot |-> None,
   version |-> 0, available |-> TRUE, deleted |-> FALSE, from |-> None]

\* Thing::tool, with its qualified name and description
Tool(name, parent, version) ==
  [NewThing("tool", parent) EXCEPT !.name = name, !.version = version]

-----------------------------------------------------------------------------
(* Queries                                                                 *)

Stored(t, id) == id \in DOMAIN t /\ t[id] # None
Live(t, id) == Stored(t, id) /\ ~t[id].deleted
LiveIds(t) == {id \in DOMAIN t : Live(t, id)}

\* get_thing_by_qualified_name: the live thing of that name, or None.
Named(t, name) ==
  LET found == {id \in DOMAIN t : Live(t, id) /\ t[id].name = name}
  IN  IF found = {} THEN None ELSE CHOOSE id \in found : TRUE

\* find_things_by_qualified_name: a glob pattern is the set of names it matches.
Matching(t, names) == {id \in LiveIds(t) : t[id].name \in names}

Children(t, parent) == {id \in LiveIds(t) : t[id].parent = parent}

-----------------------------------------------------------------------------
(* Statements: whether the constraints of the schema let them happen, and  *)
(* the table they leave.                                                   *)

ParentExists(t, r) == r.parent = None \/ Stored(t, r.parent)

\* Variant: the index on qualified names is missing.
AnyName(t, id, r) == TRUE

\* The unique index is partial: a deleted row holds no name.
NameIsFree(t, id, r) ==
  r.name = None \/ r.deleted \/ Named(t, r.name) \in {None, id}

CanInsert(t, id, r) ==
  /\ ~Stored(t, id)
  /\ ParentExists(t, r)
  /\ NameIsFree(t, id, r)

Inserted(t, id, r) == [t EXCEPT ![id] = r]

\* upsert_thing_by_qualified_name: on a conflict the row keeps its id,
\* its parent and its kind, and nothing is asked of the new parent.
Conflicts(t, r) == r.name # None /\ Named(t, r.name) # None
CanUpsert(t, id, r) == Conflicts(t, r) \/ CanInsert(t, id, r)

\* Variant: the conflict writes the parent as well.
UpsertedWhole(t, id, r) ==
  IF Conflicts(t, r)
  THEN [t EXCEPT ![Named(t, r.name)] = [r EXCEPT !.from = t[Named(t, r.name)].from]]
  ELSE Inserted(t, id, r)

Upserted(t, id, r) ==
  IF Conflicts(t, r)
  THEN [t EXCEPT ![Named(t, r.name)] =
          [@ EXCEPT !.version = r.version, !.slot = r.slot,
                    !.available = r.available]]
  ELSE Inserted(t, id, r)

\* update_thing writes the whole row but deleted_at and copied_from.
CanUpdate(t, id, r) ==
  t[id].deleted \/ NameIsFree(t, id, r)
Updated(t, id, r) ==
  [t EXCEPT ![id] = [r EXCEPT !.deleted = t[id].deleted, !.from = t[id].from]]

SoftDeleted(t, id) == [t EXCEPT ![id].deleted = TRUE]
WithAvailable(t, id, available) == [t EXCEPT ![id].available = available]

\* move_thing, with the foreign key on the new parent
CanMove(t, parent) == Stored(t, parent)

Moved(t, id, parent) == [t EXCEPT ![id].parent = parent]

\* The row copy_thing makes of the row r of id: without its name.
CopyOf(r, id, parent) ==
  [r EXCEPT !.parent = parent, !.name = None, !.deleted = FALSE, !.from = id]
=============================================================================

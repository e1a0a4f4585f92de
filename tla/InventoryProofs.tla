--------------------------- MODULE InventoryProofs ---------------------------
(***************************************************************************)
(* Theorems of Inventory, for any number of connections, tools, commands,  *)
(* syncs and crashes: the type invariant with the keys of the schema, the  *)
(* complete world, the faithful fork, the exact sync, and what was dropped *)
(* stays.  All of them follow from one inductive invariant, IInv: what     *)
(* holds of the tables, of the start of the program, of each command under *)
(* way, of the command that forks, and of the sync against its snapshot.   *)
(*                                                                         *)
(* Each step is proved by what it leaves alone: Good tables stay so,       *)
(* stored things stay stored under their names (Extends), the names a sync *)
(* looks at keep their rows (NamesKept), the equipment of the new room is  *)
(* the same but for the keys other commands handled (SameFork).            *)
(***************************************************************************)
EXTENDS Inventory, FiniteSetTheorems, WellFoundedInduction, TLAPS

-----------------------------------------------------------------------------
(* The invariant                                                           *)

\* The rows of a command and of a sync
CopyItem == [of : 1..MaxEquips, thing : Ids, slot : Slots, priority : Nat]
EquipItem == [thing : Ids, slot : Slots]
Calls ==
  [pc : {"idle", "ensure", "lookup", "delete", "read", "copy", "move", "equip", "priority",
         "put", "unequip", "source", "fork"},
   id : Ids \cup {None}, name : Names \cup McpNames \cup {Look, None},
   ctx : Ids \cup {None, Fork}, slot : Slots, row : Thing \cup {None} \cup SUBSET CopyItem,
   todo : SUBSET (Ids \cup EquipItem \cup CopyItem), done : Nat]
Offers == UNION {[names -> Versions] : names \in SUBSET McpNames}
Snapshots == UNION {[ids -> Thing] : ids \in SUBSET Ids}
Syncing ==
  [pc : {"idle", "container", "find", "tools", "gone", "synced"}, offer : Offers,
   existing : Snapshots, todo : SUBSET (McpNames \cup Ids)]

\* The columns, the foreign key and the unique index of things; the thing of
\* the agent is nameless, so that no command finds it.
TableOK(t) ==
  /\ t \in [Ids -> Thing \cup {None}]
  /\ \A id \in Ids : Stored(t, id) => ParentExists(t, t[id])
  /\ \A id, other \in LiveIds(t) :
       t[id].name # None /\ t[id].name = t[other].name => id = other
AgentOK(t) == Stored(t, Agent) => ~t[Agent].deleted /\ t[Agent].name = None

\* The columns and the unique index of equipment; a room that does not exist
\* has none.
KeysOK(e) ==
  /\ e \in [1..MaxEquips -> Equipped \cup {None}]
  /\ \A i, j \in LiveRows(e) :
       i # j /\ e[i].slot # None =>
         <<e[i].ctx, e[i].thing, e[i].slot>> # <<e[j].ctx, e[j].thing, e[j].slot>>
NoneEquipped(ctx) == \A i \in LiveRows(equip) : equip[i].ctx # ctx
TablesOK ==
  /\ TableOK(things) /\ AgentOK(things) /\ KeysOK(equip)
  /\ rooms \subseteq {Home, Lobby, Fork} /\ (Fork \notin rooms => NoneEquipped(Fork))
  /\ handled \subseteq Ids \X Slots

\* The first n items of the bootstrap are in the tables.
Done(n) ==
  \A k \in 1..n :
    /\ Bootstrap[k].table = "things" => Stored(things, Bootstrap[k].id)
    /\ Bootstrap[k].table = "rooms" => Bootstrap[k].id \in rooms
\* Nobody is served, and no sync runs.
Quiet == call = [c \in Clients |-> Idle] /\ connected = {} /\ sync = Resting
BootOK ==
  /\ boot \in [pc : {"check", "insert", "serving"}, done : 0..Len(Bootstrap)]
  /\ ~Stored(things, World) =>
       things = [id \in Ids |-> None] /\ rooms = {} /\ equip = [i \in 1..MaxEquips |-> None]
  /\ boot.pc = "check" => boot.done = 0
  /\ boot.pc = "insert" =>
       /\ boot.done < Len(Bootstrap) /\ Done(boot.done)
       /\ boot.done = 0 => ~Stored(things, World)
       /\ \A id \in Ids \ {LookTool} : Stored(things, id) => things[id].name = None
       /\ \A id \in Ids : Stored(things, id) => things[id].parent \notin {Home, Lobby}
  /\ boot.pc = "serving" => Stored(things, World)
  /\ boot.pc # "serving" => Quiet
  /\ boot.pc # "insert" /\ ~torn /\ Stored(things, World) => Done(Len(Bootstrap))
  /\ torn \in BOOLEAN
  /\ connected \subseteq Clients
  /\ connected # {} /\ ~torn => Stored(things, Agent)

\* What a command has read and still goes by.
Reads(cl) == cl.pc \in {"delete", "read", "copy", "move"}
CallOK(cl, t) ==
  /\ Reads(cl) => Stored(t, cl.id)
  /\ cl.pc = "lookup" => cl.name # None
  /\ cl.pc = "delete" => t[cl.id].name # None
  /\ cl.pc = "copy" => cl.row \in Thing
  /\ cl.pc = "move" => cl.ctx \in {Home, Lobby, Fork}
  /\ cl.pc \in {"equip", "unequip"} => cl.ctx \in {Home, Lobby, Fork, Agent}
  /\ cl.pc = "equip" => cl.todo \subseteq EquipItem
  /\ cl.pc \in {"priority", "put"} => cl.ctx \in {Home, Lobby, Fork} /\ cl.todo \subseteq Ids
  /\ cl.pc = "put" => cl.id \in Ids
  /\ cl.pc = "unequip" => cl.todo \subseteq Ids
CallsOK == call \in [Clients -> Calls] /\ \A c \in Clients : CallOK(call[c], things)

\* One command forks at a time.  Two rows of its source are different keys, so
\* that a copy is never taken for another.
Forking(c) == call[c].pc \in {"source", "fork"}
Keys == Ids \X Slots
Under(e, key) == {i \in LiveRows(e) : e[i].ctx = Fork /\ KeyOf(e[i]) = key}
Copies(e, row, todo, keys) ==
  \A key \in Keys \ keys :
    LET copied == {r \in row \ todo : KeyOf(r) = key}
    IN  /\ Cardinality(Under(e, key)) = Cardinality(copied)
        /\ {e[i].priority : i \in Under(e, key)} = {r.priority : r \in copied}
ForksOK ==
  /\ \A c, d \in Clients : Forking(c) /\ Forking(d) => c = d
  /\ \A c \in Clients : Forking(c) => Fork \in rooms
  /\ \A c \in Clients : At(c, "source") => \A key \in Keys \ handled : Under(equip, key) = {}
  /\ \A c \in Clients : At(c, "fork") =>
       /\ call[c].row \in SUBSET CopyItem /\ call[c].todo \subseteq call[c].row
       /\ IsFiniteSet(call[c].row)
       /\ \A r, s \in call[c].row :
            r # s /\ r.thing = s.thing /\ r.slot = s.slot => r.slot = None
       /\ Copies(equip, call[c].row, call[c].todo, handled)

\* For each name no command wrote to since the read: what the sync has not
\* written yet is as it was read, and what it has is as offered.
Read(name, id) == id \in DOMAIN sync.existing /\ sync.existing[id].name = name
Holds(name, id) == Live(things, id) /\ things[id].name = name
AsRead(name) ==
  \A id \in Ids :
    /\ Holds(name, id) <=> Read(name, id)
    /\ Holds(name, id) => /\ things[id].available = sync.existing[id].available
                          /\ things[id].version = sync.existing[id].version
AsOffered(name) ==
  \E id \in Ids : /\ Holds(name, id) /\ things[id].available
                  /\ things[id].version = sync.offer[name]
SnapshotOK ==
  \A id \in DOMAIN sync.existing :
    /\ Stored(things, id) /\ things[id].name = sync.existing[id].name
    /\ ~sync.existing[id].deleted /\ sync.existing[id].name \in McpNames
    /\ ParentExists(things, sync.existing[id])
SyncOK ==
  /\ sync \in Syncing /\ SnapshotOK
  /\ Syncs("tools") =>
       /\ sync.todo \subseteq DOMAIN sync.offer
       /\ \A name \in McpNames \ touched :
            IF name \in DOMAIN sync.offer \ sync.todo THEN AsOffered(name) ELSE AsRead(name)
  /\ Syncs("gone") => sync.todo \subseteq DOMAIN sync.existing
  /\ Syncs("gone") \/ Syncs("synced") =>
       /\ \A id \in sync.todo : sync.existing[id].name \notin DOMAIN sync.offer
       /\ \A name \in McpNames \ touched :
            IF name \in DOMAIN sync.offer THEN AsOffered(name)
            ELSE \A id \in Ids : Holds(name, id) => id \in sync.todo \/ ~things[id].available
  /\ Syncs("synced") => sync.todo = {}

IInv == TablesOK /\ BootOK /\ CallsOK /\ ForksOK /\ SyncOK

-----------------------------------------------------------------------------
(* Rows and ids                                                            *)

LEMMA FixedIds ==
  /\ {World, Rooms, Internal, Agents, Mcps, Home, Lobby, LookTool, Agent, Mcp} \subseteq Ids
  /\ Fresh \subseteq Ids /\ None \notin Ids /\ Fork \notin Ids /\ Fork # None
BY IdAssumption DEF Ids, Fixed

LEMMA NewThingTyped ==
  ASSUME NEW kind \in Kinds, NEW parent \in Ids \cup {None}
  PROVE  /\ NewThing(kind, parent) \in Thing
         /\ NewThing(kind, parent).name = None /\ NewThing(kind, parent).parent = parent
         /\ ~NewThing(kind, parent).deleted
BY DEF NewThing, Thing, Slots

LEMMA ToolTyped ==
  ASSUME NEW name \in Names \cup McpNames \cup {Look}, NEW parent \in Ids,
         NEW version \in Versions \cup {0}
  PROVE  /\ Tool(name, parent, version) \in Thing
         /\ Tool(name, parent, version).name = name /\ Tool(name, parent, version).parent = parent
         /\ Tool(name, parent, version).version = version
         /\ Tool(name, parent, version).available /\ ~Tool(name, parent, version).deleted
<1>1. "tool" \in Kinds
  BY DEF Kinds
<1>2. QED
  BY <1>1 DEF Tool, NewThing, Thing, Slots

LEMMA RowTyped ==
  ASSUME NEW ctx \in {Home, Lobby, Fork, Agent}, NEW id \in Ids, NEW slot \in Slots, NEW n \in Nat
  PROVE  /\ EquipRow(ctx, id, slot, n) \in Equipped /\ ~EquipRow(ctx, id, slot, n).deleted
         /\ EquipRow(ctx, id, slot, n).ctx = ctx /\ EquipRow(ctx, id, slot, n).thing = id
         /\ EquipRow(ctx, id, slot, n).slot = slot /\ EquipRow(ctx, id, slot, n).priority = n
BY DEF EquipRow, Equipped

LEMMA StoredTyped ==
  ASSUME NEW t \in [Ids -> Thing \cup {None}], NEW id, Stored(t, id)
  PROVE  id \in Ids /\ t[id] \in Thing
BY DEF Stored

LEMMA NamedFinds ==
  ASSUME NEW t \in [Ids -> Thing \cup {None}], NEW name
  PROVE  /\ Named(t, name) = None <=> \A id \in Ids : ~(Live(t, id) /\ t[id].name = name)
         /\ Named(t, name) # None =>
              /\ Named(t, name) \in Ids /\ Live(t, Named(t, name))
              /\ t[Named(t, name)].name = name
<1> DEFINE found == {id \in Ids : Live(t, id) /\ t[id].name = name}
<1>1. Named(t, name) = IF found = {} THEN None ELSE CHOOSE id \in found : TRUE
  BY DEF Named
<1>2. CASE found = {}
  <2>1. Named(t, name) = None
    BY <1>1, <1>2
  <2>2. QED
    BY <1>2, <2>1
<1>3. CASE found # {}
  <2>1. PICK id : id = CHOOSE x \in found : TRUE
    OBVIOUS
  <2>2. id \in found /\ Named(t, name) = id
    BY <1>1, <1>3, <2>1
  <2>3. QED
    BY <2>2, FixedIds
<1>4. QED
  BY <1>2, <1>3

\* The id drawn is one that no thing has.
LEMMA LeastExists ==
  ASSUME NEW S \in SUBSET Nat, S # {}
  PROVE  \E x \in S : \A y \in S : x <= y
<1> DEFINE Below == {p \in Nat \X Nat : p[1] < p[2]}
<1>1. IsWellFoundedOn(Below, Nat)
  BY NatLessThanWellFounded DEF OpToRel
<1> HIDE DEF Below
<1>2. PICK x \in S : \A y \in S : ~(<<y, x>> \in Below)
  BY <1>1, WFMin
<1>3. ASSUME NEW y \in S PROVE x <= y
  <2>1. ~(<<y, x>> \in Below)
    BY <1>2
  <2>2. QED
    BY <2>1 DEF Below
<1>4. QED
  BY <1>3

LEMMA FreshDrawn ==
  ASSUME FreshIds # {}
  PROVE  FreshId \in Fresh /\ ~Stored(things, FreshId) /\ FreshId \in Ids /\ FreshId # Agent
<1>1. FreshIds \in SUBSET Nat
  BY BoundsAssumption DEF FreshIds, Fresh
<1>2. \E id \in FreshIds : \A other \in FreshIds : id <= other
  BY <1>1, LeastExists
<1>3. FreshId \in FreshIds
  BY <1>2 DEF FreshId
<1>4. QED
  BY <1>3, FixedIds, IdAssumption DEF FreshIds

-----------------------------------------------------------------------------
(* Statements on things                                                    *)

\* What is stored stays so under its name.
Extends(t, u) == \A id \in Ids : Stored(t, id) => Stored(u, id) /\ u[id].name = t[id].name
Good(t) == TableOK(t) /\ AgentOK(t)

LEMMA NameUnique ==
  ASSUME NEW t, TableOK(t), NEW id, NEW r, NameIsFree(t, id, r), r.name # None, ~r.deleted
  PROVE  \A other \in Ids : Live(t, other) /\ t[other].name = r.name => other = id
<1>1. Named(t, r.name) \in {None, id}
  BY DEF NameIsFree
<1>2. t \in [Ids -> Thing \cup {None}]
  BY DEF TableOK
<1>3. CASE Named(t, r.name) = None
  BY <1>2, <1>3, NamedFinds
<1>4. CASE Named(t, r.name) # None
  <2>1. Named(t, r.name) = id /\ id \in Ids /\ Live(t, id) /\ t[id].name = r.name
    BY <1>1, <1>2, <1>4, NamedFinds
  <2>2. QED
    BY <1>2, <2>1 DEF TableOK, LiveIds
<1>5. QED
  BY <1>3, <1>4

LEMMA InsertGood ==
  ASSUME NEW t, Good(t), NEW id \in Ids, NEW r \in Thing, CanInsert(t, id, r),
         id = Agent => r.name = None /\ ~r.deleted
  PROVE  /\ Good(Inserted(t, id, r)) /\ Extends(t, Inserted(t, id, r))
         /\ Inserted(t, id, r) = [t EXCEPT ![id] = r]
         /\ Stored(Inserted(t, id, r), id) /\ Inserted(t, id, r)[id] = r
<1> DEFINE u == Inserted(t, id, r)
<1>1. t \in [Ids -> Thing \cup {None}] /\ u \in [Ids -> Thing \cup {None}] /\ r # None
  BY IdAssumption DEF Good, TableOK, Inserted
<1>2. u[id] = r /\ \A x \in Ids \ {id} : u[x] = t[x]
  BY <1>1 DEF Inserted
<1>3. ~Stored(t, id)
  BY DEF CanInsert
<1>4. \A x \in Ids : Stored(u, x) <=> Stored(t, x) \/ x = id
  BY <1>1, <1>2, <1>3 DEF Stored
<1>5. ASSUME NEW x \in Ids, Stored(u, x) PROVE ParentExists(u, u[x])
  <2>1. CASE x = id
    <3>1. ParentExists(t, r)
      BY DEF CanInsert
    <3>2. r.parent \in Ids \cup {None}
      BY DEF Thing
    <3>3. QED
      BY <1>2, <1>4, <2>1, <3>1, <3>2 DEF ParentExists
  <2>2. CASE x # id
    <3>1. Stored(t, x) /\ u[x] = t[x]
      BY <1>2, <1>4, <1>5, <2>2
    <3>2. ParentExists(t, t[x]) /\ t[x] \in Thing
      BY <1>1, <3>1, StoredTyped DEF Good, TableOK
    <3>3. t[x].parent \in Ids \cup {None}
      BY <3>2 DEF Thing
    <3>4. QED
      BY <1>4, <3>1, <3>2, <3>3 DEF ParentExists
  <2>3. QED
    BY <2>1, <2>2
<1>6. ASSUME NEW x \in LiveIds(u), NEW y \in LiveIds(u), u[x].name # None, u[x].name = u[y].name
      PROVE  x = y
  <2>1. x \in Ids /\ y \in Ids /\ Live(u, x) /\ Live(u, y)
    BY <1>1 DEF LiveIds
  <2>2. \A z \in Ids \ {id} : Live(u, z) => Live(t, z) /\ u[z] = t[z]
    BY <1>2, <1>4 DEF Live
  <2>3. NameIsFree(t, id, r)
    BY DEF CanInsert
  <2>4. ASSUME x = id \/ y = id PROVE x = y
    <3>1. r.name # None /\ ~r.deleted
      BY <1>2, <1>6, <2>1, <2>4 DEF Live
    <3>2. \A z \in Ids : Live(t, z) /\ t[z].name = r.name => z = id
      BY <2>3, <3>1, NameUnique DEF Good
    <3>3. QED
      BY <1>2, <1>6, <2>1, <2>2, <2>4, <3>2
  <2>5. ASSUME x # id, y # id PROVE x = y
    <3>1. x \in LiveIds(t) /\ y \in LiveIds(t) /\ u[x] = t[x] /\ u[y] = t[y]
      BY <1>1, <2>1, <2>2, <2>5 DEF LiveIds
    <3>2. QED
      BY <1>6, <3>1 DEF Good, TableOK
  <2>6. QED
    BY <2>4, <2>5
<1>7. AgentOK(u)
  <2>1. Agent \in Ids
    BY FixedIds
  <2>2. QED
    BY <1>2, <1>4, <2>1 DEF Good, AgentOK
<1>8. Extends(t, u)
  BY <1>2, <1>3, <1>4 DEF Extends
<1>9. QED
  BY <1>1, <1>2, <1>4, <1>5, <1>6, <1>7, <1>8 DEF Good, TableOK, Inserted

\* A row is changed in place: its name stays, and what is deleted stays deleted.
LEMMA ChangeGood ==
  ASSUME NEW t, Good(t), NEW id, Stored(t, id), NEW r \in Thing,
         r.name = t[id].name, t[id].deleted => r.deleted, r.parent = None \/ Stored(t, r.parent),
         id = Agent => ~r.deleted
  PROVE  /\ Good([t EXCEPT ![id] = r]) /\ Extends(t, [t EXCEPT ![id] = r])
         /\ id \in Ids /\ [t EXCEPT ![id] = r][id] = r
         /\ \A x \in Ids \ {id} : [t EXCEPT ![id] = r][x] = t[x]
<1> DEFINE u == [t EXCEPT ![id] = r]
<1>1. t \in [Ids -> Thing \cup {None}] /\ id \in Ids /\ t[id] \in Thing
  BY StoredTyped DEF Good, TableOK
<1>2. u \in [Ids -> Thing \cup {None}] /\ u[id] = r /\ r # None /\ \A x \in Ids \ {id} : u[x] = t[x]
  BY <1>1, IdAssumption
<1> HIDE DEF u
<1>3. \A x \in Ids : Stored(u, x) <=> Stored(t, x)
  BY <1>1, <1>2 DEF Stored
<1>4. ASSUME NEW x \in Ids, Stored(u, x) PROVE ParentExists(u, u[x])
  <2>1. u[x] \in Thing
    BY <1>2, <1>4, StoredTyped
  <2>2. u[x].parent \in Ids \cup {None}
    BY <2>1 DEF Thing
  <2>3. u[x].parent = None \/ Stored(t, u[x].parent)
    <3>1. CASE x = id
      BY <1>2, <3>1
    <3>2. CASE x # id
      BY <1>2, <1>3, <1>4, <3>2 DEF Good, TableOK, ParentExists
    <3>3. QED
      BY <3>1, <3>2
  <2>4. QED
    BY <1>3, <2>2, <2>3 DEF ParentExists
<1>5. \A x \in Ids : Live(u, x) => Live(t, x) /\ u[x].name = t[x].name
  BY <1>1, <1>2, <1>3 DEF Live
<1>6. ASSUME NEW x \in LiveIds(u), NEW y \in LiveIds(u), u[x].name # None, u[x].name = u[y].name
      PROVE  x = y
  <2>1. x \in Ids /\ y \in Ids /\ Live(u, x) /\ Live(u, y)
    BY <1>2 DEF LiveIds
  <2>2. x \in LiveIds(t) /\ y \in LiveIds(t) /\ u[x].name = t[x].name /\ u[y].name = t[y].name
    BY <1>1, <1>5, <2>1 DEF LiveIds
  <2>3. QED
    BY <1>6, <2>2 DEF Good, TableOK
<1>7. AgentOK(u)
  BY <1>1, <1>2, <1>3, FixedIds DEF AgentOK, Good
<1>8. Extends(t, u)
  BY <1>1, <1>2, <1>3 DEF Extends
<1>9. QED
  BY <1>1, <1>2, <1>4, <1>6, <1>7, <1>8 DEF Good, TableOK, u

LEMMA ParentStored ==
  ASSUME NEW t, Good(t), NEW id, Stored(t, id)
  PROVE  t[id].parent = None \/ Stored(t, t[id].parent)
BY StoredTyped DEF Good, TableOK, ParentExists

LEMMA SoftDeletedGood ==
  ASSUME NEW t, Good(t), NEW id, Stored(t, id), t[id].name # None
  PROVE  /\ Good(SoftDeleted(t, id)) /\ Extends(t, SoftDeleted(t, id))
         /\ \A x \in Ids \ {id} : SoftDeleted(t, id)[x] = t[x]
<1> DEFINE r == [t[id] EXCEPT !.deleted = TRUE]
<1>1. t[id] \in Thing /\ id # Agent
  BY StoredTyped DEF Good, TableOK, AgentOK
<1>2. r \in Thing /\ r.name = t[id].name /\ r.parent = t[id].parent /\ r.deleted
  BY <1>1 DEF Thing
<1>3. SoftDeleted(t, id) = [t EXCEPT ![id] = r]
  BY DEF SoftDeleted
<1> HIDE DEF r
<1>4. r.parent = None \/ Stored(t, r.parent)
  BY <1>2, ParentStored
<1>5. /\ Good([t EXCEPT ![id] = r]) /\ Extends(t, [t EXCEPT ![id] = r])
      /\ \A x \in Ids \ {id} : [t EXCEPT ![id] = r][x] = t[x]
  BY <1>1, <1>2, <1>4, ChangeGood
<1>6. QED
  BY <1>3, <1>5

LEMMA WithAvailableGood ==
  ASSUME NEW t, Good(t), NEW id, Stored(t, id)
  PROVE  /\ Good(WithAvailable(t, id, FALSE)) /\ Extends(t, WithAvailable(t, id, FALSE))
         /\ \A x \in Ids \ {id} : WithAvailable(t, id, FALSE)[x] = t[x]
         /\ id \in Ids /\ WithAvailable(t, id, FALSE)[id].available = FALSE
         /\ t[id] \in Thing
<1> DEFINE r == [t[id] EXCEPT !.available = FALSE]
<1>1. t[id] \in Thing
  BY StoredTyped DEF Good, TableOK
<1>2. r \in Thing /\ r.name = t[id].name /\ r.parent = t[id].parent /\ r.deleted = t[id].deleted
  BY <1>1 DEF Thing
<1>3. WithAvailable(t, id, FALSE) = [t EXCEPT ![id] = r]
  BY DEF WithAvailable
<1>4. id = Agent => ~t[id].deleted
  BY DEF Good, AgentOK
<1>5. r.available = FALSE
  BY <1>1 DEF Thing
<1> HIDE DEF r
<1>6. r.parent = None \/ Stored(t, r.parent)
  BY <1>2, ParentStored
<1>7. /\ Good([t EXCEPT ![id] = r]) /\ Extends(t, [t EXCEPT ![id] = r])
      /\ id \in Ids /\ [t EXCEPT ![id] = r][id] = r
      /\ \A x \in Ids \ {id} : [t EXCEPT ![id] = r][x] = t[x]
  BY <1>1, <1>2, <1>4, <1>6, ChangeGood
<1>8. QED
  BY <1>1, <1>3, <1>5, <1>7

LEMMA MovedGood ==
  ASSUME NEW t, Good(t), NEW id, Stored(t, id), NEW parent, Stored(t, parent)
  PROVE  /\ Good(Moved(t, id, parent)) /\ Extends(t, Moved(t, id, parent))
         /\ \A x \in Ids \ {id} : Moved(t, id, parent)[x] = t[x]
         /\ id \in Ids /\ Moved(t, id, parent)[id] = [t[id] EXCEPT !.parent = parent]
         /\ t[id] \in Thing
<1> DEFINE r == [t[id] EXCEPT !.parent = parent]
<1>1. t[id] \in Thing /\ parent \in Ids
  BY StoredTyped DEF Good, TableOK
<1>2. r \in Thing /\ r.name = t[id].name /\ r.parent = parent /\ r.deleted = t[id].deleted
  BY <1>1 DEF Thing
<1>3. Moved(t, id, parent) = [t EXCEPT ![id] = r]
  BY DEF Moved
<1>4. id = Agent => ~t[id].deleted
  BY DEF Good, AgentOK
<1>5. r = [t[id] EXCEPT !.parent = parent]
  OBVIOUS
<1> HIDE DEF r
<1>6. r.parent = None \/ Stored(t, r.parent)
  BY <1>2
<1>7. /\ Good([t EXCEPT ![id] = r]) /\ Extends(t, [t EXCEPT ![id] = r])
      /\ id \in Ids /\ [t EXCEPT ![id] = r][id] = r
      /\ \A x \in Ids \ {id} : [t EXCEPT ![id] = r][x] = t[x]
  BY <1>1, <1>2, <1>4, <1>6, ChangeGood
<1>8. QED
  BY <1>1, <1>3, <1>5, <1>7

\* A sync writes a row of its snapshot back.
LEMMA UpdatedGood ==
  ASSUME NEW t, Good(t), NEW id, Stored(t, id), NEW r \in Thing, r.name = t[id].name,
         r.parent = None \/ Stored(t, r.parent)
  PROVE  /\ Good(Updated(t, id, r)) /\ Extends(t, Updated(t, id, r))
         /\ \A x \in Ids \ {id} : Updated(t, id, r)[x] = t[x]
         /\ id \in Ids /\ t[id] \in Thing
         /\ Updated(t, id, r)[id].deleted = t[id].deleted
         /\ Updated(t, id, r)[id].available = r.available
         /\ Updated(t, id, r)[id].version = r.version
<1> DEFINE q == [r EXCEPT !.deleted = t[id].deleted, !.from = t[id].from]
<1>1. t[id] \in Thing
  BY StoredTyped DEF Good, TableOK
<1>2. q \in Thing /\ q.name = t[id].name /\ q.parent = r.parent /\ q.deleted = t[id].deleted
  BY <1>1 DEF Thing
<1>3. Updated(t, id, r) = [t EXCEPT ![id] = q]
  BY DEF Updated
<1>4. id = Agent => ~t[id].deleted
  BY DEF Good, AgentOK
<1>5. q.available = r.available /\ q.version = r.version
  BY <1>1 DEF Thing
<1> HIDE DEF q
<1>6. q.parent = None \/ Stored(t, q.parent)
  BY <1>2
<1>7. /\ Good([t EXCEPT ![id] = q]) /\ Extends(t, [t EXCEPT ![id] = q])
      /\ id \in Ids /\ [t EXCEPT ![id] = q][id] = q
      /\ \A x \in Ids \ {id} : [t EXCEPT ![id] = q][x] = t[x]
  BY <1>1, <1>2, <1>4, <1>6, ChangeGood
<1>8. QED
  BY <1>1, <1>2, <1>3, <1>5, <1>7

\* An upsert writes one row, under the name of the row that is given.
LEMMA UpsertGood ==
  ASSUME NEW t, Good(t), NEW id \in Ids \ {Agent}, ~Stored(t, id), NEW r \in Thing,
         r.name # None, ~r.deleted, CanUpsert(t, id, r)
  PROVE  /\ Good(Upserted(t, id, r)) /\ Extends(t, Upserted(t, id, r))
         /\ \A x \in Ids : \/ Upserted(t, id, r)[x] = t[x]
                           \/ /\ Stored(Upserted(t, id, r), x)
                              /\ Upserted(t, id, r)[x].name = r.name
                              /\ Stored(t, x) => Upserted(t, id, r)[x].parent = t[x].parent
<1>1. CASE Conflicts(t, r)
  <2> DEFINE n == Named(t, r.name)
             q == [t[n] EXCEPT !.version = r.version, !.slot = r.slot, !.available = r.available]
  <2>1. n \in Ids /\ Live(t, n) /\ t[n].name = r.name
    BY <1>1, NamedFinds DEF Conflicts, Good, TableOK
  <2>2. Stored(t, n) /\ ~t[n].deleted
    BY <2>1 DEF Live
  <2>3. t[n] \in Thing
    BY <2>2, StoredTyped DEF Good, TableOK
  <2>4. q \in Thing /\ q.name = t[n].name /\ q.parent = t[n].parent /\ q.deleted = t[n].deleted
    BY <2>3 DEF Thing
  <2>5. Upserted(t, id, r) = [t EXCEPT ![n] = q]
    BY <1>1 DEF Upserted
  <2> HIDE DEF n, q
  <2>6. q.parent = None \/ Stored(t, q.parent)
    BY <2>2, <2>4, ParentStored
  <2>7. /\ Good([t EXCEPT ![n] = q]) /\ Extends(t, [t EXCEPT ![n] = q])
        /\ [t EXCEPT ![n] = q][n] = q
        /\ \A x \in Ids \ {n} : [t EXCEPT ![n] = q][x] = t[x]
    BY <2>2, <2>4, <2>6, ChangeGood
  <2>8. Stored([t EXCEPT ![n] = q], n)
    BY <2>1, <2>2, <2>7 DEF Extends
  <2>9. QED
    BY <2>1, <2>4, <2>5, <2>7, <2>8
<1>2. CASE ~Conflicts(t, r)
  <2>1. CanInsert(t, id, r) /\ Upserted(t, id, r) = Inserted(t, id, r)
    BY <1>2 DEF CanUpsert, Upserted
  <2>2. /\ Good(Inserted(t, id, r)) /\ Extends(t, Inserted(t, id, r))
        /\ Inserted(t, id, r) = [t EXCEPT ![id] = r]
        /\ Stored(Inserted(t, id, r), id) /\ Inserted(t, id, r)[id] = r
    BY <2>1, InsertGood
  <2>3. \A x \in Ids \ {id} : Inserted(t, id, r)[x] = t[x]
    BY <2>2 DEF Good, TableOK
  <2>4. QED
    BY <2>1, <2>2, <2>3
<1>3. QED
  BY <1>1, <1>2

-----------------------------------------------------------------------------
(* Statements on equipment                                                 *)

LEMMA EquipGood ==
  ASSUME NEW e, KeysOK(e), NEW r \in Equipped, ~r.deleted
  PROVE  /\ KeysOK(WithRow(e, r))
         /\ \A i \in LiveRows(WithRow(e, r)) :
              \/ WithRow(e, r)[i].ctx = r.ctx /\ KeyOf(WithRow(e, r)[i]) = KeyOf(r)
              \/ i \in LiveRows(e) /\ WithRow(e, r)[i] = e[i]
         /\ HasRoom(e) => \A i \in LiveRows(e) : e[i].ctx # r.ctx \/ KeyOf(e[i]) # KeyOf(r) =>
              i \in LiveRows(WithRow(e, r)) /\ WithRow(e, r)[i] = e[i]
<1> DEFINE w == WithRow(e, r)
<1>1. e \in [1..MaxEquips -> Equipped \cup {None}] /\ r # None /\ r.priority \in Nat
  BY IdAssumption DEF KeysOK, Equipped
<1>2. \A i \in LiveRows(e) : i \in 1..MaxEquips /\ e[i] \in Equipped /\ e[i] # None /\ ~e[i].deleted
  BY <1>1 DEF LiveRows
<1>3. CASE SameKey(e, r) # {}
  <2>1. SameKey(e, r) \subseteq LiveRows(e)
    BY DEF SameKey
  <2>2. w = [i \in 1..MaxEquips |-> IF i \in SameKey(e, r)
                                   THEN [e[i] EXCEPT !.priority = r.priority, !.deleted = FALSE]
                                   ELSE e[i]]
    BY <1>1, <1>3 DEF WithRow
  <2>3. ASSUME NEW i \in SameKey(e, r)
        PROVE  /\ w[i] \in Equipped /\ w[i].ctx = e[i].ctx /\ w[i].thing = e[i].thing
               /\ w[i].slot = e[i].slot /\ ~w[i].deleted /\ e[i].ctx = r.ctx
               /\ e[i].thing = r.thing /\ e[i].slot = r.slot
    <3>1. e[i] \in Equipped /\ i \in 1..MaxEquips /\ e[i].ctx = r.ctx
          /\ e[i].thing = r.thing /\ e[i].slot = r.slot
      BY <1>2, <2>1 DEF SameKey
    <3>2. w[i] = [e[i] EXCEPT !.priority = r.priority, !.deleted = FALSE]
      BY <2>2, <3>1
    <3>3. QED
      BY <1>1, <3>1, <3>2 DEF Equipped
  <2>4. \A i \in 1..MaxEquips : i \notin SameKey(e, r) => w[i] = e[i]
    BY <2>2
  <2>5. w \in [1..MaxEquips -> Equipped \cup {None}]
    BY <1>1, <2>2, <2>3, <2>4
  <2> HIDE DEF w
  <2>6. LiveRows(w) = LiveRows(e)
    <3>1. \A i \in SameKey(e, r) : i \in LiveRows(w)
      BY <1>2, <2>1, <2>3, <2>5, IdAssumption DEF LiveRows
    <3>2. QED
      BY <1>1, <2>1, <2>4, <2>5, <3>1 DEF LiveRows
  <2>7. \A i \in LiveRows(w) :
          w[i].ctx = e[i].ctx /\ w[i].thing = e[i].thing /\ w[i].slot = e[i].slot
    BY <1>2, <2>3, <2>4, <2>6
  <2>8. KeysOK(w)
    BY <2>5, <2>6, <2>7 DEF KeysOK
  <2>9. QED
    BY <1>2, <2>3, <2>4, <2>6, <2>8 DEF w, KeyOf
<1>4. CASE SameKey(e, r) = {}
  <2> DEFINE f == FreshRow(e)
  <2>1. w = [e EXCEPT ![f] = r]
    BY <1>4 DEF WithRow
  <2> HIDE DEF f
  <2>2. w \in [1..MaxEquips -> Equipped \cup {None}]
    BY <1>1, <2>1
  <2>3. \A i \in 1..MaxEquips : i # f => w[i] = e[i]
    BY <1>1, <2>1
  <2>4. f \in 1..MaxEquips => w[f] = r
    BY <1>1, <2>1
  <2> HIDE DEF w
  <2>5. \A i \in LiveRows(w) : i \in 1..MaxEquips /\ (i = f \/ (i \in LiveRows(e) /\ w[i] = e[i]))
    BY <1>1, <2>2, <2>3 DEF LiveRows
  <2>6. ASSUME NEW i \in LiveRows(e)
        PROVE  r.slot # None => <<e[i].ctx, e[i].thing, e[i].slot>> # <<r.ctx, r.thing, r.slot>>
    BY <1>4, <2>6 DEF SameKey
  <2>7. ASSUME NEW i \in LiveRows(w), NEW j \in LiveRows(w), i # j, w[i].slot # None
        PROVE  <<w[i].ctx, w[i].thing, w[i].slot>> # <<w[j].ctx, w[j].thing, w[j].slot>>
    <3>1. CASE i = f
      BY <2>4, <2>5, <2>6, <2>7, <3>1
    <3>2. CASE j = f
      BY <2>4, <2>5, <2>6, <2>7, <3>2
    <3>3. CASE i # f /\ j # f
      BY <2>5, <2>7, <3>3 DEF KeysOK
    <3>4. QED
      BY <3>1, <3>2, <3>3
  <2>8. KeysOK(w)
    BY <2>2, <2>7 DEF KeysOK
  <2>9. HasRoom(e) => e[f] = None
    BY DEF HasRoom, FreshRow, f
  <2>10. ASSUME HasRoom(e), NEW i \in LiveRows(e) PROVE i \in LiveRows(w) /\ w[i] = e[i]
    <3>1. i # f /\ i \in 1..MaxEquips
      BY <1>2, <2>9, <2>10
    <3>2. w[i] = e[i]
      BY <2>3, <3>1
    <3>3. QED
      BY <1>2, <2>2, <3>1, <3>2 DEF LiveRows
  <2>11. QED
    BY <2>4, <2>5, <2>8, <2>10 DEF w
<1>5. QED
  BY <1>3, <1>4

LEMMA UnequipGood ==
  ASSUME NEW e, KeysOK(e), NEW ctx, NEW thing, NEW slot
  PROVE  /\ KeysOK(WithoutRow(e, ctx, thing, slot))
         /\ \A i \in LiveRows(WithoutRow(e, ctx, thing, slot)) :
              i \in LiveRows(e) /\ WithoutRow(e, ctx, thing, slot)[i] = e[i]
         /\ \A i \in LiveRows(e) : e[i].ctx # ctx \/ KeyOf(e[i]) # <<thing, slot>> =>
              /\ i \in LiveRows(WithoutRow(e, ctx, thing, slot))
              /\ WithoutRow(e, ctx, thing, slot)[i] = e[i]
<1> DEFINE w == WithoutRow(e, ctx, thing, slot)
           hit(i) == e[i] # None /\ e[i].ctx = ctx /\ e[i].thing = thing /\ e[i].slot = slot
<1>1. e \in [1..MaxEquips -> Equipped \cup {None}]
  BY DEF KeysOK
<1>2. w = [i \in 1..MaxEquips |-> IF hit(i) THEN [e[i] EXCEPT !.deleted = TRUE] ELSE e[i]]
  BY <1>1 DEF WithoutRow
<1>3. ASSUME NEW i \in 1..MaxEquips, hit(i) PROVE w[i] \in Equipped /\ w[i].deleted
  <2>1. e[i] \in Equipped /\ w[i] = [e[i] EXCEPT !.deleted = TRUE]
    BY <1>1, <1>2, <1>3
  <2>2. QED
    BY <2>1 DEF Equipped
<1>4. \A i \in 1..MaxEquips : ~hit(i) => w[i] = e[i]
  BY <1>2
<1>5. w \in [1..MaxEquips -> Equipped \cup {None}]
  BY <1>1, <1>2, <1>3, <1>4
<1> HIDE DEF w
<1>6. \A i \in LiveRows(w) : i \in LiveRows(e) /\ w[i] = e[i]
  BY <1>1, <1>3, <1>4, <1>5 DEF LiveRows
<1>7. \A i \in LiveRows(e) : e[i].ctx # ctx \/ KeyOf(e[i]) # <<thing, slot>> =>
        i \in LiveRows(w) /\ w[i] = e[i]
  BY <1>1, <1>4, <1>5 DEF LiveRows, KeyOf
<1>8. KeysOK(w)
  BY <1>5, <1>6 DEF KeysOK
<1>9. QED
  BY <1>6, <1>7, <1>8 DEF w

\* Finitely many rows have a highest priority.
LEMMA PrioritiesBounded ==
  ASSUME NEW e \in [1..MaxEquips -> Equipped \cup {None}]
  PROVE  \E b \in Nat : \A i \in 1..MaxEquips : e[i] # None => e[i].priority <= b
<1> DEFINE Low(n) == \E b \in Nat : \A i \in 1..n : e[i] # None => e[i].priority <= b
           High == {n \in 0..MaxEquips : ~Low(n)}
<1>1. MaxEquips \in Nat
  BY BoundsAssumption
<1>2. Low(0)
  OBVIOUS
<1>3. ASSUME NEW n \in 0..MaxEquips, n # MaxEquips, Low(n) PROVE Low(n + 1)
  <2>1. PICK b \in Nat : \A i \in 1..n : e[i] # None => e[i].priority <= b
    BY <1>3
  <2>2. n + 1 \in 1..MaxEquips
    <3>1. n # MaxEquips
      BY <1>3
    <3>2. QED
      BY <1>1, <3>1
  <2>3. CASE e[n + 1] = None
    <3>1. \A i \in 1..(n + 1) : i = n + 1 \/ i \in 1..n
      BY <1>1
    <3>2. \A i \in 1..(n + 1) : e[i] # None => e[i].priority <= b
      BY <2>1, <2>3, <3>1
    <3>3. QED
      BY <2>1, <3>2
  <2>4. CASE e[n + 1] # None
    <3>1. e[n + 1] \in Equipped
      BY <2>2, <2>4
    <3>2. PICK p \in Nat : p = e[n + 1].priority
      BY <3>1 DEF Equipped
    <3>3. ASSUME NEW i \in 1..(n + 1), e[i] # None PROVE e[i].priority <= b + p
      <4>1. CASE i = n + 1
        BY <2>1, <3>2, <4>1
      <4>2. CASE i # n + 1
        <5>1. i \in 1..n /\ i \in 1..MaxEquips
          BY <1>1, <4>2
        <5>2. e[i] \in Equipped /\ e[i].priority <= b
          BY <2>1, <3>3, <5>1
        <5>3. e[i].priority \in Nat
          BY <5>2 DEF Equipped
        <5>4. QED
          BY <2>1, <3>2, <5>2, <5>3
      <4>3. QED
        BY <4>1, <4>2
    <3>4. b + p \in Nat
      BY <2>1, <3>2
    <3>5. QED
      BY <3>3, <3>4
  <2>5. QED
    BY <2>3, <2>4
<1> HIDE DEF Low
<1>4. ASSUME High # {} PROVE FALSE
  <2>1. High \in SUBSET Nat
    OBVIOUS
  <2>2. PICK n \in High : \A m \in High : n <= m
    <3> HIDE DEF High
    <3>1. QED
      BY <1>4, <2>1, LeastExists
  <2>3. n \in 0..MaxEquips /\ ~Low(n)
    OBVIOUS
  <2>4. n # 0
    BY <1>2, <2>3
  <2>5. n - 1 \in 0..MaxEquips /\ n - 1 # MaxEquips /\ (n - 1) + 1 = n /\ ~(n <= n - 1)
    BY <1>1, <2>3, <2>4
  <2>6. Low(n - 1)
    BY <2>2, <2>5
  <2>7. Low((n - 1) + 1)
    BY <1>3, <2>5, <2>6
  <2>8. QED
    BY <2>3, <2>5, <2>7
<1>5. Low(MaxEquips)
  BY <1>1, <1>4
<1>6. QED
  BY <1>5 DEF Low

LEMMA NextPriorityTyped ==
  ASSUME NEW e, KeysOK(e), NEW t, NEW ctx
  PROVE  NextPriority(e, t, ctx) \in Nat
<1> DEFINE used == {e[i].priority : i \in Equipment(e, t, ctx)}
<1>1. e \in [1..MaxEquips -> Equipped \cup {None}]
  BY DEF KeysOK
<1>2. PICK b \in Nat : \A i \in 1..MaxEquips : e[i] # None => e[i].priority <= b
  BY <1>1, PrioritiesBounded
<1>3. \A i \in Equipment(e, t, ctx) : e[i].priority \in Nat /\ e[i].priority <= b
  <2>1. ASSUME NEW i \in Equipment(e, t, ctx) PROVE e[i].priority \in Nat /\ e[i].priority <= b
    <3>1. i \in 1..MaxEquips /\ e[i] # None /\ e[i] \in Equipped
      BY <1>1 DEF Equipment, LiveRows
    <3>2. e[i].priority \in Nat
      BY <3>1 DEF Equipped
    <3>3. QED
      BY <1>2, <3>1, <3>2
  <2>2. QED
    BY <2>1
<1>4. used \in SUBSET Nat /\ \A p \in used : p <= b
  BY <1>3
<1>5. NextPriority(e, t, ctx) =
        IF used = {} THEN 1 ELSE 1 + (CHOOSE p \in used : \A q \in used : q <= p)
  BY DEF NextPriority
<1> HIDE DEF used
<1>6. ASSUME used # {} PROVE (CHOOSE p \in used : \A q \in used : q <= p) \in Nat
  <2> DEFINE under == {d \in Nat : \E p \in used : d = b - p}
  <2>1. under \in SUBSET Nat /\ under # {}
    <3>1. PICK p \in used : TRUE
      BY <1>6
    <3>2. b - p \in under
      BY <1>4
    <3>3. QED
      BY <3>2
  <2>2. PICK d \in under : \A c \in under : d <= c
    <3> HIDE DEF under
    <3>1. QED
      BY <2>1, LeastExists
  <2>3. PICK p \in used : d = b - p
    OBVIOUS
  <2>4. ASSUME NEW q \in used PROVE q <= p
    <3>1. b - q \in under
      BY <1>4
    <3>2. d <= b - q
      BY <2>2, <3>1
    <3>3. QED
      BY <1>4, <2>3, <3>2
  <2>5. (CHOOSE x \in used : \A q \in used : q <= x) \in used
    BY <2>4
  <2>6. QED
    BY <1>4, <2>5
<1>7. QED
  BY <1>5, <1>6

-----------------------------------------------------------------------------
(* The order of the bootstrap                                              *)

\* An insert of the bootstrap
Item == [table : {"things", "rooms", "equip"}, id : Ids, row : Thing \cup Equipped \cup {None}]

Parts(e, a, b, c) ==
  /\ Len(e) = Len(a) + Len(b) + Len(c)
  /\ \A i \in 1..Len(a) : e[i] = a[i]
  /\ \A i \in 1..Len(b) : e[Len(a) + i] = b[i]
  /\ \A i \in 1..Len(c) : e[Len(a) + Len(b) + i] = c[i]

LEMMA ThreeParts ==
  ASSUME NEW S, NEW a \in Seq(S), NEW b \in Seq(S), NEW c \in Seq(S)
  PROVE  (a \o b) \o c \in Seq(S) /\ Parts((a \o b) \o c, a, b, c)
<1>1. PICK d \in Seq(S) : d = a \o b
  <2>1. a \o b \in Seq(S)
    OBVIOUS
  <2>2. QED
    BY <2>1
<1>2. /\ Len(d) = Len(a) + Len(b) /\ \A i \in 1..Len(a) : d[i] = a[i]
      /\ \A i \in 1..Len(b) : d[Len(a) + i] = b[i]
  BY <1>1
<1>3. PICK e \in Seq(S) : e = d \o c
  <2>1. d \o c \in Seq(S)
    OBVIOUS
  <2>2. QED
    BY <2>1
<1>4. /\ Len(e) = Len(d) + Len(c) /\ \A i \in 1..Len(d) : e[i] = d[i]
      /\ \A i \in 1..Len(c) : e[Len(d) + i] = c[i]
  BY <1>3
<1>5. \A i \in 1..Len(a) : i \in 1..Len(d)
  BY <1>2
<1>6. \A i \in 1..Len(b) : Len(a) + i \in 1..Len(d)
  BY <1>2
<1>7. Parts(e, a, b, c)
  BY <1>2, <1>4, <1>5, <1>6 DEF Parts
<1>8. QED
  BY <1>1, <1>3, <1>7

LEMMA BootstrapItems ==
  LET n == Len(Containers) IN
  /\ n \in Nat /\ Bootstrap \in Seq(Item) /\ Len(Bootstrap) = n + 7
  /\ Bootstrap[1] = Insert(World, NewThing("container", None))
  /\ \A i \in 1..n : Bootstrap[1 + i] = Insert(Containers[i], NewThing("container", World))
  /\ Bootstrap[n + 2] = Insert(Home, NewThing("room", Rooms))
  /\ Bootstrap[n + 3] = RoomRow(Home)
  /\ Bootstrap[n + 4] = Insert(Lobby, NewThing("room", Rooms))
  /\ Bootstrap[n + 5] = RoomRow(Lobby)
  /\ Bootstrap[n + 6] = Insert(LookTool, Tool(Look, Internal, 0))
  /\ Bootstrap[n + 7] = EquipIn(LookTool, EquipRow(Lobby, LookTool, None, 0))
<1> DEFINE n == Len(Containers)
           a == <<Insert(World, NewThing("container", None))>>
           b == [i \in DOMAIN Containers |-> Insert(Containers[i], NewThing("container", World))]
           c1 == Insert(Home, NewThing("room", Rooms))
           c2 == RoomRow(Home)
           c3 == Insert(Lobby, NewThing("room", Rooms))
           c4 == RoomRow(Lobby)
           c5 == Insert(LookTool, Tool(Look, Internal, 0))
           c6 == EquipIn(LookTool, EquipRow(Lobby, LookTool, None, 0))
           c == <<c1, c2, c3, c4, c5, c6>>
<1>1. n \in Nat /\ DOMAIN Containers = 1..n
      /\ \A i \in 1..n : Containers[i] \in {Rooms, Internal, Agents, Mcps}
  BY ContainerAssumption
<1>2. "container" \in Kinds /\ "room" \in Kinds /\ None \in Slots
  BY DEF Kinds, Slots
<1>3. NewThing("container", None) \in Thing /\ NewThing("container", World) \in Thing
      /\ NewThing("room", Rooms) \in Thing
  BY <1>2, FixedIds, NewThingTyped
<1>4. Tool(Look, Internal, 0) \in Thing
  BY FixedIds, ToolTyped
<1>5. EquipRow(Lobby, LookTool, None, 0) \in Equipped
  BY <1>2, FixedIds, RowTyped
<1>6. \A id \in Ids, r \in Thing : Insert(id, r) \in Item
  BY DEF Insert, Item
<1>7. /\ c1 \in Item /\ c3 \in Item /\ c5 \in Item
      /\ \A i \in 1..n : Insert(Containers[i], NewThing("container", World)) \in Item
  BY <1>1, <1>3, <1>4, <1>6, FixedIds
<1>8. Insert(World, NewThing("container", None)) \in Item
  BY <1>3, <1>6, FixedIds
<1>9. c2 \in Item /\ c4 \in Item /\ c6 \in Item
  BY <1>5, FixedIds DEF RoomRow, EquipIn, Item
<1>10. a \in Seq(Item) /\ Len(a) = 1 /\ a[1] = Insert(World, NewThing("container", None))
  BY <1>8
<1>11. b \in Seq(Item) /\ Len(b) = n
       /\ \A i \in 1..n : b[i] = Insert(Containers[i], NewThing("container", World))
  BY <1>1, <1>7
<1>12. Bootstrap = (a \o b) \o c
  BY DEF Bootstrap
<1> HIDE DEF a, b, c1, c2, c3, c4, c5, c6
<1>13. c \in Seq(Item) /\ Len(c) = 6 /\ c[1] = c1 /\ c[2] = c2 /\ c[3] = c3 /\ c[4] = c4
       /\ c[5] = c5 /\ c[6] = c6
  BY <1>7, <1>9
<1> HIDE DEF c
<1>14. /\ Bootstrap \in Seq(Item) /\ Len(Bootstrap) = Len(a) + Len(b) + Len(c)
       /\ \A i \in 1..Len(a) : Bootstrap[i] = a[i]
       /\ \A i \in 1..Len(b) : Bootstrap[Len(a) + i] = b[i]
       /\ \A i \in 1..Len(c) : Bootstrap[Len(a) + Len(b) + i] = c[i]
  <2>1. a \in Seq(Item) /\ b \in Seq(Item) /\ c \in Seq(Item)
    BY <1>10, <1>11, <1>13
  <2>2. (a \o b) \o c \in Seq(Item) /\ Parts((a \o b) \o c, a, b, c)
    BY <2>1, ThreeParts
  <2>3. Bootstrap \in Seq(Item) /\ Parts(Bootstrap, a, b, c)
    BY <1>12, <2>2
  <2>4. QED
    BY <2>3 DEF Parts
<1>15. Len(Bootstrap) = n + 7 /\ Bootstrap[1] = a[1]
  BY <1>1, <1>10, <1>11, <1>13, <1>14
<1>16. \A i \in 1..n : Bootstrap[1 + i] = b[i]
  BY <1>10, <1>11, <1>14
<1>17. \A i \in 1..6 : Bootstrap[1 + n + i] = c[i]
  BY <1>10, <1>11, <1>13, <1>14
<1>18. /\ Bootstrap[n + 2] = c1 /\ Bootstrap[n + 3] = c2 /\ Bootstrap[n + 4] = c3
       /\ Bootstrap[n + 5] = c4 /\ Bootstrap[n + 6] = c5 /\ Bootstrap[n + 7] = c6
  <2>1. 1 + n + 1 = n + 2 /\ 1 + n + 2 = n + 3 /\ 1 + n + 3 = n + 4 /\ 1 + n + 4 = n + 5
        /\ 1 + n + 5 = n + 6 /\ 1 + n + 6 = n + 7
    BY <1>1
  <2>2. /\ Bootstrap[1 + n + 1] = c1 /\ Bootstrap[1 + n + 2] = c2 /\ Bootstrap[1 + n + 3] = c3
        /\ Bootstrap[1 + n + 4] = c4 /\ Bootstrap[1 + n + 5] = c5 /\ Bootstrap[1 + n + 6] = c6
    BY <1>13, <1>17
  <2>3. QED
    BY <2>1, <2>2
<1>19. QED
  BY <1>1, <1>10, <1>11, <1>14, <1>15, <1>16, <1>18 DEF a, b, c1, c2, c3, c4, c5, c6

-----------------------------------------------------------------------------
(* What the steps of the others keep                                       *)

NamesKept(t, u, names) ==
  \A id \in Ids, name \in names :
    /\ Live(t, id) /\ t[id].name = name <=> Live(u, id) /\ u[id].name = name
    /\ Live(t, id) /\ t[id].name = name =>
         t[id].available = u[id].available /\ t[id].version = u[id].version
SameFork(e, f, keys) ==
  \A key \in Keys \ keys :
    Under(f, key) = Under(e, key) /\ \A i \in Under(e, key) : f[i] = e[i]
ForkKept ==
  /\ handled \subseteq handled' /\ handled' \subseteq Keys
  /\ SameFork(equip, equip', handled') /\ (Fork \notin rooms => NoneEquipped(Fork)')

LEMMA BusyServes ==
  ASSUME IInv, NEW c \in Clients, call[c].pc # "idle" \/ c \in connected
  PROVE  Serving /\ Stored(things, World)
<1>1. ~Quiet
  BY DEF Quiet, Idle
<1>2. QED
  BY <1>1 DEF IInv, BootOK, Serving

LEMMA SyncServes ==
  ASSUME IInv, sync.pc # "idle"
  PROVE  Serving /\ Stored(things, World)
<1>1. ~Quiet
  BY DEF Quiet, Resting
<1>2. QED
  BY <1>1 DEF IInv, BootOK, Serving

LEMMA IdleTyped ==
  /\ Idle \in Calls /\ Idle.pc = "idle"
  /\ Resting \in Syncing /\ Resting.pc = "idle" /\ DOMAIN Resting.existing = {}
<1>1. Idle \in Calls /\ Idle.pc = "idle"
  BY DEF Idle, Calls, Slots
<1>2. <<>> \in [{} -> Versions] /\ <<>> \in [{} -> Thing]
  OBVIOUS
<1>3. <<>> \in Offers /\ <<>> \in Snapshots
  <2>1. {} \in SUBSET McpNames /\ {} \in SUBSET Ids
    OBVIOUS
  <2>2. QED
    BY <1>2, <2>1 DEF Offers, Snapshots
<1>4. QED
  BY <1>1, <1>3 DEF Resting, Syncing

LEMMA ExtendsStored ==
  ASSUME NEW t \in [Ids -> Thing \cup {None}], NEW u, Extends(t, u), NEW id, Stored(t, id)
  PROVE  Stored(u, id) /\ u[id].name = t[id].name
BY StoredTyped DEF Extends

LEMMA DoneKept ==
  ASSUME NEW n \in 0..Len(Bootstrap), Done(n), things \in [Ids -> Thing \cup {None}],
         Extends(things, things'), rooms \subseteq rooms'
  PROVE  Done(n)'
BY ExtendsStored DEF Done

LEMMA BootKept ==
  ASSUME IInv, Serving, UNCHANGED <<boot, torn>>, Extends(things, things'), rooms \subseteq rooms',
         connected' \subseteq Clients, connected' # {} /\ ~torn => Stored(things', Agent)
  PROVE  BootOK'
<1>1. things \in [Ids -> Thing \cup {None}] /\ Stored(things, World)
  BY DEF IInv, TablesOK, TableOK, BootOK, Serving
<1>2. Stored(things', World)
  BY <1>1, ExtendsStored
<1>3. ~torn => Done(Len(Bootstrap))'
  <2>1. Len(Bootstrap) \in 0..Len(Bootstrap)
    BY BootstrapItems
  <2>2. ~torn => Done(Len(Bootstrap))
    BY <1>1 DEF IInv, BootOK, Serving
  <2>3. QED
    BY <1>1, <2>1, <2>2, DoneKept
<1>4. QED
  BY <1>2, <1>3 DEF IInv, BootOK, Serving

LEMMA CallKept ==
  ASSUME NEW t \in [Ids -> Thing \cup {None}], NEW u, Extends(t, u), NEW cl, CallOK(cl, t)
  PROVE  CallOK(cl, u)
<1>1. Reads(cl) => Stored(u, cl.id) /\ u[cl.id].name = t[cl.id].name
  BY ExtendsStored DEF CallOK
<1>2. QED
  BY <1>1 DEF CallOK, Reads

LEMMA CallsKept ==
  ASSUME CallsOK, things \in [Ids -> Thing \cup {None}], Extends(things, things'),
         NEW c \in Clients, NEW r \in Calls, CallOK(r, things'), call' = [call EXCEPT ![c] = r]
  PROVE  CallsOK'
<1>1. call' \in [Clients -> Calls]
  BY DEF CallsOK
<1>2. ASSUME NEW d \in Clients PROVE CallOK(call[d], things)'
  <2>1. CASE d = c
    BY <2>1 DEF CallsOK
  <2>2. CASE d # c
    <3>1. call'[d] = call[d]
      BY <2>2 DEF CallsOK
    <3>2. CallOK(call[d], things')
      BY CallKept DEF CallsOK
    <3>3. QED
      BY <3>1, <3>2
  <2>3. QED
    BY <2>1, <2>2
<1>3. QED
  BY <1>1, <1>2 DEF CallsOK

LEMMA CallsSame ==
  ASSUME CallsOK, things \in [Ids -> Thing \cup {None}], Extends(things, things'), call' = call
  PROVE  CallsOK'
<1>1. ASSUME NEW d \in Clients PROVE CallOK(call[d], things)'
  <2>1. CallOK(call[d], things')
    BY CallKept DEF CallsOK
  <2>2. QED
    BY <2>1
<1>2. QED
  BY <1>1 DEF CallsOK

LEMMA CopiesKept ==
  ASSUME NEW e, NEW f, NEW keys, NEW more, keys \subseteq more, SameFork(e, f, more),
         NEW row, NEW todo, Copies(e, row, todo, keys)
  PROVE  Copies(f, row, todo, more)
<1> SUFFICES ASSUME NEW key \in Keys \ more
             PROVE  /\ Cardinality(Under(f, key)) = Cardinality({r \in row \ todo : KeyOf(r) = key})
                    /\ {f[i].priority : i \in Under(f, key)}
                         = {r.priority : r \in {q \in row \ todo : KeyOf(q) = key}}
  BY DEF Copies
<1>1. /\ Cardinality(Under(e, key)) = Cardinality({r \in row \ todo : KeyOf(r) = key})
      /\ {e[i].priority : i \in Under(e, key)}
           = {r.priority : r \in {q \in row \ todo : KeyOf(q) = key}}
  BY DEF Copies
<1>2. Under(f, key) = Under(e, key) /\ \A i \in Under(e, key) : f[i] = e[i]
  BY DEF SameFork
<1>3. {f[i].priority : i \in Under(f, key)} = {e[i].priority : i \in Under(e, key)}
  BY <1>2
<1>4. QED
  BY <1>1, <1>2, <1>3

LEMMA ForksKept ==
  ASSUME ForksOK, rooms \subseteq rooms', handled \subseteq handled',
         SameFork(equip, equip', handled'),
         \A c \in Clients : call'[c] = call[c] \/ call'[c].pc \notin {"source", "fork"}
  PROVE  ForksOK'
<1>2. \A c \in Clients : Forking(c)' => Forking(c) /\ call'[c] = call[c]
  BY DEF Forking
<1>3. \A c, d \in Clients : Forking(c)' /\ Forking(d)' => c = d
  BY <1>2 DEF ForksOK
<1>4. \A c \in Clients : Forking(c)' => Fork \in rooms'
  BY <1>2 DEF ForksOK
<1>5. \A c \in Clients : At(c, "source")' => \A key \in Keys \ handled' : Under(equip', key) = {}
  BY <1>2 DEF ForksOK, Forking, At, SameFork
<1>6. ASSUME NEW c \in Clients, call'[c].pc = "fork"
      PROVE  /\ call'[c].row \in SUBSET CopyItem /\ call'[c].todo \subseteq call'[c].row
             /\ IsFiniteSet(call'[c].row)
             /\ \A r, s \in call'[c].row :
                  r # s /\ r.thing = s.thing /\ r.slot = s.slot => r.slot = None
             /\ Copies(equip', call'[c].row, call'[c].todo, handled')
  <2>1. call'[c] = call[c] /\ At(c, "fork")
    BY <1>6 DEF At
  <2>2. Copies(equip, call[c].row, call[c].todo, handled)
    BY <2>1 DEF ForksOK
  <2>3. Copies(equip', call[c].row, call[c].todo, handled')
    BY <2>2, CopiesKept
  <2>4. QED
    BY <2>1, <2>3 DEF ForksOK
<1>7. QED
  BY <1>3, <1>4, <1>5, <1>6 DEF ForksOK, At

LEMMA SyncKept ==
  ASSUME SyncOK, things \in [Ids -> Thing \cup {None}], sync' = sync, Extends(things, things'),
         touched \subseteq touched', NamesKept(things, things', McpNames \ touched')
  PROVE  SyncOK'
<1>1. SnapshotOK'
  <2>1. ASSUME NEW id \in DOMAIN sync.existing
        PROVE  /\ Stored(things', id) /\ things'[id].name = sync.existing[id].name
               /\ ParentExists(things', sync.existing[id])
    BY ExtendsStored DEF SyncOK, SnapshotOK, ParentExists
  <2>2. QED
    BY <2>1 DEF SyncOK, SnapshotOK
<1>2. ASSUME NEW name \in McpNames \ touched'
      PROVE  /\ name \in McpNames \ touched
             /\ AsOffered(name) => AsOffered(name)'
             /\ AsRead(name) => AsRead(name)'
             /\ \A id \in Ids : Holds(name, id)' =>
                  Holds(name, id) /\ things'[id].available = things[id].available
  <2>1. \A id \in Ids :
          /\ Holds(name, id)' <=> Holds(name, id)
          /\ Holds(name, id) => /\ things'[id].available = things[id].available
                                /\ things'[id].version = things[id].version
    BY DEF NamesKept, Holds
  <2>2. QED
    BY <2>1 DEF AsOffered, AsRead, Read
<1>3. QED
  BY <1>1, <1>2 DEF SyncOK, Syncs

LEMMA Itself ==
  ASSUME NEW t, NEW e, NEW names, NEW keys
  PROVE  Extends(t, t) /\ NamesKept(t, t, names) /\ SameFork(e, e, keys)
BY DEF Extends, NamesKept, SameFork

LEMMA ForkItself ==
  ASSUME IInv, UNCHANGED <<rooms, equip, handled>>
  PROVE  ForkKept
<1>1. handled' \subseteq Keys /\ (Fork \notin rooms => NoneEquipped(Fork)')
  BY DEF IInv, TablesOK, Keys, NoneEquipped
<1>2. QED
  BY <1>1, Itself DEF ForkKept

\* A step of a command that forks no room.
LEMMA CommandStep ==
  ASSUME IInv, Serving, NEW c \in Clients, NEW r \in Calls, r.pc \notin {"source", "fork"},
         call' = [call EXCEPT ![c] = r], CallOK(r, things'),
         Good(things'), Extends(things, things'), KeysOK(equip'), ForkKept,
         UNCHANGED <<rooms, boot, torn, sync>>,
         \/ connected' = connected
         \/ connected' \subseteq Clients /\ (~torn => Stored(things', Agent)),
         touched \subseteq touched', NamesKept(things, things', McpNames \ touched')
  PROVE  IInv'
<1>1. things \in [Ids -> Thing \cup {None}] /\ CallsOK /\ ForksOK /\ SyncOK
  BY DEF IInv, TablesOK, TableOK
<1>2. BootOK'
  <2>1. connected' \subseteq Clients
    BY DEF IInv, BootOK
  <2>2. connected' # {} /\ ~torn => Stored(things', Agent)
    <3>1. CASE connected' = connected
      <4>1. connected # {} /\ ~torn => Stored(things, Agent)
        BY DEF IInv, BootOK
      <4>2. QED
        BY <1>1, <3>1, <4>1, ExtendsStored
    <3>2. CASE connected' \subseteq Clients /\ (~torn => Stored(things', Agent))
      BY <3>2
    <3>3. QED
      BY <3>1, <3>2
  <2>3. QED
    BY <2>1, <2>2, BootKept
<1>3. CallsOK'
  BY <1>1, CallsKept
<1>4. \A d \in Clients : call'[d] = call[d] \/ call'[d].pc \notin {"source", "fork"}
  BY <1>1 DEF CallsOK
<1>5. ForksOK'
  BY <1>1, <1>4, ForksKept DEF ForkKept
<1>6. SyncOK'
  BY <1>1, SyncKept
<1>7. TablesOK'
  BY DEF TablesOK, Good, IInv, ForkKept, Keys
<1>8. QED
  BY <1>2, <1>3, <1>5, <1>6, <1>7 DEF IInv

\* A step that only reads.
LEMMA ReadStep ==
  ASSUME IInv, Serving, NEW c \in Clients, NEW r \in Calls, r.pc \notin {"source", "fork"},
         call' = [call EXCEPT ![c] = r], CallOK(r, things),
         UNCHANGED <<things, rooms, equip, handled, boot, torn, sync, connected, touched>>
  PROVE  IInv'
<1>1. Good(things') /\ KeysOK(equip') /\ CallOK(r, things')
  BY DEF IInv, TablesOK, Good
<1>2. Extends(things, things') /\ NamesKept(things, things', McpNames \ touched')
      /\ ForkKept
  BY Itself, ForkItself
<1>3. QED
  BY <1>1, <1>2, CommandStep

\* A command that ends.
LEMMA IdleOK ==
  ASSUME NEW t
  PROVE  Idle \in Calls /\ CallOK(Idle, t) /\ Idle.pc \notin {"source", "fork"}
BY IdleTyped DEF CallOK, Reads

-----------------------------------------------------------------------------
(* The start of the program                                                *)

LEMMA QuietOK == Quiet => CallsOK /\ ForksOK /\ SyncOK
<1> SUFFICES ASSUME Quiet PROVE CallsOK /\ ForksOK /\ SyncOK
  OBVIOUS
<1>1. \A c \in Clients : call[c] = Idle
  BY DEF Quiet
<1>2. CallsOK
  BY <1>1, IdleOK DEF CallsOK, Quiet
<1>3. ForksOK
  BY <1>1, IdleTyped DEF ForksOK, Forking, At
<1>4. SyncOK
  BY IdleTyped DEF SyncOK, SnapshotOK, Syncs, Quiet
<1>5. QED
  BY <1>2, <1>3, <1>4

LEMMA InitOK == Init => IInv
<1> SUFFICES ASSUME Init PROVE IInv
  OBVIOUS
<1>1. CallsOK /\ ForksOK /\ SyncOK
  BY QuietOK DEF Init, Quiet
<1>2. \A id \in Ids : ~Stored(things, id)
  BY DEF Init, Stored
<1>3. LiveIds(things) = {}
  BY <1>2 DEF LiveIds, Live, Init
<1>4. TableOK(things) /\ AgentOK(things)
  BY <1>2, <1>3, FixedIds DEF TableOK, AgentOK, Init
<1>5. LiveRows(equip) = {}
  BY DEF LiveRows, Init
<1>6. KeysOK(equip) /\ NoneEquipped(Fork)
  BY <1>5 DEF KeysOK, NoneEquipped, Init
<1>7. BootOK
  <2>1. 0 \in 0..Len(Bootstrap)
    BY BootstrapItems
  <2>2. ~Stored(things, World)
    BY <1>2, FixedIds
  <2>3. QED
    BY <2>1, <2>2 DEF BootOK, Init, Quiet
<1>8. QED
  BY <1>1, <1>4, <1>6, <1>7 DEF IInv, TablesOK, Init

LEMMA CheckWorldOK == IInv /\ CheckWorld => IInv'
<1> SUFFICES ASSUME IInv, CheckWorld PROVE IInv'
  OBVIOUS
<1>1. UNCHANGED <<things, rooms, equip, handled, call, connected, sync, count, touched, torn>>
      /\ boot.pc = "check"
      /\ boot' = [boot EXCEPT !.pc = IF Stored(things, World) THEN "serving" ELSE "insert"]
  BY DEF CheckWorld, Storage
<1>2. Quiet
  BY <1>1 DEF IInv, BootOK
<1>3. Quiet'
  BY <1>1, <1>2 DEF Quiet
<1>4. CallsOK' /\ ForksOK' /\ SyncOK'
  <2>1. (Quiet => CallsOK /\ ForksOK /\ SyncOK)'
    BY QuietOK, PTL
  <2>2. QED
    BY <1>3, <2>1
<1>5. TablesOK'
  BY <1>1 DEF IInv, TablesOK, NoneEquipped
<1>6. boot \in [pc : {"check", "insert", "serving"}, done : 0..Len(Bootstrap)] /\ boot.done = 0
  BY <1>1 DEF IInv, BootOK
<1>7. boot'.done = 0
      /\ boot' \in [pc : {"check", "insert", "serving"}, done : 0..Len(Bootstrap)]
      /\ boot'.pc = IF Stored(things, World) THEN "serving" ELSE "insert"
  BY <1>1, <1>6
<1>8. Len(Bootstrap) > 0 /\ Done(0)'
  BY BootstrapItems DEF Done
<1>9. things' = things /\ rooms' = rooms /\ equip' = equip /\ torn' = torn
      /\ connected' = connected
  BY <1>1
<1>10. Done(Len(Bootstrap))' <=> Done(Len(Bootstrap))
  BY <1>1 DEF Done
<1>11. ~Stored(things, World) => things = [id \in Ids |-> None]
  BY DEF IInv, BootOK
<1>12. BootOK'
  BY <1>1, <1>3, <1>6, <1>7, <1>8, <1>9, <1>10, <1>11 DEF BootOK, IInv, Stored
<1>13. QED
  BY <1>4, <1>5, <1>12 DEF IInv

LEMMA CrashOK == IInv /\ Crash => IInv'
<1> SUFFICES ASSUME IInv, Crash PROVE IInv'
  OBVIOUS
<1>1. UNCHANGED <<things, rooms, equip, handled>> /\ Quiet'
      /\ boot' = [pc |-> "check", done |-> 0]
      /\ torn' = (torn \/ (boot.pc = "insert" /\ boot.done > 0))
  BY DEF Crash, Storage, Quiet
<1>2. CallsOK' /\ ForksOK' /\ SyncOK'
  <2>1. (Quiet => CallsOK /\ ForksOK /\ SyncOK)'
    BY QuietOK, PTL
  <2>2. QED
    BY <1>1, <2>1
<1>3. TablesOK'
  BY <1>1 DEF IInv, TablesOK, NoneEquipped
<1>4. ~torn' /\ Stored(things, World) => Done(Len(Bootstrap))
  <2>1. boot.done \in Nat
    BY BootstrapItems DEF IInv, BootOK
  <2>2. boot.done = 0 \/ boot.done > 0
    BY <2>1
  <2>3. boot.pc = "insert" /\ boot.done = 0 => ~Stored(things, World)
    BY DEF IInv, BootOK
  <2>4. boot.pc # "insert" /\ ~torn /\ Stored(things, World) => Done(Len(Bootstrap))
    BY DEF IInv, BootOK
  <2>5. QED
    BY <1>1, <2>2, <2>3, <2>4
<1>5. Done(Len(Bootstrap))' <=> Done(Len(Bootstrap))
  BY <1>1 DEF Done
<1>6. 0 \in 0..Len(Bootstrap)
  BY BootstrapItems
<1>7. boot'.pc = "check" /\ boot'.done = 0 /\ connected' = {}
      /\ boot' \in [pc : {"check", "insert", "serving"}, done : 0..Len(Bootstrap)]
  BY <1>1, <1>6 DEF Quiet
<1>8. torn' \in BOOLEAN
  BY <1>1 DEF IInv, BootOK
<1>9. ~Stored(things, World) =>
        things = [id \in Ids |-> None] /\ rooms = {} /\ equip = [i \in 1..MaxEquips |-> None]
  BY DEF IInv, BootOK
<1>10. BootOK'
  BY <1>1, <1>4, <1>5, <1>7, <1>8, <1>9 DEF BootOK
<1>11. QED
  BY <1>2, <1>3, <1>10 DEF IInv

\* The insert of an item: its row, and a parent inserted before it.
Shape(k) ==
  LET item == Bootstrap[k] IN
  /\ item.table = "things" =>
       /\ item.id \in Ids /\ item.row \in Thing /\ ~item.row.deleted
       /\ item.id # LookTool => item.row.name = None
       /\ item.row.parent \notin {Home, Lobby}
       /\ \/ item.row.parent = None
          \/ \E j \in 1..(k - 1) :
               Bootstrap[j].table = "things" /\ Bootstrap[j].id = item.row.parent
  /\ item.table = "rooms" => item.id \in {Home, Lobby}
  /\ item.table = "equip" =>
       item.row \in Equipped /\ ~item.row.deleted /\ item.row.ctx = Lobby
  /\ item.table \in {"things", "rooms", "equip"}

LEMMA InsertShape ==
  ASSUME NEW k \in Nat, NEW id \in Ids, NEW r \in Thing, ~r.deleted,
         id # LookTool => r.name = None, Bootstrap[k] = Insert(id, r), r.parent \notin {Home, Lobby},
         \/ r.parent = None
         \/ \E j \in 1..(k - 1) : Bootstrap[j].table = "things" /\ Bootstrap[j].id = r.parent
  PROVE  Shape(k)
<1>1. Bootstrap[k].table = "things" /\ Bootstrap[k].id = id /\ Bootstrap[k].row = r
  BY DEF Insert
<1>2. QED
  BY <1>1 DEF Shape

LEMMA ItemShape ==
  /\ Bootstrap[1].table = "things" /\ Bootstrap[1].id = World
  /\ \A k \in 1..Len(Bootstrap) : Shape(k)
<1> DEFINE n == Len(Containers)
<1>1. n \in Nat /\ Len(Bootstrap) = n + 7
  BY BootstrapItems
<1>2. Bootstrap[1] = Insert(World, NewThing("container", None))
  BY BootstrapItems
<1>3. Bootstrap[1].table = "things" /\ Bootstrap[1].id = World
  BY <1>2 DEF Insert
<1>4. \A i \in 1..n : /\ Bootstrap[1 + i] = Insert(Containers[i], NewThing("container", World))
                      /\ Containers[i] \in {Rooms, Internal, Agents, Mcps}
  <2>1. \A i \in 1..n : Bootstrap[1 + i] = Insert(Containers[i], NewThing("container", World))
    BY BootstrapItems
  <2>2. \A i \in 1..n : Containers[i] \in {Rooms, Internal, Agents, Mcps}
    BY ContainerAssumption
  <2>3. QED
    BY <2>1, <2>2
<1>5. \A i \in 1..n : Bootstrap[1 + i].table = "things" /\ Bootstrap[1 + i].id = Containers[i]
  <2>1. \A id, r : Insert(id, r).table = "things" /\ Insert(id, r).id = id
    BY DEF Insert
  <2>2. QED
    BY <1>4, <2>1
<1>6. ASSUME NEW x \in {Rooms, Internal}, NEW k \in (n + 2)..(n + 7)
      PROVE  \E j \in 1..(k - 1) : Bootstrap[j].table = "things" /\ Bootstrap[j].id = x
  <2>1. PICK i \in 1..n : Containers[i] = x
    <3>1. x \in {Containers[i] : i \in DOMAIN Containers}
      BY ContainerAssumption
    <3>2. DOMAIN Containers = 1..n
      BY ContainerAssumption
    <3>3. QED
      BY <3>1, <3>2
  <2>2. 1 + i \in 1..(k - 1)
    BY <1>1
  <2>3. Bootstrap[1 + i].table = "things" /\ Bootstrap[1 + i].id = x
    BY <1>5, <2>1
  <2>4. QED
    BY <2>2, <2>3
<1>7. "container" \in Kinds /\ "room" \in Kinds /\ None \in Slots
  BY DEF Kinds, Slots
<1>a. {None, World, Rooms, Internal} \cap {Home, Lobby} = {}
  BY FixedIds, IdAssumption
<1>8. Shape(1)
  <2>1. /\ NewThing("container", None) \in Thing /\ ~NewThing("container", None).deleted
        /\ NewThing("container", None).name = None /\ NewThing("container", None).parent = None
    BY <1>7, NewThingTyped
  <2>2. World \in Ids /\ 1 \in Nat
    BY FixedIds
  <2>3. QED
    BY <1>a, <1>2, <2>1, <2>2, InsertShape
<1>9. ASSUME NEW i \in 1..n PROVE Shape(1 + i)
  <2>1. World \in Ids \cup {None}
    BY FixedIds
  <2>2. /\ NewThing("container", World) \in Thing /\ ~NewThing("container", World).deleted
        /\ NewThing("container", World).name = None /\ NewThing("container", World).parent = World
    BY <1>7, <2>1, NewThingTyped
  <2>3. Containers[i] \in Ids /\ 1 + i \in Nat /\ 1 \in 1..(1 + i - 1)
    BY <1>1, <1>4, FixedIds
  <2>4. \E j \in 1..(1 + i - 1) : Bootstrap[j].table = "things" /\ Bootstrap[j].id = World
    BY <1>3, <2>3
  <2>5. Bootstrap[1 + i] = Insert(Containers[i], NewThing("container", World))
    BY <1>4
  <2>6. NewThing("container", World).parent \notin {Home, Lobby}
    BY <1>a, <2>2
  <2>7. QED
    BY <2>2, <2>3, <2>4, <2>5, <2>6, InsertShape
<1>10. Shape(n + 2) /\ Shape(n + 4)
  <2>1. Rooms \in Ids \cup {None} /\ Home \in Ids /\ Lobby \in Ids
    BY FixedIds
  <2>2. /\ NewThing("room", Rooms) \in Thing /\ ~NewThing("room", Rooms).deleted
        /\ NewThing("room", Rooms).name = None /\ NewThing("room", Rooms).parent = Rooms
    BY <1>7, <2>1, NewThingTyped
  <2>3. n + 2 \in (n + 2)..(n + 7) /\ n + 4 \in (n + 2)..(n + 7) /\ n + 2 \in Nat /\ n + 4 \in Nat
    BY <1>1
  <2>4. Bootstrap[n + 2] = Insert(Home, NewThing("room", Rooms))
        /\ Bootstrap[n + 4] = Insert(Lobby, NewThing("room", Rooms))
    BY BootstrapItems
  <2>5. /\ \E j \in 1..((n + 2) - 1) : Bootstrap[j].table = "things" /\ Bootstrap[j].id = Rooms
        /\ \E j \in 1..((n + 4) - 1) : Bootstrap[j].table = "things" /\ Bootstrap[j].id = Rooms
    BY <1>6, <2>3
  <2>6. Shape(n + 2)
    BY <1>a, <2>1, <2>2, <2>3, <2>4, <2>5, InsertShape
  <2>7. Shape(n + 4)
    BY <1>a, <2>1, <2>2, <2>3, <2>4, <2>5, InsertShape
  <2>8. QED
    BY <2>6, <2>7
<1>11. Shape(n + 6)
  <2>1. Internal \in Ids /\ LookTool \in Ids
    BY FixedIds
  <2>2. /\ Tool(Look, Internal, 0) \in Thing /\ ~Tool(Look, Internal, 0).deleted
        /\ Tool(Look, Internal, 0).parent = Internal
    BY <2>1, ToolTyped
  <2>3. n + 6 \in (n + 2)..(n + 7) /\ n + 6 \in Nat
    BY <1>1
  <2>4. Bootstrap[n + 6] = Insert(LookTool, Tool(Look, Internal, 0))
    BY BootstrapItems
  <2>5. \E j \in 1..((n + 6) - 1) : Bootstrap[j].table = "things" /\ Bootstrap[j].id = Internal
    BY <1>6, <2>3
  <2>6. QED
    BY <1>a, <2>1, <2>2, <2>3, <2>4, <2>5, InsertShape
<1>12. Shape(n + 3) /\ Shape(n + 5)
  <2>1. Bootstrap[n + 3] = RoomRow(Home) /\ Bootstrap[n + 5] = RoomRow(Lobby)
    BY BootstrapItems
  <2>2. QED
    BY <2>1 DEF Shape, RoomRow
<1>13. Shape(n + 7)
  <2>1. Bootstrap[n + 7] = EquipIn(LookTool, EquipRow(Lobby, LookTool, None, 0))
    BY BootstrapItems
  <2>2. /\ EquipRow(Lobby, LookTool, None, 0) \in Equipped
        /\ ~EquipRow(Lobby, LookTool, None, 0).deleted
        /\ EquipRow(Lobby, LookTool, None, 0).ctx = Lobby
    BY <1>7, FixedIds, RowTyped
  <2>3. QED
    BY <2>1, <2>2 DEF Shape, EquipIn
<1>14. ASSUME NEW k \in 1..Len(Bootstrap) PROVE Shape(k)
  <2>1. CASE k = 1
    BY <1>8, <2>1
  <2>2. CASE k \in 2..(n + 1)
    <3>1. k - 1 \in 1..n /\ 1 + (k - 1) = k
      BY <1>1, <2>2
    <3>2. Shape(1 + (k - 1))
      BY <1>9, <3>1
    <3>3. QED
      BY <3>1, <3>2
  <2>3. CASE k \in {n + 2, n + 3, n + 4, n + 5, n + 6, n + 7}
    BY <1>10, <1>11, <1>12, <1>13, <2>3
  <2>4. k = 1 \/ k \in 2..(n + 1) \/ k \in {n + 2, n + 3, n + 4, n + 5, n + 6, n + 7}
    BY <1>1
  <2>5. QED
    BY <2>1, <2>2, <2>3, <2>4
<1>15. QED
  BY <1>3, <1>14

Apart(t) == \A id \in Ids : Stored(t, id) => t[id].parent \notin {Home, Lobby}
OnlyLookNamed(t) == \A id \in Ids \ {LookTool} : Stored(t, id) => t[id].name = None

LEMMA PlacedGood ==
  ASSUME NEW t, Good(t), OnlyLookNamed(t), Apart(t), NEW id \in Ids, NEW r \in Thing, ~r.deleted,
         id # LookTool => r.name = None, r.parent = None \/ Stored(t, r.parent),
         r.parent \notin {Home, Lobby}
  PROVE  /\ Good(Inserted(t, id, r)) /\ OnlyLookNamed(Inserted(t, id, r)) /\ Apart(Inserted(t, id, r))
         /\ \A x \in Ids : Stored(Inserted(t, id, r), x) <=> Stored(t, x) \/ x = id
<1> DEFINE u == Inserted(t, id, r)
<1>1. t \in [Ids -> Thing \cup {None}] /\ u \in [Ids -> Thing \cup {None}] /\ r # None
  BY IdAssumption DEF Good, TableOK, Inserted
<1>2. u[id] = r /\ \A x \in Ids \ {id} : u[x] = t[x]
  BY <1>1 DEF Inserted
<1> HIDE DEF u
<1>3. \A x \in Ids : Stored(u, x) <=> Stored(t, x) \/ x = id
  BY <1>1, <1>2 DEF Stored
<1>4. ASSUME NEW x \in Ids, Stored(u, x) PROVE ParentExists(u, u[x])
  <2>1. u[x] \in Thing
    BY <1>1, <1>4, StoredTyped
  <2>2. u[x].parent \in Ids \cup {None}
    BY <2>1 DEF Thing
  <2>3. u[x].parent = None \/ Stored(t, u[x].parent)
    <3>1. CASE x = id
      BY <1>2, <3>1
    <3>2. CASE x # id
      BY <1>2, <1>3, <1>4, <3>2 DEF Good, TableOK, ParentExists
    <3>3. QED
      BY <3>1, <3>2
  <2>4. QED
    BY <1>3, <2>2, <2>3 DEF ParentExists
<1>5. OnlyLookNamed(u) /\ Apart(u)
  BY <1>2, <1>3 DEF OnlyLookNamed, Apart
<1>6. ASSUME NEW x \in LiveIds(u), NEW y \in LiveIds(u), u[x].name # None, u[x].name = u[y].name
      PROVE  x = y
  <2>1. x \in Ids /\ y \in Ids /\ Stored(u, x) /\ Stored(u, y)
    BY <1>1 DEF LiveIds, Live
  <2>2. x = LookTool /\ y = LookTool
    BY <1>5, <1>6, <2>1 DEF OnlyLookNamed
  <2>3. QED
    BY <2>2
<1>7. AgentOK(u)
  <2>1. Agent \in Ids /\ Agent # LookTool
    BY FixedIds, IdAssumption
  <2>2. QED
    BY <1>2, <1>3, <2>1 DEF AgentOK, Good
<1>8. QED
  BY <1>1, <1>3, <1>4, <1>5, <1>6, <1>7 DEF Good, TableOK, u

LEMMA BootstrapStepOK == IInv /\ BootstrapStep => IInv'
<1> SUFFICES ASSUME IInv, BootstrapStep PROVE IInv'
  OBVIOUS
<1>0. PICK k \in 1..Len(Bootstrap) : k = boot.done + 1
  <2>1. boot.done \in Nat /\ boot.done < Len(Bootstrap) /\ Len(Bootstrap) \in Nat
    BY BootstrapItems DEF IInv, BootOK, BootstrapStep
  <2>2. boot.done + 1 \in 1..Len(Bootstrap)
    BY <2>1
  <2>3. QED
    BY <2>2
<1> DEFINE item == Bootstrap[k]
<1>1. /\ boot.pc = "insert" /\ UNCHANGED <<handled, call, connected, sync, torn>>
      /\ things' = IF item.table = "things" THEN Inserted(things, item.id, item.row) ELSE things
      /\ rooms' = IF item.table = "rooms" THEN rooms \cup {item.id} ELSE rooms
      /\ equip' = IF item.table = "equip" THEN WithRow(equip, item.row) ELSE equip
      /\ boot' = [pc |-> IF k = Len(Bootstrap) THEN "serving" ELSE "insert", done |-> k]
  BY <1>0 DEF BootstrapStep
<1>2. /\ boot.done \in Nat /\ boot.done < Len(Bootstrap) /\ Len(Bootstrap) \in Nat
      /\ Done(boot.done) /\ Quiet /\ OnlyLookNamed(things) /\ Apart(things)
  BY <1>1, BootstrapItems DEF IInv, BootOK, OnlyLookNamed, Apart
<1>3. k \in 1..Len(Bootstrap) /\ k - 1 = boot.done /\ k \in 0..Len(Bootstrap)
      /\ (k = Len(Bootstrap) \/ k < Len(Bootstrap)) /\ k # 0
  BY <1>0, <1>2
<1>4. Shape(k)
  BY <1>3, ItemShape
<1>5. CallsOK' /\ ForksOK' /\ SyncOK' /\ Quiet'
  <2>1. Quiet'
    BY <1>1, <1>2 DEF Quiet
  <2>2. (Quiet => CallsOK /\ ForksOK /\ SyncOK)'
    BY QuietOK, PTL
  <2>3. QED
    BY <2>1, <2>2
<1>6. things \in [Ids -> Thing \cup {None}] /\ Good(things) /\ KeysOK(equip)
  BY DEF IInv, TablesOK, TableOK, Good
<1>7. /\ Good(things') /\ OnlyLookNamed(things') /\ Apart(things')
      /\ \A x \in Ids : Stored(things, x) => Stored(things', x)
      /\ item.table = "things" => Stored(things', item.id)
  <2>1. CASE item.table = "things"
    <3>1. item.id \in Ids /\ item.row \in Thing /\ ~item.row.deleted
          /\ (item.id # LookTool => item.row.name = None) /\ item.row.parent \notin {Home, Lobby}
      BY <1>4, <2>1 DEF Shape
    <3>2. item.row.parent = None \/ Stored(things, item.row.parent)
      <4>1. CASE item.row.parent # None
        <5>1. PICK j \in 1..(k - 1) : Bootstrap[j].table = "things"
                                      /\ Bootstrap[j].id = item.row.parent
          BY <1>4, <2>1, <4>1 DEF Shape
        <5>2. QED
          BY <1>2, <1>3, <5>1 DEF Done
      <4>2. QED
        BY <4>1
    <3>3. things' = Inserted(things, item.id, item.row)
      BY <1>1, <2>1
    <3>4. /\ Good(Inserted(things, item.id, item.row))
          /\ OnlyLookNamed(Inserted(things, item.id, item.row))
          /\ Apart(Inserted(things, item.id, item.row))
          /\ \A x \in Ids : Stored(Inserted(things, item.id, item.row), x)
                              <=> Stored(things, x) \/ x = item.id
      BY <1>2, <1>6, <3>1, <3>2, PlacedGood
    <3>5. QED
      BY <3>1, <3>3, <3>4
  <2>2. CASE item.table # "things"
    BY <1>1, <1>2, <1>6, <2>2
  <2>3. QED
    BY <2>1, <2>2
<1>8. /\ rooms' \subseteq {Home, Lobby, Fork} /\ rooms \subseteq rooms'
      /\ Fork \notin rooms => Fork \notin rooms'
      /\ item.table = "rooms" => item.id \in rooms'
  <2>1. rooms \subseteq {Home, Lobby, Fork} /\ Home \in Ids /\ Lobby \in Ids /\ Fork \notin Ids
    BY FixedIds DEF IInv, TablesOK
  <2>2. QED
    BY <1>1, <1>4, <2>1 DEF Shape
<1>9. KeysOK(equip') /\ (NoneEquipped(Fork) => NoneEquipped(Fork)')
  <2>1. CASE item.table = "equip"
    <3>1. item.row \in Equipped /\ ~item.row.deleted /\ item.row.ctx = Lobby
      BY <1>4, <2>1 DEF Shape
    <3>2. /\ KeysOK(WithRow(equip, item.row))
          /\ \A i \in LiveRows(WithRow(equip, item.row)) :
               \/ WithRow(equip, item.row)[i].ctx = item.row.ctx
               \/ i \in LiveRows(equip) /\ WithRow(equip, item.row)[i] = equip[i]
      BY <1>6, <3>1, EquipGood
    <3>3. Lobby # Fork
      BY FixedIds
    <3>4. QED
      BY <1>1, <2>1, <3>1, <3>2, <3>3 DEF NoneEquipped
  <2>2. CASE item.table # "equip"
    BY <1>1, <1>6, <2>2 DEF NoneEquipped
  <2>3. QED
    BY <2>1, <2>2
<1>10. TablesOK'
  BY <1>1, <1>7, <1>8, <1>9 DEF TablesOK, Good, IInv
<1>11. Done(k)'
  <2>1. ASSUME NEW j \in 1..k
        PROVE  /\ Bootstrap[j].table = "things" => Stored(things', Bootstrap[j].id)
               /\ Bootstrap[j].table = "rooms" => Bootstrap[j].id \in rooms'
    <3>1. CASE j = k
      BY <1>7, <1>8, <3>1
    <3>2. CASE j # k
      <4>1. j \in 1..boot.done
        BY <1>2, <1>3, <3>2
      <4>2. /\ Bootstrap[j].table = "things" => Stored(things, Bootstrap[j].id)
            /\ Bootstrap[j].table = "rooms" => Bootstrap[j].id \in rooms
        BY <1>2, <4>1 DEF Done
      <4>3. QED
        BY <1>6, <1>7, <1>8, <4>2, StoredTyped
    <3>3. QED
      BY <3>1, <3>2
  <2>2. QED
    BY <2>1 DEF Done
<1>12. Stored(things', World)
  <2>1. 1 \in 1..k /\ Bootstrap[1].table = "things" /\ Bootstrap[1].id = World
    BY <1>3, ItemShape
  <2>2. QED
    BY <1>11, <2>1 DEF Done
<1>13. BootOK'
  <2>1. /\ boot' \in [pc : {"check", "insert", "serving"}, done : 0..Len(Bootstrap)]
        /\ boot'.done = k /\ boot'.pc = IF k = Len(Bootstrap) THEN "serving" ELSE "insert"
    BY <1>1, <1>3
  <2>2. connected' = {}
    BY <1>5 DEF Quiet
  <2>3. torn' \in BOOLEAN
    BY <1>1 DEF IInv, BootOK
  <2>4. \A id \in Ids \ {LookTool} : Stored(things', id) => things'[id].name = None
    BY <1>7 DEF OnlyLookNamed
  <2>5. \A id \in Ids : Stored(things', id) => things'[id].parent \notin {Home, Lobby}
    BY <1>7 DEF Apart
  <2>6. QED
    BY <1>3, <1>5, <1>11, <1>12, <2>1, <2>2, <2>3, <2>4, <2>5 DEF BootOK
<1>14. QED
  BY <1>5, <1>10, <1>13 DEF IInv

-----------------------------------------------------------------------------
(* Sessions and commands on things                                         *)

\* One row is changed, of a name that does not count or in what does not.
LEMMA OneKept ==
  ASSUME NEW t, NEW u, NEW id, NEW names, \A x \in Ids \ {id} : u[x] = t[x] /\ (Stored(u, x) <=> Stored(t, x)),
         \/ /\ Stored(t, id) => t[id].name \notin names
            /\ Stored(u, id) => u[id].name \notin names
         \/ /\ Stored(t, id) /\ Stored(u, id) /\ u[id].name = t[id].name
            /\ u[id].deleted = t[id].deleted /\ u[id].available = t[id].available
            /\ u[id].version = t[id].version
  PROVE  NamesKept(t, u, names)
<1>1. ASSUME NEW x \in Ids, NEW name \in names
      PROVE  /\ Live(t, x) /\ t[x].name = name <=> Live(u, x) /\ u[x].name = name
             /\ Live(t, x) /\ t[x].name = name =>
                  t[x].available = u[x].available /\ t[x].version = u[x].version
  <2>1. CASE x = id
    BY <2>1 DEF Live
  <2>2. CASE x # id
    BY <2>2 DEF Live
  <2>3. QED
    BY <2>1, <2>2
<1>2. QED
  BY <1>1 DEF NamesKept

\* A step that changes things only.
LEMMA ThingsStep ==
  ASSUME IInv, Serving, NEW c \in Clients, NEW r \in Calls, r.pc \notin {"source", "fork"},
         call' = [call EXCEPT ![c] = r], CallOK(r, things'),
         Good(things'), Extends(things, things'),
         UNCHANGED <<rooms, equip, handled, boot, torn, sync>>,
         \/ connected' = connected
         \/ connected' \subseteq Clients /\ (~torn => Stored(things', Agent)),
         touched \subseteq touched', NamesKept(things, things', McpNames \ touched')
  PROVE  IInv'
<1>1. KeysOK(equip') /\ ForkKept /\ rooms' = rooms
  BY ForkItself DEF IInv, TablesOK
<1>2. QED
  BY <1>1, CommandStep

LEMMA FreeServes ==
  ASSUME IInv, NEW c \in Clients, Free(c)
  PROVE  Serving /\ call[c] \in Calls
BY BusyServes DEF Free, IInv, CallsOK

LEMMA AtServes ==
  ASSUME IInv, NEW c \in Clients, NEW pc, pc # "idle", At(c, pc)
  PROVE  Serving /\ call[c] \in Calls /\ CallOK(call[c], things) /\ call[c].pc = pc
BY BusyServes DEF At, IInv, CallsOK

LEMMA InitSessionOK == ASSUME IInv, NEW c \in Clients, InitSession(c) PROVE IInv'
<1>1. Serving /\ At(c, "idle") /\ UNCHANGED <<things, rooms, equip, handled, boot, sync, touched, torn>>
  BY DEF InitSession, Storage
<1>2. CASE Stored(things, Agent)
  <2>1. connected' = connected \cup {c} /\ call' = call
    BY <1>2 DEF InitSession
  <2>2. call[c] \in Calls /\ CallOK(call[c], things) /\ call[c].pc = "idle"
        /\ call' = [call EXCEPT ![c] = call[c]]
    BY <1>1, <2>1 DEF IInv, CallsOK, At
  <2>3. connected' \subseteq Clients
    BY <2>1 DEF IInv, BootOK
  <2>4. Good(things') /\ CallOK(call[c], things') /\ Stored(things', Agent)
    BY <1>1, <1>2, <2>2 DEF IInv, TablesOK, Good
  <2>5. Extends(things, things') /\ NamesKept(things, things', McpNames \ touched')
    BY <1>1, Itself
  <2>6. QED
    BY <1>1, <2>2, <2>3, <2>4, <2>5, ThingsStep
<1>3. CASE ~Stored(things, Agent)
  <2> DEFINE r == [Idle EXCEPT !.pc = "ensure"]
  <2>1. connected' = connected /\ call' = [call EXCEPT ![c] = r]
    BY <1>3 DEF InitSession, Becomes
  <2>2. r \in Calls /\ CallOK(r, things) /\ r.pc \notin {"source", "fork"}
    BY DEF Idle, Calls, Slots, CallOK, Reads
  <2> HIDE DEF r
  <2>3. QED
    BY <1>1, <2>1, <2>2, ReadStep
<1>4. QED
  BY <1>2, <1>3

LEMMA ContainersStored ==
  ASSUME IInv, Serving, ~torn
  PROVE  \A id \in {World, Rooms, Internal, Agents, Mcps, Home, Lobby, LookTool} :
           Stored(things, id) /\ {Home, Lobby} \subseteq rooms
<1> DEFINE n == Len(Containers)
<1>1. Done(Len(Bootstrap))
  BY DEF IInv, BootOK, Serving
<1>2. n \in Nat /\ Len(Bootstrap) = n + 7
  BY BootstrapItems
<1>3. \A k \in 1..(n + 7) :
        /\ Bootstrap[k].table = "things" => Stored(things, Bootstrap[k].id)
        /\ Bootstrap[k].table = "rooms" => Bootstrap[k].id \in rooms
  BY <1>1, <1>2 DEF Done
<1>4. \A id, row : /\ Insert(id, row).table = "things" /\ Insert(id, row).id = id
                   /\ RoomRow(id).table = "rooms" /\ RoomRow(id).id = id
  BY DEF Insert, RoomRow
<1>5. 1 \in 1..(n + 7) /\ n + 2 \in 1..(n + 7) /\ n + 3 \in 1..(n + 7) /\ n + 4 \in 1..(n + 7)
      /\ n + 5 \in 1..(n + 7) /\ n + 6 \in 1..(n + 7)
  BY <1>2
<1>6. /\ Bootstrap[n + 2] = Insert(Home, NewThing("room", Rooms))
      /\ Bootstrap[n + 3] = RoomRow(Home)
      /\ Bootstrap[n + 4] = Insert(Lobby, NewThing("room", Rooms))
      /\ Bootstrap[n + 5] = RoomRow(Lobby)
      /\ Bootstrap[n + 6] = Insert(LookTool, Tool(Look, Internal, 0))
  BY BootstrapItems
<1>7. Stored(things, Home) /\ Stored(things, Lobby) /\ Stored(things, LookTool)
      /\ Home \in rooms /\ Lobby \in rooms
  BY <1>3, <1>4, <1>5, <1>6
<1>8. Stored(things, World)
  BY <1>3, <1>5, ItemShape
<1>9. ASSUME NEW id \in {Rooms, Internal, Agents, Mcps} PROVE Stored(things, id)
  <2>1. DOMAIN Containers = 1..n /\ id \in {Containers[i] : i \in DOMAIN Containers}
    <3>1. DOMAIN Containers = 1..n
      BY ContainerAssumption
    <3>2. id \in {Containers[i] : i \in DOMAIN Containers}
      BY ContainerAssumption
    <3>3. QED
      BY <3>1, <3>2
  <2>2. PICK i \in 1..n : Containers[i] = id
    BY <2>1
  <2>3. 1 + i \in 1..(n + 7)
    BY <1>2
  <2>4. Bootstrap[1 + i] = Insert(Containers[i], NewThing("container", World))
    BY BootstrapItems
  <2>5. QED
    BY <1>3, <1>4, <2>2, <2>3, <2>4
<1>10. QED
  BY <1>7, <1>8, <1>9

LEMMA EnsureAgentOK == ASSUME IInv, NEW c \in Clients, EnsureAgent(c) PROVE IInv'
<1> DEFINE row == NewThing("agent", Agents)
<1>1. /\ At(c, "ensure") /\ call' = [call EXCEPT ![c] = Idle]
      /\ UNCHANGED <<rooms, equip, handled, boot, sync, touched, torn>>
      /\ things' = IF CanInsert(things, Agent, row) THEN Inserted(things, Agent, row) ELSE things
      /\ connected' = connected \cup {c}
  BY DEF EnsureAgent, Finishes, Becomes
<1>2. Serving
  BY <1>1, AtServes
<1>3. row \in Thing /\ row.name = None /\ row.parent = Agents /\ ~row.deleted
  <2>1. "agent" \in Kinds /\ Agents \in Ids \cup {None}
    BY FixedIds DEF Kinds
  <2>2. QED
    BY <2>1, NewThingTyped
<1> HIDE DEF row
<1>4. Good(things) /\ Agent \in Ids /\ connected' \subseteq Clients
  BY <1>1, FixedIds DEF IInv, TablesOK, Good, BootOK
<1>5. CASE CanInsert(things, Agent, row)
  <2>1. things' = Inserted(things, Agent, row)
    BY <1>1, <1>5
  <2>2. /\ Good(Inserted(things, Agent, row)) /\ Extends(things, Inserted(things, Agent, row))
        /\ Inserted(things, Agent, row) = [things EXCEPT ![Agent] = row]
        /\ Stored(Inserted(things, Agent, row), Agent) /\ Inserted(things, Agent, row)[Agent] = row
    BY <1>3, <1>4, <1>5, InsertGood
  <2>3. Good(things') /\ Extends(things, things') /\ Stored(things', Agent)
        /\ things'[Agent] = row
    BY <2>1, <2>2
  <2>4. things \in [Ids -> Thing \cup {None}] /\ things' \in [Ids -> Thing \cup {None}]
    BY <1>4, <2>3 DEF Good, TableOK
  <2>5. \A x \in Ids \ {Agent} : things'[x] = things[x]
    BY <2>1, <2>2, <2>4
  <2>6. ~Stored(things, Agent)
    BY <1>5 DEF CanInsert
  <2>7. NamesKept(things, things', McpNames \ touched')
    <3>1. \A x \in Ids \ {Agent} : things'[x] = things[x] /\ (Stored(things', x) <=> Stored(things, x))
      BY <2>4, <2>5 DEF Stored
    <3>2. None \notin McpNames
      BY IdAssumption
    <3>3. QED
      BY <1>3, <2>3, <2>6, <3>1, <3>2, OneKept
  <2>8. QED
    BY <1>1, <1>2, <1>4, <2>3, <2>7, IdleOK, ThingsStep
<1>6. CASE ~CanInsert(things, Agent, row)
  <2>1. things' = things
    BY <1>1, <1>6
  <2>2. ~torn => Stored(things, Agent)
    <3>1. ASSUME ~torn PROVE Stored(things, Agents)
      BY <1>2, <3>1, ContainersStored
    <3>2. QED
      BY <1>3, <1>6, <3>1 DEF CanInsert, ParentExists, NameIsFree
  <2>3. Good(things') /\ (~torn => Stored(things', Agent))
    BY <1>4, <2>1, <2>2
  <2>4. Extends(things, things') /\ NamesKept(things, things', McpNames \ touched')
    BY <2>1, Itself
  <2>5. QED
    BY <1>1, <1>2, <1>4, <2>3, <2>4, IdleOK, ThingsStep
<1>7. QED
  BY <1>5, <1>6

LEMMA ConjureOK == ASSUME IInv, NEW c \in Clients, Conjure(c) PROVE IInv'
<1>1. PICK made \in Conjured :
        LET row == [NewThing(made.kind, made.parent) EXCEPT !.name = made.name,
                                                            !.slot = made.slot]
        IN  /\ FreshIds # {} /\ CanUpsert(things, FreshId, row)
            /\ things' = Upserted(things, FreshId, row)
            /\ touched' = touched \cup {made.name}
            /\ Begins(c, Idle)
            /\ UNCHANGED <<rooms, equip, handled>>
  BY DEF Conjure
<1> DEFINE row == [NewThing(made.kind, made.parent) EXCEPT !.name = made.name, !.slot = made.slot]
<1>2. Serving
  BY FreeServes DEF Conjure
<1>3. row \in Thing /\ row.name = made.name /\ ~row.deleted /\ row.name # None
  <2>1. /\ made.kind \in Kinds /\ made.parent \in Ids /\ made.slot \in Slots
        /\ made.name \in Names \cup McpNames /\ made.name # None
    <3>1. made \in [kind : {"tool", "data"}, parent : {Agent, Lobby},
                    name : Names \cup McpNames, slot : {None, Hook}]
      BY ConjuredAssumption
    <3>2. made.kind \in {"tool", "data"} /\ made.parent \in {Agent, Lobby}
          /\ made.name \in Names \cup McpNames /\ made.slot \in {None, Hook}
      BY <3>1
    <3>3. QED
      BY <3>2, FixedIds, IdAssumption DEF Kinds, Slots
  <2>2. NewThing(made.kind, made.parent) \in Thing /\ ~NewThing(made.kind, made.parent).deleted
    BY <2>1, NewThingTyped
  <2>3. QED
    BY <2>1, <2>2 DEF Thing
<1>4. /\ FreshIds # {} /\ CanUpsert(things, FreshId, row)
      /\ things' = Upserted(things, FreshId, row)
      /\ touched' = touched \cup {row.name}
      /\ Begins(c, Idle)
      /\ UNCHANGED <<rooms, equip, handled>>
  BY <1>1, <1>3
<1> HIDE DEF row
<1>5. FreshId \in Ids \ {Agent} /\ ~Stored(things, FreshId)
  BY <1>4, FreshDrawn
<1>6. Good(things)
  BY DEF IInv, TablesOK, Good
<1>7. /\ Good(Upserted(things, FreshId, row)) /\ Extends(things, Upserted(things, FreshId, row))
      /\ \A x \in Ids : \/ Upserted(things, FreshId, row)[x] = things[x]
                        \/ /\ Stored(Upserted(things, FreshId, row), x)
                           /\ Upserted(things, FreshId, row)[x].name = row.name
                           /\ Stored(things, x) =>
                                Upserted(things, FreshId, row)[x].parent = things[x].parent
  BY <1>3, <1>4, <1>5, <1>6, UpsertGood
<1>8. Good(things') /\ Extends(things, things')
      /\ \A x \in Ids : things'[x] = things[x] \/ (Stored(things', x) /\ things'[x].name = row.name)
  BY <1>4, <1>7
<1>9. NamesKept(things, things', McpNames \ touched')
  <2>1. things \in [Ids -> Thing \cup {None}] /\ things' \in [Ids -> Thing \cup {None}]
    BY <1>6, <1>8 DEF Good, TableOK
  <2>2. ASSUME NEW x \in Ids, NEW name \in McpNames \ touched'
        PROVE  /\ Live(things, x) /\ things[x].name = name <=> Live(things', x) /\ things'[x].name = name
               /\ Live(things, x) /\ things[x].name = name =>
                    things[x].available = things'[x].available /\ things[x].version = things'[x].version
    <3>1. name # row.name
      BY <1>4
    <3>2. CASE things'[x] = things[x]
      BY <2>1, <3>2 DEF Live, Stored
    <3>3. CASE things'[x].name = row.name
      BY <1>8, <3>1, <3>3 DEF Live, Extends
    <3>4. QED
      BY <1>8, <3>2, <3>3
  <2>3. QED
    BY <2>2 DEF NamesKept
<1>10. QED
  BY <1>2, <1>4, <1>8, <1>9, IdleOK, ThingsStep DEF Begins, Becomes

LEMMA UnconjureOK == ASSUME IInv, NEW c \in Clients, Unconjure(c) PROVE IInv'
<1>1. PICK name \in Names \cup McpNames \cup {Look} :
        /\ Named(things, name) # None
        /\ Begins(c, [Idle EXCEPT !.pc = "delete", !.id = Named(things, name)])
        /\ UNCHANGED <<Storage, touched>>
  BY DEF Unconjure
<1> DEFINE r == [Idle EXCEPT !.pc = "delete", !.id = Named(things, name)]
<1>2. Serving
  BY FreeServes DEF Unconjure
<1>3. things \in [Ids -> Thing \cup {None}] /\ name # None
  BY IdAssumption DEF IInv, TablesOK, TableOK
<1>4. /\ Named(things, name) \in Ids /\ Stored(things, Named(things, name))
      /\ things[Named(things, name)].name # None
  BY <1>1, <1>3, NamedFinds DEF Live
<1>5. r \in Calls /\ CallOK(r, things) /\ r.pc \notin {"source", "fork"}
  BY <1>4 DEF Idle, Calls, Slots, CallOK, Reads
<1>6. call' = [call EXCEPT ![c] = r] /\ UNCHANGED <<boot, connected, sync, torn>>
      /\ UNCHANGED <<things, rooms, equip, handled, touched>>
  BY <1>1 DEF Begins, Becomes, Storage
<1> HIDE DEF r
<1>7. QED
  BY <1>2, <1>5, <1>6, ReadStep

LEMMA DestroyOK == ASSUME IInv, NEW c \in Clients, Destroy(c) PROVE IInv'
<1>1. PICK id \in Children(things, Agent) \cup Children(things, Lobby) :
        /\ things[id].name # None
        /\ Begins(c, [Idle EXCEPT !.pc = "lookup", !.name = things[id].name])
        /\ UNCHANGED <<Storage, touched>>
  BY DEF Destroy
<1> DEFINE r == [Idle EXCEPT !.pc = "lookup", !.name = things[id].name]
<1>2. Serving
  BY FreeServes DEF Destroy
<1>3. things \in [Ids -> Thing \cup {None}]
  BY DEF IInv, TablesOK, TableOK
<1>4. Stored(things, id)
  BY DEF Children, LiveIds, Live
<1>5. things[id] \in Thing
  BY <1>3, <1>4, StoredTyped
<1>6. things[id].name \in Names \cup McpNames \cup {Look, None}
  BY <1>5 DEF Thing
<1>7. r \in Calls /\ CallOK(r, things) /\ r.pc \notin {"source", "fork"}
  BY <1>1, <1>6 DEF Idle, Calls, Slots, CallOK, Reads
<1>8. call' = [call EXCEPT ![c] = r] /\ UNCHANGED <<boot, connected, sync, torn>>
      /\ UNCHANGED <<things, rooms, equip, handled, touched>>
  BY <1>1 DEF Begins, Becomes, Storage
<1> HIDE DEF r
<1>9. QED
  BY <1>2, <1>7, <1>8, ReadStep

LEMMA LookupOK == ASSUME IInv, NEW c \in Clients, Lookup(c) PROVE IInv'
<1> DEFINE id == Named(things, call[c].name)
           r == IF id = None THEN Idle ELSE [Idle EXCEPT !.pc = "delete", !.id = id]
<1>1. /\ At(c, "lookup") /\ call' = [call EXCEPT ![c] = r]
      /\ UNCHANGED <<boot, connected, sync, count, torn>>
      /\ UNCHANGED <<things, rooms, equip, handled, touched>>
  BY DEF Lookup, Becomes, Continues, Storage
<1>2. Serving /\ CallOK(call[c], things) /\ call[c].pc = "lookup"
  BY <1>1, AtServes
<1>3. things \in [Ids -> Thing \cup {None}] /\ call[c].name # None
  BY <1>2 DEF IInv, TablesOK, TableOK, CallOK
<1>4. id # None => id \in Ids /\ Stored(things, id) /\ things[id].name # None
  BY <1>3, NamedFinds DEF Live
<1> HIDE DEF id
<1>5. r \in Calls /\ CallOK(r, things) /\ r.pc \notin {"source", "fork"}
  <2>1. CASE id = None
    BY <2>1, IdleOK
  <2>2. CASE id # None
    BY <1>4, <2>2 DEF Idle, Calls, Slots, CallOK, Reads
  <2>3. QED
    BY <2>1, <2>2
<1> HIDE DEF r
<1>6. QED
  BY <1>1, <1>2, <1>5, ReadStep

LEMMA DeleteOK == ASSUME IInv, NEW c \in Clients, Delete(c) PROVE IInv'
<1>1. /\ At(c, "delete") /\ call' = [call EXCEPT ![c] = Idle]
      /\ things' = SoftDeleted(things, call[c].id)
      /\ touched' = touched \cup {things[call[c].id].name}
      /\ UNCHANGED <<boot, connected, sync, count, torn, rooms, equip, handled>>
  BY DEF Delete, Finishes, Becomes, Continues
<1>2. Serving /\ CallOK(call[c], things) /\ call[c].pc = "delete"
  BY <1>1, AtServes
<1>3. Stored(things, call[c].id) /\ things[call[c].id].name # None /\ Good(things)
  BY <1>2 DEF CallOK, Reads, IInv, TablesOK, Good
<1>4. /\ Good(SoftDeleted(things, call[c].id))
      /\ Extends(things, SoftDeleted(things, call[c].id))
      /\ \A x \in Ids \ {call[c].id} : SoftDeleted(things, call[c].id)[x] = things[x]
  BY <1>3, SoftDeletedGood
<1>5. things \in [Ids -> Thing \cup {None}] /\ things' \in [Ids -> Thing \cup {None}]
  BY <1>1, <1>3, <1>4 DEF Good, TableOK
<1>6. Stored(things', call[c].id) /\ things'[call[c].id].name = things[call[c].id].name
  BY <1>1, <1>3, <1>4, <1>5, ExtendsStored
<1>7. NamesKept(things, things', McpNames \ touched')
  <2>1. \A x \in Ids \ {call[c].id} :
          things'[x] = things[x] /\ (Stored(things', x) <=> Stored(things, x))
    BY <1>1, <1>4, <1>5 DEF Stored
  <2>2. things[call[c].id].name \notin McpNames \ touched'
    BY <1>1
  <2>3. QED
    BY <1>6, <2>1, <2>2, OneKept
<1>8. QED
  BY <1>1, <1>2, <1>4, <1>7, IdleOK, ThingsStep

LEMMA TakeOK == ASSUME IInv, NEW c \in Clients, Take(c) PROVE IInv'
<1>1. PICK id \in Matching(things, Names \cup McpNames) :
        Begins(c, [Idle EXCEPT !.pc = "read", !.id = id]) /\ UNCHANGED <<Storage, touched>>
  BY DEF Take
<1> DEFINE r == [Idle EXCEPT !.pc = "read", !.id = id]
<1>2. Serving
  BY FreeServes DEF Take
<1>3. id \in Ids /\ Stored(things, id)
  BY DEF Matching, LiveIds, Live, IInv, TablesOK, TableOK
<1>4. r \in Calls /\ CallOK(r, things) /\ r.pc \notin {"source", "fork"}
  BY <1>3 DEF Idle, Calls, Slots, CallOK, Reads
<1>5. call' = [call EXCEPT ![c] = r] /\ UNCHANGED <<boot, connected, sync, torn>>
      /\ UNCHANGED <<things, rooms, equip, handled, touched>>
  BY <1>1 DEF Begins, Becomes, Storage
<1> HIDE DEF r
<1>6. QED
  BY <1>2, <1>4, <1>5, ReadStep

LEMMA ReadOriginalOK == ASSUME IInv, NEW c \in Clients, ReadOriginal(c) PROVE IInv'
<1> DEFINE r == [call[c] EXCEPT !.pc = "copy", !.row = things[call[c].id]]
<1>1. /\ At(c, "read") /\ call' = [call EXCEPT ![c] = r]
      /\ UNCHANGED <<boot, connected, sync, count, torn>>
      /\ UNCHANGED <<things, rooms, equip, handled, touched>>
  BY DEF ReadOriginal, Becomes, Continues, Storage
<1>2. Serving /\ call[c] \in Calls /\ CallOK(call[c], things) /\ call[c].pc = "read"
  BY <1>1, AtServes
<1>3. Stored(things, call[c].id) /\ things[call[c].id] \in Thing
  BY <1>2, StoredTyped DEF CallOK, Reads, IInv, TablesOK, TableOK
<1>4. r \in Calls
  BY <1>2, <1>3 DEF Calls
<1>5. r.pc = "copy" /\ r.id = call[c].id /\ r.row = things[call[c].id]
  BY <1>2 DEF Calls
<1> HIDE DEF r
<1>6. CallOK(r, things)
  BY <1>3, <1>5 DEF CallOK, Reads
<1>7. QED
  BY <1>1, <1>2, <1>4, <1>5, <1>6, ReadStep

LEMMA InsertCopyOK == ASSUME IInv, NEW c \in Clients, InsertCopy(c) PROVE IInv'
<1> DEFINE row == CopyOf(call[c].row, call[c].id, Agent)
<1>1. /\ At(c, "copy") /\ FreshIds # {} /\ call' = [call EXCEPT ![c] = Idle]
      /\ UNCHANGED <<boot, connected, sync, count, torn>>
      /\ UNCHANGED <<rooms, equip, handled, touched>>
      /\ things' = IF CanInsert(things, FreshId, row)
                   THEN Inserted(things, FreshId, row) ELSE things
  BY DEF InsertCopy, Finishes, Becomes, Continues
<1>2. Serving /\ CallOK(call[c], things) /\ call[c].pc = "copy"
  BY <1>1, AtServes
<1>3. Good(things) /\ FreshId \in Ids \ {Agent} /\ ~Stored(things, FreshId)
  BY <1>1, FreshDrawn DEF IInv, TablesOK, Good
<1>4. row \in Thing /\ row.name = None /\ ~row.deleted
  <2>1. call[c].row \in Thing /\ call[c].id \in Ids /\ Agent \in Ids
    BY <1>2, FixedIds, StoredTyped DEF CallOK, Reads, IInv, TablesOK, TableOK
  <2>2. QED
    BY <2>1 DEF CopyOf, Thing
<1> HIDE DEF row
<1>5. CASE CanInsert(things, FreshId, row)
  <2>1. /\ Good(Inserted(things, FreshId, row)) /\ Extends(things, Inserted(things, FreshId, row))
        /\ Inserted(things, FreshId, row) = [things EXCEPT ![FreshId] = row]
        /\ Stored(Inserted(things, FreshId, row), FreshId)
        /\ Inserted(things, FreshId, row)[FreshId] = row
    BY <1>3, <1>4, <1>5, InsertGood
  <2>2. Good(things') /\ Extends(things, things') /\ things' = [things EXCEPT ![FreshId] = row]
        /\ things'[FreshId] = row
    BY <1>1, <1>5, <2>1
  <2>3. things \in [Ids -> Thing \cup {None}] /\ things' \in [Ids -> Thing \cup {None}]
    BY <1>3, <2>2 DEF Good, TableOK
  <2>4. \A x \in Ids \ {FreshId} :
          things'[x] = things[x] /\ (Stored(things', x) <=> Stored(things, x))
    BY <2>2, <2>3 DEF Stored
  <2>5. None \notin McpNames
    BY IdAssumption
  <2>6. NamesKept(things, things', McpNames \ touched')
    BY <1>3, <1>4, <2>2, <2>4, <2>5, OneKept
  <2>7. QED
    BY <1>1, <1>2, <2>2, <2>6, IdleOK, ThingsStep
<1>6. CASE ~CanInsert(things, FreshId, row)
  <2>1. UNCHANGED <<things, rooms, equip, handled, boot, torn, sync, connected, touched>>
    BY <1>1, <1>6
  <2>2. QED
    BY <1>1, <1>2, <2>1, IdleOK, ReadStep
<1>7. QED
  BY <1>5, <1>6

LEMMA DropOK == ASSUME IInv, NEW c \in Clients, Drop(c) PROVE IInv'
<1>1. PICK id \in Children(things, Agent), room \in rooms :
        Begins(c, [Idle EXCEPT !.pc = "move", !.id = id, !.ctx = room])
        /\ UNCHANGED <<Storage, touched>>
  BY DEF Drop
<1> DEFINE r == [Idle EXCEPT !.pc = "move", !.id = id, !.ctx = room]
<1>2. Serving
  BY FreeServes DEF Drop
<1>3. id \in Ids /\ Stored(things, id)
  BY DEF Children, LiveIds, Live, IInv, TablesOK, TableOK
<1>4. room \in {Home, Lobby, Fork} /\ room \in Ids \cup {None, Fork}
  BY FixedIds DEF IInv, TablesOK
<1>5. r \in Calls /\ CallOK(r, things) /\ r.pc \notin {"source", "fork"}
  BY <1>3, <1>4 DEF Idle, Calls, Slots, CallOK, Reads
<1>6. call' = [call EXCEPT ![c] = r] /\ UNCHANGED <<boot, connected, sync, torn>>
      /\ UNCHANGED <<things, rooms, equip, handled, touched>>
  BY <1>1 DEF Begins, Becomes, Storage
<1> HIDE DEF r
<1>7. QED
  BY <1>2, <1>5, <1>6, ReadStep

LEMMA MoveOK == ASSUME IInv, NEW c \in Clients, Move(c) PROVE IInv'
<1>1. /\ At(c, "move") /\ call' = [call EXCEPT ![c] = Idle]
      /\ UNCHANGED <<boot, connected, sync, count, torn>>
      /\ UNCHANGED <<rooms, equip, handled, touched>>
      /\ things' = IF CanMove(things, call[c].ctx)
                   THEN Moved(things, call[c].id, call[c].ctx) ELSE things
  BY DEF Move, Finishes, Becomes, Continues
<1>2. Serving /\ CallOK(call[c], things) /\ call[c].pc = "move"
  BY <1>1, AtServes
<1>3. Good(things) /\ Stored(things, call[c].id)
  BY <1>2 DEF IInv, TablesOK, Good, CallOK, Reads
<1>4. CASE CanMove(things, call[c].ctx)
  <2> DEFINE u == Moved(things, call[c].id, call[c].ctx)
  <2>1. Stored(things, call[c].ctx)
    BY <1>4 DEF CanMove
  <2>2. /\ Good(u) /\ Extends(things, u) /\ \A x \in Ids \ {call[c].id} : u[x] = things[x]
        /\ call[c].id \in Ids /\ u[call[c].id] = [things[call[c].id] EXCEPT !.parent = call[c].ctx]
        /\ things[call[c].id] \in Thing
    BY <1>3, <2>1, MovedGood
  <2>3. things' = u
    BY <1>1, <1>4
  <2> HIDE DEF u
  <2>4. things \in [Ids -> Thing \cup {None}] /\ things' \in [Ids -> Thing \cup {None}]
    BY <1>3, <2>2, <2>3 DEF Good, TableOK
  <2>5. Stored(things', call[c].id) /\ things'[call[c].id].name = things[call[c].id].name
    BY <1>3, <2>2, <2>3, <2>4, ExtendsStored
  <2>6. /\ things'[call[c].id].deleted = things[call[c].id].deleted
        /\ things'[call[c].id].available = things[call[c].id].available
        /\ things'[call[c].id].version = things[call[c].id].version
    BY <2>2, <2>3 DEF Thing
  <2>7. \A x \in Ids \ {call[c].id} :
          things'[x] = things[x] /\ (Stored(things', x) <=> Stored(things, x))
    BY <2>2, <2>3, <2>4 DEF Stored
  <2>8. NamesKept(things, things', McpNames \ touched')
    BY <1>3, <2>5, <2>6, <2>7, OneKept
  <2>9. QED
    BY <1>1, <1>2, <2>2, <2>3, <2>8, IdleOK, ThingsStep
<1>5. CASE ~CanMove(things, call[c].ctx)
  <2>1. UNCHANGED <<things, rooms, equip, handled, boot, torn, sync, connected, touched>>
    BY <1>1, <1>5
  <2>2. QED
    BY <1>1, <1>2, <2>1, IdleOK, ReadStep
<1>6. QED
  BY <1>4, <1>5

-----------------------------------------------------------------------------
(* Commands on equipment                                                   *)

\* A row is written in another context, or under a key that counts as handled.
LEMMA EquipKeeps ==
  ASSUME NEW e, KeysOK(e), HasRoom(e), NEW r \in Equipped, ~r.deleted,
         NEW keys, r.ctx = Fork => KeyOf(r) \in keys
  PROVE  KeysOK(WithRow(e, r)) /\ SameFork(e, WithRow(e, r), keys)
<1> DEFINE w == WithRow(e, r)
<1>1. /\ KeysOK(w)
      /\ \A i \in LiveRows(w) : \/ w[i].ctx = r.ctx /\ KeyOf(w[i]) = KeyOf(r)
                                \/ i \in LiveRows(e) /\ w[i] = e[i]
      /\ \A i \in LiveRows(e) : e[i].ctx # r.ctx \/ KeyOf(e[i]) # KeyOf(r) =>
           i \in LiveRows(w) /\ w[i] = e[i]
  BY EquipGood
<1> HIDE DEF w
<1>2. ASSUME NEW key \in Keys \ keys
      PROVE  Under(w, key) = Under(e, key) /\ \A i \in Under(e, key) : w[i] = e[i]
  <2>1. \A i \in Under(w, key) : i \in Under(e, key)
    BY <1>1 DEF Under
  <2>2. \A i \in Under(e, key) : i \in Under(w, key) /\ w[i] = e[i]
    BY <1>1 DEF Under
  <2>3. QED
    BY <2>1, <2>2
<1>3. SameFork(e, w, keys)
  BY <1>2 DEF SameFork
<1>4. QED
  BY <1>1, <1>3 DEF w

LEMMA UnequipKeeps ==
  ASSUME NEW e, KeysOK(e), NEW ctx, NEW thing, NEW slot,
         NEW keys, ctx = Fork => <<thing, slot>> \in keys
  PROVE  /\ KeysOK(WithoutRow(e, ctx, thing, slot))
         /\ SameFork(e, WithoutRow(e, ctx, thing, slot), keys)
<1> DEFINE w == WithoutRow(e, ctx, thing, slot)
<1>1. /\ KeysOK(w)
      /\ \A i \in LiveRows(w) : i \in LiveRows(e) /\ w[i] = e[i]
      /\ \A i \in LiveRows(e) : e[i].ctx # ctx \/ KeyOf(e[i]) # <<thing, slot>> =>
           i \in LiveRows(w) /\ w[i] = e[i]
  BY UnequipGood
<1> HIDE DEF w
<1>2. ASSUME NEW key \in Keys \ keys
      PROVE  Under(w, key) = Under(e, key) /\ \A i \in Under(e, key) : w[i] = e[i]
  <2>1. \A i \in Under(w, key) : i \in Under(e, key)
    BY <1>1 DEF Under
  <2>2. \A i \in Under(e, key) : i \in Under(w, key) /\ w[i] = e[i]
    BY <1>1 DEF Under
  <2>3. QED
    BY <2>1, <2>2
<1>3. SameFork(e, w, keys)
  BY <1>2 DEF SameFork
<1>4. QED
  BY <1>1, <1>3 DEF w

\* What a command handles in the new room
LEMMA HandlesKeys ==
  ASSUME IInv, NEW ctx, NEW id \in Ids, NEW slot \in Slots, Handles(ctx, id, slot)
  PROVE  /\ handled \subseteq handled' /\ handled' \subseteq Keys
         /\ ctx = Fork => <<id, slot>> \in handled'
<1>1. handled \subseteq Keys /\ <<id, slot>> \in Keys
  BY DEF IInv, TablesOK, Keys
<1>2. QED
  BY <1>1 DEF Handles

\* A step that changes equipment only.
LEMMA EquipmentStep ==
  ASSUME IInv, Serving, NEW c \in Clients, NEW r \in Calls, r.pc \notin {"source", "fork"},
         call' = [call EXCEPT ![c] = r], CallOK(r, things), KeysOK(equip'), ForkKept,
         UNCHANGED <<things, rooms, boot, torn, sync, connected, touched>>
  PROVE  IInv'
<1>1. Good(things') /\ CallOK(r, things')
  BY DEF IInv, TablesOK, Good
<1>2. Extends(things, things') /\ NamesKept(things, things', McpNames \ touched')
  BY Itself
<1>3. QED
  BY <1>1, <1>2, CommandStep

\* A row is equipped.
LEMMA EquippedKept ==
  ASSUME IInv, HasRoom(equip), NEW ctx \in {Home, Lobby, Fork, Agent}, NEW id \in Ids,
         NEW slot \in Slots, NEW n \in Nat, CanEquip(ctx, id), Handles(ctx, id, slot),
         equip' = WithRow(equip, EquipRow(ctx, id, slot, n))
  PROVE  KeysOK(equip') /\ ForkKept
<1> DEFINE row == EquipRow(ctx, id, slot, n)
<1>1. row \in Equipped /\ ~row.deleted
  BY RowTyped
<1>2. row.ctx = ctx /\ KeyOf(row) = <<id, slot>>
  BY DEF EquipRow, KeyOf
<1>3. KeysOK(equip) /\ (Fork \notin rooms => NoneEquipped(Fork) /\ ctx # Fork)
  BY FixedIds DEF IInv, TablesOK, CanEquip, Contexts
<1>4. /\ handled \subseteq handled' /\ handled' \subseteq Keys
      /\ ctx = Fork => <<id, slot>> \in handled'
  BY HandlesKeys
<1> HIDE DEF row
<1>5. KeysOK(WithRow(equip, row)) /\ SameFork(equip, WithRow(equip, row), handled')
  BY <1>1, <1>2, <1>3, <1>4, EquipKeeps
<1>6. \A i \in LiveRows(WithRow(equip, row)) :
        \/ WithRow(equip, row)[i].ctx = ctx
        \/ i \in LiveRows(equip) /\ WithRow(equip, row)[i] = equip[i]
  BY <1>1, <1>2, <1>3, EquipGood
<1>7. equip' = WithRow(equip, row)
  BY DEF row
<1>8. Fork \notin rooms => NoneEquipped(Fork)'
  BY <1>3, <1>6, <1>7 DEF NoneEquipped
<1>9. QED
  BY <1>4, <1>5, <1>7, <1>8 DEF ForkKept

LEMMA UnequippedKept ==
  ASSUME IInv, NEW ctx, NEW id \in Ids, NEW slot \in Slots, Handles(ctx, id, slot),
         equip' = WithoutRow(equip, ctx, id, slot)
  PROVE  KeysOK(equip') /\ ForkKept
<1>1. KeysOK(equip) /\ (Fork \notin rooms => NoneEquipped(Fork))
  BY DEF IInv, TablesOK
<1>2. /\ handled \subseteq handled' /\ handled' \subseteq Keys
      /\ ctx = Fork => <<id, slot>> \in handled'
  BY HandlesKeys
<1>3. KeysOK(equip') /\ SameFork(equip, equip', handled')
  BY <1>1, <1>2, UnequipKeeps
<1>4. \A i \in LiveRows(equip') : i \in LiveRows(equip) /\ equip'[i] = equip[i]
  BY <1>1, UnequipGood
<1>5. Fork \notin rooms => NoneEquipped(Fork)'
  BY <1>1, <1>4 DEF NoneEquipped
<1>6. QED
  BY <1>2, <1>3, <1>5 DEF ForkKept

LEMMA ContextTyped ==
  ASSUME IInv, NEW ctx \in Contexts
  PROVE  /\ ctx \in {Home, Lobby, Fork, Agent} /\ ctx \in Ids \cup {None, Fork}
         /\ ctx \in rooms => ctx \in {Home, Lobby, Fork}
BY FixedIds DEF IInv, TablesOK, Contexts

LEMMA EquipOK == ASSUME IInv, NEW c \in Clients, Equip(c) PROVE IInv'
<1>1. PICK ctx \in Contexts, slot \in Slots, names \in Patterns :
        /\ Begins(c, [Idle EXCEPT !.pc = "equip", !.ctx = ctx, !.todo =
             {[thing |-> id, slot |-> IF slot = None THEN things[id].slot ELSE slot] :
                id \in Matching(things, names)}])
        /\ UNCHANGED <<Storage, touched>>
  BY DEF Equip
<1> DEFINE item(id) == [thing |-> id, slot |-> IF slot = None THEN things[id].slot ELSE slot]
           todo == {item(id) : id \in Matching(things, names)}
           r == [Idle EXCEPT !.pc = "equip", !.ctx = ctx, !.todo = todo]
<1>2. Serving
  BY FreeServes DEF Equip
<1>3. todo \subseteq EquipItem
  <2>1. ASSUME NEW id \in Matching(things, names) PROVE item(id) \in EquipItem
    <3>1. things \in [Ids -> Thing \cup {None}]
      BY DEF IInv, TablesOK, TableOK
    <3>2. id \in Ids /\ Stored(things, id)
      BY <3>1 DEF Matching, LiveIds, Live
    <3>3. things[id] \in Thing
      BY <3>1, <3>2, StoredTyped
    <3>4. things[id].slot \in Slots
      BY <3>3 DEF Thing
    <3>5. QED
      BY <3>2, <3>4 DEF EquipItem
  <2>2. QED
    BY <2>1
<1>4. call' = [call EXCEPT ![c] = r] /\ UNCHANGED <<boot, connected, sync, torn>>
      /\ UNCHANGED <<things, rooms, equip, handled, touched>>
  BY <1>1 DEF Begins, Becomes, Storage
<1> HIDE DEF todo
<1>5. ctx \in {Home, Lobby, Fork, Agent} /\ ctx \in Ids \cup {None, Fork}
  BY ContextTyped
<1>6. r \in Calls /\ CallOK(r, things) /\ r.pc \notin {"source", "fork"}
  BY <1>3, <1>5 DEF Idle, Calls, Slots, CallOK, Reads
<1> HIDE DEF r
<1>7. QED
  BY <1>2, <1>4, <1>6, ReadStep

LEMMA EquipOneOK == ASSUME IInv, NEW c \in Clients, EquipOne(c) PROVE IInv'
<1>1. /\ At(c, "equip") /\ HasRoom(equip)
      /\ UNCHANGED <<boot, connected, sync, count, torn>> /\ UNCHANGED <<things, rooms, touched>>
  BY DEF EquipOne, Continues
<1>2. PICK item \in call[c].todo :
        IF CanEquip(call[c].ctx, item.thing)
        THEN /\ equip' = WithRow(equip, EquipRow(call[c].ctx, item.thing, item.slot,
                                                 call[c].done + 1))
             /\ Handles(call[c].ctx, item.thing, item.slot)
             /\ Becomes(c, IF call[c].todo \ {item} = {} THEN Idle
                           ELSE [call[c] EXCEPT !.todo = call[c].todo \ {item},
                                                !.done = call[c].done + 1])
        ELSE Finishes(c) /\ UNCHANGED <<equip, handled>>
  BY DEF EquipOne
<1> DEFINE row == EquipRow(call[c].ctx, item.thing, item.slot, call[c].done + 1)
           left == call[c].todo \ {item}
           next == [call[c] EXCEPT !.todo = left, !.done = call[c].done + 1]
           r == IF left = {} THEN Idle ELSE next
<1>3. Serving /\ call[c] \in Calls /\ CallOK(call[c], things) /\ call[c].pc = "equip"
  BY <1>1, AtServes
<1>4. /\ call[c].todo \subseteq EquipItem /\ call[c].ctx \in {Home, Lobby, Fork, Agent}
      /\ call[c].done + 1 \in Nat
  BY <1>3 DEF CallOK, Calls
<1>5. CASE CanEquip(call[c].ctx, item.thing)
  <2>1. item.thing \in Ids /\ item.slot \in Slots
    BY <1>4 DEF EquipItem
  <2>3. equip' = WithRow(equip, row) /\ call' = [call EXCEPT ![c] = r]
        /\ Handles(call[c].ctx, item.thing, item.slot)
    BY <1>2, <1>5 DEF Becomes
  <2>4. KeysOK(equip') /\ ForkKept
    BY <1>1, <1>4, <1>5, <2>1, <2>3, EquippedKept
  <2>5. next \in Calls /\ CallOK(next, things) /\ next.pc = "equip"
    <3>1. left \subseteq EquipItem /\ left \in SUBSET (Ids \cup EquipItem \cup CopyItem)
      BY <1>4
    <3> HIDE DEF left
    <3>2. next \in Calls
      BY <1>3, <1>4, <3>1 DEF Calls
    <3>3. next.pc = "equip" /\ next.ctx = call[c].ctx /\ next.todo = left
      BY <1>3 DEF Calls
    <3> HIDE DEF next
    <3>4. QED
      BY <1>4, <3>1, <3>2, <3>3 DEF CallOK, Reads
  <2>6. r \in Calls /\ CallOK(r, things) /\ r.pc \notin {"source", "fork"}
    <3> HIDE DEF next, left
    <3>1. CASE left = {}
      BY <3>1, IdleOK
    <3>2. CASE left # {}
      BY <2>5, <3>2
    <3>3. QED
      BY <3>1, <3>2
  <2> HIDE DEF r
  <2>7. QED
    BY <1>1, <1>3, <2>3, <2>4, <2>6, EquipmentStep
<1>6. CASE ~CanEquip(call[c].ctx, item.thing)
  <2>1. UNCHANGED <<equip, handled>> /\ call' = [call EXCEPT ![c] = Idle]
    BY <1>2, <1>6 DEF Finishes, Becomes
  <2>2. QED
    BY <1>1, <1>3, <2>1, IdleOK, ReadStep
<1>7. QED
  BY <1>5, <1>6

LEMMA EquipToolOK == ASSUME IInv, NEW c \in Clients, EquipTool(c) PROVE IInv'
<1>1. PICK ctx \in rooms \cap Places,
          names \in Patterns \cup {{name} : name \in Names \cup McpNames \cup {Look}} :
        /\ Begins(c, [Idle EXCEPT !.pc = "priority", !.ctx = ctx, !.todo = Matching(things, names)])
        /\ UNCHANGED <<Storage, touched>>
  BY DEF EquipTool
<1> DEFINE found == Matching(things, names)
           r == [Idle EXCEPT !.pc = "priority", !.ctx = ctx, !.todo = found]
<1>2. Serving
  BY FreeServes DEF EquipTool
<1>3. found \subseteq Ids
  BY DEF Matching, LiveIds, IInv, TablesOK, TableOK
<1>4. call' = [call EXCEPT ![c] = r] /\ UNCHANGED <<boot, connected, sync, torn>>
      /\ UNCHANGED <<things, rooms, equip, handled, touched>>
  BY <1>1 DEF Begins, Becomes, Storage
<1> HIDE DEF found
<1>5. ctx \in {Home, Lobby, Fork} /\ ctx \in Ids \cup {None, Fork}
  BY ContextTyped DEF Contexts
<1>6. r \in Calls /\ CallOK(r, things) /\ r.pc \notin {"source", "fork"}
  BY <1>3, <1>5 DEF Idle, Calls, Slots, CallOK, Reads
<1> HIDE DEF r
<1>7. QED
  BY <1>2, <1>4, <1>6, ReadStep

LEMMA ReadPriorityOK == ASSUME IInv, NEW c \in Clients, ReadPriority(c) PROVE IInv'
<1>1. At(c, "priority") /\ UNCHANGED <<boot, connected, sync, count, torn>>
      /\ UNCHANGED <<things, rooms, equip, handled, touched>>
  BY DEF ReadPriority, Continues, Storage
<1>2. PICK id \in call[c].todo :
        Becomes(c, [call[c] EXCEPT !.pc = "put", !.id = id, !.todo = call[c].todo \ {id},
                                   !.done = NextPriority(equip, things, call[c].ctx)])
  BY DEF ReadPriority
<1> DEFINE left == call[c].todo \ {id}
           n == NextPriority(equip, things, call[c].ctx)
           r == [call[c] EXCEPT !.pc = "put", !.id = id, !.todo = left, !.done = n]
<1>3. Serving /\ call[c] \in Calls /\ CallOK(call[c], things) /\ call[c].pc = "priority"
  BY <1>1, AtServes
<1>4. call[c].ctx \in {Home, Lobby, Fork} /\ id \in Ids /\ left \subseteq Ids
      /\ left \in SUBSET (Ids \cup EquipItem \cup CopyItem)
  BY <1>3 DEF CallOK
<1>5. n \in Nat
  BY NextPriorityTyped DEF IInv, TablesOK
<1>6. call' = [call EXCEPT ![c] = r]
  BY <1>2 DEF Becomes
<1> HIDE DEF n, left
<1>7. r \in Calls /\ r.pc = "put" /\ r.id = id /\ r.ctx = call[c].ctx /\ r.todo = left
  BY <1>3, <1>4, <1>5 DEF Calls
<1> HIDE DEF r
<1>8. CallOK(r, things)
  BY <1>4, <1>7 DEF CallOK, Reads
<1>9. QED
  BY <1>1, <1>3, <1>6, <1>7, <1>8, ReadStep

LEMMA PutToolOK == ASSUME IInv, NEW c \in Clients, PutTool(c) PROVE IInv'
<1> DEFINE row == EquipRow(call[c].ctx, call[c].id, None, call[c].done)
           next == [call[c] EXCEPT !.pc = "priority", !.id = None, !.done = 0]
           r == IF call[c].todo = {} THEN Idle ELSE next
<1>1. /\ At(c, "put") /\ HasRoom(equip)
      /\ UNCHANGED <<boot, connected, sync, count, torn>> /\ UNCHANGED <<things, rooms, touched>>
  BY DEF PutTool, Continues
<1>2. Serving /\ call[c] \in Calls /\ CallOK(call[c], things) /\ call[c].pc = "put"
  BY <1>1, AtServes
<1>3. /\ call[c].id \in Ids /\ call[c].done \in Nat /\ None \in Slots
      /\ call[c].ctx \in {Home, Lobby, Fork} /\ call[c].todo \subseteq Ids
  BY <1>2 DEF CallOK, Calls, Slots
<1>4. CASE CanEquip(call[c].ctx, call[c].id)
  <2>1. equip' = WithRow(equip, row) /\ Handles(call[c].ctx, call[c].id, None)
        /\ call' = [call EXCEPT ![c] = r]
    BY <1>4 DEF PutTool, Becomes
  <2>2. call[c].ctx \in {Home, Lobby, Fork, Agent}
    BY <1>3
  <2>3. KeysOK(equip') /\ ForkKept
    BY <1>1, <1>3, <1>4, <2>1, <2>2, EquippedKept
  <2>4. next \in Calls /\ next.pc = "priority" /\ next.ctx = call[c].ctx /\ next.todo = call[c].todo
    BY <1>2 DEF Calls
  <2> HIDE DEF next, row
  <2>5. CallOK(next, things)
    BY <1>3, <2>4 DEF CallOK, Reads
  <2>6. r \in Calls /\ CallOK(r, things) /\ r.pc \notin {"source", "fork"}
    BY <2>4, <2>5, IdleOK
  <2> HIDE DEF r
  <2>7. QED
    BY <1>1, <1>2, <2>1, <2>3, <2>6, EquipmentStep
<1>5. CASE ~CanEquip(call[c].ctx, call[c].id)
  <2>1. UNCHANGED <<equip, handled>> /\ call' = [call EXCEPT ![c] = Idle]
    BY <1>5 DEF PutTool, Finishes, Becomes
  <2>2. QED
    BY <1>1, <1>2, <2>1, IdleOK, ReadStep
<1>6. QED
  BY <1>4, <1>5

LEMMA UnequipOK == ASSUME IInv, NEW c \in Clients, Unequip(c) PROVE IInv'
<1>1. PICK ctx \in Contexts, slot \in Slots, names \in Patterns :
        /\ Begins(c, [Idle EXCEPT !.pc = "unequip", !.ctx = ctx, !.slot = slot,
                                  !.todo = Matching(things, names)])
        /\ UNCHANGED <<Storage, touched>>
  BY DEF Unequip
<1> DEFINE found == Matching(things, names)
           r == [Idle EXCEPT !.pc = "unequip", !.ctx = ctx, !.slot = slot, !.todo = found]
<1>2. Serving
  BY FreeServes DEF Unequip
<1>3. found \subseteq Ids
  BY DEF Matching, LiveIds, IInv, TablesOK, TableOK
<1>4. call' = [call EXCEPT ![c] = r] /\ UNCHANGED <<boot, connected, sync, torn>>
      /\ UNCHANGED <<things, rooms, equip, handled, touched>>
  BY <1>1 DEF Begins, Becomes, Storage
<1> HIDE DEF found
<1>5. ctx \in {Home, Lobby, Fork, Agent} /\ ctx \in Ids \cup {None, Fork}
  BY ContextTyped
<1>6. r \in Calls /\ CallOK(r, things) /\ r.pc \notin {"source", "fork"}
  BY <1>3, <1>5 DEF Idle, Calls, CallOK, Reads
<1> HIDE DEF r
<1>7. QED
  BY <1>2, <1>4, <1>6, ReadStep

LEMMA UnequipOneOK == ASSUME IInv, NEW c \in Clients, UnequipOne(c) PROVE IInv'
<1>1. /\ At(c, "unequip")
      /\ UNCHANGED <<boot, connected, sync, count, torn>> /\ UNCHANGED <<things, rooms, touched>>
  BY DEF UnequipOne, Continues
<1>2. PICK id \in call[c].todo :
        /\ equip' = WithoutRow(equip, call[c].ctx, id, call[c].slot)
        /\ Handles(call[c].ctx, id, call[c].slot)
        /\ Becomes(c, IF call[c].todo \ {id} = {} THEN Idle
                      ELSE [call[c] EXCEPT !.todo = call[c].todo \ {id}])
  BY DEF UnequipOne
<1> DEFINE left == call[c].todo \ {id}
           next == [call[c] EXCEPT !.todo = left]
           r == IF left = {} THEN Idle ELSE next
<1>3. Serving /\ call[c] \in Calls /\ CallOK(call[c], things) /\ call[c].pc = "unequip"
  BY <1>1, AtServes
<1>4. call[c].todo \subseteq Ids /\ call[c].slot \in Slots
      /\ call[c].ctx \in {Home, Lobby, Fork, Agent}
  BY <1>3 DEF CallOK, Calls
<1>5. KeysOK(equip') /\ ForkKept
  BY <1>2, <1>4, UnequippedKept
<1>6. next \in Calls /\ CallOK(next, things) /\ next.pc = "unequip"
  <2>1. left \subseteq Ids /\ left \in SUBSET (Ids \cup EquipItem \cup CopyItem)
    BY <1>4
  <2> HIDE DEF left
  <2>2. next \in Calls
    BY <1>3, <2>1 DEF Calls
  <2>3. next.pc = "unequip" /\ next.ctx = call[c].ctx /\ next.todo = left
    BY <1>3 DEF Calls
  <2> HIDE DEF next
  <2>4. QED
    BY <1>4, <2>1, <2>2, <2>3 DEF CallOK, Reads
<1>7. call' = [call EXCEPT ![c] = r]
  BY <1>2 DEF Becomes
<1>8. r \in Calls /\ CallOK(r, things) /\ r.pc \notin {"source", "fork"}
  <2> HIDE DEF next, left
  <2>1. CASE left = {}
    BY <2>1, IdleOK
  <2>2. CASE left # {}
    BY <1>6, <2>2
  <2>3. QED
    BY <2>1, <2>2
<1> HIDE DEF r
<1>9. QED
  BY <1>1, <1>3, <1>5, <1>7, <1>8, EquipmentStep

-----------------------------------------------------------------------------
(* The fork of a room                                                      *)

\* A step of the command that forks.
LEMMA ForkStep ==
  ASSUME IInv, Serving, NEW c \in Clients, NEW r \in Calls, CallOK(r, things),
         call' = [call EXCEPT ![c] = r], rooms \subseteq rooms',
         UNCHANGED <<things, boot, torn, sync, connected, touched>>, TablesOK', ForksOK'
  PROVE  IInv'
<1>1. things \in [Ids -> Thing \cup {None}] /\ CallsOK /\ SyncOK /\ CallOK(r, things')
  BY DEF IInv, TablesOK, TableOK
<1>2. Extends(things, things') /\ NamesKept(things, things', McpNames \ touched')
  BY Itself
<1>3. connected' \subseteq Clients
  BY DEF IInv, BootOK
<1>4. connected' # {} /\ ~torn => Stored(things', Agent)
  BY DEF IInv, BootOK
<1>5. BootOK'
  BY <1>2, <1>3, <1>4, BootKept
<1>6. CallsOK' /\ SyncOK'
  BY <1>1, <1>2, CallsKept, SyncKept
<1>7. QED
  BY <1>5, <1>6 DEF IInv

LEMMA ForkRoomOK == ASSUME IInv, NEW c \in Clients, ForkRoom(c) PROVE IInv'
<1> DEFINE r == [Idle EXCEPT !.pc = "source"]
<1>1. /\ Fork \notin rooms /\ rooms' = rooms \cup {Fork} /\ call' = [call EXCEPT ![c] = r]
      /\ UNCHANGED <<things, equip, handled, boot, torn, sync, connected, touched>>
  BY DEF ForkRoom, Begins, Becomes
<1>2. Serving
  BY FreeServes DEF ForkRoom
<1>3. r \in Calls /\ CallOK(r, things) /\ r.pc = "source"
  BY DEF Idle, Calls, Slots, CallOK, Reads
<1> HIDE DEF r
<1>4. NoneEquipped(Fork) /\ NoneEquipped(Fork)'
  BY <1>1 DEF IInv, TablesOK, NoneEquipped
<1>5. TablesOK'
  BY <1>1, <1>4 DEF IInv, TablesOK
<1>6. ForksOK'
  <2>1. \A d \in Clients : ~Forking(d)
    BY <1>1 DEF IInv, ForksOK
  <2>2. \A d \in Clients : call'[d] = IF d = c THEN r ELSE call[d]
    BY <1>1 DEF IInv, CallsOK
  <2>3. \A d \in Clients : call'[d].pc \in {"source", "fork"} => d = c /\ call'[d].pc = "source"
    BY <1>3, <2>1, <2>2 DEF Forking
  <2>4. Fork \in rooms'
    BY <1>1
  <2>5. QED
    BY <1>4, <2>3, <2>4 DEF ForksOK, Forking, At, NoneEquipped, Under
<1>7. QED
  BY <1>1, <1>2, <1>3, <1>5, <1>6, ForkStep

LEMMA ReadSourceOK == ASSUME IInv, NEW c \in Clients, ReadSource(c) PROVE IInv'
<1> DEFINE source == Equipment(equip, things, Lobby)
           item(i) == [of |-> i, thing |-> equip[i].thing, slot |-> equip[i].slot,
                       priority |-> equip[i].priority]
           read == {item(i) : i \in source}
           r == [call[c] EXCEPT !.pc = "fork", !.todo = read, !.row = read]
<1>1. /\ At(c, "source") /\ call' = [call EXCEPT ![c] = r]
      /\ UNCHANGED <<boot, connected, sync, count, torn>>
      /\ UNCHANGED <<things, rooms, equip, handled, touched>>
  BY DEF ReadSource, Becomes, Continues, Storage
<1>2. Serving /\ call[c] \in Calls /\ call[c].pc = "source"
  BY <1>1, AtServes
<1>3. KeysOK(equip) /\ equip \in [1..MaxEquips -> Equipped \cup {None}]
  BY DEF IInv, TablesOK, KeysOK
<1>4. \A i \in source : i \in 1..MaxEquips /\ i \in LiveRows(equip) /\ equip[i] \in Equipped
                        /\ equip[i].ctx = Lobby
  BY <1>3 DEF Equipment, LiveRows
<1>5. read \subseteq CopyItem
  <2>1. ASSUME NEW i \in source PROVE item(i) \in CopyItem
    <3>1. i \in 1..MaxEquips /\ equip[i].thing \in Ids /\ equip[i].slot \in Slots
          /\ equip[i].priority \in Nat
      BY <1>4 DEF Equipped
    <3>2. QED
      BY <3>1 DEF CopyItem
  <2>2. QED
    BY <2>1
<1>6. IsFiniteSet(read)
  <2>1. IsFiniteSet(1..MaxEquips)
    <3>1. MaxEquips \in Int /\ 1 \in Int
      BY BoundsAssumption
    <3>2. QED
      BY <3>1, FS_Interval
  <2>2. source \in SUBSET (1..MaxEquips)
    BY <1>4
  <2>3. IsFiniteSet(source)
    BY <2>1, <2>2, FS_Subset
  <2> DEFINE f == [i \in source |-> item(i)]
  <2>4. f \in Surjection(source, read)
    BY DEF Surjection
  <2>5. QED
    BY <2>3, <2>4, FS_Surjection
<1>7. ASSUME NEW p \in read, NEW q \in read, p # q, p.thing = q.thing, p.slot = q.slot
      PROVE  p.slot = None
  <2>1. PICK i \in source : p = item(i)
    OBVIOUS
  <2>2. PICK j \in source : q = item(j)
    OBVIOUS
  <2>3. i # j
    BY <1>7, <2>1, <2>2
  <2>4. /\ equip[i].ctx = equip[j].ctx /\ equip[i].thing = equip[j].thing
        /\ equip[i].slot = equip[j].slot /\ p.slot = equip[i].slot
    BY <1>4, <1>7, <2>1, <2>2
  <2>5. QED
    BY <1>3, <1>4, <2>3, <2>4 DEF KeysOK
<1> HIDE DEF read
<1>8. r \in Calls
  BY <1>2, <1>5 DEF Calls
<1>9. r.pc = "fork" /\ r.todo = read /\ r.row = read
  BY <1>2 DEF Calls
<1> HIDE DEF r
<1>10. CallOK(r, things)
  BY <1>9 DEF CallOK, Reads
<1>11. (\A key \in Keys \ handled : Under(equip, key) = {}) /\ Fork \in rooms
  BY <1>1 DEF IInv, ForksOK, Forking, At
<1>12. Copies(equip', read, read, handled')
  <2>1. \A key \in Keys \ handled' : Under(equip', key) = {}
    BY <1>1, <1>11
  <2>2. \A key : {q \in read \ read : KeyOf(q) = key} = {}
    OBVIOUS
  <2>3. QED
    BY <2>1, <2>2 DEF Copies
<1>13. ForksOK'
  <2>1. \A d \in Clients : call'[d] = IF d = c THEN r ELSE call[d]
    BY <1>1 DEF IInv, CallsOK
  <2>2. \A d \in Clients : Forking(d) => d = c
    BY <1>1 DEF IInv, ForksOK, Forking, At
  <2>3. \A d \in Clients : call'[d].pc \in {"source", "fork"} =>
          d = c /\ call'[d].pc = "fork" /\ call'[d].row = read /\ call'[d].todo = read
    BY <1>9, <2>1, <2>2 DEF Forking
  <2>4. Fork \in rooms'
    BY <1>1, <1>11
  <2>5. read \in SUBSET CopyItem
    BY <1>5
  <2>6. QED
    BY <1>6, <1>7, <1>12, <2>3, <2>4, <2>5 DEF ForksOK, Forking, At
<1>14. TablesOK'
  BY <1>1 DEF IInv, TablesOK, NoneEquipped
<1>15. QED
  BY <1>1, <1>2, <1>8, <1>10, <1>13, <1>14, ForkStep

\* A row is added for a context and key nobody has.
LEMMA RowAdded ==
  ASSUME NEW e, KeysOK(e), HasRoom(e), NEW r \in Equipped, ~r.deleted, r.ctx = Fork,
         SameKey(e, r) = {}
  PROVE  \E f \in 1..MaxEquips :
           /\ f \notin Under(e, KeyOf(r))
           /\ Under(WithRow(e, r), KeyOf(r)) = Under(e, KeyOf(r)) \cup {f}
           /\ WithRow(e, r)[f] = r /\ \A i \in Under(e, KeyOf(r)) : WithRow(e, r)[i] = e[i]
<1>1. e \in [1..MaxEquips -> Equipped \cup {None}] /\ r # None
  BY IdAssumption DEF KeysOK
<1>2. FreshRow(e) \in 1..MaxEquips /\ e[FreshRow(e)] = None
  BY <1>1 DEF HasRoom, FreshRow
<1>3. PICK f \in 1..MaxEquips : f = FreshRow(e)
  BY <1>2
<1>4. PICK w \in [1..MaxEquips -> Equipped \cup {None}] : w = [e EXCEPT ![f] = r]
  <2>1. [e EXCEPT ![f] = r] \in [1..MaxEquips -> Equipped \cup {None}]
    BY <1>1
  <2>2. QED
    BY <2>1
<1>5. WithRow(e, r) = w
  BY <1>3, <1>4 DEF WithRow
<1>6. w[f] = r /\ e[f] = None /\ \A i \in 1..MaxEquips : i # f => w[i] = e[i]
  BY <1>1, <1>2, <1>3, <1>4
<1>7. PICK key : key = KeyOf(r)
  OBVIOUS
<1>8. f \notin Under(e, key)
  BY <1>6 DEF Under, LiveRows
<1>9. Under(w, key) = Under(e, key) \cup {f}
  <2>1. ASSUME NEW i PROVE i \in Under(w, key) <=> i \in Under(e, key) \/ i = f
    <3>1. CASE i = f
      BY <1>1, <1>4, <1>6, <1>7, <3>1 DEF Under, LiveRows
    <3>2. CASE i # f
      BY <1>1, <1>4, <1>6, <3>2 DEF Under, LiveRows
    <3>3. QED
      BY <3>1, <3>2
  <2>2. QED
    BY <2>1
<1>10. \A i \in Under(e, key) : w[i] = e[i]
  BY <1>1, <1>6, <1>8 DEF Under, LiveRows
<1>11. QED
  BY <1>5, <1>6, <1>7, <1>8, <1>9, <1>10

LEMMA UnderFinite ==
  ASSUME NEW e, KeysOK(e), NEW key
  PROVE  IsFiniteSet(Under(e, key))
<1>1. IsFiniteSet(1..MaxEquips)
  <2>1. MaxEquips \in Int /\ 1 \in Int
    BY BoundsAssumption
  <2>2. QED
    BY <2>1, FS_Interval
<1>2. Under(e, key) \in SUBSET (1..MaxEquips)
  BY DEF Under, LiveRows, KeysOK
<1>3. QED
  BY <1>1, <1>2, FS_Subset

\* One more row of the source is copied: under its own key it is added, if no
\* other command handled the key; under the others nothing changes.
LEMMA CopiesGrow ==
  ASSUME NEW e, KeysOK(e), HasRoom(e), NEW row \in SUBSET CopyItem, NEW todo \in SUBSET row,
         IsFiniteSet(row), NEW r \in todo, NEW keys, Copies(e, row, todo, keys),
         \A p, q \in row : p # q /\ p.thing = q.thing /\ p.slot = q.slot => p.slot = None
  PROVE  KeysOK(WithRow(e, CopyRow(r))) /\ Copies(WithRow(e, CopyRow(r)), row, todo \ {r}, keys)
<1> DEFINE new == CopyRow(r)
           w == WithRow(e, new)
           copied(key) == {p \in row \ todo : KeyOf(p) = key}
           grown(key) == {p \in row \ (todo \ {r}) : KeyOf(p) = key}
<1>1. r \in CopyItem /\ r.thing \in Ids /\ r.slot \in Slots /\ r.priority \in Nat
  BY DEF CopyItem
<1>2. /\ new \in Equipped /\ ~new.deleted /\ new.ctx = Fork /\ new.thing = r.thing
      /\ new.slot = r.slot /\ new.priority = r.priority /\ KeyOf(new) = KeyOf(r)
  BY <1>1, RowTyped DEF CopyRow, KeyOf
<1> HIDE DEF new
<1>3. KeysOK(w)
  BY <1>2, EquipGood
<1>4. ASSUME NEW key \in Keys \ keys
      PROVE  /\ Cardinality(Under(e, key)) = Cardinality(copied(key))
             /\ {e[i].priority : i \in Under(e, key)} = {p.priority : p \in copied(key)}
  BY DEF Copies
<1>5. ASSUME NEW key \in Keys \ keys, key # KeyOf(r)
      PROVE  /\ Cardinality(Under(w, key)) = Cardinality(grown(key))
             /\ {w[i].priority : i \in Under(w, key)} = {p.priority : p \in grown(key)}
  <2>1. grown(key) = copied(key)
    BY <1>5
  <2>2. SameFork(e, w, {KeyOf(r)})
    BY <1>2, EquipKeeps
  <2>3. Under(w, key) = Under(e, key) /\ \A i \in Under(e, key) : w[i] = e[i]
    BY <1>5, <2>2 DEF SameFork
  <2>4. {w[i].priority : i \in Under(w, key)} = {e[i].priority : i \in Under(e, key)}
    BY <2>3
  <2>5. QED
    BY <1>4, <1>5, <2>1, <2>3, <2>4
<1>6. ASSUME NEW key \in Keys \ keys, key = KeyOf(r)
      PROVE  /\ Cardinality(Under(w, key)) = Cardinality(grown(key))
             /\ {w[i].priority : i \in Under(w, key)} = {p.priority : p \in grown(key)}
  <2>1. SameKey(e, new) = {}
    <3>1. SUFFICES ASSUME NEW i \in SameKey(e, new) PROVE FALSE
      OBVIOUS
    <3>2. i \in Under(e, key) /\ r.slot # None
      BY <1>2, <1>6 DEF SameKey, Under, KeyOf
    <3>3. e[i].priority \in {p.priority : p \in copied(key)}
      BY <1>4, <3>2
    <3>4. PICK p \in copied(key) : e[i].priority = p.priority
      BY <3>3
    <3>5. p.thing = r.thing /\ p.slot = r.slot /\ p \in row /\ p # r
      BY <1>6, <3>4 DEF KeyOf
    <3>6. QED
      BY <3>2, <3>5
  <2>2. PICK f \in 1..MaxEquips :
          /\ f \notin Under(e, key) /\ Under(w, key) = Under(e, key) \cup {f}
          /\ w[f] = new /\ \A i \in Under(e, key) : w[i] = e[i]
    BY <1>2, <1>6, <2>1, RowAdded
  <2>3. grown(key) = copied(key) \cup {r} /\ r \notin copied(key)
    BY <1>6
  <2>4. IsFiniteSet(copied(key)) /\ IsFiniteSet(Under(e, key))
    <3>1. copied(key) \in SUBSET row
      OBVIOUS
    <3>2. QED
      BY <3>1, FS_Subset, UnderFinite
  <2>5. Cardinality(Under(w, key)) = Cardinality(Under(e, key)) + 1
    <3>1. Cardinality(Under(e, key) \cup {f})
            = IF f \in Under(e, key) THEN Cardinality(Under(e, key))
              ELSE Cardinality(Under(e, key)) + 1
      BY <2>4, FS_AddElement
    <3>2. QED
      BY <2>2, <3>1
  <2>6. Cardinality(grown(key)) = Cardinality(copied(key)) + 1
    <3>1. Cardinality(copied(key) \cup {r})
            = IF r \in copied(key) THEN Cardinality(copied(key))
              ELSE Cardinality(copied(key)) + 1
      BY <2>4, FS_AddElement
    <3>2. QED
      BY <2>3, <3>1
  <2>7. {w[i].priority : i \in Under(w, key)} = {p.priority : p \in grown(key)}
    <3>1. {w[i].priority : i \in Under(w, key)}
            = {e[i].priority : i \in Under(e, key)} \cup {r.priority}
      BY <1>2, <2>2
    <3>2. {p.priority : p \in grown(key)} = {p.priority : p \in copied(key)} \cup {r.priority}
      BY <2>3
    <3>3. QED
      BY <1>4, <3>1, <3>2
  <2>8. QED
    BY <1>4, <2>5, <2>6, <2>7
<1> HIDE DEF w
<1>7. Copies(w, row, todo \ {r}, keys)
  BY <1>5, <1>6 DEF Copies
<1>8. QED
  BY <1>3, <1>7 DEF w, new

LEMMA CopyEquipOK == ASSUME IInv, NEW c \in Clients, CopyEquip(c) PROVE IInv'
<1>1. /\ At(c, "fork")
      /\ UNCHANGED <<boot, connected, sync, count, torn>> /\ UNCHANGED <<things, rooms, handled, touched>>
  BY DEF CopyEquip, Continues
<1>2. Serving /\ call[c] \in Calls /\ call[c].pc = "fork" /\ CallOK(call[c], things)
  BY <1>1, AtServes
<1>3. CASE call[c].todo = {} /\ Finishes(c) /\ UNCHANGED equip
  <2>1. call' = [call EXCEPT ![c] = Idle] /\ equip' = equip
    BY <1>3 DEF Finishes, Becomes
  <2>2. QED
    BY <1>1, <1>2, <2>1, IdleOK, ReadStep
<1>4. CASE \E r \in call[c].todo :
             /\ HasRoom(equip) /\ equip' = WithRow(equip, CopyRow(r))
             /\ Becomes(c, [call[c] EXCEPT !.todo = @ \ {r}])
  <2>1. PICK r \in call[c].todo :
          /\ HasRoom(equip) /\ equip' = WithRow(equip, CopyRow(r))
          /\ Becomes(c, [call[c] EXCEPT !.todo = @ \ {r}])
    BY <1>4
  <2> DEFINE next == [call[c] EXCEPT !.todo = call[c].todo \ {r}]
  <2>2. call' = [call EXCEPT ![c] = next]
    BY <2>1 DEF Becomes
  <2>3. /\ call[c].row \in SUBSET CopyItem /\ call[c].todo \in SUBSET call[c].row
        /\ IsFiniteSet(call[c].row) /\ Fork \in rooms
        /\ \A p, q \in call[c].row : p # q /\ p.thing = q.thing /\ p.slot = q.slot => p.slot = None
        /\ Copies(equip, call[c].row, call[c].todo, handled)
    BY <1>1 DEF IInv, ForksOK, Forking, At
  <2>4. KeysOK(equip)
    BY DEF IInv, TablesOK
  <2>5. KeysOK(equip') /\ Copies(equip', call[c].row, call[c].todo \ {r}, handled)
    BY <2>1, <2>3, <2>4, CopiesGrow
  <2>6. next \in Calls
    BY <1>2 DEF Calls
  <2>7. next.pc = "fork" /\ next.row = call[c].row /\ next.todo = call[c].todo \ {r}
    BY <1>2 DEF Calls
  <2> HIDE DEF next
  <2>8. CallOK(next, things)
    BY <2>7 DEF CallOK, Reads
  <2>9. ForksOK'
    <3>1. \A d \in Clients : call'[d] = IF d = c THEN next ELSE call[d]
      BY <2>2 DEF IInv, CallsOK
    <3>2. \A d \in Clients : Forking(d) => d = c
      BY <1>1 DEF IInv, ForksOK, Forking, At
    <3>3. \A d \in Clients : call'[d].pc \in {"source", "fork"} =>
            d = c /\ call'[d].pc = "fork" /\ call'[d].row = call[c].row
            /\ call'[d].todo = call[c].todo \ {r}
      BY <2>7, <3>1, <3>2 DEF Forking
    <3>4. Fork \in rooms' /\ call[c].todo \ {r} \subseteq call[c].row
      BY <1>1, <2>3
    <3>5. QED
      BY <1>1, <2>3, <2>5, <3>3, <3>4 DEF ForksOK, Forking, At
  <2>10. TablesOK'
    BY <1>1, <2>3, <2>5 DEF IInv, TablesOK
  <2>11. QED
    BY <1>1, <1>2, <2>2, <2>6, <2>8, <2>9, <2>10, ForkStep
<1>5. QED
  BY <1>3, <1>4 DEF CopyEquip

-----------------------------------------------------------------------------
(* The sync of the tools of the MCP server                                 *)

LEMMA SyncStep ==
  ASSUME IInv, Serving, Good(things'), Extends(things, things'),
         UNCHANGED <<rooms, equip, handled, boot, call, connected, torn>>, SyncOK'
  PROVE  IInv'
<1>1. things \in [Ids -> Thing \cup {None}] /\ CallsOK /\ ForksOK
  BY DEF IInv, TablesOK, TableOK
<1>2. BootOK'
  <2>1. connected' \subseteq Clients
    BY DEF IInv, BootOK
  <2>2. connected # {} /\ ~torn => Stored(things, Agent)
    BY DEF IInv, BootOK
  <2>3. connected' # {} /\ ~torn => Stored(things', Agent)
    BY <1>1, <2>2, ExtendsStored
  <2>4. QED
    BY <2>1, <2>3, BootKept
<1>3. CallsOK'
  BY <1>1, CallsSame
<1>4. ForksOK'
  <2>1. SameFork(equip, equip', handled') /\ \A c \in Clients : call'[c] = call[c]
    BY Itself
  <2>2. QED
    BY <1>1, <2>1, ForksKept
<1>5. TablesOK'
  BY DEF IInv, TablesOK, Good, NoneEquipped
<1>6. QED
  BY <1>2, <1>3, <1>4, <1>5 DEF IInv

LEMMA SyncTyped ==
  ASSUME SyncOK
  PROVE  /\ DOMAIN sync.offer \subseteq McpNames /\ DOMAIN sync.existing \subseteq Ids
         /\ sync.offer \in [DOMAIN sync.offer -> Versions]
         /\ sync.existing \in [DOMAIN sync.existing -> Thing]
         /\ sync.offer \in Offers /\ sync.existing \in Snapshots
         /\ sync.todo \in SUBSET (McpNames \cup Ids)
<1>1. sync.offer \in Offers /\ sync.existing \in Snapshots
      /\ sync.todo \in SUBSET (McpNames \cup Ids)
  BY DEF SyncOK, Syncing
<1>2. PICK names \in SUBSET McpNames : sync.offer \in [names -> Versions]
  BY <1>1 DEF Offers
<1>3. PICK ids \in SUBSET Ids : sync.existing \in [ids -> Thing]
  BY <1>1 DEF Snapshots
<1>4. DOMAIN sync.offer = names /\ DOMAIN sync.existing = ids
  BY <1>2, <1>3
<1>5. QED
  BY <1>1, <1>2, <1>3, <1>4

LEMMA SnapshotKept ==
  ASSUME SyncOK, things \in [Ids -> Thing \cup {None}], Extends(things, things'),
         sync'.existing = sync.existing
  PROVE  SnapshotOK'
<1>1. ASSUME NEW id \in DOMAIN sync.existing
      PROVE  /\ Stored(things', id) /\ things'[id].name = sync.existing[id].name
             /\ ParentExists(things', sync.existing[id])
  BY ExtendsStored DEF SyncOK, SnapshotOK, ParentExists
<1>2. QED
  BY <1>1 DEF SyncOK, SnapshotOK

LEMMA RestingOK == ASSUME sync' = Resting PROVE SyncOK'
BY IdleTyped DEF SyncOK, SnapshotOK, Syncs

\* The rows of the tools, as a sync reads them
Snapshot == [id \in Matching(things, McpNames) |-> things[id]]

LEMMA SnapshotTyped ==
  ASSUME IInv
  PROVE  /\ Snapshot \in Snapshots /\ DOMAIN Snapshot = Matching(things, McpNames)
         /\ Matching(things, McpNames) \subseteq Ids
         /\ \A id \in Matching(things, McpNames) :
              /\ Live(things, id) /\ things[id].name \in McpNames /\ Snapshot[id] = things[id]
              /\ ParentExists(things, things[id])
         /\ \A id \in Ids, name \in McpNames :
              Holds(name, id) => id \in Matching(things, McpNames)
<1>1. things \in [Ids -> Thing \cup {None}]
  BY DEF IInv, TablesOK, TableOK
<1>2. \A id \in Matching(things, McpNames) :
        /\ id \in Ids /\ Live(things, id) /\ things[id].name \in McpNames /\ things[id] \in Thing
        /\ ParentExists(things, things[id])
  <2>1. ASSUME NEW id \in Matching(things, McpNames)
        PROVE  /\ id \in Ids /\ Live(things, id) /\ things[id].name \in McpNames
               /\ things[id] \in Thing /\ ParentExists(things, things[id])
    <3>1. id \in Ids /\ Live(things, id) /\ things[id].name \in McpNames /\ Stored(things, id)
      BY <1>1 DEF Matching, LiveIds, Live
    <3>2. QED
      BY <1>1, <3>1, StoredTyped DEF IInv, TablesOK, TableOK
  <2>2. QED
    BY <2>1
<1>3. Snapshot \in [Matching(things, McpNames) -> Thing]
  BY <1>2 DEF Snapshot
<1>4. Matching(things, McpNames) \in SUBSET Ids
  BY <1>2
<1>5. Snapshot \in Snapshots
  BY <1>3, <1>4 DEF Snapshots
<1>6. \A id \in Ids, name \in McpNames : Holds(name, id) => id \in Matching(things, McpNames)
  BY <1>1 DEF Holds, Matching, LiveIds
<1>7. QED
  BY <1>2, <1>4, <1>5, <1>6 DEF Snapshot

LEMMA ToolsRefreshedOK == ASSUME IInv, ToolsRefreshed PROVE IInv'
<1>1. PICK names \in SUBSET McpNames : \E offer \in [names -> Versions] :
        sync' = [Resting EXCEPT !.pc = "container", !.offer = offer]
  BY DEF ToolsRefreshed
<1>2. PICK offer \in [names -> Versions] :
        sync' = [Resting EXCEPT !.pc = "container", !.offer = offer]
  BY <1>1
<1>3. offer \in Offers
  BY DEF Offers
<1>4. sync' \in Syncing /\ sync'.pc = "container" /\ sync'.existing = Resting.existing
  BY <1>2, <1>3, IdleTyped DEF Resting, Syncing
<1>5. SyncOK'
  BY <1>4, IdleTyped DEF SyncOK, SnapshotOK, Syncs
<1>6. Serving /\ UNCHANGED <<things, rooms, equip, handled, boot, call, connected, torn>>
  BY DEF ToolsRefreshed, SyncFrame
<1>7. Good(things') /\ Extends(things, things')
  BY <1>6, Itself DEF IInv, TablesOK, Good
<1>8. QED
  BY <1>5, <1>6, <1>7, SyncStep

LEMMA SyncContainerOK == ASSUME IInv, SyncContainer PROVE IInv'
<1> DEFINE row == NewThing("mcp", Mcps)
<1>1. /\ sync.pc = "container" /\ UNCHANGED <<rooms, equip, handled, boot, call, connected, torn>>
      /\ IF Stored(things, Mcp) \/ CanInsert(things, Mcp, row)
         THEN /\ things' = IF Stored(things, Mcp) THEN things ELSE Inserted(things, Mcp, row)
              /\ sync' = [sync EXCEPT !.pc = "find"]
         ELSE sync' = Resting /\ things' = things
  BY DEF SyncContainer, Syncs, SyncFrame, Aborts
<1>2. Serving /\ SyncOK /\ Good(things) /\ things \in [Ids -> Thing \cup {None}]
  BY <1>1, SyncServes DEF IInv, TablesOK, Good, TableOK
<1>3. row \in Thing /\ row.name = None /\ ~row.deleted
  <2>1. "mcp" \in Kinds /\ Mcps \in Ids \cup {None}
    BY FixedIds DEF Kinds
  <2>2. QED
    BY <2>1, NewThingTyped
<1> HIDE DEF row
<1>4. Good(things') /\ Extends(things, things')
  <2>1. CASE CanInsert(things, Mcp, row) /\ ~Stored(things, Mcp)
    <3>1. Mcp \in Ids
      BY FixedIds
    <3>2. Good(Inserted(things, Mcp, row)) /\ Extends(things, Inserted(things, Mcp, row))
      BY <1>2, <1>3, <2>1, <3>1, InsertGood
    <3>3. QED
      BY <1>1, <2>1, <3>2
  <2>2. CASE Stored(things, Mcp) \/ ~CanInsert(things, Mcp, row)
    BY <1>1, <1>2, <2>2, Itself
  <2>3. QED
    BY <2>1, <2>2
<1>5. CASE Stored(things, Mcp) \/ CanInsert(things, Mcp, row)
  <2>1. sync' = [sync EXCEPT !.pc = "find"]
    BY <1>1, <1>5
  <2>2. sync' \in Syncing /\ sync'.pc = "find" /\ sync'.existing = sync.existing
    BY <1>2, <2>1 DEF SyncOK, Syncing
  <2>3. SnapshotOK'
    BY <1>2, <1>4, <2>2, SnapshotKept
  <2>4. SyncOK'
    BY <2>2, <2>3 DEF SyncOK, Syncs
  <2>5. QED
    BY <1>1, <1>2, <1>4, <2>4, SyncStep
<1>6. CASE ~(Stored(things, Mcp) \/ CanInsert(things, Mcp, row))
  <2>1. SyncOK'
    BY <1>1, <1>6, RestingOK
  <2>2. QED
    BY <1>1, <1>2, <1>4, <2>1, SyncStep
<1>7. QED
  BY <1>5, <1>6

LEMMA SyncFindOK == ASSUME IInv, SyncFind PROVE IInv'
<1>1. /\ sync.pc = "find" /\ UNCHANGED <<things, rooms, equip, handled, boot, call, connected, torn>>
      /\ sync' = [sync EXCEPT !.pc = "tools", !.todo = DOMAIN sync.offer, !.existing = Snapshot]
      /\ touched' = {}
  BY DEF SyncFind, Syncs, SyncFrame, Snapshot
<1>2. Serving /\ SyncOK
  BY <1>1, SyncServes DEF IInv
<1>3. /\ DOMAIN sync.offer \subseteq McpNames
      /\ Snapshot \in Snapshots /\ DOMAIN Snapshot = Matching(things, McpNames)
      /\ \A id \in Matching(things, McpNames) :
           /\ Live(things, id) /\ things[id].name \in McpNames /\ Snapshot[id] = things[id]
           /\ ParentExists(things, things[id])
      /\ \A id \in Ids, name \in McpNames :
           Holds(name, id) => id \in Matching(things, McpNames)
  BY <1>2, SyncTyped, SnapshotTyped
<1>4. /\ sync' \in Syncing /\ sync'.pc = "tools" /\ sync'.existing = Snapshot
      /\ sync'.todo = DOMAIN sync.offer /\ sync'.offer = sync.offer
  BY <1>1, <1>2, <1>3 DEF SyncOK, Syncing
<1>5. SnapshotOK'
  BY <1>1, <1>3, <1>4 DEF SnapshotOK, Live
<1>6. ASSUME NEW name \in McpNames PROVE AsRead(name)'
  <2>1. ASSUME NEW id \in Ids
        PROVE  /\ Holds(name, id) <=> id \in DOMAIN Snapshot /\ Snapshot[id].name = name
               /\ Holds(name, id) => Snapshot[id] = things[id]
    BY <1>3 DEF Holds
  <2>2. QED
    BY <1>1, <1>4, <2>1 DEF AsRead, Read, Holds
<1>7. SyncOK'
  BY <1>1, <1>4, <1>5, <1>6 DEF SyncOK, Syncs
<1>8. Good(things') /\ Extends(things, things')
  BY <1>1, Itself DEF IInv, TablesOK, Good
<1>9. QED
  BY <1>1, <1>2, <1>7, <1>8, SyncStep

\* A tool has been written, and the others are as they were.
LEMMA ToolDone ==
  ASSUME SyncOK, sync.pc = "tools", things \in [Ids -> Thing \cup {None}],
         Extends(things, things'), NEW name \in sync.todo, touched' = touched,
         sync' = [sync EXCEPT !.todo = sync.todo \ {name}],
         NamesKept(things, things', McpNames \ {name}),
         name \notin touched =>
           \E id \in Ids : /\ Live(things', id) /\ things'[id].name = name
                           /\ things'[id].available /\ things'[id].version = sync.offer[name]
  PROVE  SyncOK'
<1>1. /\ sync' \in Syncing /\ sync'.pc = "tools" /\ sync'.existing = sync.existing
      /\ sync'.offer = sync.offer /\ sync'.todo = sync.todo \ {name}
  BY DEF SyncOK, Syncing
<1>2. SnapshotOK'
  BY <1>1, SnapshotKept
<1>3. sync.todo \subseteq DOMAIN sync.offer
  BY DEF SyncOK, Syncs
<1>4. ASSUME NEW n \in McpNames \ touched
      PROVE  IF n \in DOMAIN sync.offer \ (sync.todo \ {name}) THEN AsOffered(n)' ELSE AsRead(n)'
  <2>1. CASE n = name
    <3>1. AsOffered(n)'
      BY <1>1, <1>4, <2>1 DEF AsOffered, Holds
    <3>2. n \in DOMAIN sync.offer \ (sync.todo \ {name})
      BY <1>3, <2>1
    <3>3. QED
      BY <3>1, <3>2
  <2>2. CASE n # name
    <3>1. \A id \in Ids :
            /\ Holds(n, id)' <=> Holds(n, id)
            /\ Holds(n, id) => /\ things'[id].available = things[id].available
                               /\ things'[id].version = things[id].version
      BY <2>2 DEF NamesKept, Holds
    <3>2. AsOffered(n) => AsOffered(n)'
      BY <1>1, <3>1 DEF AsOffered
    <3>3. AsRead(n) => AsRead(n)'
      BY <1>1, <3>1 DEF AsRead, Read
    <3>4. IF n \in DOMAIN sync.offer \ sync.todo THEN AsOffered(n) ELSE AsRead(n)
      BY <1>4 DEF SyncOK, Syncs
    <3>5. QED
      BY <2>2, <3>2, <3>3, <3>4
  <2>3. QED
    BY <2>1, <2>2
<1>5. QED
  BY <1>1, <1>2, <1>3, <1>4 DEF SyncOK, Syncs

LEMMA SyncToolOK == ASSUME IInv, SyncTool PROVE IInv'
<1>1. sync.pc = "tools" /\ UNCHANGED <<rooms, equip, handled, boot, call, connected, torn>>
  BY DEF SyncTool, Syncs, SyncFrame
<1>2. /\ Serving /\ SyncOK /\ Good(things) /\ things \in [Ids -> Thing \cup {None}]
      /\ sync.todo \subseteq DOMAIN sync.offer
  BY <1>1, SyncServes DEF IInv, TablesOK, Good, TableOK, SyncOK, Syncs
<1>3. PICK name \in sync.todo :
        LET id == Known(name)
            new == Tool(name, Mcp, sync.offer[name])
            old == sync.existing[id]
            changed == [old EXCEPT !.version = sync.offer[name], !.available = TRUE]
            next == [sync EXCEPT !.todo = @ \ {name}]
        IN  \/ /\ id # None /\ (old = changed \/ CanUpdate(things, id, changed))
               /\ things' = IF old = changed THEN things ELSE Updated(things, id, changed)
               /\ sync' = next /\ UNCHANGED touched
            \/ /\ id = None /\ FreshIds # {} /\ CanInsert(things, FreshId, new)
               /\ things' = Inserted(things, FreshId, new)
               /\ sync' = next /\ UNCHANGED touched
            \/ /\ id = None /\ FreshIds # {} /\ ~CanInsert(things, FreshId, new)
               /\ Aborts
  BY DEF SyncTool
<1> DEFINE id == Known(name)
           new == Tool(name, Mcp, sync.offer[name])
           old == sync.existing[id]
           changed == [old EXCEPT !.version = sync.offer[name], !.available = TRUE]
           next == [sync EXCEPT !.todo = sync.todo \ {name}]
<1>4. name \in McpNames /\ sync.offer[name] \in Versions
  BY <1>2, SyncTyped
<1>5. CASE /\ id # None /\ (old = changed \/ CanUpdate(things, id, changed))
           /\ things' = IF old = changed THEN things ELSE Updated(things, id, changed)
           /\ sync' = next /\ UNCHANGED touched
  <2>1. id \in DOMAIN sync.existing /\ sync.existing[id].name = name
    BY <1>5 DEF Known
  <2>2. /\ Stored(things, id) /\ things[id].name = name /\ id \in Ids /\ old \in Thing
        /\ ParentExists(things, old) /\ old.name = name /\ ~old.deleted
    BY <1>2, <2>1, SyncTyped DEF SyncOK, SnapshotOK
  <2>3. /\ changed \in Thing /\ changed.name = name /\ changed.parent = old.parent
        /\ changed.available /\ changed.version = sync.offer[name]
    BY <1>4, <2>2 DEF Thing
  <2>4. name \notin touched => AsRead(name)
    BY <1>2, <1>3, <1>4, <1>1 DEF SyncOK, Syncs
  <2>5. name \notin touched => Holds(name, id) /\ things[id].available = old.available
                               /\ things[id].version = old.version
    BY <2>1, <2>2, <2>4 DEF AsRead, Read
  <2> HIDE DEF id, changed
  <2>6. CASE old = changed
    <3>1. things' = things
      BY <1>5, <2>6
    <3>2. Extends(things, things') /\ NamesKept(things, things', McpNames \ {name})
      BY <3>1, Itself
    <3>3. name \notin touched =>
            /\ Live(things', id) /\ things'[id].name = name
            /\ things'[id].available /\ things'[id].version = sync.offer[name]
      BY <2>3, <2>5, <2>6, <3>1 DEF Holds
    <3>4. SyncOK'
      BY <1>1, <1>2, <1>5, <2>2, <3>2, <3>3, ToolDone
    <3>5. Good(things')
      BY <1>2, <3>1
    <3>6. QED
      BY <1>1, <1>2, <3>2, <3>4, <3>5, SyncStep
  <2>7. CASE old # changed
    <3> DEFINE u == Updated(things, id, changed)
    <3>1. things' = u
      BY <1>5, <2>7
    <3>2. changed.parent = None \/ Stored(things, changed.parent)
      BY <2>2, <2>3 DEF ParentExists
    <3>3. /\ Good(u) /\ Extends(things, u) /\ \A x \in Ids \ {id} : u[x] = things[x]
          /\ things[id] \in Thing
          /\ u[id].deleted = things[id].deleted /\ u[id].available = changed.available
          /\ u[id].version = changed.version
      <4>1. Good(things) /\ Stored(things, id) /\ changed \in Thing
            /\ changed.name = things[id].name
        BY <1>2, <2>2, <2>3
      <4>2. QED
        BY <3>2, <4>1, UpdatedGood
    <3> HIDE DEF u
    <3>4. things' \in [Ids -> Thing \cup {None}] /\ Good(things') /\ Extends(things, things')
      BY <3>1, <3>3 DEF Good, TableOK
    <3>5. Stored(things', id) /\ things'[id].name = name
      BY <1>2, <2>2, <3>4, ExtendsStored
    <3>6. /\ things'[id].deleted = things[id].deleted /\ things'[id].available
          /\ things'[id].version = sync.offer[name]
      BY <2>3, <3>1, <3>3
    <3>7. NamesKept(things, things', McpNames \ {name})
      <4>1. \A x \in Ids \ {id} :
              things'[x] = things[x] /\ (Stored(things', x) <=> Stored(things, x))
        BY <1>2, <3>1, <3>3, <3>4 DEF Stored
      <4>2. QED
        BY <2>2, <3>5, <4>1, OneKept
    <3>8. name \notin touched =>
            /\ Live(things', id) /\ things'[id].name = name
            /\ things'[id].available /\ things'[id].version = sync.offer[name]
      BY <2>5, <3>5, <3>6 DEF Holds, Live
    <3>9. SyncOK'
      BY <1>1, <1>2, <1>5, <2>2, <3>4, <3>7, <3>8, ToolDone
    <3>10. QED
      BY <1>1, <1>2, <3>4, <3>9, SyncStep
  <2>8. QED
    BY <2>6, <2>7
<1>6. CASE /\ id = None /\ FreshIds # {} /\ CanInsert(things, FreshId, new)
           /\ things' = Inserted(things, FreshId, new)
           /\ sync' = next /\ UNCHANGED touched
  <2>1. /\ new \in Thing /\ new.name = name /\ new.version = sync.offer[name] /\ new.available
        /\ ~new.deleted
    BY <1>4, FixedIds, ToolTyped
  <2>2. FreshId \in Ids \ {Agent} /\ ~Stored(things, FreshId)
    BY <1>6, FreshDrawn
  <2> HIDE DEF new
  <2>3. /\ Good(Inserted(things, FreshId, new)) /\ Extends(things, Inserted(things, FreshId, new))
        /\ Inserted(things, FreshId, new) = [things EXCEPT ![FreshId] = new]
        /\ Stored(Inserted(things, FreshId, new), FreshId)
        /\ Inserted(things, FreshId, new)[FreshId] = new
    BY <1>2, <1>6, <2>1, <2>2, InsertGood
  <2>4. /\ Good(things') /\ Extends(things, things') /\ things' = [things EXCEPT ![FreshId] = new]
        /\ Stored(things', FreshId) /\ things'[FreshId] = new
    BY <1>6, <2>3
  <2>5. things' \in [Ids -> Thing \cup {None}]
    BY <2>4 DEF Good, TableOK
  <2>6. NamesKept(things, things', McpNames \ {name})
    <3>1. \A x \in Ids \ {FreshId} :
            things'[x] = things[x] /\ (Stored(things', x) <=> Stored(things, x))
      BY <1>2, <2>4, <2>5 DEF Stored
    <3>2. QED
      BY <2>1, <2>2, <2>4, <3>1, OneKept
  <2>7. /\ Live(things', FreshId) /\ things'[FreshId].name = name
        /\ things'[FreshId].available /\ things'[FreshId].version = sync.offer[name]
    BY <2>1, <2>4 DEF Live
  <2>8. SyncOK'
    BY <1>1, <1>2, <1>6, <2>2, <2>4, <2>6, <2>7, ToolDone
  <2>9. QED
    BY <1>1, <1>2, <2>4, <2>8, SyncStep
<1>7. CASE id = None /\ FreshIds # {} /\ ~CanInsert(things, FreshId, new) /\ Aborts
  <2>1. sync' = Resting /\ things' = things
    BY <1>7 DEF Aborts
  <2>2. SyncOK'
    BY <2>1, RestingOK
  <2>3. Good(things') /\ Extends(things, things')
    BY <1>2, <2>1, Itself
  <2>4. QED
    BY <1>1, <1>2, <2>2, <2>3, SyncStep
<1>8. QED
  BY <1>3, <1>5, <1>6, <1>7

LEMMA SyncedAllOK == ASSUME IInv, SyncedAll PROVE IInv'
<1>1. /\ sync.pc = "tools" /\ sync.todo = {}
      /\ UNCHANGED <<things, rooms, equip, handled, boot, call, connected, torn, touched>>
      /\ sync' = [sync EXCEPT !.pc = "gone", !.todo = Gone]
  BY DEF SyncedAll, Syncs, SyncFrame
<1>2. Serving /\ SyncOK
  BY <1>1, SyncServes DEF IInv
<1>3. Gone \subseteq DOMAIN sync.existing /\ DOMAIN sync.existing \subseteq Ids
  BY <1>2, SyncTyped DEF Gone
<1>4. /\ sync' \in Syncing /\ sync'.pc = "gone" /\ sync'.existing = sync.existing
      /\ sync'.todo = Gone /\ sync'.offer = sync.offer
  BY <1>1, <1>2, <1>3 DEF SyncOK, Syncing
<1>5. Extends(things, things') /\ Good(things')
  BY <1>1, Itself DEF IInv, TablesOK, Good
<1>6. SnapshotOK'
  BY <1>2, <1>4, <1>5, SnapshotKept DEF IInv, TablesOK, TableOK
<1>7. \A id \in Gone : sync.existing[id].name \notin DOMAIN sync.offer
  BY DEF Gone
<1>8. ASSUME NEW name \in McpNames \ touched
      PROVE  IF name \in DOMAIN sync.offer THEN AsOffered(name)'
             ELSE \A id \in Ids : Holds(name, id)' => id \in Gone \/ ~things'[id].available
  <2>1. IF name \in DOMAIN sync.offer THEN AsOffered(name) ELSE AsRead(name)
    BY <1>1, <1>2 DEF SyncOK, Syncs
  <2>2. CASE name \in DOMAIN sync.offer
    BY <1>1, <1>4, <2>1, <2>2 DEF AsOffered, Holds
  <2>3. CASE name \notin DOMAIN sync.offer
    <3>1. ASSUME NEW id \in Ids, Holds(name, id) PROVE id \in Gone \/ ~things[id].available
      BY <2>1, <2>3, <3>1 DEF AsRead, Read, Gone
    <3>2. \A id \in Ids : Holds(name, id)' <=> Holds(name, id)
      BY <1>1 DEF Holds
    <3>3. QED
      BY <1>1, <2>3, <3>1, <3>2
  <2>4. QED
    BY <2>2, <2>3
<1>9. SyncOK'
  BY <1>1, <1>3, <1>4, <1>6, <1>7, <1>8 DEF SyncOK, Syncs
<1>10. QED
  BY <1>1, <1>2, <1>5, <1>9, SyncStep

LEMMA SyncGoneOK == ASSUME IInv, SyncGone PROVE IInv'
<1>1. sync.pc = "gone" /\ UNCHANGED <<rooms, equip, handled, boot, call, connected, torn, touched>>
  BY DEF SyncGone, Syncs, SyncFrame
<1>2. /\ Serving /\ SyncOK /\ Good(things) /\ things \in [Ids -> Thing \cup {None}]
      /\ sync.todo \subseteq DOMAIN sync.existing
      /\ \A id \in sync.todo : sync.existing[id].name \notin DOMAIN sync.offer
      /\ \A name \in McpNames \ touched :
           IF name \in DOMAIN sync.offer THEN AsOffered(name)
           ELSE \A id \in Ids : Holds(name, id) => id \in sync.todo \/ ~things[id].available
  BY <1>1, SyncServes DEF IInv, TablesOK, Good, TableOK, SyncOK, Syncs
<1>3. CASE \E id \in sync.todo : /\ things' = WithAvailable(things, id, FALSE)
                                 /\ sync' = [sync EXCEPT !.todo = @ \ {id}]
  <2>1. PICK id \in sync.todo : /\ things' = WithAvailable(things, id, FALSE)
                                /\ sync' = [sync EXCEPT !.todo = sync.todo \ {id}]
    BY <1>3
  <2>2. /\ Stored(things, id) /\ id \in Ids /\ things[id].name \notin DOMAIN sync.offer
        /\ things[id].name \in McpNames
    BY <1>2, SyncTyped DEF SyncOK, SnapshotOK
  <2>3. /\ sync' \in Syncing /\ sync'.pc = "gone" /\ sync'.existing = sync.existing
        /\ sync'.todo = sync.todo \ {id} /\ sync'.offer = sync.offer
    BY <1>1, <1>2, <2>1 DEF SyncOK, Syncing
  <2>4. /\ Good(WithAvailable(things, id, FALSE))
        /\ Extends(things, WithAvailable(things, id, FALSE))
        /\ \A x \in Ids \ {id} : WithAvailable(things, id, FALSE)[x] = things[x]
        /\ WithAvailable(things, id, FALSE)[id].available = FALSE
        /\ things[id] \in Thing
    <3>1. Good(things) /\ Stored(things, id)
      BY <1>2, <2>2
    <3>2. QED
      BY <3>1, WithAvailableGood
  <2>5. /\ Good(things') /\ Extends(things, things') /\ \A x \in Ids \ {id} : things'[x] = things[x]
        /\ things'[id].available = FALSE
    BY <2>1, <2>4
  <2>6. things' \in [Ids -> Thing \cup {None}] /\ ~things'[id].available
    BY <2>5 DEF Good, TableOK
  <2>7. Stored(things', id) /\ things'[id].name = things[id].name
    BY <1>2, <2>2, <2>5, ExtendsStored
  <2>8. \A x \in Ids \ {id} :
          things'[x] = things[x] /\ (Stored(things', x) <=> Stored(things, x))
    BY <1>2, <2>5, <2>6 DEF Stored
  <2>9. NamesKept(things, things', DOMAIN sync.offer)
    BY <2>2, <2>7, <2>8, OneKept
  <2>10. SnapshotOK'
    BY <1>2, <2>3, <2>5, SnapshotKept
  <2>11. ASSUME NEW name \in McpNames \ touched
         PROVE  IF name \in DOMAIN sync.offer THEN AsOffered(name)'
                ELSE \A x \in Ids : Holds(name, x)' => x \in sync.todo \ {id} \/ ~things'[x].available
    <3>1. CASE name \in DOMAIN sync.offer
      <4>1. AsOffered(name)
        BY <1>2, <3>1
      <4>2. \A x \in Ids : Holds(name, x) => /\ Holds(name, x)'
                                             /\ things'[x].available = things[x].available
                                             /\ things'[x].version = things[x].version
        BY <2>9, <3>1 DEF NamesKept, Holds
      <4>3. QED
        BY <2>3, <3>1, <4>1, <4>2 DEF AsOffered
    <3>2. CASE name \notin DOMAIN sync.offer
      <4>1. ASSUME NEW x \in Ids, Holds(name, x)'
            PROVE  x \in sync.todo \ {id} \/ ~things'[x].available
        <5>1. CASE x = id
          BY <2>6, <5>1
        <5>2. CASE x # id
          <6>1. Holds(name, x) /\ things'[x].available = things[x].available
            BY <2>8, <4>1, <5>2 DEF Holds, Live
          <6>2. QED
            BY <1>2, <3>2, <5>2, <6>1
        <5>3. QED
          BY <5>1, <5>2
      <4>2. QED
        BY <3>2, <4>1
    <3>3. QED
      BY <3>1, <3>2
  <2>12. SyncOK'
    BY <1>1, <1>2, <2>3, <2>10, <2>11 DEF SyncOK, Syncs
  <2>13. QED
    BY <1>1, <1>2, <2>5, <2>12, SyncStep
<1>4. CASE sync.todo = {} /\ sync' = [sync EXCEPT !.pc = "synced"] /\ UNCHANGED things
  <2>1. /\ sync' \in Syncing /\ sync'.pc = "synced" /\ sync'.existing = sync.existing
        /\ sync'.todo = {} /\ sync'.offer = sync.offer
    BY <1>2, <1>4 DEF SyncOK, Syncing
  <2>2. Extends(things, things') /\ Good(things')
    BY <1>2, <1>4, Itself
  <2>3. SnapshotOK'
    BY <1>2, <2>1, <2>2, SnapshotKept
  <2>4. \A name \in McpNames : AsOffered(name)' <=> AsOffered(name)
    BY <1>4, <2>1 DEF AsOffered, Holds
  <2>5. \A name \in McpNames, id \in Ids : Holds(name, id)' <=> Holds(name, id)
    BY <1>4 DEF Holds
  <2>6. SyncOK'
    BY <1>1, <1>2, <1>4, <2>1, <2>3, <2>4, <2>5 DEF SyncOK, Syncs
  <2>7. QED
    BY <1>1, <1>2, <2>2, <2>6, SyncStep
<1>5. QED
  BY <1>3, <1>4 DEF SyncGone

LEMMA SyncEndsOK == ASSUME IInv, SyncEnds PROVE IInv'
<1>1. /\ sync.pc = "synced" /\ sync' = Resting
      /\ UNCHANGED <<things, rooms, equip, handled, boot, call, connected, torn>>
  BY DEF SyncEnds, Syncs, SyncFrame
<1>2. Serving /\ SyncOK'
  BY <1>1, SyncServes, RestingOK
<1>3. Good(things') /\ Extends(things, things')
  BY <1>1, Itself DEF IInv, TablesOK, Good
<1>4. QED
  BY <1>1, <1>2, <1>3, SyncStep

LEMMA RemovedOK == ASSUME IInv, Removed PROVE IInv'
<1>1. /\ Serving /\ UNCHANGED <<things, rooms, equip, handled, boot, call, connected, torn>>
      /\ sync' = [Resting EXCEPT !.pc = "gone", !.todo = Matching(things, McpNames),
                                 !.existing = Snapshot]
      /\ touched' = {}
  BY DEF Removed, SyncFrame, Snapshot
<1>2. /\ Snapshot \in Snapshots /\ DOMAIN Snapshot = Matching(things, McpNames)
      /\ Matching(things, McpNames) \subseteq Ids
      /\ \A id \in Matching(things, McpNames) :
           /\ Live(things, id) /\ things[id].name \in McpNames /\ Snapshot[id] = things[id]
           /\ ParentExists(things, things[id])
      /\ \A id \in Ids, name \in McpNames :
           Holds(name, id) => id \in Matching(things, McpNames)
  BY SnapshotTyped
<1>3. /\ sync' \in Syncing /\ sync'.pc = "gone" /\ sync'.existing = Snapshot
      /\ sync'.todo = Matching(things, McpNames) /\ DOMAIN sync'.offer = {}
  BY <1>1, <1>2, IdleTyped DEF Resting, Syncing
<1>4. SnapshotOK'
  BY <1>1, <1>2, <1>3 DEF SnapshotOK, Live
<1>5. \A name \in McpNames, id \in Ids : Holds(name, id)' => id \in Matching(things, McpNames)
  BY <1>1, <1>2 DEF Holds
<1>6. SyncOK'
  BY <1>1, <1>2, <1>3, <1>4, <1>5 DEF SyncOK, Syncs
<1>7. Good(things') /\ Extends(things, things')
  BY <1>1, Itself DEF IInv, TablesOK, Good
<1>8. QED
  BY <1>1, <1>6, <1>7, SyncStep

-----------------------------------------------------------------------------
(* The invariant and what follows from it                                  *)

LEMMA StutterOK == IInv /\ UNCHANGED vars => IInv'
<1> SUFFICES ASSUME IInv, UNCHANGED vars PROVE IInv'
  OBVIOUS
<1>1. UNCHANGED <<things, rooms, equip, handled, boot, call, connected, sync, touched, torn>>
  BY DEF vars
<1>2. TablesOK'
  BY <1>1 DEF IInv, TablesOK, NoneEquipped
<1>3. Done(Len(Bootstrap))' <=> Done(Len(Bootstrap))
  BY <1>1 DEF Done
<1>4. Done(boot.done)' <=> Done(boot.done)
  BY <1>1 DEF Done
<1>5. Quiet' <=> Quiet
  BY <1>1 DEF Quiet
<1>6. BootOK'
  BY <1>1, <1>3, <1>4, <1>5 DEF IInv, BootOK
<1>7. CallsOK'
  BY <1>1 DEF IInv, CallsOK
<1>8. ForksOK'
  BY <1>1 DEF IInv, ForksOK, Forking, At
<1>9. things \in [Ids -> Thing \cup {None}] /\ SyncOK
  BY DEF IInv, TablesOK, TableOK
<1>10. Extends(things, things') /\ NamesKept(things, things', McpNames \ touched')
  BY <1>1, Itself
<1>11. SyncOK'
  BY <1>1, <1>9, <1>10, SyncKept
<1>12. QED
  BY <1>2, <1>6, <1>7, <1>8, <1>11 DEF IInv

LEMMA CommandOK == ASSUME IInv, NEW c \in Clients, Command(c) PROVE IInv'
<1>1. CASE Conjure(c) \/ Unconjure(c) \/ Destroy(c) \/ Lookup(c) \/ Delete(c)
  BY <1>1, ConjureOK, UnconjureOK, DestroyOK, LookupOK, DeleteOK
<1>2. CASE Take(c) \/ ReadOriginal(c) \/ InsertCopy(c) \/ Drop(c) \/ Move(c)
  BY <1>2, TakeOK, ReadOriginalOK, InsertCopyOK, DropOK, MoveOK
<1>3. CASE Equip(c) \/ EquipOne(c) \/ EquipTool(c) \/ ReadPriority(c) \/ PutTool(c)
  BY <1>3, EquipOK, EquipOneOK, EquipToolOK, ReadPriorityOK, PutToolOK
<1>4. CASE Unequip(c) \/ UnequipOne(c) \/ ForkRoom(c) \/ ReadSource(c) \/ CopyEquip(c)
  BY <1>4, UnequipOK, UnequipOneOK, ForkRoomOK, ReadSourceOK, CopyEquipOK
<1>5. QED
  BY <1>1, <1>2, <1>3, <1>4 DEF Command

LEMMA NextOK == IInv /\ [Next]_vars => IInv'
<1> SUFFICES ASSUME IInv, [Next]_vars PROVE IInv'
  OBVIOUS
<1>1. CASE CheckWorld \/ BootstrapStep \/ Crash
  BY <1>1, CheckWorldOK, BootstrapStepOK, CrashOK
<1>2. CASE \E c \in Clients : InitSession(c) \/ EnsureAgent(c) \/ Command(c)
  BY <1>2, InitSessionOK, EnsureAgentOK, CommandOK
<1>3. CASE ToolsRefreshed \/ SyncContainer \/ SyncFind \/ SyncTool
  BY <1>3, ToolsRefreshedOK, SyncContainerOK, SyncFindOK, SyncToolOK
<1>4. CASE SyncedAll \/ SyncGone \/ SyncEnds \/ Removed
  BY <1>4, SyncedAllOK, SyncGoneOK, SyncEndsOK, RemovedOK
<1>5. CASE UNCHANGED vars
  BY <1>5, StutterOK
<1>6. QED
  BY <1>1, <1>2, <1>3, <1>4, <1>5 DEF Next

\* The invariant that is inductive.
THEOREM InventoryInvariant == Spec => []IInv
<1>1. QED
  BY InitOK, NextOK, PTL DEF Spec

\* The type invariant: every row has its columns, and the foreign keys and the
\* unique indexes of the schema hold, whoever wrote last.
THEOREM InventoryIsTyped == Spec => []TypeOK
<1>1. IInv => TypeOK
  <2> SUFFICES ASSUME IInv PROVE TypeOK
    OBVIOUS
  <2>1. boot \in [pc : {"check", "insert", "serving"}, done : 0..Len(Bootstrap)]
        /\ connected \subseteq Clients
    BY DEF IInv, BootOK
  <2>2. TableOK(things) /\ KeysOK(equip) /\ rooms \subseteq {Home, Lobby, Fork}
        /\ handled \subseteq Ids \X Slots
    BY DEF IInv, TablesOK
  <2>3. QED
    BY <2>1, <2>2 DEF TypeOK, TableOK, KeysOK
<1>2. QED
  BY <1>1, InventoryInvariant, PTL

\* A served world is complete and a session has its agent's thing, unless a
\* crash interrupted the first start (bootstrap_world, ensure_agent_thing).
THEOREM WorldIsServed == Spec => []WorldIsComplete
<1>1. IInv => WorldIsComplete
  <2> SUFFICES ASSUME IInv, Serving, ~torn
               PROVE  /\ \A id \in {World, Rooms, Internal, Agents, Mcps, Home, Lobby, LookTool} :
                           Stored(things, id)
                      /\ {Home, Lobby} \subseteq rooms
                      /\ connected # {} => Live(things, Agent)
    BY DEF WorldIsComplete
  <2>1. \A id \in {World, Rooms, Internal, Agents, Mcps, Home, Lobby, LookTool} :
          Stored(things, id) /\ {Home, Lobby} \subseteq rooms
    BY ContainersStored
  <2>2. connected # {} => Live(things, Agent)
    BY DEF IInv, BootOK, TablesOK, AgentOK, Live
  <2>3. QED
    BY <2>1, <2>2
<1>2. QED
  BY <1>1, InventoryInvariant, PTL

\* A fork has copied what it read so far and nothing else, for every way the
\* others equip and unequip meanwhile, but for the keys they write in the new
\* room itself (copy_room_equipment).
THEOREM ForkCopiesItsSource == Spec => []ForkIsFaithful
<1>1. IInv => ForkIsFaithful
  <2>1. IInv => ForksOK
    BY DEF IInv
  <2>2. QED
    BY <2>1 DEF ForksOK, Copies, ForkIsFaithful, Keys, Under
<1>2. QED
  BY <1>1, InventoryInvariant, PTL

\* A sync that ends well leaves exactly the offer, but for the names a command
\* wrote to since it read the table (sync_mcp_tools).
THEOREM SyncLeavesTheOffer == Spec => []SyncIsExact
<1>1. IInv => SyncIsExact
  <2> SUFFICES ASSUME IInv, Syncs("synced"), NEW name \in McpNames \ touched
               PROVE  IF name \in DOMAIN sync.offer
                      THEN \E id \in LiveIds(things) :
                             /\ things[id].name = name /\ things[id].available
                             /\ things[id].version = sync.offer[name]
                      ELSE \A id \in LiveIds(things) :
                             things[id].name = name => ~things[id].available
    BY DEF SyncIsExact
  <2>1. \A id : id \in LiveIds(things) <=> id \in Ids /\ Live(things, id)
    BY DEF LiveIds, IInv, TablesOK, TableOK
  <2>2. /\ sync.todo = {}
        /\ IF name \in DOMAIN sync.offer THEN AsOffered(name)
           ELSE \A id \in Ids : Holds(name, id) => id \in sync.todo \/ ~things[id].available
    BY DEF IInv, SyncOK, Syncs
  <2>3. CASE name \in DOMAIN sync.offer
    BY <2>1, <2>2, <2>3 DEF AsOffered, Holds
  <2>4. CASE name \notin DOMAIN sync.offer
    BY <2>1, <2>2, <2>4 DEF Holds
  <2>5. QED
    BY <2>3, <2>4
<1>2. QED
  BY <1>1, InventoryInvariant, PTL

\* A step by which the thing keeps its parent, or takes that of the snapshot of
\* a sync, or of another drop
Stays ==
  \A id \in Ids : Stored(things, id) /\ things[id].parent \in {Home, Lobby} =>
    \/ things'[id].parent = things[id].parent
    \/ id \in DOMAIN sync.existing /\ sync.existing[id].parent = things'[id].parent
    \/ \E c \in Clients : /\ At(c, "move") /\ call[c].id = id
                         /\ things'[id].parent = call[c].ctx /\ call[c].ctx \in {Home, Lobby}

LEMMA InsertStays ==
  ASSUME IInv, NEW id \in Ids, NEW r, ~Stored(things, id), things' = Inserted(things, id, r)
  PROVE  Stays
<1>1. things \in [Ids -> Thing \cup {None}]
  BY DEF IInv, TablesOK, TableOK
<1>2. \A x \in Ids : Stored(things, x) => things'[x] = things[x]
  BY <1>1 DEF Inserted
<1>3. QED
  BY <1>2 DEF Stays

LEMMA BootstrapStays == ASSUME IInv, BootstrapStep PROVE Stays
<1>1. \A id \in Ids : Stored(things, id) => things[id].parent \notin {Home, Lobby}
  BY DEF IInv, BootOK, BootstrapStep
<1>2. QED
  BY <1>1 DEF Stays

LEMMA EnsureAgentStays == ASSUME IInv, NEW c \in Clients, EnsureAgent(c) PROVE Stays
<1> DEFINE row == NewThing("agent", Agents)
<1>1. things' = IF CanInsert(things, Agent, row) THEN Inserted(things, Agent, row) ELSE things
  BY DEF EnsureAgent
<1>2. CASE CanInsert(things, Agent, row)
  BY <1>1, <1>2, FixedIds, InsertStays DEF CanInsert
<1>3. CASE ~CanInsert(things, Agent, row)
  BY <1>1, <1>3 DEF Stays
<1>4. QED
  BY <1>2, <1>3

LEMMA ConjureStays == ASSUME IInv, NEW c \in Clients, Conjure(c) PROVE Stays
<1>1. PICK made \in Conjured :
        LET row == [NewThing(made.kind, made.parent) EXCEPT !.name = made.name,
                                                            !.slot = made.slot]
        IN  /\ FreshIds # {} /\ things' = Upserted(things, FreshId, row)
  BY DEF Conjure
<1> DEFINE row == [NewThing(made.kind, made.parent) EXCEPT !.name = made.name, !.slot = made.slot]
<1>2. things' = Upserted(things, FreshId, row) /\ FreshId \in Ids /\ ~Stored(things, FreshId)
  BY <1>1, FreshDrawn
<1> HIDE DEF row
<1>3. things \in [Ids -> Thing \cup {None}]
  BY DEF IInv, TablesOK, TableOK
<1>4. CASE ~Conflicts(things, row)
  <2>1. things' = Inserted(things, FreshId, row)
    BY <1>2, <1>4 DEF Upserted
  <2>2. QED
    BY <1>2, <2>1, InsertStays
<1>5. CASE Conflicts(things, row)
  <2>1. PICK n \in Ids : n = Named(things, row.name) /\ Stored(things, n)
    BY <1>3, <1>5, NamedFinds DEF Conflicts, Live
  <2> DEFINE q == [things[n] EXCEPT !.version = row.version, !.slot = row.slot,
                                    !.available = row.available]
  <2>2. things' = [things EXCEPT ![n] = q]
    BY <1>2, <1>5, <2>1 DEF Upserted
  <2>3. q.parent = things[n].parent
    <3>1. things[n] \in Thing
      BY <1>3, <2>1, StoredTyped
    <3>2. QED
      BY <3>1 DEF Thing
  <2> HIDE DEF q
  <2>4. \A x \in Ids : things'[x].parent = things[x].parent
    BY <1>3, <2>2, <2>3
  <2>5. QED
    BY <2>4 DEF Stays
<1>6. QED
  BY <1>4, <1>5

LEMMA DeleteStays == ASSUME IInv, NEW c \in Clients, Delete(c) PROVE Stays
<1>1. things' = SoftDeleted(things, call[c].id) /\ At(c, "delete")
  BY DEF Delete
<1>2. CallOK(call[c], things) /\ call[c].pc = "delete"
  BY <1>1, AtServes
<1>3. things \in [Ids -> Thing \cup {None}] /\ Stored(things, call[c].id)
  BY <1>2 DEF IInv, TablesOK, TableOK, CallOK, Reads
<1> DEFINE q == [things[call[c].id] EXCEPT !.deleted = TRUE]
<1>4. things' = [things EXCEPT ![call[c].id] = q]
  BY <1>1 DEF SoftDeleted
<1>5. q.parent = things[call[c].id].parent
  <2>1. things[call[c].id] \in Thing
    BY <1>3, StoredTyped
  <2>2. QED
    BY <2>1 DEF Thing
<1> HIDE DEF q
<1>6. \A x \in Ids : things'[x].parent = things[x].parent
  BY <1>3, <1>4, <1>5
<1>7. QED
  BY <1>6 DEF Stays

LEMMA InsertCopyStays == ASSUME IInv, NEW c \in Clients, InsertCopy(c) PROVE Stays
<1> DEFINE row == CopyOf(call[c].row, call[c].id, Agent)
<1>1. /\ FreshIds # {}
      /\ things' = IF CanInsert(things, FreshId, row)
                   THEN Inserted(things, FreshId, row) ELSE things
  BY DEF InsertCopy
<1> HIDE DEF row
<1>2. CASE CanInsert(things, FreshId, row)
  BY <1>1, <1>2, FreshDrawn, InsertStays
<1>3. CASE ~CanInsert(things, FreshId, row)
  BY <1>1, <1>3 DEF Stays
<1>4. QED
  BY <1>2, <1>3

LEMMA MoveStays == ASSUME IInv, NEW c \in Clients, Move(c) PROVE Stays
<1>1. /\ At(c, "move")
      /\ things' = IF CanMove(things, call[c].ctx)
                   THEN Moved(things, call[c].id, call[c].ctx) ELSE things
  BY DEF Move
<1>2. CallOK(call[c], things) /\ call[c].pc = "move"
  BY <1>1, AtServes
<1>3. things \in [Ids -> Thing \cup {None}] /\ Good(things) /\ Stored(things, call[c].id)
      /\ call[c].ctx \in {Home, Lobby, Fork}
  BY <1>2 DEF IInv, TablesOK, TableOK, CallOK, Reads, Good
<1>4. CASE CanMove(things, call[c].ctx)
  <2>1. Stored(things, call[c].ctx) /\ call[c].ctx \in {Home, Lobby}
    BY <1>3, <1>4, FixedIds DEF CanMove, Stored
  <2> DEFINE q == [things[call[c].id] EXCEPT !.parent = call[c].ctx]
  <2>2. things' = [things EXCEPT ![call[c].id] = q]
    BY <1>1, <1>4 DEF Moved
  <2>3. q.parent = call[c].ctx
    <3>1. things[call[c].id] \in Thing
      BY <1>3, StoredTyped
    <3>2. QED
      BY <3>1 DEF Thing
  <2> HIDE DEF q
  <2>4. ASSUME NEW x \in Ids
        PROVE  \/ things'[x].parent = things[x].parent
               \/ call[c].id = x /\ things'[x].parent = call[c].ctx
    <3>1. CASE x = call[c].id
      <4>1. things'[x] = q
        BY <1>3, <2>2, <3>1
      <4>2. QED
        BY <2>3, <3>1, <4>1
    <3>2. CASE x # call[c].id
      <4>1. things'[x] = things[x]
        BY <1>3, <2>2, <3>2
      <4>2. QED
        BY <4>1
    <3>3. QED
      BY <3>1, <3>2
  <2>5. QED
    BY <1>1, <2>1, <2>4 DEF Stays
<1>5. CASE ~CanMove(things, call[c].ctx)
  BY <1>1, <1>5 DEF Stays
<1>6. QED
  BY <1>4, <1>5

LEMMA SyncContainerStays == ASSUME IInv, SyncContainer PROVE Stays
<1> DEFINE row == NewThing("mcp", Mcps)
<1>1. \/ ~Stored(things, Mcp) /\ things' = Inserted(things, Mcp, row)
      \/ things' = things
  BY DEF SyncContainer, Aborts
<1> HIDE DEF row
<1>2. CASE ~Stored(things, Mcp) /\ things' = Inserted(things, Mcp, row)
  BY <1>2, FixedIds, InsertStays
<1>3. CASE things' = things
  BY <1>3 DEF Stays
<1>4. QED
  BY <1>1, <1>2, <1>3

LEMMA SyncToolStays == ASSUME IInv, SyncTool PROVE Stays
<1>1. PICK name \in sync.todo :
        LET id == Known(name)
            new == Tool(name, Mcp, sync.offer[name])
            old == sync.existing[id]
            changed == [old EXCEPT !.version = sync.offer[name], !.available = TRUE]
        IN  \/ /\ id # None
               /\ things' = IF old = changed THEN things ELSE Updated(things, id, changed)
            \/ FreshIds # {} /\ things' = Inserted(things, FreshId, new)
            \/ things' = things
  BY DEF SyncTool, Aborts
<1> DEFINE id == Known(name)
           new == Tool(name, Mcp, sync.offer[name])
           old == sync.existing[id]
           changed == [old EXCEPT !.version = sync.offer[name], !.available = TRUE]
<1>2. CASE things' = things
  BY <1>2 DEF Stays
<1>3. CASE FreshIds # {} /\ things' = Inserted(things, FreshId, new)
  <2> HIDE DEF new
  <2>1. QED
    BY <1>3, FreshDrawn, InsertStays
<1>4. CASE id # None /\ things' = Updated(things, id, changed)
  <2>1. id \in DOMAIN sync.existing
    BY <1>4 DEF Known
  <2>2. things \in [Ids -> Thing \cup {None}] /\ old \in Thing
    BY <2>1, SyncTyped DEF IInv, TablesOK, TableOK
  <2> DEFINE q == [changed EXCEPT !.deleted = things[id].deleted, !.from = things[id].from]
  <2>3. things' = [things EXCEPT ![id] = q]
    BY <1>4 DEF Updated
  <2>4. q.parent = old.parent
    BY <2>2 DEF Thing
  <2> HIDE DEF q, id
  <2>5. \A x \in Ids : \/ things'[x].parent = things[x].parent
                       \/ x = id /\ things'[x].parent = sync.existing[x].parent
    BY <2>2, <2>3, <2>4
  <2>6. QED
    BY <2>1, <2>5 DEF Stays
<1>5. QED
  BY <1>1, <1>2, <1>3, <1>4

LEMMA SyncGoneStays == ASSUME IInv, SyncGone PROVE Stays
<1>1. CASE \E id \in sync.todo : things' = WithAvailable(things, id, FALSE)
  <2>1. PICK id \in sync.todo : things' = WithAvailable(things, id, FALSE)
    BY <1>1
  <2>2. id \in DOMAIN sync.existing
    BY DEF SyncGone, IInv, SyncOK
  <2>3. things \in [Ids -> Thing \cup {None}] /\ Stored(things, id)
    BY <2>2 DEF IInv, TablesOK, TableOK, SyncOK, SnapshotOK
  <2> DEFINE q == [things[id] EXCEPT !.available = FALSE]
  <2>4. things' = [things EXCEPT ![id] = q]
    BY <2>1 DEF WithAvailable
  <2>5. q.parent = things[id].parent
    <3>1. things[id] \in Thing
      BY <2>3, StoredTyped
    <3>2. QED
      BY <3>1 DEF Thing
  <2> HIDE DEF q
  <2>6. \A x \in Ids : things'[x].parent = things[x].parent
    BY <2>3, <2>4, <2>5
  <2>7. QED
    BY <2>6 DEF Stays
<1>2. CASE things' = things
  BY <1>2 DEF Stays
<1>3. QED
  BY <1>1, <1>2 DEF SyncGone

LEMMA SameStays == ASSUME things' = things PROVE Stays
BY DEF Stays

LEMMA CommandStays == ASSUME IInv, NEW c \in Clients, Command(c) PROVE Stays
<1>1. CASE Conjure(c)
  BY <1>1, ConjureStays
<1>2. CASE Delete(c)
  BY <1>2, DeleteStays
<1>3. CASE InsertCopy(c)
  BY <1>3, InsertCopyStays
<1>4. CASE Move(c)
  BY <1>4, MoveStays
<1>5. CASE Unconjure(c) \/ Destroy(c) \/ Lookup(c) \/ Take(c) \/ ReadOriginal(c) \/ Drop(c)
  BY <1>5, SameStays DEF Unconjure, Destroy, Lookup, Take, ReadOriginal, Drop, Storage
<1>6. CASE Equip(c) \/ EquipOne(c) \/ EquipTool(c) \/ ReadPriority(c) \/ PutTool(c)
  BY <1>6, SameStays DEF Equip, EquipOne, EquipTool, ReadPriority, PutTool, Storage
<1>7. CASE Unequip(c) \/ UnequipOne(c) \/ ForkRoom(c) \/ ReadSource(c) \/ CopyEquip(c)
  BY <1>7, SameStays DEF Unequip, UnequipOne, ForkRoom, ReadSource, CopyEquip, Storage
<1>8. QED
  BY <1>1, <1>2, <1>3, <1>4, <1>5, <1>6, <1>7 DEF Command

\* What was dropped in a room leaves it only through a sync that read it before
\* it was moved, or another drop that found it before (thing_move, update_thing).
THEOREM DroppedStaysDropped == Spec => DroppedStays
<1>1. IInv /\ [Next]_vars => [Stays]_vars
  <2> SUFFICES ASSUME IInv, Next PROVE Stays
    OBVIOUS
  <2>1. CASE CheckWorld \/ Crash
    BY <2>1, SameStays DEF CheckWorld, Crash, Storage
  <2>2. CASE BootstrapStep
    BY <2>2, BootstrapStays
  <2>3. CASE \E c \in Clients : InitSession(c) \/ EnsureAgent(c) \/ Command(c)
    <3>1. PICK c \in Clients : InitSession(c) \/ EnsureAgent(c) \/ Command(c)
      BY <2>3
    <3>2. CASE InitSession(c)
      BY <3>2, SameStays DEF InitSession, Storage
    <3>3. CASE EnsureAgent(c)
      BY <3>3, EnsureAgentStays
    <3>4. CASE Command(c)
      BY <3>4, CommandStays
    <3>5. QED
      BY <3>1, <3>2, <3>3, <3>4
  <2>4. CASE SyncContainer \/ SyncTool \/ SyncGone
    BY <2>4, SyncContainerStays, SyncToolStays, SyncGoneStays
  <2>5. CASE ToolsRefreshed \/ SyncFind \/ SyncedAll \/ SyncEnds \/ Removed
    BY <2>5, SameStays DEF ToolsRefreshed, SyncFind, SyncedAll, SyncEnds, Removed
  <2>6. QED
    BY <2>1, <2>2, <2>3, <2>4, <2>5 DEF Next
<1>2. QED
  BY <1>1, InventoryInvariant, PTL DEF Spec, DroppedStays, Stays
=============================================================================

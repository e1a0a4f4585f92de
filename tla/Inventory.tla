----------------------------- MODULE Inventory ------------------------------
(***************************************************************************)
(* Things and equipment while the program runs: the bootstrap of the world *)
(* (db/things.rs), the task that syncs the tools of MCP servers (main.rs), *)
(* and the commands of users and MCP clients, which reach the tables       *)
(* through the Lua tools of lua/tools.rs.  Every call of the database is   *)
(* one step under its mutex; a command makes several, and the others' come *)
(* in between.  A crash may come anywhere and leaves the tables.           *)
(*                                                                         *)
(* One agent has several connections; one MCP server has several tools.    *)
(* A row of agents exists for the agent from the start.                    *)
(***************************************************************************)
EXTENDS Equipment, Sequences

CONSTANTS
  Clients,          \* connections of one agent
  World, Rooms, Internal, Agents, Mcps,   \* fixed ids of containers
  Containers,       \* the containers under the world, in the order of the code
  Home, Lobby,      \* fixed ids: the two rooms
  Fork,             \* the room that is made by a fork
  LookTool,         \* fixed id: an internal tool
  Look,             \* and its name
  Agent,            \* agent_<name>, the thing of the agent, and the agent
  Mcp,              \* mcp_<name>, the container of the MCP server
  McpNames,         \* names of the tools the server may offer
  Names,            \* names users make things under
  Patterns,         \* glob patterns, as the sets of the names they match
  Hook,             \* a slot
  Places,           \* rooms in which commands equip
  Conjured,         \* what users make: kind, parent, name and default slot
  Versions,         \* descriptions
  MaxThings,        \* bound: things that get a fresh id
  MaxEquips,        \* bound: rows of equipment
  MaxCalls,         \* bound: commands made
  MaxSyncs,         \* bound: events of the MCP server
  MaxCrashes,       \* bound: crashes
  MaxWork           \* bound: these together, a command for two

ASSUME ContainerAssumption ==
  /\ Containers \in Seq({Rooms, Internal, Agents, Mcps})
  /\ {Containers[i] : i \in DOMAIN Containers} = {Rooms, Internal, Agents, Mcps}
ASSUME ConjuredAssumption ==
  Conjured \subseteq [kind : {"tool", "data"}, parent : {Agent, Lobby},
                     name : Names \cup McpNames, slot : {None, Hook}]
ASSUME BoundsAssumption ==
  {MaxThings, MaxEquips, MaxCalls, MaxSyncs, MaxCrashes, MaxWork} \subseteq Nat

VARIABLES
  things,     \* the table things
  rooms,      \* the ids of the table rooms
  equip,      \* the tables room_equip and agent_equip
  boot,       \* the start of the program: its state, and the inserts done
  call,       \* the command of a client that is under way
  connected,  \* the connections whose session is initialized
  sync,       \* the task that syncs MCP tools
  count,      \* calls, syncs and crashes so far
  handled,    \* keys of the new room that others than its fork wrote
  touched,    \* names written by commands since the sync read the table
  torn        \* a crash interrupted the bootstrap

vars ==
  <<things, rooms, equip, handled, boot, call, connected, sync, count, touched, torn>>

Fresh == 1..MaxThings
Fixed == {World, Rooms, Internal, Agents, Mcps, Home, Lobby, LookTool, Agent, Mcp}
Ids == Fixed \cup Fresh
Slots == {None, Hook}

\* The rows of the tables
Thing == [kind : Kinds, parent : Ids \cup {None}, name : Names \cup McpNames \cup {Look, None},
          slot : Slots, version : Versions \cup {0}, available : BOOLEAN, deleted : BOOLEAN,
          from : Ids \cup {None}]
Equipped == [ctx : {Home, Lobby, Fork, Agent}, thing : Ids, slot : Slots, priority : Nat,
             deleted : BOOLEAN]

\* What the unique index of a room tells apart
KeyOf(r) == <<r.thing, r.slot>>

\* NULL is no id, no name and no row; the new room is no thing; the agent's id
\* is neither drawn nor that of the tool; a room is no container.
ASSUME IdAssumption ==
  /\ {None, Fork} \cap Ids = {} /\ Fork # None
  /\ None \notin Names \cup McpNames \cup {Look} \cup Thing \cup Equipped
  /\ Agent \notin Fresh \cup {LookTool}
  /\ {Home, Lobby} \cap {World, Rooms, Internal, Agents, Mcps} = {}

-----------------------------------------------------------------------------
(* The start of the program: bootstrap_world                               *)

\* One insert each, in this order.
Insert(id, row) == [table |-> "things", id |-> id, row |-> row]
RoomRow(id) == [table |-> "rooms", id |-> id, row |-> None]
EquipIn(id, row) == [table |-> "equip", id |-> id, row |-> row]

Bootstrap ==
  <<Insert(World, NewThing("container", None))>>
  \o [i \in DOMAIN Containers |->
        Insert(Containers[i], NewThing("container", World))]
  \o <<Insert(Home, NewThing("room", Rooms)), RoomRow(Home),
       Insert(Lobby, NewThing("room", Rooms)), RoomRow(Lobby),
       Insert(LookTool, Tool(Look, Internal, 0)),
       EquipIn(LookTool, EquipRow(Lobby, LookTool, None, 0))>>

Idle == [pc |-> "idle", id |-> None, name |-> None, ctx |-> None,
         slot |-> None, row |-> None, todo |-> {}, done |-> 0]
Resting == [pc |-> "idle", offer |-> <<>>, existing |-> <<>>, todo |-> {}]

Init ==
  /\ things = [id \in Ids |-> None]
  /\ rooms = {}
  /\ equip = [i \in 1..MaxEquips |-> None]
  /\ boot = [pc |-> "check", done |-> 0]
  /\ call = [c \in Clients |-> Idle]
  /\ connected = {}
  /\ sync = Resting
  /\ count = [calls |-> 0, syncs |-> 0, crashes |-> 0]
  /\ handled = {}
  /\ touched = {}
  /\ torn = FALSE

Serving == boot.pc = "serving"
Affords(n) == 2 * count.calls + count.syncs + count.crashes + n <= MaxWork
Storage == <<things, rooms, equip, handled>>

\* An existing world is taken for a complete one.
CheckWorld ==
  /\ boot.pc = "check"
  /\ boot' = [boot EXCEPT !.pc = IF Stored(things, World) THEN "serving" ELSE "insert"]
  /\ UNCHANGED <<Storage, call, connected, sync, count, touched, torn>>

BootstrapStep ==
  /\ boot.pc = "insert"
  /\ LET item == Bootstrap[boot.done + 1]
     IN  /\ things' = IF item.table = "things"
                      THEN Inserted(things, item.id, item.row) ELSE things
         /\ rooms' = IF item.table = "rooms" THEN rooms \cup {item.id} ELSE rooms
         /\ equip' = IF item.table = "equip" THEN WithRow(equip, item.row) ELSE equip
  /\ boot' = [pc |-> IF boot.done + 1 = Len(Bootstrap) THEN "serving" ELSE "insert",
              done |-> boot.done + 1]
  /\ UNCHANGED <<handled, call, connected, sync, count, touched, torn>>

\* The process dies and is started again on the same database.
Crash ==
  /\ count.crashes < MaxCrashes /\ Affords(1)
  /\ count' = [count EXCEPT !.crashes = @ + 1]
  /\ boot' = [pc |-> "check", done |-> 0]
  /\ torn' = (torn \/ (boot.pc = "insert" /\ boot.done > 0))
  /\ call' = [c \in Clients |-> Idle]
  /\ connected' = {}
  /\ sync' = Resting
  /\ touched' = {}
  /\ UNCHANGED Storage

-----------------------------------------------------------------------------
(* The session of a connection: ensure_agent_thing                         *)

At(c, pc) == call[c].pc = pc
Becomes(c, r) == call' = [call EXCEPT ![c] = r]
Finishes(c) == Becomes(c, Idle)

\* Variant: the session goes on while the thing is inserted.
InitEarly(c) ==
  /\ Serving /\ c \notin connected /\ At(c, "idle")
  /\ connected' = connected \cup {c}
  /\ IF Stored(things, Agent) THEN UNCHANGED call
     ELSE Becomes(c, [Idle EXCEPT !.pc = "ensure"])
  /\ UNCHANGED <<Storage, boot, sync, count, touched, torn>>

\* Found, the session goes on; else the thing is inserted in a second call.
InitSession(c) ==
  /\ Serving
  /\ c \notin connected
  /\ At(c, "idle")
  /\ IF Stored(things, Agent)
     THEN connected' = connected \cup {c} /\ UNCHANGED call
     ELSE Becomes(c, [Idle EXCEPT !.pc = "ensure"]) /\ UNCHANGED connected
  /\ UNCHANGED <<Storage, boot, sync, count, touched, torn>>

\* A failure (another connection was faster) is logged, no more.
EnsureAgent(c) ==
  /\ At(c, "ensure")
  /\ LET row == NewThing("agent", Agents)
     IN  things' = IF CanInsert(things, Agent, row)
                   THEN Inserted(things, Agent, row) ELSE things
  /\ connected' = connected \cup {c}
  /\ Finishes(c)
  /\ UNCHANGED <<rooms, equip, handled, boot, sync, count, touched, torn>>

-----------------------------------------------------------------------------
(* Commands on things                                                      *)

Free(c) == c \in connected /\ At(c, "idle") /\ count.calls < MaxCalls /\ Affords(2)
Begins(c, r) ==
  /\ count' = [count EXCEPT !.calls = @ + 1]
  /\ Becomes(c, r)
  /\ UNCHANGED <<boot, connected, sync, torn>>

Continues == UNCHANGED <<boot, connected, sync, count, torn>>

FreshIds == {id \in Fresh : ~Stored(things, id)}
FreshId == CHOOSE id \in FreshIds : \A other \in FreshIds : id <= other

\* thing_create: the parent of a name that is taken stays what it was.
Conjure(c) ==
  Free(c) /\ \E made \in Conjured :
    LET row == [NewThing(made.kind, made.parent) EXCEPT !.name = made.name,
                                                        !.slot = made.slot]
    IN  /\ FreshIds # {} /\ CanUpsert(things, FreshId, row)
        /\ things' = Upserted(things, FreshId, row)
        /\ touched' = touched \cup {made.name}
        /\ Begins(c, Idle)
        /\ UNCHANGED <<rooms, equip, handled>>

\* thing_delete, for /unconjure: the name is looked up, ...
Unconjure(c) ==
  Free(c) /\ \E name \in Names \cup McpNames \cup {Look} :
    /\ Named(things, name) # None
    /\ Begins(c, [Idle EXCEPT !.pc = "delete", !.id = Named(things, name)])
    /\ UNCHANGED <<Storage, touched>>

\* ... for the destroy of MCP clients: the children of the owner are read first.
Destroy(c) ==
  Free(c) /\ \E id \in Children(things, Agent) \cup Children(things, Lobby) :
    /\ things[id].name # None
    /\ Begins(c, [Idle EXCEPT !.pc = "lookup", !.name = things[id].name])
    /\ UNCHANGED <<Storage, touched>>

Lookup(c) ==
  /\ At(c, "lookup")
  /\ LET id == Named(things, call[c].name)
     IN  Becomes(c, IF id = None THEN Idle
                    ELSE [Idle EXCEPT !.pc = "delete", !.id = id])
  /\ Continues
  /\ UNCHANGED <<Storage, touched>>

\* ... and the id found is deleted.
Delete(c) ==
  /\ At(c, "delete")
  /\ things' = SoftDeleted(things, call[c].id)
  /\ touched' = touched \cup {things[call[c].id].name}
  /\ Finishes(c)
  /\ Continues
  /\ UNCHANGED <<rooms, equip, handled>>

\* thing_copy, for /take: the thing is looked up, read by its id (deleted or
\* not), and its copy inserted.
Take(c) ==
  Free(c) /\ \E id \in Matching(things, Names \cup McpNames) :
    /\ Begins(c, [Idle EXCEPT !.pc = "read", !.id = id])
    /\ UNCHANGED <<Storage, touched>>

ReadOriginal(c) ==
  /\ At(c, "read")
  /\ Becomes(c, [call[c] EXCEPT !.pc = "copy", !.row = things[call[c].id]])
  /\ Continues
  /\ UNCHANGED <<Storage, touched>>

InsertCopy(c) ==
  /\ At(c, "copy") /\ FreshIds # {}
  /\ LET row == CopyOf(call[c].row, call[c].id, Agent)
     IN  things' = IF CanInsert(things, FreshId, row)
                   THEN Inserted(things, FreshId, row) ELSE things
  /\ Finishes(c)
  /\ Continues
  /\ UNCHANGED <<rooms, equip, handled, touched>>

\* thing_move, for /drop: a child of the agent goes to the room.
Drop(c) ==
  Free(c) /\ \E id \in Children(things, Agent), room \in rooms :
    /\ Begins(c, [Idle EXCEPT !.pc = "move", !.id = id, !.ctx = room])
    /\ UNCHANGED <<Storage, touched>>

Move(c) ==
  /\ At(c, "move")
  /\ things' = IF CanMove(things, call[c].ctx)
               THEN Moved(things, call[c].id, call[c].ctx) ELSE things
  /\ Finishes(c)
  /\ Continues
  /\ UNCHANGED <<rooms, equip, handled, touched>>

-----------------------------------------------------------------------------
(* Commands on equipment                                                   *)

\* A command equips for the agent, or in a room that has its row: the MCP
\* tools take any room by its name, one that is still copied included.
Contexts == (rooms \cap Places) \cup {Agent}

\* The foreign keys of a row of equipment.
CanEquip(ctx, id) == ctx \in rooms \cup {Agent} /\ Stored(things, id)

\* Other commands than the fork write in the new room.
Handles(ctx, id, slot) ==
  handled' = IF ctx = Fork THEN handled \cup {<<id, slot>>} ELSE handled

\* /equip: the things that match, each with the slot given or its own; they
\* are then equipped one by one, in some order, with their number as priority.
\* A failure ends the command.
Equip(c) ==
  Free(c) /\ \E ctx \in Contexts, slot \in Slots, names \in Patterns :
    LET found == Matching(things, names)
    IN  /\ found # {}
        /\ Begins(c, [Idle EXCEPT !.pc = "equip", !.ctx = ctx, !.todo =
                        {[thing |-> id, slot |-> IF slot = None THEN things[id].slot ELSE slot] :
                           id \in found}])
        /\ UNCHANGED <<Storage, touched>>

EquipOne(c) ==
  /\ At(c, "equip") /\ HasRoom(equip)
  /\ \E item \in call[c].todo :
       LET left == call[c].todo \ {item}
           number == call[c].done + 1
       IN  IF CanEquip(call[c].ctx, item.thing)
           THEN /\ equip' = WithRow(equip, EquipRow(call[c].ctx, item.thing,
                                                    item.slot, number))
                /\ Handles(call[c].ctx, item.thing, item.slot)
                /\ Becomes(c, IF left = {} THEN Idle
                              ELSE [call[c] EXCEPT !.todo = left, !.done = number])
           ELSE Finishes(c) /\ UNCHANGED <<equip, handled>>
  /\ Continues
  /\ UNCHANGED <<things, rooms, touched>>

\* equip_tool, and inventory_equip of MCP clients, where the name may be a
\* pattern: for each thing found the highest priority is read, then the row
\* is written; the list equip_tool returns is read last and changes nothing.
EquipTool(c) ==
  Free(c) /\ \E ctx \in rooms \cap Places,
     names \in Patterns \cup {{name} : name \in Names \cup McpNames \cup {Look}} :
    LET found == Matching(things, names)
    IN  /\ found # {}
        /\ Begins(c, [Idle EXCEPT !.pc = "priority", !.ctx = ctx, !.todo = found])
        /\ UNCHANGED <<Storage, touched>>

ReadPriority(c) ==
  /\ At(c, "priority")
  /\ \E id \in call[c].todo :
       Becomes(c, [call[c] EXCEPT !.pc = "put", !.id = id, !.todo = @ \ {id},
                                  !.done = NextPriority(equip, things, call[c].ctx)])
  /\ Continues
  /\ UNCHANGED <<Storage, touched>>

PutTool(c) ==
  /\ At(c, "put") /\ HasRoom(equip)
  /\ IF CanEquip(call[c].ctx, call[c].id)
     THEN /\ equip' = WithRow(equip, EquipRow(call[c].ctx, call[c].id, None, call[c].done))
          /\ Handles(call[c].ctx, call[c].id, None)
          /\ Becomes(c, IF call[c].todo = {} THEN Idle
                        ELSE [call[c] EXCEPT !.pc = "priority", !.id = None, !.done = 0])
     ELSE Finishes(c) /\ UNCHANGED <<equip, handled>>
  /\ Continues
  /\ UNCHANGED <<things, rooms, touched>>

\* /unequip; unequip_tool, with one name and no slot; and inventory_unequip
\* of MCP clients, without a slot
Unequip(c) ==
  Free(c) /\ \E ctx \in Contexts, slot \in Slots, names \in Patterns :
    LET found == Matching(things, names)
    IN  /\ found # {}
        /\ Begins(c, [Idle EXCEPT !.pc = "unequip", !.ctx = ctx, !.slot = slot,
                        !.todo = found])
        /\ UNCHANGED <<Storage, touched>>

UnequipOne(c) ==
  /\ At(c, "unequip")
  /\ \E id \in call[c].todo :
       LET left == call[c].todo \ {id}
       IN  /\ equip' = WithoutRow(equip, call[c].ctx, id, call[c].slot)
           /\ Handles(call[c].ctx, id, call[c].slot)
           /\ Becomes(c, IF left = {} THEN Idle ELSE [call[c] EXCEPT !.todo = left])
  /\ Continues
  /\ UNCHANGED <<things, rooms, touched>>

\* fork_room, after the keys: the equipment of the source is read at once
\* and inserted row by row.  The row of the new room comes first.
ForkRoom(c) ==
  /\ Free(c)
  /\ Lobby \in rooms /\ Fork \notin rooms
  /\ rooms' = rooms \cup {Fork}
  /\ Begins(c, [Idle EXCEPT !.pc = "source"])
  /\ UNCHANGED <<things, equip, handled, touched>>

\* copy_room_equipment
ReadSource(c) ==
  /\ At(c, "source")
  /\ LET read == {[of |-> i, thing |-> equip[i].thing, slot |-> equip[i].slot,
                   priority |-> equip[i].priority] : i \in Equipment(equip, things, Lobby)}
     IN  Becomes(c, [call[c] EXCEPT !.pc = "fork", !.todo = read, !.row = read])
  /\ Continues
  /\ UNCHANGED <<Storage, touched>>

\* Variant: the copies have no slot.
FlatCopy(r) == EquipRow(Fork, r.thing, None, r.priority)

CopyRow(r) == EquipRow(Fork, r.thing, r.slot, r.priority)

CopyEquip(c) ==
  /\ At(c, "fork")
  /\ \/ \E r \in call[c].todo :
          /\ HasRoom(equip)
          /\ equip' = WithRow(equip, CopyRow(r))
          /\ Becomes(c, [call[c] EXCEPT !.todo = @ \ {r}])
     \/ call[c].todo = {} /\ Finishes(c) /\ UNCHANGED equip
  /\ Continues
  /\ UNCHANGED <<things, rooms, handled, touched>>

-----------------------------------------------------------------------------
(* The task that follows the MCP server: sync_mcp_tools, and the removal   *)

Syncs(pc) == sync.pc = pc
SyncFrame == UNCHANGED <<rooms, equip, handled, boot, call, connected, torn>>
Aborts == sync' = Resting /\ UNCHANGED <<things, touched>>

\* An event with the names and descriptions of the tools the server has now.
ToolsRefreshed ==
  /\ Serving /\ Syncs("idle") /\ count.syncs < MaxSyncs /\ Affords(1)
  /\ \E names \in SUBSET McpNames \ {{}} : \E offer \in [names -> Versions] :
       sync' = [Resting EXCEPT !.pc = "container", !.offer = offer]
  /\ count' = [count EXCEPT !.syncs = @ + 1]
  /\ SyncFrame /\ UNCHANGED <<things, touched>>

\* Only this task makes the server's container, after it looked for it.
SyncContainer ==
  /\ Syncs("container")
  /\ LET row == NewThing("mcp", Mcps)
     IN  IF Stored(things, Mcp) \/ CanInsert(things, Mcp, row)
         THEN /\ things' = IF Stored(things, Mcp) THEN things
                           ELSE Inserted(things, Mcp, row)
              /\ sync' = [sync EXCEPT !.pc = "find"]
              /\ UNCHANGED touched
         ELSE Aborts
  /\ SyncFrame /\ UNCHANGED count

\* The rows as they are now: what follows goes by this read.
SyncFind ==
  /\ Syncs("find")
  /\ sync' = [sync EXCEPT !.pc = "tools", !.todo = DOMAIN sync.offer,
                          !.existing = [id \in Matching(things, McpNames) |-> things[id]]]
  /\ touched' = {}
  /\ SyncFrame /\ UNCHANGED <<things, count>>

\* The row of a name in the snapshot, or None.
Known(name) ==
  IF \E id \in DOMAIN sync.existing : sync.existing[id].name = name
  THEN CHOOSE id \in DOMAIN sync.existing : sync.existing[id].name = name
  ELSE None

\* A known tool is written back as it was read, if it changed; an unknown one
\* is inserted, which fails if somebody took the name: the sync ends there.
SyncTool ==
  /\ Syncs("tools")
  /\ \E name \in sync.todo :
       LET id == Known(name)
           new == Tool(name, Mcp, sync.offer[name])
           old == sync.existing[id]
           changed == [old EXCEPT !.version = sync.offer[name], !.available = TRUE]
           next == [sync EXCEPT !.todo = @ \ {name}]
       IN  \/ /\ id # None /\ (old = changed \/ CanUpdate(things, id, changed))
              /\ things' = IF old = changed THEN things ELSE Updated(things, id, changed)
              /\ sync' = next /\ UNCHANGED touched
           \/ /\ id = None /\ FreshIds # {} /\ CanInsert(things, FreshId, new)
              /\ things' = Inserted(things, FreshId, new)
              /\ sync' = next /\ UNCHANGED touched
           \/ /\ id = None /\ FreshIds # {} /\ ~CanInsert(things, FreshId, new)
              /\ Aborts
  /\ SyncFrame /\ UNCHANGED count

\* Variant: a sync adds tools only.
NoneGone == {}

\* Tools that were there and available, and are not offered any more.
Gone ==
  {id \in DOMAIN sync.existing : /\ sync.existing[id].name \notin DOMAIN sync.offer
                                 /\ sync.existing[id].available}

SyncedAll ==
  /\ Syncs("tools") /\ sync.todo = {}
  /\ sync' = [sync EXCEPT !.pc = "gone", !.todo = Gone]
  /\ SyncFrame /\ UNCHANGED <<things, count, touched>>

SyncGone ==
  /\ Syncs("gone")
  /\ \/ \E id \in sync.todo :
          /\ things' = WithAvailable(things, id, FALSE)
          /\ sync' = [sync EXCEPT !.todo = @ \ {id}]
     \/ sync.todo = {} /\ sync' = [sync EXCEPT !.pc = "synced"] /\ UNCHANGED things
  /\ SyncFrame /\ UNCHANGED <<count, touched>>

SyncEnds ==
  /\ Syncs("synced")
  /\ sync' = Resting
  /\ SyncFrame /\ UNCHANGED <<things, count, touched>>

\* The server is removed: all its tools become unavailable, one by one.
Removed ==
  /\ Serving /\ Syncs("idle") /\ count.syncs < MaxSyncs /\ Affords(1)
  /\ sync' = [Resting EXCEPT !.pc = "gone", !.todo = Matching(things, McpNames),
                !.existing = [id \in Matching(things, McpNames) |-> things[id]]]
  /\ count' = [count EXCEPT !.syncs = @ + 1]
  /\ touched' = {}
  /\ SyncFrame /\ UNCHANGED things

-----------------------------------------------------------------------------
Command(c) ==
  \/ Conjure(c) \/ Unconjure(c) \/ Destroy(c) \/ Lookup(c) \/ Delete(c)
  \/ Take(c) \/ ReadOriginal(c) \/ InsertCopy(c) \/ Drop(c) \/ Move(c)
  \/ Equip(c) \/ EquipOne(c) \/ EquipTool(c) \/ ReadPriority(c) \/ PutTool(c)
  \/ Unequip(c) \/ UnequipOne(c) \/ ForkRoom(c) \/ ReadSource(c) \/ CopyEquip(c)

Next ==
  \/ CheckWorld \/ BootstrapStep \/ Crash
  \/ \E c \in Clients : InitSession(c) \/ EnsureAgent(c) \/ Command(c)
  \/ ToolsRefreshed \/ SyncContainer \/ SyncFind \/ SyncTool \/ SyncedAll
  \/ SyncGone \/ SyncEnds \/ Removed

Spec == Init /\ [][Next]_vars

-----------------------------------------------------------------------------
(* Properties                                                              *)

\* The type invariant: every row has its columns, and the keys the schema
\* enforces hold: parents exist, and no two live things share a name.
TypeOK ==
  /\ things \in [Ids -> Thing \cup {None}]
  /\ \A id \in Ids : Stored(things, id) => ParentExists(things, things[id])
  /\ rooms \subseteq {Home, Lobby, Fork}
  /\ equip \in [1..MaxEquips -> Equipped \cup {None}] /\ handled \subseteq Ids \X Slots
  /\ boot.pc \in {"check", "insert", "serving"} /\ boot.done \in 0..Len(Bootstrap)
  /\ connected \subseteq Clients
  /\ \A i, j \in LiveRows(equip) :
       i # j /\ equip[i].slot # None =>
         <<equip[i].ctx, equip[i].thing, equip[i].slot>>
           # <<equip[j].ctx, equip[j].thing, equip[j].slot>>
  /\ \A id, other \in LiveIds(things) :
       things[id].name # None /\ things[id].name = things[other].name => id = other

\* A sync that ends well leaves exactly the offer: every name no command wrote
\* to in between is a live tool if and only if it is offered, available, with
\* the description offered.
SyncIsExact ==
  Syncs("synced") =>
    \A name \in McpNames \ touched :
      IF name \in DOMAIN sync.offer
      THEN \E id \in LiveIds(things) :
             /\ things[id].name = name /\ things[id].available
             /\ things[id].version = sync.offer[name]
      ELSE \A id \in LiveIds(things) : things[id].name = name => ~things[id].available

\* What was dropped in a room leaves it again only through a sync that read
\* the thing before it was moved, or for the room of another drop that found
\* it before this one moved it.
DroppedStays ==
  [][\A id \in Ids : Stored(things, id) /\ things[id].parent \in {Home, Lobby} =>
       \/ things'[id].parent = things[id].parent
       \/ id \in DOMAIN sync.existing /\ sync.existing[id].parent = things'[id].parent
       \/ \E c \in Clients : /\ At(c, "move") /\ call[c].id = id
                            /\ things'[id].parent = call[c].ctx /\ call[c].ctx \in {Home, Lobby}]_vars

\* While a room is forked, and when that ends, it has equipped what was copied
\* so far of what its source had when it was read: once each, in its slot and
\* with its priority, and nothing else, but for the keys that another command
\* wrote in the new room in the meantime.
ForkIsFaithful ==
  \A c \in Clients : At(c, "fork") =>
    \A key \in (Ids \X Slots) \ handled :
      LET copied == {r \in call[c].row \ call[c].todo : KeyOf(r) = key}
          here == {i \in LiveRows(equip) : equip[i].ctx = Fork /\ KeyOf(equip[i]) = key}
      IN  /\ Cardinality(here) = Cardinality(copied)
          /\ {equip[i].priority : i \in here} = {r.priority : r \in copied}

\* A session has the thing of its agent, and a served world is complete,
\* unless a crash interrupted the very first start.
WorldIsComplete ==
  Serving /\ ~torn =>
    /\ \A id \in {World, Rooms, Internal, Agents, Mcps, Home, Lobby, LookTool} :
         Stored(things, id)
    /\ {Home, Lobby} \subseteq rooms
    /\ connected # {} => Live(things, Agent)
=============================================================================

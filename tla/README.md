# sshwarma in TLA+

sshwarma is a shared space reached over SSH: users, language models and MCP
servers meet in rooms, and what they say and do is kept in SQLite. One process
runs everything: tokio tasks, one Lua runtime per session behind a mutex, one
database connection behind a mutex, and the in-memory World behind a read/write
lock. This directory holds models of the parts in which tasks meet, the TLC
configurations that check them, and TLAPS proofs. Paths are relative to
`src/src/` unless they start with `docs/`.

`PROJECT.json` lists components, runs, mutants, hazards, findings and theorems,
and maps each definition to the lines it stands for.

    tlc -workers 2 -config Rooms.cfg MCRooms.tla      # a run
    tlapm RoomsProofs.tla                             # the proofs of a module

## 1. The system

| Component | State | Operations | Meets | Modules |
|---|---|---|---|---|
| MCP connection manager (`mcp/manager.rs`, `mcp/backoff.rs`) | `desired` and `connections` tables (two RwLocks), a cancellation token per entry, an attempt counter per task | `add`, `remove`, `call_tool`, `refresh_tools`, `list_tools`, `status`; one `connection_loop` task per add | Lua tools (calls), replies (tools), event channel | McpManager |
| MCP events and tool sync (`mcp/events.rs`, `main.rs`, `db/things.rs`) | broadcast channel of 64, things with an `available` flag | send/receive with lag, `sync_mcp_tools`, mark unavailable | the manager (channel, then table), the database | McpToolSync |
| Model replies (`ssh/input.rs`, `ops.rs`, `llm.rs`, `ssh/streaming.rs`, `db/rows.rs`) | two bounded channels per reply, rows (content, mutable, ephemeral, position) | `handle_mention`, `spawn_model_response`, `process_stream!`, `push_updates_task`, append/finalize/hide a row | three tasks and the database per reply; one writer per session | RowStream, Reply |
| Screen refresh (`ssh/screen.rs`, `lua/dirty.rs`, `embedded/screen.lua`) | set of dirty tags, a stored wake-up, the last frame sent | `mark`, `mark_many`, `take`, wait, redraw, background tick, resize, reload | every task of the session; reload broadcast | Screen |
| Rooms and sessions (`world.rs`, `ops.rs`, `db/rooms.rs`, `db/mod.rs`, `ssh/handler.rs`, `internal_tools.rs`, `lua/tools.rs`) | rows and keys of rooms; rooms and their users in the World; room of a session's context | connect, join, go, create, fork, leave, dig, mention, `db_create_room`, `db_fork_room`, restart | sessions, tools of a model, MCP clients | Rooms |
| Things and equipment (`db/things.rs`, `db/equipped.rs`, `lua/tools.rs`, `embedded/commands/inventory.lua`, `main.rs`) | tree of things with soft delete, equipment of rooms and agents by slot | bootstrap, conjure, take, drop, destroy, equip, unequip, `equip_tool`, fork's copy, tool sync | two connections of an agent, the sync task, a crash | Things, Equipment, Inventory |
| Agents, keys, chat (`db/agents.rs`, `db/buffers.rs`, `db/rows.rs`, `lua/data.rs`, `lua/tools.rs`, `bin/sshwarma-admin.rs`) | agents and keys, the chat buffer of a room, rows, tags, reactions, links | get-or-create, add/remove a key, say, tool calls and results, marks, every query, row sets of Lua | callers and the administrator on one database | Rowsets, Talk |
| Prompts (`db/scripts.rs`, `db/mod.rs`, `lua/tools.rs`) | versions of a script by path, current and superseded | set, append, update, delete, rename, describe, read | editors at one path | Prompts |
| Exits (`db/exits.rs`, `db/rooms.rs`, `lua/tools.rs`) | exits of rooms by name, exits between things | dig, add and remove exits, search for a path, deletion of rooms | diggers at the same rooms | Exits |
| Lua modules and MCP tools (`lua/mod.rs`, `lua/watcher.rs`, `lua/reload.rs`, `ssh/screen.rs`, `mcp_server.rs`) | files on disk, queue of the watcher, bounded broadcast, `package.loaded` of each runtime, registrations | write, rename, watch, broadcast with lag, require, `/reload`, list and call MCP tools | files, sessions, clients | HotReload |
| Frames (`ui/render.rs`, `ssh/screen.rs`) | the buffer, the last buffer sent, the terminal | every call that draws, fingerprints, rows to escapes, the diff, frames that fail | one session | Frame |
| Turns of models (`ssh/input.rs`, `ops.rs`, `lua/tools.rs`, `ssh/streaming.rs`, `status.rs`) | equipment, `available`, the connected servers; what a turn offers; queued updates; the status shown | `/equip`, mention, `trigger_mention`, choose tools, compose, stream, finish, push | all of the above | Turns |
| Tool middleware, view state, tool cache, MCP bridge of Lua, embedded UI, providers, configuration, command line | – | – | no caller, no state of their own, or one session alone: section 7 | – |

What is hard, and what each part must get right:

* **Manager.** A loop looks its entry up by *name*, so a loop of an earlier add
  meets the entry of a later one; an await separates every read from the write
  that uses it. What is shown must be what was asked for, somebody must work on
  it, and cancelling must end a task.
* **Tool sync.** Events can be lost or handled long after they were sent. The
  `available` flag may never claim a tool nobody will take away again.
* **Replies.** Text crosses two channels and three tasks, one of them shared by
  the replies of a session. Nothing may be lost, doubled or reordered; every
  reply is concluded, once.
* **Screen.** A mark, its notification, the taking of the tags and the reading of
  the state are four separate moments. No change may stay invisible.
* **Rooms.** A room lives in the database and in the World, and every call takes
  both several times. A room that can be entered must survive a crash; users must
  not be dropped, and must be listed where their sessions are.
* **Things, equipment, records.** A command of a user is several calls of the database,
  each under its own hold of the connection, with other commands, the tool sync
  and a crash in between. A sync must leave what the server offers, a fork what it
  read, an append the order of what was said; an edit may hide only what it saw
  or overlapped, and a way back must lead back.
* **Lua.** A runtime keeps what it required; a change of a file must reach it
  through a watcher's queue, a name and a channel that may drop it.
* **Frames.** Only rows whose fingerprints differ are sent, and a row is sent as escapes that
  leave colours and wide characters to the terminal's state.
* **Turns.** A turn reads its tools in four moments, waits in its session's handler
  and reports over a queue that outlives it; a status must not stay busy.

## 2. Modules

    McpManager ── McpManagerProofs ──┐
        └──────── McpToolSync ───────┴── McpToolSyncProofs
    Reply <── RowStream (implements)      Screen ── ScreenProofs
                 └─ RowStreamProofs       Rooms ── RoomsProofs
    Things ── Equipment ── Inventory      HotReload ─┐
                   InventoryProofs        Frame ─────┼── Runtime
    Rowsets ── Talk ──┐                              │
              Prompts ┼── Records         Turns ─────┘      │
              Exits ──┘      │                       RuntimeProofs
                      RecordsProofs
    MC*: the instances for TLC

### McpManager
`desired`, `conns` are the two tables; `loop[k]` is the task of the k-th add, with
a program counter that has a place for every await and every lock; `cancelled`
the tokens; `caller` the tool calls. `AddSame`/`AddLocked`/`AddSpawn` are `add`
(which releases its locks before it reads its token back), `Remove` and
`RemoveAbsent` are `remove`. `LoopTop` to `DropEntry` are `connection_loop`,
`CallTool`/`RefreshTools` and their returns the data plane. `sent` is the event
a step broadcasts. The delays of the back-off are not modelled: it may elapse at
any time; the attempt counter is, with its saturation.

### McpToolSync
EXTENDS McpManager with the broadcast channel (`inbox`, with a capacity, the oldest event is
forgotten) and the task of `main.rs`: `Receive`, `ListTools` under the read lock,
`SyncTools`/`MarkUnavailable` on the things. `Subscribe` comes after the start-up script;
`SubscribedSpec` is the specification without adds before it. `lost` remembers, for the
properties, the servers whose Removed was pushed out of the channel by events of others
(`Forgets`): their tools stay available for good, which the properties exempt by name (section
5).

### Reply and RowStream
`Reply` is what a user is promised: text grows in order, it is published once and
complete, what is over does not change. `RowStream` has the three tasks, the two
channels, the rows, and the two halves of `append_row` (read the last position,
insert). `Abstract` maps the rows to a reply; `ImplementsReply` is the refinement.

### Screen
The dirty set, the permit of `tokio::sync::Notify`, the arms of the `select!`,
take / draw / send, the diff base, a frame that fails. What a frame would show is
a version number: every change makes a new one. Writers of the session change,
insert the tag (or, `InsertAll`, all of them at once) and notify, in three steps;
another session changes and marks nothing.

### Rooms
`db`, `kv` are the tables (they survive `Restart`); `rooms`, `users` the World; `place` a
session's context or a model's `ToolContext`, `home` the `player.current_room` it falls back to.
A call of a session, of the tools of a reply or of an MCP client runs step by step: each use of
the database connection and each hold of the write lock is one step, in the code's order. Of the
keys of a room, exits and the parent are kept. Calls that a Lua runtime serialises stay serial:
a session has one call at a time. `strayed` and `limbo` record, for the property below only, to
whom one of its exceptions applies.

### Things, Equipment and Inventory
`Things` and `Equipment` are the tables as operators: one per query or statement of
`db/things.rs` and `db/equipped.rs`, with the unique indexes and foreign keys that make them
fail. `Inventory` has the processes: the bootstrap, one insert at a time, and its restart after
a crash; the session of an agent (`ensure_agent_thing`); the commands of `lua/tools.rs`, each
split where it gives the connection up, for an agent or for a room, that which is just being
forked too, whose row is there before its copy ends (`handled` has the keys that others wrote in
it); the task that syncs the tools of an MCP server, which reads rows and writes them back
whole.

### Rowsets, Talk, Prompts, Exits and Records
`Rowsets` are the queries over rows and the row sets of `lua/data.rs` as pure operators; `Talk`
the calls about agents, keys, buffers, rows and their marks. Two agents may have one key: the
query takes one of the rows, any one (`FindByAuth`). `Prompts` the versions of scripts, drawn
stamps included; `Exits` both kinds of exits, with the names of directions; `has_path` is the
recursion of `Search` over the rooms looked at and the list of those to look at (`Round` is one
round of its loop). `Records` puts them in one specification.

### HotReload, Frame, Turns and Runtime
`HotReload` has the files (with versions that may be broken), the watcher's queue, the names it
makes of paths, the broadcast and the runtimes of sessions and of clients. `Frame` has the
buffer cell by cell, the clip rectangles and contexts, the fingerprints of rows (each character
and the few digits that are kept of the hash of its style, `Digest`, in which styles may
collide), the row that was sent last (`sent`), and the terminal that the escapes are sent to.
`Turns` has a turn from the mention to its end and what the terminal shows of it. `Runtime` puts
them in one specification.

*Families.* The modules put together in `Records` and in `Runtime` share no row,
file or channel with each other, so every behaviour is an interleaving of
independent ones. The variable `family` picks the one a behaviour works on: the
states of the others are not multiplied with it, and no reachable state of any one
of them is lost.

## 3. Runs

| Run | Question | Distinct states |
|---|---|---|
| `mcp_races` | 3 adds of one name at 2 endpoints, 1 remove, all interleavings: is the table what was asked for, is every entry served, are tools those of the service, who may make an entry vanish, has every service in the table a task that holds it? | 271,261 |
| `mcp_retries` | Do cancelled tasks end, do others retry for ever? (fairness; calls and refreshes) | 20,267 |
| `toolsync_events` | Two servers, a channel of capacity 2 that overflows: is an available tool backed, kept, and finally withdrawn? | 109,402 |
| `toolsync_connected_unsynced` | violation, see 5 | |
| `rowstream` | Two replies of a session, one with a tool call, all channels of capacity 1: conservation and order of text, single display, conclusion, refinement | 114,126 |
| `screen` | Two writers, another session, one failing frame, a resize, reloads: lost wake-ups, lost marks, eventual display | 138,944 |
| `rooms` | Two sessions, a model's tools, an MCP client, three rooms, four calls, a crash anywhere | 1,235,113 |
| `rooms_refused` | violation | |
| `inventory` | Two connections of an agent, up to three commands, one sync of two tools, a crash anywhere, from an empty database: exact syncs, faithful forks, complete worlds | 887,168 |
| `records` | Two callers and the administrator, two names and two keys: three commands that add a row, or five others, or two of each, or three edits at two paths, or three exits among three rooms | 819,137 |
| `runtime` | Three changes of files with a channel of capacity 1, or two draws in a frame of 4 by 2, or two turns of a model with two commands | 727,049 |
| `turns_equipped` | violation | |

What the runs show, property by property, where it is not said in the table:

* `ServicesAreHeld` (`mcp_races`): a connection handed to callers belongs to a task that made
  it for that name and still waits for its token, or is about to remove the entry; so a service
  that a late store left in the entry of a newer add does not outlive its task. The types of the
  manager are proved, not run.
* `SyncIsExact`, `ForkIsFaithful`, `WorldIsComplete`, `DroppedStays` (`inventory`): a sync
  that ended leaves the offer, but for the names a command wrote to in between; a
  fork copies what it read in one moment, but for the keys that others write in the new room
  while it copies; a world is complete unless its *first*
  start was interrupted, from which no later start recovers; what was dropped
  leaves its room only by a sync that had read it before, or for the room of another
  drop that had found it before.
* `OrderIsKept`, `SaidIsShown`, `KeysOpen`, `PromptsInOrder`, `RoomsLead` (`records`): the order
  in which commands began is the order readers see; every message is in the one chat buffer of
  its room unless two first speakers overlapped; a key opens a name it was added for and that
  has no newer key, and opens none only if there is none; so it opens its one name, but of two
  names with one key perhaps only the other; an edit by path misses only what it overlapped; a
  way there and back leads back until it is written again, and the search for a path finds what
  exits lead to.
* `LoadedIsFresh`, `FrameIsShown`, `BusyMeansWorking` (`runtime`): no loaded module is
  stale without a change on its way, but for lag; the terminal shows each row as it was sent,
  but for what is said of wide characters and colours, and that row and the one of the last
  frame have one fingerprint; a busy model is at work.

Some of these state what holds in spite of a defect, with an exemption for it. Such a hazard is
documented by the exemption, not caught: the entry lost by name and the late store
(`LostEntryHasCulprit`, `ToolsMatchService`), the row shown before it is hidden and the error a
stream task drops (`ShownOnce`, `Reply`), the exceptions of `ListedWhereSessionIs` (`strayed`,
`limbo`), the torn bootstrap, the sync that was aborted, the two ways in which a dropped thing
leaves (`Inventory`), two chat buffers of a room and a way back that was not written
(`Records`), lag and the late subscription (`unsure`), rows with one fingerprint
(`FrameIsShown`) and the status that stays (`stuck`). Whoever repairs one of them drops the
exemption and sees whether the property still holds.

Bounds and why they suffice. *One name in the manager*: names share nothing there but the locks,
each of which is one atomic step; the channel is shared, so `toolsync_events` has two. *Three
adds*: an old loop, the one that replaces it, and one that replaces that. *Capacity 1 or 2*:
full, empty and overflowing channels are reached with the fewest messages. *Two pieces of text,
one tool call*: order and loss need two pieces; each row kind appears. *Three versions*: one
drawn, one marked, one unmarked. *Four calls in Rooms*: a create on either side of a join, with
a connect of each session before. *One crash*: the World is rebuilt from the rows alone, and
storage is the tables alone, so a second crash starts from a state the first one reaches. *Three
commands in Inventory*: one makes a thing, and two move it at once; together with syncs and
crashes they stay within `MaxWork`, in which a command counts for two: three commands, or two
around a sync and a crash; equipped are the agent, the room that is forked and the new one
(`Places`). *Two commands about rows and two others*: two speakers who overlap, and an agent
made, given a key or removed under one; three that add a row: a model's placeholder with
its call and result, two messages and one after both (`MaxTalk`, in which a command that adds a
row counts for three and another for two). *Three edits*: a read, an edit that overlaps it and
one after both. *Three exits among three rooms*: a way, its way back, and one that overwrites
either. *Four by two cells*: a wide character fits, is cut on either side, and runs into the row
below; of three styles two have one digest. *Two names and two keys*: each may share or replace
the other's. *Two turns*: one whose queued updates outlive it while the other begins. Constants
named `Max…` and the counters they bound are bounds of the models, not of the code. Deadlock is
checked for the manager and the sync; the other models stop when their bounds are used up.

Every property of a passing run has a mutant in `PROJECT.json`: a plausible bug
(a dropped guard, a stale token, a swapped order) written beside the definition
it mutates as a *Variant*, under which TLC finds the property violated.

## 4. Fairness

* `Fairness` of McpManager and McpToolSync: a runnable task is run (tokio's
  scheduler), and `connect()` or a call answers *or* fails in the end; never
  which.
* RowStream: every task that can step does, and the stream of a model ends. Both
  ends of a channel are tasks, so a full channel is drained if its reader runs.
* Screen: weak fairness for the task and the writers; *strong* fairness for the
  background tick, since the sleep starts anew with every other event and is only
  guaranteed if these do not come every 500 ms for ever.
* Rooms: a call that was begun goes on. No fairness for users, who may never act.
* Inventory, Records, Runtime: safety only, no fairness.

## 5. Where the code and its documentation differ

Three runs show a sentence of the repository violated (`findings` in
`PROJECT.json` quotes each):

1. `ConnectedToolsSynced`: Connected is sent before the tools are stored (`mcp/manager.rs:555`,
   `:564`). In the trace main has subscribed, a server is added and connects; the sync task takes
   Connected, lists the tools of an entry that has none yet and skips the sync (`main.rs:187`);
   then the tools are stored, and no later event repeats the sync. The run has no adds before
   main subscribes (`SubscribedSpec`): the events of servers that the start-up script adds
   (`main.rs:168`) nobody receives at all, which `McpToolSync` models too.
2. `RefusedRoomsExist`: joining a room that does not exist leaves a row, and the
   recommended create is refused until the next start (`ops.rs:672`).
3. `EquippedIsOffered`: what `/equip me` and `/equip @model` write is never read
   when the tools of a turn are chosen (`ops.rs:152`).

Seen while modelling, and in the models, without a run of their own:

* *Manager and sync.* After an endpoint change the cancelled loop removes the
  entry of its successor, by name (`mcp/manager.rs:578`), so a desired server is
  untracked; the `unwrap` of `:226` can meet a missing entry (the state
  `panicked`); a late connect is stored in the entry of a newer add (`:566`). The
  channel forgets its oldest event whoever sent it: a server's Removed pushed out by
  another's Connecting leaves its tools available for good; only a warning is
  logged. `refresh_tools`, which nothing calls, would mark an entry connected that
  has no service (`:411`). A restart keeps `available` flags of connections that are gone.
* *Rows.* Two callers of `append_row` may read the same last position
  (`db/rows.rs:470`); rows of tools share one. `tools.history_tools` never
  attaches a result. Two first speakers of a room may make a chat buffer each.
* *Screen.* The refresh task has its own copy of the terminal's size
  (`ssh/handler.rs:544`), which a resize does not reach.
* *Rooms.* `leave` is documented as "return to lobby" (`ops.rs:686`,
  `internal_tools.rs`) and leaves the user in no room.
* *Things.* A crash in `bootstrap_world` leaves the rest out for ever, since an existing
  world is taken for a complete one (`db/things.rs:584`). Without a slot the
  upsert of `db/equipped.rs:173` never conflicts, so equipment is doubled. `/destroy`
  passes an id to `thing_delete`, which looks up qualified names, and says
  "Destroyed" though nothing was deleted; `/drop` names a room's id as a parent, which is a
  thing only for the rooms of the bootstrap; `thing_create` returns a new id where
  the upsert kept the old row's; `sync_mcp_tools` writes back whole rows it read
  earlier, over a move made in between, and of two drops of one thing that found it at
  once the later moves it out of the other's room (both of which `DroppedStays` exempts).
* *Agents.* One key may be added for two agents (the primary key of `agent_auth` is the agent
  and the kind); a login takes one of the rows, in no order that is asked for, so the other
  agent cannot log in with it (`db/agents.rs:591`). A second key replaces the first of an agent
  (the primary key of `agent_auth`); `sshwarma-admin remove` fails on foreign keys for anyone
  with a key, a row or a reaction (`bin/sshwarma-admin.rs:135`).
* *Exits and prompts.* The way back of a direction without an opposite is "back" and
  overwrites another one's; `has_path` goes through deleted rooms. The stamp of a
  version is drawn before the lock, so two edits may be ordered against their
  inserts.
* *Turns.* A mention outside a room and a prompt above its budget leave the model
  "thinking" (the exemption `stuck`); `trigger_mention` has no channel of updates,
  so its placeholder is never written. `identify` changes the session of the client
  only: what it says and mentions is by "claude". Internal tools are documented as
  "always available" (`internal_tools.rs:4`) and filtered by the equipped set, whose
  being empty gives all of them.
* *Lua.* `/reload` keeps `ui.*`, `commands.*`, `sshwarma.*` and `inspect`; `on_tick` stays
  the old function until then; a lagging receiver only logs; a file of a user
  changes the handler of an MCP tool but not what is listed; renamed directories
  give no usable event.
* *Frames.* Two rows with one fingerprint are called identical (`ui/render.rs:406`). A
  fingerprint keeps 16 bits of the hash of a style, in hex without padding or separator
  (`:432`): a row that changed in its colours may not be sent, and stays as it was until it
  changes again. `ctx:fill` takes a character without width (`:737`), and the row is then short
  of a column. A cell without colour takes the colour of a cell before it; the last column may
  be erased by the escape that follows the row; half-overwritten wide characters make a row run
  into the next; a failed `on_tick` is retried over what it had drawn, with its tags consumed.

## 6. Proofs

TLAPS proves, for every value of the constants that the named assumptions admit:

| Theorem | States |
|---|---|
| `McpManagerProofs!TypeCorrect` | `SafeSpec => []TypeOK` |
| `McpManagerProofs!EntriesDesired` | `SafeSpec => []EntryIsDesired` |
| `McpManagerProofs!EntriesServed` | `SafeSpec => []EntryIsServed` |
| `McpManagerProofs!LossesHaveCulprits` | `SafeSpec => []LostEntryHasCulprit` |
| `McpManagerProofs!StatusIsTrue` | `SafeSpec /\ [][NoRefresh]_vars => []StatusTruthful` |
| `McpManagerProofs!ToolsAreTheServices` | `SafeSpec /\ [][NoRefresh]_vars => []ToolsMatchService` |
| `McpManagerProofs!ServicesHeld` | `SafeSpec => []ServicesAreHeld` |
| `McpManagerProofs!CancelledEnd` | `Spec /\ []LoopsCanGoOn => CancelledLoopsEnd` |
| `McpManagerProofs!FailuresAreRetried` | `Spec /\ []LoopsCanGoOn => RetriesForever` |
| `McpToolSyncProofs!SyncTypes` | `SyncSafeSpec => []SyncTypeOK` |
| `McpToolSyncProofs!ToolsAreBacked` | `SyncSafeSpec /\ [][NoRefresh]_vars => []UnbackedIsPending` |
| `McpToolSyncProofs!NoToolIsDropped` | `SyncSafeSpec => ToolsAreKept` |
| `RoomsProofs!TypeCorrect` | `SafeSpec => []TypeOK` |
| `RoomsProofs!RoomsAreStored` | `SafeSpec => []NoGhostRooms` |
| `RoomsProofs!NobodyIsDropped` | `SafeSpec => NotDroppedByOthers` |
| `RoomsProofs!ListedWhereTheyAre` | `SafeSpec => []ListedWhereSessionIs` |
| `RowStreamProofs!StreamTypes` | `SafeSpec => []TypeOK` |
| `RowStreamProofs!TextConserved` | `SafeSpec => []TextIsConserved` |
| `RowStreamProofs!ReplyShownOnce` | `SafeSpec => []ShownOnce` |
| `RowStreamProofs!ReplyImplemented` | `SafeSpec => ImplementsReply` |
| `RecordsProofs!RecordsTypes` | `RecordsSpec => []TypeOK` |
| `RecordsProofs!KeysOpenAlways` | `RecordsSpec => []KeysOpen` |
| `RecordsProofs!OrderIsKeptAlways` | `RecordsSpec => []OrderIsKept` |
| `RecordsProofs!SaidIsShownAlways` | `RecordsSpec => []SaidIsShown` |
| `RecordsProofs!PromptsInOrderAlways` | `RecordsSpec => []PromptsInOrder` |
| `RecordsProofs!PairsLeadAlways` | `RecordsSpec => []PairsLead` |
| `RecordsProofs!RoomsLeadAlways` | `RecordsSpec => []RoomsLead` |
| `InventoryProofs!InventoryIsTyped` | `Spec => []TypeOK` |
| `InventoryProofs!WorldIsServed` | `Spec => []WorldIsComplete` |
| `InventoryProofs!ForkCopiesItsSource` | `Spec => []ForkIsFaithful` |
| `InventoryProofs!SyncLeavesTheOffer` | `Spec => []SyncIsExact` |
| `InventoryProofs!DroppedStaysDropped` | `Spec => DroppedStays` |
| `RuntimeProofs!RuntimeIsTyped` | `RuntimeSpec => []TypeOK` |
| `RuntimeProofs!ReloadIsFresh` | `ReloadSpec => [](ReloadTypeOK /\ LoadedIsFresh)` |
| `RuntimeProofs!RuntimeIsFresh` | `RuntimeSpec => []LoadedIsFresh` |
| `RuntimeProofs!FramesAreShown` | `RuntimeSpec => []FrameIsShown` |
| `RuntimeProofs!BusyIsAtWork` | `TurnsSpec => []BusyMeansWorking` |
| `RuntimeProofs!RuntimeIsAtWork` | `RuntimeSpec => []BusyMeansWorking` |
| `ScreenProofs!TypeCorrect` | `Spec => []TypeOK` |
| `ScreenProofs!NoMarkIsLost` | `Spec => []NoSleepWhileDirty` |
| `ScreenProofs!MarkedGetsDrawn` | `Spec => []MarkedIsDrawn` |
| `ScreenProofs!ScreenIsCurrent` | `Spec /\ []TaskCanGoOn /\ FailuresEnd => ScreenCatchesUp` |

*Manager.* `EntryIsServed` is inductive only together with the facts that a task
that was spawned holds the token of its own add, and that cancelled
tokens belong to adds already made; `EntryIsDesired` because `add` and `remove` write both
tables under both locks and a loop only rewrites entries that are there. There is
one step per action.

`LostEntryHasCulprit` needs more. `add` reads its token back after it released its locks,
so a loop may hold the token of a *later* add, end when that one is cancelled, and not be
cancelled itself. `Owned` closes the argument: a task has its own token, or was
cancelled, or its name has a culprit already (its own entry was lost before it read its
token); `Told` says that the token of a task about to remove its entry was cancelled; and
a culprit stays one (`CulpritsStay`). `StatusIsTrue` and `ToolsAreTheServices` have the
premise `NoRefresh`, that `refresh_tools` is not called, which is true of the program:
it writes its answer into whatever entry has the name by then, so with it neither holds
(the run `mcp_races` has no callers for the same reason). `Says` relates the state,
service and tools of one entry, and `TruthInv` adds that a task about to store tools
holds a list of its own endpoint.

`CancelledEnd` and `FailuresAreRetried` are liveness. `Follows` says where each step of
`connection_loop` leads, and `TaskMovesItself` that nobody else moves a task, nor takes a
cancellation back; so a task that was told to stop passes connect, the two writes, the two
awaits and the head of the loop, in this order, and weak fairness of its own steps takes it from
each to the next. Neither theorem needs fairness of anybody else, nor of a *kind* of step: that
an attempt may always fail is allowed. The prover for temporal logic takes `ENABLED` for a
letter, so that a step *can* be taken is a premise (`LoopsCanGoOn`, stated beside the theorems):
it holds by the shape of the guards, each of which asks for a place alone.

`ServicesHeld` follows a service from the store that puts it into an entry, after which the task
waits (`ServicesComeFromStores`): the task stays there or at the drop, which it leaves only
by removing the entry of its name, whoever made that entry (`HolderStays`).

*Tool sync.* That an available tool is backed is inductive only with what is still in the
channel: a `Connected` in it is backed itself, by a task or by a `Removed` *behind* it, and
so is the event the task works on (`Backed`). The channel only ever forgets its oldest
event; a `Removed` whose `Connected` is still there is never that. A name that is exempt has no
`Removed` in the channel, so it is exempt no longer once one is sent. The premise is again
`NoRefresh`: a late answer of `refresh_tools` sends its event after the `Removed`.

*Rooms.* `NoGhostRooms` says `rooms \subseteq db`; a step to the World knows only its own
call, so the strengthening `CallsOK` says of every call, by its program counter,
that a call about to make a room in the World has that room's row in `db`, and
`db` only grows. `CallOK(cl, rows)` takes the rows as a parameter, so that one
lemma shows it is kept when rows are added. One lemma per phase (requests,
database steps, World steps, restart), one case per action.

`NotDroppedByOthers` needs that no two calls own one name (`OwnersOK`: a call that
inserted its target's row found none there, so the name is its own until the World has the
room). `ListedWhereSessionIs` needs, for a user with one session and unmoved by a model,
where the lists of the World have the user at every place of a move between its three
steps (`ListsOK`); whoever has none or several sessions, or was moved from elsewhere, it
says nothing of, as the property does. Both assume `CallerAssumption`: sessions, replies,
users and clients are different things.

*Replies.* `IInv` says of every mention where each of its three tasks is, what is in its
two channels and which rows it has, as one conjunct per question: which places go together
(`Handling`, `Quiet`), that the end is the last chunk and is followed by nothing
(`EndIsLast`, `ConclusionIsLast`), whose row is written (`Writing`, `Rows`), which numbers
the rows have (`Numbered`), and where every chunk is (`Flow`: sent = in the rows, then in
the accumulator, then in the channels, in order). `Bounded` keeps positions in their range.
`TextIsConserved` and `ShownOnce` follow from it. `ReplyImplemented` maps the first states
to first states and every step to a step of `Reply` or a stutter, action by action; most
are stutters, since only the writer's critical sections show.

*Records.* One invariant for each family. A call is made of two critical sections, and the
invariants say what the first one's answer is still worth at the second. `TalkInv`: the position
an append has read is at most the next one, and after the rows it had heard of; the keys agents
have are those they are owed, so that every row the query for a key may take is one of these,
and is there if any is; a name found free is free, or the call knows of a race; what a mark or a
key refers to is there. `PromptsInv`: the version an edit has read is there or was deleted in a
race, the stamp drawn is used by nobody else. `ExitsInv`: both halves of a dug pair, at each
place of the digging. Assumed is that the absent value is no key and no number
(`TalkAssumption`). `OrderIsKept` and the like are then read off; `PairsLead` is the part of
`RoomsLead` about the rows. The rest is that `has_path` is right: its search ends, whatever
cycles the exits make, and finds just the rooms they lead to. The answer of a search has a
closed form (`Finds`: the goal is reached from the list by exits of rooms not looked at), which
satisfies the equation that defines `Search`. That only one function does is shown by a least
counterexample (`SearchAnswers`): each `Round` leaves fewer exits of rooms not looked at, or as
many and a shorter list (`RoundsEnd`). It needs that exits are finitely many
(`ExitsStayFinite`), an invariant. `PathsFollowExits` then equates the closed form with `Reach`.
`SaidIsShown` needs two facts more (`ShowInv`): a chat buffer is made by one whose command began
when there was none, and a row is below another exactly if it is a tool's, below the placeholder
of a reply. The rest of it is about row sets. A list is defined by ranks (`InOrder`), so that
`InOrderLists`, by which it has every member of its set once, needs no induction: ranks along a
chain of sets are a bijection. `Pick` is `SelectSeq` in that form, since the provers cannot
expand the recursive function in the definition of `SelectSeq`. `PickDivides` and `PartsDivide`
say that what is picked by a condition and by its negation, and the two sides of a cut, make up
the list.

*Inventory.* `IInv` has one conjunct for each thing that is under way, and each of them says
what was read and what is still true of it. `BootOK`: as many items of the bootstrap are stored
as it has done, nobody is served meanwhile, and after it all of them stay. `CallsOK`: what a
command has found between its calls of the database. `ForksOK`: at most one command forks, the
rows it read are different keys of its source, and the new room holds the ones done, once each,
but for the keys others wrote in it (`handled`, which a command that equips in the new room
enters in the step in which it writes). `SyncOK`: what the snapshot of the table is still worth;
for every name no command touched, a tool that is not yet written is as it was read, and one
that is written as it is offered. Most steps change one of these and must leave the others
alone: `Extends` (no row is lost), `NamesKept` (the tools of a name are what they were) and
`SameFork` (the equipment of the new room is) say in what sense, and one lemma for each says
that the conjunct is kept. Assumed is that the containers are the four the bootstrap makes
(`ContainerAssumption`), that users make tools and data, under their own names or those of MCP
tools (`ConjuredAssumption`), and that the fixed ids are not drawn and differ where the code's
do (`IdAssumption`). `DroppedStays` is an action property read off the invariant. The attempt to
prove it in an earlier form, with the sync as the only exemption, failed at `Move`, for two
drops of one thing into two rooms: that needs three commands, which the run had too few of.

*Hot reload.* `ReloadInv` says of every name a runtime loaded in an older version why it
will be told: the change is in the watcher's queue, in its hands, in the runtime's channel,
or the runtime is about to reload, lags, or was started since (`CoveredOK`); `ChannelsOK`
and `RuntimesOK` say what is in between. Assumed is that sessions are no clients, that no
module lies in `<config>` itself or is required as the `init` of a directory (its file would
be told under another name: `NameAssumption`), and that what is edited are files the
program looks for (`EditedAssumption`). `RuntimeIsFresh` carries it to the composed specification.

*Frames.* `FrameIsShown` is inductive with the type invariant: a row that is not sent has the
fingerprint of the row in the last frame, and this one has that of what was sent. Nothing is
assumed of the digests of styles, so the theorem speaks of the row that was sent (`sent`, a
history variable) and not of the row of the last frame, which may differ from it in its colours.
What it needs of one row is `AtIsColumn`: where wide characters are whole and all others have a
width, the columns that are sent before a character are as many as its own column, since the
columns `0..x-1` and the columns taken by what is sent before `x` correspond one to one.
`ShownRow` and `PenOfRow` follow. The widths of texts and rows are cardinalities of sets of
columns, so that nothing of this needs an induction. Assumed of the alphabet is that the wide
character and the one without width are two, and neither is used for lines and bars
(`WidthAssumption`).

*Screen.* That the task does not sleep over a tag is inductive once every tag
is backed (`DirtyIsBacked`) wherever the task is, not only where it waits. That what
was marked is drawn needs that versions go forward (`Forward`): a frame read later is no
older, and nothing is marked that was not made.

`ScreenIsCurrent` is liveness: the task comes back to its sleep (`SleepsAgain`), so strong
fairness of the background tick ticks for ever; the fourth tick leaves a tag and a task about to
take it (`DueAgain`); the frame that follows is drawn from a version at least as new as the
change, and is what the terminal shows, since the diff is made against that (`BaseIsShown`, an
invariant). `TaskCanGoOn` is a premise for the same reason as in the manager, and holds for the
same; `FailuresEnd`, that not every frame fails for ever, is one of substance: with it nothing
is assumed of how many fail.

*Turns.* `BusyMeansWorking` speaks of the status; but an update still queued sets
the status again, after its turn is over and after another turn of the same
model ended it. So the invariant also says of every queued update that does not
end a turn: the turn that sent it still streams, or an end stands behind it in the
queue (`QueueIsBacked`). "Streams" and not "is at work": a turn whose prompt
fails has sent nothing, and takes the work away without an end. `TurnGoesOn`,
`TurnEnds`, `EndsStay` and `EndsMoveUp` say how the two witnesses survive a step; one
lemma per action uses them. `TurnsSpec` is the specification of `Turns` alone;
`RuntimeInv` puts the three invariants together for the composed specification.

Not proved is that the steps of a task are enabled (`LoopsCanGoOn`, `TaskCanGoOn`), since TLAPS
does not know `ENABLED`. Left to TLC are `RemovedToolsGoAway` and `RepliesEnd`. Both follow a
message through a queue, one place nearer its head with each step, for as many steps as the
queue is long: that is an induction over a temporal formula, which none of the provers can do
(the theorems proved go through a fixed number of places). (Where a proof needs a least or a
greatest number, the well-foundedness of `<` on the naturals gives it: `LeastExists`,
`GreatestExists`; of temporal formulas no set can be made to apply it to.)

## 7. Not modelled, and why

The database is assumed to answer (an I/O error is not a step), and its mutex is
never poisoned. Time is not modelled: sleeps elapse at any moment. `rig`, `rmcp`,
`russh`, `notify`, SQLite and tokio are external.

* *No caller in the program*: view state, `ToolMiddleware::process_*`, the MCP
  bridge of Lua (`register_mcp_tools`), `start_session`, `restore_thing`,
  `hard_delete_thing`, `update_agent`, `delete_row`, `check_reload`, `render_look_ansi`.
* *No state of their own*: the read-only tables and the interpreter of Lua, the
  formatting of rows, `whoami`, `preview_wrap`.
* *A map behind a lock*: the tool cache, which no embedded script uses.
* *One session's sequential code*: the input line, history and modes of the embedded
  interface.
* *Configuration and command line*: read once, or one-shot.
* In Rooms, what a fork copies besides exits and the parent; the bindings of assets. In
  Turns, what a tool does (Rooms, Talk, Inventory have it).

Each component's note in `PROJECT.json` says the rest.

## 8. What would come next

The input line and its history as a pure module against a reference definition; the
conclusion of replies and the withdrawal of tools as theorems, with a prover for induction.

------------------------------ MODULE HotReload ------------------------------
(***************************************************************************)
(* Lua modules and their files.  A watcher (lua/watcher.rs) turns changes  *)
(* under <config>/lua into names of modules, a broadcast (lua/reload.rs)   *)
(* brings them to the sessions, whose runtimes (lua/mod.rs) then forget    *)
(* the module: the next require reads it again.  The MCP server lists the  *)
(* tools that its own runtime registered when it started, and calls them   *)
(* in a runtime of each client.                                            *)
(*                                                                         *)
(* A module name and a path are sequences of names: ui.bars is in ui/bars  *)
(* (.lua) or in ui/bars/init.  A path that begins with Above is in         *)
(* <config> itself.  A content of a file is a number, 0 stands for no file *)
(* and for what is embedded in the program or in a script of the database. *)
(***************************************************************************)
EXTENDS Integers, Sequences, SequencesExt

CONSTANTS
  Above,       \* the directory <config>, seen from <config>/lua
  Sessions,    \* users with a terminal, names
  Clients,     \* connections of the MCP server
  Screen,      \* the module of the screen
  Stable,      \* its embedded copy, sshwarma.screen
  Parts,       \* modules it requires
  Tools,       \* modules of MCP tools
  Own,         \* modules of users
  Edited,      \* sets of paths: the files one behaviour changes
  Capacity,    \* of the broadcast, for each receiver
  MaxWrites    \* bound: changes of files

ASSUME ReloadAssumption ==
  Capacity \in Nat \ {0} /\ MaxWrites \in Nat /\ Sessions \cap Clients = {}

Modules == {Screen, Stable} \cup Parts \cup Tools \cup Own
Runtimes == Sessions \cup Clients

\* A module is looked for in two places, the first that is there is taken.
PathsOf(m) == <<m, Append(m, "init")>>
UserScript(s) == <<Above, s>>
SharedScript == <<Above, "screen">>
McpScript == <<"mcp", "init">>
Paths == (UNION {ToSet(PathsOf(m)) : m \in Modules})
           \cup {UserScript(s) : s \in Sessions} \cup {SharedScript, McpScript}

\* No module is in <config> itself, and none is required as the init of a
\* directory: a change of its file would be told under the directory's name.
ASSUME NameAssumption ==
  \A m \in Modules :
    m \in Seq(STRING) \ {<<>>} /\ m[1] # Above /\ (Len(m) > 1 => m[Len(m)] # "init")
ASSUME EditedAssumption == Edited \subseteq SUBSET Paths

Unloaded == -1

VARIABLES
  touched,     \* the paths that are changed in this behaviour
  disk,        \* path -> content
  broken,      \* contents that fail to load
  drawn,       \* contents so far
  seen,        \* paths whose change the watcher has yet to process
  phase,       \* of a runtime
  loaded,      \* package.loaded of a runtime: module -> content or Unloaded
  shown,       \* the content on_tick of a session comes from
  backlog,     \* names of modules sent to a session
  unsure,      \* modules of a session whose events it may have missed
  entry,       \* the entry point of a user, in the database
  server,      \* the MCP server: up or down
  listed       \* module of a tool -> content its description is from

reloadVars == <<touched, disk, broken, drawn, seen, phase, loaded, shown, backlog, unsure,
                entry, server, listed>>
filesVars == <<touched, disk, broken, drawn>>
runtimeVars == <<phase, loaded, shown, unsure>>
serverVars == <<server, listed>>

ReloadInit ==
  /\ touched \in Edited
  /\ disk = [p \in Paths |-> 0] /\ broken = {} /\ drawn = 0
  /\ seen = <<>>
  /\ phase = [r \in Runtimes |-> "out"]
  /\ loaded = [r \in Runtimes |-> [m \in Modules |-> Unloaded]]
  /\ shown = [s \in Sessions |-> 0]
  /\ backlog = [s \in Sessions |-> <<>>]
  /\ unsure = [s \in Sessions |-> Modules]
  /\ entry \in [Sessions -> {<<>>} \cup Own]
  /\ server = "down"
  /\ listed = [m \in Tools |-> Unloaded]

-----------------------------------------------------------------------------
(* Files and the watcher                                                   *)

\* What lies above the watched directory is not seen.
Watched(p) == p[1] # Above

\* Variant: init is a module of its own.
FileName(p) == p
\* The module a path belongs to; a top-level file is a module even if it is
\* called init.
ModuleName(p) == IF Len(p) > 1 /\ Last(p) = "init" THEN Front(p) ELSE p

Noticed(queue, p) == IF Watched(p) THEN Append(queue, p) ELSE queue

WriteFile(p) ==
  /\ drawn < MaxWrites
  /\ drawn' = drawn + 1
  /\ disk' = [disk EXCEPT ![p] = drawn + 1]
  /\ broken' \in {broken, broken \cup {drawn + 1}}
  /\ seen' = Noticed(seen, p)

\* A removal and a rename count as changes too.
RemoveFile(p) ==
  /\ drawn < MaxWrites /\ disk[p] # 0
  /\ drawn' = drawn + 1
  /\ disk' = [disk EXCEPT ![p] = 0]
  /\ seen' = Noticed(seen, p)
  /\ UNCHANGED broken

RenameFile(p, q) ==
  /\ drawn < MaxWrites /\ disk[p] # 0 /\ p # q
  /\ drawn' = drawn + 1
  /\ disk' = [disk EXCEPT ![p] = 0, ![q] = disk[p]]
  /\ seen' = Noticed(Noticed(seen, p), q)
  /\ UNCHANGED broken

EditFiles ==
  /\ \E p \in touched : WriteFile(p) \/ RemoveFile(p) \/ \E q \in touched : RenameFile(p, q)
  /\ UNCHANGED <<touched, runtimeVars, backlog, entry, serverVars>>

\* Variant: the channel has no limit.
Hoards(names, m) == Append(names, m)
\* The oldest name is lost to a receiver that lags.
Receives(names, m) ==
  IF Len(names) < Capacity THEN Append(names, m) ELSE Append(Tail(names), m)

Subscribed(s) == phase[s] = "in"

\* process_events
Process ==
  /\ seen # <<>>
  /\ LET m == ModuleName(Head(seen)) IN
       /\ seen' = Tail(seen)
       /\ backlog' = [s \in Sessions |->
            IF Subscribed(s) THEN Receives(backlog[s], m) ELSE backlog[s]]
       /\ unsure' = [s \in Sessions |->
            IF Subscribed(s) /\ Len(backlog[s]) = Capacity
            THEN unsure[s] \cup ({Head(backlog[s])} \cap Modules) ELSE unsure[s]]
  /\ UNCHANGED <<filesVars, phase, loaded, shown, entry, serverVars>>

-----------------------------------------------------------------------------
(* Runtimes                                                                *)

FileOf(m) == IF disk[PathsOf(m)[1]] # 0 THEN disk[PathsOf(m)[1]] ELSE disk[PathsOf(m)[2]]

Preloaded == Parts
\* The script of the database that makes an entry point is always there.
CanLoad(m) == FileOf(m) \notin broken
Needs(m) == IF m \in {Screen, Stable} THEN Parts ELSE {}

\* require, on the table of loaded modules l.  What a module needs stays
\* loaded even if the module then fails.
Requires(l, m) ==
  LET parts == [k \in Modules |->
        IF k \in Needs(m) /\ l[k] = Unloaded /\ CanLoad(k) THEN FileOf(k) ELSE l[k]]
  IN IF l[m] # Unloaded \/ ~CanLoad(m) THEN l
     ELSE [parts EXCEPT ![m] =
            IF \A k \in Needs(m) : parts[k] # Unloaded THEN FileOf(m) ELSE Unloaded]

\* A runtime whose table is l requires m.  A session that follows the changes
\* is sure of what it has just read.
Loads(r, l, m) ==
  /\ loaded' = [loaded EXCEPT ![r] = Requires(l, m)]
  /\ unsure' = IF r \in Sessions /\ Subscribed(r)
               THEN [unsure EXCEPT ![r] = {k \in @ : l[k] # Unloaded}] ELSE unsure

Fresh == [m \in Modules |-> IF m \in Preloaded THEN 0 ELSE Unloaded]

\* The script of the user, the shared one, or the embedded one.
Runs(p) == disk[p] # 0 /\ disk[p] \notin broken
ScriptOf(s) ==
  IF Runs(UserScript(s)) THEN disk[UserScript(s)]
  ELSE IF Runs(SharedScript) THEN disk[SharedScript] ELSE 0

\* init_session: the runtime, its script, ...
NewForUser(s) ==
  /\ phase[s] = "out"
  /\ phase' = [phase EXCEPT ![s] = "new"]
  /\ shown' = [shown EXCEPT ![s] = ScriptOf(s)]
  /\ loaded' = [loaded EXCEPT ![s] = Fresh]
  /\ UNCHANGED <<filesVars, seen, backlog, unsure, entry, serverVars>>

\* on_tick is that of a module that was loaded.
Shows(s, m) ==
  shown' = IF loaded'[s][m] # Unloaded THEN [shown EXCEPT ![s] = loaded'[s][m]] ELSE shown

\* ... and the entry point.
LoadEntrypoint(s) ==
  /\ phase[s] = "new"
  /\ phase' = [phase EXCEPT ![s] = "ready"]
  /\ LET m == entry[s] IN
       \/ m = <<>> /\ UNCHANGED <<loaded, shown, unsure>>
       \/ /\ m # <<>>
          /\ Loads(s, loaded[s], m)
          /\ Shows(s, m)
  /\ UNCHANGED <<filesVars, seen, backlog, entry, serverVars>>

\* shell_request
Subscribe(s) ==
  /\ phase[s] = "ready"
  /\ phase' = [phase EXCEPT ![s] = "in"]
  /\ UNCHANGED <<filesVars, seen, loaded, shown, backlog, unsure, entry, serverVars>>

\* The session ends; its runtime goes.
Leave(s) ==
  /\ phase[s] = "in"
  /\ phase' = [phase EXCEPT ![s] = "out"]
  /\ loaded' = [loaded EXCEPT ![s] = [m \in Modules |-> Unloaded]]
  /\ shown' = [shown EXCEPT ![s] = 0]
  /\ backlog' = [backlog EXCEPT ![s] = <<>>]
  /\ unsure' = [unsure EXCEPT ![s] = Modules]
  /\ UNCHANGED <<filesVars, seen, entry, serverVars>>

\* A change arrives: the module is forgotten, not what was made of it.
Invalidate(s) ==
  /\ Subscribed(s) /\ backlog[s] # <<>>
  /\ LET m == Head(backlog[s]) IN
       /\ loaded' = [loaded EXCEPT ![s] = IF m \in Modules THEN [@ EXCEPT ![m] = Unloaded] ELSE @]
       /\ unsure' = [unsure EXCEPT ![s] = @ \ {m}]
  /\ backlog' = [backlog EXCEPT ![s] = Tail(@)]
  /\ UNCHANGED <<filesVars, seen, phase, shown, entry, serverVars>>

-----------------------------------------------------------------------------
(* Commands of a session                                                   *)

\* Modules that a reload of everything keeps.
Kept(m) == (Len(m) > 1 /\ m[1] \in {"sshwarma", "commands", "ui"}) \/ m = <<"inspect">>
Cleared(l) == [m \in Modules |-> IF Kept(m) THEN l[m] ELSE Unloaded]

Reloads(s, m) ==
  /\ Subscribed(s)
  /\ Loads(s, Cleared(loaded[s]), m) /\ Shows(s, m)
  /\ UNCHANGED <<filesVars, seen, phase, backlog, entry, serverVars>>

ReloadAll(s) == Reloads(s, Screen)
ReloadDefault(s) == Reloads(s, Stable)
\* /reload <mod> does not touch on_tick.
ReloadOne(s, m) ==
  /\ Subscribed(s)
  /\ Loads(s, [loaded[s] EXCEPT ![m] = Unloaded], m)
  /\ UNCHANGED <<filesVars, seen, phase, shown, backlog, entry, serverVars>>

\* A script of the user requires a module.
Require(s, m) ==
  /\ Subscribed(s) /\ loaded[s][m] = Unloaded
  /\ Loads(s, loaded[s], m)
  /\ UNCHANGED <<filesVars, seen, phase, shown, backlog, entry, serverVars>>

-----------------------------------------------------------------------------
(* The MCP server                                                          *)

\* The tools that mcp_init registers: require finds the embedded modules, which
\* were loaded before.
Registration == [m \in Tools |-> IF disk[McpScript] \in broken THEN Unloaded ELSE 0]
HasTool(m) == listed[m] # Unloaded

\* run_mcp_init_script: the user's script or the embedded one.
StartServer ==
  /\ server = "down"
  /\ server' = "up"
  /\ listed' = Registration
  /\ UNCHANGED <<filesVars, seen, runtimeVars, backlog, entry>>

\* A session of a client has a runtime of its own, with no module of tools.
Connect(c) ==
  /\ server = "up" /\ phase[c] = "out"
  /\ phase' = [phase EXCEPT ![c] = "client"]
  /\ loaded' = [loaded EXCEPT ![c] = Fresh]
  /\ UNCHANGED <<filesVars, seen, shown, backlog, unsure, entry, serverVars>>

\* dispatch: the module of a registered tool is required where it is called.
Dispatch(c, m) ==
  /\ phase[c] = "client" /\ HasTool(m)
  /\ Loads(c, loaded[c], m)
  /\ UNCHANGED <<filesVars, seen, phase, shown, backlog, entry, serverVars>>

-----------------------------------------------------------------------------
SessionStep(s) ==
  \/ NewForUser(s) \/ LoadEntrypoint(s) \/ Subscribe(s) \/ Leave(s) \/ Invalidate(s)
  \/ ReloadAll(s) \/ ReloadDefault(s)
  \/ \E m \in Modules \ Tools : ReloadOne(s, m) \/ Require(s, m)

ReloadNext == EditFiles \/ Process \/ \E s \in Sessions : SessionStep(s)
ServeNext ==
  \/ EditFiles \/ Process \/ StartServer
  \/ \E c \in Clients : Connect(c) \/ \E m \in Tools : Dispatch(c, m)

-----------------------------------------------------------------------------
(* Properties                                                              *)

ReloadTypeOK ==
  /\ disk \in [Paths -> 0..MaxWrites] /\ broken \subseteq 1..drawn /\ drawn \in 0..MaxWrites
  /\ loaded \in [Runtimes -> [Modules -> Unloaded..MaxWrites]]
  /\ \A r \in Runtimes, m \in Modules : loaded[r][m] \notin broken
  /\ \A s \in Sessions :
       /\ shown[s] \in (0..drawn) \ broken
       /\ Len(backlog[s]) <= Capacity
       /\ phase[s] # "in" => backlog[s] = <<>>
  /\ server = "down" => \A c \in Clients : phase[c] = "out"

\* A module that a session loaded, or was told of, since it follows the
\* changes is what its file now holds, or the change is on its way to the
\* session: in the watcher's queue under a name that leads to it, or in the
\* channel.  Exempt is only what it missed because it lagged, until the
\* module is loaded again.  (path_to_module_name, process_events, Lagged,
\* invalidate_module, and the order in which require looks for files.)
LoadedIsFresh ==
  \A s \in Sessions : Subscribed(s) => \A m \in Modules \ unsure[s] :
    loaded[s][m] \in {Unloaded, FileOf(m)}
      \/ m \in {ModuleName(p) : p \in ToSet(seen)} \cup ToSet(backlog[s])
=============================================================================

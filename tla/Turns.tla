-------------------------------- MODULE Turns --------------------------------
(***************************************************************************)
(* A turn of a model: somebody mentions it, from a terminal (ssh/input.rs) *)
(* or through the MCP server (tools.trigger_mention); spawn_model_response *)
(* (ops.rs) chooses its tools and composes its prompt; while it streams,   *)
(* its updates set the status the terminal shows (ssh/streaming.rs,        *)
(* status.rs).  The rows of a reply are in RowStream and Talk, what its    *)
(* tools do to rooms in Rooms.                                             *)
(***************************************************************************)
EXTENDS Integers, Sequences

CONSTANTS
  Users,          \* with a terminal
  Visitors,       \* connections of the MCP server
  Names,          \* a visitor may take
  Rooms, Lobby,
  Models,
  ReadTools, WriteTools,  \* internal tools; those that change something
  McpTools,
  UpdateCapacity, \* of a session's channel of updates
  MaxTurns,       \* bound
  MaxUpdates,     \* bound: updates of a turn before its last
  MaxChanges      \* bound: commands and changes of connections

ASSUME TurnsAssumption == Lobby \in Rooms /\ UpdateCapacity \in Nat \ {0}

Internal == ReadTools \cup WriteTools
AllTools == Internal \cup McpTools
Turns == 1..MaxTurns
Nowhere == "nowhere"
Claude == "claude"

VARIABLES
  equipped,       \* room -> tools
  carried,        \* user or model -> tools
  available,      \* MCP tools that are marked available in the database
  connected,      \* MCP tools of servers that are connected
  place,          \* room of a session's context
  status,         \* what a session shows of a model
  updates,        \* channel of a session, to push_updates_task
  turn,
  stuck,          \* models of a session whose status nobody will reset
  display,        \* name of a visitor
  changes         \* commands so far

turnsVars == <<equipped, carried, available, connected, place, status, updates,
               turn, stuck, display, changes>>
equipVars == <<equipped, carried, available, connected>>
shownVars == <<status, updates, stuck>>

Unused == [stage |-> "unused"]

TurnsInit ==
  \* the lobby has every internal tool, a new room none
  /\ equipped = [r \in Rooms |-> IF r = Lobby THEN Internal ELSE {}]
  /\ carried = [a \in Users \cup Models |-> {}]
  /\ available = McpTools /\ connected = McpTools
  /\ place = [u \in Users |-> Nowhere]
  /\ status = [u \in Users |-> [m \in Models |-> "idle"]]
  /\ updates = [u \in Users |-> <<>>]
  /\ turn = [t \in Turns |-> Unused]
  /\ stuck = [u \in Users |-> {}]
  /\ display = [c \in Visitors |-> Claude]
  /\ changes = 0

-----------------------------------------------------------------------------
(* Commands and connections                                                *)

\* A handler awaits a mention of its own until the turn streams.
Busy(p) ==
  \E t \in Turns : turn[t].stage \notin {"unused", "streaming", "done"} /\ turn[t].by = p

Changes == changes < MaxChanges /\ changes' = changes + 1
Command(u) == ~Busy(u) /\ Changes

\* /join, /leave and what else sets the context of a session
Move(u, r) ==
  /\ Command(u) /\ place[u] # r
  /\ place' = [place EXCEPT ![u] = r]
  /\ UNCHANGED <<equipVars, shownVars, turn, display>>

\* /equip room and /unequip room need a room, /equip me and /equip @model
\* name an agent.
EquipRoom(u, tools) ==
  /\ place[u] # Nowhere /\ Command(u)
  /\ equipped' \in {[equipped EXCEPT ![place[u]] = @ \cup tools],
                    [equipped EXCEPT ![place[u]] = @ \ tools]}
  /\ UNCHANGED <<carried, available, connected, place, shownVars, turn, display>>

EquipAgent(u, a, tools) ==
  /\ a \in {u} \cup Models /\ Command(u)
  /\ carried' \in {[carried EXCEPT ![a] = @ \cup tools], [carried EXCEPT ![a] = @ \ tools]}
  /\ UNCHANGED <<equipped, available, connected, place, shownVars, turn, display>>

\* A server comes or goes; the tools in the database follow.
Reconnect ==
  /\ Changes
  /\ connected' = McpTools \ connected
  /\ UNCHANGED <<equipped, carried, available, place, shownVars, turn, display>>
SyncTools ==
  /\ available # connected
  /\ available' = connected
  /\ UNCHANGED <<equipped, carried, connected, place, shownVars, turn, display, changes>>

Identify(c, n) ==
  /\ Changes /\ display[c] # n
  /\ display' = [display EXCEPT ![c] = n]
  /\ UNCHANGED <<equipVars, place, shownVars, turn>>

-----------------------------------------------------------------------------
(* A mention                                                               *)

NewTurn(p, m, r, signed, held, stage) ==
  /\ ~Busy(p)
  /\ \E t \in Turns :
       /\ turn[t].stage = "unused"
       /\ \A k \in 1..(t - 1) : turn[k].stage # "unused"
       /\ turn' = [turn EXCEPT ![t] =
            [stage |-> stage, by |-> p, model |-> m, room |-> r, signed |-> signed,
             held |-> held, chosen |-> {}, offered |-> {}, sent |-> 0]]

\* handle_mention: the room is read; with a room, the message and a
\* placeholder are inserted.
Mention(u, m) ==
  /\ NewTurn(u, m, place[u], u, (carried[u] \cup carried[m]) \cap available \cap connected, "mentioned")
  /\ UNCHANGED <<equipVars, place, shownVars, display, changes>>

\* ... the status is set ...
Think(t) ==
  /\ turn[t].stage = "mentioned"
  /\ turn' = [turn EXCEPT ![t].stage = "thinking"]
  /\ status' = [status EXCEPT ![turn[t].by][turn[t].model] = "thinking"]
  /\ stuck' = [stuck EXCEPT ![turn[t].by] = @ \ {turn[t].model}]
  /\ UNCHANGED <<equipVars, place, updates, display, changes>>

\* tools.trigger_mention: a visitor's runtime has no session context, which
\* would name its agent.
Trigger(c, m, r) ==
  /\ NewTurn(c, m, r, Claude, {}, "thinking")
  /\ UNCHANGED <<equipVars, place, shownVars, display, changes>>

\* ... and spawn_model_response takes the tools of the servers, ...
ListTools(t) ==
  /\ turn[t].stage = "thinking"
  /\ turn' = [turn EXCEPT ![t].stage = "listed", ![t].offered = connected]
  /\ UNCHANGED <<equipVars, place, shownVars, display, changes>>

ToolRoom(t) == IF turn[t].room = Nowhere THEN Lobby ELSE turn[t].room

\* ... of them those that the room has equipped, if they are available, ...
ChooseTools(t) ==
  /\ turn[t].stage = "listed"
  /\ LET chosen == equipped[ToolRoom(t)] \cap (Internal \cup available) IN
       turn' = [turn EXCEPT ![t].stage = "chosen", ![t].chosen = chosen,
                            ![t].offered = @ \cap chosen]
  /\ UNCHANGED <<equipVars, place, shownVars, display, changes>>

\* ... and internal tools, which need a terminal: with nothing chosen, all.
\* The setting of a room that turns its navigation tools off has no writer.
Registered(t) ==
  {k \in Internal :
     /\ turn[t].chosen = {} \/ k \in turn[t].chosen
     /\ k \notin ReadTools => turn[t].room # Nowhere}
Register(t) ==
  /\ turn[t].stage = "chosen"
  /\ turn' = [turn EXCEPT ![t].stage = "registered",
                          ![t].offered = IF turn[t].by \in Users THEN @ \cup Registered(t) ELSE @]
  /\ UNCHANGED <<equipVars, place, shownVars, display, changes>>

\* A turn reports to the terminal it came from, about its placeholder.
Reports(t) == turn[t].by \in Users /\ turn[t].room # Nowhere

\* wrap composes the prompt under the lock of the runtime, whose context is
\* the turn's for that time and then again the session's; ...
Compose(t) ==
  /\ turn[t].stage = "registered"
  /\ turn' = [turn EXCEPT ![t].stage = "streaming"]
  /\ UNCHANGED <<equipVars, place, shownVars, display, changes>>

\* ... a prompt above its budget ends the mention; nothing else of it is undone.
ComposeFails(t) ==
  /\ turn[t].stage = "registered" /\ turn[t].by \in Users
  /\ turn' = [turn EXCEPT ![t] = [stage |-> "done"]]
  /\ stuck' = [stuck EXCEPT ![turn[t].by] = @ \cup {turn[t].model}]
  /\ UNCHANGED <<equipVars, place, status, updates, display, changes>>

-----------------------------------------------------------------------------
(* The stream and the status                                               *)

Report(t, kind) ==
  LET u == turn[t].by IN
  /\ Reports(t) /\ Len(updates[u]) < UpdateCapacity
  /\ updates' = [updates EXCEPT ![u] = Append(@, [kind |-> kind, model |-> turn[t].model])]

\* Text, results and, if there are any, calls of tools
Stream(t) ==
  /\ turn[t].stage = "streaming" /\ turn[t].sent < MaxUpdates
  /\ \E kind \in {"text"} \cup (IF turn[t].offered = {} THEN {} ELSE {"tool"}) : Report(t, kind)
  /\ turn' = [turn EXCEPT ![t].sent = @ + 1]
  /\ UNCHANGED <<equipVars, place, status, stuck, display, changes>>

Finish(t) ==
  /\ turn[t].stage = "streaming"
  /\ \/ /\ \E kind \in {"complete", "error"} : Report(t, kind)
        /\ UNCHANGED stuck
     \/ /\ ~Reports(t)
        /\ stuck' = IF turn[t].by \in Users
                    THEN [stuck EXCEPT ![turn[t].by] = @ \cup {turn[t].model}] ELSE stuck
        /\ UNCHANGED updates
  /\ turn' = [turn EXCEPT ![t] = [stage |-> "done"]]
  /\ UNCHANGED <<equipVars, place, status, display, changes>>

\* Variant: a failed reply leaves the status.
StatusIfAnswered(kind, before) ==
  CASE kind = "tool" -> "running"
    [] kind = "complete" -> "idle"
    [] OTHER -> before
StatusAfter(kind, before) ==
  CASE kind = "tool" -> "running"
    [] kind \in {"complete", "error"} -> "idle"
    [] OTHER -> before

PushUpdate(u) ==
  /\ updates[u] # <<>>
  /\ LET up == Head(updates[u])
         after == StatusAfter(up.kind, status[u][up.model])
     IN /\ status' = [status EXCEPT ![u][up.model] = after]
        /\ stuck' = IF after = "idle" THEN [stuck EXCEPT ![u] = @ \ {up.model}] ELSE stuck
  /\ updates' = [updates EXCEPT ![u] = Tail(@)]
  /\ UNCHANGED <<equipVars, place, turn, display, changes>>

-----------------------------------------------------------------------------
TurnsNext ==
  \/ Reconnect \/ SyncTools
  \/ \E u \in Users :
       \/ \E r \in Rooms \cup {Nowhere} : Move(u, r)
       \/ PushUpdate(u)
       \/ \E tools \in {Internal, McpTools} :
            EquipRoom(u, tools) \/ \E a \in {u} \cup Models : EquipAgent(u, a, tools)
       \/ \E m \in Models : Mention(u, m)
  \/ \E c \in Visitors :
       \/ \E n \in Names : Identify(c, n)
       \/ \E m \in Models, r \in Rooms : Trigger(c, m, r)
  \/ \E t \in Turns :
       \/ Think(t) \/ ListTools(t) \/ ChooseTools(t) \/ Register(t) \/ Compose(t)
       \/ ComposeFails(t) \/ Stream(t) \/ Finish(t)

-----------------------------------------------------------------------------
(* Properties                                                              *)

TurnsTypeOK ==
  /\ equipped \in [Rooms -> SUBSET AllTools] /\ carried \in [Users \cup Models -> SUBSET AllTools]
  /\ available \subseteq McpTools /\ connected \subseteq McpTools
  /\ status \in [Users -> [Models -> {"idle", "thinking", "running"}]]
  /\ \A u \in Users : Len(updates[u]) <= UpdateCapacity /\ stuck[u] \subseteq Models
  /\ \A t \in Turns : turn[t].stage \notin {"unused", "done"} => turn[t].offered \subseteq AllTools

AtWork(u, m) ==
  \/ \E t \in Turns :
       /\ turn[t].stage \notin {"unused", "mentioned", "done"}
       /\ turn[t].by = u /\ turn[t].model = m
  \/ \E i \in DOMAIN updates[u] :
       updates[u][i].model = m /\ updates[u][i].kind \in {"complete", "error"}

\* A model that a terminal shows as busy is at work for it, or the end of its
\* work is on the way; but for a mention outside a room, whose reply nobody
\* reports, and one whose prompt could not be composed.  (handle_mention,
\* spawn_model_response, push_updates_task, StatusTracker.)
BusyMeansWorking ==
  \A u \in Users, m \in Models :
    status[u][m] # "idle" => m \in stuck[u] \/ AtWork(u, m)

\* README.md: "Equipped tools are available to you and models you @mention."
\* What the user or the model had equipped when it was mentioned is offered.
EquippedIsOffered ==
  \A t \in Turns :
    turn[t].stage = "streaming" => turn[t].held \subseteq turn[t].offered
=============================================================================

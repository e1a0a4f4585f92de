---------------------------- MODULE McpToolSync ----------------------------
(***************************************************************************)
(* The background task of main.rs that copies the tools of MCP servers     *)
(* into the things table, composed with the connection manager that drives *)
(* it.  The two share nothing but the broadcast channel of mcp/events.rs   *)
(* and the connection table the task reads when an event tells it to.      *)
(* A step of the manager delivers the event it sent.                       *)
(***************************************************************************)
EXTENDS McpManager, Sequences

CONSTANT Capacity   \* capacity of the broadcast channel

ASSUME CapacityAssumption == Capacity \in Nat \ {0}

VARIABLES
  subscribed,   \* the task has its receiver
  inbox,        \* events sent and not yet received, oldest first
  sync,         \* what the task is doing
  thing,        \* the tool things: thing[n][t] is the tool t of server n
  lost          \* names whose last Removed was forgotten before it was received

syncVars == <<subscribed, inbox, sync, thing, lost>>
allVars == <<vars, syncVars>>

Resting == [pc |-> "recv", name |-> None, tools |-> {}]

-----------------------------------------------------------------------------
\* Variants: a full channel refuses the new event; the channel is unbounded.
DropsNewest(q, ev) == IF Len(q) = Capacity THEN q ELSE Append(q, ev)
Unbounded(q, ev) == Append(q, ev)

\* A full channel forgets its oldest event; a receiver that lags skips what
\* it missed and goes on with the oldest event left (McpEventReceiver::recv).
Deliver(q, ev) ==
  IF Len(q) = Capacity THEN Append(Tail(q), ev) ELSE Append(q, ev)

\* What the receiver holds after a step of the manager: a send with no
\* receiver silently succeeds.
Received == IF subscribed /\ sent' # NoEvent THEN Deliver(inbox, sent') ELSE inbox

\* The channel forgets its oldest event in this step.
Forgets(ev) ==
  /\ inbox # <<>> /\ Head(inbox) = ev
  /\ Received # inbox /\ Len(Received) = Len(inbox)

ManagerStep ==
  /\ Next
  /\ inbox' = Received
  /\ lost' = {n \in Names : /\ n \in lost \/ Forgets(Event("Removed", n))
                           /\ \A i \in DOMAIN Received : Received[i] # Event("Removed", n)}
  /\ UNCHANGED <<subscribed, sync, thing>>

\* The first start, on an empty database.
SyncInit ==
  /\ Init
  /\ subscribed = FALSE
  /\ inbox = <<>>
  /\ sync = Resting
  /\ thing = [n \in Names |-> [t \in Tools |-> "absent"]]
  /\ lost = {}

\* main subscribes only after the start-up script has run.
Subscribe ==
  /\ ~subscribed
  /\ subscribed' = TRUE
  /\ sent' = NoEvent
  /\ UNCHANGED <<desired, conns, cancelled, loop, adds, removes, caller,
                 inbox, sync, thing, lost>>

\* Events the task has no arm for are received and ignored.
Receive ==
  LET ev == Head(inbox) IN
  /\ sync.pc = "recv"
  /\ inbox # <<>>
  /\ inbox' = Tail(inbox)
  /\ sync' = CASE ev.kind \in {"Connected", "ToolsRefreshed"} ->
                    [Resting EXCEPT !.pc = "list", !.name = ev.name]
               [] ev.kind = "Removed" ->
                    [Resting EXCEPT !.pc = "removed", !.name = ev.name]
               [] OTHER -> sync
  /\ sent' = NoEvent
  /\ UNCHANGED <<desired, conns, cancelled, loop, adds, removes, caller,
                 subscribed, thing, lost>>

\* list_tools: the tools of the entries in state Connected.
Listed(n) ==
  IF conns[n] # None /\ conns[n].state = "connected" THEN conns[n].tools ELSE {}

\* The read lock of the table; an empty list is not synced at all.
ListTools ==
  /\ sync.pc = "list"
  /\ sync' = IF Listed(sync.name) = {}
               THEN Resting
               ELSE [sync EXCEPT !.pc = "sync", !.tools = Listed(sync.name)]
  /\ sent' = NoEvent
  /\ UNCHANGED <<desired, conns, cancelled, loop, adds, removes, caller,
                 subscribed, inbox, thing, lost>>

\* Variant: tools that are gone are deleted.
Replaces(tools, n) ==
  [t \in Tools |-> IF t \in tools THEN "available" ELSE "absent"]

\* sync_mcp_tools: what is listed is created or made available, what is there
\* and not listed becomes unavailable.
Synced(tools, n) ==
  [t \in Tools |-> IF t \in tools THEN "available"
                   ELSE IF thing[n][t] = "absent" THEN "absent"
                   ELSE "unavailable"]

SyncTools ==
  /\ sync.pc = "sync"
  /\ thing' = [thing EXCEPT ![sync.name] = Synced(sync.tools, sync.name)]
  /\ sync' = Resting
  /\ sent' = NoEvent
  /\ UNCHANGED <<desired, conns, cancelled, loop, adds, removes, caller,
                 subscribed, inbox, lost>>

MarkUnavailable ==
  /\ sync.pc = "removed"
  /\ thing' = [thing EXCEPT ![sync.name] = Synced({}, sync.name)]
  /\ sync' = Resting
  /\ sent' = NoEvent
  /\ UNCHANGED <<desired, conns, cancelled, loop, adds, removes, caller,
                 subscribed, inbox, lost>>

SyncStep == Subscribe \/ Receive \/ ListTools \/ SyncTools \/ MarkUnavailable

SyncNext == ManagerStep \/ SyncStep

SyncFairness ==
  /\ \A k \in Loops :
       /\ WF_allVars(AddSpawn(k) /\ ManagerStep)
       /\ WF_allVars(LoopStep(k) /\ ManagerStep)
  /\ WF_allVars(SyncStep)

SyncSafeSpec == SyncInit /\ [][SyncNext]_allVars
SyncSpec == SyncSafeSpec /\ SyncFairness

\* Servers are added only once main has subscribed: by sessions, not by the
\* start-up script, whose events nobody receives.
AddedLater == adds' # adds => subscribed
SubscribedSpec == SyncInit /\ [][SyncNext /\ AddedLater]_allVars

-----------------------------------------------------------------------------
(* Properties                                                              *)

\* Every variable of the task has its type; the inbox never exceeds the
\* capacity of the channel.
SyncTypeOK ==
  /\ TypeOK
  /\ subscribed \in BOOLEAN
  /\ inbox \in Seq([kind : Kinds, name : Names]) /\ Len(inbox) <= Capacity
  /\ sync \in [pc : {"recv", "list", "sync", "removed"},
               name : Names \cup {None}, tools : SUBSET Tools]
  /\ thing \in [Names -> [Tools -> {"absent", "available", "unavailable"}]]
  /\ lost \subseteq Names

\* A tool that is available has a server behind it: a task that still runs
\* for the server's name, or a Removed (or the work on one) that will take
\* the tool away.  However late the Removed is, no Connected or refresh of
\* the same name overtakes it (main.rs, the sync task).  Exempt is a server
\* whose Removed the channel forgot: events of its own cannot push it out,
\* those of other servers can.
UnbackedIsPending ==
  \A n \in Names \ lost, t \in Tools : thing[n][t] = "available" =>
    \/ \E k \in Loops : loop[k].name = n /\ loop[k].pc \in Running \ {"drop"}
    \/ \E i \in 1..Len(inbox) : inbox[i] = Event("Removed", n)
    \/ sync.name = n /\ sync.pc = "removed"

\* A tool once recorded is never dropped from the table, only marked
\* ("marked as unavailable (available=false) rather than deleted").
ToolsAreKept ==
  [][\A n \in Names, t \in Tools :
       thing[n][t] # "absent" => thing'[n][t] # "absent"]_thing

\* Nothing moves: the tasks of n wait or are over, no event is under way.
QuietFor(n) ==
  /\ subscribed
  /\ inbox = <<>>
  /\ sync.pc = "recv"
  /\ \A k \in Loops : loop[k].name = n => loop[k].pc \in {"wait", "done"}

\* "MCP connects | Upsert MCP thing + tool things, available=1": when all is
\* quiet the tools of a connected server are available.
ConnectedToolsSynced ==
  \A n \in Names : QuietFor(n) => \A t \in Listed(n) : thing[n][t] = "available"

\* Once every task of a server is over for good, its tools end unavailable
\* for good: the last Removed is received and acted on, unless the events of
\* other servers push it out of the channel.
RemovedToolsGoAway ==
  \A n \in Names :
    <>[](subscribed /\ \A k \in Loops :
           loop[k].name = n => loop[k].pc \in {"done", "panicked"})
      => <>[](n \in lost \/ \A t \in Tools : thing[n][t] # "available")
=============================================================================

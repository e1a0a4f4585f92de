------------------------- MODULE McpToolSyncProofs -------------------------
(***************************************************************************)
(* A tool that is available has a server behind it, or a Removed on its    *)
(* way, for any names, tools, adds, removes and any capacity of the        *)
(* channel.  A Connected that is still to be received must itself have a   *)
(* server behind it, or a Removed later in the channel: then the order of  *)
(* the channel carries the property to the things.                         *)
(***************************************************************************)
EXTENDS McpToolSync, McpManagerProofs

Events == [kind : Kinds, name : Names]

\* The task of main is where its event put it.
SyncAtWork ==
  /\ sync.pc # "recv" => sync.name \in Names
  /\ ~subscribed =>
       /\ inbox = <<>> /\ sync = Resting
       /\ \A n \in Names, t \in Tools : thing[n][t] # "available"

\* A task runs for the name; a Removed of it stands at `from` or behind.
Serves(n) == \E k \in Loops : loop[k].name = n /\ loop[k].pc \in Running \ {"drop"}
Leaves(n, from) == \E i \in from..Len(inbox) : inbox[i] = Event("Removed", n)

\* What makes tools of a name available, and what is available, is backed.
Brings(i, n) == inbox[i].name = n /\ inbox[i].kind \in {"Connected", "ToolsRefreshed"}
Backed(n) ==
  /\ \A i \in 1..Len(inbox) : Brings(i, n) => Serves(n) \/ Leaves(n, i + 1)
  /\ sync.name = n /\ sync.pc \in {"list", "sync"} => Serves(n) \/ Leaves(n, 1)
  /\ \A t \in Tools : thing[n][t] = "available" =>
       Serves(n) \/ Leaves(n, 1) \/ (sync.name = n /\ sync.pc = "removed")

SyncInv == IInv /\ SyncTypeOK /\ SyncAtWork
BackedInv ==
  /\ TruthInv
  /\ \A n \in lost : ~Leaves(n, 1)
  /\ \A n \in Names \ lost : Backed(n)

-----------------------------------------------------------------------------
(* What a step of the manager sends                                        *)

\* Every event is about a server, and no tool list is refreshed where no call
\* refreshes one.
LEMMA EventsTyped ==
  ASSUME IInv, Next
  PROVE  /\ sent' = NoEvent \/ sent' \in Events
         /\ sent'.kind = "ToolsRefreshed" => \E c \in Callers : caller[c].pc = "refreshing"
<1>1. CASE ControlStep
  <2>1. sent' = NoEvent
    BY <1>1 DEF ControlStep, AddSame, AddLocked, Remove, RemoveAbsent
  <2>2. QED
    BY <2>1 DEF NoEvent
<1>2. ASSUME NEW k \in Loops, AddSpawn(k) \/ LoopStep(k)
      PROVE  (sent' = NoEvent \/ sent' \in Events) /\ sent'.kind # "ToolsRefreshed"
  <2>1. loop[k].name \in Names
    BY <1>2, RunningIsAllocated
    DEF AddSpawn, LoopStep, LoopTop, ConnectOk, ConnectErr, StoreConnection,
        MarkReconnecting, BackoffElapsed, SeeCancelled, DropEntry, At
  <2>2. sent' = NoEvent \/ \E kind \in Kinds \ {"ToolsRefreshed"} : sent' = Event(kind, loop[k].name)
    BY <1>2
    DEF AddSpawn, LoopStep, LoopTop, ConnectOk, ConnectErr, StoreConnection,
        MarkReconnecting, BackoffElapsed, SeeCancelled, DropEntry, Kinds
  <2>3. QED
    BY <2>1, <2>2 DEF Event, Events, NoEvent
<1>3. ASSUME NEW c \in Callers, CallerStep(c)
      PROVE  /\ sent' = NoEvent \/ sent' \in Events
             /\ sent'.kind = "ToolsRefreshed" => caller[c].pc = "refreshing"
  <2>1. CASE RefreshReturns(c)
    <3>1. caller[c].pc = "refreshing" /\ sent' = Event("ToolsRefreshed", caller[c].name)
      BY <2>1 DEF RefreshReturns
    <3>2. caller[c].name \in Names
      BY <3>1 DEF IInv, Allocated
    <3>3. QED
      BY <3>1, <3>2 DEF Event, Events, Kinds
  <2>2. QED
    BY <1>3, <2>1 DEF CallerStep, CallTool, RefreshTools, CallReturns, CallFails, NoEvent
<1>4. QED
  BY <1>1, <1>2, <1>3 DEF Next

\* A server stops being served only with a Removed, and a Connected is sent by
\* a task that serves.
LEMMA ServedUntilRemoved ==
  ASSUME IInv, Next, NEW n \in Names
  PROVE  /\ Serves(n) => Serves(n)' \/ sent' = Event("Removed", n)
         /\ sent' = Event("Connected", n) => Serves(n)'
<1>1. loop \in [Loops -> Task]
  BY DEF IInv, TypeOK
<1>2. CASE UNCHANGED loop /\ sent' # Event("Connected", n)
  BY <1>2 DEF Serves
<1>3. ASSUME NEW m \in Names, NEW e \in Endpoints, AddLocked(m, e)
      PROVE  (Serves(n) => Serves(n)') /\ sent' # Event("Connected", n)
  <2>1. adds + 1 \in Loops /\ loop[adds + 1].pc = "unused"
    BY <1>3, BoundsAssumption DEF AddLocked, IInv, TypeOK, Allocated, Loops
  <2>2. \A k \in Loops : loop[k].pc \in Running => loop'[k] = loop[k]
    BY <1>1, <1>3, <2>1 DEF AddLocked, Running
  <2>3. QED
    BY <1>3, <2>2 DEF AddLocked, Serves, NoEvent, Event
<1>4. ASSUME NEW k \in Loops, AddSpawn(k) \/ LoopStep(k)
      PROVE  /\ Serves(n) => Serves(n)' \/ sent' = Event("Removed", n)
             /\ sent' = Event("Connected", n) => Serves(n)'
  <2>1. \A j \in Loops : loop'[j].name = loop[j].name /\ (j # k => loop'[j] = loop[j])
    BY <1>4, TasksKeepIdentity
  <2>a. loop[k] \in Task
    BY <1>1
  <2>b. CASE ConnectOk(k)
    <3>1. PICK ts \in Offers[loop[k].endpoint] :
            loop' = [loop EXCEPT ![k] = [@ EXCEPT !.pc = "store", !.tools = ts, !.attempt = 0]]
      BY <2>b DEF ConnectOk
    <3>2. loop'[k].pc = "store"
      BY <1>1, <2>a, <3>1 DEF Task
    <3>3. QED
      BY <2>1, <2>b, <3>2 DEF ConnectOk, Serves, Running, Event
  <2>c. CASE ConnectErr(k) \/ StoreConnection(k)
    <3>1. loop'[k].pc \in {"mark", "wait"}
      <4>1. ASSUME ConnectErr(k) PROVE loop'[k].pc = "mark"
        <5>1. loop'[k] = [loop[k] EXCEPT !.pc = "mark", !.attempt = NextAttempt(loop[k].attempt)]
          BY <1>1, <4>1 DEF ConnectErr
        <5>2. QED
          BY <2>a, <5>1 DEF Task
      <4>2. ASSUME StoreConnection(k) PROVE loop'[k].pc = "wait"
        BY <1>1, <2>a, <4>2 DEF StoreConnection, Task
      <4>3. QED
        BY <2>c, <4>1, <4>2
    <3>2. sent' # Event("Connected", n)
      BY <2>c DEF ConnectErr, StoreConnection, Event, NoEvent
    <3>3. QED
      BY <2>1, <3>1, <3>2 DEF Serves, Running
  <2>d. CASE LoopTop(k) \/ MarkReconnecting(k) \/ BackoffElapsed(k) \/ SeeCancelled(k) \/ DropEntry(k)
    <3>1. \/ loop[k].pc = "drop" /\ loop'[k].pc = "done"
          \/ loop'[k].pc = "drop" /\ sent' = Event("Removed", loop[k].name)
          \/ loop'[k].pc \in {"connect", "backoff", "top"}
      BY <1>1, <2>a, <2>d
      DEF LoopTop, MarkReconnecting, BackoffElapsed, SeeCancelled, DropEntry, Goto, At, Task
    <3>2. sent' # Event("Connected", n)
      BY <2>d
      DEF LoopTop, MarkReconnecting, BackoffElapsed, SeeCancelled, DropEntry, Event, NoEvent
    <3>3. QED
      BY <2>1, <3>1, <3>2 DEF Serves, Running
  <2>e. CASE AddSpawn(k)
    <3>1. loop[k].pc \notin Running /\ sent' # Event("Connected", n)
      BY <2>e DEF AddSpawn, Running, Event, NoEvent
    <3>2. QED
      BY <2>1, <3>1 DEF Serves
  <2>4. QED
    BY <1>4, <2>b, <2>c, <2>d, <2>e DEF LoopStep
<1>5. ASSUME NEW c \in Callers, CallerStep(c)
      PROVE  UNCHANGED loop /\ sent' # Event("Connected", n)
  <2>1. UNCHANGED loop /\ (sent' = NoEvent \/ sent' = Event("ToolsRefreshed", caller[c].name))
    BY <1>5 DEF CallerStep, CallTool, RefreshTools, CallReturns, RefreshReturns, CallFails
  <2>2. QED
    BY <2>1 DEF NoEvent, Event
<1>6. QED
  BY <1>2, <1>3, <1>4, <1>5 DEF Next, ControlStep, AddSame, Remove, RemoveAbsent, NoEvent, Event

-----------------------------------------------------------------------------
(* What the channel does with it                                           *)

\* An event is behind the others, of which at most the oldest (d = 1) is gone.
Behind(q, r, ev, d) ==
  /\ Len(r) = Len(q) + 1 - d /\ r[Len(q) + 1 - d] = ev
  /\ \A i \in 1..(Len(q) - d) : r[i] = q[i + d]
  /\ d = 1 => q # <<>>

\* So the channel leaves it, and keeps its capacity.
LEMMA Delivered ==
  ASSUME NEW q \in Seq(Events), NEW ev \in Events, Len(q) <= Capacity
  PROVE  /\ Deliver(q, ev) \in Seq(Events) /\ Len(Deliver(q, ev)) <= Capacity
         /\ \E d \in {0, 1} : Behind(q, Deliver(q, ev), ev, d)
<1>1. CASE Len(q) = Capacity
  <2>1. q # <<>>
    BY <1>1, CapacityAssumption
  <2>a. Tail(q) \in Seq(Events)
    BY <2>1
  <2>2. PICK r \in Seq(Events) : r = Tail(q)
    BY <2>a
  <2>3. Len(r) = Len(q) - 1 /\ \A i \in 1..(Len(q) - 1) : r[i] = q[i + 1]
    BY <2>1, <2>2
  <2>b. Append(r, ev) \in Seq(Events)
    BY <2>2
  <2>4. PICK p \in Seq(Events) : p = Append(r, ev)
    BY <2>b
  <2>5. Len(p) = Len(q) /\ p[Len(q)] = ev /\ \A i \in 1..(Len(q) - 1) : p[i] = q[i + 1]
    BY <2>1, <2>3, <2>4
  <2>6. Deliver(q, ev) = p
    BY <1>1, <2>2, <2>4 DEF Deliver
  <2>7. Behind(q, p, ev, 1)
    BY <2>1, <2>5 DEF Behind
  <2>8. QED
    BY <1>1, <2>4, <2>5, <2>6, <2>7
<1>2. CASE Len(q) # Capacity
  <2>a. Append(q, ev) \in Seq(Events)
    OBVIOUS
  <2>1. PICK p \in Seq(Events) : p = Append(q, ev)
    BY <2>a
  <2>2. Len(p) = Len(q) + 1 /\ p[Len(q) + 1] = ev /\ \A i \in 1..Len(q) : p[i] = q[i]
    BY <2>1
  <2>3. Deliver(q, ev) = p
    BY <1>2, <2>1 DEF Deliver
  <2>4. Len(p) <= Capacity
    BY <1>2, <2>2, CapacityAssumption
  <2>5. Behind(q, p, ev, 0)
    BY <2>2 DEF Behind
  <2>6. QED
    BY <2>1, <2>3, <2>4, <2>5
<1>3. QED
  BY <1>1, <1>2

-----------------------------------------------------------------------------
(* Types                                                                   *)

LEMMA SyncInvInit == SyncInit => SyncInv
<1> SUFFICES ASSUME SyncInit PROVE SyncInv
  OBVIOUS
<1>1. IInv
  BY InitInv DEF SyncInit
<1>2. inbox \in Seq([kind : Kinds, name : Names]) /\ Len(inbox) = 0
  BY DEF SyncInit
<1>a. thing \in [Names -> [Tools -> {"absent", "available", "unavailable"}]]
  BY DEF SyncInit
<1>b. sync \in [pc : {"recv", "list", "sync", "removed"}, name : Names \cup {None}, tools : SUBSET Tools]
  BY DEF SyncInit, Resting
<1>c. subscribed \in BOOLEAN /\ lost \subseteq Names
  BY DEF SyncInit
<1>d. Len(inbox) <= Capacity
  BY <1>2, CapacityAssumption
<1>3. SyncTypeOK
  BY <1>1, <1>2, <1>a, <1>b, <1>c, <1>d DEF SyncTypeOK, IInv
<1>4. QED
  BY <1>1, <1>3 DEF SyncInit, SyncInv, SyncAtWork, Resting

\* The task of main reads the connection table and leaves it alone.
LEMMA SyncLeavesTable ==
  ASSUME IInv, UNCHANGED <<desired, conns, cancelled, loop, adds, removes, caller>>, sent' = NoEvent
  PROVE  IInv'
BY DEF IInv, TypeOK, Allocated, EntryIsDesired, EntryIsServed, NoEvent

LEMMA ManagerKeepsSync ==
  ASSUME SyncInv, ManagerStep
  PROVE  SyncInv'
<1>1. IInv'
  BY TypeStep, AllocatedStep, DesiredStep, ServedStep DEF ManagerStep, SyncInv, IInv
<1>2. sent' = NoEvent \/ sent' \in Events
  BY EventsTyped DEF ManagerStep, SyncInv
<1>3. inbox' \in Seq([kind : Kinds, name : Names]) /\ Len(inbox') <= Capacity
  <2>1. CASE subscribed /\ sent' # NoEvent
    <3>1. inbox' = Deliver(inbox, sent')
      BY <2>1 DEF ManagerStep, Received
    <3>2. inbox \in Seq(Events) /\ Len(inbox) <= Capacity
      BY DEF SyncInv, SyncTypeOK, Events
    <3>3. QED
      BY <1>2, <2>1, <3>1, <3>2, Delivered DEF Events
  <2>2. QED
    BY <2>1 DEF ManagerStep, Received, SyncInv, SyncTypeOK
<1>4. lost' \subseteq Names
  BY DEF ManagerStep
<1>5. SyncTypeOK'
  BY <1>1, <1>3, <1>4 DEF ManagerStep, SyncTypeOK, SyncInv, IInv
<1>6. SyncAtWork'
  BY DEF ManagerStep, SyncInv, SyncAtWork, Received
<1>7. QED
  BY <1>1, <1>5, <1>6 DEF SyncInv

LEMMA TaskKeepsSync ==
  ASSUME SyncInv, SyncStep
  PROVE  SyncInv'
<1>1. IInv'
  BY SyncLeavesTable
  DEF SyncInv, SyncStep, Subscribe, Receive, ListTools, SyncTools, MarkUnavailable
<1>2. SyncTypeOK
  BY DEF SyncInv
<1>3. CASE Subscribe
  BY <1>1, <1>2, <1>3 DEF Subscribe, SyncInv, SyncTypeOK, SyncAtWork, IInv
<1>4. CASE Receive
  <2>1. inbox \in Seq(Events) /\ inbox # <<>>
    BY <1>2, <1>4 DEF Receive, SyncTypeOK, Events
  <2>2. PICK ev \in Events : ev = Head(inbox)
    BY <2>1
  <2>3. inbox' \in Seq(Events) /\ Len(inbox') = Len(inbox) - 1
    BY <1>4, <2>1 DEF Receive
  <2>4. /\ sync.pc = "recv"
        /\ \/ sync' = [Resting EXCEPT !.pc = "list", !.name = ev.name]
           \/ sync' = [Resting EXCEPT !.pc = "removed", !.name = ev.name]
           \/ sync' = sync
    BY <1>4, <2>2 DEF Receive
  <2>5. /\ sync' \in [pc : {"recv", "list", "sync", "removed"},
                      name : Names \cup {None}, tools : SUBSET Tools]
        /\ sync'.pc # "recv" => sync'.name \in Names
    BY <1>2, <2>2, <2>4 DEF SyncTypeOK, Resting, Events
  <2>6. Len(inbox') <= Capacity
    BY <1>2, <2>1, <2>3, CapacityAssumption DEF SyncTypeOK
  <2>7. SyncTypeOK'
    BY <1>1, <1>2, <1>4, <2>3, <2>5, <2>6 DEF Receive, SyncTypeOK, IInv, Events
  <2>8. subscribed
    BY <2>1 DEF SyncInv, SyncAtWork
  <2>9. QED
    BY <1>1, <1>4, <2>5, <2>7, <2>8 DEF SyncInv, SyncAtWork, Receive
<1>5. CASE ListTools
  <2>1. sync.name \in Names /\ subscribed
    BY <1>5 DEF ListTools, SyncInv, SyncAtWork, Resting
  <2>2. Listed(sync.name) \subseteq Tools
    BY <2>1 DEF Listed, SyncInv, IInv, TypeOK, Entry
  <2>3. sync' = Resting \/ sync' = [sync EXCEPT !.pc = "sync", !.tools = Listed(sync.name)]
    BY <1>5 DEF ListTools
  <2>a. ASSUME NEW ts \in SUBSET Tools
        PROVE  /\ [sync EXCEPT !.pc = "sync", !.tools = ts]
                    \in [pc : {"recv", "list", "sync", "removed"},
                        name : Names \cup {None}, tools : SUBSET Tools]
               /\ [sync EXCEPT !.pc = "sync", !.tools = ts].name = sync.name
    BY <1>2 DEF SyncTypeOK
  <2>4. /\ sync' \in [pc : {"recv", "list", "sync", "removed"},
                      name : Names \cup {None}, tools : SUBSET Tools]
        /\ sync'.pc # "recv" => sync'.name \in Names
    <3>1. CASE sync' = Resting
      BY <3>1 DEF Resting
    <3>2. CASE sync' = [sync EXCEPT !.pc = "sync", !.tools = Listed(sync.name)]
      BY <2>1, <2>2, <2>a, <3>2
    <3>3. QED
      BY <2>3, <3>1, <3>2
  <2>5. QED
    BY <1>1, <1>2, <1>5, <2>1, <2>4 DEF ListTools, SyncInv, SyncTypeOK, SyncAtWork, IInv
<1>6. CASE SyncTools \/ MarkUnavailable
  <2>1. sync.name \in Names /\ subscribed
    BY <1>6 DEF SyncTools, MarkUnavailable, SyncInv, SyncAtWork, Resting
  <2>2. \A tools : Synced(tools, sync.name) \in [Tools -> {"absent", "available", "unavailable"}]
    BY DEF Synced
  <2>3. thing' \in [Names -> [Tools -> {"absent", "available", "unavailable"}]] /\ sync' = Resting
    <3>1. PICK ts : thing' = [thing EXCEPT ![sync.name] = Synced(ts, sync.name)]
      BY <1>6 DEF SyncTools, MarkUnavailable
    <3>2. QED
      BY <1>2, <1>6, <2>2, <3>1 DEF SyncTools, MarkUnavailable, SyncTypeOK
  <2>4. QED
    BY <1>1, <1>2, <1>6, <2>1, <2>3
    DEF SyncTools, MarkUnavailable, SyncInv, SyncTypeOK, SyncAtWork, IInv, Resting
<1>7. QED
  BY <1>3, <1>4, <1>5, <1>6 DEF SyncStep

LEMMA SyncInvStep == SyncInv /\ [SyncNext]_allVars => SyncInv'
<1>1. ASSUME SyncInv, UNCHANGED allVars PROVE SyncInv'
  BY <1>1
  DEF allVars, vars, syncVars, SyncInv, IInv, TypeOK, Allocated, EntryIsDesired, EntryIsServed,
      SyncTypeOK, SyncAtWork
<1>2. QED
  BY <1>1, ManagerKeepsSync, TaskKeepsSync DEF SyncNext

\* Every variable of the manager and of the task keeps its type, and the
\* channel its capacity (main.rs, mcp/events.rs).
THEOREM SyncTypes == SyncSafeSpec => []SyncTypeOK
<1>1. SyncInv => SyncTypeOK
  BY DEF SyncInv
<1>2. QED
  BY <1>1, SyncInvInit, SyncInvStep, PTL DEF SyncSafeSpec

-----------------------------------------------------------------------------
(* What is available is backed                                             *)

LEMMA BackedInit == SyncInit => BackedInv
<1> SUFFICES ASSUME SyncInit PROVE BackedInv
  OBVIOUS
<1>1. TruthInv /\ Len(inbox) = 0 /\ lost = {}
  BY TruthInit DEF SyncInit
<1>2. ASSUME NEW n \in Names PROVE Backed(n)
  BY <1>1 DEF SyncInit, Backed, Resting
<1>3. QED
  BY <1>1, <1>2 DEF BackedInv

\* An event goes to the end of the channel; if it makes the channel forget a
\* Removed that was the last of its name, that name is exempt from now on.
LEMMA ManagerKeepsBacked ==
  ASSUME SyncInv, BackedInv, ManagerStep, NEW n \in Names
  PROVE  (n \in lost' => ~Leaves(n, 1)') /\ (n \notin lost' => Backed(n)')
<1>1. inbox \in Seq(Events) /\ Len(inbox) <= Capacity /\ IInv /\ Next /\ UNCHANGED <<sync, thing>>
  BY DEF SyncInv, SyncTypeOK, Events, ManagerStep
<1>2. sent' = NoEvent \/ (sent' \in Events /\ sent'.kind # "ToolsRefreshed")
  BY <1>1, EventsTyped DEF BackedInv, TruthInv
<1>3. /\ Serves(n) => Serves(n)' \/ sent' = Event("Removed", n)
      /\ sent' = Event("Connected", n) => Serves(n)'
  BY <1>1, ServedUntilRemoved
<1>4. /\ n \in lost' <=> /\ n \in lost \/ Forgets(Event("Removed", n))
                        /\ \A i \in DOMAIN inbox' : inbox'[i] # Event("Removed", n)
      /\ inbox' = Received
  BY DEF ManagerStep
<1>5. inbox' \in Seq(Events)
  BY ManagerKeepsSync DEF SyncInv, SyncTypeOK, Events
<1>6. n \in lost' => ~Leaves(n, 1)'
  BY <1>4, <1>5 DEF Leaves
<1>7. ASSUME n \notin lost' PROVE Backed(n)'
  <2>1. CASE ~subscribed
    <3>1. Len(inbox') = 0 /\ sync' = Resting /\ \A t \in Tools : thing'[n][t] # "available"
      BY <1>1, <1>4, <2>1 DEF SyncInv, SyncAtWork, Received
    <3>2. QED
      BY <3>1 DEF Backed, Resting
  <2>2. CASE subscribed /\ sent' = NoEvent
    <3>1. inbox' = inbox
      BY <1>4, <2>2 DEF Received
    <3>2. n \notin lost
      BY <1>1, <1>4, <1>7, <3>1 DEF BackedInv, Leaves
    <3>3. Serves(n) => Serves(n)'
      BY <1>3, <2>2 DEF NoEvent, Event
    <3>4. QED
      BY <1>1, <3>1, <3>2, <3>3 DEF BackedInv, Backed, Brings, Leaves
  <2>3. CASE subscribed /\ sent' # NoEvent
    <3>1. sent' \in Events /\ sent'.kind # "ToolsRefreshed" /\ inbox' = Deliver(inbox, sent')
      BY <1>2, <1>4, <2>3 DEF Received
    <3>2. PICK d \in {0, 1} :
            /\ Len(inbox') = Len(inbox) + 1 - d /\ inbox'[Len(inbox) + 1 - d] = sent'
            /\ \A i \in 1..(Len(inbox) - d) : inbox'[i] = inbox[i + d]
            /\ d = 1 => inbox # <<>>
      <4>1. PICK ev \in Events : ev = sent'
        BY <3>1
      <4>2. inbox' = Deliver(inbox, ev)
        BY <3>1, <4>1
      <4>3. PICK d \in {0, 1} : Behind(inbox, Deliver(inbox, ev), ev, d)
        BY <1>1, <4>1, Delivered
      <4>4. QED
        BY <4>1, <4>2, <4>3 DEF Behind
    <3>3. CASE sent' = Event("Removed", n)
      <4>1. PICK top \in Nat : top = Len(inbox')
        BY <1>5
      <4>2. top >= 1 /\ inbox'[top] = Event("Removed", n)
        BY <1>1, <3>2, <3>3, <4>1
      <4>3. \A from \in 1..top : Leaves(n, from)'
        BY <4>1, <4>2 DEF Leaves
      <4>4. ~Brings(top, n)'
        BY <4>2 DEF Brings, Event
      <4>5. \A i \in 1..top : Brings(i, n)' => i + 1 \in 1..top
        BY <4>2, <4>4
      <4>6. QED
        BY <4>1, <4>2, <4>3, <4>5 DEF Backed
    <3>4. CASE sent' # Event("Removed", n)
      <4>1. Serves(n) => Serves(n)'
        BY <1>3, <3>4
      <4>2. ASSUME NEW from \in 1..(Len(inbox) + 1), Leaves(n, from), from > d
            PROVE  Leaves(n, from - d)'
        <5>1. PICK j \in from..Len(inbox) : inbox[j] = Event("Removed", n)
          BY <4>2 DEF Leaves
        <5>2. j - d \in (from - d)..Len(inbox') /\ inbox'[j - d] = inbox[j]
          BY <1>1, <3>2, <4>2, <5>1
        <5>3. QED
          BY <5>1, <5>2 DEF Leaves
      <4>3. Leaves(n, 1) => Leaves(n, 1)'
        <5>1. SUFFICES ASSUME Leaves(n, 1), d = 1 PROVE Leaves(n, 1)'
          BY <1>1, <3>2, <4>2
        <5>2. PICK j \in 1..Len(inbox) : inbox[j] = Event("Removed", n)
          BY <5>1 DEF Leaves
        <5>3. CASE j > 1
          <6>1. j - 1 \in 1..Len(inbox') /\ inbox'[j - 1] = inbox[j]
            BY <1>1, <3>2, <5>1, <5>2, <5>3
          <6>2. QED
            BY <5>2, <6>1 DEF Leaves
        <5>4. CASE j = 1 /\ inbox' = inbox
          BY <5>2, <5>4 DEF Leaves
        <5>5. CASE j = 1 /\ inbox' # inbox
          <6>1. Forgets(Event("Removed", n))
            BY <1>1, <1>4, <3>2, <5>1, <5>2, <5>5 DEF Forgets
          <6>2. \E i \in DOMAIN inbox' : inbox'[i] = Event("Removed", n)
            BY <1>4, <1>7, <6>1
          <6>3. QED
            BY <1>5, <6>2 DEF Leaves
        <5>6. QED
          BY <5>2, <5>3, <5>4, <5>5
      <4>4. n \notin lost
        <5>1. SUFFICES ASSUME n \in lost PROVE FALSE
          OBVIOUS
        <5>2. PICK i \in 1..Len(inbox') : inbox'[i] = Event("Removed", n)
          BY <1>4, <1>5, <1>7, <5>1
        <5>3. i \in 1..(Len(inbox) - d) /\ i + d \in 1..Len(inbox)
          BY <1>1, <3>2, <3>4, <5>2
        <5>4. QED
          BY <3>2, <5>1, <5>2, <5>3 DEF BackedInv, Leaves
      <4>5. Backed(n)
        BY <4>4 DEF BackedInv
      <4>6. ASSUME NEW i \in 1..Len(inbox'), Brings(i, n)'
            PROVE  Serves(n)' \/ Leaves(n, i + 1)'
        <5>1. CASE i = Len(inbox')
          <6>1. sent'.name = n /\ sent'.kind = "Connected"
            BY <3>1, <3>2, <4>6, <5>1 DEF Brings
          <6>2. sent' = Event("Connected", n)
            BY <3>1, <6>1 DEF Events, Event
          <6>3. QED
            BY <1>3, <6>2
        <5>2. CASE i # Len(inbox')
          <6>1. i \in 1..(Len(inbox) - d) /\ i + d \in 1..Len(inbox)
            BY <1>1, <3>2, <4>6, <5>2
          <6>2. Brings(i + d, n)
            BY <3>2, <4>6, <6>1 DEF Brings
          <6>3. Serves(n) \/ Leaves(n, i + d + 1)
            BY <4>5, <6>1, <6>2 DEF Backed
          <6>4. Leaves(n, i + d + 1) => Leaves(n, i + d + 1 - d)'
            BY <1>1, <4>2, <6>1
          <6>5. i + d + 1 - d = i + 1
            BY <1>1
          <6>6. QED
            BY <4>1, <6>3, <6>4, <6>5
        <5>3. QED
          BY <5>1, <5>2
      <4>7. QED
        BY <1>1, <4>1, <4>3, <4>5, <4>6 DEF Backed
    <3>5. QED
      BY <3>3, <3>4
  <2>4. QED
    BY <2>1, <2>2, <2>3
<1>8. QED
  BY <1>6, <1>7

\* Receiving passes what is first on to the task, which acts on one event
\* before it takes the next.
LEMMA TaskKeepsBacked ==
  ASSUME SyncInv, BackedInv, SyncStep, NEW n \in Names
  PROVE  (n \in lost' => ~Leaves(n, 1)') /\ (n \notin lost' => Backed(n)')
<1>1. UNCHANGED <<loop, lost>>
  BY DEF SyncStep, Subscribe, Receive, ListTools, SyncTools, MarkUnavailable
<1>2. (Serves(n) <=> Serves(n)') /\ (n \in lost => ~Leaves(n, 1)) /\ (n \notin lost => Backed(n))
  BY <1>1 DEF Serves, BackedInv
<1>3. CASE Subscribe
  BY <1>1, <1>2, <1>3 DEF Subscribe, Backed, Brings, Leaves
<1>4. CASE Receive
  <2>1. inbox \in Seq(Events) /\ inbox # <<>> /\ inbox' = Tail(inbox) /\ UNCHANGED thing
    BY <1>4 DEF Receive, SyncInv, SyncTypeOK, Events
  <2>2. /\ Len(inbox) \in Nat \ {0} /\ Len(inbox') = Len(inbox) - 1
        /\ \A i \in 1..Len(inbox') : inbox'[i] = inbox[i + 1]
    BY <2>1
  <2>3. inbox[1] \in Events /\ Head(inbox) = inbox[1]
    BY <2>1
  <2>4. /\ sync.pc = "recv"
        /\ inbox[1].kind \in {"Connected", "ToolsRefreshed"} =>
             sync' = [Resting EXCEPT !.pc = "list", !.name = inbox[1].name]
        /\ inbox[1].kind = "Removed" =>
             sync' = [Resting EXCEPT !.pc = "removed", !.name = inbox[1].name]
        /\ inbox[1].kind \notin {"Connected", "ToolsRefreshed", "Removed"} => sync' = sync
    BY <1>4, <2>3 DEF Receive
  <2>5. \A from \in 1..(Len(inbox') + 1) : Leaves(n, from + 1) => Leaves(n, from)'
    <3>1. SUFFICES ASSUME NEW from \in 1..(Len(inbox') + 1), Leaves(n, from + 1)
                   PROVE  Leaves(n, from)'
      OBVIOUS
    <3>2. PICK j \in (from + 1)..Len(inbox) : inbox[j] = Event("Removed", n)
      BY <3>1 DEF Leaves
    <3>3. j - 1 \in from..Len(inbox') /\ j - 1 \in 1..Len(inbox') /\ inbox'[j - 1] = inbox[j]
      BY <2>2, <3>2
    <3>4. QED
      BY <3>2, <3>3 DEF Leaves
  <2>6. Leaves(n, 1)' => Leaves(n, 1)
    <3>1. SUFFICES ASSUME Leaves(n, 1)' PROVE Leaves(n, 1)
      OBVIOUS
    <3>2. PICK j \in 1..Len(inbox') : inbox'[j] = Event("Removed", n)
      BY <3>1 DEF Leaves
    <3>3. j + 1 \in 1..Len(inbox) /\ inbox[j + 1] = Event("Removed", n)
      BY <2>2, <3>2
    <3>4. QED
      BY <3>3 DEF Leaves
  <2>7. ASSUME n \notin lost PROVE Backed(n)'
    <3>1. Backed(n)
      BY <1>2, <2>7
    <3>2. Leaves(n, 1) => Leaves(n, 1)' \/ (sync'.name = n /\ sync'.pc = "removed")
      <4>1. CASE inbox[1] = Event("Removed", n)
        <5>1. inbox[1].kind = "Removed" /\ inbox[1].name = n
          BY <4>1 DEF Event
        <5>2. QED
          BY <2>4, <5>1 DEF Resting
      <4>2. CASE inbox[1] # Event("Removed", n)
        <5>1. SUFFICES ASSUME Leaves(n, 1) PROVE Leaves(n, 1)'
          OBVIOUS
        <5>2. PICK j \in 1..Len(inbox) : inbox[j] = Event("Removed", n)
          BY <5>1 DEF Leaves
        <5>3. j - 1 \in 1..Len(inbox') /\ inbox'[j - 1] = inbox[j]
          BY <2>2, <4>2, <5>2
        <5>4. QED
          BY <5>2, <5>3 DEF Leaves
      <4>3. QED
        BY <4>1, <4>2
    <3>3. ASSUME NEW i \in 1..Len(inbox'), Brings(i, n)' PROVE Serves(n)' \/ Leaves(n, i + 1)'
      <4>1. i + 1 \in 1..Len(inbox) /\ Brings(i + 1, n)
        BY <2>2, <3>3 DEF Brings
      <4>2. Serves(n) \/ Leaves(n, i + 1 + 1)
        BY <3>1, <4>1 DEF Backed
      <4>3. i + 1 \in 1..(Len(inbox') + 1)
        BY <2>2, <4>1
      <4>4. QED
        BY <1>2, <2>5, <4>2, <4>3
    <3>4. ASSUME sync'.name = n, sync'.pc \in {"list", "sync"} PROVE Serves(n)' \/ Leaves(n, 1)'
      <4>1. inbox[1].kind \in {"Connected", "ToolsRefreshed"} /\ inbox[1].name = n
        BY <2>4, <3>4 DEF Resting
      <4>2. 1 \in 1..Len(inbox) /\ Brings(1, n)
        BY <2>2, <4>1 DEF Brings
      <4>3. Serves(n) \/ Leaves(n, 1 + 1)
        BY <3>1, <4>2 DEF Backed
      <4>4. QED
        BY <1>2, <2>2, <2>5, <4>3
    <3>5. QED
      BY <1>2, <2>1, <2>4, <3>1, <3>2, <3>3, <3>4 DEF Backed
  <2>8. QED
    BY <1>1, <1>2, <2>6, <2>7
<1>5. CASE ListTools
  <2>1. /\ sync.pc = "list" /\ UNCHANGED <<inbox, thing>>
        /\ sync' = Resting \/ (sync'.pc = "sync" /\ sync'.name = sync.name)
    BY <1>5 DEF ListTools, SyncInv, SyncTypeOK
  <2>2. QED
    BY <1>1, <1>2, <2>1 DEF Backed, Brings, Leaves, Resting
<1>6. CASE SyncTools
  <2>1. /\ sync.pc = "sync" /\ UNCHANGED inbox /\ sync' = Resting /\ DOMAIN thing = Names
        /\ thing' = [thing EXCEPT ![sync.name] = Synced(sync.tools, sync.name)]
    BY <1>6 DEF SyncTools, SyncInv, SyncTypeOK
  <2>2. n # sync.name => thing'[n] = thing[n]
    BY <2>1
  <2>3. QED
    BY <1>1, <1>2, <2>1, <2>2 DEF Backed, Brings, Leaves, Resting
<1>7. CASE MarkUnavailable
  <2>1. /\ sync.pc = "removed" /\ UNCHANGED inbox /\ sync' = Resting /\ DOMAIN thing = Names
        /\ thing' = [thing EXCEPT ![sync.name] = Synced({}, sync.name)]
    BY <1>7 DEF MarkUnavailable, SyncInv, SyncTypeOK
  <2>2. n # sync.name => thing'[n] = thing[n]
    BY <2>1
  <2>3. n = sync.name => \A t \in Tools : thing'[n][t] # "available"
    BY <2>1 DEF Synced
  <2>4. QED
    BY <1>1, <1>2, <2>1, <2>2, <2>3 DEF Backed, Brings, Leaves, Resting
<1>8. QED
  BY <1>3, <1>4, <1>5, <1>6, <1>7 DEF SyncStep

\* The two together: a tool list is refreshed by no step of either.
LEMMA BackedStep ==
  SyncInv /\ BackedInv /\ [SyncNext]_allVars /\ [NoRefresh]_vars => BackedInv'
<1> SUFFICES ASSUME SyncInv, BackedInv, [SyncNext]_allVars, [NoRefresh]_vars PROVE BackedInv'
  OBVIOUS
<1>1. CASE UNCHANGED allVars
  BY <1>1
  DEF allVars, vars, syncVars, BackedInv, TruthInv, Says, Leaves, Backed, Brings, Serves
<1>2. CASE ManagerStep
  <2>1. TruthInv'
    BY <1>2, TruthStep DEF ManagerStep, SyncInv, BackedInv
  <2>2. QED
    BY <1>2, <2>1, ManagerKeepsBacked DEF BackedInv, ManagerStep
<1>3. CASE SyncStep
  <2>1. UNCHANGED <<conns, loop, caller, lost>>
    BY <1>3 DEF SyncStep, Subscribe, Receive, ListTools, SyncTools, MarkUnavailable
  <2>2. TruthInv'
    BY <2>1 DEF BackedInv, TruthInv, Says
  <2>3. lost' \subseteq Names
    BY <2>1 DEF SyncInv, SyncTypeOK
  <2>4. QED
    BY <1>3, <2>2, <2>3, TaskKeepsBacked DEF BackedInv
<1>4. QED
  BY <1>1, <1>2, <1>3 DEF SyncNext

\* As long as no tool list is refreshed, which nothing in the program does, a
\* tool that is available has a server behind it or a Removed on its way,
\* unless the channel forgot it (main.rs, the sync task; mcp/events.rs).
THEOREM ToolsAreBacked == SyncSafeSpec /\ [][NoRefresh]_vars => []UnbackedIsPending
<1>1. SyncInv /\ BackedInv => UnbackedIsPending
  BY DEF BackedInv, Backed, UnbackedIsPending, Serves, Leaves
<1>2. QED
  BY <1>1, SyncInvInit, SyncInvStep, BackedInit, BackedStep, PTL DEF SyncSafeSpec

\* Whatever overlaps, a tool once recorded is only marked, never dropped
\* (sync_mcp_tools).
THEOREM NoToolIsDropped == SyncSafeSpec => ToolsAreKept
<1>1. ASSUME SyncInv, [SyncNext]_allVars, NEW n \in Names, NEW t \in Tools, thing[n][t] # "absent"
      PROVE  thing'[n][t] # "absent"
  <2>1. CASE UNCHANGED thing
    BY <1>1, <2>1
  <2>2. CASE SyncTools \/ MarkUnavailable
    <3>1. PICK ts : thing' = [thing EXCEPT ![sync.name] = Synced(ts, sync.name)]
      BY <2>2 DEF SyncTools, MarkUnavailable
    <3>2. DOMAIN thing = Names
      BY <1>1 DEF SyncInv, SyncTypeOK
    <3>3. CASE n = sync.name
      <4>1. thing'[n] = Synced(ts, n)
        BY <3>1, <3>2, <3>3
      <4>2. QED
        BY <1>1, <4>1 DEF Synced
    <3>4. CASE n # sync.name
      BY <1>1, <3>1, <3>2, <3>4
    <3>5. QED
      BY <3>3, <3>4
  <2>3. QED
    BY <1>1, <2>1, <2>2
    DEF SyncNext, SyncStep, ManagerStep, Subscribe, Receive, ListTools, allVars, syncVars
<1>2. SyncInv /\ [SyncNext]_allVars =>
        [\A n \in Names, t \in Tools : thing[n][t] # "absent" => thing'[n][t] # "absent"]_thing
  BY <1>1
<1>3. QED
  BY <1>2, SyncInvInit, SyncInvStep, PTL DEF SyncSafeSpec, ToolsAreKept
=============================================================================

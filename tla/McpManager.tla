----------------------------- MODULE McpManager -----------------------------
(***************************************************************************)
(* The MCP connection manager (mcp/manager.rs, mcp/backoff.rs).            *)
(*                                                                         *)
(* Lua threads call add and remove; every add that changes the table owns  *)
(* one background task, connection_loop.  The table of connections is      *)
(* keyed by NAME, and a loop looks its entry up by name, so a loop of an   *)
(* earlier add can meet the entry of a later one.  All interleavings of    *)
(* the critical sections of the two locks are modelled; one action is one  *)
(* critical section, or the code between two await points.                 *)
(***************************************************************************)
EXTENDS Naturals, FiniteSets

CONSTANTS
  Names,        \* connection names
  Endpoints,    \* endpoint URLs
  Tools,        \* tool names
  Offers,       \* Offers[e]: the tool lists the server at e may answer
  None,         \* the absence of an endpoint, a service or an entry
  Callers,      \* tasks that call tools or refresh a tool list
  MaxAdds,      \* bound: adds that change the table, and so loops
  MaxRemoves,   \* bound: successful removes
  MaxAttempt,   \* stands for u32::MAX, where the attempt counter saturates
  MaxCalls      \* bound: calls counted in one entry

ASSUME NamesAssumption == None \notin Names /\ None \notin Endpoints
ASSUME OffersAssumption == Offers \in [Endpoints -> SUBSET SUBSET Tools]
ASSUME BoundsAssumption ==
  /\ MaxAdds \in Nat
  /\ MaxRemoves \in Nat
  /\ MaxAttempt \in Nat
  /\ MaxCalls \in Nat

VARIABLES
  desired,      \* name -> endpoint or None
  conns,        \* name -> entry of the table or None
  cancelled,    \* the cancelled tokens; the k-th add creates token k
  loop,         \* k -> the add and the task it spawns
  adds,         \* adds that changed the table so far
  removes,      \* successful removes so far
  caller,       \* a tool call or a refresh in flight
  sent          \* the event the last step broadcast, or NoEvent

vars == <<desired, conns, cancelled, loop, adds, removes, caller, sent>>

-----------------------------------------------------------------------------
Loops == 1..MaxAdds

States == {"connecting", "connected", "reconnecting"}

\* ManagedConnection.  A service is named by the endpoint it talks to.
Entry == [endpoint : Endpoints, state : States,
          service : Endpoints \cup {None}, tools : SUBSET Tools,
          calls : 0..MaxCalls, token : Loops]

ASSUME EntryAssumption == None \notin Entry

\* Where a loop stands: every await and every lock is a place of its own.
\*   spawning  add has released its locks, has not read the token yet
\*   panicked  add found no entry to read the token from
\*   top       at the head of the loop
\*   connect   awaiting connect()
\*   store     connected, Connected sent, entry not yet written
\*   wait      awaiting the token
\*   mark      connect failed, Reconnecting sent, entry not yet written
\*   backoff   sleeping, or awaiting the token
\*   drop      Removed sent, entry not yet removed
Running == {"top", "connect", "store", "wait", "mark", "backoff", "drop"}
Places  == Running \cup {"unused", "spawning", "panicked", "done"}

Task == [pc : Places, name : Names \cup {None}, endpoint : Endpoints \cup {None},
         token : Loops \cup {0}, attempt : 0..MaxAttempt, tools : SUBSET Tools]

Kinds == {"Connecting", "Connected", "Reconnecting", "Removed",
          "ToolsRefreshed"}

NoEvent == [kind |-> "none", name |-> None]
Event(kind, n) == [kind |-> kind, name |-> n]

Unused == [pc |-> "unused", name |-> None, endpoint |-> None, token |-> 0,
           attempt |-> 0, tools |-> {}]

Idle == [pc |-> "idle", name |-> None, service |-> None]

\* Variant: the token of the add before is reused.
ReusedToken(e, k) ==
  [endpoint |-> e, state |-> "connecting", service |-> None, tools |-> {},
   calls |-> 0, token |-> IF k > 1 THEN k - 1 ELSE k]

FreshEntry(e, k) ==
  [endpoint |-> e, state |-> "connecting", service |-> None, tools |-> {},
   calls |-> 0, token |-> k]

Init ==
  /\ desired = [n \in Names |-> None]
  /\ conns = [n \in Names |-> None]
  /\ cancelled = {}
  /\ loop = [k \in Loops |-> Unused]
  /\ adds = 0
  /\ removes = 0
  /\ caller = [c \in Callers |-> Idle]
  /\ sent = NoEvent

\* Variants: the tools of the last connection are kept; the service is kept;
\* a failed connection is forgotten; nothing is removed.
KeepsOldTools(entry, e, ts) ==
  [entry EXCEPT !.state = "connected", !.service = e]
KeepsService(entry) == [entry EXCEPT !.state = "reconnecting"]
ForgetsEntry(entry) == None
NotWithout(n) == conns

\* What connection_loop writes into an entry after a success, or a failure
\* (the tools are left as they were), and what removing an entry leaves.
ConnectedEntry(entry, e, ts) ==
  [entry EXCEPT !.state = "connected", !.service = e, !.tools = ts]
ReconnectingEntry(entry) ==
  [entry EXCEPT !.state = "reconnecting", !.service = None]
Without(n) == [conns EXCEPT ![n] = None]

-----------------------------------------------------------------------------
(* Control plane: add and remove hold both write locks.                    *)

\* add, same endpoint: returns early.
AddSame(n, e) ==
  /\ desired[n] = e
  /\ sent' = NoEvent
  /\ UNCHANGED <<desired, conns, cancelled, loop, adds, removes, caller>>

\* add, new name or other endpoint: the old entry is cancelled and replaced.
AddLocked(n, e) ==
  LET k == adds + 1 IN
  /\ adds < MaxAdds
  /\ desired[n] # e
  /\ cancelled' = IF desired[n] # None /\ conns[n] # None
                    THEN cancelled \cup {conns[n].token}
                    ELSE cancelled
  /\ desired' = [desired EXCEPT ![n] = e]
  /\ conns' = [conns EXCEPT ![n] = FreshEntry(e, k)]
  /\ loop' = [loop EXCEPT ![k] = [Unused EXCEPT !.pc = "spawning",
                                                !.name = n,
                                                !.endpoint = e]]
  /\ adds' = k
  /\ sent' = NoEvent
  /\ UNCHANGED <<removes, caller>>

\* add, after its locks: the token is read back from the table by name.
AddSpawn(k) ==
  LET n == loop[k].name IN
  /\ loop[k].pc = "spawning"
  /\ loop' = [loop EXCEPT ![k] =
                IF conns[n] # None
                  THEN [@ EXCEPT !.pc = "top", !.token = conns[n].token]
                  ELSE [@ EXCEPT !.pc = "panicked"]]
  /\ sent' = NoEvent
  /\ UNCHANGED <<desired, conns, cancelled, adds, removes, caller>>

\* remove of a name that is not desired: returns false.
RemoveAbsent(n) ==
  /\ desired[n] = None
  /\ sent' = NoEvent
  /\ UNCHANGED <<desired, conns, cancelled, loop, adds, removes, caller>>

Remove(n) ==
  /\ removes < MaxRemoves
  /\ desired[n] # None
  /\ desired' = [desired EXCEPT ![n] = None]
  /\ conns' = Without(n)
  /\ cancelled' = IF conns[n] # None THEN cancelled \cup {conns[n].token}
                                     ELSE cancelled
  /\ removes' = removes + 1
  /\ sent' = NoEvent
  /\ UNCHANGED <<loop, adds, caller>>

-----------------------------------------------------------------------------
(* connection_loop                                                         *)

At(k, pc) == loop[k].pc = pc
\* Variant: the task watches a token that nobody cancels.
NeverCancelled(k) == FALSE
Cancelled(k) == loop[k].token \in cancelled
Goto(k, pc) == loop' = [loop EXCEPT ![k].pc = pc]

\* Backoff::next_delay counts attempts with saturating_add.
NextAttempt(a) == IF a < MaxAttempt THEN a + 1 ELSE a

LoopTop(k) ==
  /\ At(k, "top")
  /\ \/ /\ Cancelled(k)
        /\ sent' = Event("Removed", loop[k].name)
        /\ Goto(k, "drop")
     \/ /\ ~Cancelled(k)
        /\ sent' = Event("Connecting", loop[k].name)
        /\ Goto(k, "connect")
  /\ UNCHANGED <<desired, conns, cancelled, adds, removes, caller>>

ConnectOk(k) ==
  /\ At(k, "connect")
  /\ \E ts \in Offers[loop[k].endpoint] :
       loop' = [loop EXCEPT ![k] =
                  [@ EXCEPT !.pc = "store", !.tools = ts, !.attempt = 0]]
  /\ sent' = Event("Connected", loop[k].name)
  /\ UNCHANGED <<desired, conns, cancelled, adds, removes, caller>>

\* get_mut(&name): whichever entry has the name now, if any.
StoreConnection(k) ==
  LET n == loop[k].name IN
  /\ At(k, "store")
  /\ conns' = IF conns[n] # None
                THEN [conns EXCEPT ![n] =
                        ConnectedEntry(@, loop[k].endpoint, loop[k].tools)]
                ELSE conns
  /\ loop' = [loop EXCEPT ![k] = [@ EXCEPT !.pc = "wait", !.tools = {}]]
  /\ sent' = NoEvent
  /\ UNCHANGED <<desired, cancelled, adds, removes, caller>>

ConnectErr(k) ==
  /\ At(k, "connect")
  /\ loop' = [loop EXCEPT ![k] =
                [@ EXCEPT !.pc = "mark",
                          !.attempt = NextAttempt(loop[k].attempt)]]
  /\ sent' = Event("Reconnecting", loop[k].name)
  /\ UNCHANGED <<desired, conns, cancelled, adds, removes, caller>>

MarkReconnecting(k) ==
  LET n == loop[k].name IN
  /\ At(k, "mark")
  /\ conns' = IF conns[n] # None
                THEN [conns EXCEPT ![n] = ReconnectingEntry(@)]
                ELSE conns
  /\ Goto(k, "backoff")
  /\ sent' = NoEvent
  /\ UNCHANGED <<desired, cancelled, adds, removes, caller>>

\* Variant: the task gives up after the last attempt it can count.
GivesUp(k) ==
  /\ At(k, "backoff")
  /\ Goto(k, IF loop[k].attempt = MaxAttempt THEN "done" ELSE "top")
  /\ sent' = NoEvent
  /\ UNCHANGED <<desired, conns, cancelled, adds, removes, caller>>

BackoffElapsed(k) ==
  /\ At(k, "backoff")
  /\ Goto(k, "top")
  /\ sent' = NoEvent
  /\ UNCHANGED <<desired, conns, cancelled, adds, removes, caller>>

\* Both awaits of the token: while connected, and during the backoff.
SeeCancelled(k) ==
  /\ At(k, "wait") \/ At(k, "backoff")
  /\ Cancelled(k)
  /\ sent' = Event("Removed", loop[k].name)
  /\ Goto(k, "drop")
  /\ UNCHANGED <<desired, conns, cancelled, adds, removes, caller>>

\* connections.write().await.remove(&name): by name, whosever it is.
DropEntry(k) ==
  /\ At(k, "drop")
  /\ conns' = Without(loop[k].name)
  /\ Goto(k, "done")
  /\ sent' = NoEvent
  /\ UNCHANGED <<desired, cancelled, adds, removes, caller>>

LoopStep(k) ==
  \/ LoopTop(k) \/ ConnectOk(k) \/ ConnectErr(k) \/ StoreConnection(k)
  \/ MarkReconnecting(k) \/ BackoffElapsed(k) \/ SeeCancelled(k)
  \/ DropEntry(k)

-----------------------------------------------------------------------------
(* Data plane: the service is cloned under the read lock and used after.   *)

CallTool(c, t) ==
  /\ caller[c].pc = "idle"
  /\ \E n \in Names :
       /\ conns[n] # None
       /\ t \in conns[n].tools
       /\ conns[n].service # None
       /\ caller' = [caller EXCEPT ![c] = [pc |-> "calling", name |-> n,
                                           service |-> conns[n].service]]
  /\ sent' = NoEvent
  /\ UNCHANGED <<desired, conns, cancelled, loop, adds, removes>>

\* The answer is counted in whichever entry has the name by then.
CallReturns(c) ==
  LET n == caller[c].name IN
  /\ caller[c].pc = "calling"
  /\ IF conns[n] # None
       THEN /\ conns[n].calls < MaxCalls
            /\ conns' = [conns EXCEPT ![n].calls = @ + 1]
       ELSE conns' = conns
  /\ caller' = [caller EXCEPT ![c] = Idle]
  /\ sent' = NoEvent
  /\ UNCHANGED <<desired, cancelled, loop, adds, removes>>

RefreshTools(c, n) ==
  /\ caller[c].pc = "idle"
  /\ conns[n] # None
  /\ conns[n].service # None
  /\ caller' = [caller EXCEPT ![c] = [pc |-> "refreshing", name |-> n,
                                      service |-> conns[n].service]]
  /\ sent' = NoEvent
  /\ UNCHANGED <<desired, conns, cancelled, loop, adds, removes>>

RefreshReturns(c) ==
  LET n == caller[c].name IN
  /\ caller[c].pc = "refreshing"
  /\ \E ts \in Offers[caller[c].service] :
       conns' = IF conns[n] # None
                  THEN [conns EXCEPT ![n] =
                          [@ EXCEPT !.tools = ts, !.state = "connected"]]
                  ELSE conns
  /\ caller' = [caller EXCEPT ![c] = Idle]
  /\ sent' = Event("ToolsRefreshed", n)
  /\ UNCHANGED <<desired, cancelled, loop, adds, removes>>

\* The service answered with an error, or is gone: `?` returns.
CallFails(c) ==
  /\ caller[c].pc # "idle"
  /\ caller' = [caller EXCEPT ![c] = Idle]
  /\ sent' = NoEvent
  /\ UNCHANGED <<desired, conns, cancelled, loop, adds, removes>>

CallerStep(c) ==
  \/ \E t \in Tools : CallTool(c, t)
  \/ \E n \in Names : RefreshTools(c, n)
  \/ CallReturns(c) \/ RefreshReturns(c) \/ CallFails(c)

-----------------------------------------------------------------------------
ControlStep ==
  \E n \in Names :
    \/ \E e \in Endpoints : AddSame(n, e) \/ AddLocked(n, e)
    \/ Remove(n) \/ RemoveAbsent(n)

Next ==
  \/ ControlStep
  \/ \E k \in Loops : AddSpawn(k) \/ LoopStep(k)
  \/ \E c \in Callers : CallerStep(c)

\* A task that is runnable is run.  connect() and a call are assumed to
\* answer or fail in the end; which of the two is never assumed.
LoopIsRun(k) == WF_vars(AddSpawn(k)) /\ WF_vars(LoopStep(k))
CallReturnsInTheEnd(c) ==
  WF_vars(CallReturns(c) \/ RefreshReturns(c) \/ CallFails(c))
LoopsAreRun == \A k \in Loops : LoopIsRun(k)
CallsReturn == \A c \in Callers : CallReturnsInTheEnd(c)
Fairness == LoopsAreRun /\ CallsReturn

SafeSpec == Init /\ [][Next]_vars
Spec == SafeSpec /\ Fairness
-----------------------------------------------------------------------------
(* Properties                                                              *)

\* Every variable has its type; attempt and calls stay in range.
TypeOK ==
  /\ desired \in [Names -> Endpoints \cup {None}]
  /\ conns \in [Names -> Entry \cup {None}]
  /\ cancelled \in SUBSET Loops
  /\ loop \in [Loops -> Task]
  /\ adds \in 0..MaxAdds
  /\ removes \in Nat
  /\ caller \in [Callers -> [pc : {"idle", "calling", "refreshing"},
                            name : Names \cup {None},
                            service : Endpoints \cup {None}]]
  /\ sent \in [kind : Kinds \cup {"none"}, name : Names \cup {None}]

\* What list() and status() show is desired, at the endpoint last asked for:
\* no late step of an old loop brings a removed connection back
\* (manager.rs: add, remove, and the get_mut of connection_loop).
EntryIsDesired ==
  \A n \in Names : conns[n] # None => desired[n] = conns[n].endpoint

\* Every entry is worked on: the add that made it has a task of its own, with
\* the entry's name, endpoint and token, which is about to start or runs and
\* has not been told to stop (manager.rs: add, connection_loop).
EntryIsServed ==
  \A n \in Names : conns[n] # None =>
    LET k == conns[n].token IN
    /\ loop[k].name = n
    /\ loop[k].endpoint = conns[n].endpoint
    /\ k \notin cancelled
    /\ \/ loop[k].pc = "spawning"
       \/ loop[k].pc \in Running \ {"drop"} /\ loop[k].token = k

\* "connected" is shown exactly when there is a service to call
\* (ManagedConnection.service: "Active service (when connected)").
\* refresh_tools, which nothing in the program calls, would break it: its answer
\* may come after the service is gone.
StatusTruthful ==
  \A n \in Names : conns[n] # None =>
    (conns[n].state = "connected" <=> conns[n].service # None)

\* A call routed by tool name reaches a server that listed the tool: the
\* tools of an entry come from the service beside them (call_tool, rig_tools).
ToolsMatchService ==
  \A n \in Names : conns[n] # None =>
    (conns[n].service # None => conns[n].tools \in Offers[conns[n].service])

\* A service the table hands to callers is held by a task: the one that made
\* that connection for that name still waits for its token, or is about to
\* remove the entry (connection_loop stores the service by name, and so into
\* the entry of another add: no such service outlives the task behind it).
ServicesAreHeld ==
  \A n \in Names : conns[n] # None /\ conns[n].service # None =>
    \E k \in Loops :
      /\ loop[k].name = n
      /\ loop[k].endpoint = conns[n].service
      /\ loop[k].pc \in {"wait", "drop"}

\* A cancelled task ends: it is not stuck in a retry, a sleep or a wait
\* (the three places where connection_loop looks at its token).
CancelledLoopsEnd ==
  \A k \in Loops :
    (loop[k].pc \in Running /\ loop[k].token \in cancelled) ~> (loop[k].pc = "done")

\* "infinite retry": a failed attempt is followed by another, or by the end
\* of a task that was cancelled (ConnectionState::Reconnecting).
RetriesForever ==
  \A k \in Loops :
    (loop[k].pc = "mark") ~>
      \/ loop[k].pc = "connect"
      \/ loop[k].pc = "drop" /\ loop[k].token \in cancelled

\* A desired name loses its entry only to a task of an earlier add that was
\* told to stop (the three removes by name of connection_loop), never to a
\* failure or to the task that serves it.  Such a loss the code has.
LostEntryHasCulprit ==
  \A n \in Names : desired[n] # None /\ conns[n] = None =>
    \E k \in Loops : loop[k].name = n /\ k \in cancelled /\ loop[k].pc = "done"
=============================================================================

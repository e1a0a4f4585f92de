-------------------------- MODULE McpManagerProofs --------------------------
(***************************************************************************)
(* Every entry of the connection table is desired and is served by a live  *)
(* task of its own, a missing one was taken away by a task told to stop,   *)
(* and an entry says the truth about its service, which a task holds; a    *)
(* task that was told to stop ends, and a failed attempt is followed by    *)
(* another; for any number of names, endpoints, adds, removes and callers. *)
(***************************************************************************)
EXTENDS McpManager, TLAPS

\* The adds made so far own loops 1..adds; nothing refers to a later one.
Allocated ==
  /\ \A k \in Loops :
       /\ k > adds => loop[k].pc = "unused"
       /\ loop[k].pc # "unused" =>
            loop[k].name \in Names /\ loop[k].endpoint \in Endpoints
  /\ \A k \in cancelled : k <= adds
  /\ \A n \in Names : conns[n] # None => conns[n].token <= adds
  /\ \A c \in Callers : caller[c].pc # "idle" =>
       caller[c].name \in Names /\ caller[c].service \in Endpoints

IInv == TypeOK /\ Allocated /\ EntryIsDesired /\ EntryIsServed

\* The attempt counter starts in its range.
LEMMA ZeroAttempt == 0 \in 0..MaxAttempt
  BY BoundsAssumption

\* The initial state satisfies the inductive invariant.
LEMMA InitInv == Init => IInv
  BY BoundsAssumption, ZeroAttempt
  DEF Init, IInv, TypeOK, Allocated, EntryIsDesired, EntryIsServed, Unused,
      Idle, NoEvent, Loops, Places, Task

\* A loop that is somewhere in its body was allocated by an add.
LEMMA RunningIsAllocated ==
  ASSUME IInv, NEW k \in Loops, loop[k].pc # "unused"
  PROVE  loop[k].name \in Names /\ loop[k].endpoint \in Endpoints
  BY BoundsAssumption DEF IInv, TypeOK, Allocated, Loops

\* Each action keeps the types.
LEMMA TypeStep == IInv /\ [Next]_vars => TypeOK'
<1> SUFFICES ASSUME IInv, [Next]_vars PROVE TypeOK'
  OBVIOUS
<1> USE NamesAssumption, BoundsAssumption, ZeroAttempt
<1>a. /\ loop \in [Loops -> Task]
      /\ conns \in [Names -> Entry \cup {None}]
  BY DEF IInv, TypeOK
<1>1. ASSUME NEW n \in Names, NEW e \in Endpoints, AddSame(n, e)
      PROVE  TypeOK'
  BY <1>1 DEF AddSame, IInv, TypeOK, NoEvent
<1>2. ASSUME NEW n \in Names, NEW e \in Endpoints, AddLocked(n, e)
      PROVE  TypeOK'
  <2>1. adds + 1 \in Loops
    BY <1>2 DEF AddLocked, IInv, TypeOK, Loops
  <2>2. FreshEntry(e, adds + 1) \in Entry
    BY <2>1 DEF FreshEntry, Entry, States
  <2>3. conns' \in [Names -> Entry \cup {None}]
    BY <1>2, <2>2 DEF AddLocked, IInv, TypeOK
  <2>4. cancelled' \in SUBSET Loops
    BY <1>2 DEF AddLocked, IInv, TypeOK, Entry
  <2>5. [Unused EXCEPT !.pc = "spawning", !.name = n, !.endpoint = e] \in Task
    BY DEF Unused, Places, Task
  <2>6. loop' \in [Loops -> Task]
    BY <1>2, <2>1, <2>5 DEF AddLocked, IInv, TypeOK
  <2> QED
    BY <1>2, <2>1, <2>3, <2>4, <2>6 DEF AddLocked, IInv, TypeOK, NoEvent, Loops
<1>3. ASSUME NEW n \in Names, Remove(n) PROVE TypeOK'
  <2>1. cancelled' \in SUBSET Loops
    BY <1>3 DEF Remove, Without, IInv, TypeOK, Entry
  <2> QED
    BY <1>3, <2>1 DEF Remove, Without, IInv, TypeOK, NoEvent
<1>4. ASSUME NEW n \in Names, RemoveAbsent(n) PROVE TypeOK'
  BY <1>4 DEF RemoveAbsent, IInv, TypeOK, NoEvent
<1>5. ASSUME NEW k \in Loops, AddSpawn(k) PROVE TypeOK'
  <2>1. loop[k].name \in Names
    BY <1>5, RunningIsAllocated DEF AddSpawn
  <2>2. conns[loop[k].name] # None => conns[loop[k].name].token \in Loops
    BY <2>1 DEF IInv, TypeOK, Entry
  <2>3. conns[loop[k].name] # None =>
          [loop[k] EXCEPT !.pc = "top", !.token = conns[loop[k].name].token]
            \in Task
    <3>1. "top" \in Places
      BY DEF Places, Running
    <3>2. QED
      BY <1>a, <2>2, <3>1 DEF Task
  <2>4. [loop[k] EXCEPT !.pc = "panicked"] \in Task
    BY <1>a DEF Task, Places
  <2>5. loop' \in [Loops -> Task]
    BY <1>a, <1>5, <2>3, <2>4 DEF AddSpawn
  <2> QED
    BY <1>5, <2>5 DEF AddSpawn, IInv, TypeOK, NoEvent
<1>6. ASSUME NEW k \in Loops, LoopStep(k) PROVE TypeOK'
  <2>1. loop[k].name \in Names /\ loop[k].endpoint \in Endpoints
    BY <1>6, RunningIsAllocated
    DEF LoopStep, LoopTop, ConnectOk, ConnectErr, StoreConnection,
        MarkReconnecting, BackoffElapsed, SeeCancelled, DropEntry, At
  <2>2. CASE LoopTop(k)
    <3>1. loop' \in [Loops -> Task]
      BY <1>a, <2>2 DEF LoopTop, Goto, Task, Places, Running
    <3> QED
      BY <2>1, <2>2, <3>1 DEF LoopTop, IInv, TypeOK, Event, Kinds
  <2>3. CASE ConnectOk(k)
    <3>1. PICK ts \in Offers[loop[k].endpoint] :
            loop' = [loop EXCEPT ![k] =
                       [@ EXCEPT !.pc = "store", !.tools = ts, !.attempt = 0]]
      BY <2>3 DEF ConnectOk
    <3>2. ts \in SUBSET Tools
      BY <2>1, OffersAssumption
    <3>3. [loop[k] EXCEPT !.pc = "store", !.tools = ts, !.attempt = 0] \in Task
      <4>1. 0 \in 0..MaxAttempt /\ "store" \in Places
        BY BoundsAssumption DEF Places, Running
      <4>2. ASSUME NEW t \in Task
            PROVE  [t EXCEPT !.pc = "store", !.tools = ts, !.attempt = 0] \in Task
        BY <3>2, <4>1 DEF Task
      <4>3. QED
        BY <1>a, <4>2
    <3>4. loop' \in [Loops -> Task]
      BY <1>a, <3>1, <3>3
    <3> QED
      BY <2>1, <2>3, <3>4 DEF ConnectOk, IInv, TypeOK, Event, Kinds
  <2>4. CASE ConnectErr(k)
    <3>1. NextAttempt(loop[k].attempt) \in 0..MaxAttempt
      BY <1>a DEF NextAttempt, Task
    <3>2. [loop[k] EXCEPT !.pc = "mark",
                          !.attempt = NextAttempt(loop[k].attempt)] \in Task
      BY <1>a, <3>1 DEF Task, Places, Running
    <3>3. loop' \in [Loops -> Task]
      BY <1>a, <2>4, <3>2 DEF ConnectErr
    <3> QED
      BY <2>1, <2>4, <3>3 DEF ConnectErr, IInv, TypeOK, Event, Kinds
  <2>5. CASE StoreConnection(k)
    <3>0. conns[loop[k].name] # None =>
            ConnectedEntry(conns[loop[k].name], loop[k].endpoint, loop[k].tools)
              \in Entry
      BY <1>a, <2>1 DEF ConnectedEntry, Task, Entry, States
    <3>1. conns' \in [Names -> Entry \cup {None}]
      BY <1>a, <2>1, <2>5, <3>0 DEF StoreConnection
    <3>2. [loop[k] EXCEPT !.pc = "wait", !.tools = {}] \in Task
      BY <1>a DEF Task, Places, Running
    <3>3. loop' \in [Loops -> Task]
      BY <1>a, <2>5, <3>2 DEF StoreConnection
    <3> QED
      BY <2>5, <3>1, <3>3 DEF StoreConnection, IInv, TypeOK, NoEvent
  <2>6. CASE MarkReconnecting(k)
    <3>1. conns' \in [Names -> Entry \cup {None}]
      <4>1. ASSUME NEW entry \in Entry PROVE ReconnectingEntry(entry) \in Entry
        BY DEF ReconnectingEntry, Entry, States
      <4>2. QED
        BY <1>a, <2>1, <2>6, <4>1 DEF MarkReconnecting
    <3>2. loop' \in [Loops -> Task]
      <4>1. "backoff" \in Places
        BY DEF Places, Running
      <4>2. [loop[k] EXCEPT !.pc = "backoff"] \in Task
        BY <1>a, <4>1 DEF Task
      <4>3. QED
        BY <1>a, <2>6, <4>2 DEF MarkReconnecting, Goto
    <3> QED
      BY <2>6, <3>1, <3>2 DEF MarkReconnecting, IInv, TypeOK, NoEvent
  <2>7. CASE BackoffElapsed(k)
    <3>1. loop' \in [Loops -> Task]
      BY <1>a, <2>7 DEF BackoffElapsed, Goto, Task, Places, Running
    <3> QED
      BY <2>1, <2>7, <3>1 DEF BackoffElapsed, IInv, TypeOK, NoEvent
  <2>8. CASE SeeCancelled(k)
    <3>1. loop' \in [Loops -> Task]
      BY <1>a, <2>8 DEF SeeCancelled, Goto, Task, Places, Running
    <3> QED
      BY <2>1, <2>8, <3>1 DEF SeeCancelled, IInv, TypeOK, Event, Kinds
  <2>9. CASE DropEntry(k)
    <3>1. loop' \in [Loops -> Task]
      BY <1>a, <2>9 DEF DropEntry, Without, Goto, Task, Places, Running
    <3> QED
      BY <2>1, <2>9, <3>1 DEF DropEntry, Without, IInv, TypeOK, NoEvent
  <2> QED
    BY <1>6, <2>2, <2>3, <2>4, <2>5, <2>6, <2>7, <2>8, <2>9 DEF LoopStep
<1>7. ASSUME NEW c \in Callers, CallerStep(c) PROVE TypeOK'
  <2>1. CASE \E t \in Tools : CallTool(c, t)
    BY <2>1 DEF CallTool, IInv, TypeOK, Entry, NoEvent
  <2>2. CASE \E n \in Names : RefreshTools(c, n)
    BY <2>2 DEF RefreshTools, IInv, TypeOK, Entry, NoEvent
  <2>3. CASE CallReturns(c)
    <3>1. caller[c].name \in Names
      BY <2>3 DEF CallReturns, IInv, Allocated
    <3>2. conns' \in [Names -> Entry \cup {None}]
      BY <2>3, <3>1 DEF CallReturns, IInv, TypeOK, Entry
    <3> QED
      BY <2>3, <3>2 DEF CallReturns, IInv, TypeOK, Idle, NoEvent
  <2>4. CASE RefreshReturns(c)
    <3>1. caller[c].name \in Names /\ caller[c].service \in Endpoints
      BY <2>4 DEF RefreshReturns, IInv, Allocated
    <3>2. PICK ts \in Offers[caller[c].service] :
            conns' = IF conns[caller[c].name] # None
                       THEN [conns EXCEPT ![caller[c].name] =
                               [@ EXCEPT !.tools = ts, !.state = "connected"]]
                       ELSE conns
      BY <2>4 DEF RefreshReturns
    <3>3. ts \in SUBSET Tools
      BY <3>1, OffersAssumption
    <3>4. conns[caller[c].name] # None =>
            [conns[caller[c].name] EXCEPT !.tools = ts, !.state = "connected"]
              \in Entry
      BY <1>a, <3>1, <3>3 DEF Entry, States
    <3>5. conns' \in [Names -> Entry \cup {None}]
      BY <1>a, <3>1, <3>2, <3>4
    <3> QED
      BY <2>4, <3>1, <3>5 DEF RefreshReturns, IInv, TypeOK, Idle, Event, Kinds
  <2>5. CASE CallFails(c)
    BY <2>5 DEF CallFails, IInv, TypeOK, Idle, NoEvent
  <2> QED
    BY <1>7, <2>1, <2>2, <2>3, <2>4, <2>5 DEF CallerStep
<1>8. CASE UNCHANGED vars
  BY <1>8 DEF vars, IInv, TypeOK
<1> QED
  BY <1>1, <1>2, <1>3, <1>4, <1>5, <1>6, <1>7, <1>8 DEF Next, ControlStep

\* A step of a loop or a caller leaves every entry with its name, endpoint
\* and token, or removes it.
LEMMA EntriesKeepIdentity ==
  ASSUME IInv,
         (\E k \in Loops : AddSpawn(k) \/ LoopStep(k))
           \/ (\E c \in Callers : CallerStep(c)),
         NEW n \in Names, conns'[n] # None
  PROVE  /\ conns[n] # None
         /\ conns'[n].token = conns[n].token
         /\ conns'[n].endpoint = conns[n].endpoint
<1>1. conns \in [Names -> Entry \cup {None}]
  BY DEF IInv, TypeOK
<1>2. \A r \in Entry : \A s, v, ts, x :
        /\ [r EXCEPT !.state = s, !.service = v, !.tools = ts].token = r.token
        /\ [r EXCEPT !.state = s, !.service = v, !.tools = ts].endpoint = r.endpoint
        /\ [r EXCEPT !.state = s, !.service = v].token = r.token
        /\ [r EXCEPT !.state = s, !.service = v].endpoint = r.endpoint
        /\ [r EXCEPT !.tools = ts, !.state = s].token = r.token
        /\ [r EXCEPT !.tools = ts, !.state = s].endpoint = r.endpoint
        /\ [r EXCEPT !.calls = x].token = r.token
        /\ [r EXCEPT !.calls = x].endpoint = r.endpoint
  BY DEF Entry
<1>3. CASE UNCHANGED conns
  BY <1>3
<1>4. ASSUME NEW k \in Loops, StoreConnection(k)
      PROVE  /\ conns[n] # None
             /\ conns'[n].token = conns[n].token
             /\ conns'[n].endpoint = conns[n].endpoint
  BY <1>1, <1>2, <1>4 DEF StoreConnection, ConnectedEntry
<1>5. ASSUME NEW k \in Loops, MarkReconnecting(k)
      PROVE  /\ conns[n] # None
             /\ conns'[n].token = conns[n].token
             /\ conns'[n].endpoint = conns[n].endpoint
  BY <1>1, <1>2, <1>5 DEF MarkReconnecting, ReconnectingEntry
<1>6. ASSUME NEW k \in Loops, DropEntry(k)
      PROVE  /\ conns[n] # None
             /\ conns'[n].token = conns[n].token
             /\ conns'[n].endpoint = conns[n].endpoint
  BY <1>1, <1>6 DEF DropEntry, Without
<1>7. ASSUME NEW c \in Callers, CallReturns(c)
      PROVE  /\ conns[n] # None
             /\ conns'[n].token = conns[n].token
             /\ conns'[n].endpoint = conns[n].endpoint
  BY <1>1, <1>7 DEF CallReturns, Entry
<1>8. ASSUME NEW c \in Callers, RefreshReturns(c)
      PROVE  /\ conns[n] # None
             /\ conns'[n].token = conns[n].token
             /\ conns'[n].endpoint = conns[n].endpoint
  BY <1>1, <1>2, <1>8 DEF RefreshReturns
<1>9. \/ UNCHANGED conns
      \/ \E k \in Loops : StoreConnection(k) \/ MarkReconnecting(k) \/ DropEntry(k)
      \/ \E c \in Callers : CallReturns(c) \/ RefreshReturns(c)
  BY DEF AddSpawn, LoopStep, LoopTop, ConnectOk, ConnectErr, BackoffElapsed,
         SeeCancelled, CallerStep, CallTool, RefreshTools, CallFails
<1> QED
  BY <1>3, <1>4, <1>5, <1>6, <1>7, <1>8, <1>9

\* A step of task k leaves the other tasks alone, and the name, the endpoint
\* and (once it runs) the token of its own.
LEMMA TasksKeepIdentity ==
  ASSUME IInv, NEW k \in Loops, AddSpawn(k) \/ LoopStep(k), NEW j \in Loops
  PROVE  /\ loop'[j].name = loop[j].name
         /\ loop'[j].endpoint = loop[j].endpoint
         /\ j # k => loop'[j] = loop[j]
         /\ LoopStep(k) => loop'[j].token = loop[j].token
<1>1. loop \in [Loops -> Task]
  BY DEF IInv, TypeOK
<1>2. \A r \in Task : \A p, t, ts, a :
        /\ [r EXCEPT !.pc = p].name = r.name
        /\ [r EXCEPT !.pc = p].endpoint = r.endpoint
        /\ [r EXCEPT !.pc = p].token = r.token
        /\ [r EXCEPT !.pc = p, !.token = t].name = r.name
        /\ [r EXCEPT !.pc = p, !.token = t].endpoint = r.endpoint
        /\ [r EXCEPT !.pc = p, !.tools = ts].name = r.name
        /\ [r EXCEPT !.pc = p, !.tools = ts].endpoint = r.endpoint
        /\ [r EXCEPT !.pc = p, !.tools = ts].token = r.token
        /\ [r EXCEPT !.pc = p, !.tools = ts, !.attempt = a].name = r.name
        /\ [r EXCEPT !.pc = p, !.tools = ts, !.attempt = a].endpoint = r.endpoint
        /\ [r EXCEPT !.pc = p, !.tools = ts, !.attempt = a].token = r.token
        /\ [r EXCEPT !.pc = p, !.attempt = a].name = r.name
        /\ [r EXCEPT !.pc = p, !.attempt = a].endpoint = r.endpoint
        /\ [r EXCEPT !.pc = p, !.attempt = a].token = r.token
  BY DEF Task
<1>3. CASE AddSpawn(k)
  <2>1. ~LoopStep(k)
    BY <1>3
    DEF AddSpawn, LoopStep, LoopTop, ConnectOk, ConnectErr, StoreConnection,
        MarkReconnecting, BackoffElapsed, SeeCancelled, DropEntry, At
  <2> QED
    BY <1>1, <1>2, <1>3, <2>1 DEF AddSpawn
<1>4. CASE \/ LoopTop(k) \/ MarkReconnecting(k) \/ BackoffElapsed(k)
           \/ SeeCancelled(k) \/ DropEntry(k)
  <2>1. PICK p \in Places : loop' = [loop EXCEPT ![k].pc = p]
    BY <1>4 DEF LoopTop, MarkReconnecting, BackoffElapsed, SeeCancelled,
                DropEntry, Goto, Places, Running
  <2>2. CASE j = k
    BY <1>1, <1>2, <2>1, <2>2
  <2>3. CASE j # k
    BY <1>1, <2>1, <2>3
  <2> QED
    BY <2>2, <2>3
<1>5. CASE ConnectOk(k)
  BY <1>1, <1>2, <1>5 DEF ConnectOk
<1>6. CASE ConnectErr(k)
  BY <1>1, <1>2, <1>6 DEF ConnectErr
<1>7. CASE StoreConnection(k)
  BY <1>1, <1>2, <1>7 DEF StoreConnection
<1> QED
  BY <1>3, <1>4, <1>5, <1>6, <1>7 DEF LoopStep

\* Each action keeps the adds and the loops in step.
LEMMA AllocatedStep == IInv /\ [Next]_vars => Allocated'
<1> SUFFICES ASSUME IInv, [Next]_vars PROVE Allocated'
  OBVIOUS
<1> USE NamesAssumption, BoundsAssumption
<1>a. /\ loop \in [Loops -> Task]
      /\ conns \in [Names -> Entry \cup {None}]
      /\ adds \in 0..MaxAdds
      /\ Allocated
  BY DEF IInv, TypeOK
<1>1. ASSUME NEW n \in Names, NEW e \in Endpoints, AddSame(n, e)
      PROVE  Allocated'
  BY <1>a, <1>1 DEF AddSame, Allocated
<1>2. ASSUME NEW n \in Names, NEW e \in Endpoints, AddLocked(n, e)
      PROVE  Allocated'
  <2>1. \A k \in Loops :
          /\ k > adds' => loop'[k].pc = "unused"
          /\ loop'[k].pc # "unused" =>
               loop'[k].name \in Names /\ loop'[k].endpoint \in Endpoints
    BY <1>a, <1>2 DEF AddLocked, Allocated, Unused, Loops
  <2>2. \A k \in cancelled' : k <= adds'
    BY <1>a, <1>2 DEF AddLocked, Allocated, IInv, TypeOK, Loops, Entry
  <2>3. \A m \in Names : conns'[m] # None => conns'[m].token <= adds'
    BY <1>a, <1>2 DEF AddLocked, Allocated, FreshEntry, Entry, Loops
  <2> QED
    BY <1>a, <1>2, <2>1, <2>2, <2>3 DEF AddLocked, Allocated
<1>3. ASSUME NEW n \in Names, Remove(n) PROVE Allocated'
  BY <1>a, <1>3 DEF Remove, Without, Allocated
<1>4. ASSUME NEW n \in Names, RemoveAbsent(n) PROVE Allocated'
  BY <1>a, <1>4 DEF RemoveAbsent, Allocated
<1>5. ASSUME NEW k \in Loops, AddSpawn(k) PROVE Allocated'
  <2>1. ~(k > adds)
    BY <1>a, <1>5 DEF AddSpawn, Allocated
  <2>2. \A j \in Loops :
                        /\ loop'[j].name = loop[j].name
                        /\ loop'[j].endpoint = loop[j].endpoint
                        /\ j > adds => loop'[j].pc = loop[j].pc
    BY <1>a, <1>5, <2>1 DEF AddSpawn, Task
  <2> QED
    BY <1>a, <1>5, <2>2 DEF AddSpawn, Allocated
<1>6. ASSUME NEW k \in Loops, LoopStep(k) PROVE Allocated'
  <2>1. loop[k].pc # "unused"
    BY <1>6
    DEF LoopStep, LoopTop, ConnectOk, ConnectErr, StoreConnection,
        MarkReconnecting, BackoffElapsed, SeeCancelled, DropEntry, At
  <2>2. /\ ~(k > adds)
        /\ loop[k].name \in Names
    BY <1>a, <2>1 DEF Allocated
  <2>3. \A j \in Loops :
                        /\ loop'[j].name = loop[j].name
                        /\ loop'[j].endpoint = loop[j].endpoint
                        /\ j > adds => loop'[j] = loop[j]
    BY <1>6, <2>2, TasksKeepIdentity
  <2>4. \A m \in Names : conns'[m] # None =>
          conns[m] # None /\ conns'[m].token = conns[m].token
    BY <1>6, EntriesKeepIdentity
  <2>5. adds' = adds /\ cancelled' = cancelled /\ caller' = caller
    BY <1>6
    DEF LoopStep, LoopTop, ConnectOk, ConnectErr, StoreConnection,
        MarkReconnecting, BackoffElapsed, SeeCancelled, DropEntry
  <2> QED
    <3>1. \A j \in Loops :
            /\ j > adds' => loop'[j].pc = "unused"
            /\ loop'[j].pc # "unused" =>
                 loop'[j].name \in Names /\ loop'[j].endpoint \in Endpoints
      <4>1. \A j \in Loops : j # k => loop'[j] = loop[j]
        BY <1>6, TasksKeepIdentity
      <4>2. loop[k].endpoint \in Endpoints
        BY <1>a, <2>1 DEF Allocated
      <4> QED
        BY <1>a, <2>2, <2>3, <2>5, <4>1, <4>2 DEF Allocated
    <3>2. \A m \in Names : conns'[m] # None => conns'[m].token <= adds'
      BY <1>a, <2>4, <2>5 DEF Allocated
    <3> QED
      BY <1>a, <2>5, <3>1, <3>2 DEF Allocated
<1>7. ASSUME NEW c \in Callers, CallerStep(c) PROVE Allocated'
  <2>1. \A m \in Names : conns'[m] # None =>
          conns[m] # None /\ conns'[m].token = conns[m].token
    BY <1>7, EntriesKeepIdentity
  <2>2. UNCHANGED <<adds, cancelled, loop>>
    BY <1>7
    DEF CallerStep, CallTool, RefreshTools, CallReturns, RefreshReturns,
        CallFails
  <2>3. \A d \in Callers : caller'[d].pc # "idle" =>
          caller'[d].name \in Names /\ caller'[d].service \in Endpoints
    <3>1. caller \in [Callers -> [pc : {"idle", "calling", "refreshing"},
                                name : Names \cup {None},
                                service : Endpoints \cup {None}]]
      BY DEF IInv, TypeOK
    <3>2. CASE caller' = [caller EXCEPT ![c] = Idle]
      BY <1>a, <3>1, <3>2 DEF Idle, Allocated
    <3>3. CASE \E n \in Names, p \in {"calling", "refreshing"} :
                 /\ conns[n] # None
                 /\ conns[n].service # None
                 /\ caller' = [caller EXCEPT ![c] =
                      [pc |-> p, name |-> n, service |-> conns[n].service]]
      BY <1>a, <3>1, <3>3 DEF Entry, Allocated
    <3> QED
      BY <1>7, <3>2, <3>3
      DEF CallerStep, CallTool, RefreshTools, CallReturns, RefreshReturns,
          CallFails
  <2> QED
    BY <1>a, <2>1, <2>2, <2>3 DEF Allocated
<1>8. CASE UNCHANGED vars
  BY <1>a, <1>8 DEF vars, Allocated
<1> QED
  BY <1>1, <1>2, <1>3, <1>4, <1>5, <1>6, <1>7, <1>8 DEF Next, ControlStep

\* Each action keeps the table and the desired names in step.
LEMMA DesiredStep == IInv /\ [Next]_vars => EntryIsDesired'
<1> SUFFICES ASSUME IInv, [Next]_vars PROVE EntryIsDesired'
  OBVIOUS
<1>a. /\ conns \in [Names -> Entry \cup {None}]
      /\ desired \in [Names -> Endpoints \cup {None}]
      /\ EntryIsDesired
  BY DEF IInv, TypeOK
<1>1. CASE ControlStep
  <2>1. ASSUME NEW n \in Names, NEW e \in Endpoints, AddLocked(n, e)
        PROVE  EntryIsDesired'
    <3>1. conns'[n].endpoint = e /\ desired'[n] = e
      BY <1>a, <2>1 DEF AddLocked, FreshEntry
    <3> QED
      BY <1>a, <2>1, <3>1 DEF AddLocked, EntryIsDesired
  <2>2. ASSUME NEW n \in Names, Remove(n) PROVE EntryIsDesired'
    BY <1>a, <2>2 DEF Remove, Without, EntryIsDesired
  <2> QED
    BY <1>a, <1>1, <2>1, <2>2
    DEF ControlStep, AddSame, RemoveAbsent, EntryIsDesired
<1>2. CASE \/ \E k \in Loops : AddSpawn(k) \/ LoopStep(k)
           \/ \E c \in Callers : CallerStep(c)
  <2>1. desired' = desired
    BY <1>2
    DEF AddSpawn, LoopStep, LoopTop, ConnectOk, ConnectErr, StoreConnection,
        MarkReconnecting, BackoffElapsed, SeeCancelled, DropEntry,
        CallerStep, CallTool, RefreshTools, CallReturns, RefreshReturns,
        CallFails
  <2> QED
    BY <1>a, <1>2, <2>1, EntriesKeepIdentity DEF EntryIsDesired
<1>3. CASE UNCHANGED vars
  BY <1>a, <1>3 DEF vars, EntryIsDesired
<1> QED
  BY <1>1, <1>2, <1>3 DEF Next

\* A step of a loop keeps the task of every entry alive: a task leaves the
\* live places only when its token is cancelled, and then it has no entry.
LEMMA ServedLoopStep ==
  ASSUME IInv, NEW k \in Loops, AddSpawn(k) \/ LoopStep(k)
  PROVE  EntryIsServed'
<1> SUFFICES ASSUME NEW n \in Names, conns'[n] # None
             PROVE  LET j == conns'[n].token IN
                    /\ loop'[j].name = n
                    /\ loop'[j].endpoint = conns'[n].endpoint
                    /\ j \notin cancelled'
                    /\ \/ loop'[j].pc = "spawning"
                       \/ loop'[j].pc \in Running \ {"drop"} /\ loop'[j].token = j
  BY DEF EntryIsServed
<1> DEFINE j == conns[n].token
<1>1. /\ conns[n] # None
      /\ conns'[n].token = j
      /\ conns'[n].endpoint = conns[n].endpoint
  BY EntriesKeepIdentity
<1>2. /\ loop \in [Loops -> Task]
      /\ j \in Loops
      /\ loop[j].name = n
      /\ loop[j].endpoint = conns[n].endpoint
      /\ j \notin cancelled
      /\ \/ loop[j].pc = "spawning"
         \/ loop[j].pc \in Running \ {"drop"} /\ loop[j].token = j
  BY <1>1 DEF IInv, TypeOK, EntryIsServed, Entry
<1>3. cancelled' = cancelled
  BY DEF AddSpawn, LoopStep, LoopTop, ConnectOk, ConnectErr, StoreConnection,
         MarkReconnecting, BackoffElapsed, SeeCancelled, DropEntry
<1>4. /\ loop'[j].name = n
      /\ loop'[j].endpoint = conns[n].endpoint
  BY <1>2, TasksKeepIdentity
<1>5. \/ loop'[j].pc = "spawning"
      \/ loop'[j].pc \in Running \ {"drop"} /\ loop'[j].token = j
  <2>1. CASE k # j
    <3>1. loop'[j] = loop[j]
      BY <1>2, <2>1, TasksKeepIdentity
    <3> QED
      BY <1>2, <3>1
  <2>2. CASE k = j /\ AddSpawn(k)
    BY <1>1, <1>2, <2>2 DEF AddSpawn, Running, Task
  <2>3. CASE k = j /\ LoopStep(k)
    <3>1. loop[j].token = j /\ loop[j].pc \in Running \ {"drop"}
      BY <1>2, <2>3
      DEF LoopStep, LoopTop, ConnectOk, ConnectErr, StoreConnection,
          MarkReconnecting, BackoffElapsed, SeeCancelled, DropEntry, At
    <3>2. ~Cancelled(k)
      BY <1>2, <2>3, <3>1 DEF Cancelled
    <3>3. loop'[j].token = j
      BY <1>2, <2>3, <3>1, TasksKeepIdentity
    <3>4. ~DropEntry(k) /\ ~SeeCancelled(k)
      BY <2>3, <3>1, <3>2 DEF DropEntry, SeeCancelled, At
    <3>5. loop'[k].pc \in {"connect", "store", "wait", "mark", "backoff", "top"}
      <4>1. CASE LoopTop(k) \/ MarkReconnecting(k) \/ BackoffElapsed(k)
        BY <1>2, <3>2, <4>1
        DEF LoopTop, MarkReconnecting, BackoffElapsed, Goto, Task
      <4>2. CASE ConnectOk(k)
        BY <1>2, <4>2 DEF ConnectOk, Task
      <4>3. CASE ConnectErr(k)
        BY <1>2, <4>3 DEF ConnectErr, Task
      <4>4. CASE StoreConnection(k)
        BY <1>2, <4>4 DEF StoreConnection, Task
      <4> QED
        BY <2>3, <3>4, <4>1, <4>2, <4>3, <4>4 DEF LoopStep
    <3> QED
      BY <2>3, <3>3, <3>5 DEF Running
  <2> QED
    BY <2>1, <2>2, <2>3
<1> QED
  BY <1>1, <1>2, <1>3, <1>4, <1>5

\* add and remove take entry, desired endpoint and token away together, and
\* a new entry comes with a task that is about to start.
LEMMA ServedControlStep ==
  ASSUME IInv, ControlStep
  PROVE  EntryIsServed'
<1> USE NamesAssumption, BoundsAssumption
<1>a. /\ loop \in [Loops -> Task]
      /\ conns \in [Names -> Entry \cup {None}]
      /\ adds \in 0..MaxAdds
      /\ cancelled \in SUBSET Loops
      /\ Allocated
      /\ EntryIsServed
  BY DEF IInv, TypeOK
<1>1. ASSUME NEW n \in Names, NEW e \in Endpoints, AddLocked(n, e)
      PROVE  EntryIsServed'
  <2> DEFINE k == adds + 1
  <2>1. k \in Loops
    BY <1>a, <1>1 DEF AddLocked, Loops
  <2>2. /\ conns'[n] = FreshEntry(e, k)
        /\ loop'[k] = [Unused EXCEPT !.pc = "spawning", !.name = n, !.endpoint = e]
        /\ k \notin cancelled'
    <3>1. k \notin cancelled
      BY <1>a DEF Allocated
    <3>2. conns[n] # None => conns[n].token # k
      BY <1>a DEF Allocated, Entry, Loops
    <3> QED
      BY <1>a, <1>1, <2>1, <3>1, <3>2 DEF AddLocked
  <2>3. ASSUME NEW m \in Names, m # n, conns'[m] # None
        PROVE  /\ conns'[m] = conns[m]
               /\ loop'[conns[m].token] = loop[conns[m].token]
               /\ conns[m].token \notin cancelled'
    <3>1. conns'[m] = conns[m] /\ conns[m] \in Entry
      BY <1>a, <1>1, <2>3 DEF AddLocked
    <3>2. conns[m].token # k
      BY <1>a, <2>3, <3>1 DEF Allocated, Entry, Loops
    <3>3. conns[n] # None => conns[n].token # conns[m].token
      BY <1>a, <2>3, <3>1 DEF EntryIsServed
    <3>4. conns[m].token \in Loops
      BY <3>1 DEF Entry
    <3> QED
      BY <1>a, <1>1, <2>1, <2>3, <3>1, <3>2, <3>3, <3>4
      DEF AddLocked, EntryIsServed
  <2>4. /\ FreshEntry(e, k).token = k
        /\ FreshEntry(e, k).endpoint = e
        /\ loop'[k].pc = "spawning"
        /\ loop'[k].name = n
        /\ loop'[k].endpoint = e
    BY <2>2 DEF FreshEntry, Unused
  <2>5. ASSUME NEW m \in Names, conns'[m] # None
        PROVE  LET i == conns'[m].token IN
               /\ loop'[i].name = m
               /\ loop'[i].endpoint = conns'[m].endpoint
               /\ i \notin cancelled'
               /\ \/ loop'[i].pc = "spawning"
                  \/ loop'[i].pc \in Running \ {"drop"} /\ loop'[i].token = i
    <3>1. CASE m = n
      BY <2>2, <2>4, <3>1
    <3>2. CASE m # n
      BY <1>a, <2>3, <2>5, <3>2 DEF EntryIsServed
    <3> QED
      BY <3>1, <3>2
  <2> QED
    BY <2>5 DEF EntryIsServed
<1>2. ASSUME NEW n \in Names, Remove(n) PROVE EntryIsServed'
  <2>1. ASSUME NEW m \in Names, conns'[m] # None
        PROVE  /\ conns'[m] = conns[m]
               /\ conns[m].token \notin cancelled'
    <3>1. m # n /\ conns'[m] = conns[m]
      BY <1>a, <1>2, <2>1 DEF Remove, Without
    <3>2. conns[n] # None => conns[n].token # conns[m].token
      BY <1>a, <2>1, <3>1 DEF EntryIsServed
    <3> QED
      BY <1>a, <1>2, <2>1, <3>1, <3>2 DEF Remove, Without, EntryIsServed
  <2>2. loop' = loop
    BY <1>2 DEF Remove, Without
  <2> QED
    BY <1>a, <2>1, <2>2 DEF EntryIsServed
<1> QED
  BY <1>a, <1>1, <1>2 DEF ControlStep, AddSame, RemoveAbsent, EntryIsServed

\* Each action keeps every entry served.
LEMMA ServedStep == IInv /\ [Next]_vars => EntryIsServed'
<1> SUFFICES ASSUME IInv, [Next]_vars PROVE EntryIsServed'
  OBVIOUS
<1>1. CASE ControlStep
  BY <1>1, ServedControlStep
<1>2. CASE \E k \in Loops : AddSpawn(k) \/ LoopStep(k)
  BY <1>2, ServedLoopStep
<1>3. CASE \E c \in Callers : CallerStep(c)
  <2>1. UNCHANGED <<loop, cancelled>>
    BY <1>3
    DEF CallerStep, CallTool, RefreshTools, CallReturns, RefreshReturns,
        CallFails
  <2> QED
    BY <1>3, <2>1, EntriesKeepIdentity DEF IInv, EntryIsServed
<1>4. CASE UNCHANGED vars
  BY <1>4 DEF vars, IInv, EntryIsServed
<1> QED
  BY <1>1, <1>2, <1>3, <1>4 DEF Next

-----------------------------------------------------------------------------
\* The inductive invariant holds in every state, whatever is scheduled.
THEOREM Inductive == SafeSpec => []IInv
<1>1. IInv /\ [Next]_vars => IInv'
  BY TypeStep, AllocatedStep, DesiredStep, ServedStep DEF IInv
<1> QED
  BY InitInv, <1>1, PTL DEF SafeSpec

\* Every variable keeps its type (McpManager as a whole).
THEOREM TypeCorrect == SafeSpec => []TypeOK
<1>1. IInv => TypeOK
  BY DEF IInv
<1> QED
  BY Inductive, <1>1, PTL

\* No late step of an old loop brings back a name that was removed, or the
\* endpoint it had before (add, remove, connection_loop).
THEOREM EntriesDesired == SafeSpec => []EntryIsDesired
<1>1. IInv => EntryIsDesired
  BY DEF IInv
<1> QED
  BY Inductive, <1>1, PTL

\* Every entry has a live task of its own (add, connection_loop).
THEOREM EntriesServed == SafeSpec => []EntryIsServed
<1>1. IInv => EntryIsServed
  BY DEF IInv
<1> QED
  BY Inductive, <1>1, PTL

-----------------------------------------------------------------------------
(* Why an entry may be missing.  A loop may hold the token of a later add, *)
(* and end when that is cancelled; so the one that takes an entry away     *)
(* need not be the culprit.  But it can only have got that token after its *)
(* own entry was replaced, which cancelled it, or was lost, which had a    *)
(* culprit already.                                                        *)

Culprit(n) == \E k \in Loops : loop[k].name = n /\ k \in cancelled /\ loop[k].pc = "done"

\* A task that is about to start or runs has its own token, or was cancelled,
\* or its name has a culprit.
Owned(k) ==
  loop[k].pc \in Running \cup {"spawning"} =>
    \/ k \in cancelled
    \/ Culprit(loop[k].name)
    \/ /\ loop[k].pc = "spawning" /\ conns[loop[k].name] # None
       /\ conns[loop[k].name].token = k
    \/ loop[k].pc # "spawning" /\ loop[k].token = k

\* A task that removes its entry was told to.
Told(k) == loop[k].pc = "drop" => loop[k].token \in cancelled

LossInv == (\A k \in Loops : Owned(k) /\ Told(k)) /\ LostEntryHasCulprit

-----------------------------------------------------------------------------
(* What no step undoes                                                     *)

LEMMA CulpritsStay ==
  ASSUME IInv, [Next]_vars, NEW n, Culprit(n)
  PROVE  Culprit(n)'
<1>1. cancelled \subseteq cancelled'
  <2>1. CASE ControlStep
    BY <2>1 DEF ControlStep, AddSame, AddLocked, Remove, RemoveAbsent
  <2>2. CASE \E k \in Loops : AddSpawn(k) \/ LoopStep(k)
    BY <2>2 DEF AddSpawn, LoopStep, LoopTop, ConnectOk, ConnectErr, StoreConnection,
                MarkReconnecting, BackoffElapsed, SeeCancelled, DropEntry
  <2>3. CASE \E c \in Callers : CallerStep(c)
    BY <2>3 DEF CallerStep, CallTool, RefreshTools, CallReturns, RefreshReturns, CallFails
  <2>4. QED
    BY <2>1, <2>2, <2>3 DEF Next, vars
<1>2. PICK k \in Loops : loop[k].name = n /\ k \in cancelled /\ loop[k].pc = "done"
  BY DEF Culprit
<1>3. loop'[k] = loop[k]
  <2>1. CASE ControlStep
    <3>1. ASSUME NEW m \in Names, NEW e \in Endpoints, AddLocked(m, e)
          PROVE  loop'[k] = loop[k]
      <4>1. adds + 1 # k
        BY <1>2, BoundsAssumption DEF IInv, Allocated, TypeOK, Loops
      <4>2. QED
        BY <3>1, <4>1 DEF AddLocked, IInv, TypeOK
    <3>2. QED
      BY <2>1, <3>1 DEF ControlStep, AddSame, Remove, RemoveAbsent
  <2>2. CASE \E j \in Loops : AddSpawn(j) \/ LoopStep(j)
    <3>1. PICK j \in Loops : AddSpawn(j) \/ LoopStep(j)
      BY <2>2
    <3>2. j # k
      BY <1>2, <3>1 DEF AddSpawn, LoopStep, LoopTop, ConnectOk, ConnectErr, StoreConnection,
                        MarkReconnecting, BackoffElapsed, SeeCancelled, DropEntry, At
    <3>3. QED
      BY <3>1, <3>2, TasksKeepIdentity
  <2>3. CASE \E c \in Callers : CallerStep(c)
    BY <2>3 DEF CallerStep, CallTool, RefreshTools, CallReturns, RefreshReturns, CallFails
  <2>4. QED
    BY <2>1, <2>2, <2>3 DEF Next, vars
<1>4. QED
  BY <1>1, <1>2, <1>3 DEF Culprit

\* A step that takes no entry, cancels nothing and moves one task at most.
LEMMA QuietStep ==
  ASSUME IInv, [Next]_vars, LossInv, UNCHANGED <<desired, cancelled>>,
         \A n \in Names : /\ conns'[n] # None <=> conns[n] # None
                          /\ conns'[n] # None => conns'[n].token = conns[n].token,
         NEW k \in Loops, \A j \in Loops \ {k} : loop'[j] = loop[j],
         (Owned(k) /\ Told(k))'
  PROVE  LossInv'
<1>1. ASSUME NEW n \in Names, Culprit(n) PROVE Culprit(n)'
  BY <1>1, CulpritsStay
<1>2. ASSUME NEW j \in Loops, j # k PROVE Owned(j)'
  <2>1. loop'[j] = loop[j] /\ Owned(j)
    BY <1>2 DEF LossInv
  <2>2. PICK n : n = loop[j].name
    OBVIOUS
  <2>3. CASE loop[j].pc \in Running \cup {"spawning"}
    <3>1. n \in Names
      BY <2>2, <2>3, RunningIsAllocated DEF Running
    <3>2. QED
      BY <1>1, <2>1, <2>2, <3>1 DEF Owned
  <2>4. CASE loop[j].pc \notin Running \cup {"spawning"}
    BY <2>1, <2>4 DEF Owned
  <2>5. QED
    BY <2>3, <2>4
<1>3. ASSUME NEW j \in Loops, j # k PROVE Told(j)'
  BY <1>3 DEF LossInv, Told
<1>4. LostEntryHasCulprit'
  BY <1>1 DEF LossInv, LostEntryHasCulprit, Culprit
<1>5. QED
  BY <1>2, <1>3, <1>4 DEF LossInv

-----------------------------------------------------------------------------
(* The steps                                                               *)

LEMMA AddKeepsCulprits ==
  ASSUME IInv, LossInv, NEW n \in Names, NEW e \in Endpoints, AddLocked(n, e), [Next]_vars
  PROVE  LossInv'
<1>1. PICK k \in Loops : k = adds + 1 /\ loop[k].pc = "unused"
  BY BoundsAssumption DEF AddLocked, IInv, TypeOK, Allocated, Loops
<1>2. /\ loop'[k].pc = "spawning" /\ loop'[k].name = n
      /\ \A j \in Loops \ {k} : loop'[j] = loop[j]
  BY <1>1 DEF AddLocked, IInv, TypeOK, Unused
<1>3. /\ conns'[n] # None /\ conns'[n].token = k
      /\ \A m \in Names \ {n} : conns'[m] = conns[m] /\ desired'[m] = desired[m]
  <2>1. FreshEntry(e, k) # None /\ FreshEntry(e, k).token = k
    <3>1. FreshEntry(e, k) \in Entry
      BY <1>1, BoundsAssumption DEF FreshEntry, Entry, States
    <3>2. QED
      BY <3>1, EntryAssumption DEF FreshEntry
  <2>2. QED
    BY <1>1, <2>1 DEF AddLocked, IInv, TypeOK
<1>4. cancelled \subseteq cancelled' /\ (conns[n] # None => conns[n].token \in cancelled')
  <2>1. conns[n] # None => desired[n] # None
    BY NamesAssumption DEF IInv, EntryIsDesired, TypeOK, Entry
  <2>2. QED
    BY <2>1 DEF AddLocked
<1>5. ASSUME NEW m \in Names, Culprit(m) PROVE Culprit(m)'
  BY <1>5, CulpritsStay
<1>6. Owned(k)' /\ Told(k)'
  BY <1>2, <1>3 DEF Owned, Told
<1>7. ASSUME NEW j \in Loops \ {k} PROVE Owned(j)' /\ Told(j)'
  <2>1. loop'[j] = loop[j] /\ Owned(j) /\ Told(j)
    BY <1>2 DEF LossInv
  <2>2. Told(j)'
    BY <1>4, <2>1 DEF Told
  <2>3. PICK m : m = loop[j].name
    OBVIOUS
  <2>4. CASE loop[j].pc \in Running \cup {"spawning"}
    <3>1. m \in Names
      BY <2>3, <2>4, RunningIsAllocated DEF Running
    <3>2. QED
      BY <1>3, <1>4, <1>5, <2>1, <2>2, <2>3, <3>1 DEF Owned
  <2>5. CASE loop[j].pc \notin Running \cup {"spawning"}
    BY <2>1, <2>2, <2>5 DEF Owned
  <2>6. QED
    BY <2>4, <2>5
<1>8. LostEntryHasCulprit'
  <2>1. SUFFICES ASSUME NEW m \in Names, desired'[m] # None, conns'[m] = None
                 PROVE  Culprit(m)'
    BY DEF LostEntryHasCulprit, Culprit
  <2>2. m # n /\ desired[m] # None /\ conns[m] = None
    BY <1>3, <2>1
  <2>3. Culprit(m)
    BY <2>2 DEF LossInv, LostEntryHasCulprit, Culprit
  <2>4. QED
    BY <1>5, <2>3
<1>9. \A j \in Loops : (Owned(j) /\ Told(j))'
  BY <1>6, <1>7
<1>10. QED
  BY <1>8, <1>9 DEF LossInv

LEMMA RemoveKeepsCulprits ==
  ASSUME IInv, LossInv, NEW n \in Names, Remove(n), [Next]_vars
  PROVE  LossInv'
<1>1. /\ desired'[n] = None /\ UNCHANGED loop
      /\ \A m \in Names \ {n} : conns'[m] = conns[m] /\ desired'[m] = desired[m]
      /\ cancelled \subseteq cancelled' /\ (conns[n] # None => conns[n].token \in cancelled')
  BY DEF Remove, Without, IInv, TypeOK
<1>2. ASSUME NEW m \in Names, Culprit(m) PROVE Culprit(m)'
  BY <1>2, CulpritsStay
<1>3. ASSUME NEW j \in Loops PROVE Owned(j)' /\ Told(j)'
  <2>1. Owned(j) /\ Told(j)
    BY DEF LossInv
  <2>2. Told(j)'
    BY <1>1, <2>1 DEF Told
  <2>3. PICK m : m = loop[j].name
    OBVIOUS
  <2>4. CASE loop[j].pc \in Running \cup {"spawning"}
    <3>1. m \in Names
      BY <2>3, <2>4, RunningIsAllocated DEF Running
    <3>2. QED
      BY <1>1, <1>2, <2>1, <2>2, <2>3, <3>1 DEF Owned
  <2>5. CASE loop[j].pc \notin Running \cup {"spawning"}
    BY <1>1, <2>2, <2>5 DEF Owned
  <2>6. QED
    BY <2>4, <2>5
<1>4. LostEntryHasCulprit'
  <2>1. SUFFICES ASSUME NEW m \in Names, desired'[m] # None, conns'[m] = None
                 PROVE  Culprit(m)'
    BY DEF LostEntryHasCulprit, Culprit
  <2>2. desired[m] # None /\ conns[m] = None
    BY <1>1, <2>1
  <2>3. Culprit(m)
    BY <2>2 DEF LossInv, LostEntryHasCulprit, Culprit
  <2>4. QED
    BY <1>2, <2>3
<1>5. QED
  BY <1>3, <1>4 DEF LossInv

\* The task that removes the entry of its name is the culprit, or there is one.
LEMMA DropKeepsCulprits ==
  ASSUME IInv, LossInv, NEW k \in Loops, DropEntry(k), [Next]_vars
  PROVE  LossInv'
<1>1. PICK n \in Names : n = loop[k].name
  BY RunningIsAllocated DEF DropEntry, At
<1>2. /\ loop'[k].pc = "done" /\ loop'[k].name = n
      /\ \A j \in Loops \ {k} : loop'[j] = loop[j]
      /\ \A m \in Names \ {n} : conns'[m] = conns[m]
      /\ UNCHANGED <<desired, cancelled>>
  BY <1>1 DEF DropEntry, Goto, Without, IInv, TypeOK, Task
<1>3. ASSUME NEW m \in Names, Culprit(m) PROVE Culprit(m)'
  BY <1>3, CulpritsStay
<1>4. Culprit(n)'
  <2>1. k \in cancelled \/ Culprit(n)
    BY <1>1 DEF LossInv, Owned, Told, DropEntry, At, Running
  <2>2. k \in cancelled => Culprit(n)'
    BY <1>2 DEF Culprit
  <2>3. QED
    BY <1>3, <2>1, <2>2
<1>5. ASSUME NEW j \in Loops PROVE Owned(j)' /\ Told(j)'
  <2>1. CASE j = k
    BY <1>2, <2>1 DEF Owned, Told, Running
  <2>2. CASE j # k
    <3>1. loop'[j] = loop[j] /\ Owned(j) /\ Told(j)
      BY <1>2, <2>2 DEF LossInv
    <3>2. Told(j)'
      BY <1>2, <3>1 DEF Told
    <3>3. PICK m : m = loop[j].name
      OBVIOUS
    <3>4. CASE loop[j].pc \in Running \cup {"spawning"}
      <4>1. m \in Names
        BY <3>3, <3>4, RunningIsAllocated DEF Running
      <4>2. CASE m = n
        BY <1>4, <3>1, <3>2, <3>3, <4>2 DEF Owned
      <4>3. CASE m # n
        BY <1>2, <1>3, <3>1, <3>2, <3>3, <4>1, <4>3 DEF Owned
      <4>4. QED
        BY <4>2, <4>3
    <3>5. CASE loop[j].pc \notin Running \cup {"spawning"}
      BY <3>1, <3>2, <3>5 DEF Owned
    <3>6. QED
      BY <3>4, <3>5
  <2>3. QED
    BY <2>1, <2>2
<1>6. LostEntryHasCulprit'
  <2>1. SUFFICES ASSUME NEW m \in Names, desired'[m] # None, conns'[m] = None
                 PROVE  Culprit(m)'
    BY DEF LostEntryHasCulprit, Culprit
  <2>2. CASE m = n
    BY <1>4, <2>2
  <2>3. CASE m # n
    BY <1>2, <1>3, <2>1, <2>3 DEF LossInv, LostEntryHasCulprit, Culprit
  <2>4. QED
    BY <2>2, <2>3
<1>7. QED
  BY <1>5, <1>6 DEF LossInv

\* Every other step of a task leaves the entries with their tokens.
LEMMA EntriesStay ==
  ASSUME IInv, NEW k \in Loops, (AddSpawn(k) \/ LoopStep(k)) /\ ~DropEntry(k), NEW n \in Names
  PROVE  /\ conns'[n] # None <=> conns[n] # None
         /\ conns'[n] # None => conns'[n].token = conns[n].token
<1>1. conns'[n] # None => conns[n] # None /\ conns'[n].token = conns[n].token
  BY EntriesKeepIdentity
<1>2. ASSUME conns[n] # None PROVE conns'[n] # None
  <2>1. conns \in [Names -> Entry \cup {None}] /\ loop[k] \in Task
    BY DEF IInv, TypeOK
  <2>2. conns[n] \in Entry
    BY <1>2, <2>1
  <2>3. CASE StoreConnection(k)
    <3>1. loop[k].name \in Names /\ loop[k].endpoint \in Endpoints
      BY <2>3, RunningIsAllocated DEF StoreConnection, At
    <3>2. ConnectedEntry(conns[n], loop[k].endpoint, loop[k].tools) \in Entry
      BY <2>1, <2>2, <3>1 DEF ConnectedEntry, Entry, Task, States
    <3>3. CASE n = loop[k].name
      BY <1>2, <2>1, <2>3, <3>2, <3>3, EntryAssumption DEF StoreConnection
    <3>4. CASE n # loop[k].name
      BY <1>2, <2>1, <2>3, <3>4 DEF StoreConnection
    <3>5. QED
      BY <3>3, <3>4
  <2>4. CASE MarkReconnecting(k)
    <3>1. ReconnectingEntry(conns[n]) \in Entry
      BY <2>2 DEF ReconnectingEntry, Entry, States
    <3>2. CASE n = loop[k].name
      BY <1>2, <2>1, <2>4, <3>1, <3>2, EntryAssumption DEF MarkReconnecting
    <3>3. CASE n # loop[k].name
      BY <1>2, <2>1, <2>4, <3>3 DEF MarkReconnecting
    <3>4. QED
      BY <3>2, <3>3
  <2>5. QED
    BY <1>2, <2>3, <2>4
    DEF AddSpawn, LoopStep, LoopTop, ConnectOk, ConnectErr, BackoffElapsed, SeeCancelled
<1>3. QED
  BY <1>1, <1>2

LEMMA TaskKeepsCulprits ==
  ASSUME IInv, LossInv, NEW k \in Loops, (AddSpawn(k) \/ LoopStep(k)) /\ ~DropEntry(k), [Next]_vars
  PROVE  LossInv'
<1>1. PICK n \in Names : n = loop[k].name
  BY RunningIsAllocated
  DEF AddSpawn, LoopStep, LoopTop, ConnectOk, ConnectErr, StoreConnection, MarkReconnecting,
      BackoffElapsed, SeeCancelled, DropEntry, At
<1>2. UNCHANGED <<desired, cancelled>>
  BY DEF AddSpawn, LoopStep, LoopTop, ConnectOk, ConnectErr, StoreConnection, MarkReconnecting,
         BackoffElapsed, SeeCancelled
<1>3. loop'[k].name = n /\ \A j \in Loops \ {k} : loop'[j] = loop[j]
  BY <1>1, TasksKeepIdentity
<1>4. loop \in [Loops -> Task] /\ loop[k] \in Task
  BY DEF IInv, TypeOK
<1>5. Owned(k) /\ Told(k)
  BY DEF LossInv
<1>6. Culprit(n) => Culprit(n)'
  BY CulpritsStay
<1>7. CASE AddSpawn(k)
  <2>1. (Owned(k) /\ Told(k))'
    <3>1. CASE conns[n] # None
      <4>1. loop'[k].pc = "top" /\ loop'[k].token = conns[n].token
        BY <1>1, <1>4, <1>7, <3>1 DEF AddSpawn, Task
      <4>2. k \in cancelled \/ Culprit(n) \/ conns[n].token = k
        BY <1>1, <1>5, <1>7 DEF Owned, AddSpawn
      <4>3. QED
        BY <1>2, <1>3, <1>6, <4>1, <4>2 DEF Owned, Told
    <3>2. CASE conns[n] = None
      <4>1. loop'[k].pc = "panicked"
        BY <1>1, <1>4, <1>7, <3>2 DEF AddSpawn, Task
      <4>2. QED
        BY <4>1 DEF Owned, Told, Running
    <3>3. QED
      BY <3>1, <3>2
  <2>2. QED
    BY <1>2, <1>3, <2>1, EntriesStay, QuietStep
<1>8. CASE LoopStep(k)
  <2> DEFINE Moves ==
               /\ loop[k].pc \in Running /\ loop'[k].pc # "spawning"
               /\ loop'[k].token = loop[k].token
               /\ loop'[k].pc = "drop" => loop[k].token \in cancelled
  <2>1. Moves
    <3>1. CASE LoopTop(k)
      BY <1>4, <3>1 DEF LoopTop, At, Cancelled, Goto, Running, Task
    <3>2. CASE ConnectOk(k)
      <4>1. PICK ts \in Offers[loop[k].endpoint] :
              loop' = [loop EXCEPT ![k] = [@ EXCEPT !.pc = "store", !.tools = ts, !.attempt = 0]]
        BY <3>2 DEF ConnectOk
      <4>2. loop[k].pc = "connect"
        BY <3>2 DEF ConnectOk, At
      <4>3. QED
        BY <1>4, <4>1, <4>2 DEF Running, Task
    <3>3. CASE ConnectErr(k)
      BY <1>4, <3>3 DEF ConnectErr, At, Running, Task
    <3>4. CASE StoreConnection(k)
      BY <1>4, <3>4 DEF StoreConnection, At, Running, Task
    <3>5. CASE MarkReconnecting(k) \/ BackoffElapsed(k)
      BY <1>4, <3>5 DEF MarkReconnecting, BackoffElapsed, At, Goto, Running, Task
    <3>6. CASE SeeCancelled(k)
      BY <1>4, <3>6 DEF SeeCancelled, At, Cancelled, Goto, Running, Task
    <3>7. QED
      BY <1>8, <3>1, <3>2, <3>3, <3>4, <3>5, <3>6 DEF LoopStep
  <2>4. k \in cancelled \/ Culprit(n) \/ loop[k].token = k
    BY <1>1, <1>5, <2>1 DEF Owned, Running
  <2>5. (Owned(k) /\ Told(k))'
    BY <1>2, <1>3, <1>6, <2>1, <2>4 DEF Owned, Told
  <2>6. QED
    BY <1>2, <1>3, <2>5, EntriesStay, QuietStep
<1>9. QED
  BY <1>7, <1>8

LEMMA CallKeepsCulprits ==
  ASSUME IInv, LossInv, NEW c \in Callers, CallerStep(c), [Next]_vars
  PROVE  LossInv'
<1>1. UNCHANGED <<desired, cancelled, loop>>
  BY DEF CallerStep, CallTool, RefreshTools, CallReturns, RefreshReturns, CallFails
<1>2. ASSUME NEW n \in Names
      PROVE  /\ conns'[n] # None <=> conns[n] # None
             /\ conns'[n] # None => conns'[n].token = conns[n].token
  <2>1. conns'[n] # None => conns[n] # None /\ conns'[n].token = conns[n].token
    BY EntriesKeepIdentity
  <2>2. ASSUME conns[n] # None PROVE conns'[n] # None
    <3>1. conns \in [Names -> Entry \cup {None}] /\ conns[n] \in Entry
      BY <2>2 DEF IInv, TypeOK
    <3>2. CASE CallReturns(c)
      <4>1. conns[n].calls < MaxCalls => [conns[n] EXCEPT !.calls = @ + 1] \in Entry
        BY <3>1, BoundsAssumption DEF Entry
      <4>2. CASE n = caller[c].name
        <5>1. conns'[n] = [conns[n] EXCEPT !.calls = @ + 1] /\ conns[n].calls < MaxCalls
          BY <2>2, <3>1, <3>2, <4>2 DEF CallReturns
        <5>2. QED
          BY <4>1, <5>1, EntryAssumption
      <4>3. CASE n # caller[c].name
        BY <2>2, <3>1, <3>2, <4>3 DEF CallReturns
      <4>4. QED
        BY <4>2, <4>3
    <3>3. CASE RefreshReturns(c)
      <4>1. caller[c].service \in Endpoints
        BY <3>3 DEF RefreshReturns, IInv, Allocated
      <4>2. PICK ts \in Offers[caller[c].service] :
              conns' = IF conns[caller[c].name] # None
                         THEN [conns EXCEPT ![caller[c].name] =
                                 [@ EXCEPT !.tools = ts, !.state = "connected"]]
                         ELSE conns
        BY <3>3 DEF RefreshReturns
      <4>3. [conns[n] EXCEPT !.tools = ts, !.state = "connected"] \in Entry
        <5>1. ts \in SUBSET Tools
          BY <4>1, OffersAssumption
        <5>2. QED
          BY <3>1, <5>1 DEF Entry, States
      <4>4. CASE n = caller[c].name
        <5>1. conns' = [conns EXCEPT ![n] = [conns[n] EXCEPT !.tools = ts, !.state = "connected"]]
          BY <2>2, <4>2, <4>4, Zenon
        <5>2. conns'[n] = [conns[n] EXCEPT !.tools = ts, !.state = "connected"]
          BY <3>1, <5>1, Zenon
        <5>3. QED
          BY <4>3, <5>2, EntryAssumption
      <4>5. CASE n # caller[c].name
        BY <2>2, <3>1, <4>2, <4>5
      <4>6. QED
        BY <4>4, <4>5
    <3>4. QED
      BY <2>2, <3>2, <3>3 DEF CallerStep, CallTool, RefreshTools, CallFails
  <2>3. QED
    BY <2>1, <2>2
<1>3. ASSUME NEW n \in Names, Culprit(n) PROVE Culprit(n)'
  BY <1>3, CulpritsStay
<1>4. ASSUME NEW j \in Loops PROVE Owned(j)' /\ Told(j)'
  <2>1. loop'[j] = loop[j] /\ Owned(j) /\ Told(j)
    BY <1>1 DEF LossInv
  <2>2. PICK n : n = loop[j].name
    OBVIOUS
  <2>3. CASE loop[j].pc \in Running \cup {"spawning"}
    <3>1. n \in Names
      BY <2>2, <2>3, RunningIsAllocated DEF Running
    <3>2. QED
      BY <1>1, <1>2, <1>3, <2>1, <2>2, <3>1 DEF Owned, Told
  <2>4. CASE loop[j].pc \notin Running \cup {"spawning"}
    BY <1>1, <2>1, <2>4 DEF Owned, Told
  <2>5. QED
    BY <2>3, <2>4
<1>5. LostEntryHasCulprit'
  BY <1>1, <1>2, <1>3 DEF LossInv, LostEntryHasCulprit, Culprit
<1>6. QED
  BY <1>4, <1>5 DEF LossInv

-----------------------------------------------------------------------------
LEMMA LossStep == IInv /\ LossInv /\ [Next]_vars => LossInv'
<1> SUFFICES ASSUME IInv, LossInv, [Next]_vars PROVE LossInv'
  OBVIOUS
<1>1. CASE UNCHANGED <<desired, conns, cancelled, loop>>
  BY <1>1 DEF LossInv, Owned, Told, LostEntryHasCulprit, Culprit
<1>2. CASE ControlStep
  BY <1>1, <1>2, AddKeepsCulprits, RemoveKeepsCulprits DEF ControlStep, AddSame, RemoveAbsent
<1>3. CASE \E k \in Loops : AddSpawn(k) \/ LoopStep(k)
  BY <1>3, DropKeepsCulprits, TaskKeepsCulprits
<1>4. CASE \E c \in Callers : CallerStep(c)
  BY <1>4, CallKeepsCulprits
<1>5. QED
  BY <1>1, <1>2, <1>3, <1>4 DEF Next, vars

\* However adds, removes, tasks and callers interleave, a desired name without
\* an entry lost it to a task of an earlier add that was told to stop, never to
\* a failure or to its own task (add, remove, connection_loop).
THEOREM LossesHaveCulprits == SafeSpec => []LostEntryHasCulprit
<1>1. Init => LossInv
  BY DEF Init, LossInv, Owned, Told, LostEntryHasCulprit, Unused, Running
<1>2. LossInv => LostEntryHasCulprit
  BY DEF LossInv
<1>3. QED
  BY Inductive, <1>1, <1>2, LossStep, PTL DEF SafeSpec

-----------------------------------------------------------------------------
(* What an entry says of its service.  refresh_tools, which nothing in the *)
(* program calls, writes its answer into whatever entry has the name then; *)
(* without it, state, service and tools agree.                             *)

NoRefresh == \A c \in Callers, n \in Names : ~RefreshTools(c, n)

Says(entry) ==
  /\ entry.state = "connected" <=> entry.service # None
  /\ entry.service # None => entry.tools \in Offers[entry.service]

TruthInv ==
  /\ \A c \in Callers : caller[c].pc # "refreshing"
  /\ \A k \in Loops : loop[k].pc = "store" => loop[k].tools \in Offers[loop[k].endpoint]
  /\ \A n \in Names : conns[n] # None => Says(conns[n])

LEMMA TruthControlStep ==
  ASSUME IInv, TruthInv, ControlStep
  PROVE  TruthInv'
<1>1. ASSUME NEW n \in Names, NEW e \in Endpoints, AddLocked(n, e) PROVE TruthInv'
  <2>1. adds + 1 \in Loops
    BY <1>1, BoundsAssumption DEF AddLocked, IInv, TypeOK, Loops
  <2>2. Says(FreshEntry(e, adds + 1))
    BY DEF Says, FreshEntry
  <2>3. \A m \in Names : conns'[m] # None => Says(conns'[m])
    BY <1>1, <2>2 DEF AddLocked, IInv, TypeOK, TruthInv
  <2>4. \A k \in Loops : loop'[k].pc = "store" => loop'[k] = loop[k]
    BY <1>1, <2>1 DEF AddLocked, IInv, TypeOK, Unused
  <2>5. QED
    BY <1>1, <2>3, <2>4 DEF AddLocked, TruthInv
<1>2. ASSUME NEW n \in Names, Remove(n) PROVE TruthInv'
  BY <1>2 DEF Remove, Without, IInv, TypeOK, TruthInv
<1>3. QED
  BY <1>1, <1>2 DEF ControlStep, AddSame, RemoveAbsent, TruthInv

LEMMA TruthTaskStep ==
  ASSUME IInv, TruthInv, NEW k \in Loops, AddSpawn(k) \/ LoopStep(k)
  PROVE  TruthInv'
<1>1. loop \in [Loops -> Task] /\ loop[k] \in Task /\ conns \in [Names -> Entry \cup {None}]
  BY DEF IInv, TypeOK
<1>2. /\ loop[k].name \in Names /\ loop[k].endpoint \in Endpoints
      /\ loop'[k].endpoint = loop[k].endpoint
      /\ \A j \in Loops \ {k} : loop'[j] = loop[j]
  BY RunningIsAllocated, TasksKeepIdentity
  DEF AddSpawn, LoopStep, LoopTop, ConnectOk, ConnectErr, StoreConnection, MarkReconnecting,
      BackoffElapsed, SeeCancelled, DropEntry, At
<1>3. UNCHANGED caller
  BY DEF AddSpawn, LoopStep, LoopTop, ConnectOk, ConnectErr, StoreConnection, MarkReconnecting,
         BackoffElapsed, SeeCancelled, DropEntry
<1>4. loop'[k].pc = "store" => loop'[k].tools \in Offers[loop[k].endpoint]
  <2>1. CASE ConnectOk(k)
    <3>1. PICK ts \in Offers[loop[k].endpoint] :
            loop' = [loop EXCEPT ![k] = [@ EXCEPT !.pc = "store", !.tools = ts, !.attempt = 0]]
      BY <2>1 DEF ConnectOk
    <3>2. loop'[k].tools = ts
      BY <1>1, <3>1 DEF Task
    <3>3. QED
      BY <3>2
  <2>2. CASE ~ConnectOk(k)
    <3>1. loop'[k].pc # "store"
      <4>1. CASE AddSpawn(k)
        <5>1. \/ loop' = [loop EXCEPT ![k] = [loop[k] EXCEPT !.pc = "top",
                                                !.token = conns[loop[k].name].token]]
              \/ loop' = [loop EXCEPT ![k] = [loop[k] EXCEPT !.pc = "panicked"]]
          BY <1>1, <4>1 DEF AddSpawn
        <5>2. \/ loop'[k] = [loop[k] EXCEPT !.pc = "top", !.token = conns[loop[k].name].token]
              \/ loop'[k] = [loop[k] EXCEPT !.pc = "panicked"]
          BY <1>1, <5>1, Zenon
        <5>3. QED
          BY <1>1, <5>2 DEF Task
      <4>2. CASE ConnectErr(k) \/ StoreConnection(k)
        <5>1. ASSUME ConnectErr(k) PROVE loop'[k].pc = "mark"
          <6>1. loop'[k] = [loop[k] EXCEPT !.pc = "mark", !.attempt = NextAttempt(loop[k].attempt)]
            BY <1>1, <5>1 DEF ConnectErr
          <6>2. QED
            BY <1>1, <6>1 DEF Task
        <5>2. ASSUME StoreConnection(k) PROVE loop'[k].pc = "wait"
          BY <1>1, <5>2 DEF StoreConnection, Task
        <5>3. QED
          BY <4>2, <5>1, <5>2
      <4>3. CASE LoopTop(k) \/ MarkReconnecting(k) \/ BackoffElapsed(k) \/ SeeCancelled(k) \/ DropEntry(k)
        BY <1>1, <4>3
        DEF LoopTop, MarkReconnecting, BackoffElapsed, SeeCancelled, DropEntry, Goto, Task
      <4>4. QED
        BY <2>2, <4>1, <4>2, <4>3 DEF LoopStep
    <3>2. QED
      BY <3>1
  <2>3. QED
    BY <2>1, <2>2
<1>5. ASSUME NEW n \in Names, conns'[n] # None PROVE Says(conns'[n])
  <2>1. conns[n] # None => Says(conns[n]) /\ conns[n] \in Entry
    BY <1>1 DEF TruthInv
  <2>2. CASE StoreConnection(k)
    <3>1. loop[k].tools \in Offers[loop[k].endpoint]
      BY <2>2 DEF StoreConnection, At, TruthInv
    <3>2. conns[n] # None =>
            Says(ConnectedEntry(conns[n], loop[k].endpoint, loop[k].tools))
      BY <1>2, <2>1, <3>1, NamesAssumption DEF Says, ConnectedEntry, Entry
    <3>3. QED
      BY <1>1, <1>5, <2>1, <2>2, <3>2 DEF StoreConnection
  <2>3. CASE MarkReconnecting(k)
    <3>1. conns[n] # None => Says(ReconnectingEntry(conns[n]))
      BY <2>1 DEF Says, ReconnectingEntry, Entry
    <3>2. QED
      BY <1>1, <1>5, <2>1, <2>3, <3>1 DEF MarkReconnecting
  <2>4. CASE DropEntry(k)
    BY <1>1, <1>5, <2>1, <2>4 DEF DropEntry, Without
  <2>5. QED
    BY <1>5, <2>1, <2>2, <2>3, <2>4
    DEF AddSpawn, LoopStep, LoopTop, ConnectOk, ConnectErr, BackoffElapsed, SeeCancelled
<1>6. \A j \in Loops : loop'[j].pc = "store" => loop'[j].tools \in Offers[loop'[j].endpoint]
  BY <1>2, <1>4 DEF TruthInv
<1>7. QED
  BY <1>3, <1>5, <1>6 DEF TruthInv

LEMMA TruthCallStep ==
  ASSUME IInv, TruthInv, NEW c \in Callers, CallerStep(c), NoRefresh
  PROVE  TruthInv'
<1>1. conns \in [Names -> Entry \cup {None}] /\ DOMAIN caller = Callers
  BY DEF IInv, TypeOK
<1>2. ~RefreshReturns(c) /\ \A n \in Names : ~RefreshTools(c, n)
  BY DEF TruthInv, RefreshReturns, NoRefresh
<1>3. UNCHANGED loop
  BY <1>2 DEF CallerStep, CallTool, CallReturns, CallFails
<1>4. \A d \in Callers : caller'[d].pc # "refreshing"
  BY <1>1, <1>2 DEF CallerStep, CallTool, CallReturns, CallFails, Idle, TruthInv
<1>5. ASSUME NEW n \in Names, conns'[n] # None PROVE Says(conns'[n])
  <2>1. conns[n] # None => Says(conns[n]) /\ conns[n] \in Entry
    BY <1>1 DEF TruthInv
  <2>2. CASE CallReturns(c)
    <3>1. conns[n] # None => Says([conns[n] EXCEPT !.calls = @ + 1])
      BY <2>1 DEF Says, Entry
    <3>2. QED
      BY <1>1, <1>5, <2>1, <2>2, <3>1 DEF CallReturns
  <2>3. QED
    BY <1>2, <1>5, <2>1, <2>2 DEF CallerStep, CallTool, CallFails
<1>6. QED
  BY <1>3, <1>4, <1>5 DEF TruthInv

LEMMA TruthStep == IInv /\ TruthInv /\ [Next]_vars /\ [NoRefresh]_vars => TruthInv'
<1> SUFFICES ASSUME IInv, TruthInv, [Next]_vars, [NoRefresh]_vars PROVE TruthInv'
  OBVIOUS
<1>1. CASE UNCHANGED vars
  BY <1>1 DEF TruthInv, vars
<1>2. CASE Next /\ NoRefresh
  BY <1>2, TruthControlStep, TruthTaskStep, TruthCallStep DEF Next
<1>3. QED
  BY <1>1, <1>2

LEMMA TruthInit == Init => TruthInv
BY DEF Init, TruthInv, Unused, Idle

\* Where no tool list is refreshed, an entry shows "connected" exactly when it
\* has a service (connection_loop, call_tool).
THEOREM StatusIsTrue == SafeSpec /\ [][NoRefresh]_vars => []StatusTruthful
<1>1. TruthInv => StatusTruthful
  BY DEF TruthInv, Says, StatusTruthful
<1>2. QED
  BY <1>1, Inductive, TruthInit, TruthStep, PTL DEF SafeSpec

\* ... and the tools beside a service are those it listed, whichever task of
\* the name stored them (connection_loop, call_tool).
THEOREM ToolsAreTheServices == SafeSpec /\ [][NoRefresh]_vars => []ToolsMatchService
<1>1. TruthInv => ToolsMatchService
  BY DEF TruthInv, Says, ToolsMatchService
<1>2. QED
  BY <1>1, Inductive, TruthInit, TruthStep, PTL DEF SafeSpec

\* A task is moved by itself alone, and what was cancelled stays cancelled.
LEMMA TaskMovesItself ==
  ASSUME IInv, [Next]_vars, NEW k \in Loops, loop[k].pc \in Running
  PROVE  /\ cancelled \subseteq cancelled'
         /\ loop'[k] = loop[k] \/ LoopStep(k)
<1>1. CASE ControlStep
  <2>1. ASSUME NEW m \in Names, NEW e \in Endpoints, AddLocked(m, e)
        PROVE  loop'[k] = loop[k]
    <3>1. adds + 1 # k
      BY BoundsAssumption DEF IInv, Allocated, TypeOK, Loops, Running
    <3>2. QED
      BY <2>1, <3>1 DEF AddLocked, IInv, TypeOK
  <2>2. QED
    BY <1>1, <2>1 DEF ControlStep, AddSame, AddLocked, Remove, RemoveAbsent
<1>2. CASE \E j \in Loops : AddSpawn(j) \/ LoopStep(j)
  <2>1. PICK j \in Loops : AddSpawn(j) \/ LoopStep(j)
    BY <1>2
  <2>2. cancelled' = cancelled
    BY <2>1 DEF AddSpawn, LoopStep, LoopTop, ConnectOk, ConnectErr, StoreConnection,
                MarkReconnecting, BackoffElapsed, SeeCancelled, DropEntry
  <2>3. CASE j # k
    BY <2>1, <2>2, <2>3, TasksKeepIdentity
  <2>4. CASE j = k
    BY <2>1, <2>2, <2>4 DEF AddSpawn, Running
  <2>5. QED
    BY <2>3, <2>4
<1>3. CASE \E c \in Callers : CallerStep(c)
  BY <1>3 DEF CallerStep, CallTool, RefreshTools, CallReturns, RefreshReturns, CallFails
<1>4. QED
  BY <1>1, <1>2, <1>3 DEF Next, vars

-----------------------------------------------------------------------------
(* Who holds a service.  Only the store of a task puts one into an entry,  *)
(* and the task then waits for its token; it leaves that place by way of   *)
(* the drop, which takes the entry away.  The other steps take services    *)
(* away, or leave them with the entries they are in.                       *)

Holds(k, n) ==
  /\ loop[k].name = n
  /\ loop[k].endpoint = conns[n].service
  /\ loop[k].pc \in {"wait", "drop"}

Serving(n) == conns[n] # None /\ conns[n].service # None

\* Such a task stays where it is, or sees its token and is about to drop the
\* entry, or has dropped it.
LEMMA HolderStays ==
  ASSUME IInv, [Next]_vars, NEW k \in Loops, loop[k].pc \in {"wait", "drop"}
  PROVE  /\ loop'[k].name = loop[k].name
         /\ loop'[k].endpoint = loop[k].endpoint
         /\ \/ loop'[k].pc \in {"wait", "drop"}
            \/ conns'[loop[k].name] = None
<1>1. loop \in [Loops -> Task] /\ conns \in [Names -> Entry \cup {None}]
  BY DEF IInv, TypeOK
<1>2. loop[k].name \in Names
  BY DEF IInv, Allocated
<1>3. CASE loop'[k] = loop[k]
  BY <1>3
<1>4. CASE LoopStep(k)
  <2>1. /\ loop'[k].name = loop[k].name
        /\ loop'[k].endpoint = loop[k].endpoint
    BY <1>4, TasksKeepIdentity
  <2>2. SeeCancelled(k) \/ DropEntry(k)
    BY <1>4 DEF LoopStep, LoopTop, ConnectOk, ConnectErr, StoreConnection,
                MarkReconnecting, BackoffElapsed, At
  <2>3. CASE SeeCancelled(k)
    BY <1>1, <2>1, <2>3 DEF SeeCancelled, Goto, Task
  <2>4. CASE DropEntry(k)
    BY <1>1, <1>2, <2>1, <2>4 DEF DropEntry, Without
  <2>5. QED
    BY <2>2, <2>3, <2>4
<1>5. QED
  BY <1>3, <1>4, TaskMovesItself DEF Running

\* A service in the table was there before, or a task has just stored it.
LEMMA ServicesComeFromStores ==
  ASSUME IInv, [Next]_vars, NEW n \in Names, Serving(n)'
  PROVE  \/ Serving(n) /\ conns'[n].service = conns[n].service
         \/ \E k \in Loops : Holds(k, n)'
<1>1. /\ loop \in [Loops -> Task]
      /\ conns \in [Names -> Entry \cup {None}]
  BY DEF IInv, TypeOK
<1>2. CASE UNCHANGED conns
  BY <1>2 DEF Serving
<1>3. ASSUME NEW m \in Names, NEW e \in Endpoints, AddLocked(m, e)
      PROVE  Serving(n) /\ conns'[n].service = conns[n].service
  <2>1. n # m
    BY <1>1, <1>3 DEF AddLocked, FreshEntry, Serving
  <2>2. QED
    BY <1>1, <1>3, <2>1 DEF AddLocked, Serving
<1>4. ASSUME NEW m, conns' = Without(m)
      PROVE  Serving(n) /\ conns'[n].service = conns[n].service
  BY <1>1, <1>4 DEF Without, Serving
<1>5. ASSUME NEW k \in Loops, MarkReconnecting(k)
      PROVE  Serving(n) /\ conns'[n].service = conns[n].service
  BY <1>1, <1>5 DEF MarkReconnecting, ReconnectingEntry, Entry, Serving
<1>6. ASSUME NEW k \in Loops, StoreConnection(k)
      PROVE  \/ Serving(n) /\ conns'[n].service = conns[n].service
             \/ Holds(k, n)'
  <2>1. CASE n # loop[k].name
    BY <1>1, <1>6, <2>1 DEF StoreConnection, Serving
  <2>2. CASE n = loop[k].name
    <3>1. loop' = [loop EXCEPT ![k] = [loop[k] EXCEPT !.pc = "wait", !.tools = {}]]
      BY <1>6 DEF StoreConnection
    <3>2. /\ loop'[k].pc = "wait"
          /\ loop'[k].name = n
          /\ loop'[k].endpoint = loop[k].endpoint
      BY <1>1, <2>2, <3>1 DEF Task
    <3>3. conns'[n].service = loop[k].endpoint
      BY <1>1, <1>6, <2>2 DEF StoreConnection, ConnectedEntry, Entry, Serving
    <3>4. QED
      BY <3>2, <3>3 DEF Holds
  <2>3. QED
    BY <2>1, <2>2
<1>7. ASSUME NEW c \in Callers, CallReturns(c)
      PROVE  Serving(n) /\ conns'[n].service = conns[n].service
  BY <1>1, <1>7 DEF CallReturns, Entry, Serving
<1>8. ASSUME NEW c \in Callers, RefreshReturns(c)
      PROVE  Serving(n) /\ conns'[n].service = conns[n].service
  BY <1>1, <1>8 DEF RefreshReturns, Entry, Serving
<1>9. \/ UNCHANGED conns
      \/ \E m \in Names, e \in Endpoints : AddLocked(m, e)
      \/ \E m \in Names : Remove(m)
      \/ \E k \in Loops : StoreConnection(k) \/ MarkReconnecting(k) \/ DropEntry(k)
      \/ \E c \in Callers : CallReturns(c) \/ RefreshReturns(c)
  BY DEF vars, Next, ControlStep, AddSame, RemoveAbsent, AddSpawn, LoopStep, LoopTop,
         ConnectOk, ConnectErr, BackoffElapsed, SeeCancelled, CallerStep, CallTool,
         RefreshTools, CallFails
<1>10. QED
  BY <1>2, <1>3, <1>4, <1>5, <1>6, <1>7, <1>8, <1>9 DEF Remove, DropEntry

LEMMA HeldStep == IInv /\ ServicesAreHeld /\ [Next]_vars => ServicesAreHeld'
<1> SUFFICES ASSUME IInv, ServicesAreHeld, [Next]_vars, NEW n \in Names, Serving(n)'
             PROVE  \E k \in Loops : Holds(k, n)'
  BY DEF ServicesAreHeld, Serving, Holds, Loops
<1>1. CASE \E k \in Loops : Holds(k, n)'
  BY <1>1
<1>2. CASE Serving(n) /\ conns'[n].service = conns[n].service
  <2>1. PICK k \in Loops : Holds(k, n)
    BY <1>2 DEF ServicesAreHeld, Serving, Holds
  <2>2. Holds(k, n)'
    BY <1>2, <2>1, HolderStays DEF Holds, Serving
  <2>3. QED
    BY <2>2
<1>3. QED
  BY <1>1, <1>2, ServicesComeFromStores

\* No service in the table outlives the task that connected to it, whichever
\* entry it was stored in (connection_loop).
THEOREM ServicesHeld == SafeSpec => []ServicesAreHeld
<1>1. Init => ServicesAreHeld
  BY DEF Init, ServicesAreHeld
<1>2. QED
  BY <1>1, Inductive, HeldStep, PTL DEF SafeSpec

-----------------------------------------------------------------------------
(* What the tasks do in the end.  A step of a task leads from one place of *)
(* its body to the next, and the only way back to the head of the loop is  *)
(* closed to one that was cancelled.  TLAPS knows nothing of ENABLED: that *)
(* a task can go on where it stands (LoopsCanGoOn), which the guards of    *)
(* LoopStep say, is a premise.                                             *)

\* A task can take its next step, but where it waits for its cancellation.
Runnable(k) == loop[k].pc \in Running /\ (loop[k].pc = "wait" => Cancelled(k))
CanGoOn(k) == Runnable(k) => ENABLED <<LoopStep(k)>>_vars
LoopsCanGoOn == \A k \in Loops : CanGoOn(k)

\* Where a step of a task leads
Follows(k, pc) ==
  CASE loop[k].pc = "top" -> pc = IF Cancelled(k) THEN "drop" ELSE "connect"
    [] loop[k].pc = "connect" -> pc \in {"store", "mark"}
    [] loop[k].pc = "store" -> pc = "wait"
    [] loop[k].pc = "mark" -> pc = "backoff"
    [] loop[k].pc = "wait" -> pc = "drop" /\ Cancelled(k)
    [] loop[k].pc = "backoff" -> pc = "top" \/ (pc = "drop" /\ Cancelled(k))
    [] loop[k].pc = "drop" -> pc = "done"
    [] OTHER -> FALSE

LEMMA StepFollows ==
  ASSUME IInv, NEW k \in Loops, LoopStep(k)
  PROVE  Follows(k, loop'[k].pc) /\ loop'[k].token = loop[k].token
<1>1. loop \in [Loops -> Task]
  BY DEF IInv, TypeOK
<1>2. loop'[k].token = loop[k].token
  BY TasksKeepIdentity
<1>4. CASE LoopTop(k)
  <2>1. CASE Cancelled(k)
    <3>1. loop[k].pc = "top" /\ loop' = [loop EXCEPT ![k].pc = "drop"]
      BY <1>4, <2>1 DEF LoopTop, At, Goto
    <3>2. loop'[k].pc = "drop"
      BY <1>1, <3>1 DEF Task
    <3>3. QED
      BY <2>1, <3>1, <3>2 DEF Follows
  <2>2. CASE ~Cancelled(k)
    <3>1. loop[k].pc = "top" /\ loop' = [loop EXCEPT ![k].pc = "connect"]
      BY <1>4, <2>2 DEF LoopTop, At, Goto
    <3>2. loop'[k].pc = "connect"
      BY <1>1, <3>1 DEF Task
    <3>3. QED
      BY <2>2, <3>1, <3>2 DEF Follows
  <2>3. QED
    BY <2>1, <2>2
<1>5. CASE ConnectOk(k)
  <2>1. loop'[k].pc = "store"
    BY <1>1, <1>5 DEF ConnectOk, Task
  <2>2. QED
    BY <1>5, <2>1 DEF ConnectOk, At, Follows
<1>6. CASE ConnectErr(k)
  <2>1. loop'[k].pc = "mark"
    BY <1>1, <1>6 DEF ConnectErr, Task
  <2>2. QED
    BY <1>6, <2>1 DEF ConnectErr, At, Follows
<1>7. CASE StoreConnection(k)
  <2>1. loop'[k].pc = "wait"
    BY <1>1, <1>7 DEF StoreConnection, Task
  <2>2. QED
    BY <1>7, <2>1 DEF StoreConnection, At, Follows
<1>8. CASE MarkReconnecting(k)
  <2>1. loop[k].pc = "mark" /\ loop' = [loop EXCEPT ![k].pc = "backoff"]
    BY <1>8 DEF MarkReconnecting, At, Goto
  <2>2. loop'[k].pc = "backoff"
    BY <1>1, <2>1 DEF Task
  <2>3. QED
    BY <2>1, <2>2 DEF Follows
<1>9. CASE BackoffElapsed(k)
  <2>1. loop[k].pc = "backoff" /\ loop' = [loop EXCEPT ![k].pc = "top"]
    BY <1>9 DEF BackoffElapsed, At, Goto
  <2>2. loop'[k].pc = "top"
    BY <1>1, <2>1 DEF Task
  <2>3. QED
    BY <2>1, <2>2 DEF Follows
<1>10. CASE SeeCancelled(k)
  <2>1. loop[k].pc \in {"wait", "backoff"} /\ loop' = [loop EXCEPT ![k].pc = "drop"] /\ Cancelled(k)
    BY <1>10 DEF SeeCancelled, At, Goto
  <2>2. loop'[k].pc = "drop"
    BY <1>1, <2>1 DEF Task
  <2>3. QED
    BY <2>1, <2>2 DEF Follows
<1>11. CASE DropEntry(k)
  <2>1. loop[k].pc = "drop" /\ loop' = [loop EXCEPT ![k].pc = "done"]
    BY <1>11 DEF DropEntry, At, Goto
  <2>2. loop'[k].pc = "done"
    BY <1>1, <2>1 DEF Task
  <2>3. QED
    BY <2>1, <2>2 DEF Follows
<1>12. QED
  BY <1>2, <1>4, <1>5, <1>6, <1>7, <1>8, <1>9, <1>10, <1>11 DEF LoopStep

\* Of a step of the manager a task stays where it is, or takes its own.
LEMMA StaysOrFollows ==
  ASSUME IInv, [Next]_vars, NEW k \in Loops, loop[k].pc \in Running
  PROVE  /\ Cancelled(k) => Cancelled(k)'
         /\ loop'[k].pc = loop[k].pc \/ Follows(k, loop'[k].pc)
<1>1. cancelled \subseteq cancelled' /\ (loop'[k] = loop[k] \/ LoopStep(k))
  BY TaskMovesItself
<1>2. LoopStep(k) => Follows(k, loop'[k].pc) /\ loop'[k].token = loop[k].token
  BY StepFollows
<1>3. QED
  BY <1>1, <1>2 DEF Cancelled

\* A task stands at one of some places; it stands there, told to stop.
Stands(k, places) == loop[k].pc \in places
Stopped(k, places) == loop[k].pc \in places /\ Cancelled(k)

LEMMA StopsGoOn ==
  ASSUME IInv, [Next]_vars, NEW k \in Loops
  PROVE  /\ Stopped(k, {"connect"}) =>
              Stopped(k, {"connect"})' \/ Stopped(k, {"store", "mark"})'
         /\ Stopped(k, {"store", "mark"}) =>
              Stopped(k, {"store", "mark"})' \/ Stopped(k, {"wait", "backoff"})'
         /\ Stopped(k, {"wait", "backoff"}) =>
              \/ Stopped(k, {"wait", "backoff"})'
              \/ Stopped(k, {"top"})' \/ Stopped(k, {"drop"})'
         /\ Stopped(k, {"top"}) => Stopped(k, {"top"})' \/ Stopped(k, {"drop"})'
         /\ Stopped(k, {"drop"}) => Stopped(k, {"drop"})' \/ Stands(k, {"done"})'
<1>1. CASE loop[k].pc \in Running
  <2>1. /\ Cancelled(k) => Cancelled(k)'
        /\ loop'[k].pc = loop[k].pc \/ Follows(k, loop'[k].pc)
    BY <1>1, StaysOrFollows
  <2>2. QED
    BY <2>1 DEF Stopped, Stands, Follows
<1>2. CASE loop[k].pc \notin Running
  BY <1>2 DEF Stopped, Running
<1>3. QED
  BY <1>1, <1>2

LEMMA OwnStepGoesOn ==
  ASSUME IInv, [Next]_vars, NEW k \in Loops, LoopStep(k)
  PROVE  /\ Stopped(k, {"connect"}) => Stopped(k, {"store", "mark"})'
         /\ Stopped(k, {"store", "mark"}) => Stopped(k, {"wait", "backoff"})'
         /\ Stopped(k, {"wait", "backoff"}) =>
              Stopped(k, {"top"})' \/ Stopped(k, {"drop"})'
         /\ Stopped(k, {"top"}) => Stopped(k, {"drop"})'
         /\ Stopped(k, {"drop"}) => Stands(k, {"done"})'
<1>1. Follows(k, loop'[k].pc)
  BY StepFollows
<1>2. CASE loop[k].pc \in Running
  <2>1. Cancelled(k) => Cancelled(k)'
    BY <1>2, StaysOrFollows
  <2>2. QED
    BY <1>1, <2>1 DEF Stopped, Stands, Follows
<1>3. CASE loop[k].pc \notin Running
  BY <1>3 DEF Stopped, Running
<1>4. QED
  BY <1>2, <1>3

\* What the schedule gives a task, and what follows for it
LoopIsServed(k) == SafeSpec /\ []CanGoOn(k) /\ LoopIsRun(k)

CancelledLoopEnds(k) ==
  (loop[k].pc \in Running /\ loop[k].token \in cancelled) ~> (loop[k].pc = "done")

LEMMA CancelledTaskEnds ==
  ASSUME NEW k \in Loops
  PROVE  LoopIsServed(k) => CancelledLoopEnds(k)
<1> DEFINE A == Stopped(k, {"connect"})
           B == Stopped(k, {"store", "mark"})
           C == Stopped(k, {"wait", "backoff"})
           D == Stopped(k, {"top"})
           E == Stopped(k, {"drop"})
           F == Stands(k, {"done"})
           Warned == loop[k].pc \in Running /\ loop[k].token \in cancelled
<1>1. IInv /\ [Next]_vars => /\ A => A' \/ B'
                             /\ B => B' \/ C'
                             /\ C => C' \/ D' \/ E'
                             /\ D => D' \/ E'
                             /\ E => E' \/ F'
  BY StopsGoOn
<1>2. IInv /\ [Next]_vars /\ LoopStep(k) => /\ A => B'
                                            /\ B => C'
                                            /\ C => D' \/ E'
                                            /\ D => E'
                                            /\ E => F'
  BY OwnStepGoesOn
<1>3. A \/ B \/ C \/ D \/ E => Runnable(k)
  BY DEF Stopped, Runnable, Running
<1>4. Warned => A \/ B \/ C \/ D \/ E
  BY DEF Stopped, Running, Cancelled
<1>5. F => loop[k].pc = "done"
  BY DEF Stands
<1>6. CanGoOn(k) <=> (Runnable(k) => ENABLED <<LoopStep(k)>>_vars)
  BY DEF CanGoOn
<1> HIDE DEF A, B, C, D, E, F, Warned
<1>7. LoopIsServed(k) => [](Warned => <>(loop[k].pc = "done"))
  BY <1>1, <1>2, <1>3, <1>4, <1>5, <1>6, Inductive, PTL DEF LoopIsServed, SafeSpec, LoopIsRun
<1>8. QED
  BY <1>7, PTL DEF CancelledLoopEnds, Warned

RetryFollows(k) ==
  (loop[k].pc = "mark") ~>
    \/ loop[k].pc = "connect"
    \/ loop[k].pc = "drop" /\ loop[k].token \in cancelled

LEMMA RetriesGoOn ==
  ASSUME IInv, [Next]_vars, NEW k \in Loops
  PROVE  /\ Stands(k, {"mark"}) => Stands(k, {"mark"})' \/ Stands(k, {"backoff"})'
         /\ Stands(k, {"backoff"}) =>
              \/ Stands(k, {"backoff"})' \/ Stands(k, {"top"})'
              \/ Stopped(k, {"drop"})'
         /\ Stands(k, {"top"}) =>
              \/ Stands(k, {"top"})' \/ Stands(k, {"connect"})'
              \/ Stopped(k, {"drop"})'
<1>1. CASE loop[k].pc \in Running
  <2>1. /\ Cancelled(k) => Cancelled(k)'
        /\ loop'[k].pc = loop[k].pc \/ Follows(k, loop'[k].pc)
    BY <1>1, StaysOrFollows
  <2>2. QED
    BY <2>1 DEF Stopped, Stands, Follows
<1>2. CASE loop[k].pc \notin Running
  BY <1>2 DEF Stands, Running
<1>3. QED
  BY <1>1, <1>2

LEMMA OwnRetryGoesOn ==
  ASSUME IInv, [Next]_vars, NEW k \in Loops, LoopStep(k)
  PROVE  /\ Stands(k, {"mark"}) => Stands(k, {"backoff"})'
         /\ Stands(k, {"backoff"}) => Stands(k, {"top"})' \/ Stopped(k, {"drop"})'
         /\ Stands(k, {"top"}) => Stands(k, {"connect"})' \/ Stopped(k, {"drop"})'
<1>1. Follows(k, loop'[k].pc)
  BY StepFollows
<1>2. CASE loop[k].pc \in Running
  <2>1. Cancelled(k) => Cancelled(k)'
    BY <1>2, StaysOrFollows
  <2>2. QED
    BY <1>1, <2>1 DEF Stopped, Stands, Follows
<1>3. CASE loop[k].pc \notin Running
  BY <1>3 DEF Stands, Running
<1>4. QED
  BY <1>2, <1>3

LEMMA FailedTaskRetries ==
  ASSUME NEW k \in Loops
  PROVE  LoopIsServed(k) => RetryFollows(k)
<1> DEFINE A == Stands(k, {"mark"})
           B == Stands(k, {"backoff"})
           C == Stands(k, {"top"})
           D == Stands(k, {"connect"})
           E == Stopped(k, {"drop"})
           Failed == loop[k].pc = "mark"
           Again == \/ loop[k].pc = "connect"
                    \/ loop[k].pc = "drop" /\ loop[k].token \in cancelled
<1>1. IInv /\ [Next]_vars => /\ A => A' \/ B'
                             /\ B => B' \/ C' \/ E'
                             /\ C => C' \/ D' \/ E'
  BY RetriesGoOn
<1>2. IInv /\ [Next]_vars /\ LoopStep(k) => /\ A => B'
                                            /\ B => C' \/ E'
                                            /\ C => D' \/ E'
  BY OwnRetryGoesOn
<1>3. A \/ B \/ C => Runnable(k)
  BY DEF Stands, Runnable, Running
<1>4. Failed => A
  BY DEF Stands
<1>5. D \/ E => Again
  BY DEF Stands, Stopped, Cancelled
<1>6. CanGoOn(k) <=> (Runnable(k) => ENABLED <<LoopStep(k)>>_vars)
  BY DEF CanGoOn
<1> HIDE DEF A, B, C, D, E, Failed, Again
<1>7. LoopIsServed(k) => [](Failed => <>Again)
  BY <1>1, <1>2, <1>3, <1>4, <1>5, <1>6, Inductive, PTL DEF LoopIsServed, SafeSpec, LoopIsRun
<1>8. QED
  BY <1>7, PTL DEF RetryFollows, Failed, Again

LEMMA EveryLoopIsServed ==
  ASSUME NEW k \in Loops
  PROVE  Spec /\ []LoopsCanGoOn => LoopIsServed(k)
<1>1. LoopsCanGoOn => CanGoOn(k)
  BY DEF LoopsCanGoOn
<1>2. LoopsAreRun => LoopIsRun(k)
  BY DEF LoopsAreRun
<1>3. QED
  BY <1>1, <1>2, PTL DEF LoopIsServed, Spec, Fairness

\* A task that was told to stop ends, whatever the tables and the other tasks
\* do meanwhile, however often it fails: it is stuck in no retry, no sleep and
\* no wait (the three places where connection_loop looks at its token).
THEOREM CancelledEnd == Spec /\ []LoopsCanGoOn => CancelledLoopsEnd
<1>1. ASSUME NEW k \in Loops
      PROVE  Spec /\ []LoopsCanGoOn => CancelledLoopEnds(k)
  BY EveryLoopIsServed, CancelledTaskEnds
<1>2. Spec /\ []LoopsCanGoOn => \A k \in Loops : CancelledLoopEnds(k)
  BY <1>1
<1>3. QED
  BY <1>2 DEF CancelledLoopsEnd, CancelledLoopEnds

\* A failed attempt is followed by another, or by the end of a task that was
\* told to stop (connection_loop, "infinite retry").
THEOREM FailuresAreRetried == Spec /\ []LoopsCanGoOn => RetriesForever
<1>1. ASSUME NEW k \in Loops
      PROVE  Spec /\ []LoopsCanGoOn => RetryFollows(k)
  BY EveryLoopIsServed, FailedTaskRetries
<1>2. Spec /\ []LoopsCanGoOn => \A k \in Loops : RetryFollows(k)
  BY <1>1
<1>3. QED
  BY <1>2 DEF RetriesForever, RetryFollows
=============================================================================

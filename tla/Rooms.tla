------------------------------- MODULE Rooms -------------------------------
(***************************************************************************)
(* Rooms and who is in them.  A room lives twice: as a row of the database *)
(* and, with the list of its users, in the World behind its lock           *)
(* (world.rs).  Three kinds of caller work on both, each call taking the   *)
(* database connection and the lock several times: sessions (Lua commands  *)
(* of one connected user), the tools of a model's reply, which run in the  *)
(* name of the user who asked and in the room of the question, and MCP     *)
(* clients, which have no user.  A crash keeps the database only.          *)
(***************************************************************************)
EXTENDS Naturals, FiniteSets

CONSTANTS
  Sessions, Replies, Clients,  \* the callers
  Users,
  UserOf,        \* whose session it is, in whose name the reply's tools run
  Rooms,         \* names of rooms
  Lobby,
  None,
  MaxCalls,      \* bound: calls
  MaxCrashes     \* bound: crashes

Callers == Sessions \cup Replies \cup Clients
People == Sessions \cup Replies
Directions == {"north", "south"}
Keys == Directions \cup {"parent"}
RoomOrNone == Rooms \cup {None}

\* The callers are of three kinds.
ASSUME CallerAssumption == Sessions \cap Replies = {} /\ Clients \cap People = {}
ASSUME UserAssumption == UserOf \in [People -> Users]
ASSUME RoomAssumption == Lobby \in Rooms /\ None \notin Rooms
ASSUME BoundAssumption == MaxCalls \in Nat /\ MaxCrashes \in Nat

VARIABLES
  db,            \* rooms with a row in the database
  kv,            \* exits and parent of a room, in the database
  rooms,         \* rooms of the World
  users,         \* users of a room of the World
  on,            \* connected sessions
  place,         \* room of a session's context, or of a reply's ToolContext
  home,          \* player.current_room of a session
  call,          \* the call a caller is in, or its last one
  strayed,       \* users with a second login, or moved by a model's tool
  limbo,         \* sessions of which a join failed, or a mention came after a
                 \* leave, since they last entered a room
  calls, crashes

vars == <<db, kv, rooms, users, on, place, home, call, strayed, limbo, calls,
          crashes>>
stored == <<db, kv>>
world == <<rooms, users>>
session == <<on, place, home, strayed, limbo>>

KeyValues == [Keys -> RoomOrNone]
Call == [pc : {"idle", "lookup", "insert", "read", "copy", "forth", "back", "world",
               "enter", "context"},
         op : {"none", "connect", "join", "create", "fork", "leave", "dig",
               "db_create", "db_fork"},
         from : RoomOrNone, target : RoomOrNone,
         answer : {"none", "ok", "no room", "refused"},
         kv : KeyValues, left : SUBSET Keys, way : Directions]

NoKeys == [k \in Keys |-> None]
NewCall(pc, op, from, target, way) ==
  [pc |-> pc, op |-> op, from |-> from, target |-> target, answer |-> "none",
   kv |-> NoKeys, left |-> {}, way |-> way]
NoCall == NewCall("idle", "none", None, None, "north")

\* bootstrap_world has inserted the row of the lobby before the World is loaded.
Init ==
  /\ db = {Lobby} /\ kv = [r \in Rooms |-> NoKeys]
  /\ rooms = db /\ users = [r \in Rooms |-> {}]
  /\ on = {} /\ place = [c \in People |-> None] /\ home = [s \in Sessions |-> None]
  /\ call = [c \in Callers |-> NoCall]
  /\ strayed = {} /\ limbo = {} /\ calls = 0 /\ crashes = 0

-----------------------------------------------------------------------------
(* The start of a call                                                     *)

At(c, pc) == call[c].pc = pc
IdleCaller(c) == At(c, "idle") /\ (c \in Sessions => c \in on)
Becomes(c, cl) == call' = [call EXCEPT ![c] = cl]
Goto(c, pc) == Becomes(c, [call[c] EXCEPT !.pc = pc])
Answer(c, a) == Becomes(c, [call[c] EXCEPT !.pc = "idle", !.answer = a])

Begin(c, op, from, target, pc) ==
  /\ calls < MaxCalls
  /\ calls' = calls + 1
  /\ Becomes(c, NewCall(pc, op, from, target, "north"))
  /\ UNCHANGED <<stored, world, crashes>>

\* A user is connected twice, or is still listed from the last connection:
\* nothing leaves a room when a connection ends.
Relogin(s) ==
  \/ \E r \in rooms : UserOf[s] \in users[r]
  \/ \E t \in on : UserOf[t] = UserOf[s]

\* shell_request: join_room("lobby")
Connect(s) ==
  /\ s \notin on /\ At(s, "idle")
  /\ Begin(s, "connect", None, Lobby, "lookup")
  /\ on' = on \cup {s}
  /\ place' = [place EXCEPT ![s] = None] /\ home' = [home EXCEPT ![s] = None]
  /\ strayed' = IF Relogin(s) THEN strayed \cup {UserOf[s]} ELSE strayed
  /\ limbo' = limbo \cup {s}

Disconnect(s) ==
  /\ s \in on /\ At(s, "idle")
  /\ on' = on \ {s}
  /\ UNCHANGED <<stored, world, place, home, call, strayed, limbo, calls, crashes>>

\* What a model's tool does to the room of its user, the session is not told.
Stray(c) == IF c \in Replies THEN strayed \cup {UserOf[c]} ELSE strayed

Command(c) ==
  /\ c \in People /\ IdleCaller(c)
  /\ c \in Replies => place[c] # None
  /\ strayed' = Stray(c)
  /\ UNCHANGED <<on, place, home, limbo>>

Join(c) ==
  \E r \in Rooms : Command(c) /\ Begin(c, "join", place[c], r, "lookup")

Go(c) ==
  \E way \in Directions :
    /\ Command(c) /\ place[c] # None
    /\ kv[place[c]][way] # None
    /\ Begin(c, "join", place[c], kv[place[c]][way], "lookup")

Create(c) ==
  \E r \in Rooms : Command(c) /\ Begin(c, "create", place[c], r, "insert")

Fork(c) ==
  \E r \in Rooms :
    Command(c) /\ place[c] # None /\ Begin(c, "fork", place[c], r, "lookup")

Leave(c) ==
  Command(c) /\ place[c] # None /\ Begin(c, "leave", place[c], None, "world")

Dig(s) ==
  \E r \in Rooms, way \in Directions :
    /\ Command(s) /\ place[s] # None
    /\ calls < MaxCalls /\ calls' = calls + 1
    /\ Becomes(s, NewCall("forth", "dig", place[s], r, way))
    /\ UNCHANGED <<stored, world, crashes>>

\* tools.db_create_room and tools.db_fork_room
ClientCreate(x) ==
  /\ At(x, "idle")
  /\ \E r \in Rooms : Begin(x, "db_create", None, r, "lookup")
  /\ UNCHANGED session

ClientFork(x) ==
  /\ At(x, "idle")
  /\ \E source \in db, r \in Rooms : Begin(x, "db_fork", source, r, "lookup")
  /\ UNCHANGED session

\* current_room(): the context, else where the player joined at first.
CurrentRoom(s) == IF place[s] # None THEN place[s] ELSE home[s]

\* handle_mention writes the room back into the context and may start a reply
\* whose tools are bound to it.
Mention(s) ==
  /\ s \in Sessions /\ IdleCaller(s)
  /\ limbo' = IF place[s] = None THEN limbo \cup {s} ELSE limbo
  /\ \E started \in {{}} \cup {{m} : m \in {n \in Replies : UserOf[n] = UserOf[s]
                                                       /\ At(n, "idle")}} :
       place' = [c \in People |->
                   IF c \in started \cup {s} THEN CurrentRoom(s) ELSE place[c]]
  /\ UNCHANGED <<stored, world, on, home, call, strayed, calls, crashes>>

-----------------------------------------------------------------------------
(* The database steps of a call                                            *)

AfterRow(op) ==
  CASE op = "connect" -> "enter"
    [] op \in {"fork", "db_fork"} -> "read"
    [] OTHER -> "world"

\* Before the insert: get_or_create_room_buffer takes the room that is there,
\* db_create_room and db_fork_room refuse it, fork_room looks at the World.
Lookup(c) ==
  LET cl == call[c]
      known == cl.target \in IF cl.op = "fork" THEN rooms ELSE db IN
  /\ At(c, "lookup")
  /\ IF ~known THEN Goto(c, "insert")
     ELSE IF cl.op \in {"connect", "join"} THEN Goto(c, AfterRow(cl.op))
     ELSE Answer(c, "refused")
  /\ UNCHANGED <<stored, world, session, calls, crashes>>

\* Variant: INSERT OR IGNORE.
Ignored(r) == TRUE
\* The name of a room is UNIQUE.
NameIsFree(r) == r \notin db

\* Variant: the World first, the row later.
RowLater(r) == {}
\* "DB write first"
RowOf(r) == {r}

InsertRoom(c) ==
  LET cl == call[c] IN
  /\ At(c, "insert")
  /\ IF NameIsFree(cl.target)
       THEN /\ db' = db \cup RowOf(cl.target)
            /\ Goto(c, AfterRow(cl.op))
       ELSE Answer(c, "refused") /\ UNCHANGED db
  /\ UNCHANGED <<kv, world, session, calls, crashes>>

\* get_all_room_kv of the source
ReadKeys(c) ==
  LET source == kv[call[c].from] IN
  /\ At(c, "read")
  /\ Becomes(c, [call[c] EXCEPT !.pc = "copy", !.kv = source,
                                !.left = {k \in Keys : source[k] # None}])
  /\ UNCHANGED <<stored, world, session, calls, crashes>>

\* One key at a time, and the parent when all are copied.
CopyKey(c) ==
  LET cl == call[c] IN
  /\ At(c, "copy")
  /\ \/ \E k \in cl.left :
          /\ kv' = [kv EXCEPT ![cl.target][k] = cl.kv[k]]
          /\ Becomes(c, [cl EXCEPT !.left = cl.left \ {k}])
     \/ /\ cl.left = {}
        /\ kv' = [kv EXCEPT ![cl.target]["parent"] = cl.from]
        /\ Goto(c, "world")
  /\ UNCHANGED <<db, world, session, calls, crashes>>

Reverse(way) == IF way = "north" THEN "south" ELSE "north"

\* add_exit does nothing for a room that has no row.
WithExit(r, way, target) ==
  IF r \in db THEN [kv EXCEPT ![r][way] = target] ELSE kv

DigForth(s) ==
  /\ At(s, "forth")
  /\ kv' = WithExit(call[s].from, call[s].way, call[s].target)
  /\ Goto(s, "back")
  /\ UNCHANGED <<db, world, session, calls, crashes>>

DigBack(s) ==
  /\ At(s, "back")
  /\ kv' = WithExit(call[s].target, Reverse(call[s].way), call[s].from)
  /\ Answer(s, "ok")
  /\ UNCHANGED <<db, world, session, calls, crashes>>

-----------------------------------------------------------------------------
(* The steps under the write lock of the World                             *)

\* A session's context is written when the call has returned.
AfterWorld(c) == IF c \in Sessions THEN "context" ELSE "idle"
Done(c) == Becomes(c, [call[c] EXCEPT !.pc = AfterWorld(c), !.answer = "ok"])

Without(us, r, u) == IF r \in rooms THEN [us EXCEPT ![r] = @ \ {u}] ELSE us

\* Variant: the old room is not left.
StaysIn(us, r, u) == us
Left(us, r, u) == Without(us, r, u)

\* Variant: a row is enough to join.
HasRow(r) == r \in db
CanJoin(r) == r \in rooms

\* ops::join: the old room is left first, the target may not exist.
JoinWorld(c) ==
  LET cl == call[c]
      u == UserOf[c]
      gone == Left(users, cl.from, u) IN
  /\ At(c, "world") /\ cl.op = "join"
  /\ IF CanJoin(cl.target)
       THEN /\ users' = [gone EXCEPT ![cl.target] = @ \cup {u}] /\ Done(c)
            /\ limbo' = limbo \ {c}
       ELSE /\ users' = gone /\ Answer(c, "no room")
            /\ limbo' = limbo \cup ({c} \cap Sessions)
  /\ UNCHANGED <<stored, rooms, on, place, home, strayed, calls, crashes>>

CreateWorld(c) ==
  LET cl == call[c]
      u == UserOf[c]
      gone == Left(users, cl.from, u) IN
  /\ At(c, "world") /\ cl.op = "create"
  /\ IF cl.target \in rooms
       THEN Answer(c, "refused") /\ UNCHANGED <<world, limbo>>
       ELSE /\ rooms' = rooms \cup {cl.target}
            /\ users' = [gone EXCEPT ![cl.target] = {u}]
            /\ limbo' = limbo \ {c}
            /\ Done(c)
  /\ UNCHANGED <<stored, on, place, home, strayed, calls, crashes>>

\* World::create_room replaces a room that is there, and its users with it.
ForkWorld(c) ==
  LET cl == call[c]
      u == UserOf[c] IN
  /\ At(c, "world") /\ cl.op = "fork"
  /\ rooms' = rooms \cup {cl.target}
  /\ users' = [Left([users EXCEPT ![cl.target] = {}], cl.from, u)
                 EXCEPT ![cl.target] = {u}]
  /\ limbo' = limbo \ {c}
  /\ Done(c)
  /\ UNCHANGED <<stored, on, place, home, strayed, calls, crashes>>

LeaveWorld(c) ==
  /\ At(c, "world") /\ call[c].op = "leave"
  /\ users' = Left(users, call[c].from, UserOf[c])
  /\ Done(c)
  /\ UNCHANGED <<stored, rooms, session, calls, crashes>>

ClientWorld(x) ==
  /\ At(x, "world") /\ call[x].op \in {"db_create", "db_fork"}
  /\ rooms' = rooms \cup {call[x].target}
  /\ users' = [users EXCEPT ![call[x].target] = {}]
  /\ Answer(x, "ok")
  /\ UNCHANGED <<stored, session, calls, crashes>>

\* join_room writes player and context before it takes the lock.
EnterContext(s) ==
  /\ At(s, "enter")
  /\ place' = [place EXCEPT ![s] = Lobby] /\ home' = [home EXCEPT ![s] = Lobby]
  /\ Goto(s, "world")
  /\ UNCHANGED <<stored, world, on, strayed, limbo, calls, crashes>>

ConnectWorld(s) ==
  /\ At(s, "world") /\ call[s].op = "connect"
  /\ rooms' = rooms \cup {Lobby}
  /\ users' = [users EXCEPT ![Lobby] = @ \cup {UserOf[s]}]
  /\ limbo' = limbo \ {s}
  /\ Answer(s, "ok")
  /\ UNCHANGED <<stored, on, place, home, strayed, calls, crashes>>

Context(s) ==
  /\ At(s, "context")
  /\ place' = [place EXCEPT ![s] = call[s].target]
  /\ Answer(s, "ok")
  /\ UNCHANGED <<stored, world, on, home, strayed, limbo, calls, crashes>>

-----------------------------------------------------------------------------
\* main: the World is made of the rows.
Restart ==
  /\ crashes < MaxCrashes
  /\ crashes' = crashes + 1
  /\ rooms' = db /\ users' = [r \in Rooms |-> {}]
  /\ on' = {} /\ place' = [c \in People |-> None] /\ home' = [s \in Sessions |-> None]
  /\ call' = [c \in Callers |-> NoCall] /\ strayed' = {} /\ limbo' = {}
  /\ UNCHANGED <<stored, calls>>

Step(c) ==
  \/ Lookup(c) \/ InsertRoom(c) \/ ReadKeys(c) \/ CopyKey(c)
  \/ c \in Sessions /\ (DigForth(c) \/ DigBack(c) \/ EnterContext(c)
                        \/ ConnectWorld(c) \/ Context(c))
  \/ c \in People /\ (JoinWorld(c) \/ CreateWorld(c) \/ ForkWorld(c) \/ LeaveWorld(c))
  \/ c \in Clients /\ ClientWorld(c)

Request(c) ==
  \/ c \in Sessions /\ (Connect(c) \/ Disconnect(c) \/ Dig(c) \/ Mention(c))
  \/ c \in People /\ (Join(c) \/ Go(c) \/ Create(c) \/ Fork(c) \/ Leave(c))
  \/ c \in Clients /\ (ClientCreate(c) \/ ClientFork(c))

Next == Restart \/ \E c \in Callers : Request(c) \/ Step(c)

\* A call that was begun goes on: the lock is free again after every step.
Fairness == \A c \in Callers : WF_vars(Step(c))

SafeSpec == Init /\ [][Next]_vars
Spec == SafeSpec /\ Fairness
-----------------------------------------------------------------------------
(* Properties                                                              *)

\* Every variable has its type, and only rooms of the World have users.
TypeOK ==
  /\ \A r \in Rooms \ rooms : users[r] = {}
  /\ db \subseteq Rooms /\ kv \in [Rooms -> KeyValues]
  /\ rooms \subseteq Rooms /\ users \in [Rooms -> SUBSET Users]
  /\ on \subseteq Sessions /\ place \in [People -> RoomOrNone]
  /\ home \in [Sessions -> {None, Lobby}]
  /\ call \in [Callers -> Call]
  /\ strayed \subseteq Users /\ limbo \subseteq Sessions
  /\ calls \in 0..MaxCalls /\ crashes \in 0..MaxCrashes

\* "The reverse (in-memory ghost room with no DB row) is worse": a room of the
\* World has its row, so a crash at any point loses no room that was entered.
NoGhostRooms == rooms \subseteq db

\* Nobody but the user's own session, and the models it asked, takes a user out
\* of a room: World::create_room replaces a room, but never one with users in
\* it, because every room of the World has the row that refuses a second one.
DroppedByOthers ==
  \E r \in Rooms : \E u \in users[r] \ users'[r] :
    ~ \E c \in People : UserOf[c] = u /\ call'[c] # call[c]
NotDroppedByOthers == [][crashes' # crashes \/ ~DroppedByOthers]_vars

\* The World lists a user in the room the user's session is in and in no other,
\* between calls.  Exempt are users who logged in twice or whom a model's tool
\* moved; and a session is listed nowhere when its join failed (the old room is
\* left before the new one is looked for), or when it left and mentioned a model.
ListedWhereSessionIs ==
  \A s \in on :
    LET listed == {r \in rooms : UserOf[s] \in users[r]} IN
    At(s, "idle") /\ UserOf[s] \notin strayed =>
      /\ listed \subseteq {place[s]}
      /\ s \notin limbo => listed = {place[s]} \ {None}

\* A name that was refused because the room is there is soon that of a room one
\* can join.  (join: "No room named 'x'. Use /create x to make one.")
RefusedRoomsExist ==
  \A c \in Callers, r \in Rooms :
    (call[c].answer = "refused" /\ call[c].target = r)
      ~> (r \in rooms \/ call[c].answer # "refused" \/ call[c].target # r)
=============================================================================

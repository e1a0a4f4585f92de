---------------------------- MODULE RoomsProofs ----------------------------
(***************************************************************************)
(* The World never has a room without a row, nobody is dropped from a room *)
(* by others, and users are listed where their sessions are, for any       *)
(* callers, users, rooms and bounds.  The invariant needs what a call      *)
(* carries from step to step: once the row was looked up or inserted, the  *)
(* target of the call has one; a call that inserted it owns the name until *)
(* it made the room; a call of a session starts in the session's room.     *)
(***************************************************************************)
EXTENDS Rooms, TLAPS

Makers == {"connect", "create", "fork", "db_create", "db_fork"}

\* What is true of a call in flight when these are the rows.
CallOK(cl, rows) ==
  /\ cl \in Call
  /\ cl.pc \in {"lookup", "insert"} =>
       cl.op \in Makers \cup {"join"} /\ cl.target \in Rooms
  /\ cl.pc \in {"read", "copy"} => cl.op \in {"fork", "db_fork"}
  /\ cl.pc = "enter" => cl.op = "connect"
  /\ cl.op \in {"fork", "db_fork"} => cl.from \in Rooms
  /\ cl.op = "connect" => cl.target = Lobby
  /\ cl.op \in Makers /\ cl.pc \in {"read", "copy", "enter", "world"} =>
       cl.target \in rows

CallsOK == \A c \in Callers : CallOK(call[c], db)

\* The variables but call
RestOK ==
  /\ db \subseteq Rooms /\ kv \in [Rooms -> KeyValues]
  /\ rooms \subseteq Rooms /\ users \in [Rooms -> SUBSET Users]
  /\ \A r \in Rooms \ rooms : users[r] = {}
  /\ on \subseteq Sessions /\ place \in [People -> RoomOrNone]
  /\ home \in [Sessions -> {None, Lobby}]
  /\ strayed \subseteq Users /\ limbo \subseteq Sessions
  /\ calls \in 0..MaxCalls /\ crashes \in 0..MaxCrashes

IInv ==
  /\ RestOK
  /\ call \in [Callers -> Call]
  /\ CallsOK
  /\ NoGhostRooms

-----------------------------------------------------------------------------
(* Calls                                                                   *)

\* A call that is begun with an operation, a room it starts from and a target.
LEMMA NoCallOK == ASSUME NEW rows PROVE CallOK(NoCall, rows)
BY DEF CallOK, NoCall, NewCall, Call, NoKeys, KeyValues, Keys, Directions, RoomOrNone, Makers

\* One caller's step keeps the others' calls as they were; rows are only added.
LEMMA OneCall ==
  ASSUME call \in [Callers -> Call], CallsOK, NEW c \in Callers, NEW cl,
         CallOK(cl, db'), Becomes(c, cl), db \subseteq db'
  PROVE  call' \in [Callers -> Call] /\ CallsOK'
<1>1. cl \in Call
  BY DEF CallOK
<1>2. call' = [call EXCEPT ![c] = cl]
  BY DEF Becomes
<1>3. call' \in [Callers -> Call]
  BY <1>1, <1>2
<1>4. ASSUME NEW d \in Callers PROVE CallOK(call'[d], db')
  <2>1. CASE d = c
    <3>1. call'[d] = cl
      BY <1>2, <2>1
    <3>2. QED
      BY <3>1 DEF CallOK
  <2>2. CASE d # c
    <3>1. call'[d] = call[d]
      BY <1>2, <2>2
    <3>2. CallOK(call[d], db)
      BY DEF CallsOK
    <3>3. QED
      BY <3>1, <3>2 DEF CallOK
  <2>3. QED
    BY <2>1, <2>2
<1>5. QED
  BY <1>3, <1>4 DEF CallsOK

\* A call ends with any answer.
LEMMA AnswerOK ==
  ASSUME call \in [Callers -> Call], CallsOK, NEW c \in Callers,
         NEW a \in {"none", "ok", "no room", "refused"}, Answer(c, a),
         db \subseteq db'
  PROVE  call' \in [Callers -> Call] /\ CallsOK'
<1> DEFINE cl == [call[c] EXCEPT !.pc = "idle", !.answer = a]
<1>1. call[c] \in Call /\ CallOK(call[c], db)
  BY DEF CallsOK
<1>2. cl \in Call
  BY <1>1 DEF Call
<1>3. cl.pc = "idle" /\ cl.op = call[c].op /\ cl.from = call[c].from
      /\ cl.target = call[c].target
  BY <1>1 DEF Call
<1>4. CallOK(cl, db')
  BY <1>1, <1>2, <1>3 DEF CallOK
<1>5. Becomes(c, cl)
  BY DEF Answer
<1> HIDE DEF cl
<1>6. QED
  BY <1>4, <1>5, OneCall

\* A call goes on at another step.
LEMMA GotoOK ==
  ASSUME call \in [Callers -> Call], CallsOK, NEW c \in Callers, NEW pc,
         Goto(c, pc), db \subseteq db', CallOK([call[c] EXCEPT !.pc = pc], db')
  PROVE  call' \in [Callers -> Call] /\ CallsOK'
BY OneCall DEF Goto

\* A call starts well.
LEMMA NewCallOK ==
  ASSUME NEW rows,
         NEW pc \in {"lookup", "insert", "world", "forth"},
         NEW op \in {"connect", "join", "create", "fork", "leave", "dig",
                     "db_create", "db_fork"},
         NEW from \in RoomOrNone, NEW target \in RoomOrNone, NEW way \in Directions,
         pc \in {"lookup", "insert"} => op \in Makers \cup {"join"} /\ target \in Rooms,
         op \in {"fork", "db_fork"} => from \in Rooms,
         op = "connect" => target = Lobby,
         pc = "world" => op \notin Makers
  PROVE  CallOK(NewCall(pc, op, from, target, way), rows)
<1> DEFINE cl == NewCall(pc, op, from, target, way)
<1>1. NoKeys \in KeyValues
  BY DEF NoKeys, KeyValues, RoomOrNone
<1>2. cl \in Call
  BY <1>1 DEF Call, NewCall
<1>3. cl.pc = pc /\ cl.op = op /\ cl.from = from /\ cl.target = target
  BY DEF NewCall
<1> HIDE DEF cl
<1>4. CallOK(cl, rows)
  BY <1>2, <1>3 DEF CallOK
<1>5. QED
  BY <1>4 DEF cl

\* Begin without its bound.
LEMMA BeginOK ==
  ASSUME IInv, NEW c \in Callers,
         NEW pc \in {"lookup", "insert", "world"},
         NEW op \in {"connect", "join", "create", "fork", "leave", "db_create",
                     "db_fork"},
         NEW from \in RoomOrNone, NEW target \in RoomOrNone,
         pc \in {"lookup", "insert"} => op \in Makers \cup {"join"} /\ target \in Rooms,
         op \in {"fork", "db_fork"} => from \in Rooms,
         op = "connect" => target = Lobby,
         pc = "world" => op \notin Makers,
         Begin(c, op, from, target, pc)
  PROVE  /\ call' \in [Callers -> Call] /\ CallsOK' /\ NoGhostRooms'
         /\ calls' \in 0..MaxCalls
         /\ UNCHANGED <<stored, world, crashes>>
<1> DEFINE cl == NewCall(pc, op, from, target, "north")
<1>1. /\ "north" \in Directions /\ pc \in {"lookup", "insert", "world", "forth"}
      /\ op \in {"connect", "join", "create", "fork", "leave", "dig", "db_create", "db_fork"}
  BY DEF Directions
<1>2. CallOK(cl, db')
  BY <1>1, NewCallOK
<1>3. Becomes(c, cl) /\ UNCHANGED <<stored, world, crashes>>
  BY DEF Begin
<1>4. db \subseteq db' /\ call \in [Callers -> Call] /\ CallsOK
  BY <1>3 DEF stored, IInv
<1> HIDE DEF cl
<1>5. call' \in [Callers -> Call] /\ CallsOK'
  BY <1>2, <1>3, <1>4, OneCall
<1>6. calls' \in 0..MaxCalls
  BY BoundAssumption DEF Begin, IInv, RestOK
<1>7. NoGhostRooms'
  BY <1>3 DEF IInv, NoGhostRooms, stored, world
<1>8. QED
  BY <1>3, <1>5, <1>6, <1>7

-----------------------------------------------------------------------------
(* The invariant                                                           *)

LEMMA InitOK == Init => IInv
<1> SUFFICES ASSUME Init PROVE IInv
  OBVIOUS
<1>1. call \in [Callers -> Call] /\ CallsOK
  <2>1. NoCall \in Call
    BY NoCallOK DEF CallOK
  <2>2. QED
    BY <2>1, NoCallOK DEF Init, CallsOK
<1>2. RestOK
  BY RoomAssumption, BoundAssumption
     DEF Init, RestOK, NoKeys, KeyValues, RoomOrNone
<1>3. NoGhostRooms
  BY DEF Init, NoGhostRooms
<1>4. QED
  BY <1>1, <1>2, <1>3 DEF IInv

\* The requests change no row and nothing of the World.
LEMMA RequestOK ==
  ASSUME IInv, NEW c \in Callers, Request(c) PROVE IInv'
<1> USE DEF IInv
<1>1. People \subseteq Callers /\ Sessions \subseteq People
  BY DEF People, Callers
<1>2. ASSUME c \in Sessions, Connect(c) PROVE IInv'
  <2>1. Begin(c, "connect", None, Lobby, "lookup")
    BY <1>2 DEF Connect
  <2>2. /\ call' \in [Callers -> Call] /\ CallsOK' /\ NoGhostRooms'
        /\ calls' \in 0..MaxCalls /\ UNCHANGED <<stored, world, crashes>>
    BY <2>1, BeginOK, RoomAssumption DEF RoomOrNone, Makers
  <2>3. UserOf[c] \in Users
    BY <1>1, <1>2, UserAssumption
  <2>4. on' \subseteq Sessions /\ strayed' \subseteq Users /\ limbo' \subseteq Sessions
    BY <1>2, <2>3 DEF Connect, RestOK
  <2>5. place' \in [People -> RoomOrNone] /\ home' \in [Sessions -> {None, Lobby}]
    BY <1>1, <1>2 DEF Connect, RestOK, RoomOrNone
  <2>6. QED
    BY <2>2, <2>4, <2>5 DEF RestOK, stored, world
<1>3. ASSUME c \in Sessions, Disconnect(c) PROVE IInv'
  BY <1>3 DEF Disconnect, RestOK, CallsOK, CallOK, NoGhostRooms, stored, world
<1>4. ASSUME c \in People, NEW op \in {"join", "create", "fork", "leave"},
             NEW pc \in {"lookup", "insert", "world"},
             NEW target \in RoomOrNone,
             pc \in {"lookup", "insert"} => op # "leave" /\ target \in Rooms,
             pc = "world" => op = "leave",
             op = "fork" => place[c] # None,
             Command(c), Begin(c, op, place[c], target, pc)
      PROVE  IInv'
  <2>1. place[c] \in RoomOrNone /\ (op = "fork" => place[c] \in Rooms)
    BY <1>4 DEF RestOK, RoomOrNone
  <2>2. /\ call' \in [Callers -> Call] /\ CallsOK' /\ NoGhostRooms'
        /\ calls' \in 0..MaxCalls /\ UNCHANGED <<stored, world, crashes>>
    BY <1>4, <2>1, BeginOK DEF Makers
  <2>3. strayed' \subseteq Users /\ UNCHANGED <<on, place, home, limbo>>
    BY <1>4, UserAssumption DEF Command, Stray, RestOK
  <2>4. QED
    BY <2>2, <2>3 DEF RestOK, stored, world
<1>5. ASSUME c \in People, Join(c) PROVE IInv'
  BY <1>4, <1>5 DEF Join, RoomOrNone
<1>6. ASSUME c \in People, Go(c) PROVE IInv'
  <2>1. PICK way \in Directions :
          /\ Command(c) /\ place[c] # None /\ kv[place[c]][way] # None
          /\ Begin(c, "join", place[c], kv[place[c]][way], "lookup")
    BY <1>6 DEF Go
  <2>2. place[c] \in Rooms
    BY <1>6, <2>1 DEF RestOK, RoomOrNone
  <2>3. kv[place[c]][way] \in Rooms
    BY <2>1, <2>2 DEF RestOK, KeyValues, Keys, RoomOrNone
  <2>4. QED
    BY <1>4, <1>6, <2>1, <2>3 DEF RoomOrNone
<1>7. ASSUME c \in People, Create(c) PROVE IInv'
  BY <1>4, <1>7 DEF Create, RoomOrNone
<1>8. ASSUME c \in People, Fork(c) PROVE IInv'
  BY <1>4, <1>8 DEF Fork, RoomOrNone
<1>9. ASSUME c \in People, Leave(c) PROVE IInv'
  BY <1>4, <1>9 DEF Leave, RoomOrNone
<1>10. ASSUME c \in Sessions, Dig(c) PROVE IInv'
  <2>1. PICK r \in Rooms, way \in Directions :
          /\ Command(c) /\ place[c] # None
          /\ calls < MaxCalls /\ calls' = calls + 1
          /\ Becomes(c, NewCall("forth", "dig", place[c], r, way))
          /\ UNCHANGED <<stored, world, crashes>>
    BY <1>10 DEF Dig
  <2>2. place[c] \in RoomOrNone /\ r \in RoomOrNone
    BY <1>1, <1>10 DEF RestOK, RoomOrNone
  <2>3. CallOK(NewCall("forth", "dig", place[c], r, way), db')
    BY <2>2, NewCallOK DEF Makers
  <2>4. call' \in [Callers -> Call] /\ CallsOK'
    BY <2>1, <2>3, OneCall DEF stored
  <2>5. strayed' \subseteq Users /\ UNCHANGED <<on, place, home, limbo>>
    BY <1>1, <1>10, <2>1, UserAssumption DEF Command, Stray, RestOK
  <2>6. calls' \in 0..MaxCalls
    BY <2>1, BoundAssumption DEF RestOK
  <2>7. QED
    BY <2>1, <2>4, <2>5, <2>6 DEF RestOK, NoGhostRooms, stored, world
<1>11. ASSUME c \in Sessions, Mention(c) PROVE IInv'
  <2>1. CurrentRoom(c) \in RoomOrNone
    BY <1>1, <1>11, RoomAssumption DEF CurrentRoom, RestOK, RoomOrNone
  <2>2. place' \in [People -> RoomOrNone]
    BY <1>11, <2>1 DEF Mention, RestOK
  <2>3. limbo' \subseteq Sessions
    BY <1>11 DEF Mention, RestOK
  <2>4. UNCHANGED <<stored, world, on, home, call, strayed, calls, crashes>>
    BY <1>11 DEF Mention
  <2>5. QED
    BY <2>2, <2>3, <2>4 DEF RestOK, CallsOK, CallOK, NoGhostRooms, stored, world
<1>12. ASSUME UNCHANGED session, NEW op \in {"db_create", "db_fork"},
              NEW source \in RoomOrNone, NEW r \in Rooms,
              op = "db_fork" => source \in Rooms,
              Begin(c, op, source, r, "lookup")
       PROVE  IInv'
  <2>1. /\ call' \in [Callers -> Call] /\ CallsOK' /\ NoGhostRooms'
        /\ calls' \in 0..MaxCalls /\ UNCHANGED <<stored, world, crashes>>
    BY <1>12, BeginOK DEF Makers, RoomOrNone
  <2>2. QED
    BY <1>12, <2>1 DEF RestOK, stored, world, session
<1>13. ASSUME ClientCreate(c) PROVE IInv'
  BY <1>12, <1>13 DEF ClientCreate, RoomOrNone
<1>14. ASSUME ClientFork(c) PROVE IInv'
  <2>1. db \subseteq Rooms
    BY DEF RestOK
  <2>2. QED
    BY <1>12, <1>14, <2>1 DEF ClientFork, RoomOrNone
<1>15. QED
  BY <1>2, <1>3, <1>5, <1>6, <1>7, <1>8, <1>9, <1>10, <1>11, <1>13, <1>14 DEF Request

\* The steps of a call
LEMMA StepOK ==
  ASSUME IInv, NEW c \in Callers, Step(c) PROVE IInv'
<1> USE DEF IInv
<1>1. People \subseteq Callers /\ Sessions \subseteq People
  BY DEF People, Callers
<1>2. call[c] \in Call /\ CallOK(call[c], db)
  BY DEF CallsOK
<1>3. ASSUME NEW pc \in {"lookup", "insert", "read", "copy", "forth", "back", "world",
                         "enter", "context"}
      PROVE  LET cl == [call[c] EXCEPT !.pc = pc] IN
             /\ cl \in Call /\ cl.pc = pc /\ cl.op = call[c].op
             /\ cl.from = call[c].from /\ cl.target = call[c].target
  BY <1>2 DEF Call
<1>4. db \subseteq Rooms /\ rooms \subseteq db /\ call \in [Callers -> Call] /\ CallsOK
  BY DEF RestOK, NoGhostRooms
<1>5. ASSUME Lookup(c) PROVE IInv'
  <2>1. At(c, "lookup") /\ UNCHANGED <<stored, world, session, calls, crashes>>
    BY <1>5 DEF Lookup
  <2>2. call' \in [Callers -> Call] /\ CallsOK'
    <3>1. CASE Goto(c, "insert")
      <4>1. CallOK([call[c] EXCEPT !.pc = "insert"], db')
        BY <1>2, <1>3, <2>1 DEF CallOK, At
      <4>2. QED
        BY <1>4, <2>1, <3>1, <4>1, GotoOK DEF stored
    <3>2. CASE /\ call[c].op \in {"connect", "join"} /\ call[c].target \in db
               /\ Goto(c, AfterRow(call[c].op))
      <4>1. AfterRow(call[c].op) \in {"enter", "world"}
            /\ (AfterRow(call[c].op) = "enter" => call[c].op = "connect")
        BY <3>2 DEF AfterRow
      <4>2. CallOK([call[c] EXCEPT !.pc = AfterRow(call[c].op)], db')
        BY <1>2, <1>3, <2>1, <3>2, <4>1 DEF CallOK, stored
      <4>3. QED
        BY <1>4, <2>1, <3>2, <4>2, GotoOK DEF stored
    <3>3. CASE Answer(c, "refused")
      BY <1>4, <2>1, <3>3, AnswerOK DEF stored
    <3>4. QED
      BY <1>5, <3>1, <3>2, <3>3 DEF Lookup
  <2>3. QED
    BY <2>1, <2>2 DEF RestOK, NoGhostRooms, stored, world, session
<1>6. ASSUME InsertRoom(c) PROVE IInv'
  <2>1. At(c, "insert") /\ UNCHANGED <<kv, world, session, calls, crashes>>
        /\ call[c].target \in Rooms /\ call[c].op \in Makers \cup {"join"}
    BY <1>2, <1>6 DEF InsertRoom, CallOK, At
  <2>2. db \subseteq db' /\ db' \subseteq Rooms
    BY <1>4, <1>6, <2>1 DEF InsertRoom, RowOf
  <2>3. call' \in [Callers -> Call] /\ CallsOK'
    <3>1. CASE db' = db \cup {call[c].target} /\ Goto(c, AfterRow(call[c].op))
      <4>1. /\ AfterRow(call[c].op) \in {"enter", "read", "world"}
            /\ AfterRow(call[c].op) = "enter" => call[c].op = "connect"
            /\ AfterRow(call[c].op) = "read" => call[c].op \in {"fork", "db_fork"}
        BY DEF AfterRow
      <4>2. CallOK([call[c] EXCEPT !.pc = AfterRow(call[c].op)], db')
        BY <1>2, <1>3, <3>1, <4>1 DEF CallOK
      <4>3. QED
        BY <1>4, <2>2, <3>1, <4>2, GotoOK
    <3>2. CASE Answer(c, "refused")
      BY <1>4, <2>2, <3>2, AnswerOK
    <3>3. QED
      BY <1>6, <3>1, <3>2 DEF InsertRoom, RowOf
  <2>4. QED
    BY <2>1, <2>2, <2>3 DEF RestOK, NoGhostRooms, world, session
<1>7. ASSUME ReadKeys(c) PROVE IInv'
  <2> DEFINE source == kv[call[c].from]
             cl == [call[c] EXCEPT !.pc = "copy", !.kv = source,
                                   !.left = {k \in Keys : source[k] # None}]
  <2>1. At(c, "read") /\ UNCHANGED <<stored, world, session, calls, crashes>>
    BY <1>7 DEF ReadKeys
  <2>2. call[c].op \in {"fork", "db_fork"} /\ call[c].from \in Rooms
    BY <1>2, <2>1 DEF CallOK, At
  <2>3. source \in KeyValues
    BY <2>2 DEF RestOK
  <2>4. cl \in Call
    <3> HIDE DEF source
    <3>1. QED
      BY <1>2, <2>3 DEF Call
  <2>5. cl.pc = "copy" /\ cl.op = call[c].op /\ cl.from = call[c].from
        /\ cl.target = call[c].target
    BY <1>2 DEF Call
  <2>6. CallOK(cl, db')
    <3> HIDE DEF cl
    <3>1. QED
      BY <1>2, <2>1, <2>2, <2>4, <2>5 DEF CallOK, At, stored, Makers
  <2>7. Becomes(c, cl)
    BY <1>7 DEF ReadKeys
  <2>8. call' \in [Callers -> Call] /\ CallsOK'
    <3> HIDE DEF cl
    <3>1. QED
      BY <1>4, <2>1, <2>6, <2>7, OneCall DEF stored
  <2>9. QED
    BY <2>1, <2>8 DEF RestOK, NoGhostRooms, stored, world, session
<1>8. ASSUME CopyKey(c) PROVE IInv'
  <2>1. At(c, "copy") /\ UNCHANGED <<db, world, session, calls, crashes>>
    BY <1>8 DEF CopyKey
  <2>2. call[c].op \in {"fork", "db_fork"} /\ call[c].from \in Rooms
        /\ call[c].target \in Rooms /\ call[c].kv \in KeyValues
        /\ call[c].left \subseteq Keys
    BY <1>2, <1>4, <2>1 DEF CallOK, Call, At, Makers
  <2>3. CASE \E k \in call[c].left :
               /\ kv' = [kv EXCEPT ![call[c].target][k] = call[c].kv[k]]
               /\ Becomes(c, [call[c] EXCEPT !.left = call[c].left \ {k}])
    <3>1. PICK k \in call[c].left :
               /\ kv' = [kv EXCEPT ![call[c].target][k] = call[c].kv[k]]
               /\ Becomes(c, [call[c] EXCEPT !.left = call[c].left \ {k}])
      BY <2>3
    <3> DEFINE cl == [call[c] EXCEPT !.left = call[c].left \ {k}]
    <3>2. cl \in Call /\ cl.pc = call[c].pc /\ cl.op = call[c].op
          /\ cl.from = call[c].from /\ cl.target = call[c].target
      BY <1>2 DEF Call
    <3> HIDE DEF cl
    <3>3. CallOK(cl, db')
      BY <1>2, <2>1, <3>2 DEF CallOK
    <3>4. call' \in [Callers -> Call] /\ CallsOK'
      BY <1>4, <2>1, <3>1, <3>3, OneCall DEF cl
    <3>5. call[c].kv[k] \in RoomOrNone
      BY <2>2 DEF KeyValues
    <3>6. kv' \in [Rooms -> KeyValues]
      BY <2>2, <3>1, <3>5 DEF RestOK, KeyValues
    <3>7. QED
      BY <2>1, <3>4, <3>6 DEF RestOK, NoGhostRooms, world, session
  <2>4. CASE /\ kv' = [kv EXCEPT ![call[c].target]["parent"] = call[c].from]
             /\ Goto(c, "world")
    <3>1. CallOK([call[c] EXCEPT !.pc = "world"], db')
      BY <1>2, <1>3, <2>1 DEF CallOK, At
    <3>2. call' \in [Callers -> Call] /\ CallsOK'
      BY <1>4, <2>1, <2>4, <3>1, GotoOK
    <3>3. kv' \in [Rooms -> KeyValues]
      BY <2>2, <2>4 DEF RestOK, KeyValues, RoomOrNone
    <3>4. QED
      BY <2>1, <3>2, <3>3 DEF RestOK, NoGhostRooms, world, session
  <2>5. QED
    BY <1>8, <2>3, <2>4 DEF CopyKey
<1>9. ASSUME NEW r \in RoomOrNone, NEW way \in Directions, NEW target \in RoomOrNone
      PROVE  WithExit(r, way, target) \in [Rooms -> KeyValues]
  BY <1>4 DEF RestOK, WithExit, KeyValues
<1>10. /\ call[c].from \in RoomOrNone /\ call[c].target \in RoomOrNone
       /\ call[c].way \in Directions
  BY <1>2 DEF Call
<1>11. ASSUME DigForth(c) PROVE IInv'
  <2>1. UNCHANGED <<db, world, session, calls, crashes>> /\ Goto(c, "back")
    BY <1>11 DEF DigForth
  <2>2. kv' \in [Rooms -> KeyValues]
    BY <1>9, <1>10, <1>11 DEF DigForth
  <2>3. CallOK([call[c] EXCEPT !.pc = "back"], db')
    BY <1>2, <1>3, <2>1 DEF CallOK
  <2>4. call' \in [Callers -> Call] /\ CallsOK'
    BY <1>4, <2>1, <2>3, GotoOK
  <2>5. QED
    BY <2>1, <2>2, <2>4 DEF RestOK, NoGhostRooms, world, session
<1>12. ASSUME DigBack(c) PROVE IInv'
  <2>1. UNCHANGED <<db, world, session, calls, crashes>> /\ Answer(c, "ok")
    BY <1>12 DEF DigBack
  <2>2. Reverse(call[c].way) \in Directions
    BY DEF Reverse, Directions
  <2>3. kv' \in [Rooms -> KeyValues]
    BY <1>9, <1>10, <1>12, <2>2 DEF DigBack
  <2>4. call' \in [Callers -> Call] /\ CallsOK'
    BY <1>4, <2>1, AnswerOK
  <2>5. QED
    BY <2>1, <2>3, <2>4 DEF RestOK, NoGhostRooms, world, session
<1>13. ASSUME c \in Sessions, EnterContext(c) PROVE IInv'
  <2>1. /\ At(c, "enter") /\ Goto(c, "world")
        /\ UNCHANGED <<stored, world, on, strayed, limbo, calls, crashes>>
    BY <1>13 DEF EnterContext
  <2>2. CallOK([call[c] EXCEPT !.pc = "world"], db')
    BY <1>2, <1>3, <2>1 DEF CallOK, At, stored
  <2>3. call' \in [Callers -> Call] /\ CallsOK'
    BY <1>4, <2>1, <2>2, GotoOK DEF stored
  <2>4. place' \in [People -> RoomOrNone] /\ home' \in [Sessions -> {None, Lobby}]
    BY <1>13, RoomAssumption DEF EnterContext, RestOK, RoomOrNone
  <2>5. QED
    BY <2>1, <2>3, <2>4 DEF RestOK, NoGhostRooms, stored, world
<1>14. ASSUME c \in Sessions, Context(c) PROVE IInv'
  <2>1. UNCHANGED <<stored, world, on, home, strayed, limbo, calls, crashes>>
        /\ Answer(c, "ok")
    BY <1>14 DEF Context
  <2>2. call' \in [Callers -> Call] /\ CallsOK'
    BY <1>4, <2>1, AnswerOK DEF stored
  <2>3. place' \in [People -> RoomOrNone]
    BY <1>10, <1>14 DEF Context, RestOK
  <2>4. QED
    BY <2>1, <2>2, <2>3 DEF RestOK, NoGhostRooms, stored, world
<1>15. ASSUME Done(c), UNCHANGED stored
       PROVE  call' \in [Callers -> Call] /\ CallsOK'
  <2> DEFINE cl == [call[c] EXCEPT !.pc = AfterWorld(c), !.answer = "ok"]
  <2>1. AfterWorld(c) \in {"context", "idle"}
    BY DEF AfterWorld
  <2>2. /\ cl \in Call /\ cl.pc = AfterWorld(c) /\ cl.op = call[c].op
        /\ cl.from = call[c].from /\ cl.target = call[c].target
    BY <1>2, <2>1 DEF Call
  <2> HIDE DEF cl
  <2>3. CallOK(cl, db')
    BY <1>2, <2>1, <2>2 DEF CallOK
  <2>4. QED
    BY <1>4, <1>15, <2>3, OneCall DEF cl, Done, stored
<1>16. c \in People => UserOf[c] \in Users
  BY UserAssumption
<1>17. ASSUME NEW us \in [Rooms -> SUBSET Users], NEW r, NEW u,
              \A q \in Rooms \ rooms : us[q] = {}
       PROVE  /\ Left(us, r, u) \in [Rooms -> SUBSET Users]
              /\ \A q \in Rooms \ rooms : Left(us, r, u)[q] = {}
  BY <1>4, <1>17 DEF Left, Without
<1>18. /\ users \in [Rooms -> SUBSET Users] /\ \A r \in Rooms \ rooms : users[r] = {}
       /\ rooms \subseteq Rooms
  BY DEF RestOK
<1>19. ASSUME c \in People, JoinWorld(c) PROVE IInv'
  <2> DEFINE gone == Left(users, call[c].from, UserOf[c])
  <2>1. UNCHANGED <<stored, rooms, on, place, home, strayed, calls, crashes>>
    BY <1>19 DEF JoinWorld
  <2>2. /\ gone \in [Rooms -> SUBSET Users]
        /\ \A q \in Rooms \ rooms : gone[q] = {}
    BY <1>17, <1>18
  <2>3. call' \in [Callers -> Call] /\ CallsOK'
    <3>1. Done(c) \/ Answer(c, "no room")
      BY <1>19 DEF JoinWorld
    <3>2. QED
      BY <1>4, <1>15, <2>1, <3>1, AnswerOK DEF stored
  <2>4. /\ users' \in [Rooms -> SUBSET Users]
        /\ \A q \in Rooms \ rooms' : users'[q] = {}
    <3> HIDE DEF gone
    <3>1. CASE /\ call[c].target \in rooms
               /\ users' = [gone EXCEPT ![call[c].target] = @ \cup {UserOf[c]}]
      BY <1>16, <1>18, <1>19, <2>1, <2>2, <3>1
    <3>2. CASE users' = gone
      BY <2>1, <2>2, <3>2
    <3>3. QED
      BY <1>19, <3>1, <3>2 DEF JoinWorld, CanJoin, gone
  <2>5. limbo' \subseteq Sessions
    BY <1>19 DEF JoinWorld, RestOK
  <2>6. QED
    BY <2>1, <2>3, <2>4, <2>5 DEF RestOK, NoGhostRooms, stored
<1>20. ASSUME c \in People, CreateWorld(c) PROVE IInv'
  <2> DEFINE gone == Left(users, call[c].from, UserOf[c])
  <2>1. UNCHANGED <<stored, on, place, home, strayed, calls, crashes>>
        /\ call[c].target \in db
    BY <1>2, <1>20 DEF CreateWorld, CallOK, At, Makers
  <2>2. /\ gone \in [Rooms -> SUBSET Users]
        /\ \A q \in Rooms \ rooms : gone[q] = {}
    BY <1>17, <1>18
  <2>3. CASE Answer(c, "refused") /\ UNCHANGED <<world, limbo>>
    <3>1. call' \in [Callers -> Call] /\ CallsOK'
      BY <1>4, <2>1, <2>3, AnswerOK DEF stored
    <3>2. QED
      BY <2>1, <2>3, <3>1 DEF RestOK, NoGhostRooms, stored, world
  <2>4. CASE /\ rooms' = rooms \cup {call[c].target}
             /\ users' = [gone EXCEPT ![call[c].target] = {UserOf[c]}]
             /\ limbo' = limbo \ {c}
             /\ Done(c)
    <3>1. call' \in [Callers -> Call] /\ CallsOK'
      BY <1>15, <2>1, <2>4
    <3>2. rooms' \subseteq db' /\ rooms' \subseteq Rooms
      BY <1>4, <2>1, <2>4 DEF stored
    <3>3. /\ users' \in [Rooms -> SUBSET Users]
          /\ \A q \in Rooms \ rooms' : users'[q] = {}
      <4> HIDE DEF gone
      <4>1. QED
        BY <1>4, <1>16, <1>20, <2>1, <2>2, <2>4
    <3>4. QED
      BY <2>1, <2>4, <3>1, <3>2, <3>3 DEF RestOK, NoGhostRooms, stored
  <2>5. QED
    BY <1>20, <2>3, <2>4 DEF CreateWorld
<1>21. ASSUME c \in People, ForkWorld(c) PROVE IInv'
  <2> DEFINE before == [users EXCEPT ![call[c].target] = {}]
             gone == Left(before, call[c].from, UserOf[c])
  <2>1. /\ UNCHANGED <<stored, on, place, home, strayed, calls, crashes>>
        /\ call[c].target \in db
        /\ rooms' = rooms \cup {call[c].target}
        /\ users' = [gone EXCEPT ![call[c].target] = {UserOf[c]}]
        /\ limbo' \subseteq Sessions
    BY <1>2, <1>21 DEF ForkWorld, CallOK, At, Makers, RestOK
  <2>2. /\ before \in [Rooms -> SUBSET Users]
        /\ \A q \in Rooms \ rooms : before[q] = {}
    BY <1>18
  <2> HIDE DEF before
  <2>3. /\ gone \in [Rooms -> SUBSET Users]
        /\ \A q \in Rooms \ rooms : gone[q] = {}
    BY <1>17, <2>2
  <2> HIDE DEF gone
  <2>4. call' \in [Callers -> Call] /\ CallsOK'
    BY <1>15, <1>21, <2>1 DEF ForkWorld
  <2>5. rooms' \subseteq db' /\ rooms' \subseteq Rooms
    BY <1>4, <2>1 DEF stored
  <2>6. /\ users' \in [Rooms -> SUBSET Users]
        /\ \A q \in Rooms \ rooms' : users'[q] = {}
    BY <1>4, <1>16, <1>21, <2>1, <2>3
  <2>7. QED
    BY <2>1, <2>4, <2>5, <2>6 DEF RestOK, NoGhostRooms, stored
<1>22. ASSUME c \in People, LeaveWorld(c) PROVE IInv'
  <2>1. /\ UNCHANGED <<stored, rooms, session, calls, crashes>> /\ Done(c)
        /\ users' = Left(users, call[c].from, UserOf[c])
    BY <1>22 DEF LeaveWorld
  <2>2. /\ users' \in [Rooms -> SUBSET Users]
        /\ \A q \in Rooms \ rooms' : users'[q] = {}
    BY <1>17, <1>18, <2>1
  <2>3. QED
    BY <1>15, <2>1, <2>2 DEF RestOK, NoGhostRooms, stored, session
<1>23. ASSUME ClientWorld(c) PROVE IInv'
  <2>1. /\ UNCHANGED <<stored, session, calls, crashes>>
        /\ call[c].target \in db /\ Answer(c, "ok")
        /\ rooms' = rooms \cup {call[c].target}
        /\ users' = [users EXCEPT ![call[c].target] = {}]
    BY <1>2, <1>23 DEF ClientWorld, CallOK, At, Makers, RestOK
  <2>2. call' \in [Callers -> Call] /\ CallsOK'
    BY <1>4, <2>1, AnswerOK DEF stored
  <2>3. rooms' \subseteq db' /\ rooms' \subseteq Rooms
    BY <1>4, <2>1 DEF stored
  <2>4. /\ users' \in [Rooms -> SUBSET Users]
        /\ \A q \in Rooms \ rooms' : users'[q] = {}
    BY <1>18, <2>1
  <2>5. QED
    BY <2>1, <2>2, <2>3, <2>4 DEF RestOK, NoGhostRooms, stored, session
<1>24. ASSUME c \in Sessions, ConnectWorld(c) PROVE IInv'
  <2>1. /\ UNCHANGED <<stored, on, place, home, strayed, calls, crashes>>
        /\ Lobby \in db /\ Answer(c, "ok")
        /\ rooms' = rooms \cup {Lobby}
        /\ users' = [users EXCEPT ![Lobby] = @ \cup {UserOf[c]}]
        /\ limbo' \subseteq Sessions
    BY <1>2, <1>24 DEF ConnectWorld, CallOK, At, Makers, RestOK
  <2>2. call' \in [Callers -> Call] /\ CallsOK'
    BY <1>4, <2>1, AnswerOK DEF stored
  <2>3. rooms' \subseteq db' /\ rooms' \subseteq Rooms
    BY <1>4, <2>1 DEF stored
  <2>4. UserOf[c] \in Users
    BY <1>1, <1>16, <1>24
  <2>5. /\ users' \in [Rooms -> SUBSET Users]
        /\ \A q \in Rooms \ rooms' : users'[q] = {}
    BY <1>18, <2>1, <2>4
  <2>6. QED
    BY <2>1, <2>2, <2>3, <2>5 DEF RestOK, NoGhostRooms, stored
<1>25. QED
  BY <1>5, <1>6, <1>7, <1>8, <1>11, <1>12, <1>13, <1>14, <1>19, <1>20, <1>21, <1>22,
     <1>23, <1>24 DEF Step

\* A crash leaves the rows and makes the World of them.
LEMMA RestartOK ==
  ASSUME IInv, Restart PROVE IInv'
<1>1. NoCall \in Call
  BY NoCallOK DEF CallOK
<1>2. call' \in [Callers -> Call] /\ CallsOK'
  BY <1>1, NoCallOK DEF Restart, CallsOK
<1>3. RestOK'
  BY BoundAssumption DEF Restart, IInv, RestOK, RoomOrNone, stored
<1>4. NoGhostRooms'
  BY DEF Restart, NoGhostRooms, stored
<1>5. QED
  BY <1>2, <1>3, <1>4 DEF IInv

LEMMA Inductive == IInv /\ [Next]_vars => IInv'
<1> SUFFICES ASSUME IInv, [Next]_vars PROVE IInv'
  OBVIOUS
<1>1. CASE UNCHANGED vars
  BY <1>1 DEF IInv, RestOK, CallsOK, CallOK, NoGhostRooms, vars
<1>2. CASE Restart
  BY <1>2, RestartOK
<1>3. ASSUME NEW c \in Callers, Request(c) \/ Step(c) PROVE IInv'
  BY <1>3, RequestOK, StepOK
<1>4. QED
  BY <1>1, <1>2, <1>3 DEF Next

-----------------------------------------------------------------------------
(* What the calls own and where users are listed                           *)

Named == {"create", "fork", "db_create", "db_fork"}

\* The call has inserted the row of its target and not yet made the room.
Owns(c) == call[c].op \in Named /\ call[c].pc \in {"read", "copy", "world"}

OwnersOK ==
  /\ Lobby \in rooms
  /\ \A c \in Callers : Owns(c) => call[c].target \notin rooms
  /\ \A c, d \in Callers : Owns(c) /\ Owns(d) /\ c # d => call[c].target # call[d].target

Listed(s) == {r \in Rooms : UserOf[s] \in users[r]}

Working == {"lookup", "insert", "read", "copy", "enter", "world"}

\* Where a user is listed who has one session and whom no model moved
Followed(s) ==
  /\ \A t \in on : UserOf[t] = UserOf[s] => t = s
  /\ ~At(s, "context") =>
       /\ Listed(s) \subseteq {place[s]}
       /\ s \notin limbo => Listed(s) = {place[s]} \ {None}
  /\ At(s, "context") => Listed(s) = {call[s].target} \ {None}
  /\ call[s].pc \in Working =>
       /\ call[s].op \in {"join", "create", "fork", "leave"} => call[s].from = place[s]
       /\ call[s].op = "leave" => call[s].target = None
       /\ call[s].op = "connect" => Listed(s) = {} /\ s \in limbo
       /\ call[s].op = "connect" /\ At(s, "world") => place[s] = Lobby

ListsOK ==
  /\ \A c \in Replies : ~At(c, "idle") => UserOf[c] \in strayed
  /\ \A s \in Sessions \ on : At(s, "idle")
  /\ \A s \in on : UserOf[s] \notin strayed => Followed(s)

\* With the lists
LInv == IInv /\ OwnersOK /\ ListsOK

-----------------------------------------------------------------------------
(* How calls move                                                          *)

\* One caller's step changes its own call.
LEMMA CallMoves ==
  ASSUME IInv, NEW c \in Callers, NEW cl, Becomes(c, cl)
  PROVE  call'[c] = cl /\ \A d \in Callers : d # c => call'[d] = call[d]
BY DEF IInv, Becomes

\* A call that goes on or ends keeps its operation and its rooms.
LEMMA CallFields ==
  ASSUME IInv, NEW c \in Callers
  PROVE  /\ call[c] \in Call /\ CallOK(call[c], db)
         /\ \A pc : Goto(c, pc) =>
              /\ call'[c].pc = pc /\ call'[c].op = call[c].op
              /\ call'[c].from = call[c].from /\ call'[c].target = call[c].target
              /\ \A d \in Callers : d # c => call'[d] = call[d]
         /\ \A a : Answer(c, a) =>
              /\ call'[c].pc = "idle" /\ call'[c].op = call[c].op
              /\ call'[c].from = call[c].from /\ call'[c].target = call[c].target
              /\ \A d \in Callers : d # c => call'[d] = call[d]
         /\ Done(c) =>
              /\ call'[c].pc = AfterWorld(c) /\ call'[c].op = call[c].op
              /\ call'[c].from = call[c].from /\ call'[c].target = call[c].target
              /\ \A d \in Callers : d # c => call'[d] = call[d]
<1>1. call[c] \in Call /\ CallOK(call[c], db)
  BY DEF IInv, CallsOK
<1>2. ASSUME NEW pc, Goto(c, pc)
      PROVE  /\ call'[c].pc = pc /\ call'[c].op = call[c].op
             /\ call'[c].from = call[c].from /\ call'[c].target = call[c].target
             /\ \A d \in Callers : d # c => call'[d] = call[d]
  <2>1. Becomes(c, [call[c] EXCEPT !.pc = pc])
    BY <1>2 DEF Goto
  <2>2. call'[c] = [call[c] EXCEPT !.pc = pc] /\ \A d \in Callers : d # c => call'[d] = call[d]
    BY <2>1, CallMoves
  <2>3. QED
    BY <1>1, <2>2 DEF Call
<1>3. ASSUME NEW pc, NEW a, Becomes(c, [call[c] EXCEPT !.pc = pc, !.answer = a])
      PROVE  /\ call'[c].pc = pc /\ call'[c].op = call[c].op
             /\ call'[c].from = call[c].from /\ call'[c].target = call[c].target
             /\ \A d \in Callers : d # c => call'[d] = call[d]
  <2>1. call'[c] = [call[c] EXCEPT !.pc = pc, !.answer = a]
        /\ \A d \in Callers : d # c => call'[d] = call[d]
    BY <1>3, CallMoves
  <2>2. QED
    BY <1>1, <2>1 DEF Call
<1>4. QED
  BY <1>1, <1>2, <1>3 DEF Answer, Done

\* A request begins a call, or leaves the calls as they are.
LEMMA Requests ==
  ASSUME IInv, NEW c \in Callers, Request(c)
  PROVE  /\ UNCHANGED <<stored, world, crashes>>
         /\ \A d \in Callers : d # c => call'[d] = call[d]
         /\ \/ call' = call
            \/ /\ call[c].pc = "idle"
               /\ \E op, from, target, pc, way :
                    /\ call'[c] = NewCall(pc, op, from, target, way)
                    /\ pc \in {"lookup", "insert", "forth"} \/ (pc = "world" /\ op = "leave")
<1>1. ASSUME NEW op, NEW from, NEW target, NEW pc, NEW way,
             Becomes(c, NewCall(pc, op, from, target, way)),
             UNCHANGED <<stored, world, crashes>>, call[c].pc = "idle",
             pc \in {"lookup", "insert", "forth"} \/ (pc = "world" /\ op = "leave")
      PROVE  /\ UNCHANGED <<stored, world, crashes>>
             /\ \A d \in Callers : d # c => call'[d] = call[d]
             /\ call[c].pc = "idle"
             /\ \E o, f, t, p, w :
                    /\ call'[c] = NewCall(p, o, f, t, w)
                    /\ p \in {"lookup", "insert", "forth"} \/ (p = "world" /\ o = "leave")
  <2>1. call'[c] = NewCall(pc, op, from, target, way)
        /\ \A d \in Callers : d # c => call'[d] = call[d]
    BY <1>1, CallMoves
  <2>2. QED
    BY <1>1, <2>1
<1>2. ASSUME NEW op, NEW from, NEW target, NEW pc, Begin(c, op, from, target, pc),
             call[c].pc = "idle", pc \in {"lookup", "insert"} \/ (pc = "world" /\ op = "leave")
      PROVE  /\ UNCHANGED <<stored, world, crashes>>
             /\ \A d \in Callers : d # c => call'[d] = call[d]
             /\ call[c].pc = "idle"
             /\ \E o, f, t, p, w :
                    /\ call'[c] = NewCall(p, o, f, t, w)
                    /\ p \in {"lookup", "insert", "forth"} \/ (p = "world" /\ o = "leave")
  <2>1. Becomes(c, NewCall(pc, op, from, target, "north")) /\ UNCHANGED <<stored, world, crashes>>
    BY <1>2 DEF Begin
  <2>2. QED
    BY <1>1, <1>2, <2>1
<1>3. CASE Connect(c)
  BY <1>2, <1>3 DEF Connect, At
<1>4. CASE Disconnect(c)
  BY <1>4 DEF Disconnect
<1>5. CASE Mention(c)
  BY <1>5 DEF Mention
<1>6. CASE Dig(c)
  <2>1. PICK r \in Rooms, way \in Directions :
          /\ Becomes(c, NewCall("forth", "dig", place[c], r, way))
          /\ UNCHANGED <<stored, world, crashes>>
    BY <1>6 DEF Dig
  <2>2. QED
    BY <1>1, <1>6, <2>1 DEF Dig, Command, IdleCaller, At
<1>7. CASE Join(c) \/ Go(c) \/ Create(c) \/ Fork(c) \/ Leave(c)
  BY <1>2, <1>7 DEF Join, Go, Create, Fork, Leave, Command, IdleCaller, At
<1>8. CASE ClientCreate(c) \/ ClientFork(c)
  BY <1>2, <1>8 DEF ClientCreate, ClientFork, At
<1>9. QED
  BY <1>3, <1>4, <1>5, <1>6, <1>7, <1>8 DEF Request

-----------------------------------------------------------------------------
(* The steps on the World                                                  *)

\* Ownership stays when rooms are added by their owner only.
LEMMA OwnersKept ==
  ASSUME OwnersOK, NEW c \in Callers, \A d \in Callers : d # c => call'[d] = call[d],
         rooms \subseteq rooms',
         \A r \in rooms' : r \in rooms \/ (Owns(c) /\ r = call[c].target /\ ~Owns(c)'),
         Owns(c)' => Owns(c) /\ call'[c].target = call[c].target
  PROVE  OwnersOK'
<1>1. \A d \in Callers : Owns(d)' => Owns(d) /\ call'[d].target = call[d].target
  BY DEF Owns
<1>2. \A d \in Callers : Owns(d)' => call'[d].target \notin rooms'
  <2>1. SUFFICES ASSUME NEW d \in Callers, Owns(d)' PROVE call'[d].target \notin rooms'
    OBVIOUS
  <2>2. Owns(d) /\ call'[d].target = call[d].target /\ call[d].target \notin rooms
    BY <1>1, <2>1 DEF OwnersOK
  <2>3. Owns(c) /\ ~Owns(c)' => call[d].target # call[c].target
    BY <2>1, <2>2 DEF OwnersOK
  <2>4. QED
    BY <2>2, <2>3
<1>3. \A d, e \in Callers : Owns(d)' /\ Owns(e)' /\ d # e => call'[d].target # call'[e].target
  BY <1>1 DEF OwnersOK
<1>4. QED
  BY <1>2, <1>3 DEF OwnersOK

\* A user leaves a room, nobody else does.
LEMMA Leaving ==
  ASSUME NEW us \in [Rooms -> SUBSET Users], NEW from, NEW u
  PROVE  /\ Left(us, from, u) \in [Rooms -> SUBSET Users]
         /\ \A r \in Rooms : \A v : v # u => (v \in Left(us, from, u)[r] <=> v \in us[r])
         /\ \A r \in Rooms : Left(us, from, u)[r] \subseteq us[r]
         /\ from \in rooms /\ from \in Rooms => u \notin Left(us, from, u)[from]
<1>1. CASE from \in rooms
  <2>1. Left(us, from, u) = [us EXCEPT ![from] = @ \ {u}]
    BY <1>1 DEF Left, Without
  <2>2. QED
    BY <2>1
<1>2. CASE from \notin rooms
  BY <1>2 DEF Left, Without
<1>3. QED
  BY <1>1, <1>2

\* One entry of a function of sets
LEMMA Entered ==
  ASSUME NEW us \in [Rooms -> SUBSET Users], NEW r \in Rooms, NEW x
  PROVE  /\ [us EXCEPT ![r] = x][r] = x
         /\ \A q \in Rooms : q # r => [us EXCEPT ![r] = x][q] = us[q]
OBVIOUS

WorldStep(c) ==
  \/ c \in People /\ (JoinWorld(c) \/ CreateWorld(c) \/ ForkWorld(c) \/ LeaveWorld(c))
  \/ c \in Clients /\ ClientWorld(c)
  \/ c \in Sessions /\ ConnectWorld(c)

\* Whom a step on the World leaves where they are
Stays(c) ==
  \A r \in Rooms, v \in Users :
    (c \in People => v # UserOf[c]) => (v \in users'[r] <=> v \in users[r])

\* What a step on the World does to the lists, other than to its own user's.
LEMMA WorldMoves ==
  ASSUME IInv, OwnersOK, NEW c \in Callers, WorldStep(c)
  PROVE  /\ At(c, "world") /\ rooms \subseteq rooms' /\ Stays(c)
         /\ \A r \in rooms' : r \in rooms \/ (Owns(c) /\ r = call[c].target)
<1>1. /\ users \in [Rooms -> SUBSET Users] /\ rooms \subseteq Rooms
      /\ \A r \in Rooms \ rooms : users[r] = {}
  BY DEF IInv, RestOK
<1>2. At(c, "world") /\ CallOK(call[c], db)
  BY DEF WorldStep, JoinWorld, CreateWorld, ForkWorld, LeaveWorld, ClientWorld, ConnectWorld,
         IInv, CallsOK
<1>3. call[c].op \in Named => Owns(c) /\ call[c].target \in Rooms /\ call[c].target \notin rooms
                              /\ users[call[c].target] = {}
  <2>1. ASSUME call[c].op \in Named
        PROVE  Owns(c) /\ call[c].target \in Rooms /\ call[c].target \notin rooms
    <3>1. Owns(c)
      BY <1>2, <2>1 DEF Owns, At
    <3>2. call[c].target \in Rooms
      BY <1>2, <2>1 DEF CallOK, Makers, Named, At, IInv, RestOK
    <3>3. QED
      BY <3>1, <3>2 DEF OwnersOK
  <2>2. QED
    BY <1>1, <2>1
<1>4. PICK from, target, u :
        from = call[c].from /\ target = call[c].target /\ u = UserOf[c]
  OBVIOUS
<1>5. PICK gone : gone = Left(users, from, u)
  OBVIOUS
<1>6. /\ gone \in [Rooms -> SUBSET Users]
      /\ \A r \in Rooms : \A v : v # u => (v \in gone[r] <=> v \in users[r])
  BY <1>1, <1>5, Leaving
<1>7. CASE c \in People /\ JoinWorld(c)
  <2>1. rooms' = rooms
    BY <1>7 DEF JoinWorld
  <2>2. \A r \in Rooms, v \in Users : v # u => (v \in users'[r] <=> v \in users[r])
    <3>1. CASE target \in rooms /\ users' = [gone EXCEPT ![target] = gone[target] \cup {u}]
      <4>1. /\ users'[target] = gone[target] \cup {u}
            /\ \A q \in Rooms : q # target => users'[q] = gone[q]
        BY <1>1, <1>6, <3>1, Entered
      <4>2. QED
        BY <1>6, <4>1
    <3>2. CASE users' = gone
      BY <1>6, <3>2
    <3>3. QED
      BY <1>4, <1>5, <1>7, <3>1, <3>2 DEF JoinWorld, CanJoin
  <2>3. QED
    BY <1>2, <1>4, <1>7, <2>1, <2>2 DEF Stays
<1>8. CASE c \in People /\ CreateWorld(c)
  <2>1. call[c].op \in Named
    BY <1>8 DEF CreateWorld, Named
  <2>2. rooms' = rooms \cup {target} /\ users' = [gone EXCEPT ![target] = {u}]
    BY <1>3, <1>4, <1>5, <1>8, <2>1 DEF CreateWorld
  <2>3. users'[target] = {u} /\ \A q \in Rooms : q # target => users'[q] = gone[q]
    BY <1>3, <1>4, <1>6, <2>1, <2>2, Entered
  <2>4. \A r \in Rooms, v \in Users : v # u => (v \in users'[r] <=> v \in users[r])
    BY <1>3, <1>4, <1>6, <2>1, <2>3
  <2>5. QED
    BY <1>2, <1>3, <1>4, <1>8, <2>1, <2>2, <2>4 DEF Stays
<1>9. CASE c \in People /\ ForkWorld(c)
  <2>1. call[c].op \in Named
    BY <1>9 DEF ForkWorld, Named
  <2>2. PICK before, after : before = [users EXCEPT ![target] = {}] /\ after = Left(before, from, u)
    OBVIOUS
  <2>3. before = users
    BY <1>1, <1>3, <1>4, <2>1, <2>2
  <2>4. rooms' = rooms \cup {target} /\ users' = [gone EXCEPT ![target] = {u}]
    BY <1>4, <1>5, <1>9, <2>2, <2>3 DEF ForkWorld
  <2>5. users'[target] = {u} /\ \A q \in Rooms : q # target => users'[q] = gone[q]
    BY <1>3, <1>4, <1>6, <2>1, <2>4, Entered
  <2>6. \A r \in Rooms, v \in Users : v # u => (v \in users'[r] <=> v \in users[r])
    BY <1>3, <1>4, <1>6, <2>1, <2>5
  <2>7. QED
    BY <1>2, <1>3, <1>4, <1>9, <2>1, <2>4, <2>6 DEF Stays
<1>10. CASE c \in People /\ LeaveWorld(c)
  <2>1. users' = gone /\ rooms' = rooms
    BY <1>4, <1>5, <1>10 DEF LeaveWorld
  <2>2. QED
    BY <1>2, <1>4, <1>6, <1>10, <2>1 DEF Stays
<1>11. CASE c \in Clients /\ ClientWorld(c)
  <2>1. call[c].op \in Named /\ rooms' = rooms \cup {target}
        /\ users' = [users EXCEPT ![target] = {}]
    BY <1>4, <1>11 DEF ClientWorld, Named
  <2>2. users' = users
    BY <1>1, <1>3, <1>4, <2>1
  <2>3. QED
    BY <1>2, <1>3, <1>4, <2>1, <2>2 DEF Stays
<1>12. CASE c \in Sessions /\ ConnectWorld(c)
  <2>1. rooms' = rooms /\ Lobby \in Rooms /\ users' = [users EXCEPT ![Lobby] = users[Lobby] \cup {u}]
    BY <1>1, <1>4, <1>12 DEF ConnectWorld, OwnersOK
  <2>2. /\ users'[Lobby] = users[Lobby] \cup {u}
        /\ \A q \in Rooms : q # Lobby => users'[q] = users[q]
    BY <1>1, <2>1, Entered
  <2>3. c \in People
    BY <1>12 DEF People
  <2>4. QED
    BY <1>2, <1>4, <2>1, <2>2, <2>3 DEF Stays
<1>13. QED
  BY <1>7, <1>8, <1>9, <1>10, <1>11, <1>12 DEF WorldStep

\* How the call of a step on the World goes on
LEMMA WorldCalls ==
  ASSUME IInv, NEW c \in Callers, WorldStep(c)
  PROVE  /\ UNCHANGED <<stored, on, place, home, strayed, calls, crashes>>
         /\ \A d \in Callers : d # c => call'[d] = call[d]
         /\ call'[c].pc \in {"context", "idle"} /\ call'[c].op = call[c].op
         /\ call'[c].from = call[c].from /\ call'[c].target = call[c].target
         /\ call'[c].pc = "context" => c \in Sessions
         /\ \A s \in Sessions : s # c => (s \in limbo' <=> s \in limbo)
<1>1. UNCHANGED <<stored, on, place, home, strayed, calls, crashes>>
  BY DEF WorldStep, JoinWorld, CreateWorld, ForkWorld, LeaveWorld, ClientWorld, ConnectWorld, session
<1>2. Done(c) \/ Answer(c, "no room") \/ Answer(c, "refused") \/ Answer(c, "ok")
  BY DEF WorldStep, JoinWorld, CreateWorld, ForkWorld, LeaveWorld, ClientWorld, ConnectWorld
<1>3. /\ \A d \in Callers : d # c => call'[d] = call[d]
      /\ call'[c].pc \in {"context", "idle"} /\ call'[c].op = call[c].op
      /\ call'[c].from = call[c].from /\ call'[c].target = call[c].target
      /\ call'[c].pc = "context" => c \in Sessions
  BY <1>2, CallFields DEF AfterWorld
<1>4. \A s \in Sessions : s # c => (s \in limbo' <=> s \in limbo)
  BY DEF WorldStep, JoinWorld, CreateWorld, ForkWorld, LeaveWorld, ClientWorld, ConnectWorld, session
<1>5. QED
  BY <1>1, <1>3, <1>4

\* The steps of a call before and after the one on the World
InnerStep(c) ==
  \/ Lookup(c) \/ InsertRoom(c) \/ ReadKeys(c) \/ CopyKey(c)
  \/ c \in Sessions /\ (DigForth(c) \/ DigBack(c))

\* They change no list and stay clear of the context.
LEMMA InnerCalls ==
  ASSUME IInv, NEW c \in Callers, InnerStep(c)
  PROVE  /\ UNCHANGED <<world, session, calls, crashes>>
         /\ \A d \in Callers : d # c => call'[d] = call[d]
         /\ call'[c].op = call[c].op
         /\ call'[c].from = call[c].from /\ call'[c].target = call[c].target
         /\ call[c].pc \notin {"idle", "context"} /\ call'[c].pc # "context"
         /\ call'[c].pc \in Working => call[c].pc \in Working
         /\ call'[c].pc = "world" => call[c].op # "connect"
<1>1. call[c] \in Call /\ CallOK(call[c], db)
  BY CallFields
<1>2. CASE Lookup(c)
  <2>1. Goto(c, "insert") \/ Answer(c, "refused")
          \/ (call[c].op \in {"connect", "join"} /\ Goto(c, AfterRow(call[c].op)))
    BY <1>2 DEF Lookup
  <2>2. call[c].pc = "lookup" /\ UNCHANGED <<world, session, calls, crashes>>
    BY <1>2 DEF Lookup, At
  <2>3. AfterRow(call[c].op) \in {"enter", "read", "world"}
        /\ (AfterRow(call[c].op) = "world" => call[c].op # "connect")
    BY DEF AfterRow
  <2>4. QED
    BY <2>1, <2>2, <2>3, CallFields DEF Working
<1>3. CASE InsertRoom(c)
  <2>1. Goto(c, AfterRow(call[c].op)) \/ Answer(c, "refused")
    BY <1>3 DEF InsertRoom
  <2>2. call[c].pc = "insert" /\ UNCHANGED <<world, session, calls, crashes>>
    BY <1>3 DEF InsertRoom, At
  <2>3. AfterRow(call[c].op) \in {"enter", "read", "world"}
        /\ (AfterRow(call[c].op) = "world" => call[c].op # "connect")
    BY DEF AfterRow
  <2>4. QED
    BY <2>1, <2>2, <2>3, CallFields DEF Working
<1>4. CASE ReadKeys(c)
  <2>1. PICK keys, left : Becomes(c, [call[c] EXCEPT !.pc = "copy", !.kv = keys, !.left = left])
    BY <1>4 DEF ReadKeys
  <2>2. call'[c] = [call[c] EXCEPT !.pc = "copy", !.kv = keys, !.left = left]
        /\ \A d \in Callers : d # c => call'[d] = call[d]
    BY <2>1, CallMoves
  <2>3. call[c].pc = "read" /\ UNCHANGED <<world, session, calls, crashes>>
    BY <1>4 DEF ReadKeys, At, stored
  <2>4. call'[c].pc = "copy" /\ call'[c].op = call[c].op
        /\ call'[c].from = call[c].from /\ call'[c].target = call[c].target
    BY <1>1, <2>2 DEF Call
  <2>5. QED
    BY <2>2, <2>3, <2>4 DEF Working
<1>5. CASE CopyKey(c)
  <2>1. call[c].pc = "copy" /\ UNCHANGED <<world, session, calls, crashes>>
    BY <1>5 DEF CopyKey, At
  <2>2. CASE Goto(c, "world")
    <3>1. call[c].op # "connect"
      BY <1>1, <2>1 DEF CallOK
    <3>2. QED
      BY <2>1, <2>2, <3>1, CallFields DEF Working
  <2>3. CASE \E left : Becomes(c, [call[c] EXCEPT !.left = left])
    <3>1. PICK left : Becomes(c, [call[c] EXCEPT !.left = left])
      BY <2>3
    <3>2. call'[c] = [call[c] EXCEPT !.left = left]
          /\ \A d \in Callers : d # c => call'[d] = call[d]
      BY <3>1, CallMoves
    <3>3. call'[c].pc = call[c].pc /\ call'[c].op = call[c].op
          /\ call'[c].from = call[c].from /\ call'[c].target = call[c].target
      BY <1>1, <3>2 DEF Call
    <3>4. QED
      BY <2>1, <3>2, <3>3 DEF Working
  <2>4. QED
    BY <1>5, <2>2, <2>3 DEF CopyKey
<1>6. CASE DigForth(c) \/ DigBack(c)
  BY <1>6, CallFields DEF DigForth, DigBack, At, Working
<1>7. QED
  BY <1>2, <1>3, <1>4, <1>5, <1>6 DEF InnerStep

\* Where the row was inserted the call owns the room, which nobody made yet.
LEMMA InnerOwners ==
  ASSUME IInv, OwnersOK, NEW c \in Callers, InnerStep(c)
  PROVE  OwnersOK'
<1>1. /\ UNCHANGED <<world, session, calls, crashes>>
      /\ \A d \in Callers : d # c => call'[d] = call[d]
      /\ call'[c].op = call[c].op /\ call'[c].target = call[c].target
  BY InnerCalls
<1>2. rooms' = rooms
  BY <1>1 DEF world
<1>3. CASE Owns(c)' => Owns(c)
  BY <1>1, <1>2, <1>3, OwnersKept
<1>4. CASE Owns(c)' /\ ~Owns(c)
  <2>1. call[c].op \in Named /\ call[c].pc \notin {"read", "copy", "world"}
        /\ call'[c].pc \in {"read", "copy", "world"}
    BY <1>1, <1>4 DEF Owns
  <2>2. InsertRoom(c)
    <3>1. CASE Lookup(c)
      BY <2>1, <3>1, CallFields DEF Lookup, Named
    <3>2. CASE ReadKeys(c) \/ CopyKey(c)
      BY <2>1, <3>2 DEF ReadKeys, CopyKey, At
    <3>3. CASE DigForth(c) \/ DigBack(c)
      BY <2>1, <3>3, CallFields DEF DigForth, DigBack
    <3>4. QED
      BY <3>1, <3>2, <3>3 DEF InnerStep
  <2>3. call[c].target \notin db
    BY <2>1, <2>2, CallFields DEF InsertRoom, NameIsFree
  <2>4. \A d \in Callers : Owns(d) => call[d].target \in db
    BY CallFields DEF CallOK, Owns, Named, Makers
  <2>5. \A d \in Callers : d # c => (Owns(d)' <=> Owns(d)) /\ call'[d].target = call[d].target
    BY <1>1 DEF Owns
  <2>6. rooms \subseteq db
    BY DEF IInv, NoGhostRooms
  <2>7. QED
    BY <1>1, <1>2, <2>3, <2>4, <2>5, <2>6 DEF OwnersOK
<1>5. QED
  BY <1>3, <1>4

\* join_room and the return of a command write the context.
LEMMA ContextCalls ==
  ASSUME IInv, NEW c \in Sessions, EnterContext(c) \/ Context(c)
  PROVE  /\ UNCHANGED <<stored, world, on, strayed, limbo, calls, crashes>>
         /\ \A d \in Callers : d # c => call'[d] = call[d]
         /\ call'[c].op = call[c].op
         /\ call'[c].from = call[c].from /\ call'[c].target = call[c].target
         /\ ~Owns(c)'
<1>1. c \in Callers
  BY DEF Callers
<1>2. CASE EnterContext(c)
  <2>1. call[c].op = "connect"
    BY <1>1, <1>2, CallFields DEF CallOK, EnterContext, At
  <2>2. QED
    BY <1>1, <1>2, <2>1, CallFields DEF EnterContext, Owns, Named
<1>3. CASE Context(c)
  BY <1>1, <1>3, CallFields DEF Context, Owns
<1>4. QED
  BY <1>2, <1>3

\* A step of a call is one of these.
LEMMA Steps ==
  ASSUME NEW c \in Callers, Step(c)
  PROVE  InnerStep(c) \/ WorldStep(c) \/ (c \in Sessions /\ (EnterContext(c) \/ Context(c)))
BY DEF Step, InnerStep, WorldStep

\* Every step keeps ownership.
LEMMA OwnersStep == ASSUME IInv, OwnersOK, Next PROVE OwnersOK'
<1>1. CASE Restart
  <2>1. rooms' = db /\ call' = [c \in Callers |-> NoCall] /\ rooms \subseteq db
    BY <1>1 DEF Restart, IInv, NoGhostRooms
  <2>2. \A c \in Callers : ~Owns(c)'
    BY <2>1 DEF Owns, NoCall, NewCall
  <2>3. QED
    BY <2>1, <2>2 DEF OwnersOK
<1>2. ASSUME NEW c \in Callers, Request(c) PROVE OwnersOK'
  <2>1. rooms' = rooms /\ \A d \in Callers : d # c => call'[d] = call[d]
    BY <1>2, Requests DEF world
  <2>2. call' = call \/ ~Owns(c)'
    <3>1. SUFFICES ASSUME call' # call PROVE ~Owns(c)'
      OBVIOUS
    <3>2. PICK op, from, target, pc, way :
            /\ call'[c] = NewCall(pc, op, from, target, way)
            /\ pc \in {"lookup", "insert", "forth"} \/ (pc = "world" /\ op = "leave")
      BY <1>2, <3>1, Requests
    <3>3. call'[c].pc = pc /\ call'[c].op = op
      BY <3>2 DEF NewCall
    <3>4. QED
      BY <3>2, <3>3 DEF Owns, Named
  <2>3. CASE call' = call
    BY <2>1, <2>3 DEF OwnersOK, Owns
  <2>4. CASE ~Owns(c)'
    BY <1>2, <2>1, <2>4, OwnersKept
  <2>5. QED
    BY <2>2, <2>3, <2>4
<1>3. ASSUME NEW c \in Callers, Step(c) PROVE OwnersOK'
  <2>1. CASE InnerStep(c)
    BY <1>3, <2>1, InnerOwners
  <2>2. CASE WorldStep(c)
    <3>1. /\ rooms \subseteq rooms'
          /\ \A r \in rooms' : r \in rooms \/ (Owns(c) /\ r = call[c].target)
      BY <1>3, <2>2, WorldMoves
    <3>2. (\A d \in Callers : d # c => call'[d] = call[d]) /\ ~Owns(c)'
      BY <1>3, <2>2, WorldCalls DEF Owns
    <3>3. QED
      BY <1>3, <3>1, <3>2, OwnersKept
  <2>3. CASE c \in Sessions /\ (EnterContext(c) \/ Context(c))
    <3>1. /\ UNCHANGED <<stored, world, on, strayed, limbo, calls, crashes>>
          /\ \A d \in Callers : d # c => call'[d] = call[d]
          /\ ~Owns(c)'
      BY <2>3, ContextCalls
    <3>2. rooms' = rooms
      BY <3>1 DEF world
    <3>3. QED
      BY <1>3, <3>1, <3>2, OwnersKept
  <2>4. QED
    BY <1>3, <2>1, <2>2, <2>3, Steps
<1>4. QED
  BY <1>1, <1>2, <1>3 DEF Next

\* Whom a step takes out of a room while nothing crashes
LEMMA NobodyDropped ==
  ASSUME IInv, OwnersOK, Next, crashes' = crashes
  PROVE  ~DroppedByOthers
<1>0. users \in [Rooms -> SUBSET Users]
  BY DEF IInv, RestOK
<1>1. ~Restart
  BY DEF Restart, IInv, RestOK
<1>2. CASE users' = users
  BY <1>2 DEF DroppedByOthers
<1>3. CASE users' # users
  <2>1. PICK c \in Callers : Request(c) \/ Step(c)
    BY <1>1 DEF Next
  <2>2. WorldStep(c)
    <3>1. ~Request(c)
      BY <1>3, <2>1, Requests DEF world
    <3>2. ~InnerStep(c) /\ ~(c \in Sessions /\ (EnterContext(c) \/ Context(c)))
      BY <1>3, <2>1, InnerCalls, ContextCalls DEF world
    <3>3. QED
      BY <2>1, <3>1, <3>2, Steps
  <2>3. At(c, "world") /\ Stays(c) /\ call'[c].pc # "world"
    BY <2>1, <2>2, WorldMoves, WorldCalls
  <2>4. ASSUME NEW r \in Rooms, NEW u \in users[r] \ users'[r]
        PROVE  c \in People /\ UserOf[c] = u /\ call'[c] # call[c]
    BY <1>0, <2>3, <2>4 DEF Stays, At
  <2>5. QED
    BY <2>4 DEF DroppedByOthers
<1>4. QED
  BY <1>2, <1>3

-----------------------------------------------------------------------------
(* Where users are listed                                                  *)

\* A session that a step does not concern
LEMMA FollowedSame ==
  ASSUME NEW s \in Sessions, Followed(s), Listed(s)' = Listed(s), place'[s] = place[s],
         s \in limbo' <=> s \in limbo, call'[s] = call[s],
         \A t \in on' : UserOf[t] = UserOf[s] => t = s
  PROVE  Followed(s)'
BY DEF Followed, At

\* A step of one caller, if it leaves the lists of the other users alone.
LEMMA ListsKept ==
  ASSUME IInv, ListsOK, NEW c \in Callers, \A d \in Callers : d # c => call'[d] = call[d],
         on' = on, strayed \subseteq strayed',
         c \in Replies => call'[c].pc = "idle" \/ UserOf[c] \in strayed',
         c \in Sessions => c \in on \/ call'[c].pc = "idle",
         c \in on /\ UserOf[c] \notin strayed' /\ Followed(c) => Followed(c)',
         \A s \in on : s # c /\ UserOf[s] \notin strayed' /\ Followed(s) =>
           Listed(s)' = Listed(s) /\ place'[s] = place[s] /\ (s \in limbo' <=> s \in limbo)
  PROVE  ListsOK'
<1>1. \A d \in Replies : ~At(d, "idle")' => UserOf[d] \in strayed'
  BY DEF ListsOK, At, Callers
<1>2. \A s \in Sessions \ on' : At(s, "idle")'
  BY DEF ListsOK, At, Callers
<1>3. on \subseteq Sessions /\ Sessions \subseteq Callers
  BY DEF IInv, RestOK, Callers
<1>4. ASSUME NEW s \in on', UserOf[s] \notin strayed'
      PROVE  Followed(s)'
  <2>1. s \in on /\ Followed(s) /\ s \in Sessions
    BY <1>3, <1>4 DEF ListsOK
  <2>2. CASE s = c
    BY <1>4, <2>1, <2>2
  <2>3. CASE s # c
    <3>1. /\ Listed(s)' = Listed(s) /\ place'[s] = place[s] /\ (s \in limbo' <=> s \in limbo)
          /\ call'[s] = call[s]
      BY <1>3, <1>4, <2>1, <2>3
    <3>2. \A t \in on' : UserOf[t] = UserOf[s] => t = s
      BY <2>1 DEF Followed
    <3>3. QED
      BY <2>1, <3>1, <3>2, FollowedSame
  <2>4. QED
    BY <2>2, <2>3
<1>5. QED
  BY <1>1, <1>2, <1>4 DEF ListsOK

\* A command starts where its caller is.
LEMMA Commands ==
  ASSUME IInv, NEW c \in People,
         Join(c) \/ Go(c) \/ Create(c) \/ Fork(c) \/ Leave(c) \/ (c \in Sessions /\ Dig(c))
  PROVE  /\ Command(c)
         /\ \E op, target, pc, way :
              /\ call'[c] = NewCall(pc, op, place[c], target, way)
              /\ op \in {"join", "create", "fork", "leave", "dig"}
              /\ pc \in {"lookup", "insert", "world", "forth"}
              /\ op = "leave" => target = None
<1>1. c \in Callers
  BY DEF Callers, People
<1>2. Command(c)
  BY DEF Join, Go, Create, Fork, Leave, Dig
<1>3. ASSUME NEW op \in {"join", "create", "fork", "leave", "dig"}, NEW target,
             NEW pc \in {"lookup", "insert", "world", "forth"}, NEW way,
             op = "leave" => target = None,
             Becomes(c, NewCall(pc, op, place[c], target, way))
      PROVE  \E o, t, p, w :
               /\ call'[c] = NewCall(p, o, place[c], t, w)
               /\ o \in {"join", "create", "fork", "leave", "dig"}
               /\ p \in {"lookup", "insert", "world", "forth"}
               /\ o = "leave" => t = None
  <2>1. call'[c] = NewCall(pc, op, place[c], target, way)
    BY <1>1, <1>3, CallMoves
  <2>2. QED
    BY <1>3, <2>1
<1>4. CASE Join(c)
  BY <1>3, <1>4 DEF Join, Begin
<1>5. CASE Go(c)
  BY <1>3, <1>5 DEF Go, Begin
<1>6. CASE Create(c)
  BY <1>3, <1>6 DEF Create, Begin
<1>7. CASE Fork(c)
  BY <1>3, <1>7 DEF Fork, Begin
<1>8. CASE Leave(c)
  BY <1>3, <1>8 DEF Leave, Begin
<1>9. CASE c \in Sessions /\ Dig(c)
  BY <1>3, <1>9 DEF Dig
<1>10. QED
  BY <1>2, <1>4, <1>5, <1>6, <1>7, <1>8, <1>9

\* Requests keep the lists right.
LEMMA RequestLists ==
  ASSUME IInv, ListsOK, NEW c \in Callers, Request(c)
  PROVE  ListsOK'
<1>1. /\ users' = users /\ rooms' = rooms
      /\ \A d \in Callers : d # c => call'[d] = call[d]
      /\ call'[c] = call[c] \/ call[c].pc = "idle"
  BY Requests DEF world
<1>2. /\ on \subseteq Sessions /\ Sessions \subseteq People /\ People \subseteq Callers
      /\ users \in [Rooms -> SUBSET Users] /\ \A r \in Rooms \ rooms : users[r] = {}
      /\ place \in [People -> RoomOrNone] /\ None \notin Rooms
      /\ call \in [Callers -> Call]
  BY RoomAssumption DEF IInv, RestOK, People, Callers
<1>3. \A s : Listed(s)' = Listed(s)
  BY <1>1 DEF Listed
<1>4. CASE c \in Sessions /\ Connect(c)
  <2>1. /\ c \notin on /\ on' = on \cup {c} /\ limbo' = limbo \cup {c}
        /\ place' = [place EXCEPT ![c] = None]
        /\ strayed' = IF Relogin(c) THEN strayed \cup {UserOf[c]} ELSE strayed
        /\ Begin(c, "connect", None, Lobby, "lookup")
    BY <1>4 DEF Connect
  <2>2. call'[c] = NewCall("lookup", "connect", None, Lobby, "north")
    BY <2>1, CallMoves DEF Begin
  <2>3. call'[c].pc = "lookup" /\ call'[c].op = "connect"
    BY <2>2 DEF NewCall
  <2>4. place'[c] = None /\ \A s \in Sessions : s # c => place'[s] = place[s]
    BY <1>2, <1>4, <2>1
  <2>5. \A d \in Replies : ~At(d, "idle")' => UserOf[d] \in strayed'
    <3>1. c \notin Replies
      BY <1>4, CallerAssumption
    <3>2. QED
      BY <1>1, <2>1, <3>1 DEF ListsOK, At, Callers
  <2>6. \A s \in Sessions \ on' : At(s, "idle")'
    BY <1>1, <1>2, <2>1 DEF ListsOK, At
  <2>7. ASSUME UserOf[c] \notin strayed'
        PROVE  Followed(c)'
    <3>1. ~Relogin(c)
      BY <2>1, <2>7
    <3>2. Listed(c) = {}
      BY <1>2, <3>1 DEF Relogin, Listed
    <3>3. \A t \in on' : UserOf[t] = UserOf[c] => t = c
      BY <2>1, <3>1 DEF Relogin
    <3>4. QED
      BY <1>3, <2>1, <2>3, <3>2, <3>3 DEF Followed, At
  <2>8. ASSUME NEW s \in on, UserOf[s] \notin strayed'
        PROVE  Followed(s)'
    <3>1. s \in Sessions /\ s # c /\ UserOf[s] \notin strayed /\ Followed(s)
      BY <1>2, <2>1, <2>8 DEF ListsOK
    <3>2. UserOf[c] # UserOf[s]
      BY <2>1, <2>8, <3>1 DEF Relogin
    <3>3. \A t \in on' : UserOf[t] = UserOf[s] => t = s
      BY <2>1, <3>1, <3>2 DEF Followed
    <3>4. s \in limbo' <=> s \in limbo
      BY <2>1, <3>1
    <3>5. QED
      BY <1>1, <1>2, <1>3, <2>4, <3>1, <3>3, <3>4, FollowedSame
  <2>9. QED
    BY <2>1, <2>5, <2>6, <2>7, <2>8 DEF ListsOK
<1>5. CASE c \in Sessions /\ Disconnect(c)
  <2>1. /\ on' = on \ {c} /\ call[c].pc = "idle" /\ call' = call
        /\ place' = place /\ limbo' = limbo /\ strayed' = strayed
    BY <1>5 DEF Disconnect, At
  <2>2. ASSUME NEW s \in on', UserOf[s] \notin strayed'
        PROVE  Followed(s)'
    <3>1. s \in Sessions /\ Followed(s)
      BY <1>2, <2>1, <2>2 DEF ListsOK
    <3>2. \A t \in on' : UserOf[t] = UserOf[s] => t = s
      BY <2>1, <3>1 DEF Followed
    <3>3. QED
      BY <1>3, <2>1, <3>1, <3>2, FollowedSame
  <2>3. QED
    BY <2>1, <2>2 DEF ListsOK, At
<1>6. CASE c \in Sessions /\ Mention(c)
  <2>1. /\ on' = on /\ strayed' = strayed /\ call' = call /\ c \in on /\ At(c, "idle")
        /\ limbo' = IF place[c] = None THEN limbo \cup {c} ELSE limbo
    BY <1>6 DEF Mention, IdleCaller
  <2>2. PICK started : /\ started \subseteq Replies
                       /\ place' = [d \in People |->
                            IF d \in started \cup {c} THEN CurrentRoom(c) ELSE place[d]]
    BY <1>6 DEF Mention
  <2>3. \A s \in Sessions : s # c => place'[s] = place[s]
    BY <1>2, <2>2, CallerAssumption
  <2>4. place'[c] = CurrentRoom(c)
    BY <1>2, <1>6, <2>2
  <2>5. Followed(c) => Followed(c)'
    <3>1. SUFFICES ASSUME Followed(c) PROVE Followed(c)'
      OBVIOUS
    <3>2. CASE place[c] # None
      BY <1>3, <1>6, <2>1, <2>4, <3>1, <3>2, FollowedSame DEF CurrentRoom, Followed
    <3>3. CASE place[c] = None
      <4>1. Listed(c) = {}
        BY <1>2, <2>1, <3>1, <3>3 DEF Followed, Listed, At
      <4>2. c \in limbo' /\ ~At(c, "context")' /\ call'[c].pc \notin Working
        BY <2>1, <3>3 DEF At, Working
      <4>3. \A t \in on' : UserOf[t] = UserOf[c] => t = c
        BY <2>1, <3>1 DEF Followed
      <4>4. QED
        BY <1>3, <4>1, <4>2, <4>3 DEF Followed
    <3>4. QED
      BY <3>2, <3>3
  <2>6. c \notin Replies
    BY <1>6, CallerAssumption
  <2>7. \A s \in on : s # c => (s \in limbo' <=> s \in limbo)
    BY <2>1
  <2>8. QED
    BY <1>1, <1>2, <1>3, <2>1, <2>3, <2>5, <2>6, <2>7, ListsKept
<1>7. CASE /\ c \in People
           /\ Join(c) \/ Go(c) \/ Create(c) \/ Fork(c) \/ Leave(c) \/ (c \in Sessions /\ Dig(c))
  <2>1. PICK op, target, pc, way :
          /\ call'[c] = NewCall(pc, op, place[c], target, way)
          /\ op \in {"join", "create", "fork", "leave", "dig"}
          /\ pc \in {"lookup", "insert", "world", "forth"}
          /\ op = "leave" => target = None
    BY <1>7, Commands
  <2>2. /\ call'[c].pc = pc /\ call'[c].op = op /\ call'[c].from = place[c]
        /\ op = "leave" => call'[c].target = None
    BY <2>1 DEF NewCall
  <2>3. Command(c)
    BY <1>7, Commands
  <2>4. /\ At(c, "idle") /\ (c \in Sessions => c \in on)
        /\ strayed' = Stray(c) /\ on' = on /\ place' = place /\ limbo' = limbo
    BY <2>3 DEF Command, IdleCaller
  <2>5. strayed \subseteq strayed' /\ (c \in Replies => UserOf[c] \in strayed')
    BY <2>4 DEF Stray
  <2>6. ASSUME c \in on, Followed(c)
        PROVE  Followed(c)'
    <3>1. ~At(c, "context") /\ ~At(c, "context")' /\ call'[c].op # "connect"
      BY <2>1, <2>2, <2>4 DEF At
    <3>2. QED
      BY <1>3, <2>2, <2>4, <2>6, <3>1 DEF Followed
  <2>7. QED
    BY <1>1, <1>3, <2>4, <2>5, <2>6, ListsKept
<1>8. CASE c \in Clients /\ (ClientCreate(c) \/ ClientFork(c))
  <2>1. UNCHANGED session /\ c \notin Sessions /\ c \notin Replies
    BY <1>8, CallerAssumption DEF ClientCreate, ClientFork, People
  <2>2. QED
    BY <1>1, <1>2, <1>3, <2>1, ListsKept DEF session
<1>9. QED
  BY <1>4, <1>5, <1>6, <1>7, <1>8 DEF Request, People

\* A step on the World moves its own user from the room of the session to the
\* room that the context is given next.
LEMMA WorldOwn ==
  ASSUME IInv, OwnersOK, NEW c \in Sessions, WorldStep(c), Followed(c)
  PROVE  Followed(c)'
<1>1. /\ users \in [Rooms -> SUBSET Users] /\ rooms \subseteq Rooms /\ None \notin Rooms
      /\ \A r \in Rooms \ rooms : users[r] = {}
      /\ c \in People /\ c \in Callers /\ c \notin Clients
  BY RoomAssumption, CallerAssumption DEF IInv, RestOK, People, Callers
<1>2. /\ At(c, "world") /\ on' = on /\ place' = place
      /\ call'[c].pc \in {"context", "idle"} /\ call'[c].target = call[c].target
  BY <1>1, WorldMoves, WorldCalls
<1>3. \A t \in on' : UserOf[t] = UserOf[c] => t = c
  BY <1>2 DEF Followed
<1>4. PICK from, target, u :
        from = call[c].from /\ target = call[c].target /\ u = UserOf[c]
  OBVIOUS
<1>5. PICK gone : gone = Left(users, from, u)
  OBVIOUS
<1>6. /\ gone \in [Rooms -> SUBSET Users]
      /\ call[c].op \in {"join", "create", "fork", "leave"} => \A r \in Rooms : u \notin gone[r]
  <2>1. /\ gone \in [Rooms -> SUBSET Users] /\ \A r \in Rooms : gone[r] \subseteq users[r]
        /\ from \in rooms /\ from \in Rooms => u \notin gone[from]
    BY <1>1, <1>5, Leaving
  <2>2. ASSUME call[c].op \in {"join", "create", "fork", "leave"}, NEW r \in Rooms
        PROVE  u \notin gone[r]
    <3>1. SUFFICES ASSUME u \in gone[r] PROVE FALSE
      OBVIOUS
    <3>2. r \in Listed(c)
      BY <1>4, <2>1, <3>1 DEF Listed
    <3>3. r = from
      BY <1>2, <1>4, <2>2, <3>2 DEF Followed, At, Working
    <3>4. r \in rooms
      BY <1>1, <2>1, <3>1
    <3>5. QED
      BY <1>1, <2>1, <3>1, <3>3, <3>4
  <2>3. QED
    BY <2>1, <2>2
<1>7. ASSUME Done(c), Listed(c)' = {target} \ {None}
      PROVE  Followed(c)'
  <2>1. call'[c].pc = "context"
    BY <1>1, <1>7, CallFields DEF AfterWorld
  <2>2. QED
    BY <1>2, <1>3, <1>4, <1>7, <2>1 DEF Followed, At, Working
<1>8. ASSUME NEW x \in Rooms, users' = [gone EXCEPT ![x] = gone[x] \cup {u}],
             call[c].op \in {"join", "create", "fork", "leave"}
      PROVE  Listed(c)' = {x}
  <2>1. users'[x] = gone[x] \cup {u} /\ \A r \in Rooms : r # x => users'[r] = gone[r]
    BY <1>6, <1>8, Entered
  <2>2. \A r \in Rooms : u \in users'[r] <=> r = x
    BY <1>6, <1>8, <2>1
  <2>3. QED
    BY <1>4, <2>2 DEF Listed
<1>9. ASSUME NEW x \in Rooms, users' = [gone EXCEPT ![x] = {u}],
             call[c].op \in {"join", "create", "fork", "leave"}
      PROVE  Listed(c)' = {x}
  <2>1. users'[x] = {u} /\ \A r \in Rooms : r # x => users'[r] = gone[r]
    BY <1>6, <1>9, Entered
  <2>2. \A r \in Rooms : u \in users'[r] <=> r = x
    BY <1>6, <1>9, <2>1
  <2>3. QED
    BY <1>4, <2>2 DEF Listed
<1>10. ASSUME users' = gone, call[c].op \in {"join", "create", "fork", "leave"}
       PROVE  Listed(c)' = {}
  BY <1>4, <1>6, <1>10 DEF Listed
<1>11. call[c].op \in {"create", "fork"} => target \in Rooms /\ target \notin rooms /\ users[target] = {}
  <2>1. CallOK(call[c], db)
    BY <1>1, CallFields
  <2>2. QED
    BY <1>1, <1>2, <1>4, <2>1 DEF CallOK, Owns, OwnersOK, Named, At, Makers, IInv, RestOK
<1>12. CASE JoinWorld(c)
  <2>1. call[c].op = "join"
    BY <1>12 DEF JoinWorld
  <2>2. CASE target \in rooms
    <3>1. users' = [gone EXCEPT ![target] = gone[target] \cup {u}] /\ Done(c)
      BY <1>4, <1>5, <1>12, <2>2 DEF JoinWorld, CanJoin
    <3>2. QED
      BY <1>1, <1>7, <1>8, <2>1, <2>2, <3>1
  <2>3. CASE target \notin rooms
    <3>1. users' = gone /\ Answer(c, "no room") /\ limbo' = limbo \cup {c}
      BY <1>4, <1>5, <1>12, <2>3 DEF JoinWorld, CanJoin
    <3>2. call'[c].pc = "idle"
      BY <1>1, <3>1, CallFields
    <3>3. QED
      BY <1>3, <1>10, <2>1, <3>1, <3>2 DEF Followed, At, Working
  <2>4. QED
    BY <2>2, <2>3
<1>13. CASE CreateWorld(c)
  <2>1. call[c].op = "create"
    BY <1>13 DEF CreateWorld
  <2>2. users' = [gone EXCEPT ![target] = {u}] /\ Done(c)
    BY <1>4, <1>5, <1>11, <1>13, <2>1 DEF CreateWorld
  <2>3. QED
    BY <1>1, <1>7, <1>9, <1>11, <2>1, <2>2
<1>14. CASE ForkWorld(c)
  <2>1. call[c].op = "fork"
    BY <1>14 DEF ForkWorld
  <2>2. PICK before : before = [users EXCEPT ![target] = {}]
    OBVIOUS
  <2>3. before = users
    BY <1>1, <1>11, <2>1, <2>2
  <2>4. users' = [gone EXCEPT ![target] = {u}] /\ Done(c)
    BY <1>4, <1>5, <1>14, <2>2, <2>3 DEF ForkWorld
  <2>5. QED
    BY <1>1, <1>7, <1>9, <1>11, <2>1, <2>4
<1>15. CASE LeaveWorld(c)
  <2>1. call[c].op = "leave" /\ users' = gone /\ Done(c) /\ limbo' = limbo
    BY <1>4, <1>5, <1>15 DEF LeaveWorld, session
  <2>2. call'[c].pc = "context" /\ Listed(c)' = {}
    BY <1>1, <1>10, <2>1, CallFields DEF AfterWorld
  <2>3. target = None
    BY <1>2, <1>4, <2>1 DEF Followed, At, Working
  <2>4. QED
    BY <1>7, <2>1, <2>2, <2>3
<1>16. CASE ConnectWorld(c)
  <2>1. /\ call[c].op = "connect" /\ Answer(c, "ok") /\ limbo' = limbo \ {c} /\ Lobby \in Rooms
        /\ users' = [users EXCEPT ![Lobby] = users[Lobby] \cup {u}]
    BY <1>1, <1>4, <1>16 DEF ConnectWorld, OwnersOK
  <2>2. Listed(c) = {} /\ place[c] = Lobby
    BY <1>2, <2>1 DEF Followed, At, Working
  <2>3. users'[Lobby] = users[Lobby] \cup {u} /\ \A r \in Rooms : r # Lobby => users'[r] = users[r]
    BY <1>1, <2>1, Entered
  <2>4. \A r \in Rooms : u \notin users[r]
    BY <1>4, <2>2 DEF Listed
  <2>5. \A r \in Rooms : u \in users'[r] <=> r = Lobby
    BY <2>3, <2>4
  <2>6. Listed(c)' = {Lobby}
    BY <1>4, <2>1, <2>5 DEF Listed
  <2>7. call'[c].pc = "idle"
    BY <1>1, <2>1, CallFields
  <2>8. QED
    BY <1>1, <1>2, <1>3, <2>1, <2>2, <2>6, <2>7 DEF Followed, At, Working
<1>17. QED
  BY <1>1, <1>12, <1>13, <1>14, <1>15, <1>16 DEF WorldStep

\* Steps keep the lists right.
LEMMA StepLists ==
  ASSUME IInv, OwnersOK, ListsOK, NEW c \in Callers, Step(c)
  PROVE  ListsOK'
<1>1. /\ on \subseteq Sessions /\ Sessions \subseteq People /\ People \subseteq Callers
      /\ place \in [People -> RoomOrNone] /\ UserOf \in [People -> Users]
      /\ home \in [Sessions -> {None, Lobby}]
  BY UserAssumption DEF IInv, RestOK, People, Callers
<1>2. /\ call[c].pc # "idle" => (c \in Sessions => c \in on)
      /\ call[c].pc # "idle" => (c \in Replies => UserOf[c] \in strayed)
  BY DEF ListsOK, At
<1>3. CASE InnerStep(c)
  <2>1. /\ users' = users /\ on' = on /\ place' = place /\ strayed' = strayed /\ limbo' = limbo
        /\ \A d \in Callers : d # c => call'[d] = call[d]
        /\ call'[c].op = call[c].op
        /\ call'[c].from = call[c].from /\ call'[c].target = call[c].target
        /\ call[c].pc \notin {"idle", "context"} /\ call'[c].pc # "context"
        /\ call'[c].pc \in Working => call[c].pc \in Working
        /\ call'[c].pc = "world" => call[c].op # "connect"
    BY <1>3, InnerCalls DEF world, session
  <2>2. \A s : Listed(s)' = Listed(s)
    BY <2>1 DEF Listed
  <2>3. Followed(c) => Followed(c)'
    BY <2>1, <2>2 DEF Followed, At
  <2>4. QED
    BY <1>2, <2>1, <2>2, <2>3, ListsKept
<1>4. CASE WorldStep(c)
  <2>1. /\ At(c, "world") /\ Stays(c)
        /\ on' = on /\ place' = place /\ strayed' = strayed
        /\ \A d \in Callers : d # c => call'[d] = call[d]
        /\ \A s \in Sessions : s # c => (s \in limbo' <=> s \in limbo)
    BY <1>4, WorldMoves, WorldCalls
  <2>2. ASSUME NEW s \in on, s # c, UserOf[s] \notin strayed', Followed(s)
        PROVE  Listed(s)' = Listed(s)
    <3>1. s \in Sessions /\ UserOf[s] \in Users
      BY <1>1, <2>2
    <3>2. c \in People => UserOf[s] # UserOf[c]
      <4>1. CASE c \in Sessions
        BY <1>2, <2>1, <2>2, <4>1 DEF Followed, At
      <4>2. CASE c \in Replies
        BY <1>2, <2>1, <2>2, <4>2 DEF At
      <4>3. QED
        BY <4>1, <4>2 DEF People
    <3>3. QED
      BY <2>1, <3>1, <3>2 DEF Stays, Listed
  <2>3. c \in on /\ Followed(c) => Followed(c)'
    BY <1>1, <1>4, WorldOwn
  <2>4. c \in Sessions => c \in on
    BY <1>2, <2>1 DEF At
  <2>5. c \in Replies => UserOf[c] \in strayed'
    BY <1>2, <2>1 DEF At
  <2>6. \A s \in on : s # c /\ UserOf[s] \notin strayed' /\ Followed(s) =>
          Listed(s)' = Listed(s) /\ place'[s] = place[s] /\ (s \in limbo' <=> s \in limbo)
    BY <1>1, <2>1, <2>2
  <2>7. QED
    BY <2>1, <2>3, <2>4, <2>5, <2>6, ListsKept
<1>5. CASE c \in Sessions /\ (EnterContext(c) \/ Context(c))
  <2>1. /\ users' = users /\ on' = on /\ strayed' = strayed /\ limbo' = limbo
        /\ \A d \in Callers : d # c => call'[d] = call[d]
        /\ call'[c].op = call[c].op
        /\ call'[c].from = call[c].from /\ call'[c].target = call[c].target
    BY <1>5, ContextCalls DEF world
  <2>2. \A s : Listed(s)' = Listed(s)
    BY <2>1 DEF Listed
  <2>3. \A s \in on : s # c => place'[s] = place[s]
    BY <1>1, <1>5 DEF EnterContext, Context
  <2>4. ASSUME EnterContext(c), Followed(c)
        PROVE  Followed(c)'
    <3>1. place'[c] = Lobby /\ call[c].pc = "enter" /\ call'[c].pc = "world" /\ call[c].op = "connect"
      BY <1>1, <1>5, <2>4, CallFields DEF EnterContext, At, CallOK
    <3>2. Listed(c) = {} /\ c \in limbo
      BY <2>4, <3>1 DEF Followed, Working
    <3>3. QED
      BY <2>1, <2>2, <2>4, <3>1, <3>2 DEF Followed, At
  <2>5. ASSUME Context(c), Followed(c)
        PROVE  Followed(c)'
    <3>1. place'[c] = call[c].target /\ call[c].pc = "context" /\ call'[c].pc = "idle"
      BY <1>1, <1>5, <2>5, CallFields DEF Context, At
    <3>2. Listed(c) = {call[c].target} \ {None}
      BY <2>5, <3>1 DEF Followed, At
    <3>3. QED
      BY <2>1, <2>2, <2>5, <3>1, <3>2 DEF Followed, At, Working
  <2>6. call[c].pc # "idle"
    BY <1>5 DEF EnterContext, Context, At
  <2>7. QED
    BY <1>2, <1>5, <2>1, <2>2, <2>3, <2>4, <2>5, <2>6, ListsKept
<1>6. QED
  BY <1>3, <1>4, <1>5, Steps

\* The lists are right from the start.
LEMMA ListsInit == Init => LInv
<1> SUFFICES ASSUME Init PROVE LInv
  OBVIOUS
<1>1. \A c \in Callers : call[c].pc = "idle"
  BY DEF Init, NoCall, NewCall
<1>2. OwnersOK
  BY <1>1 DEF Init, OwnersOK, Owns
<1>3. ListsOK
  BY <1>1 DEF Init, ListsOK, At, Callers
<1>4. QED
  BY <1>2, <1>3, InitOK DEF LInv

\* Every step keeps them right.
LEMMA ListsInductive == LInv /\ [Next]_vars => LInv'
<1> SUFFICES ASSUME LInv, [Next]_vars PROVE LInv'
  OBVIOUS
<1>1. IInv /\ OwnersOK /\ ListsOK /\ IInv'
  BY Inductive DEF LInv
<1>2. CASE UNCHANGED vars
  <2>1. OwnersOK'
    BY <1>1, <1>2 DEF OwnersOK, Owns, vars
  <2>2. ListsOK'
    BY <1>1, <1>2 DEF ListsOK, Followed, Listed, At, vars
  <2>3. QED
    BY <1>1, <2>1, <2>2 DEF LInv
<1>3. CASE Next
  <2>1. OwnersOK'
    BY <1>1, <1>3, OwnersStep
  <2>2. CASE Restart
    <3>1. on' = {} /\ \A c \in Callers : call'[c].pc = "idle"
      BY <2>2 DEF Restart, NoCall, NewCall
    <3>2. ListsOK'
      BY <3>1 DEF ListsOK, At, Callers
    <3>3. QED
      BY <1>1, <2>1, <3>2 DEF LInv
  <2>3. ASSUME NEW c \in Callers, Request(c) \/ Step(c) PROVE ListsOK'
    BY <1>1, <2>3, RequestLists, StepLists
  <2>4. QED
    BY <1>1, <1>3, <2>1, <2>2, <2>3 DEF Next, LInv
<1>4. QED
  BY <1>2, <1>3

-----------------------------------------------------------------------------
(* Theorems                                                                *)

\* Every reachable state has its type: only rooms of the World have users, and
\* what the calls carry names rooms (ops.rs, ssh/handler.rs, lua/tools.rs).
THEOREM TypeCorrect == SafeSpec => []TypeOK
<1>1. IInv => TypeOK
  BY DEF IInv, RestOK, TypeOK
<1>2. QED
  BY <1>1, InitOK, Inductive, PTL DEF SafeSpec

\* "DB write first": whatever the callers and wherever a crash comes, a room of
\* the World has its row (ops.rs create_room and fork_room, ssh join_room,
\* db_create_room and db_fork_room).
THEOREM RoomsAreStored == SafeSpec => []NoGhostRooms
<1>1. IInv => NoGhostRooms
  BY DEF IInv
<1>2. QED
  BY <1>1, InitOK, Inductive, PTL DEF SafeSpec

\* Nobody but the user's own session, and the models it asked, takes a user out
\* of a room: World::create_room replaces only rooms that are not there, since
\* the row was inserted by one caller alone (world.rs, ops.rs, lua/tools.rs).
THEOREM NobodyIsDropped == SafeSpec => NotDroppedByOthers
<1>1. LInv /\ [Next]_vars => [crashes' # crashes \/ ~DroppedByOthers]_vars
  BY NobodyDropped DEF LInv
<1>2. QED
  BY <1>1, ListsInit, ListsInductive, PTL DEF SafeSpec, NotDroppedByOthers

\* The World lists a user between calls in the room of the user's session and in
\* no other, however the calls of all callers interleave (ops.rs join, leave,
\* create_room and fork_room; ssh join_room; lua/tools.rs).
THEOREM ListedWhereTheyAre == SafeSpec => []ListedWhereSessionIs
<1>1. LInv => ListedWhereSessionIs
  <2>1. SUFFICES ASSUME LInv, NEW s \in on, At(s, "idle"), UserOf[s] \notin strayed
                 PROVE  /\ {r \in rooms : UserOf[s] \in users[r]} \subseteq {place[s]}
                        /\ s \notin limbo => {r \in rooms : UserOf[s] \in users[r]} = {place[s]} \ {None}
    BY DEF ListedWhereSessionIs
  <2>2. {r \in rooms : UserOf[s] \in users[r]} = Listed(s)
    BY <2>1 DEF LInv, IInv, RestOK, Listed
  <2>3. Followed(s) /\ ~At(s, "context")
    BY <2>1 DEF LInv, ListsOK, At
  <2>4. QED
    BY <2>2, <2>3 DEF Followed
<1>2. QED
  BY <1>1, ListsInit, ListsInductive, PTL DEF SafeSpec
=============================================================================

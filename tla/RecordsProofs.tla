---------------------------- MODULE RecordsProofs ----------------------------
(***************************************************************************)
(* What people share in the database, for any callers, names, keys, paths  *)
(* and rooms and any number of commands: keys open the names they were     *)
(* added for, rows are where readers look for them, an edit of a prompt    *)
(* hides what was there when it began, a way there and back leads there    *)
(* and back, and every table has its type.                                 *)
(*                                                                         *)
(* A call of the database is one step, a command several: the invariants   *)
(* say what a command between two calls may rely on of what it read, with  *)
(* others at work.  A position that was read is at most the next one now;  *)
(* a name that was free is still free, or the command knows of a race; a   *)
(* version that was read is there, or was deleted; a stamp that was drawn  *)
(* is used by nobody else.                                                 *)
(***************************************************************************)
EXTENDS Records, FiniteSetTheorems, WellFoundedInduction, TLAPS

\* Agents and their keys
Agent == [name : Names, live : BOOLEAN, kind : {"human", "model"}]
Opens(o) == \E a \in Holders(o[2]) : agents[a].name = o[1]
Owing(a) == auth[a] # None => <<agents[a].name, auth[a]>> \in owed

AgentsOK ==
  /\ agents \in Seq(Agent) /\ auth \in Seq(Keys \cup {None}) /\ Len(auth) = Len(agents)
  /\ \A a \in DOMAIN auth : auth[a] # None => a \in Alive
  /\ \A a, b \in Alive : agents[a].name = agents[b].name => a = b
  /\ owed \subseteq Humans \X Keys /\ \A o \in owed : Opens(o)
  /\ \A a \in Alive : Owing(a)

\* Rows, in the order they were inserted
Written == [buffer : Nat, pos : Nat, author : Nat \cup {None}, method : Methods,
            parent : Nat \cup {None}, after : Nat]
RowOK(i) ==
  /\ rows[i].buffer \in DOMAIN chats /\ rows[i].author \in Alive \cup {None}
  /\ rows[i].method = "thinking.stream" => rows[i].author \in Alive
  /\ rows[i].parent \in (1..(i - 1)) \cup {None} /\ rows[i].after \in 0..(i - 1)
  /\ rows[i].parent # None => rows[rows[i].parent].buffer = rows[i].buffer
  /\ rows[i].pos < i /\ rows[i].pos <= NextPosition(rows, rows[i].buffer)

\* A row that comes after another
Sorted(i, pos, parent) ==
  rows[i].pos <= pos /\ (rows[i].parent = None /\ parent = None => rows[i].pos < pos)
RowsOK ==
  /\ chats \in Seq([at : Nat, after : Nat]) /\ rows \in Seq(Written)
  /\ \A i \in DOMAIN rows : RowOK(i)
  /\ \A j \in DOMAIN rows : \A i \in 1..rows[j].after :
       rows[i].buffer = rows[j].buffer => Sorted(i, rows[j].pos, rows[j].parent)

MarksOK ==
  /\ marks \in [tags : SUBSET (Nat \X Tags), reactions : SUBSET (Nat \X Nat), links : SUBSET (Nat \X Nat)]
  /\ marks.tags \subseteq (DOMAIN rows) \X Tags
  /\ marks.reactions \subseteq (DOMAIN rows) \X Alive
  /\ marks.links \subseteq (DOMAIN rows) \X (DOMAIN rows)

\* Commands under way
Command == [pc : {"idle", "chat", "stamp", "make", "agent", "born", "auth", "delete", "check", "last", "row"},
            op : {"none", "say", "append", "call", "result", "key", "remove"},
            answer : {"none", "failed"}, name : Names \cup {None}, key : Keys \cup {None},
            buffer : Nat \cup {None}, agent : Nat \cup {None}, row : Nat \cup {None},
            at : Nat, seen : Nat, heard : Nat, race : BOOLEAN]

SameAgent(cl) == cl.agent \in DOMAIN agents /\ agents[cl.agent].name = cl.name
Excused(cl) == cl.agent \in Alive \/ cl.race

CallOK(cl) ==
  /\ cl.heard <= Len(rows)
  /\ cl.pc \in {"chat", "stamp", "make"} => cl.op = "say" /\ cl.name \in Names
  /\ cl.pc \in {"agent", "born"} => cl.name \in Names /\ cl.op \in {"say", "key", "remove"}
  /\ cl.pc \in {"agent", "born", "auth"} /\ cl.op = "key" => cl.key \in Keys /\ cl.name \in Humans
  /\ cl.pc = "born" => cl.op # "remove" /\ (cl.race \/ Called(cl.name) = {})
  /\ cl.pc = "auth" => cl.op = "key" /\ SameAgent(cl) /\ Excused(cl)
  /\ cl.pc = "delete" => cl.op = "remove" /\ SameAgent(cl)
  /\ cl.pc \in {"agent", "born"} /\ cl.op = "say" => cl.buffer \in DOMAIN chats
  /\ cl.pc = "check" => cl.op = "append"
  /\ cl.pc \in {"check", "last", "row"} =>
       /\ cl.buffer \in DOMAIN chats /\ cl.agent \in DOMAIN agents
       /\ cl.op \in {"say", "append", "call", "result"}
       /\ cl.op = "say" => SameAgent(cl) /\ Excused(cl)
       /\ cl.op \in {"call", "result"} =>
            /\ cl.row \in DOMAIN rows /\ rows[cl.row].author = cl.agent /\ cl.agent \in Alive
            /\ rows[cl.row].buffer = cl.buffer
  /\ cl.pc = "row" =>
       /\ cl.at <= NextPosition(rows, cl.buffer)
       /\ \A i \in 1..cl.heard : rows[i].buffer = cl.buffer => Sorted(i, cl.at, None)
  /\ cl.pc # "idle" => cl.answer = "none"
  /\ cl.answer = "failed" /\ cl.op \in {"say", "key", "call", "result"} =>
       cl.race /\ cl.op \in {"say", "key"}

CallsOK == call \in [Callers -> Command] /\ \A c \in Callers : CallOK(call[c])

TalkInv == AgentsOK /\ RowsOK /\ MarksOK /\ CallsOK /\ clock \in Nat /\ talks \in 0..MaxTalk

-----------------------------------------------------------------------------
(* The last row of a buffer                                                *)

\* A set of numbers that is not empty has a least element.
LEMMA LeastExists ==
  ASSUME NEW S \in SUBSET Nat, S # {}
  PROVE  \E x \in S : \A y \in S : x <= y
<1> DEFINE Below == {p \in Nat \X Nat : p[1] < p[2]}
<1>1. IsWellFoundedOn(Below, Nat)
  BY NatLessThanWellFounded DEF OpToRel
<1> HIDE DEF Below
<1>2. PICK x \in S : \A y \in S : ~(<<y, x>> \in Below)
  BY <1>1, WFMin
<1>3. ASSUME NEW y \in S PROVE x <= y
  <2>1. ~(<<y, x>> \in Below)
    BY <1>2
  <2>2. QED
    BY <2>1 DEF Below
<1>4. QED
  BY <1>3

\* A bounded set of numbers that is not empty has a greatest element.
LEMMA GreatestExists ==
  ASSUME NEW S \in SUBSET Nat, S # {}, NEW b \in Nat, \A x \in S : x <= b
  PROVE  \E x \in S : \A y \in S : y <= x
<1> DEFINE D == {d \in Nat : \E x \in S : d = b - x}
<1>1. PICK d \in D : \A e \in D : d <= e
  <2>1. D \in SUBSET Nat /\ D # {}
    <3>1. PICK x \in S : TRUE
      OBVIOUS
    <3>2. b - x \in D
      OBVIOUS
    <3>3. QED
      BY <3>2
  <2>2. QED
    BY <2>1, LeastExists
<1>2. PICK x \in S : d = b - x
  OBVIOUS
<1>3. ASSUME NEW y \in S PROVE y <= x
  <2>1. b - y \in D
    OBVIOUS
  <2>2. d <= b - y
    BY <1>1, <2>1
  <2>3. QED
    BY <1>2, <2>2
<1>4. QED
  BY <1>3

\* append_row puts a row at 0 if no row of the buffer is without a parent,
\* otherwise after the last of these.
LEMMA NextIsAfterLast ==
  ASSUME NEW rs \in Seq(Written), NEW b, \A i \in DOMAIN rs : rs[i].pos < i
  PROVE  /\ NextPosition(rs, b) \in Nat
         /\ \A i \in ListRows(rs, b) : rs[i].pos < NextPosition(rs, b)
         /\ NextPosition(rs, b) = 0 \/ \E i \in ListRows(rs, b) : NextPosition(rs, b) = rs[i].pos + 1
<1>1. \A i \in ListRows(rs, b) : i \in DOMAIN rs /\ i \in Nat /\ i <= Len(rs) /\ rs[i].pos \in Nat
  <2>1. ASSUME NEW i \in ListRows(rs, b) PROVE i \in DOMAIN rs /\ i \in Nat /\ i <= Len(rs)
    BY DEF ListRows, InBuffer
  <2>2. ASSUME NEW i \in DOMAIN rs PROVE rs[i].pos \in Nat
    <3>1. rs[i] \in Written
      OBVIOUS
    <3>2. QED
      BY <3>1 DEF Written
  <2>3. QED
    BY <2>1, <2>2
<1>2. CASE ListRows(rs, b) = {}
  BY <1>2 DEF LastRow, NextPosition
<1>3. CASE ListRows(rs, b) # {}
  <2>1. PICK P : P = {rs[i].pos : i \in ListRows(rs, b)}
    OBVIOUS
  <2>2. P \in SUBSET Nat /\ P # {} /\ Len(rs) \in Nat
    BY <1>1, <1>3, <2>1
  <2>3. \A x \in P : x <= Len(rs)
    BY <1>1, <2>1, <2>2
  <2>4. PICK x \in P : \A y \in P : y <= x
    BY <2>2, <2>3, GreatestExists
  <2>5. LastRow(rs, b) # {}
    BY <2>1, <2>4 DEF LastRow
  <2>6. PICK i : i = CHOOSE j \in LastRow(rs, b) : TRUE
    OBVIOUS
  <2>7. i \in LastRow(rs, b)
    BY <2>5, <2>6
  <2>8. i \in ListRows(rs, b) /\ \A j \in ListRows(rs, b) : rs[j].pos <= rs[i].pos
    BY <2>7 DEF LastRow
  <2>9. NextPosition(rs, b) = rs[i].pos + 1
    BY <2>5, <2>6 DEF NextPosition
  <2>10. QED
    BY <1>1, <2>8, <2>9
<1>4. QED
  BY <1>2, <1>3

\* The next position only grows.
LEMMA NextGrows ==
  ASSUME NEW rs \in Seq(Written), NEW row \in Written, NEW b,
         \A i \in DOMAIN rs : rs[i].pos < i, row.pos <= Len(rs)
  PROVE  /\ Append(rs, row) \in Seq(Written) /\ Len(Append(rs, row)) = Len(rs) + 1
         /\ \A i \in 1..Len(rs) : Append(rs, row)[i] = rs[i]
         /\ Append(rs, row)[Len(rs) + 1] = row
         /\ \A i \in DOMAIN Append(rs, row) : Append(rs, row)[i].pos < i
         /\ NextPosition(rs, b) <= NextPosition(Append(rs, row), b)
         /\ NextPosition(rs, b) <= Len(rs)
<1>1. Append(rs, row) \in Seq(Written)
  OBVIOUS
<1>2. PICK q \in Seq(Written) : q = Append(rs, row)
  BY <1>1
<1>3. Len(q) = Len(rs) + 1 /\ (\A i \in 1..Len(rs) : q[i] = rs[i]) /\ q[Len(rs) + 1] = row
      /\ Len(rs) \in Nat /\ DOMAIN q = 1..(Len(rs) + 1) /\ DOMAIN rs = 1..Len(rs)
  BY <1>2
<1>4. \A i \in DOMAIN q : q[i].pos < i
  <2>1. row.pos \in Nat
    BY DEF Written
  <2>2. \A i \in DOMAIN q : i \in DOMAIN rs \/ i = Len(rs) + 1
    BY <1>3
  <2>3. QED
    BY <1>3, <2>1, <2>2
<1>5. ListRows(rs, b) \subseteq ListRows(q, b)
  BY <1>3 DEF ListRows, InBuffer
<1>6. /\ NextPosition(rs, b) \in Nat
      /\ NextPosition(rs, b) = 0 \/ \E i \in ListRows(rs, b) : NextPosition(rs, b) = rs[i].pos + 1
  BY NextIsAfterLast
<1>7. NextPosition(q, b) \in Nat /\ \A i \in ListRows(q, b) : q[i].pos < NextPosition(q, b)
  BY <1>4, NextIsAfterLast
<1>8. NextPosition(rs, b) <= NextPosition(q, b) /\ NextPosition(rs, b) <= Len(rs)
  <2>1. CASE NextPosition(rs, b) = 0
    BY <1>3, <1>7, <2>1
  <2>2. CASE \E i \in ListRows(rs, b) : NextPosition(rs, b) = rs[i].pos + 1
    <3>1. PICK i \in ListRows(rs, b) : NextPosition(rs, b) = rs[i].pos + 1
      BY <2>2
    <3>2. i \in DOMAIN rs /\ q[i] = rs[i] /\ rs[i].pos \in Nat /\ rs[i].pos < i
      <4>1. i \in DOMAIN rs
        BY <3>1 DEF ListRows, InBuffer
      <4>2. rs[i] \in Written
        BY <4>1
      <4>3. QED
        BY <1>3, <4>1, <4>2 DEF Written
    <3>3. q[i].pos < NextPosition(q, b)
      BY <1>5, <1>7, <3>1
    <3>4. QED
      BY <1>3, <1>7, <3>1, <3>2, <3>3
  <2>3. QED
    BY <1>6, <2>1, <2>2
<1>9. QED
  BY <1>1, <1>2, <1>3, <1>4, <1>8

-----------------------------------------------------------------------------
(* Commands                                                                *)

\* What a command relies on is in three tables.
LEMMA CallKept ==
  ASSUME NEW r, CallOK(r), rows' = rows, agents' = agents, chats' = chats
  PROVE  CallOK(r)'
BY DEF CallOK, SameAgent, Excused, Called, Alive, Sorted

\* A step that changes but the command of its caller.
LEMMA OwnCall ==
  ASSUME CallsOK, UNCHANGED <<rows, agents, chats>>, NEW c \in Callers, NEW r \in Command,
         call' = [call EXCEPT ![c] = r], CallOK(r)
  PROVE  CallsOK'
<1>1. call' \in [Callers -> Command]
  BY DEF CallsOK
<1>2. ASSUME NEW d \in Callers PROVE CallOK(call[d])'
  <2>1. PICK x : x = call'[d]
    OBVIOUS
  <2>2. x = r \/ x = call[d]
    BY <2>1 DEF CallsOK
  <2>3. CallOK(x)
    BY <2>2 DEF CallsOK
  <2>4. CallOK(x)'
    BY <2>3, CallKept
  <2>5. QED
    BY <2>1, <2>4
<1>3. QED
  BY <1>1, <1>2 DEF CallsOK

TablesSame == UNCHANGED <<agents, auth, chats, rows, marks, owed>>

\* Such a step, of the invariant.
LEMMA OnlyCall ==
  ASSUME TalkInv, TablesSame, NEW c \in Callers, NEW r \in Command,
         call' = [call EXCEPT ![c] = r], CallOK(r), clock' \in Nat, talks' \in 0..MaxTalk
  PROVE  TalkInv'
<1>1. AgentsOK /\ RowsOK /\ MarksOK /\ CallsOK
  BY DEF TalkInv
<1>2. agents' = agents /\ auth' = auth /\ chats' = chats /\ rows' = rows /\ marks' = marks /\ owed' = owed
  BY DEF TablesSame
<1>3. AgentsOK'
  BY <1>1, <1>2 DEF AgentsOK, Alive, Holders, Opens, Owing
<1>4. RowsOK'
  BY <1>1, <1>2 DEF RowsOK, RowOK, Alive, Sorted
<1>5. MarksOK'
  BY <1>1, <1>2 DEF MarksOK, Alive
<1>6. CallsOK'
  BY <1>1, <1>2, OwnCall
<1>7. QED
  BY <1>3, <1>4, <1>5, <1>6 DEF TalkInv

\* What is known of a command that is idle
LEMMA IdleOK ==
  ASSUME RowsOK
  PROVE  NoTalk \in Command /\ CallOK(NoTalk) /\ NoTalk.pc = "idle"
<1>1. NoTalk \in Command
  BY DEF NoTalk, Command
<1>2. Len(rows) \in Nat
  BY DEF RowsOK
<1>3. CallOK(NoTalk)
  BY <1>2 DEF CallOK, NoTalk
<1>4. QED
  BY <1>1, <1>3 DEF NoTalk

\* An answer is kept if the command failed.
LEMMA AnsweredOK ==
  ASSUME RowsOK, NEW cl \in Command, NEW a,
         a = "failed" /\ cl.op \in {"say", "key", "call", "result"} => cl.race /\ cl.op \in {"say", "key"}
  PROVE  Answered(cl, a) \in Command /\ CallOK(Answered(cl, a))
<1>1. CASE a # "failed"
  BY <1>1, IdleOK DEF Answered
<1>2. CASE a = "failed"
  <2>1. PICK r : r = [NoTalk EXCEPT !.op = cl.op, !.race = cl.race, !.answer = a]
    OBVIOUS
  <2>2. cl.op \in {"none", "say", "append", "call", "result", "key", "remove"} /\ cl.race \in BOOLEAN
    BY DEF Command
  <2>3. r \in Command
    BY <1>2, <2>1, <2>2 DEF NoTalk, Command
  <2>4. r.pc = "idle" /\ r.op = cl.op /\ r.race = cl.race /\ r.heard = 0
    BY <2>1 DEF NoTalk
  <2>5. Len(rows) \in Nat
    BY DEF RowsOK
  <2>6. CallOK(r)
    BY <1>2, <2>4, <2>5 DEF CallOK
  <2>7. QED
    BY <1>2, <2>1, <2>3, <2>6 DEF Answered
<1>3. QED
  BY <1>1, <1>2

\* What commands count for keeps its bound.
LEMMA SpendsInBounds ==
  ASSUME talks \in 0..MaxTalk, NEW c, NEW op, Spends(c, op)
  PROVE  talks' \in 0..MaxTalk
<1>1. Cost(op) \in Nat
  BY DEF Cost
<1>2. QED
  BY <1>1, TalkAssumption DEF Spends

\* A command that begins
LEMMA StartKeeps ==
  ASSUME TalkInv, NEW c \in Callers, NEW r \in Command, CallOK(r), r.pc # "row", Starts(c, r)
  PROVE  TalkInv'
<1>1. RowsOK /\ CallsOK /\ clock \in Nat /\ talks \in 0..MaxTalk
  BY DEF TalkInv
<1>2. Len(rows) \in Nat /\ Len(chats) \in Nat
  BY <1>1 DEF RowsOK
<1>3. PICK n \in Nat : n = IF r.op = "say" THEN Len(chats) ELSE 0
  BY <1>2
<1>4. PICK h \in Nat : h = IF r.op \in {"none", "key", "remove"} THEN 0 ELSE Len(rows)
  BY <1>2
<1>5. PICK x : x = [r EXCEPT !.seen = n, !.heard = h]
  OBVIOUS
<1>6. x \in Command
  BY <1>5 DEF Command
<1>7. x.pc = r.pc /\ x.op = r.op /\ x.answer = r.answer /\ x.name = r.name /\ x.key = r.key
      /\ x.buffer = r.buffer /\ x.agent = r.agent /\ x.row = r.row /\ x.race = r.race /\ x.heard = h
  BY <1>5 DEF Command
<1>8. h <= Len(rows)
  BY <1>2, <1>4
<1>9. CallOK(x)
  BY <1>7, <1>8 DEF CallOK, SameAgent, Excused
<1>10. call' = [call EXCEPT ![c] = x] /\ Spends(c, r.op) /\ clock' = clock /\ TablesSame
  BY <1>3, <1>4, <1>5 DEF Starts, Becomes, TablesSame
<1>11. talks' \in 0..MaxTalk
  BY <1>1, <1>10, SpendsInBounds
<1>12. QED
  BY <1>1, <1>6, <1>9, <1>10, <1>11, OnlyCall

\* Commands that begin by looking for an agent or a buffer by name
LEMMA ByNameKeeps ==
  ASSUME TalkInv, NEW c \in Callers, NEW name \in Names, NEW key \in Keys \cup {None},
         NEW r, Starts(c, r),
         \/ r = [NoTalk EXCEPT !.pc = "chat", !.op = "say", !.name = name]
         \/ /\ key \in Keys /\ name \in Humans
            /\ r = [NoTalk EXCEPT !.pc = "agent", !.op = "key", !.name = name, !.key = key]
         \/ r = [NoTalk EXCEPT !.pc = "agent", !.op = "remove", !.name = name]
  PROVE  TalkInv'
<1>1. Len(rows) \in Nat
  BY DEF TalkInv, RowsOK
<1>2. r \in Command
  <2>1. CASE r = [NoTalk EXCEPT !.pc = "chat", !.op = "say", !.name = name]
    BY <2>1 DEF NoTalk, Command
  <2>2. CASE r = [NoTalk EXCEPT !.pc = "agent", !.op = "key", !.name = name, !.key = key]
    BY <2>2 DEF NoTalk, Command
  <2>3. CASE r = [NoTalk EXCEPT !.pc = "agent", !.op = "remove", !.name = name]
    BY <2>3 DEF NoTalk, Command
  <2>4. QED
    BY <2>1, <2>2, <2>3
<1>3. r.heard = 0 /\ r.answer = "none" /\ r.name = name /\ r.pc \in {"chat", "agent"}
      /\ (r.pc = "chat" => r.op = "say")
      /\ (r.pc = "agent" => r.op \in {"key", "remove"} /\ (r.op = "key" => r.key \in Keys /\ r.name \in Humans))
  <2>1. CASE r = [NoTalk EXCEPT !.pc = "chat", !.op = "say", !.name = name]
    BY <2>1 DEF NoTalk
  <2>2. CASE key \in Keys /\ name \in Humans /\ r = [NoTalk EXCEPT !.pc = "agent", !.op = "key", !.name = name, !.key = key]
    BY <2>2 DEF NoTalk
  <2>3. CASE r = [NoTalk EXCEPT !.pc = "agent", !.op = "remove", !.name = name]
    BY <2>3 DEF NoTalk
  <2>4. QED
    BY <2>1, <2>2, <2>3
<1>4. CallOK(r)
  BY <1>1, <1>3 DEF CallOK
<1>5. QED
  BY <1>2, <1>3, <1>4, StartKeeps

\* say, a login, sshwarma-admin add and remove
LEMMA NamedKeeps ==
  ASSUME TalkInv,
         \/ \E c \in Clients : Say(c) \/ Login(c)
         \/ AdminAdd \/ AdminRemove
  PROVE  TalkInv'
<1>1. CASE \E c \in Clients : Say(c)
  <2>1. PICK c \in Clients, name \in Names :
          Starts(c, [NoTalk EXCEPT !.pc = "chat", !.op = "say", !.name = name])
    BY <1>1 DEF Say
  <2>2. QED
    BY <2>1, ByNameKeeps DEF Callers
<1>2. CASE \E c \in Clients : Login(c)
  <2>1. PICK c \in Clients, name \in Humans, key \in Keys : \E found \in FindByAuth(key) :
          Starts(c, IF found # None THEN NoTalk
                    ELSE [NoTalk EXCEPT !.pc = "agent", !.op = "key", !.name = name, !.key = key])
    BY <1>2 DEF Login
  <2>2. PICK found \in FindByAuth(key) :
          Starts(c, IF found # None THEN NoTalk
                    ELSE [NoTalk EXCEPT !.pc = "agent", !.op = "key", !.name = name, !.key = key])
    BY <2>1
  <2>3. c \in Callers /\ name \in Names
    BY DEF Callers, Names
  <2>4. CASE found # None
    <3>1. Starts(c, NoTalk) /\ RowsOK
      BY <2>2, <2>4 DEF TalkInv
    <3>2. QED
      BY <2>3, <3>1, IdleOK, StartKeeps
  <2>5. CASE found = None
    <3>1. Starts(c, [NoTalk EXCEPT !.pc = "agent", !.op = "key", !.name = name, !.key = key])
      BY <2>2, <2>5
    <3>2. QED
      BY <2>3, <3>1, ByNameKeeps
  <2>6. QED
    BY <2>4, <2>5
<1>3. CASE AdminAdd
  <2>1. PICK name \in Humans, key \in Keys :
          Starts(Admin, [NoTalk EXCEPT !.pc = "agent", !.op = "key", !.name = name, !.key = key])
    BY <1>3 DEF AdminAdd
  <2>2. Admin \in Callers /\ name \in Names
    BY DEF Callers, Names
  <2>3. QED
    BY <2>1, <2>2, ByNameKeeps
<1>4. CASE AdminRemove
  <2>1. PICK name \in Humans :
          Starts(Admin, [NoTalk EXCEPT !.pc = "agent", !.op = "remove", !.name = name])
    BY <1>4 DEF AdminRemove
  <2>2. Admin \in Callers /\ name \in Names
    BY DEF Callers, Names
  <2>3. QED
    BY <2>1, <2>2, ByNameKeeps
<1>5. QED
  BY <1>1, <1>2, <1>3, <1>4

\* Commands that begin with ids the caller was told
LEMMA ByIdKeeps ==
  ASSUME TalkInv, \E c \in Clients : AppendRow(c) \/ Tool(c)
  PROVE  TalkInv'
<1>1. AgentsOK /\ RowsOK
  BY DEF TalkInv
<1>2. Len(rows) \in Nat /\ \A a \in DOMAIN agents : a \in Nat /\ agents[a].name \in Names
  <2>1. \A a \in DOMAIN agents : a \in Nat /\ agents[a] \in Agent
    BY <1>1 DEF AgentsOK
  <2>2. QED
    BY <1>1, <2>1 DEF RowsOK, Agent
<1>3. CASE \E c \in Clients : AppendRow(c)
  <2>1. PICK c \in Clients, b \in DOMAIN chats, a \in DOMAIN agents :
          Starts(c, [NoTalk EXCEPT !.pc = "check", !.op = "append", !.buffer = b, !.agent = a,
                                   !.name = agents[a].name])
    BY <1>3 DEF AppendRow
  <2>2. PICK r : r = [NoTalk EXCEPT !.pc = "check", !.op = "append", !.buffer = b, !.agent = a,
                                    !.name = agents[a].name]
    OBVIOUS
  <2>3. c \in Callers /\ b \in Nat
    BY <1>1 DEF Callers, RowsOK
  <2>4. r \in Command
    BY <1>2, <2>2, <2>3 DEF NoTalk, Command
  <2>5. r.pc = "check" /\ r.op = "append" /\ r.buffer = b /\ r.agent = a /\ r.heard = 0 /\ r.answer = "none"
    BY <2>2 DEF NoTalk
  <2>6. CallOK(r)
    BY <1>2, <2>5 DEF CallOK
  <2>7. QED
    BY <2>1, <2>2, <2>3, <2>4, <2>5, <2>6, StartKeeps
<1>4. CASE \E c \in Clients : Tool(c)
  <2>1. PICK c \in Clients, i \in DOMAIN rows, op \in {"call", "result"} :
          /\ rows[i].method = "thinking.stream"
          /\ Starts(c, [NoTalk EXCEPT !.pc = "last", !.op = op, !.buffer = rows[i].buffer,
                           !.agent = rows[i].author, !.row = i, !.name = agents[rows[i].author].name])
    BY <1>4 DEF Tool
  <2>2. PICK b, a : b = rows[i].buffer /\ a = rows[i].author
    OBVIOUS
  <2>3. RowOK(i)
    BY <1>1 DEF RowsOK
  <2>4. b \in DOMAIN chats /\ b \in Nat /\ a \in Alive /\ a \in DOMAIN agents /\ i \in Nat
    <3>1. b \in DOMAIN chats /\ a \in Alive
      BY <2>1, <2>2, <2>3 DEF RowOK
    <3>2. DOMAIN chats \subseteq Nat /\ DOMAIN rows \subseteq Nat
      BY <1>1 DEF RowsOK
    <3>3. QED
      BY <3>1, <3>2 DEF Alive
  <2>5. PICK r : r = [NoTalk EXCEPT !.pc = "last", !.op = op, !.buffer = b, !.agent = a, !.row = i,
                                    !.name = agents[a].name]
    OBVIOUS
  <2>6. r \in Command
    BY <1>2, <2>4, <2>5 DEF NoTalk, Command
  <2>7. r.pc = "last" /\ r.op = op /\ r.buffer = b /\ r.agent = a /\ r.row = i /\ r.heard = 0 /\ r.answer = "none"
    BY <2>5 DEF NoTalk
  <2>8. CallOK(r)
    BY <1>2, <2>2, <2>4, <2>7 DEF CallOK
  <2>9. c \in Callers /\ Starts(c, r)
    BY <2>1, <2>2, <2>5 DEF Callers
  <2>10. QED
    BY <2>6, <2>7, <2>8, <2>9, StartKeeps
<1>5. QED
  BY <1>3, <1>4

-----------------------------------------------------------------------------
(* Calls that read                                                         *)

\* The chat buffer that is found is one of the room, and commands that go on
\* know what they read.
LEMMA FindChatKeeps ==
  ASSUME TalkInv, NEW c \in Callers, FindChat(c)
  PROVE  TalkInv'
<1>1. AgentsOK /\ RowsOK /\ CallsOK /\ clock \in Nat /\ talks \in 0..MaxTalk
  BY DEF TalkInv
<1>2. PICK cl \in Command : cl = call[c]
  BY <1>1 DEF CallsOK
<1>3. CallOK(cl) /\ cl.pc = "chat"
  BY <1>1, <1>2 DEF CallsOK, FindChat, At
<1>4. TablesSame /\ clock' = clock /\ talks' = talks
  BY DEF FindChat, TablesSame
<1>5. CASE ChatsFound = {}
  <2>1. PICK r : r = [cl EXCEPT !.pc = "stamp"]
    OBVIOUS
  <2>2. r \in Command
    BY <2>1 DEF Command
  <2>3. r.pc = "stamp" /\ r.op = cl.op /\ r.name = cl.name /\ r.heard = cl.heard /\ r.answer = cl.answer
    BY <2>1 DEF Command
  <2>4. CallOK(r)
    BY <1>3, <2>3 DEF CallOK
  <2>5. call' = [call EXCEPT ![c] = r]
    BY <1>2, <1>5, <2>1 DEF FindChat, Becomes
  <2>6. QED
    BY <1>1, <1>4, <2>2, <2>4, <2>5, OnlyCall
<1>6. CASE ChatsFound # {}
  <2>1. CurrentChat \in DOMAIN chats
    <3>1. PICK A : A = {chats[b].at : b \in DOMAIN chats}
      OBVIOUS
    <3>2. \A b \in DOMAIN chats : chats[b].at \in Nat
      <4>1. PICK T : T = [at : Nat, after : Nat]
        OBVIOUS
      <4>2. chats \in Seq(T)
        BY <1>1, <4>1 DEF RowsOK
      <4>3. \A b \in DOMAIN chats : chats[b] \in T
        BY <4>2
      <4>4. QED
        BY <4>1, <4>3
    <3>3. A \in SUBSET Nat /\ A # {}
      BY <1>6, <3>1, <3>2 DEF ChatsFound
    <3>4. PICK n \in A : \A m \in A : n <= m
      BY <3>3, LeastExists
    <3>5. \E b \in DOMAIN chats : \A d \in DOMAIN chats : chats[b].at <= chats[d].at
      BY <3>1, <3>4
    <3>6. QED
      BY <3>5 DEF CurrentChat
  <2>2. PICK b : b = CurrentChat
    OBVIOUS
  <2>3. b \in DOMAIN chats /\ b \in Nat
    BY <1>1, <2>1, <2>2 DEF RowsOK
  <2>4. PICK r : r = [cl EXCEPT !.pc = "agent", !.buffer = b]
    OBVIOUS
  <2>5. r \in Command
    BY <2>3, <2>4 DEF Command
  <2>6. r.pc = "agent" /\ r.op = cl.op /\ r.name = cl.name /\ r.heard = cl.heard /\ r.answer = cl.answer
        /\ r.buffer = b
    BY <2>4 DEF Command
  <2>7. CallOK(r)
    BY <1>3, <2>3, <2>6 DEF CallOK
  <2>8. call' = [call EXCEPT ![c] = r]
    BY <1>2, <1>6, <2>2, <2>4 DEF FindChat, Becomes
  <2>9. QED
    BY <1>1, <1>4, <2>5, <2>7, <2>8, OnlyCall
<1>7. QED
  BY <1>5, <1>6

\* The stamp of a new buffer is drawn.
LEMMA StampChatKeeps ==
  ASSUME TalkInv, NEW c \in Callers, StampChat(c)
  PROVE  TalkInv'
<1>1. CallsOK /\ clock \in Nat /\ talks \in 0..MaxTalk
  BY DEF TalkInv
<1>2. PICK cl \in Command : cl = call[c]
  BY <1>1 DEF CallsOK
<1>3. CallOK(cl) /\ cl.pc = "stamp"
  BY <1>1, <1>2 DEF CallsOK, StampChat, At
<1>4. TablesSame /\ clock' = clock + 1 /\ talks' = talks
  BY DEF StampChat, TablesSame
<1>5. PICK n \in Nat : n = clock + 1
  BY <1>1
<1>6. PICK r : r = [cl EXCEPT !.pc = "make", !.at = n]
  OBVIOUS
<1>7. r \in Command
  BY <1>6 DEF Command
<1>8. r.pc = "make" /\ r.op = cl.op /\ r.name = cl.name /\ r.heard = cl.heard /\ r.answer = cl.answer
  BY <1>6 DEF Command
<1>9. CallOK(r)
  BY <1>3, <1>8 DEF CallOK
<1>10. call' = [call EXCEPT ![c] = r]
  BY <1>2, <1>6, <1>5 DEF StampChat, Becomes
<1>11. QED
  BY <1>1, <1>4, <1>7, <1>9, <1>10, <1>5, OnlyCall

\* An agent that is found has the name; a name that is not found is free.
LEMMA FindAgentKeeps ==
  ASSUME TalkInv, NEW c \in Callers, FindAgent(c)
  PROVE  TalkInv'
<1>1. AgentsOK /\ RowsOK /\ CallsOK /\ clock \in Nat /\ talks \in 0..MaxTalk
  BY DEF TalkInv
<1>2. PICK cl \in Command : cl = call[c]
  BY <1>1 DEF CallsOK
<1>3. CallOK(cl) /\ cl.pc = "agent"
  BY <1>1, <1>2 DEF CallsOK, FindAgent, At
<1>4. TablesSame /\ clock' = clock /\ talks' = talks
  BY DEF FindAgent, TablesSame
<1>5. cl.op \in {"say", "key", "remove"}
  BY <1>3 DEF CallOK
<1>6. CASE \E a \in Called(cl.name) : Becomes(c, [cl EXCEPT !.pc = AfterAgent(cl.op), !.agent = a])
  <2>1. PICK a \in Called(cl.name) : Becomes(c, [cl EXCEPT !.pc = AfterAgent(cl.op), !.agent = a])
    BY <1>6
  <2>2. a \in Alive /\ a \in DOMAIN agents /\ agents[a].name = cl.name /\ a \in Nat
    BY <1>1, <2>1 DEF Called, Alive, AgentsOK
  <2>3. PICK r : r = [cl EXCEPT !.pc = AfterAgent(cl.op), !.agent = a]
    OBVIOUS
  <2>4. AfterAgent(cl.op) = IF cl.op = "say" THEN "last" ELSE IF cl.op = "key" THEN "auth" ELSE "delete"
    BY <1>5 DEF AfterAgent
  <2>5. r \in Command
    BY <2>2, <2>3, <2>4 DEF Command
  <2>6. r.pc = AfterAgent(cl.op) /\ r.op = cl.op /\ r.name = cl.name /\ r.heard = cl.heard /\ r.answer = cl.answer
        /\ r.buffer = cl.buffer /\ r.agent = a /\ r.key = cl.key
    BY <2>3 DEF Command
  <2>7. CallOK(r)
    BY <1>3, <1>5, <2>2, <2>4, <2>6 DEF CallOK, SameAgent, Excused
  <2>8. call' = [call EXCEPT ![c] = r]
    BY <2>1, <2>3 DEF Becomes
  <2>9. QED
    BY <1>1, <1>4, <2>5, <2>7, <2>8, OnlyCall
<1>7. CASE Called(cl.name) = {} /\ cl.op # "remove" /\ Goto(c, "born")
  <2>1. PICK r : r = [cl EXCEPT !.pc = "born"]
    OBVIOUS
  <2>2. r \in Command
    BY <2>1 DEF Command
  <2>3. r.pc = "born" /\ r.op = cl.op /\ r.name = cl.name /\ r.heard = cl.heard /\ r.answer = cl.answer
        /\ r.buffer = cl.buffer /\ r.key = cl.key
    BY <2>1 DEF Command
  <2>4. CallOK(r)
    BY <1>3, <1>5, <1>7, <2>3 DEF CallOK
  <2>5. call' = [call EXCEPT ![c] = r]
    BY <1>2, <1>7, <2>1 DEF Goto, Becomes
  <2>6. QED
    BY <1>1, <1>4, <2>2, <2>4, <2>5, OnlyCall
<1>8. CASE Answer(c, "not found")
  <2>1. Answered(cl, "not found") \in Command /\ CallOK(Answered(cl, "not found"))
    BY <1>1, AnsweredOK
  <2>2. PICK r : r = Answered(cl, "not found")
    OBVIOUS
  <2>3. call' = [call EXCEPT ![c] = r]
    BY <1>2, <1>8, <2>2 DEF Answer, Becomes
  <2>4. QED
    BY <1>1, <1>4, <2>1, <2>2, <2>3, OnlyCall
<1>9. QED
  BY <1>2, <1>6, <1>7, <1>8 DEF FindAgent

\* db_append_row goes on if the agent is there.
LEMMA CheckAgentKeeps ==
  ASSUME TalkInv, NEW c \in Callers, CheckAgent(c)
  PROVE  TalkInv'
<1>1. AgentsOK /\ RowsOK /\ CallsOK /\ clock \in Nat /\ talks \in 0..MaxTalk
  BY DEF TalkInv
<1>2. PICK cl \in Command : cl = call[c]
  BY <1>1 DEF CallsOK
<1>3. CallOK(cl) /\ cl.pc = "check"
  BY <1>1, <1>2 DEF CallsOK, CheckAgent, At
<1>4. TablesSame /\ clock' = clock /\ talks' = talks
  BY DEF CheckAgent, TablesSame
<1>5. cl.op = "append"
  BY <1>3 DEF CallOK
<1>6. CASE Goto(c, "last")
  <2>1. PICK r : r = [cl EXCEPT !.pc = "last"]
    OBVIOUS
  <2>2. r \in Command
    BY <2>1 DEF Command
  <2>3. r.pc = "last" /\ r.op = cl.op /\ r.heard = cl.heard /\ r.answer = cl.answer
        /\ r.buffer = cl.buffer /\ r.agent = cl.agent
    BY <2>1 DEF Command
  <2>4. CallOK(r)
    BY <1>3, <1>5, <2>3 DEF CallOK
  <2>5. call' = [call EXCEPT ![c] = r]
    BY <1>2, <1>6, <2>1 DEF Goto, Becomes
  <2>6. QED
    BY <1>1, <1>4, <2>2, <2>4, <2>5, OnlyCall
<1>7. CASE Answer(c, "failed")
  <2>1. Answered(cl, "failed") \in Command /\ CallOK(Answered(cl, "failed"))
    BY <1>1, <1>5, AnsweredOK
  <2>2. PICK r : r = Answered(cl, "failed")
    OBVIOUS
  <2>3. call' = [call EXCEPT ![c] = r]
    BY <1>2, <1>7, <2>2 DEF Answer, Becomes
  <2>4. QED
    BY <1>1, <1>4, <2>1, <2>2, <2>3, OnlyCall
<1>8. QED
  BY <1>6, <1>7 DEF CheckAgent

\* append_row reads a position that no row the command knows of is above, and
\* no row without a parent is at.
LEMMA FindLastKeeps ==
  ASSUME TalkInv, NEW c \in Callers, FindLast(c)
  PROVE  TalkInv'
<1>1. AgentsOK /\ RowsOK /\ CallsOK /\ clock \in Nat /\ talks \in 0..MaxTalk
  BY DEF TalkInv
<1>2. PICK cl \in Command : cl = call[c]
  BY <1>1 DEF CallsOK
<1>3. CallOK(cl) /\ cl.pc = "last"
  BY <1>1, <1>2 DEF CallsOK, FindLast, At
<1>4. TablesSame /\ clock' = clock /\ talks' = talks
  BY DEF FindLast, TablesSame
<1>5. rows \in Seq(Written) /\ (\A i \in DOMAIN rows : RowOK(i)) /\ DOMAIN rows = 1..Len(rows) /\ Len(rows) \in Nat
  BY <1>1 DEF RowsOK
<1>6. \A i \in DOMAIN rows : rows[i].pos < i /\ rows[i].pos <= NextPosition(rows, rows[i].buffer)
  BY <1>5 DEF RowOK
<1>7. PICK n : n = NextPosition(rows, cl.buffer)
  OBVIOUS
<1>8. n \in Nat /\ \A i \in ListRows(rows, cl.buffer) : rows[i].pos < n
  BY <1>5, <1>6, <1>7, NextIsAfterLast
<1>9. cl.heard \in Nat /\ cl.heard <= Len(rows)
  BY <1>3 DEF Command, CallOK
<1>10. \A i \in 1..cl.heard : rows[i].buffer = cl.buffer => Sorted(i, n, None)
  <2>1. SUFFICES ASSUME NEW i \in 1..cl.heard, rows[i].buffer = cl.buffer PROVE Sorted(i, n, None)
    OBVIOUS
  <2>2. i \in DOMAIN rows
    BY <1>5, <1>9, <2>1
  <2>3. rows[i].pos <= n
    BY <1>6, <1>7, <2>1, <2>2
  <2>4. rows[i].parent = None => rows[i].pos < n
    BY <1>8, <2>1, <2>2 DEF ListRows, InBuffer
  <2>5. QED
    BY <2>3, <2>4 DEF Sorted
<1>11. PICK r : r = [cl EXCEPT !.pc = "row", !.at = n]
  OBVIOUS
<1>12. r \in Command
  BY <1>8, <1>11 DEF Command
<1>13. r.pc = "row" /\ r.op = cl.op /\ r.heard = cl.heard /\ r.answer = cl.answer /\ r.name = cl.name
       /\ r.buffer = cl.buffer /\ r.agent = cl.agent /\ r.race = cl.race /\ r.row = cl.row /\ r.at = n
  BY <1>11 DEF Command
<1>14. CallOK(r)
  <2>1. r.at <= NextPosition(rows, r.buffer)
    BY <1>7, <1>8, <1>13
  <2>2. \A i \in 1..r.heard : rows[i].buffer = r.buffer => Sorted(i, r.at, None)
    BY <1>10, <1>13
  <2>3. QED
    BY <1>3, <1>13, <2>1, <2>2 DEF CallOK, SameAgent, Excused
<1>15. call' = [call EXCEPT ![c] = r]
  BY <1>2, <1>7, <1>11 DEF FindLast, Becomes
<1>16. QED
  BY <1>1, <1>4, <1>12, <1>14, <1>15, OnlyCall

-----------------------------------------------------------------------------
(* Calls that write                                                        *)

\* Rows depend on agents and buffers, marks on rows and agents.
LEMMA RowsKept ==
  ASSUME RowsOK, rows' = rows, chats' = chats, Alive' = Alive
  PROVE  RowsOK'
BY DEF RowsOK, RowOK, Sorted

\* What is marked is a row, and who marked is an agent.
LEMMA MarksKept ==
  ASSUME MarksOK, rows' = rows, marks' = marks, Alive' = Alive
  PROVE  MarksOK'
BY DEF MarksOK

\* A key that is removed is owed to nobody.
LEMMA AdminRemoveKeyKeeps ==
  ASSUME TalkInv, AdminRemoveKey
  PROVE  TalkInv'
<1>1. AgentsOK /\ RowsOK /\ MarksOK /\ CallsOK /\ clock \in Nat /\ talks \in 0..MaxTalk
  BY DEF TalkInv
<1>2. PICK key \in Keys : /\ Spends(Admin, "none")
                          /\ auth' = [a \in DOMAIN auth |-> IF auth[a] = key THEN None ELSE auth[a]]
                          /\ owed' = {o \in owed : o[2] # key}
                          /\ Becomes(Admin, NoTalk)
                          /\ UNCHANGED <<agents, chats, rows, marks, clock>>
  BY DEF AdminRemoveKey
<1>3. Alive' = Alive /\ agents' = agents
  BY <1>2 DEF Alive
<1>4. AgentsOK'
  <2>1. auth \in Seq(Keys \cup {None}) /\ DOMAIN auth = 1..Len(auth) /\ Len(auth) = Len(agents) /\ Len(auth) \in Nat
    BY <1>1 DEF AgentsOK
  <2>2. auth' \in [1..Len(auth) -> Keys \cup {None}]
    BY <1>2, <2>1
  <2>3. auth' \in Seq(Keys \cup {None}) /\ Len(auth') = Len(auth) /\ DOMAIN auth' = DOMAIN auth
    BY <1>2, <2>1, <2>2
  <2>4. \A a \in DOMAIN auth' : auth'[a] # None => a \in Alive
    BY <1>1, <1>2, <2>3 DEF AgentsOK
  <2>5. ASSUME NEW o \in owed' PROVE Opens(o)'
    <3>1. o \in owed /\ o[2] # key
      BY <1>2
    <3>2. PICK a \in Alive : auth[a] = o[2] /\ agents[a].name = o[1]
      BY <1>1, <3>1 DEF AgentsOK, Opens, Holders
    <3>3. a \in DOMAIN auth
      BY <1>1, <2>1 DEF AgentsOK, Alive
    <3>4. auth'[a] = o[2]
      BY <1>2, <3>1, <3>2, <3>3
    <3>5. QED
      BY <1>3, <3>2, <3>4 DEF Opens, Holders
  <2>6. ASSUME NEW a \in Alive' PROVE Owing(a)'
    <3>1. a \in Alive /\ a \in DOMAIN auth
      BY <1>1, <1>3, <2>1 DEF AgentsOK, Alive
    <3>2. auth'[a] # None => auth'[a] = auth[a] /\ auth[a] # key
      BY <1>2, <3>1
    <3>3. QED
      BY <1>1, <1>2, <3>1, <3>2 DEF AgentsOK, Owing
  <2>7. QED
    BY <1>1, <1>2, <1>3, <2>3, <2>4, <2>5, <2>6 DEF AgentsOK
<1>5. RowsOK' /\ MarksOK'
  BY <1>1, <1>2, <1>3, RowsKept, MarksKept
<1>6. CallsOK'
  BY <1>1, <1>2, IdleOK, OwnCall DEF Becomes, Callers
<1>7. talks' \in 0..MaxTalk /\ clock' \in Nat
  BY <1>1, <1>2, SpendsInBounds
<1>8. QED
  BY <1>4, <1>5, <1>6, <1>7 DEF TalkInv

\* Tags, reactions and links are of rows and agents that are there.
LEMMA MarkKeeps ==
  ASSUME TalkInv, NEW c \in Clients, AddTag(c) \/ RemoveTag(c) \/ AddReaction(c) \/ AddLink(c)
  PROVE  TalkInv'
<1>1. AgentsOK /\ RowsOK /\ MarksOK /\ CallsOK /\ clock \in Nat /\ talks \in 0..MaxTalk
  BY DEF TalkInv
<1>2. \A r \in DOMAIN rows : r \in Nat
  BY <1>1 DEF RowsOK
<1>3. \A a \in Alive : a \in Nat
  BY <1>1 DEF Alive, AgentsOK
<1>4. marks = [tags |-> marks.tags, reactions |-> marks.reactions, links |-> marks.links]
  BY <1>1 DEF MarksOK
<1>5. PICK m : Mark(c, m) /\ m = [tags |-> m.tags, reactions |-> m.reactions, links |-> m.links]
                /\ m.tags \subseteq (DOMAIN rows) \X Tags
                /\ m.reactions \subseteq (DOMAIN rows) \X Alive
                /\ m.links \subseteq (DOMAIN rows) \X (DOMAIN rows)
  <2>1. /\ marks.tags \subseteq (DOMAIN rows) \X Tags
        /\ marks.reactions \subseteq (DOMAIN rows) \X Alive
        /\ marks.links \subseteq (DOMAIN rows) \X (DOMAIN rows)
    BY <1>1 DEF MarksOK
  <2>2. CASE AddTag(c)
    <3>1. PICK r \in DOMAIN rows, t \in Tags : Mark(c, [marks EXCEPT !.tags = @ \cup {<<r, t>>}])
      BY <2>2 DEF AddTag
    <3>2. PICK s : s = marks.tags \cup {<<r, t>>}
      OBVIOUS
    <3>3. [marks EXCEPT !.tags = @ \cup {<<r, t>>}] = [tags |-> s, reactions |-> marks.reactions, links |-> marks.links]
      BY <1>4, <3>2
    <3>4. s \subseteq (DOMAIN rows) \X Tags
      BY <2>1, <3>2
    <3>5. QED
      BY <2>1, <3>1, <3>3, <3>4
  <2>3. CASE RemoveTag(c)
    <3>1. PICK t \in marks.tags : Mark(c, [marks EXCEPT !.tags = @ \ {t}])
      BY <2>3 DEF RemoveTag
    <3>2. PICK s : s = marks.tags \ {t}
      OBVIOUS
    <3>3. [marks EXCEPT !.tags = @ \ {t}] = [tags |-> s, reactions |-> marks.reactions, links |-> marks.links]
      BY <1>4, <3>2
    <3>4. s \subseteq (DOMAIN rows) \X Tags
      BY <2>1, <3>2
    <3>5. QED
      BY <2>1, <3>1, <3>3, <3>4
  <2>4. CASE AddReaction(c)
    <3>1. PICK r \in DOMAIN rows, a \in Alive : Mark(c, [marks EXCEPT !.reactions = @ \cup {<<r, a>>}])
      BY <2>4 DEF AddReaction
    <3>2. PICK s : s = marks.reactions \cup {<<r, a>>}
      OBVIOUS
    <3>3. [marks EXCEPT !.reactions = @ \cup {<<r, a>>}] = [tags |-> marks.tags, reactions |-> s, links |-> marks.links]
      BY <1>4, <3>2
    <3>4. s \subseteq (DOMAIN rows) \X Alive
      BY <2>1, <3>2
    <3>5. QED
      BY <2>1, <3>1, <3>3, <3>4
  <2>5. CASE AddLink(c)
    <3>1. PICK r \in DOMAIN rows, a \in DOMAIN rows : Mark(c, [marks EXCEPT !.links = @ \cup {<<r, a>>}])
      BY <2>5 DEF AddLink
    <3>2. PICK s : s = marks.links \cup {<<r, a>>}
      OBVIOUS
    <3>3. [marks EXCEPT !.links = @ \cup {<<r, a>>}] = [tags |-> marks.tags, reactions |-> marks.reactions, links |-> s]
      BY <1>4, <3>2
    <3>4. s \subseteq (DOMAIN rows) \X (DOMAIN rows)
      BY <2>1, <3>2
    <3>5. QED
      BY <2>1, <3>1, <3>3, <3>4
  <2>6. QED
    BY <2>2, <2>3, <2>4, <2>5
<1>6. /\ Spends(c, "none") /\ marks' = m /\ call' = [call EXCEPT ![c] = NoTalk]
      /\ agents' = agents /\ auth' = auth /\ chats' = chats /\ rows' = rows /\ clock' = clock /\ owed' = owed
  BY <1>5 DEF Mark, Becomes
<1>7. Alive' = Alive
  BY <1>6 DEF Alive
<1>8. AgentsOK'
  BY <1>1, <1>6, <1>7 DEF AgentsOK, Holders, Opens, Owing
<1>9. RowsOK'
  BY <1>1, <1>6, <1>7, RowsKept
<1>10. MarksOK'
  <2>1. m.tags \in SUBSET (Nat \X Tags) /\ m.reactions \in SUBSET (Nat \X Nat) /\ m.links \in SUBSET (Nat \X Nat)
    BY <1>2, <1>3, <1>5
  <2>2. m \in [tags : SUBSET (Nat \X Tags), reactions : SUBSET (Nat \X Nat), links : SUBSET (Nat \X Nat)]
    BY <1>5, <2>1
  <2>3. QED
    BY <1>5, <1>6, <1>7, <2>2 DEF MarksOK
<1>11. CallsOK'
  BY <1>1, <1>6, IdleOK, OwnCall DEF Callers
<1>12. talks' \in 0..MaxTalk
  BY <1>1, <1>6, SpendsInBounds
<1>13. QED
  BY <1>1, <1>6, <1>8, <1>9, <1>10, <1>11, <1>12 DEF TalkInv

\* A key opens the name it was added for, the other keys their own.
LEMMA UpsertAuthKeeps ==
  ASSUME TalkInv, NEW c \in Callers, UpsertAuth(c)
  PROVE  TalkInv'
<1>1. AgentsOK /\ RowsOK /\ MarksOK /\ CallsOK /\ clock \in Nat /\ talks \in 0..MaxTalk
  BY DEF TalkInv
<1>2. PICK cl \in Command : cl = call[c]
  BY <1>1 DEF CallsOK
<1>3. CallOK(cl) /\ cl.pc = "auth"
  BY <1>1, <1>2 DEF CallsOK, UpsertAuth, At
<1>4. cl.op = "key" /\ cl.key \in Keys /\ cl.name \in Humans /\ SameAgent(cl) /\ Excused(cl)
  BY <1>3 DEF CallOK
<1>5. UNCHANGED <<agents, chats, rows, marks, clock, talks>>
  BY DEF UpsertAuth
<1>6. CASE cl.agent \in Alive
  <2>1. /\ auth' = [auth EXCEPT ![cl.agent] = cl.key]
        /\ owed' = {o \in owed : o[1] # cl.name} \cup {<<cl.name, cl.key>>}
        /\ Answer(c, "ok")
    BY <1>2, <1>6 DEF UpsertAuth, WithKey
  <2>2. auth \in Seq(Keys \cup {None}) /\ DOMAIN auth = DOMAIN agents /\ Len(auth) = Len(agents)
    BY <1>1 DEF AgentsOK
  <2>3. cl.agent \in DOMAIN auth
    BY <1>4, <2>2 DEF SameAgent
  <2>4. auth' \in Seq(Keys \cup {None}) /\ Len(auth') = Len(auth) /\ DOMAIN auth' = DOMAIN auth
        /\ auth'[cl.agent] = cl.key /\ \A a \in DOMAIN auth : a # cl.agent => auth'[a] = auth[a]
    BY <1>4, <2>1, <2>2, <2>3
  <2>5. Alive' = Alive /\ agents' = agents
    BY <1>5 DEF Alive
  <2>6. ASSUME NEW o \in owed' PROVE Opens(o)'
    <3>1. CASE o = <<cl.name, cl.key>>
      <4>1. cl.agent \in Holders(cl.key)'
        BY <1>6, <2>4, <2>5 DEF Holders
      <4>2. QED
        BY <1>4, <2>5, <3>1, <4>1 DEF Opens, SameAgent, Holders
    <3>2. CASE o \in owed /\ o[1] # cl.name
      <4>1. PICK a \in Alive : auth[a] = o[2] /\ agents[a].name = o[1]
        BY <1>1, <3>2 DEF AgentsOK, Opens, Holders
      <4>2. a # cl.agent /\ a \in DOMAIN auth
        BY <1>4, <2>2, <3>2, <4>1 DEF SameAgent, Alive
      <4>3. auth'[a] = o[2]
        BY <2>4, <4>1, <4>2
      <4>4. QED
        BY <2>5, <4>1, <4>3 DEF Opens, Holders
    <3>3. QED
      BY <2>1, <3>1, <3>2
  <2>7. owed' \subseteq Humans \X Keys
    BY <1>1, <1>4, <2>1 DEF AgentsOK
  <2>8. \A a \in DOMAIN auth' : auth'[a] # None => a \in Alive
    BY <1>1, <1>6, <2>4 DEF AgentsOK
  <2>9. AgentsOK'
    <3>1. ASSUME NEW a \in Alive' PROVE Owing(a)'
      <4>1. CASE a = cl.agent
        BY <1>4, <2>1, <2>4, <2>5, <4>1 DEF SameAgent, Owing
      <4>2. CASE a # cl.agent
        <5>1. a \in Alive /\ a \in DOMAIN auth
          BY <2>2, <2>5 DEF Alive
        <5>2. auth'[a] = auth[a] /\ agents[a].name # cl.name
          BY <1>1, <1>4, <1>6, <2>4, <4>2, <5>1 DEF AgentsOK, SameAgent
        <5>3. auth[a] # None => <<agents[a].name, auth[a]>> \in owed
          BY <1>1, <5>1 DEF AgentsOK, Owing
        <5>4. QED
          BY <2>1, <2>5, <5>2, <5>3 DEF Owing
      <4>3. QED
        BY <4>1, <4>2
    <3>2. QED
      BY <1>1, <2>2, <2>4, <2>5, <2>6, <2>7, <2>8, <3>1 DEF AgentsOK
  <2>10. RowsOK' /\ MarksOK'
    BY <1>1, <1>5, <2>5, RowsKept, MarksKept
  <2>11. Answered(cl, "ok") \in Command /\ CallOK(Answered(cl, "ok"))
    BY <1>1, AnsweredOK
  <2>12. PICK r : r = Answered(cl, "ok")
    OBVIOUS
  <2>13. call' = [call EXCEPT ![c] = r]
    BY <1>2, <2>1, <2>12 DEF Answer, Becomes
  <2>14. CallsOK'
    BY <1>1, <1>5, <2>11, <2>12, <2>13, OwnCall
  <2>15. QED
    BY <1>1, <1>5, <2>9, <2>10, <2>14 DEF TalkInv
<1>7. CASE cl.agent \notin Alive
  <2>1. Answer(c, "failed") /\ TablesSame
    BY <1>2, <1>5, <1>7 DEF UpsertAuth, TablesSame
  <2>2. Answered(cl, "failed") \in Command /\ CallOK(Answered(cl, "failed"))
    BY <1>1, <1>4, <1>7, AnsweredOK DEF Excused
  <2>3. PICK r : r = Answered(cl, "failed")
    OBVIOUS
  <2>4. call' = [call EXCEPT ![c] = r]
    BY <1>2, <2>1, <2>3 DEF Answer, Becomes
  <2>5. QED
    BY <1>1, <1>5, <2>1, <2>2, <2>3, <2>4, OnlyCall
<1>8. QED
  BY <1>6, <1>7

\* What a command relies on stays while tables grow, rows are not changed and
\* agents keep their names; where an agent goes, who had it knows of the race.
LEMMA CallStays ==
  ASSUME NEW x, CallOK(x), Len(rows) \in Nat, Len(rows') \in Nat, Len(rows) <= Len(rows'),
         DOMAIN rows = 1..Len(rows), DOMAIN rows' = 1..Len(rows'), x.heard \in Nat,
         \A i \in DOMAIN rows : rows'[i] = rows[i],
         DOMAIN chats \subseteq DOMAIN chats', DOMAIN agents \subseteq DOMAIN agents',
         \A a \in DOMAIN agents : agents'[a].name = agents[a].name,
         \A i \in DOMAIN rows : rows[i].author \in Alive => rows[i].author \in Alive',
         SameAgent(x) /\ x.pc \in {"auth", "last", "row"} => (x.agent \in Alive => x.agent \in Alive' \/ x.race),
         x.pc = "born" => x.race \/ Called(x.name)' = {},
         x.at <= NextPosition(rows, x.buffer) => x.at <= NextPosition(rows', x.buffer)
  PROVE  CallOK(x)'
<1>1. x.heard <= Len(rows')
  BY DEF CallOK
<1>2. SameAgent(x) => SameAgent(x)'
  BY DEF SameAgent
<1>3. SameAgent(x) /\ x.pc \in {"auth", "last", "row"} /\ Excused(x) => Excused(x)'
  BY DEF Excused
<1>4. x.pc = "row" => \A i \in 1..x.heard : rows'[i].buffer = x.buffer => Sorted(i, x.at, None)'
  <2>1. SUFFICES ASSUME x.pc = "row", NEW i \in 1..x.heard, rows'[i].buffer = x.buffer
                 PROVE  Sorted(i, x.at, None)'
    OBVIOUS
  <2>2. x.heard <= Len(rows)
    BY DEF CallOK
  <2>3. i \in DOMAIN rows /\ rows'[i] = rows[i]
    BY <2>1, <2>2
  <2>4. Sorted(i, x.at, None)
    BY <2>1, <2>3 DEF CallOK
  <2>5. QED
    BY <2>3, <2>4 DEF Sorted
<1>5. x.pc = "row" => x.at <= NextPosition(rows', x.buffer)
  BY DEF CallOK
<1>6. x.row \in DOMAIN rows => x.row \in DOMAIN rows' /\ rows'[x.row] = rows[x.row]
  OBVIOUS
<1>7. x.pc \in {"check", "last", "row"} =>
        /\ x.buffer \in DOMAIN chats' /\ x.agent \in DOMAIN agents'
        /\ x.op \in {"say", "append", "call", "result"}
  BY DEF CallOK
<1>8. x.pc \in {"check", "last", "row"} /\ x.op = "say" => SameAgent(x)' /\ Excused(x)'
  <2>1. x.pc = "check" => x.op = "append"
    BY DEF CallOK
  <2>2. x.pc \in {"check", "last", "row"} /\ x.op = "say" => SameAgent(x) /\ Excused(x)
    BY DEF CallOK
  <2>3. QED
    BY <1>2, <1>3, <2>1, <2>2
<1>9. x.pc \in {"check", "last", "row"} /\ x.op \in {"call", "result"} =>
        /\ x.row \in DOMAIN rows' /\ rows'[x.row].author = x.agent /\ x.agent \in Alive'
        /\ rows'[x.row].buffer = x.buffer
  <2>1. SUFFICES ASSUME x.pc \in {"check", "last", "row"}, x.op \in {"call", "result"}
                 PROVE  /\ x.row \in DOMAIN rows' /\ rows'[x.row].author = x.agent /\ x.agent \in Alive'
                        /\ rows'[x.row].buffer = x.buffer
    OBVIOUS
  <2>2. x.row \in DOMAIN rows /\ rows[x.row].author = x.agent /\ x.agent \in Alive /\ rows[x.row].buffer = x.buffer
    BY <2>1 DEF CallOK
  <2>3. QED
    BY <1>6, <2>2
<1>10. QED
  BY <1>1, <1>2, <1>3, <1>4, <1>5, <1>7, <1>8, <1>9 DEF CallOK

\* A command that learns of a race relies on less.
LEMMA RaceOK ==
  ASSUME NEW x \in Command, CallOK(x)
  PROVE  /\ [x EXCEPT !.race = TRUE] \in Command /\ [x EXCEPT !.race = TRUE].race
         /\ CallOK([x EXCEPT !.race = TRUE])
<1>1. PICK y : y = [x EXCEPT !.race = TRUE]
  OBVIOUS
<1>2. y \in Command
  BY <1>1 DEF Command
<1>3. y.pc = x.pc /\ y.op = x.op /\ y.answer = x.answer /\ y.name = x.name /\ y.key = x.key
      /\ y.buffer = x.buffer /\ y.agent = x.agent /\ y.row = x.row /\ y.at = x.at /\ y.heard = x.heard
      /\ y.race = TRUE
  BY <1>1 DEF Command
<1>4. CallOK(y)
  BY <1>3 DEF CallOK, SameAgent, Excused
<1>5. QED
  BY <1>1, <1>2, <1>3, <1>4

\* The commands of others when an agent is made or removed
LEMMA DisturbedOK ==
  ASSUME CallsOK, NEW c \in Callers, NEW r \in Command, NEW name,
         call' = Disturbed([call EXCEPT ![c] = r], c, name), CallOK(r)',
         \A x \in Command : CallOK(x) /\ (x.pc # "idle" /\ x.name = name => x.race) => CallOK(x)'
  PROVE  CallsOK'
<1>1. call \in [Callers -> Command] /\ \A d \in Callers : CallOK(call[d])
  BY DEF CallsOK
<1>2. PICK cs : cs = [call EXCEPT ![c] = r]
  OBVIOUS
<1>3. cs \in [Callers -> Command] /\ cs[c] = r /\ \A d \in Callers : d # c => cs[d] = call[d]
  BY <1>1, <1>2
<1>4. call' = [d \in Callers |-> IF d # c /\ cs[d].pc # "idle" /\ cs[d].name = name
                                 THEN [cs[d] EXCEPT !.race = TRUE] ELSE cs[d]]
  BY <1>2 DEF Disturbed
<1>5. ASSUME NEW d \in Callers PROVE call'[d] \in Command /\ CallOK(call[d])'
  <2>1. PICK y : y = call'[d]
    OBVIOUS
  <2>2. CASE d = c
    <3>1. y = r
      BY <1>3, <1>4, <2>1, <2>2
    <3>2. QED
      BY <2>1, <3>1
  <2>3. CASE d # c
    <3>1. PICK x \in Command : x = call[d]
      BY <1>1
    <3>2. CallOK(x) /\ cs[d] = x
      BY <1>1, <1>3, <2>3, <3>1
    <3>3. CASE x.pc # "idle" /\ x.name = name
      <4>1. y = [x EXCEPT !.race = TRUE]
        BY <1>4, <2>1, <2>3, <3>2, <3>3
      <4>2. y \in Command /\ CallOK(y) /\ y.race
        BY <3>2, <4>1, RaceOK
      <4>3. CallOK(y)'
        BY <4>2
      <4>4. QED
        BY <2>1, <4>2, <4>3
    <3>4. CASE ~(x.pc # "idle" /\ x.name = name)
      <4>1. y = x
        BY <1>4, <2>1, <2>3, <3>2, <3>4
      <4>2. CallOK(y)'
        BY <3>2, <3>4, <4>1
      <4>3. QED
        BY <2>1, <4>1, <4>2
    <3>5. QED
      BY <3>3, <3>4
  <2>4. QED
    BY <2>2, <2>3
<1>6. call' \in [Callers -> Command]
  BY <1>4, <1>5
<1>7. QED
  BY <1>5, <1>6 DEF CallsOK

\* A room gets another chat buffer.
LEMMA MakeChatKeeps ==
  ASSUME TalkInv, NEW c \in Callers, MakeChat(c)
  PROVE  TalkInv'
<1>1. AgentsOK /\ RowsOK /\ MarksOK /\ CallsOK /\ clock \in Nat /\ talks \in 0..MaxTalk
  BY DEF TalkInv
<1>2. PICK cl \in Command : cl = call[c]
  BY <1>1 DEF CallsOK
<1>3. CallOK(cl) /\ cl.pc = "make" /\ cl.at \in Nat /\ cl.seen \in Nat
  BY <1>1, <1>2 DEF CallsOK, MakeChat, At, Command
<1>4. UNCHANGED <<agents, auth, rows, marks, clock, owed, talks>>
  BY DEF MakeChat
<1>5. PICK T : T = [at : Nat, after : Nat]
  OBVIOUS
<1>6. PICK e \in T : e = [at |-> cl.at, after |-> cl.seen]
  BY <1>3, <1>5
<1>7. chats \in Seq(T) /\ chats' = Append(chats, e)
  BY <1>1, <1>2, <1>5, <1>6 DEF RowsOK, MakeChat
<1>8. /\ chats' \in Seq(T) /\ Len(chats') = Len(chats) + 1 /\ Len(chats) \in Nat
      /\ DOMAIN chats = 1..Len(chats) /\ DOMAIN chats' = 1..(Len(chats) + 1)
  BY <1>7
<1>9. DOMAIN chats \subseteq DOMAIN chats'
  BY <1>8
<1>10. Alive' = Alive
  BY <1>4 DEF Alive
<1>11. AgentsOK'
  BY <1>1, <1>4, <1>10 DEF AgentsOK, Holders, Opens, Owing
<1>12. RowsOK'
  <2>1. \A i \in DOMAIN rows : RowOK(i)'
    BY <1>1, <1>4, <1>9, <1>10 DEF RowsOK, RowOK
  <2>2. QED
    BY <1>1, <1>4, <1>5, <1>8, <2>1 DEF RowsOK, Sorted
<1>13. MarksOK'
  BY <1>1, <1>4, <1>10, MarksKept
<1>14. PICK n : n = Len(chats) + 1
  OBVIOUS
<1>15. n \in Nat /\ n \in DOMAIN chats'
  BY <1>8, <1>14
<1>16. PICK r : r = [cl EXCEPT !.pc = "agent", !.buffer = n]
  OBVIOUS
<1>17. r \in Command
  BY <1>15, <1>16 DEF Command
<1>18. r.pc = "agent" /\ r.op = cl.op /\ r.name = cl.name /\ r.heard = cl.heard /\ r.answer = cl.answer
       /\ r.buffer = n
  BY <1>16 DEF Command
<1>19. CallOK(r)'
  <2>1. cl.op = "say" /\ cl.name \in Names /\ cl.answer = "none" /\ cl.heard <= Len(rows)
    BY <1>3 DEF CallOK
  <2>2. QED
    BY <1>4, <1>15, <1>18, <2>1 DEF CallOK
<1>20. call' = [call EXCEPT ![c] = r]
  BY <1>2, <1>14, <1>16 DEF MakeChat, Becomes
<1>21. ASSUME NEW d \in Callers PROVE call'[d] \in Command /\ CallOK(call[d])'
  <2>1. PICK y : y = call'[d]
    OBVIOUS
  <2>2. CASE d = c
    BY <1>1, <1>17, <1>19, <1>20, <2>1, <2>2 DEF CallsOK
  <2>3. CASE d # c
    <3>1. y \in Command /\ CallOK(y)
      BY <1>1, <1>20, <2>1, <2>3 DEF CallsOK
    <3>2. CallOK(y)'
      BY <1>4, <1>9, <1>10, <3>1 DEF CallOK, SameAgent, Excused, Called, Sorted
    <3>3. QED
      BY <2>1, <3>1, <3>2
  <2>4. QED
    BY <2>2, <2>3
<1>22. CallsOK'
  BY <1>1, <1>17, <1>20, <1>21 DEF CallsOK
<1>23. QED
  BY <1>1, <1>4, <1>11, <1>12, <1>13, <1>22 DEF TalkInv

\* A new agent has a name no other has; who saw the name free learns of it.
LEMMA InsertAgentKeeps ==
  ASSUME TalkInv, NEW c \in Callers, InsertAgent(c)
  PROVE  TalkInv'
<1>1. AgentsOK /\ RowsOK /\ MarksOK /\ CallsOK /\ clock \in Nat /\ talks \in 0..MaxTalk
  BY DEF TalkInv
<1>2. PICK cl \in Command : cl = call[c]
  BY <1>1 DEF CallsOK
<1>3. CallOK(cl) /\ cl.pc = "born"
  BY <1>1, <1>2 DEF CallsOK, InsertAgent, At
<1>4. /\ cl.op \in {"say", "key"} /\ cl.name \in Names /\ (cl.race \/ Called(cl.name) = {})
      /\ (cl.op = "key" => cl.key \in Keys /\ cl.name \in Humans)
      /\ (cl.op = "say" => cl.buffer \in DOMAIN chats) /\ cl.answer = "none" /\ cl.heard <= Len(rows)
  BY <1>3 DEF CallOK
<1>5. UNCHANGED <<chats, rows, marks, clock, owed, talks>>
  BY DEF InsertAgent
<1>6. CASE NameIsFree(cl.name)
  <2>1. PICK new : new = Len(agents) + 1
    OBVIOUS
  <2>2. PICK e : e = [name |-> cl.name, live |-> TRUE, kind |-> IF cl.name \in Models THEN "model" ELSE "human"]
    OBVIOUS
  <2>3. e \in Agent /\ e.live /\ e.name = cl.name
    BY <1>4, <2>2 DEF Agent
  <2>4. PICK r : r = [cl EXCEPT !.pc = AfterAgent(cl.op), !.agent = new]
    OBVIOUS
  <2>5. /\ agents' = Append(agents, e) /\ auth' = Append(auth, None)
        /\ call' = Disturbed([call EXCEPT ![c] = r], c, cl.name)
    BY <1>2, <1>6, <2>1, <2>2, <2>4 DEF InsertAgent
  <2>6. agents \in Seq(Agent) /\ auth \in Seq(Keys \cup {None}) /\ Len(auth) = Len(agents) /\ Len(agents) \in Nat
    BY <1>1 DEF AgentsOK
  <2>7. /\ agents' \in Seq(Agent) /\ Len(agents') = new /\ agents'[new] = e /\ new \in Nat
        /\ DOMAIN agents = 1..(new - 1) /\ DOMAIN agents' = 1..new
        /\ \A a \in DOMAIN agents : agents'[a] = agents[a]
    BY <2>1, <2>3, <2>5, <2>6
  <2>8. /\ auth' \in Seq(Keys \cup {None}) /\ Len(auth') = new /\ auth'[new] = None
        /\ DOMAIN auth = 1..(new - 1) /\ DOMAIN auth' = 1..new
        /\ \A a \in DOMAIN agents : auth'[a] = auth[a]
    BY <2>1, <2>5, <2>6
  <2>9. Alive' = Alive \cup {new}
    <3>1. \A a \in DOMAIN agents' : a \in DOMAIN agents \/ a = new
      BY <2>7
    <3>2. new \in DOMAIN agents' /\ DOMAIN agents \subseteq DOMAIN agents'
      BY <2>1, <2>6, <2>7
    <3>3. QED
      BY <2>3, <2>7, <3>1, <3>2 DEF Alive
  <2>10. \A a \in Alive : a \in DOMAIN agents /\ agents[a].name # cl.name
    BY <1>6 DEF NameIsFree, Called, Alive
  <2>11. AgentsOK'
    <3>1. \A a \in DOMAIN auth' : auth'[a] # None => a \in Alive'
      <4>1. SUFFICES ASSUME NEW a \in DOMAIN auth', auth'[a] # None PROVE a \in Alive'
        OBVIOUS
      <4>2. a \in DOMAIN auth /\ auth[a] # None
        BY <2>7, <2>8, <4>1
      <4>3. QED
        BY <1>1, <2>9, <4>2 DEF AgentsOK
    <3>2. \A a, b \in Alive' : agents'[a].name = agents'[b].name => a = b
      <4>1. SUFFICES ASSUME NEW a \in Alive', NEW b \in Alive', agents'[a].name = agents'[b].name PROVE a = b
        OBVIOUS
      <4>2. CASE a \in Alive /\ b \in Alive
        BY <1>1, <2>7, <2>10, <4>1, <4>2 DEF AgentsOK
      <4>3. CASE a = new \/ b = new
        BY <2>3, <2>7, <2>9, <2>10, <4>1, <4>3
      <4>4. QED
        BY <2>9, <4>1, <4>2, <4>3
    <3>3. ASSUME NEW o \in owed' PROVE Opens(o)'
      <4>1. o \in owed
        BY <1>5
      <4>2. PICK a \in Alive : auth[a] = o[2] /\ agents[a].name = o[1]
        BY <1>1, <4>1 DEF AgentsOK, Opens, Holders
      <4>3. auth'[a] = o[2] /\ agents'[a].name = o[1] /\ a \in Alive'
        BY <2>7, <2>8, <2>9, <2>10, <4>2
      <4>4. QED
        BY <4>3 DEF Opens, Holders
    <3>4. ASSUME NEW a \in Alive' PROVE Owing(a)'
      <4>1. CASE a = new
        BY <2>8, <4>1 DEF Owing
      <4>2. CASE a # new
        <5>1. a \in Alive /\ agents'[a] = agents[a] /\ auth'[a] = auth[a]
          BY <2>7, <2>8, <2>9, <2>10, <4>2
        <5>2. QED
          BY <1>1, <1>5, <5>1 DEF AgentsOK, Owing
      <4>3. QED
        BY <4>1, <4>2
    <3>5. QED
      BY <1>1, <1>5, <2>7, <2>8, <3>1, <3>2, <3>3, <3>4 DEF AgentsOK
  <2>12. RowsOK'
    <3>1. \A i \in DOMAIN rows : RowOK(i)'
      BY <1>1, <1>5, <2>9 DEF RowsOK, RowOK
    <3>2. QED
      BY <1>1, <1>5, <3>1 DEF RowsOK, Sorted
  <2>13. MarksOK'
    BY <1>1, <1>5, <2>9 DEF MarksOK
  <2>14. AfterAgent(cl.op) = IF cl.op = "say" THEN "last" ELSE "auth"
    <3>1. AfterAgent("say") = "last" /\ AfterAgent("key") = "auth"
      BY DEF AfterAgent
    <3>2. QED
      BY <1>4, <3>1
  <2>15. r \in Command
    <3>1. PICK pc \in {"last", "auth"} : pc = AfterAgent(cl.op)
      BY <2>14
    <3>2. PICK q : q = [cl EXCEPT !.pc = pc]
      OBVIOUS
    <3>3. q \in Command
      BY <3>1, <3>2 DEF Command
    <3>4. r = [q EXCEPT !.agent = new]
      BY <2>4, <3>1, <3>2
    <3>5. new \in Nat
      BY <2>7
    <3>6. QED
      BY <3>3, <3>4, <3>5 DEF Command
  <2>16. r.pc = AfterAgent(cl.op) /\ r.op = cl.op /\ r.name = cl.name /\ r.heard = cl.heard /\ r.answer = cl.answer
         /\ r.buffer = cl.buffer /\ r.agent = new /\ r.key = cl.key
    BY <2>4 DEF Command
  <2>17. CallOK(r)'
    <3>1. new \in DOMAIN agents' /\ agents'[new].name = cl.name /\ new \in Alive'
      BY <2>1, <2>3, <2>6, <2>7, <2>9
    <3>2. SameAgent(r)' /\ Excused(r)'
      BY <2>16, <3>1 DEF SameAgent, Excused
    <3>3. QED
      BY <1>4, <1>5, <2>14, <2>16, <3>1, <3>2 DEF CallOK
  <2>18. ASSUME NEW x \in Command, CallOK(x), x.pc # "idle" /\ x.name = cl.name => x.race
         PROVE  CallOK(x)'
    <3>1. x.pc = "born" => x.race \/ Called(x.name)' = {}
      <4>1. SUFFICES ASSUME x.pc = "born", x.name # cl.name, Called(x.name) = {} PROVE Called(x.name)' = {}
        BY <2>18 DEF CallOK
      <4>2. \A a \in Alive' : agents'[a].name # x.name
        BY <2>3, <2>7, <2>9, <2>10, <4>1 DEF Called
      <4>3. QED
        BY <4>2 DEF Called
    <3>2. Len(rows) \in Nat /\ DOMAIN rows = 1..Len(rows) /\ x.heard \in Nat
      BY <1>1 DEF RowsOK, Command
    <3>3. DOMAIN agents \subseteq DOMAIN agents' /\ \A a \in DOMAIN agents : agents'[a].name = agents[a].name
      BY <2>7
    <3>4. QED
      BY <1>5, <2>9, <2>18, <3>1, <3>2, <3>3, CallStays
  <2>19. CallsOK'
    BY <1>1, <2>5, <2>15, <2>17, <2>18, DisturbedOK
  <2>20. QED
    BY <1>1, <1>5, <2>11, <2>12, <2>13, <2>19 DEF TalkInv
<1>7. CASE ~NameIsFree(cl.name)
  <2>1. Answer(c, "failed") /\ TablesSame
    BY <1>2, <1>5, <1>7 DEF InsertAgent, TablesSame
  <2>2. cl.race
    BY <1>4, <1>7 DEF NameIsFree
  <2>3. Answered(cl, "failed") \in Command /\ CallOK(Answered(cl, "failed"))
    BY <1>1, <1>4, <2>2, AnsweredOK
  <2>4. PICK r : r = Answered(cl, "failed")
    OBVIOUS
  <2>5. call' = [call EXCEPT ![c] = r]
    BY <1>2, <2>1, <2>4 DEF Answer, Becomes
  <2>6. QED
    BY <1>1, <1>5, <2>1, <2>3, <2>4, <2>5, OnlyCall
<1>8. QED
  BY <1>6, <1>7

\* An agent that goes has no key, no row and no reaction; who had found it
\* learns of it.
LEMMA DeleteAgentKeeps ==
  ASSUME TalkInv, DeleteAgent
  PROVE  TalkInv'
<1>1. AgentsOK /\ RowsOK /\ MarksOK /\ CallsOK /\ clock \in Nat /\ talks \in 0..MaxTalk
  BY DEF TalkInv
<1>2. Admin \in Callers
  BY DEF Callers
<1>3. PICK cl \in Command : cl = call[Admin]
  BY <1>1, <1>2 DEF CallsOK
<1>4. CallOK(cl) /\ cl.pc = "delete"
  BY <1>1, <1>2, <1>3 DEF CallsOK, DeleteAgent, At
<1>5. cl.op = "remove" /\ SameAgent(cl)
  BY <1>4 DEF CallOK
<1>6. UNCHANGED <<auth, chats, rows, marks, clock, owed, talks>>
  BY DEF DeleteAgent
<1>7. CASE ~Referenced(cl.agent)
  <2>1. PICK a : a = cl.agent
    OBVIOUS
  <2>2. PICK r : r = Answered(cl, "ok")
    OBVIOUS
  <2>3. agents' = [agents EXCEPT ![a].live = FALSE] /\ call' = Disturbed([call EXCEPT ![Admin] = r], Admin, cl.name)
    BY <1>3, <1>7, <2>1, <2>2 DEF DeleteAgent
  <2>4. agents \in Seq(Agent) /\ DOMAIN agents = 1..Len(agents) /\ Len(agents) \in Nat /\ a \in DOMAIN agents
        /\ agents[a].name = cl.name
    BY <1>1, <1>5, <2>1 DEF AgentsOK, SameAgent
  <2>5. PICK e : e = [agents[a] EXCEPT !.live = FALSE]
    OBVIOUS
  <2>6. agents' = [agents EXCEPT ![a] = e]
    BY <2>3, <2>5
  <2>7. e \in Agent /\ e.live = FALSE /\ e.name = agents[a].name
    <3>1. agents[a] \in Agent
      BY <2>4
    <3>2. QED
      BY <2>5, <3>1 DEF Agent
  <2>8. /\ agents' \in Seq(Agent) /\ Len(agents') = Len(agents) /\ DOMAIN agents' = DOMAIN agents
        /\ agents'[a] = e /\ \A b \in DOMAIN agents : b # a => agents'[b] = agents[b]
    BY <2>4, <2>6, <2>7
  <2>9. \A b \in DOMAIN agents : agents'[b].name = agents[b].name
    BY <2>7, <2>8
  <2>10. Alive' = Alive \ {a}
    BY <2>7, <2>8 DEF Alive
  <2>11. auth[a] = None /\ (\A i \in DOMAIN rows : rows[i].author # a) /\ (\A x \in marks.reactions : x[2] # a)
    BY <1>7, <2>1 DEF Referenced
  <2>12. AgentsOK'
    <3>1. \A b \in DOMAIN auth' : auth'[b] # None => b \in Alive'
      BY <1>1, <1>6, <2>10, <2>11 DEF AgentsOK
    <3>2. \A b, d \in Alive' : agents'[b].name = agents'[d].name => b = d
      BY <1>1, <2>9, <2>10 DEF AgentsOK, Alive
    <3>3. ASSUME NEW o \in owed' PROVE Opens(o)'
      <4>1. o \in owed /\ o[2] \in Keys
        BY <1>1, <1>6 DEF AgentsOK
      <4>2. PICK b \in Alive : auth[b] = o[2] /\ agents[b].name = o[1]
        BY <1>1, <4>1 DEF AgentsOK, Opens, Holders
      <4>3. b # a /\ b \in DOMAIN agents
        BY <2>11, <4>1, <4>2, TalkAssumption DEF Alive
      <4>4. b \in Alive' /\ auth'[b] = o[2] /\ agents'[b].name = o[1]
        BY <1>6, <2>9, <2>10, <4>2, <4>3
      <4>5. QED
        BY <4>4 DEF Opens, Holders
    <3>4. ASSUME NEW b \in Alive' PROVE Owing(b)'
      <4>1. b \in Alive /\ agents'[b].name = agents[b].name /\ auth'[b] = auth[b]
        BY <1>6, <2>9, <2>10 DEF Alive
      <4>2. QED
        BY <1>1, <1>6, <4>1 DEF AgentsOK, Owing
    <3>5. QED
      BY <1>1, <1>6, <2>8, <3>1, <3>2, <3>3, <3>4 DEF AgentsOK
  <2>13. RowsOK'
    <3>1. \A i \in DOMAIN rows : RowOK(i)'
      BY <1>1, <1>6, <2>10, <2>11 DEF RowsOK, RowOK
    <3>2. QED
      BY <1>1, <1>6, <3>1 DEF RowsOK, Sorted
  <2>14. MarksOK'
    BY <1>1, <1>6, <2>10, <2>11 DEF MarksOK
  <2>15. r \in Command /\ r = NoTalk
    BY <1>1, <2>2, IdleOK DEF Answered
  <2>16. Len(rows) \in Nat /\ DOMAIN rows = 1..Len(rows)
    BY <1>1 DEF RowsOK
  <2>17. CallOK(r)'
    BY <1>6, <2>15, <2>16 DEF CallOK, NoTalk
  <2>18. ASSUME NEW x \in Command, CallOK(x), x.pc # "idle" /\ x.name = cl.name => x.race
         PROVE  CallOK(x)'
    <3>1. x.pc = "born" => x.race \/ Called(x.name)' = {}
      <4>1. Called(x.name)' \subseteq Called(x.name)
        BY <2>9, <2>10 DEF Called, Alive
      <4>2. QED
        BY <2>18, <4>1 DEF CallOK
    <3>2. SameAgent(x) /\ x.pc \in {"auth", "last", "row"} => (x.agent \in Alive => x.agent \in Alive' \/ x.race)
      BY <2>4, <2>10, <2>18 DEF SameAgent
    <3>3. \A i \in DOMAIN rows : rows[i].author \in Alive => rows[i].author \in Alive'
      BY <2>10, <2>11
    <3>4. x.heard \in Nat
      BY DEF Command
    <3>5. QED
      BY <1>6, <2>8, <2>9, <2>16, <2>18, <3>1, <3>2, <3>3, <3>4, CallStays
  <2>19. CallsOK'
    BY <1>1, <1>2, <2>3, <2>15, <2>17, <2>18, DisturbedOK
  <2>20. QED
    BY <1>1, <1>6, <2>12, <2>13, <2>14, <2>19 DEF TalkInv
<1>8. CASE Referenced(cl.agent)
  <2>1. Answer(Admin, "failed") /\ TablesSame
    BY <1>3, <1>6, <1>8 DEF DeleteAgent, TablesSame
  <2>2. Answered(cl, "failed") \in Command /\ CallOK(Answered(cl, "failed"))
    BY <1>1, <1>5, AnsweredOK
  <2>3. PICK r : r = Answered(cl, "failed")
    OBVIOUS
  <2>4. call' = [call EXCEPT ![Admin] = r]
    BY <1>3, <2>1, <2>3 DEF Answer, Becomes
  <2>5. QED
    BY <1>1, <1>2, <1>6, <2>1, <2>2, <2>3, <2>4, OnlyCall
<1>9. QED
  BY <1>7, <1>8

\* A row with its position, and what its caller saw before it
PlacedAt(r, pos, after) == [r EXCEPT !.pos = pos, !.after = after]
LEMMA Placed ==
  ASSUME NEW b, NEW a, NEW m, NEW p, NEW pos, NEW after
  PROVE  PlacedAt(Row(b, a, m, p), pos, after) =
           [buffer |-> b, pos |-> pos, author |-> a, method |-> m, parent |-> p, after |-> after]
<1>1. PICK r : r = [buffer |-> b, pos |-> 0, author |-> a, method |-> m, parent |-> p, after |-> 0]
  OBVIOUS
<1>2. Row(b, a, m, p) = r
  BY <1>1 DEF Row
<1>3. [r EXCEPT !.pos = pos] = [buffer |-> b, pos |-> pos, author |-> a, method |-> m, parent |-> p, after |-> 0]
  BY <1>1
<1>4. PICK q : q = [buffer |-> b, pos |-> pos, author |-> a, method |-> m, parent |-> p, after |-> 0]
  OBVIOUS
<1>5. [q EXCEPT !.after = after] = [buffer |-> b, pos |-> pos, author |-> a, method |-> m, parent |-> p, after |-> after]
  BY <1>4
<1>6. [r EXCEPT !.pos = pos, !.after = after] = [q EXCEPT !.after = after]
  BY <1>3, <1>4
<1>7. QED
  BY <1>2, <1>5, <1>6 DEF PlacedAt

\* The row of a command, written out: what it is about is a row of a tool.
LEMMA RowIs ==
  ASSUME NEW cl, cl.op \in {"say", "append", "call", "result"}, NEW kind \in {"human", "model"},
         kind = agents[cl.agent].kind, NEW row, row = PlacedAt(NewRow(cl), cl.at, cl.heard)
  PROVE  /\ row.buffer = cl.buffer /\ row.pos = cl.at /\ row.after = cl.heard
         /\ row.author \in {cl.agent, None} /\ row.method \in Methods
         /\ row = [buffer |-> row.buffer, pos |-> row.pos, author |-> row.author, method |-> row.method,
                   parent |-> row.parent, after |-> row.after]
         /\ (row.method = "thinking.stream" => row.author = cl.agent)
         /\ (cl.op = "result" => row.author = None) /\ (cl.op # "result" => row.author = cl.agent)
         /\ (cl.op \in {"call", "result"} => row.parent = cl.row)
         /\ (cl.op \notin {"call", "result"} => row.parent = None)
         /\ (cl.op \in {"call", "result"} => row.method \in {"tool.call", "tool.result"})
         /\ (row.method \in {"tool.call", "tool.result"} => cl.op \in {"call", "result"})
<1>1. CASE cl.op = "say" /\ kind = "human"
  <2>1. NewRow(cl) = Message(cl.buffer, cl.agent, FALSE)
    BY <1>1 DEF NewRow
  <2>2. NewRow(cl) = Row(cl.buffer, cl.agent, "message.user", None)
    BY <2>1 DEF Message
  <2>3. row = PlacedAt(Row(cl.buffer, cl.agent, "message.user", None), cl.at, cl.heard)
    BY <2>2
  <2>4. row = [buffer |-> cl.buffer, pos |-> cl.at, author |-> cl.agent, method |-> "message.user",
               parent |-> None, after |-> cl.heard]
    BY <2>3, Placed
  <2>5. QED
    BY <1>1, <2>4 DEF Methods
<1>2. CASE cl.op = "say" /\ kind = "model"
  <2>1. NewRow(cl) = Thinking(cl.buffer, cl.agent)
    BY <1>2 DEF NewRow
  <2>2. NewRow(cl) = Row(cl.buffer, cl.agent, "thinking.stream", None)
    BY <2>1 DEF Thinking
  <2>3. row = PlacedAt(Row(cl.buffer, cl.agent, "thinking.stream", None), cl.at, cl.heard)
    BY <2>2
  <2>4. row = [buffer |-> cl.buffer, pos |-> cl.at, author |-> cl.agent, method |-> "thinking.stream",
               parent |-> None, after |-> cl.heard]
    BY <2>3, Placed
  <2>5. QED
    BY <1>2, <2>4 DEF Methods
<1>3. CASE cl.op = "append"
  <2>1. NewRow(cl) = Message(cl.buffer, cl.agent, kind = "model")
    BY <1>3 DEF NewRow
  <2>2. NewRow(cl) = Row(cl.buffer, cl.agent, IF kind = "model" THEN "message.model" ELSE "message.user", None)
    BY <2>1 DEF Message
  <2>3. row = PlacedAt(Row(cl.buffer, cl.agent, IF kind = "model" THEN "message.model" ELSE "message.user", None), cl.at, cl.heard)
    BY <2>2
  <2>4. row = [buffer |-> cl.buffer, pos |-> cl.at, author |-> cl.agent, method |-> IF kind = "model" THEN "message.model" ELSE "message.user",
               parent |-> None, after |-> cl.heard]
    BY <2>3, Placed
  <2>5. QED
    BY <1>3, <2>4 DEF Methods
<1>4. CASE cl.op = "call"
  <2>1. NewRow(cl) = ToolCallRow(cl.buffer, cl.agent, cl.row)
    BY <1>4 DEF NewRow
  <2>2. NewRow(cl) = Row(cl.buffer, cl.agent, "tool.call", cl.row)
    BY <2>1 DEF ToolCallRow
  <2>3. row = PlacedAt(Row(cl.buffer, cl.agent, "tool.call", cl.row), cl.at, cl.heard)
    BY <2>2
  <2>4. row = [buffer |-> cl.buffer, pos |-> cl.at, author |-> cl.agent, method |-> "tool.call",
               parent |-> cl.row, after |-> cl.heard]
    BY <2>3, Placed
  <2>5. QED
    BY <1>4, <2>4 DEF Methods
<1>5. CASE cl.op = "result"
  <2>1. NewRow(cl) = ToolResultRow(cl.buffer, cl.row)
    BY <1>5 DEF NewRow
  <2>2. NewRow(cl) = Row(cl.buffer, None, "tool.result", cl.row)
    BY <2>1 DEF ToolResultRow
  <2>3. row = PlacedAt(Row(cl.buffer, None, "tool.result", cl.row), cl.at, cl.heard)
    BY <2>2
  <2>4. row = [buffer |-> cl.buffer, pos |-> cl.at, author |-> None, method |-> "tool.result",
               parent |-> cl.row, after |-> cl.heard]
    BY <2>3, Placed
  <2>5. QED
    BY <1>5, <2>4 DEF Methods
<1>6. QED
  BY <1>1, <1>2, <1>3, <1>4, <1>5

\* A row is inserted at the position its call read.
LEMMA InsertRowKeeps ==
  ASSUME TalkInv, NEW c \in Callers, InsertRow(c)
  PROVE  TalkInv'
<1>1. AgentsOK /\ RowsOK /\ MarksOK /\ CallsOK /\ clock \in Nat /\ talks \in 0..MaxTalk
  BY DEF TalkInv
<1>2. PICK cl \in Command : cl = call[c]
  BY <1>1 DEF CallsOK
<1>3. CallOK(cl) /\ cl.pc = "row" /\ cl.at \in Nat /\ cl.heard \in Nat
  BY <1>1, <1>2 DEF CallsOK, InsertRow, At, Command
<1>4. /\ cl.buffer \in DOMAIN chats /\ cl.agent \in DOMAIN agents /\ cl.heard <= Len(rows)
      /\ cl.op \in {"say", "append", "call", "result"}
      /\ (cl.op = "say" => SameAgent(cl) /\ Excused(cl))
      /\ (cl.op \in {"call", "result"} => cl.row \in DOMAIN rows /\ cl.agent \in Alive /\ rows[cl.row].buffer = cl.buffer)
      /\ cl.at <= NextPosition(rows, cl.buffer)
      /\ \A i \in 1..cl.heard : rows[i].buffer = cl.buffer => Sorted(i, cl.at, None)
  BY <1>3 DEF CallOK
<1>5. UNCHANGED <<agents, auth, chats, marks, clock, owed, talks>>
  BY DEF InsertRow
<1>6. PICK row : row = [NewRow(cl) EXCEPT !.pos = cl.at, !.after = cl.heard]
  OBVIOUS
<1>7. PICK kind \in {"human", "model"} : kind = agents[cl.agent].kind
  <2>1. agents[cl.agent] \in Agent
    BY <1>1, <1>4 DEF AgentsOK
  <2>2. QED
    BY <2>1 DEF Agent
<1>8. cl.agent \in Nat /\ cl.buffer \in Nat /\ (cl.op \in {"call", "result"} => cl.row \in Nat)
  BY <1>1, <1>4 DEF AgentsOK, RowsOK
<1>9. /\ row.buffer = cl.buffer /\ row.pos = cl.at /\ row.after = cl.heard
      /\ row.author \in {cl.agent, None} /\ row.method \in Methods
      /\ row = [buffer |-> row.buffer, pos |-> row.pos, author |-> row.author, method |-> row.method,
                parent |-> row.parent, after |-> row.after]
      /\ (row.method = "thinking.stream" => row.author = cl.agent)
      /\ (cl.op = "result" => row.author = None) /\ (cl.op # "result" => row.author = cl.agent)
      /\ (cl.op \in {"call", "result"} => row.parent = cl.row)
      /\ (cl.op \notin {"call", "result"} => row.parent = None)
  <2>1. row = PlacedAt(NewRow(cl), cl.at, cl.heard)
    BY <1>6 DEF PlacedAt
  <2>2. QED
    BY <1>4, <1>7, <2>1, RowIs
<1>10. CASE row.author \in Alive \cup {None}
  <2>1. rows' = Append(rows, row) /\ Answer(c, "ok")
    BY <1>2, <1>6, <1>10 DEF InsertRow
  <2>2. rows \in Seq(Written) /\ Len(rows) \in Nat /\ DOMAIN rows = 1..Len(rows)
        /\ \A i \in DOMAIN rows : rows[i].pos < i /\ rows[i].pos <= NextPosition(rows, rows[i].buffer)
    BY <1>1 DEF RowsOK, RowOK
  <2>3. row \in Written
    BY <1>3, <1>4, <1>8, <1>9 DEF Written
  <2>4. NextPosition(rows, cl.buffer) <= Len(rows) /\ NextPosition(rows, cl.buffer) \in Nat
    <3>1. PICK dummy \in Written : dummy = [row EXCEPT !.pos = 0]
      BY <2>3 DEF Written
    <3>2. dummy.pos <= Len(rows)
      BY <2>2, <2>3, <3>1 DEF Written
    <3>3. QED
      BY <2>2, <3>2, NextGrows, NextIsAfterLast
  <2>5. row.pos <= Len(rows)
    BY <1>3, <1>4, <1>9, <2>2, <2>4
  <2>6. PICK n : n = Len(rows) + 1
    OBVIOUS
  <2>7. /\ rows' \in Seq(Written) /\ Len(rows') = n /\ n \in Nat /\ DOMAIN rows' = 1..n
        /\ (\A i \in DOMAIN rows : rows'[i] = rows[i]) /\ rows'[n] = row
        /\ (\A i \in DOMAIN rows' : rows'[i].pos < i)
        /\ \A i \in DOMAIN rows' : i \in DOMAIN rows \/ i = n
    BY <2>1, <2>2, <2>3, <2>5, <2>6, NextGrows
  <2>8. ASSUME NEW b
        PROVE  NextPosition(rows, b) \in Nat /\ NextPosition(rows', b) \in Nat
               /\ NextPosition(rows, b) <= NextPosition(rows', b)
    BY <2>1, <2>2, <2>3, <2>5, <2>7, NextGrows, NextIsAfterLast
  <2>9. Alive' = Alive
    BY <1>5 DEF Alive
  <2>10. AgentsOK'
    BY <1>1, <1>5, <2>9 DEF AgentsOK, Holders, Opens, Owing
  <2>11. ASSUME NEW i \in DOMAIN rows' PROVE RowOK(i)'
    <3>1. CASE i \in DOMAIN rows
      <4>1. RowOK(i) /\ rows'[i] = rows[i] /\ i \in Nat /\ rows[i].pos \in Nat
        <5>1. rows[i] \in Written
          BY <2>2, <3>1
        <5>2. QED
          BY <1>1, <2>2, <2>7, <3>1, <5>1 DEF RowsOK, Written
      <4>2. PICK b : b = rows[i].buffer
        OBVIOUS
      <4>3. rows[i].pos <= NextPosition(rows', b)
        BY <2>8, <4>1, <4>2 DEF RowOK
      <4>4. rows[i].parent # None => rows'[rows[i].parent].buffer = rows[i].buffer
        <5>1. rows[i].parent # None => rows[i].parent \in DOMAIN rows
          BY <2>2, <3>1, <4>1 DEF RowOK
        <5>2. QED
          BY <2>7, <4>1, <5>1 DEF RowOK
      <4>5. QED
        BY <1>5, <2>9, <4>1, <4>2, <4>3, <4>4 DEF RowOK
    <3>2. CASE i = n
      <4>1. rows'[i] = row /\ row.buffer \in DOMAIN chats
        BY <1>4, <1>9, <2>7, <3>2
      <4>2. row.method = "thinking.stream" => row.author \in Alive
        BY <1>8, <1>9, <1>10, TalkAssumption
      <4>3. row.parent \in (1..(i - 1)) \cup {None}
        BY <1>4, <1>9, <2>2, <2>6, <3>2
      <4>4. row.after \in 0..(i - 1)
        BY <1>3, <1>4, <1>9, <2>2, <2>6, <3>2
      <4>5. row.parent # None => rows'[row.parent].buffer = row.buffer
        BY <1>4, <1>9, <2>7
      <4>6. row.pos < i
        BY <2>7, <3>2, <4>1
      <4>7. row.pos <= NextPosition(rows', row.buffer)
        BY <1>3, <1>4, <1>9, <2>8
      <4>8. QED
        BY <1>5, <1>10, <2>9, <4>1, <4>2, <4>3, <4>4, <4>5, <4>6, <4>7 DEF RowOK
    <3>3. QED
      BY <2>7, <3>1, <3>2
  <2>12. ASSUME NEW j \in DOMAIN rows', NEW i \in 1..rows'[j].after, rows'[i].buffer = rows'[j].buffer
         PROVE  /\ rows'[i].pos <= rows'[j].pos
                /\ rows'[i].parent = None /\ rows'[j].parent = None => rows'[i].pos < rows'[j].pos
    <3>1. CASE j \in DOMAIN rows
      <4>1. RowOK(j) /\ rows'[j] = rows[j]
        BY <1>1, <2>7, <3>1 DEF RowsOK
      <4>2. i \in DOMAIN rows /\ rows'[i] = rows[i]
        <5>1. rows[j].after \in 0..(j - 1) /\ j \in 1..Len(rows) /\ i \in 1..rows[j].after
          BY <2>2, <2>12, <3>1, <4>1 DEF RowOK
        <5>2. i \in 1..Len(rows)
          BY <2>2, <5>1
        <5>3. QED
          BY <2>2, <2>7, <5>2
      <4>3. Sorted(i, rows[j].pos, rows[j].parent)
        BY <1>1, <2>12, <3>1, <4>1, <4>2 DEF RowsOK
      <4>4. QED
        BY <4>1, <4>2, <4>3 DEF Sorted
    <3>2. CASE j = n
      <4>1. rows'[j] = row /\ i \in 1..cl.heard
        BY <1>9, <2>7, <2>12, <3>2
      <4>2. i \in DOMAIN rows /\ rows'[i] = rows[i]
        <5>1. cl.heard <= Len(rows)
          BY <1>4
        <5>2. i \in 1..Len(rows)
          BY <1>3, <2>2, <4>1, <5>1
        <5>3. QED
          BY <2>2, <2>7, <5>2
      <4>3. Sorted(i, cl.at, None)
        BY <1>4, <1>9, <2>12, <4>1, <4>2
      <4>4. QED
        BY <1>9, <4>1, <4>2, <4>3 DEF Sorted
    <3>3. QED
      BY <2>7, <3>1, <3>2
  <2>13. RowsOK'
    BY <1>1, <1>5, <2>7, <2>11, <2>12 DEF RowsOK, Sorted
  <2>14. MarksOK'
    <3>1. DOMAIN rows \subseteq DOMAIN rows'
      BY <2>2, <2>6, <2>7
    <3>2. marks.tags \subseteq (DOMAIN rows') \X Tags /\ marks.reactions \subseteq (DOMAIN rows') \X Alive
          /\ marks.links \subseteq (DOMAIN rows') \X (DOMAIN rows')
      BY <1>1, <3>1 DEF MarksOK
    <3>3. QED
      BY <1>1, <1>5, <2>9, <3>2 DEF MarksOK
  <2>15. PICK r : r = Answered(cl, "ok")
    OBVIOUS
  <2>16. r \in Command /\ r = NoTalk /\ call' = [call EXCEPT ![c] = r]
    BY <1>1, <1>2, <2>1, <2>15, IdleOK DEF Answered, Answer, Becomes
  <2>17. CallOK(r)'
    BY <2>7, <2>16 DEF CallOK, NoTalk
  <2>18. ASSUME NEW x \in Command, CallOK(x) PROVE CallOK(x)'
    <3>1. x.heard \in Nat /\ x.at \in Nat
      BY DEF Command
    <3>2. x.at <= NextPosition(rows, x.buffer) => x.at <= NextPosition(rows', x.buffer)
      <4>1. PICK b : b = x.buffer
        OBVIOUS
      <4>2. QED
        BY <2>8, <3>1, <4>1
    <3>3. x.pc = "born" => x.race \/ Called(x.name)' = {}
      BY <1>5, <2>9, <2>18 DEF CallOK, Called
    <3>4. Len(rows) <= Len(rows') /\ Len(rows') \in Nat /\ DOMAIN rows' = 1..Len(rows')
      BY <2>2, <2>6, <2>7
    <3>5. QED
      BY <1>5, <2>2, <2>7, <2>9, <2>18, <3>1, <3>2, <3>3, <3>4, CallStays
  <2>19. ASSUME NEW d \in Callers PROVE call'[d] \in Command /\ CallOK(call[d])'
    <3>1. PICK y : y = call'[d]
      OBVIOUS
    <3>2. y = r \/ (y \in Command /\ CallOK(y))
      BY <1>1, <2>16, <3>1 DEF CallsOK
    <3>3. y \in Command /\ CallOK(y)'
      BY <2>16, <2>17, <2>18, <3>2
    <3>4. QED
      BY <3>1, <3>3
  <2>20. CallsOK'
    BY <1>1, <2>16, <2>19 DEF CallsOK
  <2>21. QED
    BY <1>1, <1>5, <2>10, <2>13, <2>14, <2>20 DEF TalkInv
<1>11. CASE row.author \notin Alive \cup {None}
  <2>1. Answer(c, "failed") /\ TablesSame
    BY <1>2, <1>5, <1>6, <1>11 DEF InsertRow, TablesSame
  <2>2. cl.op # "result" /\ cl.op # "call" /\ (cl.op = "say" => cl.race)
    BY <1>4, <1>9, <1>11 DEF Excused
  <2>3. Answered(cl, "failed") \in Command /\ CallOK(Answered(cl, "failed"))
    BY <1>1, <1>4, <2>2, AnsweredOK
  <2>4. PICK r : r = Answered(cl, "failed")
    OBVIOUS
  <2>5. call' = [call EXCEPT ![c] = r]
    BY <1>2, <2>1, <2>4 DEF Answer, Becomes
  <2>6. QED
    BY <1>1, <1>5, <2>1, <2>3, <2>4, <2>5, OnlyCall
<1>12. QED
  BY <1>10, <1>11

-----------------------------------------------------------------------------
(* Every step of those who talk                                            *)

\* Before anybody spoke, all tables are empty.
LEMMA TalkStarts ==
  ASSUME TalkInit
  PROVE  TalkInv
<1>1. agents = <<>> /\ auth = <<>> /\ chats = <<>> /\ rows = <<>> /\ clock = 0 /\ talks = 0 /\ owed = {}
      /\ marks = [tags |-> {}, reactions |-> {}, links |-> {}] /\ call = [c \in Callers |-> NoTalk]
  BY DEF TalkInit
<1>2. AgentsOK
  BY <1>1 DEF AgentsOK, Alive
<1>3. RowsOK
  BY <1>1 DEF RowsOK
<1>4. MarksOK
  BY <1>1 DEF MarksOK
<1>5. CallsOK
  <2>1. NoTalk \in Command /\ CallOK(NoTalk)
    BY <1>3, IdleOK
  <2>2. QED
    BY <1>1, <2>1 DEF CallsOK
<1>6. QED
  BY <1>1, <1>2, <1>3, <1>4, <1>5, TalkAssumption DEF TalkInv

\* What nobody touches stays as it is.
LEMMA TalkRests ==
  ASSUME TalkInv, UNCHANGED talkVars
  PROVE  TalkInv'
<1>1. UNCHANGED <<agents, auth, chats, rows, marks, clock, call, owed, talks>>
  BY DEF talkVars
<1>2. AgentsOK'
  BY <1>1 DEF TalkInv, AgentsOK, Alive, Opens, Owing, Holders
<1>3. RowsOK' /\ MarksOK'
  BY <1>1, RowsKept, MarksKept DEF TalkInv, Alive
<1>4. CallsOK'
  BY <1>1, CallKept DEF TalkInv, CallsOK
<1>5. QED
  BY <1>1, <1>2, <1>3, <1>4 DEF TalkInv

\* Every call of the database, of any command and of any caller, keeps it.
LEMMA TalkStepKeeps ==
  ASSUME TalkInv, TalkNext
  PROVE  TalkInv'
<1>1. ASSUME NEW c \in Clients,
             Say(c) \/ AppendRow(c) \/ Tool(c) \/ Login(c)
             \/ AddTag(c) \/ RemoveTag(c) \/ AddReaction(c) \/ AddLink(c)
      PROVE  TalkInv'
  <2>1. CASE Say(c) \/ Login(c)
    BY <2>1, NamedKeeps
  <2>2. CASE AppendRow(c) \/ Tool(c)
    BY <2>2, ByIdKeeps
  <2>3. CASE AddTag(c) \/ RemoveTag(c) \/ AddReaction(c) \/ AddLink(c)
    BY <2>3, MarkKeeps
  <2>4. QED
    BY <1>1, <2>1, <2>2, <2>3
<1>2. CASE AdminAdd \/ AdminRemove
  BY <1>2, NamedKeeps
<1>3. CASE AdminRemoveKey
  BY <1>3, AdminRemoveKeyKeeps
<1>4. CASE DeleteAgent
  BY <1>4, DeleteAgentKeeps
<1>5. ASSUME NEW c \in Callers,
             FindChat(c) \/ StampChat(c) \/ MakeChat(c) \/ FindAgent(c) \/ InsertAgent(c)
             \/ UpsertAuth(c) \/ CheckAgent(c) \/ FindLast(c) \/ InsertRow(c)
      PROVE  TalkInv'
  BY <1>5, FindChatKeeps, StampChatKeeps, MakeChatKeeps, FindAgentKeeps, InsertAgentKeeps,
     UpsertAuthKeeps, CheckAgentKeeps, FindLastKeeps, InsertRowKeeps
<1>6. QED
  BY <1>1, <1>2, <1>3, <1>4, <1>5 DEF TalkNext

\* What the invariant says of keys, of the order of rows, and of the tables
LEMMA TalkShows ==
  ASSUME TalkInv
  PROVE  KeysOpen /\ OrderIsKept /\ TalkTypeOK
<1>1. AgentsOK /\ RowsOK /\ MarksOK /\ CallsOK /\ talks \in 0..MaxTalk
  BY DEF TalkInv
<1>2. KeysOpen
  <2>1. ASSUME NEW key \in Keys, NEW a \in FindByAuth(key)
        PROVE  IF a = None THEN \A o \in owed : o[2] # key
                           ELSE <<agents[a].name, key>> \in owed
    <3>1. \A b \in Alive : b # None
      BY <1>1, TalkAssumption DEF AgentsOK, Alive
    <3>2. CASE Holders(key) = {}
      <4>1. a = None
        BY <3>2 DEF FindByAuth
      <4>2. \A o \in owed : o[2] # key
        BY <1>1, <3>2 DEF AgentsOK, Opens
      <4>3. QED
        BY <4>1, <4>2
    <3>3. CASE Holders(key) # {}
      <4>1. a \in Alive /\ auth[a] = key
        BY <3>3 DEF FindByAuth, Holders
      <4>2. key # None
        BY TalkAssumption
      <4>3. QED
        BY <1>1, <3>1, <4>1, <4>2 DEF AgentsOK, Owing
    <3>4. QED
      BY <3>2, <3>3
  <2>2. QED
    BY <1>1, <2>1 DEF KeysOpen, CallsOK, CallOK
<1>3. \A i \in DOMAIN rows : RowOK(i) /\ rows[i] \in Written
  BY <1>1 DEF RowsOK
<1>4. rows \in Seq(Written) /\ DOMAIN rows = 1..Len(rows) /\ Len(rows) \in Nat
  BY <1>1 DEF RowsOK
<1>5. OrderIsKept
  <2>1. ASSUME NEW j \in DOMAIN rows, NEW i \in 1..rows[j].after, rows[i].buffer = rows[j].buffer
        PROVE  IF rows[i].parent = None /\ rows[j].parent = None THEN j \in RowsSince(rows, rows[j].buffer, i)
               ELSE rows[i].pos <= rows[j].pos
    <3>1. Sorted(i, rows[j].pos, rows[j].parent)
      BY <1>1, <2>1 DEF RowsOK
    <3>2. CASE rows[i].parent = None /\ rows[j].parent = None
      <4>1. rows[j].pos > rows[i].pos
        <5>1. rows[j].after \in 0..(j - 1) /\ j \in Nat /\ j <= Len(rows)
          BY <1>3, <1>4 DEF RowOK
        <5>2. i \in DOMAIN rows
          BY <1>4, <5>1
        <5>3. rows[i].pos \in Nat /\ rows[j].pos \in Nat
          BY <1>3, <5>2 DEF Written
        <5>4. rows[i].pos < rows[j].pos
          BY <3>1, <3>2 DEF Sorted
        <5>5. QED
          BY <5>3, <5>4
      <4>2. QED
        BY <2>1, <3>2, <4>1 DEF RowsSince, ListRows, InBuffer
    <3>3. CASE ~(rows[i].parent = None /\ rows[j].parent = None)
      BY <3>1, <3>3 DEF Sorted
    <3>4. QED
      BY <3>2, <3>3
  <2>2. QED
    BY <2>1 DEF OrderIsKept
<1>6. TalkTypeOK
  <2>1. \A a \in DOMAIN agents : agents[a] \in [name : Names, live : BOOLEAN, kind : {"human", "model"}]
    <3>1. \A a \in DOMAIN agents : agents[a] \in Agent
      BY <1>1 DEF AgentsOK
    <3>2. QED
      BY <3>1 DEF Agent
  <2>2. \A a \in DOMAIN auth : auth[a] # None => auth[a] \in Keys /\ a \in Alive
    BY <1>1 DEF AgentsOK
  <2>3. ASSUME NEW i \in DOMAIN rows
        PROVE  rows[i] \in [buffer : DOMAIN chats, pos : Nat, author : Alive \cup {None}, method : Methods,
                            parent : (1..(i - 1)) \cup {None}, after : 0..(i - 1)]
    <3>1. PICK row \in Written : row = rows[i]
      BY <1>3
    <3>2. /\ row.buffer \in DOMAIN chats /\ row.author \in Alive \cup {None}
          /\ row.parent \in (1..(i - 1)) \cup {None} /\ row.after \in 0..(i - 1)
      BY <1>3, <3>1 DEF RowOK
    <3>3. row \in [buffer : DOMAIN chats, pos : Nat, author : Alive \cup {None}, method : Methods,
                   parent : (1..(i - 1)) \cup {None}, after : 0..(i - 1)]
      BY <3>2 DEF Written
    <3>4. QED
      BY <3>1, <3>3
  <2>4. \A i \in DOMAIN rows : rows[i].parent # None => rows[rows[i].parent].buffer = rows[i].buffer
    BY <1>3 DEF RowOK
  <2>5. \A c \in Callers : call[c].answer \in {"none", "failed"}
    BY <1>1 DEF CallsOK, Command
  <2>6. \A a, b \in Alive : agents[a].name = agents[b].name => a = b
    BY <1>1 DEF AgentsOK
  <2>7. QED
    BY <1>1, <2>1, <2>2, <2>3, <2>4, <2>5, <2>6 DEF TalkTypeOK, AgentsOK, MarksOK
<1>7. QED
  BY <1>2, <1>5, <1>6

\* The invariant holds whatever family of tables a behaviour works on.
LEMMA TalkHolds == RecordsSpec => []TalkInv
<1>1. RecordsInit => TalkInv
  BY TalkStarts DEF RecordsInit
<1>2. TalkInv /\ [RecordsNext]_recordsVars => TalkInv'
  <2>1. SUFFICES ASSUME TalkInv, [RecordsNext]_recordsVars PROVE TalkInv'
    OBVIOUS
  <2>2. CASE TalkStep
    BY <2>1, <2>2, TalkStepKeeps DEF TalkStep
  <2>3. CASE UNCHANGED talkVars
    BY <2>1, <2>3, TalkRests
  <2>4. QED
    BY <2>1, <2>2, <2>3 DEF RecordsNext, PromptsStep, ExitsStep, recordsVars
<1>3. QED
  BY <1>1, <1>2, PTL DEF RecordsSpec

\* Whichever row the query for a key takes, it is a name the key was added for
\* last and not removed from since; it finds none only if there is none; and
\* adding a key and speaking fail only
\* where the agent was made or removed by another caller in between: the
\* look for an agent and its insert are two calls, and so are the insert and
\* the key (db/agents.rs, ssh/handler.rs).
THEOREM KeysOpenAlways == RecordsSpec => []KeysOpen
<1>1. TalkInv => KeysOpen
  BY TalkShows
<1>2. QED
  BY <1>1, TalkHolds, PTL

\* A row whose call began after another row of its buffer was there is after
\* that one for every reader, though append_row reads the last position in
\* one call and inserts the row in another (db/rows.rs).
THEOREM OrderIsKeptAlways == RecordsSpec => []OrderIsKept
<1>1. TalkInv => OrderIsKept
  BY TalkShows
<1>2. QED
  BY <1>1, TalkHolds, PTL

-----------------------------------------------------------------------------
(* Sets in order, and what is picked from a sequence                       *)

\* A finite set in order has each of its members at one place.
LEMMA InOrderLists ==
  ASSUME NEW set, IsFiniteSet(set), NEW before \in [set -> SUBSET set],
         \A i \in set : i \notin before[i],
         \A i, j \in set : i # j =>
           \/ i \in before[j] /\ before[i] \subseteq before[j]
           \/ j \in before[i] /\ before[j] \subseteq before[i]
  PROVE  LET s == InOrder(set, before)
             N == Cardinality(set)
         IN  /\ N \in Nat /\ DOMAIN s = 1..N /\ s \in [1..N -> set]
             /\ \A n, m \in 1..N : s[n] = s[m] => n = m
             /\ \A i \in set : \E n \in 1..N : s[n] = i
<1> DEFINE s == InOrder(set, before)
           N == Cardinality(set)
           rank == [i \in set |-> Cardinality(before[i]) + 1]
<1>1. N \in Nat /\ IsFiniteSet(1..N) /\ Cardinality(1..N) = N
  <2>1. N \in Nat
    BY FS_CardinalityType
  <2>2. QED
    BY <2>1, FS_Interval
<1>2. ASSUME NEW i \in set
      PROVE  IsFiniteSet(before[i]) /\ Cardinality(before[i]) \in Nat /\ Cardinality(before[i]) < N
  <2>1. before[i] \in SUBSET set /\ before[i] # set
    OBVIOUS
  <2>2. IsFiniteSet(before[i]) /\ Cardinality(before[i]) <= N /\ (N = Cardinality(before[i]) => set = before[i])
    BY <2>1, FS_Subset
  <2>3. Cardinality(before[i]) \in Nat
    BY <2>2, FS_CardinalityType
  <2>4. QED
    BY <1>1, <2>1, <2>2, <2>3
<1>3. ASSUME NEW i \in set, NEW j \in set, i \in before[j], before[i] \subseteq before[j]
      PROVE  Cardinality(before[i]) # Cardinality(before[j])
  <2>1. before[i] \in SUBSET before[j] /\ before[i] # before[j]
    BY <1>3
  <2>2. QED
    BY <1>2, <2>1, FS_Subset
<1>4. \A i, j \in set : Cardinality(before[i]) = Cardinality(before[j]) => i = j
  BY <1>3
<1>5. rank \in Injection(set, 1..N)
  <2>1. \A i \in set : Cardinality(before[i]) + 1 \in 1..N
    BY <1>1, <1>2
  <2>2. rank \in [set -> 1..N]
    BY <2>1
  <2>3. \A i, j \in set : rank[i] = rank[j] => i = j
    BY <1>2, <1>4
  <2>4. QED
    BY <2>2, <2>3 DEF Injection, IsInjective
<1>6. rank \in Surjection(set, 1..N)
  BY <1>1, <1>5, FS_Injection
<1>7. ASSUME NEW n \in 1..N
      PROVE  s[n] \in set /\ Cardinality(before[s[n]]) = n - 1
  <2>1. PICK i \in set : rank[i] = n
    BY <1>6 DEF Surjection
  <2>2. Cardinality(before[i]) = n - 1
    BY <1>2, <2>1
  <2>3. s[n] = CHOOSE j \in set : Cardinality(before[j]) = n - 1
    BY DEF InOrder
  <2>4. QED
    BY <2>2, <2>3
<1>8. DOMAIN s = 1..N /\ s \in [1..N -> set]
  BY <1>7 DEF InOrder
<1>9. \A n, m \in 1..N : s[n] = s[m] => n = m
  <2>1. ASSUME NEW n \in 1..N, NEW m \in 1..N, s[n] = s[m] PROVE n = m
    <3>1. n - 1 = m - 1
      BY <1>7, <2>1
    <3>2. QED
      BY <1>1, <3>1
  <2>2. QED
    BY <2>1
<1>10. ASSUME NEW i \in set PROVE \E n \in 1..N : s[n] = i
  <2>1. Cardinality(before[i]) + 1 \in 1..N
    BY <1>1, <1>2
  <2>2. Cardinality(before[s[Cardinality(before[i]) + 1]]) = Cardinality(before[i])
    BY <1>2, <1>7, <2>1
  <2>3. s[Cardinality(before[i]) + 1] = i
    BY <1>4, <1>7, <2>1, <2>2
  <2>4. QED
    BY <2>1, <2>3
<1> HIDE DEF s, N, rank
<1>11. /\ N \in Nat /\ DOMAIN s = 1..N /\ s \in [1..N -> set]
       /\ \A n, m \in 1..N : s[n] = s[m] => n = m
       /\ \A i \in set : \E n \in 1..N : s[n] = i
  BY <1>1, <1>8, <1>9, <1>10
<1>12. QED
  BY <1>11 DEF s, N

\* The entries of a sequence, and a sequence that repeats none
Entries(s) == {s[n] : n \in DOMAIN s}
Listing(s) == /\ Len(s) \in Nat /\ DOMAIN s = 1..Len(s)
              /\ \A n, m \in DOMAIN s : s[n] = s[m] => n = m

\* What is picked are the entries at the places.
LEMMA PickEntries ==
  ASSUME NEW s, DOMAIN s \in SUBSET Nat, IsFiniteSet(DOMAIN s), NEW places \in SUBSET DOMAIN s
  PROVE  Entries(Pick(s, places)) = {s[n] : n \in places}
<1> DEFINE before == [n \in places |-> {m \in places : m < n}]
           order == InOrder(places, before)
           N == Cardinality(places)
<1>1. IsFiniteSet(places)
  BY FS_Subset
<1>2. before \in [places -> SUBSET places] /\ \A n \in places : n \notin before[n]
  OBVIOUS
<1>3. ASSUME NEW i \in places, NEW j \in places, i # j
      PROVE  \/ i \in before[j] /\ before[i] \subseteq before[j]
             \/ j \in before[i] /\ before[j] \subseteq before[i]
  <2>1. i \in Nat /\ j \in Nat /\ \A m \in places : m \in Nat
    OBVIOUS
  <2>2. CASE i < j
    BY <2>1, <2>2
  <2>3. CASE j < i
    BY <2>1, <2>3
  <2>4. QED
    BY <1>3, <2>1, <2>2, <2>3
<1> HIDE DEF before
<1>4. /\ DOMAIN order = 1..N /\ order \in [1..N -> places]
      /\ \A i \in places : \E n \in 1..N : order[n] = i
  BY <1>1, <1>2, <1>3, InOrderLists
<1>5. Pick(s, places) = [n \in DOMAIN order |-> s[order[n]]]
  BY DEF Pick, before
<1> HIDE DEF order, N
<1>6. QED
  BY <1>4, <1>5 DEF Entries

\* What is picked at some places and what is picked at the others share
\* nothing, and miss nothing.
LEMMA PickDivides ==
  ASSUME NEW s, Listing(s), NEW places \in SUBSET DOMAIN s
  PROVE  Divides(<<Entries(Pick(s, places)), Entries(Pick(s, (DOMAIN s) \ places))>>, Entries(s))
<1>1. DOMAIN s \in SUBSET Nat /\ IsFiniteSet(DOMAIN s)
  BY FS_Interval DEF Listing
<1> DEFINE A == Entries(Pick(s, places))
           B == Entries(Pick(s, (DOMAIN s) \ places))
<1>2. A = {s[n] : n \in places} /\ B = {s[n] : n \in (DOMAIN s) \ places}
  BY <1>1, PickEntries
<1>3. A \cup B = Entries(s)
  BY <1>2 DEF Entries
<1>4. A \cap B = {}
  BY <1>2 DEF Listing
<1> HIDE DEF A, B
<1>5. Divides(<<A, B>>, Entries(s))
  BY <1>3, <1>4 DEF Divides
<1>6. QED
  BY <1>5 DEF A, B

\* Two adjacent parts of a sequence
LEMMA PartsDivide ==
  ASSUME NEW s, NEW S, s \in Seq(S), Listing(s), NEW n \in 0..Len(s)
  PROVE  Divides(<<Entries(SubSeq(s, 1, n)), Entries(SubSeq(s, n + 1, Len(s)))>>, Entries(s))
<1> DEFINE A == Entries(SubSeq(s, 1, n))
           B == Entries(SubSeq(s, n + 1, Len(s)))
<1>1. A = {s[m] : m \in 1..n}
  <2>1. /\ DOMAIN SubSeq(s, 1, n) = 1..n
        /\ \A m \in 1..n : SubSeq(s, 1, n)[m] = s[m]
    BY DEF Listing
  <2>2. QED
    BY <2>1 DEF Entries
<1>2. B = {s[m] : m \in (n + 1)..Len(s)}
  <2>1. Len(s) \in Nat /\ n \in Nat
    BY DEF Listing
  <2>2. /\ DOMAIN SubSeq(s, n + 1, Len(s)) = 1..(Len(s) - n)
        /\ \A m \in 1..(Len(s) - n) : SubSeq(s, n + 1, Len(s))[m] = s[n + m]
    BY <2>1
  <2>3. ASSUME NEW m \in (n + 1)..Len(s) PROVE s[m] \in B
    <3>1. m - n \in 1..(Len(s) - n) /\ n + (m - n) = m
      BY <2>1
    <3>2. QED
      BY <2>2, <3>1 DEF Entries
  <2>4. ASSUME NEW x \in B PROVE x \in {s[m] : m \in (n + 1)..Len(s)}
    <3>1. PICK m \in 1..(Len(s) - n) : x = s[n + m]
      BY <2>2, <2>4 DEF Entries
    <3>2. n + m \in (n + 1)..Len(s)
      BY <2>1
    <3>3. QED
      BY <3>1, <3>2
  <2>5. QED
    BY <2>3, <2>4
<1>3. A \cup B = Entries(s)
  <2>1. DOMAIN s = (1..n) \cup ((n + 1)..Len(s))
    BY DEF Listing
  <2>2. QED
    BY <1>1, <1>2, <2>1 DEF Entries
<1>4. A \cap B = {}
  <2>1. ASSUME NEW m \in 1..n, NEW k \in (n + 1)..Len(s) PROVE s[m] # s[k]
    BY DEF Listing
  <2>2. QED
    BY <1>1, <1>2, <2>1
<1> HIDE DEF A, B
<1>5. Divides(<<A, B>>, Entries(s))
  BY <1>3, <1>4 DEF Divides
<1>6. QED
  BY <1>5 DEF A, B
-----------------------------------------------------------------------------
(* What is said is shown                                                   *)

\* A chat buffer is made by one who found none.  A row below another is the
\* row of a tool, below the placeholder of a reply.
RowShows(i) ==
  /\ rows[i].parent # None <=> IsTool(rows[i])
  /\ rows[i].parent # None => rows[rows[i].parent].method = "thinking.stream"
CallShows(cl) ==
  /\ cl.pc = "chat" => cl.seen <= Len(chats)
  /\ cl.pc \in {"stamp", "make"} => cl.seen = 0
  /\ cl.pc \in {"last", "row"} /\ cl.op \in {"call", "result"} =>
       rows[cl.row].method = "thinking.stream"
ShowInv ==
  /\ \A b \in DOMAIN chats : chats[b].after = 0
  /\ \A i \in DOMAIN rows : RowShows(i)
  /\ \A c \in Callers : CallShows(call[c])

\* Before anybody spoke, nothing is there.
LEMMA ShowStarts ==
  ASSUME TalkInit
  PROVE  ShowInv
<1>1. chats = <<>> /\ rows = <<>> /\ call = [c \in Callers |-> NoTalk]
  BY DEF TalkInit
<1>2. NoTalk.pc = "idle"
  BY DEF NoTalk
<1>3. \A c \in Callers : call[c] = NoTalk
  BY <1>1
<1>4. QED
  BY <1>1, <1>2, <1>3 DEF ShowInv, CallShows

\* What stands where, and what is looked at of a command
SameWork(x, y) == x.pc = y.pc /\ x.op = y.op /\ x.seen = y.seen /\ x.row = y.row
Grows == /\ Len(chats) <= Len(chats') /\ DOMAIN rows \subseteq DOMAIN rows'
         /\ \A i \in DOMAIN rows : rows'[i] = rows[i]

\* A step of one caller, by which tables grow, and others learn at most of a race
LEMMA ShowStep ==
  ASSUME TalkInv, ShowInv, Grows, Len(chats') \in Nat, NEW c \in Callers, NEW r, call'[c] = r,
         CallShows(r)', \A d \in Callers : d # c => SameWork(call[d], call'[d]),
         \A b \in DOMAIN chats' : chats'[b].after = 0, \A i \in DOMAIN rows' : RowShows(i)'
  PROVE  ShowInv'
<1>1. ASSUME NEW d \in Callers PROVE CallShows(call[d])'
  <2>1. PICK y : y = call'[d]
    OBVIOUS
  <2>2. CASE d = c
    <3>1. y = r
      BY <2>1, <2>2
    <3>2. CallShows(y)'
      BY <3>1
    <3>3. QED
      BY <2>1, <3>2
  <2>3. CASE d # c
    <3>1. PICK x \in Command : x = call[d]
      BY DEF TalkInv, CallsOK
    <3>2. CallOK(x) /\ CallShows(x) /\ SameWork(x, y)
      BY <2>1, <2>3, <3>1 DEF TalkInv, CallsOK, ShowInv
    <3>3. y.pc = "chat" => y.seen <= Len(chats')
      <4>1. x.seen \in Nat /\ Len(chats) \in Nat
        BY DEF Command, TalkInv, RowsOK
      <4>2. QED
        BY <3>2, <4>1 DEF CallShows, SameWork, Grows
    <3>4. y.pc \in {"stamp", "make"} => y.seen = 0
      BY <3>2 DEF CallShows, SameWork
    <3>5. y.pc \in {"last", "row"} /\ y.op \in {"call", "result"} => rows'[y.row].method = "thinking.stream"
      <4>1. SUFFICES ASSUME y.pc \in {"last", "row"}, y.op \in {"call", "result"}
                     PROVE  rows'[y.row].method = "thinking.stream"
        OBVIOUS
      <4>2. x.row \in DOMAIN rows
        BY <3>2, <4>1 DEF CallOK, SameWork
      <4>3. rows[x.row].method = "thinking.stream" /\ x.row = y.row
        BY <3>2, <4>1 DEF CallShows, SameWork
      <4>4. QED
        BY <4>2, <4>3 DEF Grows
    <3>6. CallShows(y)'
      BY <3>3, <3>4, <3>5 DEF CallShows
    <3>7. QED
      BY <2>1, <3>6
  <2>4. QED
    BY <2>2, <2>3
<1>2. QED
  BY <1>1 DEF ShowInv

\* A step that changes neither buffers nor rows
LEMMA ReadShows ==
  ASSUME TalkInv, ShowInv, chats' = chats, rows' = rows, NEW c \in Callers, NEW r, call'[c] = r,
         CallShows(r), \A d \in Callers : d # c => SameWork(call[d], call'[d])
  PROVE  ShowInv'
<1>1. Grows /\ Len(chats') \in Nat
  BY DEF TalkInv, RowsOK, Grows
<1>2. CallShows(r)' /\ \A i \in DOMAIN rows' : RowShows(i)'
  BY DEF CallShows, RowShows, ShowInv, IsTool
<1>3. \A b \in DOMAIN chats' : chats'[b].after = 0
  BY DEF ShowInv
<1>4. QED
  BY <1>1, <1>2, <1>3, ShowStep

\* Such a step, of one caller only
LEMMA OwnShows ==
  ASSUME TalkInv, ShowInv, chats' = chats, rows' = rows, NEW c \in Callers, NEW r,
         call' = [call EXCEPT ![c] = r], CallShows(r)
  PROVE  ShowInv'
<1>1. call'[c] = r /\ \A d \in Callers : d # c => call'[d] = call[d]
  BY DEF TalkInv, CallsOK
<1>2. \A d \in Callers : d # c => SameWork(call[d], call'[d])
  BY <1>1 DEF SameWork
<1>3. QED
  BY <1>1, <1>2, ReadShows

\* The answer of a command is idle.
LEMMA AnsweredIdle == \A cl, a : Answered(cl, a).pc = "idle" /\ CallShows(Answered(cl, a))
<1>1. ASSUME NEW cl, NEW a PROVE Answered(cl, a).pc = "idle"
  BY DEF Answered, NoTalk
<1>2. QED
  BY <1>1 DEF CallShows

\* A command that begins has seen the buffers there are, and knows the
\* placeholder it puts tools below.
LEMMA StartShows ==
  ASSUME TalkInv, ShowInv, NEW c \in Callers, NEW r \in Command, Starts(c, r),
         r.pc \in {"idle", "chat", "agent", "check", "last"}, r.pc = "chat" => r.op = "say",
         r.pc = "last" => rows[r.row].method = "thinking.stream"
  PROVE  ShowInv'
<1>1. PICK n : n = IF r.op = "say" THEN Len(chats) ELSE 0
  OBVIOUS
<1>2. PICK h : h = IF r.op \in {"none", "key", "remove"} THEN 0 ELSE Len(rows)
  OBVIOUS
<1>3. PICK x : x = [r EXCEPT !.seen = n, !.heard = h]
  OBVIOUS
<1>4. x.pc = r.pc /\ x.op = r.op /\ x.row = r.row /\ x.seen = n
  BY <1>3 DEF Command
<1>5. Len(chats) \in Nat
  BY DEF TalkInv, RowsOK
<1>6. CallShows(x)
  BY <1>1, <1>4, <1>5 DEF CallShows
<1>7. call' = [call EXCEPT ![c] = x] /\ chats' = chats /\ rows' = rows
  BY <1>1, <1>2, <1>3 DEF Starts, Becomes
<1>8. QED
  BY <1>6, <1>7, OwnShows

LEMMA BeginShows ==
  ASSUME TalkInv, ShowInv,
         \/ \E c \in Clients : Say(c) \/ AppendRow(c) \/ Tool(c) \/ Login(c)
         \/ AdminAdd \/ AdminRemove
  PROVE  ShowInv'
<1>1. /\ \A a \in DOMAIN agents : a \in Nat /\ agents[a].name \in Names
      /\ \A i \in DOMAIN rows : i \in Nat /\ rows[i] \in Written
      /\ \A b \in DOMAIN chats : b \in Nat
  <2>1. \A a \in DOMAIN agents : a \in Nat /\ agents[a] \in Agent
    BY DEF TalkInv, AgentsOK
  <2>2. QED
    BY <2>1 DEF TalkInv, RowsOK, Agent
<1>2. \A c \in Clients : c \in Callers
  BY DEF Callers
<1>3. NoTalk \in Command /\ NoTalk.pc = "idle"
  BY IdleOK DEF TalkInv
<1>4. CASE \E c \in Clients : Say(c)
  <2>1. PICK c \in Clients, name \in Names :
          Starts(c, [NoTalk EXCEPT !.pc = "chat", !.op = "say", !.name = name])
    BY <1>4 DEF Say
  <2>2. PICK r : r = [NoTalk EXCEPT !.pc = "chat", !.op = "say", !.name = name]
    OBVIOUS
  <2>3. r \in Command /\ r.pc = "chat" /\ r.op = "say"
    BY <2>2 DEF NoTalk, Command
  <2>4. QED
    BY <1>2, <2>1, <2>2, <2>3, StartShows
<1>5. CASE \E c \in Clients : AppendRow(c)
  <2>1. PICK c \in Clients, b \in DOMAIN chats, a \in DOMAIN agents :
          Starts(c, [NoTalk EXCEPT !.pc = "check", !.op = "append", !.buffer = b, !.agent = a,
                                   !.name = agents[a].name])
    BY <1>5 DEF AppendRow
  <2>2. PICK r : r = [NoTalk EXCEPT !.pc = "check", !.op = "append", !.buffer = b, !.agent = a,
                                    !.name = agents[a].name]
    OBVIOUS
  <2>3. r \in Command /\ r.pc = "check"
    BY <1>1, <2>2 DEF NoTalk, Command
  <2>4. QED
    BY <1>2, <2>1, <2>2, <2>3, StartShows
<1>6. CASE \E c \in Clients : Tool(c)
  <2>1. PICK c \in Clients, i \in DOMAIN rows, op \in {"call", "result"} :
          /\ rows[i].method = "thinking.stream"
          /\ Starts(c, [NoTalk EXCEPT !.pc = "last", !.op = op, !.buffer = rows[i].buffer,
                           !.agent = rows[i].author, !.row = i,
                           !.name = agents[rows[i].author].name])
    BY <1>6 DEF Tool
  <2>2. rows[i].buffer \in Nat /\ rows[i].author \in DOMAIN agents /\ rows[i].author \in Nat
    <3>1. RowOK(i)
      BY DEF TalkInv, RowsOK
    <3>2. QED
      BY <1>1, <2>1, <3>1 DEF RowOK, Alive, Written
  <2>3. PICK r : r = [NoTalk EXCEPT !.pc = "last", !.op = op, !.buffer = rows[i].buffer,
                        !.agent = rows[i].author, !.row = i, !.name = agents[rows[i].author].name]
    OBVIOUS
  <2>4. r \in Command /\ r.pc = "last" /\ r.row = i
    BY <1>1, <2>2, <2>3 DEF NoTalk, Command
  <2>5. QED
    BY <1>2, <2>1, <2>3, <2>4, StartShows
<1>7. ASSUME NEW c \in Callers, NEW name \in Humans, NEW key \in Keys,
             Starts(c, [NoTalk EXCEPT !.pc = "agent", !.op = "key", !.name = name, !.key = key])
      PROVE  ShowInv'
  <2>1. PICK r : r = [NoTalk EXCEPT !.pc = "agent", !.op = "key", !.name = name, !.key = key]
    OBVIOUS
  <2>2. r \in Command /\ r.pc = "agent"
    BY <2>1 DEF NoTalk, Command, Names
  <2>3. QED
    BY <1>7, <2>1, <2>2, StartShows
<1>8. CASE \E c \in Clients : Login(c)
  <2>1. PICK c \in Clients, name \in Humans, key \in Keys : \E found \in FindByAuth(key) :
          Starts(c, IF found # None THEN NoTalk
                    ELSE [NoTalk EXCEPT !.pc = "agent", !.op = "key", !.name = name, !.key = key])
    BY <1>8 DEF Login
  <2>2. PICK found \in FindByAuth(key) :
          Starts(c, IF found # None THEN NoTalk
                    ELSE [NoTalk EXCEPT !.pc = "agent", !.op = "key", !.name = name, !.key = key])
    BY <2>1
  <2>3. CASE found # None
    BY <1>2, <1>3, <2>2, <2>3, StartShows
  <2>4. CASE found = None
    BY <1>2, <1>7, <2>2, <2>4
  <2>5. QED
    BY <2>3, <2>4
<1>9. CASE AdminAdd
  BY <1>7, <1>9 DEF AdminAdd, Callers
<1>10. CASE AdminRemove
  <2>1. PICK name \in Humans :
          Starts(Admin, [NoTalk EXCEPT !.pc = "agent", !.op = "remove", !.name = name])
    BY <1>10 DEF AdminRemove
  <2>2. PICK r : r = [NoTalk EXCEPT !.pc = "agent", !.op = "remove", !.name = name]
    OBVIOUS
  <2>3. r \in Command /\ r.pc = "agent"
    BY <2>2 DEF NoTalk, Command, Names
  <2>4. QED
    BY <2>1, <2>2, <2>3, StartShows DEF Callers
<1>11. QED
  BY <1>4, <1>5, <1>6, <1>8, <1>9, <1>10

\* Who marks a row, or whom the administrator takes the key, is idle after.
LEMMA MarkShows ==
  ASSUME TalkInv, ShowInv,
         \/ \E c \in Clients : AddTag(c) \/ RemoveTag(c) \/ AddReaction(c) \/ AddLink(c)
         \/ AdminRemoveKey
  PROVE  ShowInv'
<1>1. CallShows(NoTalk)
  BY DEF CallShows, NoTalk
<1>2. PICK c \in Callers : Becomes(c, NoTalk) /\ chats' = chats /\ rows' = rows
  BY DEF AddTag, RemoveTag, AddReaction, AddLink, Mark, AdminRemoveKey, Callers
<1>3. call' = [call EXCEPT ![c] = NoTalk]
  BY <1>2 DEF Becomes
<1>4. QED
  BY <1>1, <1>2, <1>3, OwnShows

\* Who finds no buffer has seen none when the command began.
LEMMA FindChatShows ==
  ASSUME TalkInv, ShowInv, NEW c \in Callers, FindChat(c) \/ StampChat(c)
  PROVE  ShowInv'
<1>1. PICK cl \in Command : cl = call[c]
  BY DEF TalkInv, CallsOK
<1>2. CallShows(cl) /\ cl.seen \in Nat /\ Len(chats) \in Nat /\ DOMAIN chats = 1..Len(chats)
  BY <1>1 DEF ShowInv, Command, TalkInv, RowsOK
<1>3. chats' = chats /\ rows' = rows
  BY DEF FindChat, StampChat
<1>4. CASE FindChat(c) /\ ChatsFound = {}
  <2>1. PICK r : r = [cl EXCEPT !.pc = "stamp"]
    OBVIOUS
  <2>2. r.pc = "stamp" /\ r.seen = cl.seen
    BY <2>1 DEF Command
  <2>3. cl.pc = "chat" /\ call' = [call EXCEPT ![c] = r]
    BY <1>1, <1>4, <2>1 DEF FindChat, Becomes, At
  <2>4. Len(chats) = 0
    BY <1>2, <1>4 DEF ChatsFound
  <2>5. CallShows(r)
    BY <1>2, <2>2, <2>3, <2>4 DEF CallShows
  <2>6. QED
    BY <1>3, <2>3, <2>5, OwnShows
<1>5. CASE FindChat(c) /\ ChatsFound # {}
  <2>1. PICK r : r = [cl EXCEPT !.pc = "agent", !.buffer = CurrentChat]
    OBVIOUS
  <2>2. r.pc = "agent"
    BY <2>1 DEF Command
  <2>3. call' = [call EXCEPT ![c] = r]
    BY <1>1, <1>5, <2>1 DEF FindChat, Becomes
  <2>4. QED
    BY <1>3, <2>2, <2>3, OwnShows DEF CallShows
<1>6. CASE StampChat(c)
  <2>1. PICK r : r = [cl EXCEPT !.pc = "make", !.at = clock + 1]
    OBVIOUS
  <2>2. r.pc = "make" /\ r.seen = cl.seen
    BY <2>1 DEF Command
  <2>3. cl.pc = "stamp" /\ call' = [call EXCEPT ![c] = r]
    BY <1>1, <1>6, <2>1 DEF StampChat, Becomes, At
  <2>4. CallShows(r)
    BY <1>2, <2>2, <2>3 DEF CallShows
  <2>5. QED
    BY <1>3, <2>3, <2>4, OwnShows
<1>7. QED
  BY <1>4, <1>5, <1>6

\* The new buffer is made by one who had seen none.
LEMMA MakeChatShows ==
  ASSUME TalkInv, ShowInv, NEW c \in Callers, MakeChat(c)
  PROVE  ShowInv'
<1>1. PICK cl \in Command : cl = call[c]
  BY DEF TalkInv, CallsOK
<1>2. CallShows(cl) /\ cl.pc = "make" /\ cl.at \in Nat /\ cl.seen \in Nat /\ cl.seen = 0
  BY <1>1 DEF ShowInv, CallShows, Command, MakeChat, At
<1>3. PICK T : T = [at : Nat, after : Nat]
  OBVIOUS
<1>4. PICK e \in T : e = [at |-> cl.at, after |-> cl.seen]
  BY <1>2, <1>3
<1>5. chats \in Seq(T) /\ chats' = Append(chats, e) /\ rows' = rows /\ e.after = 0
  BY <1>1, <1>2, <1>3, <1>4 DEF TalkInv, RowsOK, MakeChat
<1>6. Len(chats') = Len(chats) + 1 /\ Len(chats) \in Nat
      /\ \A b \in DOMAIN chats' : (b \in DOMAIN chats /\ chats'[b] = chats[b]) \/ chats'[b] = e
  BY <1>5
<1>7. \A b \in DOMAIN chats' : chats'[b].after = 0
  BY <1>5, <1>6 DEF ShowInv
<1>8. PICK r : r = [cl EXCEPT !.pc = "agent", !.buffer = Len(chats) + 1]
  OBVIOUS
<1>9. r.pc = "agent"
  BY <1>8 DEF Command
<1>10. call' = [call EXCEPT ![c] = r]
  BY <1>1, <1>8 DEF MakeChat, Becomes
<1>11. call'[c] = r /\ \A d \in Callers : d # c => SameWork(call[d], call'[d])
  BY <1>10 DEF TalkInv, CallsOK, SameWork
<1>12. CallShows(r)'
  BY <1>9 DEF CallShows
<1>13. Grows /\ Len(chats') \in Nat
  BY <1>5, <1>6 DEF Grows
<1>14. \A i \in DOMAIN rows' : RowShows(i)'
  BY <1>5 DEF ShowInv, RowShows, IsTool
<1>15. QED
  BY <1>7, <1>11, <1>12, <1>13, <1>14, ShowStep

\* Those who learn of a race go on where they were.
LEMMA DisturbedSame ==
  ASSUME TalkInv, NEW c \in Callers, NEW r, NEW name,
         call' = Disturbed([call EXCEPT ![c] = r], c, name)
  PROVE  call'[c] = r /\ \A d \in Callers : d # c => SameWork(call[d], call'[d])
<1>1. PICK cs : cs = [call EXCEPT ![c] = r]
  OBVIOUS
<1>2. cs[c] = r /\ \A d \in Callers : d # c => cs[d] = call[d]
  BY <1>1 DEF TalkInv, CallsOK
<1>3. call' = [d \in Callers |-> IF d # c /\ cs[d].pc # "idle" /\ cs[d].name = name
                                 THEN [cs[d] EXCEPT !.race = TRUE] ELSE cs[d]]
  BY <1>1 DEF Disturbed
<1>4. ASSUME NEW d \in Callers, d # c PROVE SameWork(call[d], call'[d])
  <2>1. PICK x \in Command : x = call[d]
    BY DEF TalkInv, CallsOK
  <2>2. call'[d] = x \/ call'[d] = [x EXCEPT !.race = TRUE]
    BY <1>2, <1>3, <1>4, <2>1
  <2>3. QED
    BY <2>1, <2>2 DEF SameWork, Command
<1>5. QED
  BY <1>2, <1>3, <1>4

\* The calls about agents and keys
LEMMA AgentShows ==
  ASSUME TalkInv, ShowInv, NEW c \in Callers,
         FindAgent(c) \/ InsertAgent(c) \/ UpsertAuth(c) \/ (c = Admin /\ DeleteAgent)
  PROVE  ShowInv'
<1>1. PICK cl \in Command : cl = call[c]
  BY DEF TalkInv, CallsOK
<1>2. CallShows(cl) /\ CallOK(cl)
  BY <1>1 DEF ShowInv, TalkInv, CallsOK
<1>3. chats' = chats /\ rows' = rows
  BY DEF FindAgent, InsertAgent, UpsertAuth, DeleteAgent
<1>4. ASSUME NEW a, Answer(c, a) PROVE ShowInv'
  <2>1. PICK r : r = Answered(cl, a)
    OBVIOUS
  <2>2. call' = [call EXCEPT ![c] = r] /\ CallShows(r)
    BY <1>1, <1>4, <2>1, AnsweredIdle DEF Answer, Becomes
  <2>3. QED
    BY <1>3, <2>2, OwnShows
<1>5. ASSUME NEW r, cl.pc \in {"agent", "born"}, r.pc = AfterAgent(cl.op), r.op = cl.op
      PROVE  CallShows(r)
  <2>1. r.pc = AfterAgent(cl.op) /\ r.op = cl.op /\ cl.op \in {"say", "key", "remove"}
    BY <1>2, <1>5 DEF CallOK
  <2>2. r.pc \in {"last", "auth", "delete"} /\ (r.pc = "last" => r.op = "say")
    BY <2>1 DEF AfterAgent
  <2>3. QED
    BY <2>2 DEF CallShows
<1>6. CASE FindAgent(c)
  <2>1. CASE \E a \in Called(cl.name) :
               Becomes(c, [cl EXCEPT !.pc = AfterAgent(cl.op), !.agent = a])
    <3>1. PICK a \in Called(cl.name) : Becomes(c, [cl EXCEPT !.pc = AfterAgent(cl.op), !.agent = a])
      BY <2>1
    <3>2. PICK r : r = [cl EXCEPT !.pc = AfterAgent(cl.op), !.agent = a]
      OBVIOUS
    <3>3. call' = [call EXCEPT ![c] = r] /\ cl.pc = "agent"
      BY <1>1, <1>6, <3>1, <3>2 DEF FindAgent, At, Becomes
    <3>4. r.pc = AfterAgent(cl.op) /\ r.op = cl.op
      BY <3>2 DEF Command
    <3>5. CallShows(r)
      BY <1>5, <3>3, <3>4
    <3>6. QED
      BY <1>3, <3>3, <3>5, OwnShows
  <2>2. CASE Goto(c, "born")
    <3>1. PICK r : r = [cl EXCEPT !.pc = "born"]
      OBVIOUS
    <3>2. r.pc = "born" /\ call' = [call EXCEPT ![c] = r]
      BY <1>1, <2>2, <3>1 DEF Goto, Becomes, Command
    <3>3. QED
      BY <1>3, <3>2, OwnShows DEF CallShows
  <2>3. QED
    BY <1>1, <1>4, <1>6, <2>1, <2>2 DEF FindAgent
<1>7. CASE InsertAgent(c)
  <2>1. CASE NameIsFree(cl.name)
    <3>1. PICK n : n = Len(agents) + 1
      OBVIOUS
    <3>2. PICK r : r = [cl EXCEPT !.pc = AfterAgent(cl.op), !.agent = n]
      OBVIOUS
    <3>3. cl.pc = "born" /\ call' = Disturbed([call EXCEPT ![c] = r], c, cl.name)
      <4>1. At(c, "born") /\ NameIsFree(call[c].name)
            /\ call' = Disturbed([call EXCEPT ![c] =
                          [call[c] EXCEPT !.pc = AfterAgent(call[c].op), !.agent = Len(agents) + 1]], c, call[c].name)
        BY <1>1, <1>7, <2>1 DEF InsertAgent
      <4>2. QED
        BY <1>1, <3>1, <3>2, <4>1 DEF At
    <3>4. r.pc = AfterAgent(cl.op) /\ r.op = cl.op
      BY <3>2 DEF Command
    <3>5. CallShows(r)
      BY <1>5, <3>3, <3>4
    <3>6. QED
      BY <1>3, <3>3, <3>5, DisturbedSame, ReadShows
  <2>2. QED
    BY <1>1, <1>4, <1>7, <2>1 DEF InsertAgent
<1>8. CASE UpsertAuth(c)
  BY <1>4, <1>8 DEF UpsertAuth
<1>9. CASE c = Admin /\ DeleteAgent
  <2>1. CASE ~Referenced(cl.agent)
    <3>1. PICK r : r = Answered(cl, "ok")
      OBVIOUS
    <3>2. call' = Disturbed([call EXCEPT ![c] = r], c, cl.name) /\ CallShows(r)
      BY <1>1, <1>9, <2>1, <3>1, AnsweredIdle DEF DeleteAgent
    <3>3. QED
      BY <1>3, <3>2, DisturbedSame, ReadShows
  <2>2. QED
    BY <1>1, <1>4, <1>9, <2>1 DEF DeleteAgent
<1>10. QED
  BY <1>6, <1>7, <1>8, <1>9

\* The calls of append_row that read
LEMMA ReadRowShows ==
  ASSUME TalkInv, ShowInv, NEW c \in Callers, CheckAgent(c) \/ FindLast(c)
  PROVE  ShowInv'
<1>1. PICK cl \in Command : cl = call[c]
  BY DEF TalkInv, CallsOK
<1>2. CallShows(cl) /\ CallOK(cl)
  BY <1>1 DEF ShowInv, TalkInv, CallsOK
<1>3. chats' = chats /\ rows' = rows
  BY DEF CheckAgent, FindLast
<1>4. CASE CheckAgent(c) /\ call[c].agent \in Alive
  <2>1. PICK r : r = [cl EXCEPT !.pc = "last"]
    OBVIOUS
  <2>2. r.pc = "last" /\ r.op = "append"
    BY <1>1, <1>2, <1>4, <2>1 DEF Command, CallOK, CheckAgent, At
  <2>3. call' = [call EXCEPT ![c] = r]
    BY <1>1, <1>4, <2>1 DEF CheckAgent, Goto, Becomes
  <2>4. QED
    BY <1>3, <2>2, <2>3, OwnShows DEF CallShows
<1>5. CASE CheckAgent(c) /\ call[c].agent \notin Alive
  <2>1. PICK r : r = Answered(cl, "failed")
    OBVIOUS
  <2>2. call' = [call EXCEPT ![c] = r] /\ CallShows(r)
    BY <1>1, <1>5, <2>1, AnsweredIdle DEF CheckAgent, Answer, Becomes
  <2>3. QED
    BY <1>3, <2>2, OwnShows
<1>6. CASE FindLast(c)
  <2>1. PICK n : n = NextPosition(rows, cl.buffer)
    OBVIOUS
  <2>2. PICK r : r = [cl EXCEPT !.pc = "row", !.at = n]
    OBVIOUS
  <2>3. r.pc = "row" /\ r.op = cl.op /\ r.row = cl.row
    BY <2>2 DEF Command
  <2>4. cl.pc = "last" /\ call' = [call EXCEPT ![c] = r]
    BY <1>1, <1>6, <2>1, <2>2 DEF FindLast, At, Becomes
  <2>5. CallShows(r)
    BY <1>2, <2>3, <2>4 DEF CallShows
  <2>6. QED
    BY <1>3, <2>4, <2>5, OwnShows
<1>7. QED
  BY <1>4, <1>5, <1>6

\* The row that is inserted
LEMMA InsertRowShows ==
  ASSUME TalkInv, ShowInv, NEW c \in Callers, InsertRow(c)
  PROVE  ShowInv'
<1>1. PICK cl \in Command : cl = call[c]
  BY DEF TalkInv, CallsOK
<1>2. CallShows(cl) /\ CallOK(cl) /\ cl.pc = "row"
  BY <1>1 DEF ShowInv, TalkInv, CallsOK, InsertRow, At
<1>3. /\ cl.op \in {"say", "append", "call", "result"} /\ cl.agent \in DOMAIN agents
      /\ cl.op \in {"call", "result"} => cl.row \in DOMAIN rows /\ rows[cl.row].method = "thinking.stream"
  BY <1>2 DEF CallOK, CallShows
<1>4. PICK kind \in {"human", "model"} : kind = agents[cl.agent].kind
  <2>1. agents[cl.agent] \in Agent
    BY <1>3 DEF TalkInv, AgentsOK
  <2>2. QED
    BY <2>1 DEF Agent
<1>5. PICK row : row = [NewRow(cl) EXCEPT !.pos = cl.at, !.after = cl.heard]
  OBVIOUS
<1>6. /\ cl.op \in {"call", "result"} => row.parent = cl.row
      /\ cl.op \notin {"call", "result"} => row.parent = None
      /\ cl.op \in {"call", "result"} <=> row.method \in {"tool.call", "tool.result"}
  <2>1. row = PlacedAt(NewRow(cl), cl.at, cl.heard)
    BY <1>5 DEF PlacedAt
  <2>2. QED
    BY <1>3, <1>4, <2>1, RowIs
<1>7. chats' = chats /\ Len(rows) \in Nat /\ DOMAIN rows = 1..Len(rows) /\ Len(chats) \in Nat
  BY DEF InsertRow, TalkInv, RowsOK
<1>8. CASE row.author \in Alive \cup {None}
  <2>1. rows' = Append(rows, row) /\ Answer(c, "ok")
    BY <1>1, <1>5, <1>8 DEF InsertRow
  <2>2. PICK n : n = Len(rows) + 1
    OBVIOUS
  <2>3. /\ DOMAIN rows' = 1..n /\ rows'[n] = row
        /\ \A i \in DOMAIN rows : i \in DOMAIN rows' /\ rows'[i] = rows[i]
    BY <1>7, <2>1, <2>2 DEF TalkInv, RowsOK
  <2>4. ASSUME NEW i \in DOMAIN rows' PROVE RowShows(i)'
    <3>1. CASE i \in DOMAIN rows
      <4>1. RowShows(i) /\ rows'[i] = rows[i]
        BY <2>3, <3>1 DEF ShowInv
      <4>2. rows[i].parent # None => rows[i].parent \in DOMAIN rows
        <5>1. RowOK(i)
          BY <3>1 DEF TalkInv, RowsOK
        <5>2. i \in Nat /\ i <= Len(rows)
          BY <1>7, <3>1
        <5>3. QED
          BY <1>7, <5>1, <5>2 DEF RowOK
      <4>3. QED
        BY <2>3, <4>1, <4>2 DEF RowShows, IsTool
    <3>2. CASE i = n
      <4>1. cl.op \in {"call", "result"} => row.parent # None
        BY <1>3, <1>6, <1>7, TalkAssumption
      <4>2. rows'[i] = row
        BY <2>3, <3>2
      <4>3. row.parent # None => rows'[row.parent].method = "thinking.stream"
        BY <1>3, <1>6, <2>3
      <4>4. row.parent # None <=> IsTool(row)
        BY <1>6, <4>1 DEF IsTool
      <4>5. QED
        BY <4>2, <4>3, <4>4 DEF RowShows
    <3>3. QED
      BY <1>7, <2>2, <2>3, <3>1, <3>2
  <2>5. PICK r : r = Answered(cl, "ok")
    OBVIOUS
  <2>6. call' = [call EXCEPT ![c] = r] /\ r.pc = "idle"
    BY <1>1, <2>1, <2>5, AnsweredIdle DEF Answer, Becomes
  <2>7. CallShows(r)'
    BY <2>6 DEF CallShows
  <2>8. call'[c] = r /\ \A d \in Callers : d # c => SameWork(call[d], call'[d])
    BY <2>6 DEF TalkInv, CallsOK, SameWork
  <2>9. Grows /\ Len(chats') \in Nat /\ \A b \in DOMAIN chats' : chats'[b].after = 0
    BY <1>7, <2>3 DEF Grows, ShowInv
  <2>10. QED
    BY <2>4, <2>7, <2>8, <2>9, ShowStep
<1>9. CASE row.author \notin Alive \cup {None}
  <2>1. Answer(c, "failed") /\ rows' = rows
    BY <1>1, <1>5, <1>9 DEF InsertRow
  <2>2. PICK r : r = Answered(cl, "failed")
    OBVIOUS
  <2>3. call' = [call EXCEPT ![c] = r] /\ CallShows(r)
    BY <1>1, <2>1, <2>2, AnsweredIdle DEF Answer, Becomes
  <2>4. QED
    BY <1>7, <2>1, <2>3, OwnShows
<1>10. QED
  BY <1>8, <1>9

\* Every step keeps what is shown.
LEMMA ShowHolds == RecordsSpec => []ShowInv
<1>1. RecordsInit => ShowInv
  BY ShowStarts DEF RecordsInit
<1>2. TalkInv /\ ShowInv /\ [RecordsNext]_recordsVars => ShowInv'
  <2>1. SUFFICES ASSUME TalkInv, ShowInv, [RecordsNext]_recordsVars PROVE ShowInv'
    OBVIOUS
  <2>2. CASE TalkStep
    <3>1. TalkNext
      BY <2>2 DEF TalkStep
    <3>2. CASE \/ \E c \in Clients : Say(c) \/ AppendRow(c) \/ Tool(c) \/ Login(c)
               \/ AdminAdd \/ AdminRemove
      BY <2>1, <3>2, BeginShows
    <3>3. CASE \/ \E c \in Clients : AddTag(c) \/ RemoveTag(c) \/ AddReaction(c) \/ AddLink(c)
               \/ AdminRemoveKey
      BY <2>1, <3>3, MarkShows
    <3>4. CASE DeleteAgent
      BY <2>1, <3>4, AgentShows DEF Callers
    <3>5. CASE \E c \in Callers : FindChat(c) \/ StampChat(c) \/ MakeChat(c) \/ FindAgent(c)
                   \/ InsertAgent(c) \/ UpsertAuth(c) \/ CheckAgent(c) \/ FindLast(c) \/ InsertRow(c)
      BY <2>1, <3>5, FindChatShows, MakeChatShows, AgentShows, ReadRowShows, InsertRowShows
    <3>6. QED
      BY <3>1, <3>2, <3>3, <3>4, <3>5 DEF TalkNext
  <2>3. CASE UNCHANGED talkVars
    BY <2>1, <2>3 DEF talkVars, ShowInv, RowShows, CallShows
  <2>4. QED
    BY <2>1, <2>2, <2>3 DEF RecordsNext, PromptsStep, ExitsStep, recordsVars
<1>3. QED
  BY <1>1, <1>2, TalkHolds, PTL DEF RecordsSpec

-----------------------------------------------------------------------------
(* What readers see of the rows                                            *)

\* A row set has the rows of a buffer that are below none, once each.
LEMMA RowsetLists ==
  ASSUME TalkInv, NEW b
  PROVE  LET s == Rowset(rows, b)
         IN  Listing(s) /\ s \in Seq(Nat) /\ Entries(s) = ListRows(rows, b)
<1> DEFINE shown == ListRows(rows, b)
           before == [i \in shown |-> {j \in shown : \/ rows[j].pos < rows[i].pos
                                                     \/ rows[j].pos = rows[i].pos /\ j < i}]
           s == InOrder(shown, before)
           N == Cardinality(shown)
<1>1. Len(rows) \in Nat /\ DOMAIN rows = 1..Len(rows) /\ \A i \in DOMAIN rows : rows[i] \in Written
  BY DEF TalkInv, RowsOK
<1>2. shown \in SUBSET DOMAIN rows /\ IsFiniteSet(shown) /\ \A i \in shown : i \in Nat /\ rows[i].pos \in Nat
  <2>1. shown \in SUBSET DOMAIN rows
    BY DEF ListRows, InBuffer
  <2>2. IsFiniteSet(DOMAIN rows)
    BY <1>1, FS_Interval
  <2>3. \A i \in DOMAIN rows : i \in Nat /\ rows[i].pos \in Nat
    BY <1>1 DEF Written
  <2>4. QED
    BY <2>1, <2>2, <2>3, FS_Subset
<1> HIDE DEF shown
<1>3. before \in [shown -> SUBSET shown] /\ \A i \in shown : i \notin before[i]
  BY <1>2
<1>4. ASSUME NEW i \in shown, NEW j \in shown, i # j
      PROVE  \/ i \in before[j] /\ before[i] \subseteq before[j]
             \/ j \in before[i] /\ before[j] \subseteq before[i]
  <2>1. CASE rows[i].pos < rows[j].pos \/ (rows[i].pos = rows[j].pos /\ i < j)
    BY <1>2, <2>1
  <2>2. CASE rows[j].pos < rows[i].pos \/ (rows[j].pos = rows[i].pos /\ j < i)
    BY <1>2, <2>2
  <2>3. QED
    BY <1>2, <1>4, <2>1, <2>2
<1> HIDE DEF before
<1>5. /\ N \in Nat /\ DOMAIN s = 1..N /\ s \in [1..N -> shown]
      /\ \A n, m \in 1..N : s[n] = s[m] => n = m
      /\ \A i \in shown : \E n \in 1..N : s[n] = i
  <2>1. IsFiniteSet(shown)
    BY <1>2
  <2>2. \A i \in shown : i \notin before[i]
    BY <1>3
  <2>3. before \in [shown -> SUBSET shown]
    BY <1>3
  <2>4. \A i, j \in shown : i # j =>
          \/ i \in before[j] /\ before[i] \subseteq before[j]
          \/ j \in before[i] /\ before[j] \subseteq before[i]
    BY <1>4
  <2>5. QED
    BY <2>1, <2>2, <2>3, <2>4, InOrderLists
<1> HIDE DEF s, N
<1>6. s \in Seq(Nat) /\ Len(s) = N
  <2>1. s \in [1..N -> Nat]
    BY <1>2, <1>5
  <2>2. QED
    BY <1>5, <2>1
<1>7. Listing(s) /\ s \in Seq(Nat) /\ Entries(s) = shown
  BY <1>5, <1>6 DEF Listing, Entries
<1>8. Rowset(rows, b) = s
  BY DEF Rowset, s, shown, before
<1>9. QED
  BY <1>7, <1>8 DEF shown

\* A page of a row set is one of its parts.
LEMMA SliceIs ==
  ASSUME NEW s, Len(s) \in Nat, NEW offset \in 0..Len(s), NEW limit \in Nat, NEW end \in 0..Len(s),
         end = offset + limit \/ (end = Len(s) /\ Len(s) <= offset + limit)
  PROVE  Slice(s, offset, limit) = SubSeq(s, offset + 1, end)
<1>1. PICK N \in Nat : N = Len(s)
  OBVIOUS
<1>2. SmallerOf(offset, N) = offset
  BY <1>1 DEF SmallerOf
<1>3. SmallerOf(offset + limit, N) = end
  BY <1>1 DEF SmallerOf
<1>4. QED
  BY <1>1, <1>2, <1>3 DEF Slice

\* A page with a limit no smaller than what is left is the rest.
LEMMA RestIs ==
  ASSUME NEW s, Len(s) \in Nat, NEW n \in 0..Len(s)
  PROVE  Slice(s, n, Len(s)) = SubSeq(s, n + 1, Len(s))
<1>1. PICK N \in Nat : N = Len(s)
  OBVIOUS
<1>2. SmallerOf(n, N) = n
  BY <1>1 DEF SmallerOf
<1>3. n \in Int
  BY <1>1
<1>4. SmallerOf(n + N, N) = N
  BY <1>1, <1>3 DEF SmallerOf
<1>5. SmallerOf(SmallerOf(n, N) + N, N) = N
  BY <1>2, <1>4
<1>6. Slice(s, n, Len(s)) = SubSeq(s, SmallerOf(n, N) + 1, SmallerOf(SmallerOf(n, N) + N, N))
  BY <1>1 DEF Slice
<1>7. QED
  BY <1>1, <1>2, <1>5, <1>6

\* Of a buffer, its pages, its shares by tag and by author, and the rows below
\* its rows miss nothing and share nothing.
LEMMA BufferDivides ==
  ASSUME TalkInv, ShowInv, NEW b
  PROVE  BufferIsDivided(b)
<1> DEFINE s == Rowset(rows, b)
           shown == ListRows(rows, b)
<1>1. Listing(s) /\ s \in Seq(Nat) /\ Entries(s) = shown
  BY RowsetLists
<1>2. Len(rows) \in Nat /\ DOMAIN rows = 1..Len(rows)
  BY DEF TalkInv, RowsOK
<1> HIDE DEF s
<1>3. Len(s) \in Nat /\ DOMAIN s = 1..Len(s)
  BY <1>1 DEF Listing
<1>4. ASSUME NEW n \in 0..Len(s)
      PROVE  /\ Divides(<<Entries(Slice(s, 0, n)), Entries(Slice(s, n, Len(s)))>>, Entries(s))
             /\ Divides(<<Entries(Slice(s, 0, Len(s) - n)), Entries(LastOf(s, n))>>, Entries(s))
  <2>1. Slice(s, 0, n) = SubSeq(s, 1, n)
    <3>1. Slice(s, 0, n) = SubSeq(s, 0 + 1, n)
      BY <1>3, SliceIs
    <3>2. QED
      BY <3>1
  <2>2. Slice(s, n, Len(s)) = SubSeq(s, n + 1, Len(s))
    BY <1>3, RestIs
  <2>3. PICK k \in 0..Len(s) : k = Len(s) - n
    <3>1. Len(s) \in Nat
      BY <1>3
    <3>2. n \in Nat /\ n <= Len(s)
      BY <3>1
    <3>3. Len(s) - n \in 0..Len(s)
      BY <3>1, <3>2
    <3>4. QED
      BY <3>3
  <2>4. Slice(s, 0, k) = SubSeq(s, 1, k)
    <3>1. Slice(s, 0, k) = SubSeq(s, 0 + 1, k)
      BY <1>3, SliceIs
    <3>2. QED
      BY <3>1
  <2>5. LastOf(s, n) = SubSeq(s, k + 1, Len(s))
    <3>1. 1 + (IF n < Len(s) THEN Len(s) - n ELSE 0) = k + 1
      BY <1>3, <2>3
    <3>2. QED
      BY <3>1 DEF LastOf
  <2>6. QED
    BY <1>1, <2>1, <2>2, <2>3, <2>4, <2>5, PartsDivide
<1>5. ASSUME NEW t \in Tags
      PROVE  Divides(<<Entries(WithTag(marks.tags, s, t)), Entries(WithoutTag(marks.tags, s, t))>>, Entries(s))
  <2>1. PICK places \in SUBSET DOMAIN s : places = {n \in DOMAIN s : <<s[n], t>> \in marks.tags}
    OBVIOUS
  <2>2. (DOMAIN s) \ places = {n \in DOMAIN s : <<s[n], t>> \notin marks.tags}
    BY <2>1
  <2>3. WithTag(marks.tags, s, t) = Pick(s, places)
        /\ WithoutTag(marks.tags, s, t) = Pick(s, (DOMAIN s) \ places)
    BY <2>1, <2>2 DEF WithTag, WithoutTag
  <2>4. QED
    BY <1>1, <2>3, PickDivides
<1>6. LET groups == Groups(rows, s)
      IN  Divides([a \in DOMAIN groups |-> Entries(groups[a])], Entries(s))
  <2> DEFINE authors == {rows[s[i]].author : i \in DOMAIN s}
             part(a) == {s[n] : n \in {m \in DOMAIN s : rows[s[m]].author = a}}
             groups == Groups(rows, s)
             shares == [a \in DOMAIN groups |-> Entries(groups[a])]
  <2>1. DOMAIN groups = authors /\ \A a \in authors : groups[a] = Where(rows, s, a)
    BY DEF Groups
  <2>2. ASSUME NEW a PROVE Entries(Where(rows, s, a)) = part(a)
    <3>1. PICK places \in SUBSET DOMAIN s : places = {n \in DOMAIN s : rows[s[n]].author = a}
      OBVIOUS
    <3>2. DOMAIN s \in SUBSET Nat /\ IsFiniteSet(DOMAIN s)
      BY <1>3, FS_Interval
    <3>3. Where(rows, s, a) = Pick(s, places)
      BY <3>1 DEF Where
    <3>4. QED
      BY <3>1, <3>2, <3>3, PickEntries
  <2> HIDE DEF groups
  <2>3. DOMAIN shares = authors /\ \A a \in authors : shares[a] = part(a)
    BY <2>1, <2>2
  <2> HIDE DEF shares
  <2>4. UNION {shares[a] : a \in authors} = Entries(s)
    <3>1. ASSUME NEW n \in DOMAIN s PROVE \E a \in authors : s[n] \in shares[a]
      <4>1. PICK a : a = rows[s[n]].author
        OBVIOUS
      <4>2. a \in authors /\ s[n] \in part(a)
        BY <4>1
      <4>3. QED
        BY <2>3, <4>2
    <3>2. ASSUME NEW a \in authors, NEW x \in shares[a] PROVE x \in Entries(s)
      BY <2>3 DEF Entries
    <3>3. QED
      BY <3>1, <3>2 DEF Entries
  <2>5. ASSUME NEW a \in authors, NEW c \in authors, a # c PROVE shares[a] \cap shares[c] = {}
    <3>1. ASSUME NEW n \in DOMAIN s, NEW m \in DOMAIN s, s[n] = s[m], rows[s[n]].author = a, rows[s[m]].author = c
          PROVE  FALSE
      BY <2>5, <3>1
    <3>2. QED
      BY <2>3, <3>1
  <2>6. Divides(shares, Entries(s))
    BY <2>3, <2>4, <2>5 DEF Divides
  <2>7. QED
    BY <2>6 DEF shares, groups
<1>7. Divides([i \in shown |-> {i} \cup ListChildren(rows, i)], InBuffer(rows, b))
  <2> DEFINE below == [i \in shown |-> {i} \cup ListChildren(rows, i)]
  <2>1. \A i \in DOMAIN rows : i \in Nat /\ RowOK(i) /\ RowShows(i)
    BY <1>2 DEF TalkInv, RowsOK, ShowInv
  <2>2. ASSUME NEW i \in shown PROVE i \in InBuffer(rows, b) /\ rows[i].parent = None /\ i \in Nat
    BY <2>1 DEF ListRows, InBuffer
  <2>3. ASSUME NEW i \in shown, NEW j \in ListChildren(rows, i)
        PROVE  j \in InBuffer(rows, b) /\ rows[j].parent = i
    <3>1. j \in DOMAIN rows /\ rows[j].parent = i /\ i # None
      BY <2>2, TalkAssumption DEF ListChildren
    <3>2. rows[i].buffer = rows[j].buffer
      BY <2>1, <3>1 DEF RowOK
    <3>3. QED
      BY <2>2, <3>1, <3>2 DEF InBuffer
  <2>4. ASSUME NEW j \in InBuffer(rows, b) PROVE \E i \in shown : j \in below[i]
    <3>1. CASE rows[j].parent = None
      BY <3>1 DEF ListRows
    <3>2. CASE rows[j].parent # None
      <4>1. j \in DOMAIN rows /\ rows[j].buffer = b
        BY DEF InBuffer
      <4>2. PICK i : i = rows[j].parent
        OBVIOUS
      <4>3. i \in DOMAIN rows /\ rows[i].buffer = b
        BY <1>2, <2>1, <3>2, <4>1, <4>2 DEF RowOK
      <4>4. rows[i].method = "thinking.stream"
        BY <2>1, <3>2, <4>1, <4>2 DEF RowShows
      <4>5. rows[i].parent = None
        BY <2>1, <4>3, <4>4 DEF RowShows, IsTool
      <4>6. i \in shown /\ j \in ListChildren(rows, i)
        BY <4>1, <4>2, <4>3, <4>5 DEF ListRows, InBuffer, ListChildren
      <4>7. QED
        BY <4>6
    <3>3. QED
      BY <3>1, <3>2
  <2>5. UNION {below[i] : i \in DOMAIN below} = InBuffer(rows, b)
    BY <2>2, <2>3, <2>4
  <2>6. ASSUME NEW i \in shown, NEW k \in shown, i # k PROVE below[i] \cap below[k] = {}
    <3>1. \A j \in below[i] : j = i \/ rows[j].parent = i
      BY <2>3
    <3>2. \A j \in below[k] : j = k \/ rows[j].parent = k
      BY <2>3
    <3>3. i # None /\ k # None /\ rows[i].parent = None /\ rows[k].parent = None
      BY <2>2, TalkAssumption
    <3>4. QED
      BY <2>6, <3>1, <3>2, <3>3
  <2>7. QED
    BY <2>5, <2>6 DEF Divides
<1>8. \A q : {q[i] : i \in DOMAIN q} = Entries(q)
  BY DEF Entries
<1>9. BufferIsDivided(b)
  BY <1>1, <1>4, <1>5, <1>6, <1>7 DEF BufferIsDivided, Entries, s
<1>10. QED
  BY <1>9

\* Of rows that are no more than a limit, all are told.
LEMMA AllAreLatest ==
  ASSUME TalkInv, NEW from \in SUBSET DOMAIN rows
  PROVE  Latest(rows, from, Len(rows)) = {from}
<1>1. Len(rows) \in Nat /\ DOMAIN rows = 1..Len(rows)
  BY DEF TalkInv, RowsOK
<1>2. IsFiniteSet(DOMAIN rows) /\ Cardinality(DOMAIN rows) = Len(rows)
  BY <1>1, FS_Interval
<1>3. Cardinality(from) <= Len(rows)
  BY <1>2, FS_Subset
<1>4. QED
  BY <1>3 DEF Latest

\* What the invariants say of what is shown
LEMMA ShowShows ==
  ASSUME TalkInv, ShowInv
  PROVE  SaidIsShown
<1>1. /\ Len(rows) \in Nat /\ DOMAIN rows = 1..Len(rows)
      /\ Len(chats) \in Nat /\ DOMAIN chats = 1..Len(chats)
      /\ \A d \in DOMAIN chats : chats[d].at \in Nat
      /\ \A i \in DOMAIN rows : RowOK(i) /\ RowShows(i)
  <2>1. PICK T : T = [at : Nat, after : Nat]
    OBVIOUS
  <2>2. chats \in Seq(T)
    BY <2>1 DEF TalkInv, RowsOK
  <2>3. \A d \in DOMAIN chats : chats[d] \in T
    BY <2>2
  <2>4. \A d \in DOMAIN chats : chats[d].at \in Nat
    BY <2>1, <2>3
  <2>5. QED
    BY <2>2, <2>4 DEF TalkInv, RowsOK, ShowInv
<1>2. \A i, j \in DOMAIN chats : i # j => chats[i].after < j /\ chats[j].after < i
  BY <1>1 DEF ShowInv
<1>3. ASSUME Len(chats) = 1
      PROVE  LET b == CurrentChat
                 s == Messages(rows, Rowset(rows, b))
             IN /\ \A recent \in Recent(rows, b, Len(rows)), i \in DOMAIN rows :
                     /\ IsMessage(rows[i]) \/ IsTool(rows[i]) => i \in History(rows, recent)
                     /\ IsMessage(rows[i]) => \E n \in DOMAIN s : s[n] = i
                /\ \A calls \in ListToolCalls(rows, b, Len(rows)) :
                     Cardinality(HistoryTools(rows, calls)) = CountToolCalls(rows, b)
  <2> DEFINE b == CurrentChat
             q == Rowset(rows, b)
             s == Messages(rows, q)
  <2>1. b = 1 /\ \A i \in DOMAIN rows : rows[i].buffer = b
    <3>1. DOMAIN chats = {1} /\ chats[1].at \in Nat
      BY <1>1, <1>3
    <3>2. b = 1
      <4>1. \A d \in DOMAIN chats : chats[1].at <= chats[d].at
        BY <3>1
      <4>2. CurrentChat \in DOMAIN chats
        BY <3>1, <4>1 DEF CurrentChat
      <4>3. QED
        BY <3>1, <4>2
    <3>3. \A i \in DOMAIN rows : rows[i].buffer \in DOMAIN chats
      BY <1>1 DEF RowOK
    <3>4. QED
      BY <3>1, <3>2, <3>3
  <2> HIDE DEF b
  <2>2. Recent(rows, b, Len(rows)) = {ListRows(rows, b) \cup ToolRows(rows, b)}
    <3>1. ListRows(rows, b) \cup ToolRows(rows, b) \in SUBSET DOMAIN rows
      BY DEF ListRows, ToolRows, InBuffer
    <3>2. QED
      BY <3>1, AllAreLatest DEF Recent
  <2>3. ListToolCalls(rows, b, Len(rows)) = {ToolRows(rows, b)}
    <3>1. ToolRows(rows, b) \in SUBSET DOMAIN rows
      BY DEF ToolRows, InBuffer
    <3>2. QED
      BY <3>1, AllAreLatest DEF ListToolCalls
  <2>4. ASSUME NEW i \in DOMAIN rows, IsMessage(rows[i]) PROVE i \in ListRows(rows, b)
    <3>1. ~IsTool(rows[i])
      BY <2>4 DEF IsMessage, IsTool
    <3>2. rows[i].parent = None
      BY <1>1, <3>1 DEF RowShows
    <3>3. QED
      BY <2>1, <3>2 DEF ListRows, InBuffer
  <2>5. ASSUME NEW i \in DOMAIN rows, IsMessage(rows[i]) \/ IsTool(rows[i])
        PROVE  i \in History(rows, ListRows(rows, b) \cup ToolRows(rows, b))
    BY <2>1, <2>4, <2>5 DEF History, ToolRows, InBuffer
  <2>6. ASSUME NEW i \in DOMAIN rows, IsMessage(rows[i]) PROVE \E n \in DOMAIN s : s[n] = i
    <3>1. Listing(q) /\ Entries(q) = ListRows(rows, b)
      BY RowsetLists
    <3> HIDE DEF q
    <3>2. PICK m \in DOMAIN q : q[m] = i
      BY <2>4, <2>6, <3>1 DEF Entries
    <3>3. DOMAIN q \in SUBSET Nat /\ IsFiniteSet(DOMAIN q)
      BY <3>1, FS_Interval DEF Listing
    <3>4. PICK places \in SUBSET DOMAIN q : places = {n \in DOMAIN q : IsMessage(rows[q[n]])}
      OBVIOUS
    <3>5. s = Pick(q, places)
      BY <3>4 DEF Messages
    <3> HIDE DEF s
    <3>6. Entries(s) = {q[n] : n \in places}
      BY <3>3, <3>5, PickEntries
    <3>7. i \in Entries(s)
      BY <2>6, <3>2, <3>4, <3>6
    <3>8. QED
      BY <3>7 DEF Entries
  <2>7. HistoryTools(rows, ToolRows(rows, b)) = ByMethod(rows, b, "tool.call")
    BY DEF HistoryTools, ToolRows, ByMethod, IsTool
  <2> HIDE DEF s, q
  <2>8. /\ \A recent \in Recent(rows, b, Len(rows)), i \in DOMAIN rows :
             /\ IsMessage(rows[i]) \/ IsTool(rows[i]) => i \in History(rows, recent)
             /\ IsMessage(rows[i]) => \E n \in DOMAIN s : s[n] = i
        /\ \A calls \in ListToolCalls(rows, b, Len(rows)) :
             Cardinality(HistoryTools(rows, calls)) = CountToolCalls(rows, b)
    BY <2>2, <2>3, <2>5, <2>6, <2>7 DEF CountToolCalls
  <2>9. QED
    BY <2>8 DEF s, q, b
<1>4. \A b \in DOMAIN chats : BufferIsDivided(b)
  BY BufferDivides
<1>5. QED
  BY <1>2, <1>3, <1>4 DEF SaidIsShown

\* What was said is in the history and in the row set of the one chat buffer
\* of a room, tool calls are counted as they are told, and every division of a
\* buffer into pages, authors, tags and rows below rows misses nothing and
\* doubles nothing; two buffers of a room are made only by callers who
\* overlapped (db/buffers.rs, db/rows.rs, lua/data.rs, lua/tools.rs).
THEOREM SaidIsShownAlways == RecordsSpec => []SaidIsShown
<1>1. TalkInv /\ ShowInv => SaidIsShown
  BY ShowShows
<1>2. QED
  BY <1>1, TalkHolds, ShowHolds, PTL

-----------------------------------------------------------------------------
(* Versions of prompts and edits under way                                 *)

\* Versions and edits
EditOps == {"set", "add", "update", "describe"}
ScriptVersion == [path : Paths, at : 1..drawn, parent : 0..drawn, op : EditOps, seen : SUBSET (0..drawn)]
Follows(p, at, parent, op, seen) ==
  /\ parent < at /\ \A n \in seen : n < at
  /\ op \in {"set", "update"} => \A v \in scripts : v.path = p /\ v.at \in seen => v.at <= parent

VersionsOK ==
  /\ drawn \in Nat /\ IsFiniteSet(scripts) /\ scripts \subseteq ScriptVersion
  /\ \A v, w \in scripts : v.at = w.at => v = w
  /\ \A w \in scripts : Follows(w.path, w.at, w.parent, w.op, w.seen)

Edit == [pc : {"idle", "find", "read", "stamp", "insert"}, op : EditOps \cup {"none"},
         path : Paths \cup {"none"}, script : 0..drawn, at : 0..drawn, seen : SUBSET (0..drawn),
         race : BOOLEAN, answer : {"none", "failed"}]
\* A stamp that is not used yet
Unused(at) ==
  /\ \A v \in scripts : v.at # at /\ at \notin v.seen
  /\ \A e \in Editors : at \notin edit[e].seen

EditOK(r) ==
  /\ r.pc # "idle" => r.op \in EditOps /\ r.path \in Paths
  /\ r.pc = "find" => r.op \in {"set", "update"}
  /\ r.pc = "read" => r.race \/ \E v \in scripts : v.at = r.script /\ v.path = r.path
  /\ r.pc \in {"read", "stamp"} => Follows(r.path, drawn + 1, r.script, r.op, r.seen)
  /\ r.pc = "insert" => r.at # 0 /\ Follows(r.path, r.at, r.script, r.op, r.seen) /\ Unused(r.at)
  /\ r.answer = "failed" => r.race

EditsOK ==
  /\ edit \in [Editors -> Edit] /\ \A e \in Editors : EditOK(edit[e])
  /\ \A e, f \in Editors : edit[e].pc = "insert" /\ edit[f].pc = "insert" /\ e # f => edit[e].at # edit[f].at

PromptsInv == VersionsOK /\ EditsOK /\ edits \in 0..MaxEdits

\* Before anybody edited there are no versions.
LEMMA PromptsStart ==
  ASSUME PromptsInit
  PROVE  PromptsInv
<1>1. scripts = {} /\ drawn = 0 /\ edits = 0 /\ edit = [e \in Editors |-> NoEdit]
  BY DEF PromptsInit
<1>2. VersionsOK
  BY <1>1, FS_EmptySet DEF VersionsOK
<1>3. NoEdit \in Edit /\ EditOK(NoEdit) /\ NoEdit.pc = "idle"
  BY <1>1 DEF NoEdit, Edit, EditOK
<1>4. EditsOK
  BY <1>1, <1>3 DEF EditsOK
<1>5. QED
  BY <1>1, <1>2, <1>4, PromptsAssumption DEF PromptsInv

\* What nobody touches stays as it is.
LEMMA PromptsRest ==
  ASSUME PromptsInv, UNCHANGED promptsVars
  PROVE  PromptsInv'
<1>1. UNCHANGED <<scripts, drawn, edit, edits>>
  BY DEF promptsVars
<1>2. VersionsOK'
  BY <1>1 DEF PromptsInv, VersionsOK, Follows, ScriptVersion
<1>3. EditsOK'
  BY <1>1 DEF PromptsInv, EditsOK, EditOK, Edit, Follows, Unused
<1>4. QED
  BY <1>1, <1>2, <1>3 DEF PromptsInv

\* An edit that is not under way
LEMMA NoEditOK ==
  ASSUME drawn \in Nat, NEW race \in BOOLEAN, NEW answer \in {"none", "failed"},
         answer = "failed" => race
  PROVE  /\ [NoEdit EXCEPT !.race = race, !.answer = answer] \in Edit
         /\ EditOK([NoEdit EXCEPT !.race = race, !.answer = answer])
         /\ [NoEdit EXCEPT !.race = race, !.answer = answer].pc = "idle"
         /\ [NoEdit EXCEPT !.race = race, !.answer = answer].seen = {}
         /\ NoEdit \in Edit /\ EditOK(NoEdit) /\ NoEdit.pc = "idle" /\ NoEdit.seen = {}
<1>1. PICK r : r = [NoEdit EXCEPT !.race = race, !.answer = answer]
  OBVIOUS
<1>2. /\ r.pc = "idle" /\ r.answer = answer /\ r.race = race /\ r.seen = {}
      /\ r \in Edit
  <2>1. PICK q : q = [NoEdit EXCEPT !.race = race]
    OBVIOUS
  <2>2. q \in Edit /\ q.pc = "idle" /\ q.race = race /\ q.seen = {}
    BY <2>1 DEF NoEdit, Edit
  <2>3. r = [q EXCEPT !.answer = answer]
    BY <1>1, <2>1
  <2>4. QED
    BY <2>2, <2>3 DEF Edit
<1>3. EditOK(r)
  BY <1>2 DEF EditOK
<1>4. NoEdit \in Edit /\ EditOK(NoEdit) /\ NoEdit.pc = "idle" /\ NoEdit.seen = {}
  BY DEF NoEdit, Edit, EditOK
<1>5. QED
  BY <1>1, <1>2, <1>3, <1>4

\* One edit goes on and no version is touched: who has a stamp keeps it for
\* himself.
LEMMA OneEdit ==
  ASSUME PromptsInv, NEW e \in Editors, NEW r \in Edit, UNCHANGED <<scripts, drawn>>,
         edit' = [edit EXCEPT ![e] = r], r.pc # "insert", EditOK(r), edits' \in 0..MaxEdits,
         \A n \in r.seen : n \in edit[e].seen \/ \E v \in scripts : v.at = n
  PROVE  PromptsInv'
<1>1. VersionsOK /\ EditsOK
  BY DEF PromptsInv
<1>2. VersionsOK'
  BY <1>1 DEF VersionsOK, Follows, ScriptVersion
<1>3. /\ edit' \in [Editors -> Edit] /\ edit'[e] = r
      /\ \A f \in Editors : f # e => edit'[f] = edit[f]
  BY <1>1 DEF EditsOK
<1>4. ASSUME NEW at, Unused(at) PROVE Unused(at)'
  <2>1. ASSUME NEW f \in Editors PROVE at \notin edit'[f].seen
    BY <1>3, <1>4, <2>1 DEF Unused
  <2>2. QED
    BY <1>4, <2>1 DEF Unused
<1>5. ASSUME NEW f \in Editors PROVE EditOK(edit[f])'
  <2>1. PICK x : x = edit'[f]
    OBVIOUS
  <2>2. EditOK(x)
    BY <1>1, <1>3, <2>1 DEF EditsOK
  <2>3. x.pc = "insert" => Unused(x.at)'
    BY <1>4, <2>2 DEF EditOK
  <2>4. EditOK(x)'
    BY <2>2, <2>3 DEF EditOK, Follows
  <2>5. QED
    BY <2>1, <2>4
<1>6. EditsOK'
  <2>1. Edit' = Edit
    BY DEF Edit
  <2>2. \A f, g \in Editors : edit'[f].pc = "insert" /\ edit'[g].pc = "insert" /\ f # g =>
                                edit'[f].at # edit'[g].at
    BY <1>1, <1>3 DEF EditsOK
  <2>3. QED
    BY <1>3, <1>5, <2>1, <2>2 DEF EditsOK
<1>7. QED
  BY <1>2, <1>6 DEF PromptsInv

\* A command starts: it has seen the versions there are.
LEMMA EditStarts ==
  ASSUME PromptsInv, NEW e \in Editors, SetPrompt(e) \/ AddPrompt(e) \/ UpdateByPath(e) \/ Describe(e)
  PROVE  PromptsInv'
<1>1. VersionsOK /\ EditsOK /\ edits \in 0..MaxEdits /\ drawn \in Nat
  BY DEF PromptsInv, VersionsOK
<1>2. PICK op \in EditOps, p \in Paths, pc \in {"find", "stamp", "read"}, script \in 0..drawn :
        /\ StartsEdit(e, op, p, pc, script)
        /\ \/ pc = "find" /\ op \in {"set", "update"} /\ script = 0
           \/ pc = "stamp" /\ op = "add" /\ script = 0
           \/ pc = "read" /\ op = "describe" /\ \E v \in scripts : v.at = script /\ v.path = p
  <2>1. CASE SetPrompt(e) \/ AddPrompt(e) \/ UpdateByPath(e)
    BY <1>1, <2>1 DEF SetPrompt, AddPrompt, UpdateByPath, EditOps
  <2>2. CASE Describe(e)
    <3>1. PICK v \in scripts : StartsEdit(e, "describe", v.path, "read", v.at)
      BY <2>2 DEF Describe
    <3>2. v.path \in Paths /\ v.at \in 0..drawn
      BY <1>1 DEF VersionsOK, ScriptVersion
    <3>3. QED
      BY <3>1, <3>2 DEF EditOps
  <2>3. QED
    BY <2>1, <2>2
<1>3. PICK seen : seen = Stamps(p)
  OBVIOUS
<1>4. seen \in SUBSET (0..drawn) /\ \A n \in seen : n <= drawn /\ n \in Nat /\ \E v \in scripts : v.at = n
  <2>1. \A v \in scripts : v.at \in 1..drawn
    BY <1>1 DEF VersionsOK, ScriptVersion
  <2>2. QED
    BY <1>1, <1>3, <2>1 DEF Stamps, VersionsOf
<1>5. PICK r : r = [NoEdit EXCEPT !.pc = pc, !.op = op, !.path = p, !.script = script, !.seen = seen]
  OBVIOUS
<1>6. /\ r.pc = pc /\ r.op = op /\ r.path = p /\ r.script = script /\ r.seen = seen
      /\ r.answer = "none" /\ r.race = FALSE /\ r \in Edit
  <2>1. PICK q : q = [NoEdit EXCEPT !.pc = pc]
    OBVIOUS
  <2>2. q \in Edit /\ q.pc = pc /\ q.answer = "none" /\ q.race = FALSE
    <3>1. PICK z : z = NoEdit
      OBVIOUS
    <3>2. z \in Edit /\ z.answer = "none" /\ z.race = FALSE
      BY <1>1, <3>1 DEF NoEdit, Edit
    <3>3. q = [z EXCEPT !.pc = pc]
      BY <2>1, <3>1
    <3>4. QED
      BY <3>2, <3>3 DEF Edit
  <2>3. PICK q2 : q2 = [q EXCEPT !.op = op]
    OBVIOUS
  <2>4. q2 \in Edit /\ q2.pc = pc /\ q2.op = op /\ q2.answer = "none" /\ q2.race = FALSE
    BY <2>2, <2>3 DEF Edit
  <2>5. PICK q3 : q3 = [q2 EXCEPT !.path = p]
    OBVIOUS
  <2>6. q3 \in Edit /\ q3.pc = pc /\ q3.op = op /\ q3.path = p /\ q3.answer = "none" /\ q3.race = FALSE
    BY <2>4, <2>5 DEF Edit
  <2>7. PICK q4 : q4 = [q3 EXCEPT !.script = script]
    OBVIOUS
  <2>8. /\ q4 \in Edit /\ q4.pc = pc /\ q4.op = op /\ q4.path = p /\ q4.script = script
        /\ q4.answer = "none" /\ q4.race = FALSE
    BY <2>6, <2>7 DEF Edit
  <2>9. r = [q4 EXCEPT !.seen = seen]
    BY <1>5, <2>1, <2>3, <2>5, <2>7
  <2>10. QED
    BY <1>4, <2>8, <2>9 DEF Edit
<1>7. pc \in {"read", "stamp"} => Follows(p, drawn + 1, script, op, seen)
  BY <1>1, <1>2, <1>4 DEF Follows
<1>8. EditOK(r)
  BY <1>2, <1>6, <1>7 DEF EditOK
<1>9. /\ edit' = [edit EXCEPT ![e] = r] /\ UNCHANGED <<scripts, drawn>> /\ edits < MaxEdits /\ edits' = edits + 1
  BY <1>2, <1>3, <1>5 DEF StartsEdit
<1>10. edits' \in 0..MaxEdits
  BY <1>1, <1>9, PromptsAssumption
<1>11. QED
  BY <1>4, <1>6, <1>8, <1>9, <1>10, OneEdit

\* Of the versions of a path the latest is the current one.
LEMMA SomeIsCurrent ==
  ASSUME VersionsOK, NEW p
  PROVE  GetCurrent(p) = {} => VersionsOf(p) = {}
<1>1. SUFFICES ASSUME VersionsOf(p) # {} PROVE GetCurrent(p) # {}
  OBVIOUS
<1>2. PICK S : S = {v.at : v \in VersionsOf(p)}
  OBVIOUS
<1>3. \A v \in VersionsOf(p) : v.at \in Nat /\ v.at <= drawn
  <2>1. \A v \in scripts : v.at \in 1..drawn /\ drawn \in Nat
    BY DEF VersionsOK, ScriptVersion
  <2>2. QED
    BY <2>1 DEF VersionsOf
<1>4. S \in SUBSET Nat /\ S # {} /\ drawn \in Nat /\ \A n \in S : n <= drawn
  BY <1>1, <1>2, <1>3 DEF VersionsOK
<1>5. PICK n \in S : \A m \in S : m <= n
  BY <1>4, GreatestExists
<1>6. QED
  BY <1>2, <1>5 DEF GetCurrent

\* A look by the path finds a version that hides all its command has seen.
LEMMA FindCurrentKeeps ==
  ASSUME PromptsInv, NEW e \in Editors, FindCurrent(e)
  PROVE  PromptsInv'
<1>1. VersionsOK /\ EditsOK /\ edits \in 0..MaxEdits /\ drawn \in Nat
  BY DEF PromptsInv, VersionsOK
<1>2. PICK x \in Edit : x = edit[e]
  BY <1>1 DEF EditsOK
<1>3. EditOK(x) /\ x.pc = "find" /\ UNCHANGED <<scripts, drawn, edits>> /\ edits' \in 0..MaxEdits
  BY <1>1, <1>2 DEF EditsOK, FindCurrent
<1>4. x.op \in {"set", "update"} /\ x.path \in Paths /\ (x.answer = "failed" => x.race)
  BY <1>3 DEF EditOK
<1>5. \A n \in x.seen : n \in Nat /\ n <= drawn
  BY <1>1 DEF Edit
<1>6. ASSUME NEW v \in GetCurrent(x.path), EditBecomes(e, [x EXCEPT !.pc = "read", !.script = v.at])
      PROVE  PromptsInv'
  <2>1. v \in scripts /\ v.path = x.path /\ v.at \in 1..drawn
    BY <1>1 DEF GetCurrent, VersionsOf, VersionsOK, ScriptVersion
  <2>2. PICK n \in 1..drawn : n = v.at
    BY <2>1
  <2>3. PICK r : r = [x EXCEPT !.pc = "read", !.script = n]
    OBVIOUS
  <2>4. /\ r.pc = "read" /\ r.script = n /\ r.op = x.op /\ r.path = x.path /\ r.seen = x.seen
        /\ r.race = x.race /\ r.answer = x.answer /\ r \in Edit
    <3>1. PICK q : q = [x EXCEPT !.pc = "read"]
      OBVIOUS
    <3>2. /\ q.pc = "read" /\ q.op = x.op /\ q.path = x.path /\ q.seen = x.seen
          /\ q.race = x.race /\ q.answer = x.answer /\ q \in Edit
      BY <3>1 DEF Edit
    <3>3. r = [q EXCEPT !.script = n] /\ n \in 0..drawn
      BY <1>1, <2>3, <3>1
    <3>4. QED
      BY <3>2, <3>3 DEF Edit
  <2>5. Follows(x.path, drawn + 1, n, x.op, x.seen)
    <3>1. \A w \in scripts : w.path = x.path => w.at <= n
      BY <2>2 DEF GetCurrent, VersionsOf
    <3>2. QED
      BY <1>1, <1>5, <3>1 DEF Follows
  <2>6. EditOK(r)
    BY <1>4, <2>1, <2>2, <2>4, <2>5 DEF EditOK, EditOps
  <2>7. edit' = [edit EXCEPT ![e] = r]
    BY <1>6, <2>2, <2>3 DEF EditBecomes
  <2>8. QED
    BY <1>2, <1>3, <2>4, <2>6, <2>7, OneEdit
<1>7. ASSUME GetCurrent(x.path) = {}, x.op = "set", EditBecomes(e, [x EXCEPT !.pc = "stamp"])
      PROVE  PromptsInv'
  <2>1. PICK r : r = [x EXCEPT !.pc = "stamp"]
    OBVIOUS
  <2>2. /\ r.pc = "stamp" /\ r.script = x.script /\ r.op = x.op /\ r.path = x.path /\ r.seen = x.seen
        /\ r.race = x.race /\ r.answer = x.answer /\ r \in Edit
    BY <2>1 DEF Edit
  <2>3. VersionsOf(x.path) = {}
    BY <1>1, <1>7, SomeIsCurrent
  <2>4. x.script \in 0..drawn
    BY DEF Edit
  <2>5. Follows(x.path, drawn + 1, x.script, x.op, x.seen)
    BY <1>1, <1>5, <2>3, <2>4 DEF Follows, VersionsOf
  <2>6. EditOK(r)
    BY <1>4, <2>2, <2>5 DEF EditOK, EditOps
  <2>7. edit' = [edit EXCEPT ![e] = r]
    BY <1>7, <2>1 DEF EditBecomes
  <2>8. QED
    BY <1>2, <1>3, <2>2, <2>6, <2>7, OneEdit
<1>8. ASSUME EditEnds(e, "not found") PROVE PromptsInv'
  <2>1. PICK r : r = NoEdit
    OBVIOUS
  <2>2. r \in Edit /\ EditOK(r) /\ r.pc = "idle" /\ r.seen = {}
    BY <1>1, <2>1, NoEditOK
  <2>3. edit' = [edit EXCEPT ![e] = r]
    BY <1>8, <2>1 DEF EditEnds, EditBecomes
  <2>4. QED
    BY <1>3, <2>2, <2>3, OneEdit
<1>9. QED
  BY <1>2, <1>6, <1>7, <1>8 DEF FindCurrent

\* A version that was found is there when it is read again, or somebody
\* deleted it.
LEMMA ReadScriptKeeps ==
  ASSUME PromptsInv, NEW e \in Editors, ReadScript(e)
  PROVE  PromptsInv'
<1>1. VersionsOK /\ EditsOK /\ edits \in 0..MaxEdits /\ drawn \in Nat
  BY DEF PromptsInv, VersionsOK
<1>2. PICK x \in Edit : x = edit[e]
  BY <1>1 DEF EditsOK
<1>3. EditOK(x) /\ x.pc = "read" /\ UNCHANGED <<scripts, drawn, edits>> /\ edits' \in 0..MaxEdits
  BY <1>1, <1>2 DEF EditsOK, ReadScript
<1>4. CASE GetScript(x.script) # {}
  <2>1. PICK r : r = [x EXCEPT !.pc = "stamp"]
    OBVIOUS
  <2>2. /\ r.pc = "stamp" /\ r.script = x.script /\ r.op = x.op /\ r.path = x.path /\ r.seen = x.seen
        /\ r.race = x.race /\ r.answer = x.answer /\ r \in Edit
    BY <2>1 DEF Edit
  <2>3. EditOK(r)
    BY <1>3, <2>2 DEF EditOK
  <2>4. edit' = [edit EXCEPT ![e] = r]
    BY <1>2, <1>4, <2>1 DEF ReadScript, EditBecomes
  <2>5. QED
    BY <1>2, <1>3, <2>2, <2>3, <2>4, OneEdit
<1>5. CASE GetScript(x.script) = {}
  <2>1. x.race = TRUE
    <3>1. x.race
      BY <1>3, <1>5 DEF EditOK, GetScript
    <3>2. x.race \in BOOLEAN
      BY DEF Edit
    <3>3. QED
      BY <3>1, <3>2
  <2>2. PICK r : r = [NoEdit EXCEPT !.race = TRUE, !.answer = "failed"]
    OBVIOUS
  <2>3. r \in Edit /\ EditOK(r) /\ r.pc = "idle" /\ r.seen = {}
    BY <1>1, <2>2, NoEditOK
  <2>4. edit' = [edit EXCEPT ![e] = r]
    BY <1>2, <1>5, <2>1, <2>2 DEF ReadScript, EditEnds, EditBecomes
  <2>5. QED
    BY <1>3, <2>3, <2>4, OneEdit
<1>6. QED
  BY <1>4, <1>5

\* A stamp is drawn for one edit: nobody has seen it.
LEMMA DrawStampKeeps ==
  ASSUME PromptsInv, NEW e \in Editors, DrawStamp(e)
  PROVE  PromptsInv'
<1>1. VersionsOK /\ EditsOK /\ edits \in 0..MaxEdits /\ drawn \in Nat
  BY DEF PromptsInv, VersionsOK
<1>2. PICK x \in Edit : x = edit[e]
  BY <1>1 DEF EditsOK
<1>3. PICK n \in Nat : n = drawn + 1
  BY <1>1
<1>4. EditOK(x) /\ x.pc = "stamp" /\ UNCHANGED <<scripts, edits>> /\ drawn' = n
  BY <1>1, <1>2, <1>3 DEF EditsOK, DrawStamp
<1>5. PICK r : r = [x EXCEPT !.pc = "insert", !.at = n]
  OBVIOUS
<1>6. edit' = [edit EXCEPT ![e] = r]
  BY <1>2, <1>3, <1>5 DEF DrawStamp, EditBecomes, NewStamp
<1>7. Edit \subseteq Edit' /\ ScriptVersion \subseteq ScriptVersion'
  <2>1. 0..drawn \subseteq 0..n /\ 1..drawn \subseteq 1..n
    BY <1>1, <1>3
  <2>2. SUBSET (0..drawn) \subseteq SUBSET (0..n)
    BY <2>1
  <2>3. Edit \subseteq Edit'
    BY <1>4, <2>1, <2>2 DEF Edit
  <2>4. ScriptVersion \subseteq ScriptVersion'
    BY <1>4, <2>1, <2>2 DEF ScriptVersion
  <2>5. QED
    BY <2>3, <2>4
<1>8. /\ r.pc = "insert" /\ r.at = n /\ r.script = x.script /\ r.op = x.op /\ r.path = x.path
      /\ r.seen = x.seen /\ r.race = x.race /\ r.answer = x.answer /\ r \in Edit'
  <2>1. PICK q : q = [x EXCEPT !.pc = "insert"]
    OBVIOUS
  <2>2. /\ q.pc = "insert" /\ q.script = x.script /\ q.op = x.op /\ q.path = x.path
        /\ q.seen = x.seen /\ q.race = x.race /\ q.answer = x.answer /\ q \in Edit
    BY <2>1 DEF Edit
  <2>3. r = [q EXCEPT !.at = n] /\ n \in 0..drawn' /\ q \in Edit'
    BY <1>3, <1>4, <1>5, <1>7, <2>1, <2>2
  <2>4. QED
    BY <2>2, <2>3 DEF Edit
<1>9. /\ edit' \in [Editors -> Edit'] /\ edit'[e] = r
      /\ \A f \in Editors : f # e => edit'[f] = edit[f]
  BY <1>1, <1>6, <1>7, <1>8 DEF EditsOK
<1>10. VersionsOK'
  BY <1>1, <1>3, <1>4, <1>7 DEF VersionsOK, Follows
<1>11. ASSUME NEW at, Unused(at) PROVE Unused(at)'
  <2>1. ASSUME NEW f \in Editors PROVE at \notin edit'[f].seen
    BY <1>2, <1>8, <1>9, <1>11, <2>1 DEF Unused
  <2>2. QED
    BY <1>4, <1>11, <2>1 DEF Unused
<1>12. Unused(n)
  <2>1. n \notin 0..drawn /\ n \notin 1..drawn
    BY <1>1, <1>3
  <2>2. \A v \in scripts : v.at \in 1..drawn /\ v.seen \subseteq 0..drawn
    BY <1>1 DEF VersionsOK, ScriptVersion
  <2>3. \A f \in Editors : edit[f].seen \subseteq 0..drawn
    BY <1>1 DEF EditsOK, Edit
  <2>4. QED
    BY <2>1, <2>2, <2>3 DEF Unused
<1>13. ASSUME NEW y \in Edit, EditOK(y) PROVE EditOK(y)'
  <2>1. Follows(y.path, drawn + 1, y.script, y.op, y.seen) => Follows(y.path, drawn + 1, y.script, y.op, y.seen)'
    <3>1. y.script \in Nat /\ y.seen \subseteq Nat
      BY <1>1 DEF Edit
    <3>2. QED
      BY <1>1, <1>3, <1>4, <3>1 DEF Follows
  <2>2. y.pc = "insert" => Unused(y.at)' /\ Follows(y.path, y.at, y.script, y.op, y.seen)'
    BY <1>4, <1>11, <1>13 DEF EditOK, Follows
  <2>3. QED
    BY <1>4, <1>13, <2>1, <2>2 DEF EditOK
<1>14. EditOK(r)'
  <2>1. Follows(r.path, n, r.script, r.op, r.seen)'
    BY <1>3, <1>4, <1>8 DEF EditOK, Follows
  <2>2. n # 0 /\ Unused(n)'
    BY <1>1, <1>3, <1>11, <1>12
  <2>3. QED
    BY <1>4, <1>8, <2>1, <2>2 DEF EditOK
<1>15. ASSUME NEW f \in Editors PROVE EditOK(edit[f])'
  <2>1. PICK y : y = edit'[f]
    OBVIOUS
  <2>2. y = r \/ (y \in Edit /\ EditOK(y))
    BY <1>1, <1>9, <2>1 DEF EditsOK
  <2>3. EditOK(y)'
    BY <1>13, <1>14, <2>2
  <2>4. QED
    BY <2>1, <2>3
<1>16. \A f \in Editors : f # e => edit'[f].at # n
  <2>1. \A f \in Editors : edit[f].at \in 0..drawn
    BY <1>1 DEF EditsOK, Edit
  <2>2. n \notin 0..drawn
    BY <1>1, <1>3
  <2>3. QED
    BY <1>9, <2>1, <2>2
<1>17. \A f, g \in Editors : edit'[f].pc = "insert" /\ edit'[g].pc = "insert" /\ f # g =>
                               edit'[f].at # edit'[g].at
  BY <1>1, <1>8, <1>9, <1>16 DEF EditsOK
<1>18. EditsOK'
  BY <1>9, <1>15, <1>17 DEF EditsOK
<1>19. QED
  BY <1>1, <1>4, <1>10, <1>18 DEF PromptsInv

\* The version that is inserted hides what its command has seen, and no
\* version or command has seen it.
LEMMA InsertVersionKeeps ==
  ASSUME PromptsInv, NEW e \in Editors, InsertVersion(e)
  PROVE  PromptsInv'
<1>1. VersionsOK /\ EditsOK /\ edits \in 0..MaxEdits /\ drawn \in Nat
  BY DEF PromptsInv, VersionsOK
<1>2. PICK x \in Edit : x = edit[e]
  BY <1>1 DEF EditsOK
<1>3. EditOK(x) /\ x.pc = "insert" /\ UNCHANGED <<drawn, edits>>
  BY <1>1, <1>2 DEF EditsOK, InsertVersion
<1>4. /\ x.at \in 1..drawn /\ Follows(x.path, x.at, x.script, x.op, x.seen) /\ Unused(x.at)
      /\ x.op \in EditOps /\ x.path \in Paths
  <2>1. x.at \in 0..drawn /\ x.at # 0
    BY <1>3 DEF EditOK, Edit
  <2>2. x.at \in 1..drawn
    BY <1>1, <2>1
  <2>3. QED
    BY <1>3, <2>2 DEF EditOK
<1>5. PICK w : w = Version(x)
  OBVIOUS
<1>6. /\ w.path = x.path /\ w.at = x.at /\ w.parent = x.script /\ w.op = x.op /\ w.seen = x.seen
      /\ w \in ScriptVersion
  BY <1>4, <1>5 DEF Version, ScriptVersion, Edit
<1>7. scripts' = scripts \cup {w} /\ w \notin scripts
  BY <1>2, <1>4, <1>5, <1>6 DEF InsertVersion, Unused
<1>8. \A v \in scripts : v.at # w.at /\ w.at \notin v.seen
  BY <1>4, <1>6 DEF Unused
<1>9. \A f \in Editors : w.at \notin edit[f].seen
  BY <1>4, <1>6 DEF Unused
<1>10. ASSUME NEW p, NEW at, NEW parent, NEW op, NEW seen, Follows(p, at, parent, op, seen), w.at \notin seen
       PROVE  Follows(p, at, parent, op, seen)'
  BY <1>7, <1>10 DEF Follows
<1>11. VersionsOK'
  <2>1. IsFiniteSet(scripts')
    BY <1>1, <1>7, FS_AddElement DEF VersionsOK
  <2>2. scripts' \subseteq ScriptVersion'
    BY <1>1, <1>3, <1>6, <1>7 DEF VersionsOK, ScriptVersion
  <2>3. \A v, u \in scripts' : v.at = u.at => v = u
    BY <1>1, <1>7, <1>8 DEF VersionsOK
  <2>4. ASSUME NEW u \in scripts' PROVE Follows(u.path, u.at, u.parent, u.op, u.seen)'
    <3>1. Follows(u.path, u.at, u.parent, u.op, u.seen) /\ w.at \notin u.seen
      <4>1. CASE u = w
        <5>1. w.at \notin w.seen
          BY <1>2, <1>6, <1>9
        <5>2. QED
          BY <1>4, <1>6, <4>1, <5>1
      <4>2. CASE u # w
        BY <1>1, <1>7, <1>8, <4>2 DEF VersionsOK
      <4>3. QED
        BY <4>1, <4>2
    <3>2. QED
      BY <1>10, <3>1
  <2>5. QED
    BY <1>1, <1>3, <2>1, <2>2, <2>3, <2>4 DEF VersionsOK
<1>12. PICK r : r = NoEdit
  OBVIOUS
<1>13. edit' = [edit EXCEPT ![e] = r] /\ r \in Edit /\ r.pc = "idle" /\ r.seen = {} /\ EditOK(r)
  BY <1>1, <1>12, NoEditOK DEF InsertVersion, EditEnds, EditBecomes
<1>14. /\ edit' \in [Editors -> Edit] /\ edit'[e] = r
       /\ \A f \in Editors : f # e => edit'[f] = edit[f]
  BY <1>1, <1>13 DEF EditsOK
<1>15. ASSUME NEW at, Unused(at), at # w.at PROVE Unused(at)'
  <2>1. ASSUME NEW f \in Editors PROVE at \notin edit'[f].seen
    BY <1>13, <1>14, <1>15, <2>1 DEF Unused
  <2>2. at \notin w.seen
    BY <1>2, <1>6, <1>15 DEF Unused
  <2>3. QED
    BY <1>7, <1>15, <2>1, <2>2 DEF Unused
<1>16. ASSUME NEW y \in Edit, EditOK(y), w.at \notin y.seen, y.pc = "insert" => y.at # w.at
       PROVE  EditOK(y)'
  <2>1. y.pc = "insert" => Unused(y.at)'
    BY <1>15, <1>16 DEF EditOK
  <2>2. y.pc \in {"read", "stamp"} => Follows(y.path, drawn + 1, y.script, y.op, y.seen)'
    BY <1>3, <1>10, <1>16 DEF EditOK
  <2>3. y.pc = "insert" => Follows(y.path, y.at, y.script, y.op, y.seen)'
    BY <1>10, <1>16 DEF EditOK
  <2>4. QED
    BY <1>3, <1>7, <1>16, <2>1, <2>2, <2>3 DEF EditOK, Follows
<1>17. ASSUME NEW f \in Editors PROVE EditOK(edit[f])'
  <2>1. PICK y : y = edit'[f]
    OBVIOUS
  <2>2. y \in Edit /\ EditOK(y) /\ w.at \notin y.seen /\ (y.pc = "insert" => y.at # w.at)
    <3>1. CASE f = e
      BY <1>13, <1>14, <2>1, <3>1
    <3>2. CASE f # e
      BY <1>1, <1>2, <1>3, <1>6, <1>9, <1>14, <2>1, <3>2 DEF EditsOK
    <3>3. QED
      BY <3>1, <3>2
  <2>3. EditOK(y)'
    BY <1>16, <2>2
  <2>4. QED
    BY <2>1, <2>3
<1>18. EditsOK'
  <2>1. Edit' = Edit
    BY <1>3 DEF Edit
  <2>2. \A f, g \in Editors : edit'[f].pc = "insert" /\ edit'[g].pc = "insert" /\ f # g =>
                                edit'[f].at # edit'[g].at
    BY <1>1, <1>13, <1>14 DEF EditsOK
  <2>3. QED
    BY <1>14, <1>17, <2>1, <2>2 DEF EditsOK
<1>19. QED
  BY <1>1, <1>3, <1>11, <1>18 DEF PromptsInv

\* A prompt is deleted with all its versions; the commands on it learn of it.
LEMMA DeletePromptKeeps ==
  ASSUME PromptsInv, NEW e \in Editors, DeletePrompt(e)
  PROVE  PromptsInv'
<1>1. VersionsOK /\ EditsOK /\ edits \in 0..MaxEdits /\ drawn \in Nat
  BY DEF PromptsInv, VersionsOK
<1>2. PICK p \in Paths :
        /\ edit[e].pc = "idle" /\ edits < MaxEdits /\ edits' = edits + 1
        /\ scripts' = scripts \ VersionsOf(p)
        /\ edit' = [f \in Editors |->
             IF f = e THEN NoEdit
             ELSE [edit[f] EXCEPT !.race = @ \/ (edit[f].path = p /\ edit[f].pc # "idle")]]
        /\ UNCHANGED drawn
  BY DEF DeletePrompt
<1>3. edits' \in 0..MaxEdits
  BY <1>1, <1>2, PromptsAssumption
<1>4. scripts' \subseteq scripts /\ \A v \in scripts : v.path # p => v \in scripts'
  BY <1>2 DEF VersionsOf
<1>5. VersionsOK'
  <2>1. IsFiniteSet(scripts')
    BY <1>1, <1>4, FS_Subset DEF VersionsOK
  <2>2. QED
    BY <1>1, <1>2, <1>4, <2>1 DEF VersionsOK, Follows, ScriptVersion
<1>6. PICK idle : idle = NoEdit
  OBVIOUS
<1>7. idle \in Edit /\ EditOK(idle) /\ idle.pc = "idle" /\ idle.seen = {}
  BY <1>1, <1>6, NoEditOK
<1>8. ASSUME NEW f \in Editors, f # e
      PROVE  /\ edit'[f] \in Edit /\ edit'[f].pc = edit[f].pc /\ edit'[f].op = edit[f].op
             /\ edit'[f].path = edit[f].path /\ edit'[f].script = edit[f].script /\ edit'[f].at = edit[f].at
             /\ edit'[f].seen = edit[f].seen /\ edit'[f].answer = edit[f].answer
             /\ (edit[f].race => edit'[f].race)
             /\ (edit[f].path = p /\ edit[f].pc # "idle" => edit'[f].race)
  <2>1. PICK y \in Edit : y = edit[f]
    BY <1>1 DEF EditsOK
  <2>2. PICK race \in BOOLEAN : race = (y.race \/ (y.path = p /\ y.pc # "idle"))
    OBVIOUS
  <2>3. edit'[f] = [y EXCEPT !.race = race]
    BY <1>2, <1>8, <2>1, <2>2
  <2>4. y.race \in BOOLEAN
    BY DEF Edit
  <2>5. [y EXCEPT !.race = race] \in Edit
    BY DEF Edit
  <2>6. PICK r : r = [y EXCEPT !.race = race]
    OBVIOUS
  <2>7. /\ r.pc = y.pc /\ r.op = y.op /\ r.path = y.path /\ r.script = y.script /\ r.at = y.at
        /\ r.seen = y.seen /\ r.answer = y.answer /\ r.race = race
    BY <2>6 DEF Edit
  <2>8. QED
    BY <2>1, <2>2, <2>3, <2>4, <2>5, <2>6, <2>7
<1>9. edit'[e] = idle
  BY <1>2, <1>6
<1>10. ASSUME NEW at, Unused(at) PROVE Unused(at)'
  <2>1. ASSUME NEW f \in Editors PROVE at \notin edit'[f].seen
    BY <1>7, <1>8, <1>9, <1>10, <2>1 DEF Unused
  <2>2. QED
    BY <1>4, <1>10, <2>1 DEF Unused
<1>11. ASSUME NEW f \in Editors PROVE EditOK(edit[f])'
  <2>1. CASE f = e
    <3>1. EditOK(idle)'
      BY <1>7 DEF EditOK
    <3>2. QED
      BY <1>9, <2>1, <3>1
  <2>2. CASE f # e
    <3>1. PICK y \in Edit : y = edit[f]
      BY <1>1 DEF EditsOK
    <3>2. PICK r : r = edit'[f]
      OBVIOUS
    <3>3. /\ r.pc = y.pc /\ r.op = y.op /\ r.path = y.path /\ r.script = y.script /\ r.at = y.at
          /\ r.seen = y.seen /\ r.answer = y.answer /\ (y.race => r.race)
          /\ (y.path = p /\ y.pc # "idle" => r.race) /\ EditOK(y)
      BY <1>1, <1>8, <2>2, <3>1, <3>2 DEF EditsOK
    <3>4. r.pc = "read" => r.race \/ \E v \in scripts' : v.at = r.script /\ v.path = r.path
      BY <1>4, <3>3 DEF EditOK
    <3>5. r.pc \in {"read", "stamp"} => Follows(r.path, drawn + 1, r.script, r.op, r.seen)'
      BY <1>2, <1>4, <3>3 DEF EditOK, Follows
    <3>6. r.pc = "insert" => Follows(r.path, r.at, r.script, r.op, r.seen)' /\ Unused(r.at)' /\ r.at # 0
      BY <1>4, <1>10, <3>3 DEF EditOK, Follows
    <3>7. EditOK(r)'
      BY <1>2, <3>3, <3>4, <3>5, <3>6 DEF EditOK
    <3>8. QED
      BY <3>2, <3>7
  <2>3. QED
    BY <2>1, <2>2
<1>12. EditsOK'
  <2>1. Edit' = Edit
    BY <1>2 DEF Edit
  <2>2. edit' \in [Editors -> Edit]
    <3>1. \A f \in Editors : edit'[f] \in Edit
      BY <1>7, <1>8, <1>9
    <3>2. edit' = [f \in Editors |-> edit'[f]]
      BY <1>2
    <3>3. QED
      BY <3>1, <3>2
  <2>3. \A f, g \in Editors : edit'[f].pc = "insert" /\ edit'[g].pc = "insert" /\ f # g =>
                                edit'[f].at # edit'[g].at
    BY <1>1, <1>7, <1>8, <1>9 DEF EditsOK
  <2>4. QED
    BY <1>11, <2>1, <2>2, <2>3 DEF EditsOK
<1>13. QED
  BY <1>3, <1>5, <1>12 DEF PromptsInv

\* Every call of the database keeps it.
LEMMA PromptsStepKeeps ==
  ASSUME PromptsInv, PromptsNext
  PROVE  PromptsInv'
<1>1. PICK e \in Editors : \/ SetPrompt(e) \/ AddPrompt(e) \/ UpdateByPath(e) \/ Describe(e)
                           \/ DeletePrompt(e) \/ FindCurrent(e) \/ ReadScript(e) \/ DrawStamp(e)
                           \/ InsertVersion(e)
  BY DEF PromptsNext
<1>2. CASE SetPrompt(e) \/ AddPrompt(e) \/ UpdateByPath(e) \/ Describe(e)
  BY <1>2, EditStarts
<1>3. CASE DeletePrompt(e) \/ FindCurrent(e) \/ ReadScript(e)
  BY <1>3, DeletePromptKeeps, FindCurrentKeeps, ReadScriptKeeps
<1>4. CASE DrawStamp(e) \/ InsertVersion(e)
  BY <1>4, DrawStampKeeps, InsertVersionKeeps
<1>5. QED
  BY <1>1, <1>2, <1>3, <1>4

\* What the invariant says of versions: an edit hides what it has seen, and
\* the list, the look by the path and the history agree on the current one.
LEMMA PromptsShow ==
  ASSUME PromptsInv
  PROVE  PromptsInOrder /\ PromptsTypeOK
<1>1. VersionsOK /\ EditsOK /\ edits \in 0..MaxEdits /\ drawn \in Nat /\ IsFiniteSet(scripts)
  BY DEF PromptsInv, VersionsOK
<1>2. \A v, w \in scripts : v.at = w.at => v = w
  BY <1>1 DEF VersionsOK
<1>3. \A v \in scripts : v \in ScriptVersion /\ v.at \in Nat
  BY <1>1 DEF VersionsOK, ScriptVersion
<1>4. ASSUME NEW p
      PROVE  /\ VersionsOf(p) \subseteq scripts /\ IsFiniteSet(VersionsOf(p))
             /\ GetCurrent(p) \subseteq VersionsOf(p)
             /\ \A v, w \in GetCurrent(p) : v = w
  <2>1. VersionsOf(p) \subseteq scripts /\ GetCurrent(p) \subseteq VersionsOf(p)
    BY DEF VersionsOf, GetCurrent
  <2>2. IsFiniteSet(VersionsOf(p))
    BY <1>1, <2>1, FS_Subset
  <2>3. ASSUME NEW v \in GetCurrent(p), NEW w \in GetCurrent(p) PROVE v = w
    <3>1. v.at <= w.at /\ w.at <= v.at
      BY DEF GetCurrent
    <3>2. v.at \in Nat /\ w.at \in Nat /\ v \in scripts /\ w \in scripts
      BY <1>3, <2>1
    <3>3. v.at = w.at
      BY <3>1, <3>2
    <3>4. QED
      BY <1>2, <3>2, <3>3
  <2>4. QED
    BY <2>1, <2>2, <2>3
<1>5. ASSUME NEW p PROVE {v \in ListScripts : v.path = p} = GetCurrent(p)
  <2>1. ASSUME NEW v \in ListScripts, v.path = p PROVE v \in GetCurrent(p)
    <3>1. PICK w \in GetCurrent(p) : v.at = w.at
      BY <2>1 DEF ListScripts
    <3>2. v \in scripts /\ w \in scripts
      BY <1>4 DEF ListScripts
    <3>3. QED
      BY <1>2, <3>1, <3>2
  <2>2. ASSUME NEW v \in GetCurrent(p) PROVE v \in ListScripts /\ v.path = p
    BY DEF GetCurrent, VersionsOf, ListScripts
  <2>3. QED
    BY <2>1, <2>2
<1>6. ASSUME NEW p, VersionsOf(p) # {} PROVE GetCurrent(p) = {Head(ListVersions(p))}
  <2>1. PICK V : V = VersionsOf(p)
    OBVIOUS
  <2>2. PICK k : k = Cardinality(V)
    OBVIOUS
  <2>3. k \in Nat /\ k # 0
    BY <1>4, <1>6, <2>1, <2>2, FS_CardinalityType, FS_EmptySet
  <2>4. PICK c \in GetCurrent(p) : TRUE
    BY <1>1, <1>6, SomeIsCurrent
  <2>5. c \in V /\ \A w \in V : w.at <= c.at
    BY <2>1, <2>4 DEF GetCurrent
  <2>6. ASSUME NEW v \in V PROVE Cardinality({w \in V : w.at >= v.at}) = 1 <=> v = c
    <3>1. PICK A : A = {w \in V : w.at >= v.at}
      OBVIOUS
    <3>2. v \in A /\ c \in A /\ A \subseteq V /\ IsFiniteSet(A)
      <4>1. v \in scripts /\ c \in scripts /\ v.at \in Nat /\ c.at \in Nat
        BY <1>3, <1>4, <2>1, <2>5
      <4>2. v \in A /\ c \in A
        BY <2>5, <3>1, <4>1
      <4>3. A \subseteq V /\ IsFiniteSet(A)
        BY <1>4, <2>1, <3>1, FS_Subset
      <4>4. QED
        BY <4>2, <4>3
    <3>3. ASSUME Cardinality(A) = 1 PROVE v = c
      <4>1. PICK x : A = {x}
        BY <3>2, <3>3, FS_Singleton
      <4>2. QED
        BY <3>2, <4>1
    <3>4. ASSUME v = c PROVE Cardinality(A) = 1
      <4>1. ASSUME NEW w \in A PROVE w = c
        <5>1. w \in scripts /\ c \in scripts /\ w.at \in Nat /\ c.at \in Nat /\ w.at >= c.at /\ w.at <= c.at
          BY <1>3, <1>4, <2>1, <2>5, <3>1, <3>4
        <5>2. w.at = c.at
          BY <5>1
        <5>3. QED
          BY <1>2, <5>1, <5>2
      <4>2. A = {c}
        BY <3>2, <4>1
      <4>3. QED
        BY <4>2, FS_Singleton
    <3>5. QED
      BY <3>1, <3>3, <3>4
  <2> DEFINE Nth(n) == CHOOSE v \in V : Cardinality({w \in V : w.at >= v.at}) = n
  <2>7. Nth(1) = c
    <3>1. Nth(1) \in V /\ Cardinality({w \in V : w.at >= Nth(1).at}) = 1
      BY <2>5, <2>6
    <3>2. QED
      BY <2>6, <3>1
  <2>8. ListVersions(p) = [n \in 1..k |-> Nth(n)]
    BY <2>1, <2>2 DEF ListVersions
  <2> HIDE DEF Nth
  <2>9. PICK S : S = {Nth(n) : n \in 1..k}
    OBVIOUS
  <2>10. [n \in 1..k |-> Nth(n)] \in Seq(S)
    BY <2>3, <2>9
  <2>11. PICK q \in Seq(S) : q = [n \in 1..k |-> Nth(n)]
    BY <2>10
  <2>12. Len(q) = k /\ q[1] = Nth(1)
    BY <2>3, <2>11
  <2>13. Head(q) = q[1]
    BY <2>3, <2>12
  <2>14. Head(ListVersions(p)) = c
    BY <2>7, <2>8, <2>11, <2>12, <2>13
  <2>15. GetCurrent(p) = {c}
    BY <1>4, <2>4
  <2>16. QED
    BY <2>14, <2>15
<1>7. PromptsInOrder
  <2>1. ASSUME NEW v \in scripts, NEW w \in scripts, v.path = w.path, v.at \in w.seen
        PROVE  v.at < w.at /\ (w.op \in {"set", "update"} => v.at <= w.parent)
    BY <1>1, <2>1 DEF VersionsOK, Follows
  <2>2. \A e \in Editors : edit[e].answer = "failed" => edit[e].race
    BY <1>1 DEF EditsOK, EditOK
  <2>3. QED
    BY <1>5, <1>6, <2>1, <2>2 DEF PromptsInOrder
<1>8. PromptsTypeOK
  <2>1. ASSUME NEW v \in scripts
        PROVE  v \in [path : Paths, at : 1..drawn, parent : 0..(v.at - 1),
                      op : {"set", "add", "update", "describe"}, seen : SUBSET (0..(v.at - 1))]
    <3>1. Follows(v.path, v.at, v.parent, v.op, v.seen)
      BY <1>1 DEF VersionsOK
    <3>2. v.at \in 1..drawn /\ v.parent \in 0..drawn /\ v.seen \subseteq 0..drawn
      BY <1>3 DEF ScriptVersion
    <3>3. v.parent \in 0..(v.at - 1)
      BY <1>1, <3>1, <3>2 DEF Follows
    <3>4. \A n \in v.seen : n \in 0..(v.at - 1)
      BY <1>1, <3>1, <3>2 DEF Follows
    <3>5. QED
      BY <1>3, <3>3, <3>4 DEF ScriptVersion, EditOps
  <2>2. Cardinality(scripts) = Cardinality({v.at : v \in scripts})
    <3>1. PICK T : T = {v.at : v \in scripts}
      OBVIOUS
    <3>2. PICK f : f = [v \in scripts |-> v.at]
      OBVIOUS
    <3>3. f \in Bijection(scripts, T)
      BY <1>2, <3>1, <3>2 DEF Bijection, Injection, Surjection, IsInjective
    <3>4. ExistsBijection(scripts, T)
      BY <3>3 DEF ExistsBijection
    <3>5. QED
      BY <1>1, <3>1, <3>4, FS_Bijection
  <2>3. ASSUME NEW p \in Paths PROVE Cardinality(GetCurrent(p)) <= 1
    <3>1. CASE GetCurrent(p) = {}
      BY <3>1, FS_EmptySet
    <3>2. CASE GetCurrent(p) # {}
      <4>1. PICK v \in GetCurrent(p) : TRUE
        BY <3>2
      <4>2. GetCurrent(p) = {v}
        BY <1>4, <4>1
      <4>3. QED
        BY <4>2, FS_Singleton
    <3>3. QED
      BY <3>1, <3>2
  <2>4. QED
    BY <1>1, <2>1, <2>2, <2>3 DEF PromptsTypeOK
<1>9. QED
  BY <1>7, <1>8

\* The invariant holds whatever family of tables a behaviour works on.
LEMMA PromptsHold == RecordsSpec => []PromptsInv
<1>1. RecordsInit => PromptsInv
  BY PromptsStart DEF RecordsInit
<1>2. PromptsInv /\ [RecordsNext]_recordsVars => PromptsInv'
  <2>1. SUFFICES ASSUME PromptsInv, [RecordsNext]_recordsVars PROVE PromptsInv'
    OBVIOUS
  <2>2. CASE PromptsStep
    BY <2>1, <2>2, PromptsStepKeeps DEF PromptsStep
  <2>3. CASE UNCHANGED promptsVars
    BY <2>1, <2>3, PromptsRest
  <2>4. QED
    BY <2>1, <2>2, <2>3 DEF RecordsNext, TalkStep, ExitsStep, recordsVars
<1>3. QED
  BY <1>1, <1>2, PTL DEF RecordsSpec

\* A version hides the versions its command saw when it began, for every
\* reader, and an edit that goes by the path builds on the latest of them,
\* though the look, the stamp and the insert are three calls (db/scripts.rs,
\* set_prompt in db/mod.rs).
THEOREM PromptsInOrderAlways == RecordsSpec => []PromptsInOrder
<1>1. PromptsInv => PromptsInOrder
  BY PromptsShow
<1>2. QED
  BY <1>1, PromptsHold, PTL

-----------------------------------------------------------------------------
(* Ways there and back                                                     *)

Digging == [pc : {"from", "to", "forth", "back"}, op : {"door", "exit"}, from : Rooms, to : Rooms,
            way : AllWays, back : AllWays \cup {"none"}]

\* The rooms of a way are looked for before it is written.
DigOK(r) ==
  /\ r = NoDig \/ r \in Digging
  /\ r.pc \in {"to", "forth", "back"} => r.from \in built
  /\ r.pc \in {"forth", "back"} => r.to \in built
  /\ r.pc = "back" => r.back # "none"
DigsOK == DOMAIN dig = Diggers /\ dig = [d \in Diggers |-> dig[d]] /\ \A d \in Diggers : DigOK(dig[d])

Joined(p) ==
  /\ {p[2], p[3]} \subseteq DOMAIN Table(p[1])
  /\ Table(p[1])[p[2]] = p[3][1] /\ Table(p[1])[p[3]] = p[2][1]

ExitsInv == ExitsTypeOK /\ DigsOK /\ \A p \in pairs : Joined(p)

\* Which way leads where does not depend on the things of rooms, and a pair
\* that leads there and back is shown where these are.
LEMMA JoinedLeads ==
  ASSUME ExitsTypeOK, NEW p \in pairs, Joined(p)
  PROVE  PairLeads(p)
<1>1. ASSUME p[1] = "exit", {p[2][1], p[3][1]} \subseteq things
      PROVE  p[2] \in GetExits(p[2][1]) /\ p[3] \in GetExits(p[3][1])
  <2>1. Table(p[1]) = [k \in Live |-> exits[k].to]
    BY <1>1 DEF Table
  <2>2. p[2] \in Live /\ p[3] \in Live
    BY <2>1 DEF Joined
  <2>3. exits[p[2]].to = p[3][1] /\ exits[p[3]].to = p[2][1]
    BY <2>1, <2>2 DEF Joined
  <2>4. QED
    BY <1>1, <2>2, <2>3 DEF GetExits
<1>2. QED
  BY <1>1 DEF PairLeads, Joined

\* A way is written to one of the two tables.
LEMMA WayWritten ==
  ASSUME ExitsTypeOK, NEW d \in Diggers, NEW op \in {"door", "exit"}, dig[d].op = op,
         NEW key \in ExitKeys, key[1] \in built, NEW to \in built, Write(d, key, to)
  PROVE  /\ UNCHANGED <<built, things, digs>>
         /\ DOMAIN doors' \subseteq ExitKeys /\ DOMAIN exits' \subseteq ExitKeys
         /\ \A k \in DOMAIN doors' : k[1] \in built /\ doors'[k] \in built
         /\ \A k \in DOMAIN exits' : k[1] \in built /\ exits'[k] \in [to : built, live : BOOLEAN]
         /\ DOMAIN Table(op)' = DOMAIN Table(op) \cup {key} /\ Table(op)'[key] = to
         /\ \A k \in DOMAIN Table(op) : k # key => Table(op)'[k] = Table(op)[k]
         /\ \A o \in {"door", "exit"} : o # op => Table(o)' = Table(o)
<1>1. /\ DOMAIN doors \subseteq ExitKeys /\ DOMAIN exits \subseteq ExitKeys
      /\ \A k \in DOMAIN doors : k[1] \in built /\ doors[k] \in built
      /\ \A k \in DOMAIN exits : k[1] \in built /\ exits[k] \in [to : built, live : BOOLEAN]
  BY DEF ExitsTypeOK
<1>2. UNCHANGED <<built, things, digs>>
  BY DEF Write
<1>3. CASE op = "door"
  <2>1. doors' = With(doors, key, to) /\ exits' = exits
    BY <1>3 DEF Write
  <2>2. DOMAIN doors' = DOMAIN doors \cup {key} /\ doors'[key] = to
        /\ \A k \in DOMAIN doors : k # key => doors'[k] = doors[k]
    BY <2>1 DEF With
  <2>3. Table("door")' = doors' /\ Table("door") = doors
    BY DEF Table
  <2>4. Table("exit")' = Table("exit")
    BY <2>1 DEF Table, Live
  <2>5. QED
    BY <1>1, <1>2, <1>3, <2>1, <2>2, <2>3, <2>4
<1>4. CASE op = "exit"
  <2>1. PICK e : e = [to |-> to, live |-> TRUE]
    OBVIOUS
  <2>2. doors' = doors /\ exits' = With(exits, key, e)
    BY <1>4, <2>1 DEF Write
  <2>3. DOMAIN exits' = DOMAIN exits \cup {key} /\ exits'[key] = e
        /\ \A k \in DOMAIN exits : k # key => exits'[k] = exits[k]
    BY <2>2 DEF With
  <2>4. e \in [to : built, live : BOOLEAN] /\ e.live /\ e.to = to
    BY <2>1
  <2>5. Live' = Live \cup {key}
    BY <2>3, <2>4 DEF Live
  <2>6. Table("exit") = [k \in Live |-> exits[k].to] /\ Table("exit")' = [k \in Live' |-> exits'[k].to]
    BY DEF Table
  <2>7. \A k \in Live : k \in DOMAIN exits
    BY DEF Live
  <2>8. Table("door")' = Table("door")
    BY <2>2 DEF Table
  <2>9. DOMAIN exits' \subseteq ExitKeys
        /\ \A k \in DOMAIN exits' : k[1] \in built /\ exits'[k] \in [to : built, live : BOOLEAN]
    BY <1>1, <2>3, <2>4
  <2>10. /\ DOMAIN Table(op)' = DOMAIN Table(op) \cup {key} /\ Table(op)'[key] = to
         /\ \A k \in DOMAIN Table(op) : k # key => Table(op)'[k] = Table(op)[k]
    <3>1. key \in Live' /\ exits'[key].to = to
      BY <2>3, <2>4, <2>5
    <3>2. \A k \in Live : k # key => k \in Live' /\ exits'[k].to = exits[k].to
      BY <2>3, <2>5, <2>7
    <3>3. DOMAIN Table("exit") = Live /\ DOMAIN Table("exit")' = Live'
      BY <2>6
    <3>4. Table("exit")'[key] = to
      BY <2>6, <3>1
    <3>5. \A k \in Live : k # key => Table("exit")'[k] = Table("exit")[k]
      BY <2>6, <3>2
    <3>6. QED
      BY <1>4, <2>5, <3>3, <3>4, <3>5
  <2>11. QED
    BY <1>1, <1>2, <1>4, <2>2, <2>8, <2>9, <2>10
<1>5. QED
  BY <1>3, <1>4

\* A pair that a write does not touch leads there and back as before.
LEMMA JoinedKept ==
  ASSUME NEW op \in {"door", "exit"}, NEW key, NEW p, p[1] \in {"door", "exit"}, Joined(p),
         p[1] # op \/ key \notin {p[2], p[3]},
         DOMAIN Table(op) \ {key} \subseteq DOMAIN Table(op)',
         \A k \in DOMAIN Table(op) : k # key => Table(op)'[k] = Table(op)[k],
         \A o \in {"door", "exit"} : o # op => Table(o)' = Table(o)
  PROVE  Joined(p)'
<1>1. CASE p[1] = op
  BY <1>1 DEF Joined
<1>2. CASE p[1] # op
  <2>1. Table(p[1])' = Table(p[1])
    BY <1>2
  <2>2. QED
    BY <2>1 DEF Joined
<1>3. QED
  BY <1>1, <1>2

\* A digger goes on and nothing else changes.
LEMMA OneDigs ==
  ASSUME ExitsInv, NEW d \in Diggers, NEW r, DigOK(r), dig' = [dig EXCEPT ![d] = r],
         UNCHANGED <<built, things, doors, exits, pairs>>, digs' \in 0..MaxDigs
  PROVE  ExitsInv'
<1>1. ExitsTypeOK /\ DigsOK
  BY DEF ExitsInv
<1>2. ExitsTypeOK'
  BY <1>1 DEF ExitsTypeOK
<1>3. DigsOK'
  <2>1. /\ dig' = [c \in Diggers |-> IF c = d THEN r ELSE dig[c]]
    BY <1>1 DEF DigsOK
  <2>2. \A c \in Diggers : DigOK(dig'[c])
    BY <1>1, <2>1 DEF DigsOK
  <2>3. \A c \in Diggers : DigOK(dig[c])'
    BY <2>2 DEF DigOK
  <2>4. QED
    BY <2>1, <2>3 DEF DigsOK
<1>4. ASSUME NEW p \in pairs' PROVE Joined(p)'
  <2>1. Joined(p)
    BY DEF ExitsInv
  <2>2. Table(p[1])' = Table(p[1])
    BY DEF Table, Live
  <2>3. QED
    BY <2>1, <2>2 DEF Joined
<1>5. QED
  BY <1>2, <1>3, <1>4 DEF ExitsInv

\* A command starts with rooms by name, or with rooms there are.
LEMMA DigStarts ==
  ASSUME ExitsInv, NEW d \in Diggers, AddExit(d) \/ CreateExit(d)
  PROVE  ExitsInv'
<1>1. ExitsTypeOK /\ built \subseteq Rooms /\ digs \in 0..MaxDigs
  BY DEF ExitsInv, ExitsTypeOK
<1>2. PICK op \in {"door", "exit"}, pc \in {"from", "forth"}, from \in Rooms, way \in AllWays, to \in Rooms,
           back \in AllWays \cup {"none"} :
        Digs(d, op, pc, from, way, to, back) /\ (pc = "forth" => from \in built /\ to \in built)
  <2>1. CASE AddExit(d)
    <3>1. PICK from \in Rooms, to \in Rooms, way \in Ways, both \in BOOLEAN :
            Digs(d, "door", "from", from, way, to, IF both THEN Reverse(way) ELSE "none")
      BY <2>1 DEF AddExit
    <3>2. way \in AllWays /\ (IF both THEN Reverse(way) ELSE "none") \in AllWays \cup {"none"}
      BY DEF AllWays, Ways, Reverse
    <3>3. QED
      BY <3>1, <3>2
  <2>2. CASE CreateExit(d)
    <3>1. PICK from \in built, to \in built, way \in {"north", "south"}, back \in {"south", "none"} :
            Digs(d, "exit", "forth", from, way, to, back)
      BY <2>2 DEF CreateExit
    <3>2. way \in AllWays /\ back \in AllWays \cup {"none"} /\ from \in Rooms /\ to \in Rooms
      BY <1>1 DEF AllWays, Ways
    <3>3. QED
      BY <3>1, <3>2
  <2>3. QED
    BY <2>1, <2>2
<1>3. PICK r : r = [pc |-> pc, op |-> op, from |-> from, to |-> to, way |-> way, back |-> back]
  OBVIOUS
<1>4. r \in Digging /\ r.pc = pc /\ r.from = from /\ r.to = to
  BY <1>2, <1>3 DEF Digging
<1>5. DigOK(r)
  BY <1>2, <1>4 DEF DigOK
<1>6. dig' = [dig EXCEPT ![d] = r] /\ digs' = digs + 1 /\ digs < MaxDigs
      /\ UNCHANGED <<built, things, doors, exits, pairs>>
  BY <1>2, <1>3 DEF Digs
<1>7. digs' \in 0..MaxDigs
  BY <1>1, <1>6, ExitsAssumption
<1>8. QED
  BY <1>5, <1>6, <1>7, OneDigs

\* The rooms of a way by name are looked for, one after the other.
LEMMA CheckKeeps ==
  ASSUME ExitsInv, NEW d \in Diggers, CheckFrom(d) \/ CheckTo(d)
  PROVE  ExitsInv'
<1>1. DigsOK /\ digs \in 0..MaxDigs
  BY DEF ExitsInv, ExitsTypeOK
<1>2. PICK x : x = dig[d]
  OBVIOUS
<1>3. DigOK(x) /\ x.pc \in {"from", "to"} /\ UNCHANGED <<built, things, doors, exits, pairs, digs>>
  BY <1>1, <1>2 DEF DigsOK, CheckFrom, CheckTo
<1>4. x \in Digging
  BY <1>3 DEF DigOK, NoDig
<1>5. DigOK(NoDig)
  BY DEF DigOK, NoDig
<1>6. PICK y : y = [x EXCEPT !.pc = "to"]
  OBVIOUS
<1>7. PICK z : z = [x EXCEPT !.pc = "forth"]
  OBVIOUS
<1>8. /\ y \in Digging /\ y.pc = "to" /\ y.from = x.from
      /\ z \in Digging /\ z.pc = "forth" /\ z.from = x.from /\ z.to = x.to
  BY <1>4, <1>6, <1>7 DEF Digging
<1>9. CASE CheckFrom(d)
  <2>1. dig' = [dig EXCEPT ![d] = IF x.from \in built THEN y ELSE NoDig]
    BY <1>2, <1>6, <1>9 DEF CheckFrom
  <2>2. x.from \in built => DigOK(y)
    BY <1>8 DEF DigOK
  <2>3. PICK r : r = IF x.from \in built THEN y ELSE NoDig
    OBVIOUS
  <2>4. DigOK(r) /\ dig' = [dig EXCEPT ![d] = r]
    BY <1>5, <2>1, <2>2, <2>3
  <2>5. QED
    BY <1>1, <1>3, <2>4, OneDigs
<1>10. CASE CheckTo(d)
  <2>1. dig' = [dig EXCEPT ![d] = IF x.to \in built THEN z ELSE NoDig]
    BY <1>2, <1>7, <1>10 DEF CheckTo
  <2>2. x.pc = "to"
    BY <1>2, <1>10 DEF CheckTo
  <2>3. x.to \in built => DigOK(z)
    BY <1>3, <1>8, <2>2 DEF DigOK
  <2>4. PICK r : r = IF x.to \in built THEN z ELSE NoDig
    OBVIOUS
  <2>5. DigOK(r) /\ dig' = [dig EXCEPT ![d] = r]
    BY <1>5, <2>1, <2>3, <2>4
  <2>6. QED
    BY <1>1, <1>3, <2>5, OneDigs
<1>11. QED
  BY <1>9, <1>10

\* A way there and a way back are written one after the other; a pair of them
\* counts if nobody changed the first in between.
LEMMA WriteKeeps ==
  ASSUME ExitsInv, NEW d \in Diggers, Forth(d) \/ Back(d)
  PROVE  ExitsInv'
<1>1. ExitsTypeOK /\ DigsOK /\ \A p \in pairs : Joined(p)
  BY DEF ExitsInv
<1>2. PICK x : x = dig[d]
  OBVIOUS
<1>3. DigOK(x) /\ x.pc \in {"forth", "back"}
  BY <1>1, <1>2 DEF DigsOK, Forth, Back
<1>4. x \in Digging /\ x.from \in built /\ x.to \in built /\ (x.pc = "back" => x.back \in AllWays)
  <2>1. x \in Digging
    BY <1>3 DEF DigOK, NoDig
  <2>2. QED
    BY <1>3, <2>1 DEF DigOK, Digging
<1>5. PICK op \in {"door", "exit"} : op = x.op
  BY <1>4 DEF Digging
<1>6. pairs \subseteq {"door", "exit"} \X ExitKeys \X ExitKeys
  BY <1>1 DEF ExitsTypeOK
<1>7. PICK there : there = <<x.from, x.way>>
  OBVIOUS
<1>8. PICK here : here = <<x.to, x.back>>
  OBVIOUS
<1>9. there \in ExitKeys /\ there[1] = x.from /\ (x.pc = "back" => here \in ExitKeys) /\ here[1] = x.to
  BY <1>1, <1>4, <1>7, <1>8 DEF ExitKeys, ExitsTypeOK, Digging
<1>10. ASSUME NEW r, DigOK(r), dig' = [dig EXCEPT ![d] = r], UNCHANGED built PROVE DigsOK'
  <2>1. /\ dig' = [c \in Diggers |-> IF c = d THEN r ELSE dig[c]]
    BY <1>1, <1>10 DEF DigsOK
  <2>2. \A c \in Diggers : DigOK(dig'[c])
    BY <1>1, <1>10, <2>1 DEF DigsOK
  <2>3. \A c \in Diggers : DigOK(dig[c])'
    BY <1>10, <2>2 DEF DigOK
  <2>4. QED
    BY <2>1, <2>3 DEF DigsOK
<1>11. DigOK(NoDig)
  BY DEF DigOK, NoDig
<1>12. ASSUME NEW key \in ExitKeys, key[1] \in built, NEW to \in built, Write(d, key, to)
       PROVE  /\ UNCHANGED <<built, things, digs>>
              /\ pairs' \subseteq {"door", "exit"} \X ExitKeys \X ExitKeys => ExitsTypeOK'
              /\ \A p \in Kept(op, key) : Joined(p)'
              /\ DOMAIN Table(op)' = DOMAIN Table(op) \cup {key} /\ Table(op)'[key] = to
              /\ \A k \in DOMAIN Table(op) : k # key => Table(op)'[k] = Table(op)[k]
  <2>1. ExitsTypeOK /\ op \in {"door", "exit"} /\ dig[d].op = op
    BY <1>1, <1>2, <1>5
  <2>2. /\ UNCHANGED <<built, things, digs>>
        /\ DOMAIN doors' \subseteq ExitKeys /\ DOMAIN exits' \subseteq ExitKeys
        /\ \A k \in DOMAIN doors' : k[1] \in built /\ doors'[k] \in built
        /\ \A k \in DOMAIN exits' : k[1] \in built /\ exits'[k] \in [to : built, live : BOOLEAN]
        /\ DOMAIN Table(op)' = DOMAIN Table(op) \cup {key} /\ Table(op)'[key] = to
        /\ \A k \in DOMAIN Table(op) : k # key => Table(op)'[k] = Table(op)[k]
        /\ \A o \in {"door", "exit"} : o # op => Table(o)' = Table(o)
    BY <1>12, <2>1, WayWritten
  <2>3. ASSUME NEW p \in Kept(op, key) PROVE Joined(p)'
    <3>1. p \in pairs /\ (p[1] # op \/ key \notin {p[2], p[3]})
      BY DEF Kept
    <3>2. p[1] \in {"door", "exit"} /\ Joined(p)
      BY <1>1, <1>6, <3>1
    <3>3. DOMAIN Table(op) \ {key} \subseteq DOMAIN Table(op)'
      BY <2>2
    <3>4. QED
      BY <2>2, <3>1, <3>2, <3>3, JoinedKept
  <2>4. QED
    BY <1>1, <2>2, <2>3 DEF ExitsTypeOK
<1>13. CASE Forth(d)
  <2>1. Write(d, there, x.to) /\ pairs' = Kept(op, there)
        /\ dig' = [dig EXCEPT ![d] = IF x.back = "none" THEN NoDig ELSE [x EXCEPT !.pc = "back"]]
    BY <1>2, <1>5, <1>7, <1>13 DEF Forth
  <2>2. PICK to : to = x.to
    OBVIOUS
  <2>3. UNCHANGED <<built, things, digs>> /\ (\A p \in pairs' : Joined(p)')
        /\ (pairs' \subseteq {"door", "exit"} \X ExitKeys \X ExitKeys => ExitsTypeOK')
    BY <1>4, <1>9, <1>12, <2>1, <2>2
  <2>4. pairs' \subseteq pairs
    BY <2>1 DEF Kept
  <2>5. PICK y : y = [x EXCEPT !.pc = "back"]
    OBVIOUS
  <2>6. y \in Digging /\ y.pc = "back" /\ y.from = x.from /\ y.to = x.to /\ y.back = x.back
    BY <1>4, <2>5 DEF Digging
  <2>7. x.back # "none" => DigOK(y)
    BY <1>4, <2>6 DEF DigOK
  <2>8. PICK r : r = IF x.back = "none" THEN NoDig ELSE y
    OBVIOUS
  <2>9. DigOK(r) /\ dig' = [dig EXCEPT ![d] = r]
    BY <1>11, <2>1, <2>5, <2>7, <2>8
  <2>10. DigsOK'
    BY <1>10, <2>3, <2>9
  <2>11. QED
    BY <1>6, <2>3, <2>4, <2>10 DEF ExitsInv
<1>14. CASE Back(d)
  <2>1. PICK whole : whole = (there # here /\ there \in DOMAIN Table(op) /\ Table(op)[there] = x.to)
    OBVIOUS
  <2>2. /\ Write(d, here, x.from) /\ dig' = [dig EXCEPT ![d] = NoDig] /\ x.pc = "back"
        /\ pairs' = Kept(op, here) \cup (IF whole THEN {<<op, there, here>>} ELSE {})
    BY <1>2, <1>5, <1>7, <1>8, <1>14, <2>1 DEF Back, BackKey
  <2>3. PICK from : from = x.from
    OBVIOUS
  <2>4. /\ UNCHANGED <<built, things, digs>> /\ \A p \in Kept(op, here) : Joined(p)'
        /\ pairs' \subseteq {"door", "exit"} \X ExitKeys \X ExitKeys => ExitsTypeOK'
        /\ DOMAIN Table(op)' = DOMAIN Table(op) \cup {here} /\ Table(op)'[here] = from
        /\ \A k \in DOMAIN Table(op) : k # here => Table(op)'[k] = Table(op)[k]
    BY <1>4, <1>9, <1>12, <2>2, <2>3
  <2>5. pairs' \subseteq {"door", "exit"} \X ExitKeys \X ExitKeys
    <3>1. Kept(op, here) \subseteq pairs
      BY DEF Kept
    <3>2. <<op, there, here>> \in {"door", "exit"} \X ExitKeys \X ExitKeys
      BY <1>9, <2>2
    <3>3. QED
      BY <1>6, <2>2, <3>1, <3>2
  <2>6. whole => Joined(<<op, there, here>>)'
    <3>1. SUFFICES ASSUME whole PROVE Joined(<<op, there, here>>)'
      OBVIOUS
    <3>2. there \in DOMAIN Table(op)' /\ here \in DOMAIN Table(op)'
      BY <2>1, <2>4, <3>1
    <3>3. Table(op)'[there] = here[1] /\ Table(op)'[here] = there[1]
      BY <1>9, <2>1, <2>3, <2>4, <3>1
    <3>4. QED
      BY <3>2, <3>3 DEF Joined
  <2>7. \A p \in pairs' : Joined(p)'
    BY <2>2, <2>4, <2>6
  <2>8. DigsOK'
    BY <1>10, <1>11, <2>2, <2>4
  <2>9. QED
    BY <2>4, <2>5, <2>7, <2>8 DEF ExitsInv
<1>15. QED
  BY <1>13, <1>14

\* An exit or a thing is deleted.
LEMMA DeleteKeeps ==
  ASSUME ExitsInv, NEW d \in Diggers, DeleteExit(d) \/ DeleteThing(d)
  PROVE  ExitsInv'
<1>1. ExitsTypeOK /\ DigsOK /\ (\A p \in pairs : Joined(p)) /\ digs \in 0..MaxDigs
  BY DEF ExitsInv, ExitsTypeOK
<1>2. digs' = digs + 1 /\ digs < MaxDigs /\ UNCHANGED <<built, doors, dig>>
  BY DEF DeleteExit, DeleteThing
<1>3. digs' \in 0..MaxDigs
  BY <1>1, <1>2, ExitsAssumption
<1>4. DigsOK'
  BY <1>1, <1>2 DEF DigsOK, DigOK
<1>5. CASE DeleteExit(d)
  <2>1. PICK k \in DOMAIN exits : exits' = [exits EXCEPT ![k].live = FALSE] /\ pairs' = Kept("exit", k) /\ things' = things
    BY <1>5 DEF DeleteExit
  <2>2. exits[k] \in [to : built, live : BOOLEAN]
    BY <1>1 DEF ExitsTypeOK
  <2>3. PICK e : e = [exits[k] EXCEPT !.live = FALSE]
    OBVIOUS
  <2>4. e \in [to : built, live : BOOLEAN] /\ e.live = FALSE
    BY <2>2, <2>3
  <2>5. exits' = [exits EXCEPT ![k] = e]
    BY <2>1, <2>3
  <2>6. DOMAIN exits' = DOMAIN exits /\ exits'[k] = e /\ \A l \in DOMAIN exits : l # k => exits'[l] = exits[l]
    BY <2>5
  <2>7. Live' = Live \ {k}
    BY <2>4, <2>6 DEF Live
  <2>8. Table("exit") = [l \in Live |-> exits[l].to] /\ Table("exit")' = [l \in Live' |-> exits'[l].to]
        /\ Table("door")' = Table("door")
    BY <1>2 DEF Table
  <2>9. DOMAIN Table("exit") \ {k} \subseteq DOMAIN Table("exit")'
        /\ \A l \in DOMAIN Table("exit") : l # k => Table("exit")'[l] = Table("exit")[l]
    BY <2>6, <2>7, <2>8 DEF Live
  <2>10. ASSUME NEW p \in pairs' PROVE Joined(p)'
    <3>1. p \in pairs /\ (p[1] # "exit" \/ k \notin {p[2], p[3]})
      BY <2>1 DEF Kept
    <3>2. p[1] \in {"door", "exit"} /\ Joined(p)
      BY <1>1, <3>1 DEF ExitsTypeOK
    <3>3. QED
      BY <2>8, <2>9, <3>1, <3>2, JoinedKept
  <2>11. ExitsTypeOK'
    BY <1>1, <1>2, <1>3, <2>1, <2>4, <2>6 DEF ExitsTypeOK, Kept
  <2>12. QED
    BY <1>4, <2>10, <2>11 DEF ExitsInv
<1>6. CASE DeleteThing(d)
  <2>1. UNCHANGED <<exits, pairs>> /\ things' \subseteq things
    BY <1>6 DEF DeleteThing
  <2>2. ExitsTypeOK'
    BY <1>1, <1>2, <1>3, <2>1 DEF ExitsTypeOK
  <2>3. ASSUME NEW p \in pairs' PROVE Joined(p)'
    <3>1. Table(p[1])' = Table(p[1])
      BY <1>2, <2>1 DEF Table, Live
    <3>2. QED
      BY <1>1, <2>1, <3>1 DEF Joined
  <2>4. QED
    BY <1>4, <2>2, <2>3 DEF ExitsInv
<1>7. QED
  BY <1>5, <1>6

-----------------------------------------------------------------------------
(* The search for a path                                                   *)

\* What the table of exits is for a search: finite, among rooms
ExitsAre == IsFiniteSet(DOMAIN exits) /\ \A k \in Live : k[1] \in Rooms /\ exits[k].to \in Rooms

RoomsOn(list) == {list[n] : n \in DOMAIN list}
\* The exits from a room to others than some
Onward(room, visited) == {k \in Live : k[1] = room /\ exits[k].to \notin visited}

\* Some exits can be put in an order, and their targets in the same.
LEMMA TargetsList ==
  ASSUME ExitsAre, NEW keys \in SUBSET Live
  PROVE  /\ Targets(keys) \in Seq(Rooms) /\ RoomsOn(Targets(keys)) = {exits[k].to : k \in keys}
         /\ keys = {} => Len(Targets(keys)) = 0
<1> DEFINE N == Cardinality(keys)
           order == CHOOSE o \in [1..N -> keys] : {o[n] : n \in DOMAIN o} = keys
<1>1. IsFiniteSet(keys)
  BY FS_Subset DEF ExitsAre, Live
<1>2. N \in Nat /\ ExistsBijection(1..N, keys)
  BY <1>1, FS_CardinalityType
<1>3. PICK f \in [1..N -> keys] : \A k \in keys : \E n \in 1..N : f[n] = k
  BY <1>2 DEF ExistsBijection, Bijection, Surjection
<1>4. {f[n] : n \in DOMAIN f} = keys
  BY <1>3
<1>5. order \in [1..N -> keys] /\ {order[n] : n \in DOMAIN order} = keys
  BY <1>4
<1>6. Targets(keys) = [n \in DOMAIN order |-> exits[order[n]].to]
  BY DEF Targets
<1>7. keys = {} => N = 0
  BY FS_EmptySet
<1> HIDE DEF N, order
<1>8. DOMAIN order = 1..N /\ \A n \in 1..N : order[n] \in keys
  BY <1>5
<1>9. Targets(keys) \in [1..N -> Rooms]
  BY <1>6, <1>8 DEF ExitsAre
<1>10. Targets(keys) \in Seq(Rooms) /\ Len(Targets(keys)) = N
  BY <1>2, <1>9
<1>11. RoomsOn(Targets(keys)) = {exits[order[n]].to : n \in 1..N}
  BY <1>6, <1>8 DEF RoomsOn
<1>12. {exits[order[n]].to : n \in 1..N} = {exits[k].to : k \in keys}
  BY <1>5, <1>8
<1>13. QED
  BY <1>7, <1>10, <1>11, <1>12

\* A list without its last room, and with others behind it
LEMMA ListWithoutLast ==
  ASSUME NEW l \in Seq(Rooms), l # << >>
  PROVE  /\ l[Len(l)] \in Rooms /\ SubSeq(l, 1, Len(l) - 1) \in Seq(Rooms)
         /\ Len(SubSeq(l, 1, Len(l) - 1)) = Len(l) - 1
         /\ RoomsOn(l) = RoomsOn(SubSeq(l, 1, Len(l) - 1)) \cup {l[Len(l)]}
<1> DEFINE rest == SubSeq(l, 1, Len(l) - 1)
<1>1. PICK N \in Nat : N = Len(l) /\ N > 0 /\ DOMAIN l = 1..N
  OBVIOUS
<1>2. l[N] \in Rooms
  BY <1>1
<1>3. rest \in Seq(Rooms) /\ Len(rest) = N - 1 /\ \A n \in 1..(N-1) : rest[n] = l[n]
  BY <1>1
<1>4. DOMAIN rest = 1..(N-1)
  BY <1>1, <1>3
<1> HIDE DEF rest
<1>5. \A n \in 1..N : n = N \/ n \in 1..(N-1)
  OBVIOUS
<1>6. \A n \in 1..(N-1) : n \in 1..N
  OBVIOUS
<1>7. N \in 1..N
  BY <1>1
<1>8. RoomsOn(l) = RoomsOn(rest) \cup {l[N]}
  BY <1>1, <1>3, <1>4, <1>5, <1>6, <1>7 DEF RoomsOn
<1>9. QED
  BY <1>1, <1>2, <1>3, <1>8 DEF rest

LEMMA ListsTogether ==
  ASSUME NEW l \in Seq(Rooms), NEW m \in Seq(Rooms)
  PROVE  /\ l \o m \in Seq(Rooms) /\ Len(l \o m) = Len(l) + Len(m)
         /\ RoomsOn(l \o m) = RoomsOn(l) \cup RoomsOn(m)
<1>1. PICK N \in Nat, M \in Nat : /\ N = Len(l) /\ DOMAIN l = 1..N
                                  /\ M = Len(m) /\ DOMAIN m = 1..M
  OBVIOUS
<1>2. PICK s : s = l \o m
  OBVIOUS
<1>3. /\ s \in Seq(Rooms) /\ Len(s) = N + M /\ DOMAIN s = 1..(N + M)
      /\ \A n \in 1..N : s[n] = l[n]
      /\ \A n \in 1..(N + M) : n > N => s[n] = m[n - N]
  BY <1>1, <1>2
<1>4. ASSUME NEW n \in 1..(N + M) PROVE n \in 1..N \/ (n > N /\ n - N \in 1..M)
  OBVIOUS
<1>5. ASSUME NEW n \in 1..M PROVE s[n + N] = m[n] /\ n + N \in 1..(N + M)
  <2>1. PICK k \in 1..(N + M) : k = n + N /\ k > N /\ k - N = n
    OBVIOUS
  <2>2. s[k] = m[k - N]
    BY <1>3, <2>1
  <2>3. QED
    BY <2>1, <2>2
<1>6. ASSUME NEW n \in 1..N PROVE n \in 1..(N + M)
  OBVIOUS
<1>7. RoomsOn(s) = RoomsOn(l) \cup RoomsOn(m)
  <2>1. RoomsOn(s) \subseteq RoomsOn(l) \cup RoomsOn(m)
    <3>1. SUFFICES ASSUME NEW n \in 1..(N + M) PROVE s[n] \in RoomsOn(l) \cup RoomsOn(m)
      BY <1>3 DEF RoomsOn
    <3>2. CASE n \in 1..N
      BY <1>1, <1>3, <3>2 DEF RoomsOn
    <3>3. CASE n > N /\ n - N \in 1..M
      <4>1. s[n] = m[n - N]
        BY <1>3, <3>3
      <4>2. QED
        BY <1>1, <3>3, <4>1 DEF RoomsOn
    <3>4. QED
      BY <1>4, <3>2, <3>3
  <2>2. RoomsOn(l) \subseteq RoomsOn(s)
    BY <1>1, <1>3, <1>6 DEF RoomsOn
  <2>3. RoomsOn(m) \subseteq RoomsOn(s)
    BY <1>1, <1>3, <1>5 DEF RoomsOn
  <2>4. QED
    BY <2>1, <2>2, <2>3
<1>8. QED
  BY <1>1, <1>2, <1>3, <1>7

\* A round of the search: the last room of the list leaves it; if it was not
\* looked at before, it was now, and the list has what its exits lead to.
LEMMA RoundIs ==
  ASSUME ExitsAre, NEW s \in Searches, s.list # << >>
  PROVE  LET c == Current(s)
             visited == s.visited \cup {c}
             new == {exits[k].to : k \in Onward(c, visited)}
         IN  /\ c \in RoomsOn(s.list) /\ c \in Rooms
             /\ Round(s) \in Searches /\ Round(s).to = s.to
             /\ \E rest :
                  /\ RoomsOn(s.list) = RoomsOn(rest) \cup {c}
                  /\ c \in s.visited => /\ Round(s).visited = s.visited
                                        /\ RoomsOn(Round(s).list) = RoomsOn(rest)
                  /\ c \notin s.visited => /\ Round(s).visited = visited
                                           /\ RoomsOn(Round(s).list) = RoomsOn(rest) \cup new
             /\ c \in s.visited \/ Onward(c, visited) = {} => Len(Round(s).list) = Len(s.list) - 1
<1> DEFINE c == Current(s)
           visited == s.visited \cup {c}
           rest == SubSeq(s.list, 1, Len(s.list) - 1)
           onward == Onward(c, visited)
           new == {exits[k].to : k \in onward}
           r == Round(s)
<1>1. s.visited \in SUBSET Rooms /\ s.list \in Seq(Rooms) /\ s.to \in Rooms
  BY DEF Searches
<1>2. /\ c \in Rooms /\ rest \in Seq(Rooms) /\ Len(rest) = Len(s.list) - 1
      /\ RoomsOn(s.list) = RoomsOn(rest) \cup {c}
  BY <1>1, ListWithoutLast DEF Current
<1>3. onward \in SUBSET Live
  BY DEF Onward
<1>4. /\ Targets(onward) \in Seq(Rooms) /\ RoomsOn(Targets(onward)) = new
      /\ onward = {} => Len(Targets(onward)) = 0
  BY <1>3, TargetsList
<1>5. r = IF c \in s.visited THEN [s EXCEPT !.list = rest]
          ELSE [s EXCEPT !.visited = visited, !.list = rest \o Targets(onward)]
  BY DEF Round, Onward
<1>6. PICK l : l = rest \o Targets(onward)
  OBVIOUS
<1>7. /\ l \in Seq(Rooms) /\ Len(l) = Len(rest) + Len(Targets(onward))
      /\ RoomsOn(l) = RoomsOn(rest) \cup new
  BY <1>2, <1>4, <1>6, ListsTogether
<1>8. s = [visited |-> s.visited, list |-> s.list, to |-> s.to]
  BY DEF Searches
<1> HIDE DEF c, rest, onward, r
<1>9. CASE c \in s.visited
  <2>1. r = [visited |-> s.visited, list |-> rest, to |-> s.to]
    BY <1>5, <1>8, <1>9
  <2>2. r \in Searches
    BY <1>1, <1>2, <2>1 DEF Searches
  <2>3. QED
    BY <1>2, <1>9, <2>1, <2>2 DEF c, r
<1>10. CASE c \notin s.visited
  <2>1. r = [visited |-> visited, list |-> l, to |-> s.to]
    BY <1>5, <1>6, <1>8, <1>10
  <2>2. visited \in SUBSET Rooms
    BY <1>1, <1>2
  <2>3. r \in Searches
    BY <1>1, <1>7, <2>1, <2>2 DEF Searches
  <2>4. onward = {} => Len(l) = Len(s.list) - 1
    <3>1. Len(rest) \in Nat
      BY <1>2
    <3>2. QED
      BY <1>2, <1>4, <1>7, <3>1
  <2>5. r.visited = visited /\ r.list = l /\ r.to = s.to /\ c \in RoomsOn(s.list)
    BY <1>2, <2>1
  <2>6. RoomsOn(r.list) = RoomsOn(rest) \cup new
    BY <1>7, <2>5
  <2>7. onward = {} => Len(r.list) = Len(s.list) - 1
    BY <2>4, <2>5
  <2>8. QED
    BY <1>2, <1>10, <2>3, <2>5, <2>6, <2>7 DEF c, r, onward
<1>11. QED
  BY <1>9, <1>10

\* What the search answers: a room that was looked at is found just if it is
\* still in the list; another one, if exits lead there from the list past rooms
\* that were not looked at.
Past(visited, set) ==
  /\ set \in SUBSET Rooms
  /\ \A k \in Live : k[1] \in set /\ k[1] \notin visited => exits[k].to \in set
Leads(visited, from, to) == \A set : Past(visited, set) /\ from \subseteq set => to \in set
Finds(s) ==
  \/ s.to \in s.visited /\ s.to \in RoomsOn(s.list)
  \/ s.to \notin s.visited /\ Leads(s.visited, RoomsOn(s.list), s.to)

\* The answer of a search is that of its next round.
LEMMA AnswerStays ==
  ASSUME ExitsAre, NEW s \in Searches, s.list # << >>
  PROVE  Finds(s) <=> (Current(s) = s.to \/ Finds(Round(s)))
<1> DEFINE c == Current(s)
           visited == s.visited \cup {c}
           new == {exits[k].to : k \in Onward(c, visited)}
           r == Round(s)
<1>1. /\ c \in RoomsOn(s.list) /\ c \in Rooms /\ r.to = s.to
      /\ s.visited \in SUBSET Rooms /\ RoomsOn(s.list) \subseteq Rooms
  <2>1. s.visited \in SUBSET Rooms /\ s.list \in Seq(Rooms)
    BY DEF Searches
  <2>2. RoomsOn(s.list) \subseteq Rooms
    BY <2>1 DEF RoomsOn
  <2>3. c \in RoomsOn(s.list) /\ c \in Rooms /\ r.to = s.to
    BY RoundIs
  <2>4. QED
    BY <2>1, <2>2, <2>3
<1>2. PICK rest :
        /\ RoomsOn(s.list) = RoomsOn(rest) \cup {c}
        /\ c \in s.visited => r.visited = s.visited /\ RoomsOn(r.list) = RoomsOn(rest)
        /\ c \notin s.visited => r.visited = visited /\ RoomsOn(r.list) = RoomsOn(rest) \cup new
  BY RoundIs
<1>3. CASE c = s.to
  BY <1>1, <1>3 DEF Finds, Leads
<1>4. CASE c # s.to /\ s.to \in s.visited
  <2>1. s.to \notin new
    BY <1>4 DEF Onward
  <2>2. s.to \in r.visited
    BY <1>2, <1>4
  <2>3. QED
    BY <1>1, <1>2, <1>4, <2>1, <2>2 DEF Finds
<1>5. CASE c # s.to /\ s.to \notin s.visited /\ c \in s.visited
  <2>1. \A set : Past(s.visited, set) => Past(s.visited, set \cup {c}) /\ Past(s.visited, set)
    BY <1>1, <1>5 DEF Past
  <2>2. Leads(s.visited, RoomsOn(s.list), s.to) <=> Leads(s.visited, RoomsOn(rest), s.to)
    BY <1>2, <1>5, <2>1 DEF Leads
  <2>3. QED
    BY <1>1, <1>2, <1>5, <2>2 DEF Finds
<1>6. CASE c # s.to /\ s.to \notin s.visited /\ c \notin s.visited
  <2>1. ASSUME NEW set, Past(s.visited, set), RoomsOn(s.list) \subseteq set
        PROVE  Past(visited, set) /\ RoomsOn(rest) \cup new \subseteq set
    BY <1>2, <1>6, <2>1 DEF Past, Onward
  <2>2. ASSUME NEW set, Past(visited, set), RoomsOn(rest) \cup new \subseteq set
        PROVE  /\ Past(s.visited, set \cup visited)
               /\ RoomsOn(s.list) \subseteq set \cup visited
    BY <1>1, <1>2, <2>2 DEF Past, Onward
  <2>3. Leads(s.visited, RoomsOn(s.list), s.to) <=> Leads(visited, RoomsOn(rest) \cup new, s.to)
    <3>1. ASSUME Leads(visited, RoomsOn(rest) \cup new, s.to)
          PROVE  Leads(s.visited, RoomsOn(s.list), s.to)
      BY <2>1, <3>1 DEF Leads
    <3>2. ASSUME Leads(s.visited, RoomsOn(s.list), s.to)
          PROVE  Leads(visited, RoomsOn(rest) \cup new, s.to)
      BY <1>6, <2>2, <3>2 DEF Leads
    <3>3. QED
      BY <3>1, <3>2
  <2>4. QED
    BY <1>1, <1>2, <1>6, <2>3 DEF Finds
<1>7. QED
  BY <1>3, <1>4, <1>5, <1>6

\* Search is the function its definition describes: there is one, Finds.
LEMMA SearchIs ==
  ASSUME ExitsAre, NEW s \in Searches
  PROVE  Search[s] <=> (s.list # << >> /\ (Current(s) = s.to \/ Search[Round(s)]))
<1> DEFINE found(f, x) == IF x.list = << >> THEN FALSE ELSE Current(x) = x.to \/ f[Round(x)]
           Is(f) == f = [x \in Searches |-> found(f, x)]
           finds == [x \in Searches |-> Finds(x)]
<1>1. Search = CHOOSE f : Is(f)
  BY Zenon DEF Search
<1>2. ASSUME NEW x \in Searches PROVE Finds(x) = found(finds, x)
  <2>1. CASE x.list = << >>
    <3>1. RoomsOn(x.list) = {}
      BY <2>1 DEF RoomsOn
    <3>2. x.visited \in SUBSET Rooms /\ x.to \in Rooms
      BY DEF Searches
    <3>3. ~Leads(x.visited, {}, x.to)
      <4>1. Past(x.visited, {})
        BY DEF Past
      <4>2. QED
        BY <4>1 DEF Leads
    <3>4. ~Finds(x)
      BY <3>1, <3>3 DEF Finds
    <3>5. Finds(x) \in BOOLEAN
      BY Zenon DEF Finds
    <3>6. QED
      BY <2>1, <3>4, <3>5
  <2>2. CASE x.list # << >>
    <3>1. Round(x) \in Searches
      BY <2>2, RoundIs
    <3>2. finds[Round(x)] = Finds(Round(x))
      BY <3>1
    <3>3. Finds(x) <=> (Current(x) = x.to \/ Finds(Round(x)))
      BY <2>2, AnswerStays
    <3>4. Finds(x) \in BOOLEAN /\ Finds(Round(x)) \in BOOLEAN
      BY Zenon DEF Finds
    <3>5. QED
      BY <2>2, <3>2, <3>3, <3>4
  <2>3. QED
    BY <2>1, <2>2
<1>3. Is(finds)
  <2>1. \A x \in Searches : Finds(x) = found(finds, x)
    BY <1>2
  <2> HIDE DEF found
  <2>2. QED
    BY <2>1
<1> HIDE DEF Is, finds
<1>4. Is(Search)
  BY <1>1, <1>3, Zenon
<1>5. Search[s] = found(Search, s)
  BY <1>4 DEF Is
<1>6. QED
  BY <1>5

\* What is left of a search: exits of rooms not looked at, then rooms in the list
Ahead(s) == Cardinality({k \in Live : k[1] \notin s.visited})

LEMMA RoundsEnd ==
  ASSUME ExitsAre, NEW s \in Searches, s.list # << >>
  PROVE  /\ Len(s.list) \in Nat /\ Len(Round(s).list) \in Nat
         /\ Ahead(s) \in Nat /\ Ahead(Round(s)) \in Nat
         /\ \/ Ahead(Round(s)) < Ahead(s)
            \/ Ahead(Round(s)) = Ahead(s) /\ Len(Round(s).list) < Len(s.list)
<1> DEFINE c == Current(s)
           visited == s.visited \cup {c}
           r == Round(s)
           left(x) == {k \in Live : k[1] \notin x.visited}
<1>1. /\ r \in Searches
      /\ c \in s.visited => r.visited = s.visited
      /\ c \notin s.visited => r.visited = visited
      /\ c \in s.visited \/ Onward(c, visited) = {} => Len(r.list) = Len(s.list) - 1
  BY RoundIs
<1>2. Len(s.list) \in Nat /\ Len(r.list) \in Nat
  BY <1>1 DEF Searches
<1>3. IsFiniteSet(Live)
  BY FS_Subset DEF ExitsAre, Live
<1>4. /\ IsFiniteSet(left(s)) /\ IsFiniteSet(left(r))
      /\ Ahead(s) = Cardinality(left(s)) /\ Ahead(r) = Cardinality(left(r))
  BY <1>3, FS_Subset DEF Ahead
<1>5. Ahead(s) \in Nat /\ Ahead(r) \in Nat
  BY <1>4, FS_CardinalityType
<1>6. CASE c \in s.visited
  <2>1. left(r) = left(s)
    BY <1>1, <1>6
  <2>2. Ahead(r) = Ahead(s)
    BY <1>4, <2>1
  <2>3. Len(r.list) = Len(s.list) - 1
    BY <1>1, <1>6
  <2>4. QED
    BY <1>2, <1>5, <2>2, <2>3
<1>7. CASE c \notin s.visited
  <2>1. left(r) \subseteq left(s)
    BY <1>1, <1>7
  <2>2. Ahead(r) <= Ahead(s) /\ (Ahead(r) = Ahead(s) => left(r) = left(s))
    BY <1>4, <2>1, FS_Subset
  <2>3. ASSUME left(r) = left(s) PROVE Onward(c, visited) = {}
    <3>1. ASSUME NEW k \in Onward(c, visited) PROVE FALSE
      <4>1. k \in left(s) /\ k \notin left(r)
        BY <1>1, <1>7, <3>1 DEF Onward
      <4>2. QED
        BY <2>3, <4>1
    <3>2. QED
      BY <3>1
  <2>4. CASE Ahead(r) = Ahead(s)
    <3>1. Len(r.list) = Len(s.list) - 1
      BY <1>1, <2>2, <2>3, <2>4
    <3>2. QED
      BY <1>2, <1>5, <2>4, <3>1
  <2>5. CASE Ahead(r) # Ahead(s)
    BY <1>2, <1>5, <2>2, <2>5
  <2>6. QED
    BY <2>4, <2>5
<1>8. QED
  BY <1>6, <1>7

\* The search gives the answer: of the searches that did not, there would be
\* one with the least left, and its next round would have less.
LEMMA SearchAnswers ==
  ASSUME ExitsAre, NEW s \in Searches
  PROVE  Search[s] <=> Finds(s)
<1> DEFINE wrong == {x \in Searches : ~(Search[x] <=> Finds(x))}
           aheads == {Ahead(x) : x \in wrong}
<1>1. ASSUME NEW x \in wrong
      PROVE  /\ x \in Searches /\ x.list # << >> /\ Round(x) \in wrong
             /\ Ahead(x) \in Nat /\ Len(x.list) \in Nat /\ Len(Round(x).list) \in Nat
             /\ Ahead(Round(x)) \in Nat
             /\ \/ Ahead(Round(x)) < Ahead(x)
                \/ Ahead(Round(x)) = Ahead(x) /\ Len(Round(x).list) < Len(x.list)
  <2>1. x \in Searches /\ ~(Search[x] <=> Finds(x))
    OBVIOUS
  <2>2. Search[x] <=> (x.list # << >> /\ (Current(x) = x.to \/ Search[Round(x)]))
    BY <2>1, SearchIs
  <2>3. x.list # << >>
    <3>1. SUFFICES ASSUME x.list = << >> PROVE ~Finds(x)
      BY <2>1, <2>2
    <3>2. RoomsOn(x.list) = {}
      BY <3>1 DEF RoomsOn
    <3>3. Past(x.visited, {})
      BY DEF Past
    <3>4. QED
      BY <3>2, <3>3 DEF Finds, Leads
  <2>4. Finds(x) <=> (Current(x) = x.to \/ Finds(Round(x)))
    BY <2>1, <2>3, AnswerStays
  <2>5. Round(x) \in Searches
    BY <2>1, <2>3, RoundIs
  <2>6. Round(x) \in wrong
    BY <2>1, <2>2, <2>3, <2>4, <2>5
  <2>7. QED
    BY <2>1, <2>3, <2>6, RoundsEnd
<1> HIDE DEF wrong
<1>2. SUFFICES ASSUME wrong # {} PROVE FALSE
  BY DEF wrong
<1>3. aheads \in SUBSET Nat /\ aheads # {}
  BY <1>1, <1>2
<1>4. PICK x \in wrong : \A y \in wrong : Ahead(x) <= Ahead(y)
  <2>1. PICK a \in aheads : \A b \in aheads : a <= b
    BY <1>3, LeastExists
  <2>2. QED
    BY <2>1
<1> DEFINE least == {y \in wrong : Ahead(y) = Ahead(x)}
           lengths == {Len(y.list) : y \in least}
<1>5. lengths \in SUBSET Nat /\ lengths # {}
  BY <1>1
<1>6. PICK z \in least : \A y \in least : Len(z.list) <= Len(y.list)
  <2>1. PICK a \in lengths : \A b \in lengths : a <= b
    BY <1>5, LeastExists
  <2>2. QED
    BY <2>1
<1>7. Round(z) \in wrong /\ Ahead(z) = Ahead(x) /\ z \in wrong
  BY <1>1, <1>6
<1>8. Ahead(x) <= Ahead(Round(z))
  BY <1>4, <1>7
<1>9. Ahead(Round(z)) = Ahead(z) /\ Len(Round(z).list) < Len(z.list)
  BY <1>1, <1>7, <1>8
<1>10. Len(z.list) <= Len(Round(z).list)
  BY <1>6, <1>7, <1>9
<1>11. QED
  BY <1>1, <1>7, <1>9, <1>10

\* The search from a room finds those its exits lead to, and itself.
LEMMA PathsFollowExits ==
  ASSUME ExitsAre, NEW from \in Rooms
  PROVE  {to \in Rooms : HasPath(from, to)} = Reach({<<k[1], exits[k].to>> : k \in Live}, from)
<1> DEFINE steps == {<<k[1], exits[k].to>> : k \in Live}
           closed == {set \in SUBSET Rooms : from \in set /\ \A p \in steps : p[1] \in set => p[2] \in set}
<1>1. ASSUME NEW to \in Rooms PROVE HasPath(from, to) <=> to \in Reach(steps, from)
  <2> DEFINE s == [visited |-> {}, list |-> <<from>>, to |-> to]
  <2>1. s \in Searches
    BY DEF Searches
  <2>2. HasPath(from, to) <=> Finds(s)
    BY <2>1, SearchAnswers DEF HasPath
  <2>3. RoomsOn(<<from>>) = {from}
    BY DEF RoomsOn
  <2>4. Finds(s) <=> Leads({}, {from}, to)
    <3>1. s.visited = {} /\ s.list = <<from>> /\ s.to = to
      OBVIOUS
    <3> HIDE DEF s
    <3>2. QED
      BY <2>3, <3>1 DEF Finds
  <2>5. \A set : set \in closed <=> (Past({}, set) /\ {from} \subseteq set)
    <3>1. ASSUME NEW set
          PROVE  (\A p \in steps : p[1] \in set => p[2] \in set)
                 <=> (\A k \in Live : k[1] \in set => exits[k].to \in set)
      <4>1. ASSUME NEW k \in Live
            PROVE  /\ <<k[1], exits[k].to>> \in steps
                   /\ <<k[1], exits[k].to>>[1] = k[1] /\ <<k[1], exits[k].to>>[2] = exits[k].to
        OBVIOUS
      <4>2. \A p \in steps : \E k \in Live : p[1] = k[1] /\ p[2] = exits[k].to
        OBVIOUS
      <4> HIDE DEF steps
      <4>3. QED
        BY <4>1, <4>2
    <3> HIDE DEF steps
    <3>2. QED
      BY <3>1 DEF Past
  <2>6. to \in Reach(steps, from) <=> \A set \in closed : to \in set
    BY DEF Reach
  <2> HIDE DEF closed
  <2>7. QED
    BY <2>2, <2>4, <2>5, <2>6 DEF Leads
<1>2. Reach(steps, from) \subseteq Rooms
  BY DEF Reach
<1>3. QED
  BY <1>1, <1>2

\* The short names of ways stand for the long ones.
LEMMA OppositesAgree ==
  \A way \in AllWays : Opposite(way) # "none" => Opposite(Opposite(way)) = Normalize(way)
BY DEF AllWays, Ways, Opposite, Normalize

-----------------------------------------------------------------------------
(* Exits of every behaviour                                                *)

\* The invariant of exits holds whatever a behaviour works on.
LEMMA ExitsHold == RecordsSpec => []ExitsInv
<1>1. RecordsInit => ExitsInv
  <2>1. SUFFICES ASSUME ExitsInit PROVE ExitsInv
    BY DEF RecordsInit
  <2>2. built \subseteq Rooms /\ things = built /\ DOMAIN doors = {} /\ DOMAIN exits = {} /\ pairs = {} /\ digs = 0
    BY <2>1 DEF ExitsInit
  <2>3. ExitsTypeOK
    BY <2>2, ExitsAssumption DEF ExitsTypeOK
  <2>4. DigsOK
    BY <2>1 DEF ExitsInit, DigsOK, DigOK, NoDig
  <2>5. QED
    BY <2>2, <2>3, <2>4 DEF ExitsInv
<1>2. ExitsInv /\ [RecordsNext]_recordsVars => ExitsInv'
  <2>1. SUFFICES ASSUME ExitsInv, [RecordsNext]_recordsVars PROVE ExitsInv'
    OBVIOUS
  <2>2. CASE ExitsStep
    <3>1. PICK d \in Diggers : \/ AddExit(d) \/ CreateExit(d) \/ DeleteExit(d) \/ DeleteThing(d)
                               \/ CheckFrom(d) \/ CheckTo(d) \/ Forth(d) \/ Back(d)
      BY <2>2 DEF ExitsStep, ExitsNext
    <3>2. QED
      BY <2>1, <3>1, DigStarts, DeleteKeeps, CheckKeeps, WriteKeeps
  <2>3. CASE UNCHANGED exitsVars
    <3>1. UNCHANGED <<built, things, doors, exits, dig, pairs, digs>>
      BY <2>3 DEF exitsVars
    <3>2. ExitsTypeOK'
      BY <2>1, <3>1 DEF ExitsInv, ExitsTypeOK
    <3>3. DigsOK'
      BY <2>1, <3>1 DEF ExitsInv, DigsOK, DigOK
    <3>4. ASSUME NEW p \in pairs' PROVE Joined(p)'
      <4>1. Table(p[1])' = Table(p[1])
        BY <3>1 DEF Table, Live
      <4>2. QED
        BY <2>1, <3>1, <4>1 DEF ExitsInv, Joined
    <3>5. QED
      BY <3>2, <3>3, <3>4 DEF ExitsInv
  <2>4. QED
    BY <2>1, <2>2, <2>3 DEF RecordsNext, TalkStep, PromptsStep, recordsVars
<1>3. QED
  BY <1>1, <1>2, PTL DEF RecordsSpec

\* The table of exits is finite: a command writes one.
LEMMA ExitsStayFinite == RecordsSpec => []IsFiniteSet(DOMAIN exits)
<1>1. RecordsInit => IsFiniteSet(DOMAIN exits)
  <2>1. ASSUME exits = << >> PROVE DOMAIN exits = {}
    BY <2>1
  <2>2. QED
    BY <2>1, FS_EmptySet DEF RecordsInit, ExitsInit
<1>2. IsFiniteSet(DOMAIN exits) /\ [RecordsNext]_recordsVars => IsFiniteSet(DOMAIN exits)'
  <2>1. SUFFICES ASSUME IsFiniteSet(DOMAIN exits), [RecordsNext]_recordsVars
                 PROVE  IsFiniteSet(DOMAIN exits')
    OBVIOUS
  <2>2. CASE exits' = exits
    BY <2>1, <2>2
  <2>3. ASSUME NEW d \in Diggers, Forth(d) \/ Back(d) PROVE IsFiniteSet(DOMAIN exits')
    <3>1. PICK key, to : Write(d, key, to)
      BY <2>3 DEF Forth, Back
    <3>2. CASE DOMAIN exits' = DOMAIN exits \cup {key}
      BY <2>1, <3>2, FS_AddElement
    <3>3. QED
      BY <2>2, <3>1, <3>2 DEF Write, With
  <2>4. ASSUME NEW d \in Diggers, DeleteExit(d) PROVE IsFiniteSet(DOMAIN exits')
    <3>1. DOMAIN exits' = DOMAIN exits
      BY <2>4 DEF DeleteExit
    <3>2. QED
      BY <2>1, <3>1
  <2>5. CASE ExitsStep
    <3>1. PICK d \in Diggers : \/ AddExit(d) \/ CreateExit(d) \/ DeleteExit(d) \/ DeleteThing(d)
                               \/ CheckFrom(d) \/ CheckTo(d) \/ Forth(d) \/ Back(d)
      BY <2>5 DEF ExitsStep, ExitsNext
    <3>2. CASE AddExit(d) \/ CreateExit(d) \/ DeleteThing(d) \/ CheckFrom(d) \/ CheckTo(d)
      BY <2>2, <3>2 DEF AddExit, CreateExit, Digs, DeleteThing, CheckFrom, CheckTo
    <3>3. QED
      BY <2>3, <2>4, <3>1, <3>2
  <2>6. CASE TalkStep \/ PromptsStep \/ UNCHANGED recordsVars
    BY <2>2, <2>6 DEF TalkStep, PromptsStep, recordsVars, exitsVars
  <2>7. QED
    BY <2>1, <2>5, <2>6 DEF RecordsNext
<1>3. QED
  BY <1>1, <1>2, PTL DEF RecordsSpec

\* A way there and back leads there and back until one of its exits is written
\* or deleted, though it is two writes and diggers overlap (db/exits.rs).
THEOREM PairsLeadAlways == RecordsSpec => []PairsLead
<1>1. ExitsInv => PairsLead
  BY JoinedLeads DEF ExitsInv, PairsLead
<1>2. QED
  BY <1>1, ExitsHold, PTL

\* Ways there and back lead there and back; the search for a path finds the
\* rooms that exits lead to and no other, in a finite number of rounds, for any
\* rooms and exits, cycles among them (db/exits.rs); names of ways agree.
THEOREM RoomsLeadAlways == RecordsSpec => []RoomsLead
<1>1. ASSUME ExitsInv, IsFiniteSet(DOMAIN exits) PROVE RoomsLead
  <2>1. PairsLead
    BY <1>1, JoinedLeads DEF ExitsInv, PairsLead
  <2>2. ExitsAre
    BY <1>1 DEF ExitsAre, ExitsInv, ExitsTypeOK, Live
  <2>3. ASSUME NEW from \in Rooms
        PROVE  {to \in Rooms : HasPath(from, to)}
               = Reach({<<k[1], exits[k].to>> : k \in Live}, from)
    BY <2>2, PathsFollowExits
  <2>4. QED
    BY <2>1, <2>3, OppositesAgree DEF RoomsLead, ExitsLead
<1>2. QED
  BY <1>1, ExitsHold, ExitsStayFinite, PTL

\* Every table of the records has its type, and what it refers to is there.
THEOREM RecordsTypes == RecordsSpec => []TypeOK
<1>1. TalkInv /\ PromptsInv /\ ExitsInv /\ family \in Families => TypeOK
  BY TalkShows, PromptsShow DEF TypeOK, ExitsInv, Families
<1>2. RecordsSpec => [](family \in Families)
  <2>1. RecordsInit => family \in Families
    BY DEF RecordsInit
  <2>2. family \in Families /\ [RecordsNext]_recordsVars => (family \in Families)'
    BY DEF RecordsNext, TalkStep, PromptsStep, ExitsStep, recordsVars
  <2>3. QED
    BY <2>1, <2>2, PTL DEF RecordsSpec
<1>3. QED
  BY <1>1, <1>2, TalkHolds, PromptsHold, ExitsHold, PTL
=============================================================================

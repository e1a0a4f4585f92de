-------------------------------- MODULE Talk ---------------------------------
(***************************************************************************)
(* Who may log in, who says what, and where it is read: agents and their   *)
(* keys (db/agents.rs), the chat buffer of a room (db/buffers.rs) and its  *)
(* rows (db/rows.rs).  Every call of the database is one step under its    *)
(* mutex; connections and MCP clients make several for one command, and    *)
(* the program sshwarma-admin is another process on the same database.     *)
(*                                                                         *)
(* There is one room.  Agents, buffers and rows have their number as id.   *)
(***************************************************************************)
EXTENDS Rowsets

CONSTANTS
  Clients,     \* connections, MCP clients
  Admin,       \* the process of sshwarma-admin
  Humans, Models,   \* names
  Keys,        \* public keys
  Tags,
  MaxTalk,     \* bound: commands, those that add a row for 3, others for 2
  MaxMarks     \* bound: tags, reactions and links at a time

ASSUME TalkAssumption ==
  MaxTalk \in Nat /\ MaxMarks \in Nat /\ None \notin Keys /\ None \notin Nat

VARIABLES
  agents,      \* the table agents, with what was deleted from it
  auth,        \* the table agent_auth: the key of an agent, or None
  chats,       \* the chat buffers of the room
  rows,        \* the table rows
  marks,       \* the tables row_tags, row_reactions and row_links
  clock,       \* the stamps of buffers that were drawn
  call,        \* the command of a caller that is under way, or its last
  owed,        \* keys that were added and neither removed nor replaced
  talks        \* what the commands so far count for

talkVars == <<agents, auth, chats, rows, marks, clock, call, owed, talks>>

Callers == Clients \cup {Admin}
Names == Humans \cup Models

NoTalk == [pc |-> "idle", op |-> "none", answer |-> "none", name |-> None, key |-> None,
           buffer |-> None, agent |-> None, row |-> None, at |-> 0, seen |-> 0,
           heard |-> 0, race |-> FALSE]

TalkInit ==
  /\ agents = <<>> /\ auth = <<>> /\ chats = <<>> /\ rows = <<>>
  /\ marks = [tags |-> {}, reactions |-> {}, links |-> {}]
  /\ clock = 0 /\ talks = 0 /\ owed = {}
  /\ call = [c \in Callers |-> NoTalk]

-----------------------------------------------------------------------------
(* Tables                                                                  *)

Alive == {a \in DOMAIN agents : agents[a].live}
Called(name) == {a \in Alive : agents[a].name = name}
Holders(key) == {a \in Alive : auth[a] = key}

\* find_agent_by_auth takes one row, whichever comes first: nothing keeps two
\* agents from having one key.  The set of its possible answers.
FindByAuth(key) == IF Holders(key) = {} THEN {None} ELSE Holders(key)

\* The foreign keys to an agent: nothing cascades.
Referenced(a) ==
  \/ auth[a] # None
  \/ \E i \in DOMAIN rows : rows[i].author = a
  \/ \E r \in marks.reactions : r[2] = a

\* Of the chat buffers of a room the oldest, by the stamp they were made with.
CurrentChat == CHOOSE b \in DOMAIN chats : \A d \in DOMAIN chats : chats[b].at <= chats[d].at

At(c, pc) == call[c].pc = pc
Becomes(c, r) == call' = [call EXCEPT ![c] = r]
Goto(c, pc) == Becomes(c, [call[c] EXCEPT !.pc = pc])
\* What failed is remembered until the next command.
Answered(cl, a) ==
  IF a = "failed" THEN [NoTalk EXCEPT !.op = cl.op, !.race = cl.race, !.answer = a] ELSE NoTalk
Answer(c, a) == Becomes(c, Answered(call[c], a))

\* The calls that overlap a change of the agents named so learn it.
Disturbed(cs, c, name) ==
  [d \in Callers |-> IF d # c /\ cs[d].pc # "idle" /\ cs[d].name = name
                     THEN [cs[d] EXCEPT !.race = TRUE] ELSE cs[d]]

Cost(op) == IF op \in {"say", "append", "call", "result"} THEN 3 ELSE 2
Spends(c, op) ==
  At(c, "idle") /\ talks + Cost(op) <= MaxTalk /\ talks' = talks + Cost(op)

Starts(c, r) ==
  /\ Spends(c, r.op)
  /\ Becomes(c, [r EXCEPT !.seen = IF r.op = "say" THEN Len(chats) ELSE 0,
                          !.heard = IF r.op \in {"none", "key", "remove"} THEN 0 ELSE Len(rows)])
  /\ UNCHANGED <<agents, auth, chats, rows, marks, clock, owed>>

-----------------------------------------------------------------------------
(* Commands                                                                *)

\* ops::say, and the placeholder of a mention for a model
Say(c) ==
  \E name \in Names :
    Starts(c, [NoTalk EXCEPT !.pc = "chat", !.op = "say", !.name = name])

\* tools.db_append_row, with the ids its caller was told
AppendRow(c) ==
  \E b \in DOMAIN chats, a \in DOMAIN agents :
    Starts(c, [NoTalk EXCEPT !.pc = "check", !.op = "append", !.buffer = b, !.agent = a,
                             !.name = agents[a].name])

\* RowUpdate::ToolCall and ToolResult: rows below the model's placeholder
Tool(c) ==
  \E r \in DOMAIN rows, op \in {"call", "result"} :
    /\ rows[r].method = "thinking.stream"
    /\ Starts(c, [NoTalk EXCEPT !.pc = "last", !.op = op, !.buffer = rows[r].buffer,
                     !.agent = rows[r].author, !.row = r,
                     !.name = agents[rows[r].author].name])

\* auth_publickey: a known key logs in, an unknown one is added for the name.
Login(c) ==
  \E name \in Humans, key \in Keys : \E a \in FindByAuth(key) :
    Starts(c, IF a # None THEN NoTalk
              ELSE [NoTalk EXCEPT !.pc = "agent", !.op = "key", !.name = name, !.key = key])

\* sshwarma-admin add, remove, remove-key
AdminAdd ==
  \E name \in Humans, key \in Keys :
    Starts(Admin, [NoTalk EXCEPT !.pc = "agent", !.op = "key", !.name = name, !.key = key])
AdminRemove ==
  \E name \in Humans :
    Starts(Admin, [NoTalk EXCEPT !.pc = "agent", !.op = "remove", !.name = name])
AdminRemoveKey ==
  \E key \in Keys : /\ Spends(Admin, "none")
                    /\ auth' = [a \in DOMAIN auth |-> IF auth[a] = key THEN None ELSE auth[a]]
                    /\ owed' = {o \in owed : o[2] # key}
                    /\ Becomes(Admin, NoTalk)
                    /\ UNCHANGED <<agents, chats, rows, marks, clock>>

\* row:add_tag, remove_tag, add_reaction and add_link of Lua scripts, one call
\* of the database each.
Mark(c, m) ==
  /\ Spends(c, "none")
  /\ marks' = m
  /\ Becomes(c, NoTalk)
  /\ UNCHANGED <<agents, auth, chats, rows, clock, owed>>

CanMark ==
  Cardinality(marks.tags) + Cardinality(marks.reactions) + Cardinality(marks.links) < MaxMarks

AddTag(c) == \E r \in DOMAIN rows, t \in Tags :
  CanMark /\ Mark(c, [marks EXCEPT !.tags = @ \cup {<<r, t>>}])
RemoveTag(c) == \E t \in marks.tags : Mark(c, [marks EXCEPT !.tags = @ \ {t}])
AddReaction(c) == \E r \in DOMAIN rows, a \in Alive :
  CanMark /\ Mark(c, [marks EXCEPT !.reactions = @ \cup {<<r, a>>}])
AddLink(c) == \E from, to \in DOMAIN rows :
  CanMark /\ Mark(c, [marks EXCEPT !.links = @ \cup {<<from, to>>}])

-----------------------------------------------------------------------------
(* Steps                                                                   *)

\* Variant: the chat buffers of the room are not looked for.
NoChat == {}
ChatsFound == DOMAIN chats

\* get_or_create_room_chat_buffer: the list, ...
FindChat(c) ==
  /\ At(c, "chat")
  /\ Becomes(c, IF ChatsFound # {}
                THEN [call[c] EXCEPT !.pc = "agent", !.buffer = CurrentChat]
                ELSE [call[c] EXCEPT !.pc = "stamp"])
  /\ UNCHANGED <<agents, auth, chats, rows, marks, clock, owed, talks>>

\* ... the new buffer with the time of now, ...
StampChat(c) ==
  /\ At(c, "stamp")
  /\ clock' = clock + 1
  /\ Becomes(c, [call[c] EXCEPT !.pc = "make", !.at = clock + 1])
  /\ UNCHANGED <<agents, auth, chats, rows, marks, owed, talks>>

\* ... and its insert: nothing makes the chat buffer of a room unique.
MakeChat(c) ==
  /\ At(c, "make")
  /\ chats' = Append(chats, [at |-> call[c].at, after |-> call[c].seen])
  /\ Becomes(c, [call[c] EXCEPT !.pc = "agent", !.buffer = Len(chats) + 1])
  /\ UNCHANGED <<agents, auth, rows, marks, clock, owed, talks>>

AfterAgent(op) == CASE op = "say" -> "last" [] op = "key" -> "auth" [] op = "remove" -> "delete"

\* get_or_create_human_agent, get_or_create_model_agent, add_pubkey and
\* remove_user look for the name, ...
FindAgent(c) ==
  /\ At(c, "agent")
  /\ \/ \E a \in Called(call[c].name) :
          Becomes(c, [call[c] EXCEPT !.pc = AfterAgent(call[c].op), !.agent = a])
     \/ /\ Called(call[c].name) = {} /\ call[c].op # "remove"
        /\ Goto(c, "born")
     \/ /\ Called(call[c].name) = {} /\ call[c].op = "remove"
        /\ Answer(c, "not found")
  /\ UNCHANGED <<agents, auth, chats, rows, marks, clock, owed, talks>>

\* Variant: names are not unique.
AnyName(name) == TRUE
NameIsFree(name) == Called(name) = {}

\* ... and insert the agent in a second call: the loser of a race fails.
InsertAgent(c) ==
  LET cl == call[c]
      new == Len(agents) + 1
  IN /\ At(c, "born")
     /\ IF NameIsFree(cl.name)
        THEN /\ agents' = Append(agents, [name |-> cl.name, live |-> TRUE,
                             kind |-> IF cl.name \in Models THEN "model" ELSE "human"])
             /\ auth' = Append(auth, None)
             /\ call' = Disturbed([call EXCEPT ![c] =
                          [cl EXCEPT !.pc = AfterAgent(cl.op), !.agent = new]], c, cl.name)
        ELSE Answer(c, "failed") /\ UNCHANGED <<agents, auth>>
     /\ UNCHANGED <<chats, rows, marks, clock, owed, talks>>

\* Variant: a key an agent has is kept.
KeptKey(a, key) == IF auth[a] = None THEN [auth EXCEPT ![a] = key] ELSE auth
\* INSERT OR REPLACE: one key for an agent
WithKey(a, key) == [auth EXCEPT ![a] = key]

UpsertAuth(c) ==
  LET cl == call[c] IN
  /\ At(c, "auth")
  /\ IF cl.agent \in Alive
     THEN /\ auth' = WithKey(cl.agent, cl.key)
          /\ owed' = {o \in owed : o[1] # cl.name} \cup {<<cl.name, cl.key>>}
          /\ Answer(c, "ok")
     ELSE Answer(c, "failed") /\ UNCHANGED <<auth, owed>>
  /\ UNCHANGED <<agents, chats, rows, marks, clock, talks>>

\* delete_agent: refused while a key, a row or a reaction refers to the agent.
DeleteAgent ==
  LET cl == call[Admin] IN
  /\ At(Admin, "delete")
  /\ IF ~Referenced(cl.agent)
     THEN /\ agents' = [agents EXCEPT ![cl.agent].live = FALSE]
          /\ call' = Disturbed([call EXCEPT ![Admin] = Answered(cl, "ok")], Admin, cl.name)
     ELSE Answer(Admin, "failed") /\ UNCHANGED agents
  /\ UNCHANGED <<auth, chats, rows, marks, clock, owed, talks>>

\* db_append_row looks for the agent first.
CheckAgent(c) ==
  /\ At(c, "check")
  /\ IF call[c].agent \in Alive THEN Goto(c, "last") ELSE Answer(c, "failed")
  /\ UNCHANGED <<agents, auth, chats, rows, marks, clock, owed, talks>>

\* append_row: the position of the last row, ...
FindLast(c) ==
  /\ At(c, "last")
  /\ Becomes(c, [call[c] EXCEPT !.pc = "row", !.at = NextPosition(rows, call[c].buffer)])
  /\ UNCHANGED <<agents, auth, chats, rows, marks, clock, owed, talks>>

NewRow(cl) ==
  LET kind == agents[cl.agent].kind IN
  CASE cl.op = "say" /\ kind = "human" -> Message(cl.buffer, cl.agent, FALSE)
    [] cl.op = "say" /\ kind = "model" -> Thinking(cl.buffer, cl.agent)
    [] cl.op = "append" -> Message(cl.buffer, cl.agent, kind = "model")
    [] cl.op = "call" -> ToolCallRow(cl.buffer, cl.agent, cl.row)
    [] cl.op = "result" -> ToolResultRow(cl.buffer, cl.row)

\* ... and the insert, which fails if the agent is gone.
InsertRow(c) ==
  LET cl == call[c]
      row == [NewRow(cl) EXCEPT !.pos = cl.at, !.after = cl.heard]
  IN /\ At(c, "row")
     /\ IF row.author \in Alive \cup {None}
        THEN rows' = Append(rows, row) /\ Answer(c, "ok")
        ELSE Answer(c, "failed") /\ UNCHANGED rows
     /\ UNCHANGED <<agents, auth, chats, marks, clock, owed, talks>>

TalkNext ==
  \/ \E c \in Clients : Say(c) \/ AppendRow(c) \/ Tool(c) \/ Login(c)
                        \/ AddTag(c) \/ RemoveTag(c) \/ AddReaction(c) \/ AddLink(c)
  \/ AdminAdd \/ AdminRemove \/ AdminRemoveKey \/ DeleteAgent
  \/ \E c \in Callers : FindChat(c) \/ StampChat(c) \/ MakeChat(c) \/ FindAgent(c)
                        \/ InsertAgent(c) \/ UpsertAuth(c) \/ CheckAgent(c)
                        \/ FindLast(c) \/ InsertRow(c)

-----------------------------------------------------------------------------
(* Properties                                                              *)

\* Every table has its type, and what refers to an agent, a buffer or a row
\* refers to one that is there: nothing with a reference is ever deleted.
TalkTypeOK ==
  /\ Len(auth) = Len(agents) /\ owed \subseteq Humans \X Keys /\ talks \in 0..MaxTalk
  /\ \A a \in DOMAIN agents : agents[a] \in [name : Names, live : BOOLEAN, kind : {"human", "model"}]
  /\ \A a \in DOMAIN auth : auth[a] # None => auth[a] \in Keys /\ a \in Alive
  /\ \A a, b \in Alive : agents[a].name = agents[b].name => a = b
  /\ \A i \in DOMAIN rows :
       /\ rows[i] \in [buffer : DOMAIN chats, pos : Nat, author : Alive \cup {None},
                       method : Methods, parent : (1..(i - 1)) \cup {None}, after : 0..(i - 1)]
       /\ rows[i].parent # None => rows[rows[i].parent].buffer = rows[i].buffer
  /\ marks.tags \subseteq (DOMAIN rows) \X Tags
  /\ marks.reactions \subseteq (DOMAIN rows) \X Alive
  /\ marks.links \subseteq (DOMAIN rows) \X (DOMAIN rows)
  /\ \A c \in Callers : call[c].answer \in {"none", "failed"}

\* Readers sort a buffer by position, and append_row takes the position from a
\* read of its own.  Of a row whose call began when another row was there, a
\* reader who asks for the rows since that one is told; a row below another
\* one does not sort before it.
OrderIsKept ==
  \A j \in DOMAIN rows : \A i \in 1..rows[j].after :
    LET b == rows[j].buffer IN
    rows[i].buffer = b =>
      IF rows[i].parent = None /\ rows[j].parent = None THEN j \in RowsSince(rows, b, i)
      ELSE rows[i].pos <= rows[j].pos

\* The shares of a set are disjoint and miss nothing of it.
Divides(parts, whole) ==
  /\ UNION {parts[k] : k \in DOMAIN parts} = whole
  /\ \A k, l \in DOMAIN parts : k # l => parts[k] \cap parts[l] = {}

\* A buffer divided: its row set in two pages, in its end and what is before,
\* by author and by tag, its other rows by the row they are below.
BufferIsDivided(b) ==
  LET s == Rowset(rows, b)
      set(q) == {q[i] : i \in DOMAIN q}
  IN /\ \A n \in 0..Len(s) :
          /\ Divides(<<set(Slice(s, 0, n)), set(Slice(s, n, Len(s)))>>, set(s))
          /\ Divides(<<set(Slice(s, 0, Len(s) - n)), set(LastOf(s, n))>>, set(s))
     /\ \A t \in Tags :
          Divides(<<set(WithTag(marks.tags, s, t)), set(WithoutTag(marks.tags, s, t))>>, set(s))
     /\ LET groups == Groups(rows, s)
        IN  Divides([a \in DOMAIN groups |-> set(groups[a])], set(s))
     /\ Divides([i \in set(s) |-> {i} \cup ListChildren(rows, i)], InBuffer(rows, b))

\* The chat buffer of a room is looked for and made in two calls.  What was
\* said is in the history of the buffer that commands find now, in its row set
\* and in one share of each of its divisions, except in a room where two
\* callers who overlapped made a buffer each; and every tool call that is
\* counted is in the history of tools.
SaidIsShown ==
  /\ \A i, j \in DOMAIN chats : i # j => chats[i].after < j /\ chats[j].after < i
  /\ Len(chats) = 1 =>
       LET b == CurrentChat
           s == Messages(rows, Rowset(rows, b))
       IN /\ \A recent \in Recent(rows, b, Len(rows)), i \in DOMAIN rows :
               /\ IsMessage(rows[i]) \/ IsTool(rows[i]) => i \in History(rows, recent)
               /\ IsMessage(rows[i]) => \E n \in DOMAIN s : s[n] = i
          /\ \A calls \in ListToolCalls(rows, b, Len(rows)) :
               Cardinality(HistoryTools(rows, calls)) = CountToolCalls(rows, b)
  /\ \A b \in DOMAIN chats : BufferIsDivided(b)

\* A key opens a name it was added for, where the name got no other key and
\* the key was not removed since, whichever of those names the one row is; it
\* opens none only if there is none.  So a key that one name alone is owed opens
\* that name, and of two names with one key the query may never find the second
\* (lookup_handle_by_pubkey).  Adding a key, speaking and reporting a tool fail
\* only where the agent was made or removed by another caller meanwhile.
KeysOpen ==
  /\ \A key \in Keys : \A a \in FindByAuth(key) :
       IF a = None THEN \A o \in owed : o[2] # key
                   ELSE <<agents[a].name, key>> \in owed
  /\ \A c \in Callers :
       call[c].answer = "failed" /\ call[c].op \in {"say", "key", "call", "result"} =>
         call[c].race /\ call[c].op \in {"say", "key"}
=============================================================================

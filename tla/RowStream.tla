----------------------------- MODULE RowStream -----------------------------
(***************************************************************************)
(* An @mention and the streaming of the model's reply into the rows of a   *)
(* room: ssh/input.rs (handle_mention), ops.rs (spawn_model_response),     *)
(* llm.rs (stream_with_tool_server), ssh/streaming.rs (push_updates_task)  *)
(* and the row operations of db/rows.rs they call.                         *)
(*                                                                         *)
(* A reply passes through two bounded channels: the task that talks to the *)
(* model fills chunks, a relay task turns them into updates, and one task  *)
(* per session writes the updates of all its mentions into the database.   *)
(* The database is one connection behind a mutex: each of its calls is one *)
(* step, and a row is appended in two (read the last position, insert).    *)
(* Database calls are assumed to succeed.                                  *)
(***************************************************************************)
EXTENDS Naturals, Sequences, FiniteSets

CONSTANTS
  Mentions,         \* the @mentions made
  Sessions,         \* SSH sessions, all in one room
  SessionOf,        \* the session a mention is made in
  Models,           \* short names of models
  ModelOf,          \* the model a mention asks
  None,             \* no row, no mention, no content
  ToolUsers,        \* mentions of a model that was given tools
  MaxText,          \* bound: pieces of text in one reply
  MaxCalls,         \* bound: tool calls in one reply
  ChunkCapacity,    \* capacity of the channel chunks (32 in the code)
  UpdateCapacity    \* capacity of the channel updates (32 in the code)

ASSUME SessionAssumption ==
  SessionOf \in [Mentions -> Sessions] /\ ModelOf \in [Mentions -> Models]
ASSUME NoneAssumption == None \notin Mentions /\ None \notin Seq(Nat)
ASSUME BoundAssumption ==
  /\ MaxText \in Nat /\ MaxCalls \in Nat
  /\ ChunkCapacity \in Nat \ {0} /\ UpdateCapacity \in Nat \ {0}

VARIABLES
  row,       \* the rows of the room's buffer, or None: row[m][kind]
  handler,   \* what the input handler of a session is doing
  model,     \* the call to the model: its state, text and tool calls so far
  chunks,    \* chunks sent by the model's task, not yet relayed
  relay,     \* the relay task of a mention
  updates,   \* updates of a session not yet written
  writer,    \* push_updates_task of a session
  status     \* the status a session shows for a model

vars == <<row, handler, model, chunks, relay, updates, writer, status>>

-----------------------------------------------------------------------------
\* A mention has at most one row of each of these kinds (and a row per tool
\* call and per result: the i-th is kind "call" or "result" and number i).
Kinds == ({"user", "thinking", "message"} \X {0})
           \cup ({"call", "result"} \X (1..MaxCalls))
User == <<"user", 0>>
Thinking == <<"thinking", 0>>
Message == <<"message", 0>>

\* A text is a sequence of numbered pieces; 0 is the error message.
Error == 0
Row == [position : Nat, text : Seq(Nat) \cup {None}, mutable : BOOLEAN,
        ephemeral : BOOLEAN, final : BOOLEAN]

ASSUME RowAssumption == None \notin Row

NewRow(position, text, mutable) ==
  [position |-> position, text |-> text, mutable |-> mutable,
   ephemeral |-> FALSE, final |-> FALSE]

IsTool(kind) == kind[1] \in {"call", "result"}
Exists(m, kind) == row[m][kind] # None
Positions(m) == {row[m][kind].position : kind \in {k \in Kinds : Exists(m, k) /\ ~IsTool(k)}}

\* get_last_buffer_row looks at top-level rows alone: tool rows, which have a
\* parent, do not count.
TopLevelPositions == UNION {Positions(m) : m \in Mentions}

NextPosition ==
  IF TopLevelPositions = {} THEN 0
  ELSE 1 + (CHOOSE p \in TopLevelPositions : \A q \in TopLevelPositions : q <= p)

Init ==
  /\ row = [m \in Mentions |-> [kind \in Kinds |-> None]]
  /\ handler = [s \in Sessions |-> [pc |-> "idle", m |-> None, position |-> 0]]
  /\ model = [m \in Mentions |-> [pc |-> "idle", text |-> <<>>, calls |-> 0,
                                  results |-> 0]]
  /\ chunks = [m \in Mentions |-> <<>>]
  /\ relay = [m \in Mentions |-> [pc |-> "idle", error |-> FALSE]]
  /\ updates = [s \in Sessions |-> <<>>]
  /\ writer = [s \in Sessions |-> [pc |-> "recv", update |-> None,
                                   position |-> 0, content |-> None]]
  /\ status = [s \in Sessions |-> [d \in Models |-> "idle"]]

-----------------------------------------------------------------------------
(* Rows                                                                    *)

\* Variant: the text replaces what was there.
Overwritten(r, text) == IF r.mutable THEN [r EXCEPT !.text = text] ELSE r

\* append_to_row: only a mutable row is written to.
WithText(r, text) ==
  IF r.mutable THEN [r EXCEPT !.text = (IF @ = None THEN <<>> ELSE @) \o text]
  ELSE r

\* finalize_row
Finalized(r) == [r EXCEPT !.mutable = FALSE, !.final = TRUE]

-----------------------------------------------------------------------------
(* The input handler of a session: handle_mention                          *)

Handle(s, pc) == handler' = [handler EXCEPT ![s].pc = pc]
Handles(s, pc) == handler[s].pc = pc

\* The row of what the user said, and the placeholder of the reply.
ReadPosition(s) ==
  \/ /\ Handles(s, "idle")
     /\ \E m \in Mentions :
          /\ SessionOf[m] = s
          /\ ~Exists(m, User)
          /\ handler' = [handler EXCEPT ![s] =
                           [pc |-> "user", m |-> m, position |-> NextPosition]]
     /\ UNCHANGED <<row, model, chunks, relay, updates, writer, status>>
  \/ /\ Handles(s, "asked")
     /\ handler' = [handler EXCEPT ![s] =
                      [@ EXCEPT !.pc = "thinking", !.position = NextPosition]]
     /\ UNCHANGED <<row, model, chunks, relay, updates, writer, status>>

InsertUserRow(s) ==
  /\ Handles(s, "user")
  /\ row' = [row EXCEPT ![handler[s].m][User] =
               NewRow(handler[s].position, <<>>, FALSE)]
  /\ Handle(s, "asked")
  /\ UNCHANGED <<model, chunks, relay, updates, writer, status>>

InsertThinkingRow(s) ==
  /\ Handles(s, "thinking")
  /\ row' = [row EXCEPT ![handler[s].m][Thinking] =
               NewRow(handler[s].position, None, TRUE)]
  /\ Handle(s, "status")
  /\ UNCHANGED <<model, chunks, relay, updates, writer, status>>

SetThinking(s) ==
  /\ Handles(s, "status")
  /\ status' = [status EXCEPT ![s][ModelOf[handler[s].m]] = "thinking"]
  /\ Handle(s, "spawn")
  /\ UNCHANGED <<row, model, chunks, relay, updates, writer>>

\* spawn_model_response: either wrap() fails and the mention is given up, the
\* placeholder and the status left as they are, or both tasks are spawned.
SpawnResponse(s) ==
  LET m == handler[s].m IN
  /\ Handles(s, "spawn")
  /\ handler' = [handler EXCEPT ![s] = [pc |-> "idle", m |-> None, position |-> 0]]
  /\ \/ UNCHANGED <<model, relay>>
     \/ /\ model' = [model EXCEPT ![m].pc = "streaming"]
        /\ relay' = [relay EXCEPT ![m].pc = "recv"]
  /\ UNCHANGED <<row, chunks, updates, writer, status>>

HandlerStep(s) ==
  \/ ReadPosition(s) \/ InsertUserRow(s) \/ InsertThinkingRow(s)
  \/ SetThinking(s) \/ SpawnResponse(s)

-----------------------------------------------------------------------------
(* The task that talks to the model: stream_with_tool_server               *)

Send(m, kind, n) ==
  /\ model[m].pc = "streaming"
  /\ Len(chunks[m]) < ChunkCapacity
  /\ chunks' = [chunks EXCEPT ![m] = Append(@, [kind |-> kind, n |-> n])]

SayText(m) ==
  /\ Len(model[m].text) < MaxText
  /\ model' = [model EXCEPT ![m].text = Append(@, Len(@) + 1)]
  /\ Send(m, "text", Len(model[m].text) + 1)
  /\ UNCHANGED <<row, handler, relay, updates, writer, status>>

CallTool(m) ==
  /\ m \in ToolUsers
  /\ model[m].calls < MaxCalls
  /\ model' = [model EXCEPT ![m].calls = @ + 1]
  /\ Send(m, "call", model[m].calls + 1)
  /\ UNCHANGED <<row, handler, relay, updates, writer, status>>

ToolReturns(m) ==
  /\ model[m].results < model[m].calls
  /\ model' = [model EXCEPT ![m].results = @ + 1]
  /\ Send(m, "result", model[m].results + 1)
  /\ UNCHANGED <<row, handler, relay, updates, writer, status>>

\* Variant: the task goes on with the stream after it has sent an error.
StreamsOn(m, end) == IF end = "error" THEN "streaming" ELSE "returned"
AfterEnd(m, end) == "returned"

\* The last chunk, Done or Error, and the return that closes the channel.
EndStream(m) ==
  \E end \in {"done", "error"} :
    /\ Send(m, end, 0)
    /\ model' = [model EXCEPT ![m].pc = AfterEnd(m, end)]
    /\ UNCHANGED <<row, handler, relay, updates, writer, status>>

\* No client for the backend: an Err is returned and no chunk was sent.
RefuseStream(m) ==
  /\ model[m].pc = "streaming"
  /\ model[m].text = <<>> /\ model[m].calls = 0 /\ chunks[m] = <<>>
  /\ model' = [model EXCEPT ![m].pc = "returned"]
  /\ UNCHANGED <<row, handler, chunks, relay, updates, writer, status>>

ModelStep(m) ==
  \/ SayText(m) \/ CallTool(m) \/ ToolReturns(m) \/ EndStream(m)
  \/ RefuseStream(m)

-----------------------------------------------------------------------------
(* The relay task of spawn_model_response                                  *)

\* Variants: an update is dropped when the channel is full; the channel is
\* unbounded.
TriesToPush(m, kind, n) ==
  LET s == SessionOf[m] IN
  updates' = IF Len(updates[s]) = UpdateCapacity THEN updates
             ELSE [updates EXCEPT ![s] = Append(@, [kind |-> kind, m |-> m, n |-> n])]
PushUnbounded(m, kind, n) ==
  updates' = [updates EXCEPT ![SessionOf[m]] =
                Append(@, [kind |-> kind, m |-> m, n |-> n])]

PushUpdate(m, kind, n) ==
  LET s == SessionOf[m] IN
  /\ Len(updates[s]) < UpdateCapacity
  /\ updates' = [updates EXCEPT ![s] =
                   Append(@, [kind |-> kind, m |-> m, n |-> n])]

\* A chunk the task holds while it waits for room is still counted in chunks.
RelayChunk(m) ==
  /\ relay[m].pc = "recv"
  /\ chunks[m] # <<>>
  /\ LET c == Head(chunks[m]) IN
       /\ c.kind \in {"text", "call", "result"}
       /\ PushUpdate(m, c.kind, c.n)
  /\ chunks' = [chunks EXCEPT ![m] = Tail(@)]
  /\ UNCHANGED <<row, handler, model, relay, writer, status>>

\* Done, Error, or a channel closed with nothing in it.
RelayEnds(m) ==
  /\ relay[m].pc = "recv"
  /\ \/ /\ chunks[m] # <<>>
        /\ Head(chunks[m]).kind \in {"done", "error"}
        /\ relay' = [relay EXCEPT ![m] =
                       [pc |-> "join", error |-> Head(chunks[m]).kind = "error"]]
        /\ chunks' = [chunks EXCEPT ![m] = Tail(@)]
     \/ /\ chunks[m] = <<>>
        /\ model[m].pc = "returned"
        /\ relay' = [relay EXCEPT ![m].pc = "join"]
        /\ UNCHANGED chunks
  /\ UNCHANGED <<row, handler, model, updates, writer, status>>

Concludes(m) ==
  /\ PushUpdate(m, IF relay[m].error THEN "error" ELSE "complete", 0)
  /\ relay' = [relay EXCEPT ![m].pc = "done"]

\* The stream's task is joined, its result ignored, and the end is sent.
RelayConcludes(m) ==
  /\ relay[m].pc = "join"
  /\ model[m].pc = "returned"
  /\ Concludes(m)
  /\ UNCHANGED <<row, handler, model, chunks, writer, status>>

RelayStep(m) == RelayChunk(m) \/ RelayEnds(m) \/ RelayConcludes(m)

-----------------------------------------------------------------------------
(* push_updates_task of a session                                          *)

Writes(s, pc) == writer[s].pc = pc
Update(s) == writer[s].update
WriterAt(s, pc) == writer' = [writer EXCEPT ![s].pc = pc]
Rest(s) == writer' = [writer EXCEPT ![s] = [pc |-> "recv", update |-> None,
                                            position |-> 0, content |-> None]]

\* Where the work on an update begins.
Start(kind) ==
  CASE kind = "text" -> "text"
    [] kind = "call" -> "status"
    [] kind = "result" -> "position"
    [] kind = "complete" -> "get"
    [] kind = "error" -> "text"

ReceiveUpdate(s) ==
  /\ Writes(s, "recv")
  /\ updates[s] # <<>>
  /\ writer' = [writer EXCEPT ![s] = [@ EXCEPT !.pc = Start(Head(updates[s]).kind),
                                               !.update = Head(updates[s])]]
  /\ updates' = [updates EXCEPT ![s] = Tail(@)]
  /\ UNCHANGED <<row, handler, model, chunks, relay, status>>

\* Chunk appends its text, Error the error message.
WriteText(s) ==
  LET u == Update(s) IN
  /\ Writes(s, "text")
  /\ row' = [row EXCEPT ![u.m][Thinking] =
               WithText(@, IF u.kind = "text" THEN <<u.n>> ELSE <<Error>>)]
  /\ IF u.kind = "text" THEN Rest(s) ELSE WriterAt(s, "finalize")
  /\ UNCHANGED <<handler, model, chunks, relay, updates, status>>

SetRunningTool(s) ==
  /\ Writes(s, "status")
  /\ status' = [status EXCEPT ![s][ModelOf[Update(s).m]] = "tool"]
  /\ WriterAt(s, "position")
  /\ UNCHANGED <<row, handler, model, chunks, relay, updates>>

\* Complete reads the text so far; a placeholder without text is only
\* finalized.
GetContent(s) ==
  LET text == row[Update(s).m][Thinking].text IN
  /\ Writes(s, "get")
  /\ writer' = [writer EXCEPT ![s] =
                  [@ EXCEPT !.pc = IF text = None THEN "finalize" ELSE "position",
                            !.content = text]]
  /\ UNCHANGED <<row, handler, model, chunks, relay, updates, status>>

\* append_row, first half.
LastPosition(s) ==
  /\ Writes(s, "position")
  /\ writer' = [writer EXCEPT ![s] =
                  [@ EXCEPT !.pc = "insert", !.position = NextPosition]]
  /\ UNCHANGED <<row, handler, model, chunks, relay, updates, status>>

\* append_row, second half: the row of a tool call or of its result, or the
\* message made of the whole reply.
InsertRow(s) ==
  LET u == Update(s) IN
  /\ Writes(s, "insert")
  /\ IF u.kind = "complete"
       THEN /\ row' = [row EXCEPT ![u.m][Message] =
                         NewRow(writer[s].position, writer[s].content, FALSE)]
            /\ WriterAt(s, "ephemeral")
       ELSE /\ row' = [row EXCEPT ![u.m][<<u.kind, u.n>>] =
                         NewRow(writer[s].position, <<>>, u.kind = "call")]
            /\ Rest(s)
  /\ UNCHANGED <<handler, model, chunks, relay, updates, status>>

\* Variant: the placeholder stays in the history beside the message.
StaysShown(r) == r
HideRow(r) == [r EXCEPT !.ephemeral = TRUE]

SetEphemeral(s) ==
  /\ Writes(s, "ephemeral")
  /\ row' = [row EXCEPT ![Update(s).m][Thinking] = HideRow(@)]
  /\ WriterAt(s, "finalize")
  /\ UNCHANGED <<handler, model, chunks, relay, updates, status>>

FinalizeRow(s) ==
  /\ Writes(s, "finalize")
  /\ row' = [row EXCEPT ![Update(s).m][Thinking] = Finalized(@)]
  /\ WriterAt(s, "idle")
  /\ UNCHANGED <<handler, model, chunks, relay, updates, status>>

SetIdle(s) ==
  /\ Writes(s, "idle")
  /\ status' = [status EXCEPT ![s][ModelOf[Update(s).m]] = "idle"]
  /\ Rest(s)
  /\ UNCHANGED <<row, handler, model, chunks, relay, updates>>

WriterStep(s) ==
  \/ ReceiveUpdate(s) \/ WriteText(s) \/ SetRunningTool(s) \/ GetContent(s)
  \/ LastPosition(s) \/ InsertRow(s) \/ SetEphemeral(s) \/ FinalizeRow(s)
  \/ SetIdle(s)

-----------------------------------------------------------------------------
Next ==
  \/ \E s \in Sessions : HandlerStep(s) \/ WriterStep(s)
  \/ \E m \in Mentions : ModelStep(m) \/ RelayStep(m)

\* Every task that can take a step takes one; the stream of a model ends.
Fairness ==
  /\ \A s \in Sessions :
       WF_vars(HandlerStep(s) /\ handler[s].pc # "idle") /\ WF_vars(WriterStep(s))
  /\ \A m \in Mentions : WF_vars(ModelStep(m)) /\ WF_vars(RelayStep(m))

SafeSpec == Init /\ [][Next]_vars
Spec == SafeSpec /\ Fairness

-----------------------------------------------------------------------------
(* Properties                                                              *)

UpdateKinds == {"text", "call", "result", "complete", "error"}
Updates == [kind : UpdateKinds, m : Mentions, n : Nat]

Chunks == [kind : {"text", "call", "result", "done", "error"}, n : Nat]
HandlerStates ==
  [pc : {"idle", "user", "asked", "thinking", "status", "spawn"},
   m : Mentions \cup {None}, position : Nat]
ModelStates ==
  [pc : {"idle", "streaming", "returned"}, text : Seq(Nat), calls : Nat, results : Nat]
RelayStates == [pc : {"idle", "recv", "join", "done"}, error : BOOLEAN]
WriterStates ==
  [pc : {"recv", "text", "status", "get", "position", "insert", "ephemeral",
         "finalize", "idle"},
   update : Updates \cup {None}, position : Nat, content : Seq(Nat) \cup {None}]

\* Every variable has its type; neither channel exceeds its capacity.
TypeOK ==
  /\ row \in [Mentions -> [Kinds -> Row \cup {None}]]
  /\ handler \in [Sessions -> HandlerStates]
  /\ model \in [Mentions -> ModelStates]
  /\ chunks \in [Mentions -> Seq(Chunks)]
  /\ \A m \in Mentions : Len(chunks[m]) <= ChunkCapacity
  /\ relay \in [Mentions -> RelayStates]
  /\ updates \in [Sessions -> Seq(Updates)]
  /\ \A s \in Sessions : Len(updates[s]) <= UpdateCapacity
  /\ writer \in [Sessions -> WriterStates]
  /\ status \in [Sessions -> [Models -> {"idle", "thinking", "tool"}]]

\* The text a room shows while the reply streams: without the error message
\* that may end it.
ShownText(m) ==
  LET text == IF Exists(m, Thinking) /\ row[m][Thinking].text # None
              THEN row[m][Thinking].text ELSE <<>>
  IN IF text # <<>> /\ text[Len(text)] = Error THEN SubSeq(text, 1, Len(text) - 1) ELSE text

\* The pieces of text on their way: in the hand of the writer, in both channels.
HoldsText(m) ==
  LET s == SessionOf[m] IN writer[s].pc = "text" /\ Update(s).kind = "text" /\ Update(s).m = m
TextUpdates(m) ==
  {i \in DOMAIN updates[SessionOf[m]] :
     updates[SessionOf[m]][i].kind = "text" /\ updates[SessionOf[m]][i].m = m}
TextChunks(m) == {i \in DOMAIN chunks[m] : chunks[m][i].kind = "text"}

Held(m) == IF HoldsText(m) THEN {Update(SessionOf[m]).n} ELSE {}
Queued(m) == {updates[SessionOf[m]][i].n : i \in TextUpdates(m)}
Relayed(m) == {chunks[m][i].n : i \in TextChunks(m)}

IsFinal(m) == Exists(m, Thinking) /\ row[m][Thinking].final

\* Nothing a model says is lost, doubled or put out of order between its
\* stream and the row, whatever two replies of one session do to the channel
\* they share: the row shows the first pieces, the others are on their way, each
\* behind all that come before it.  (ops.rs relay, push_updates_task)
TextIsConserved ==
  \A m \in Mentions :
    LET s == SessionOf[m]
        there == Len(ShownText(m))
    IN /\ there <= Len(model[m].text) /\ ShownText(m) = SubSeq(model[m].text, 1, there)
       /\ Held(m) \cup Queued(m) \cup Relayed(m) = (there + 1)..Len(model[m].text)
       /\ \A x \in Held(m), y \in Queued(m) \cup Relayed(m) : x < y
       /\ \A x \in Queued(m), y \in Relayed(m) : x < y
       /\ \A i, j \in TextUpdates(m) : i < j => updates[s][i].n < updates[s][j].n
       /\ \A i, j \in TextChunks(m) : i < j => chunks[m][i].n < chunks[m][j].n

\* The history never shows a reply twice, but for the moment between the
\* insert of the message and the update that hides the placeholder
\* ("Mark the thinking.stream row as ephemeral").
ShownOnce ==
  \A m \in Mentions :
    Exists(m, Message) =>
      \/ row[m][Thinking].ephemeral
      \/ writer[SessionOf[m]].pc = "ephemeral" /\ Update(SessionOf[m]).m = m

\* A reply whose tasks were spawned is concluded: no task waits for ever on a
\* full channel, the row becomes final and the status goes back to idle.
RepliesEnd ==
  \A m \in Mentions :
    (relay[m].pc = "recv") ~>
      (/\ IsFinal(m)
       /\ status[SessionOf[m]][ModelOf[m]] = "idle")

\* The rows of a mention seen as a reply.
Published(m) == IF Exists(m, Message) THEN row[m][Message].text ELSE None
Phase(m) ==
  CASE ~Exists(m, Thinking) -> "none"
    [] Exists(m, Thinking) /\ ~IsFinal(m) -> "open"
    [] Exists(m, Message) /\ IsFinal(m) -> "answered"
    [] OTHER -> IF row[m][Thinking].text = None THEN "blank" ELSE "failed"

R == INSTANCE Reply WITH
  said <- [m \in Mentions |-> model[m].text],
  shown <- [m \in Mentions |-> ShownText(m)],
  published <- [m \in Mentions |-> Published(m)],
  phase <- [m \in Mentions |-> Phase(m)]

\* The rows implement the reply a user is promised: the text grows in order, a
\* message holds all of it, what is over does not change.
ImplementsReply == R!Spec
=============================================================================

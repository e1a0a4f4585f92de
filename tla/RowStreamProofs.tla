-------------------------- MODULE RowStreamProofs --------------------------
(***************************************************************************)
(* A streamed reply keeps its text, is published once, and implements      *)
(* Reply, for any mentions, sessions and lengths of replies.  One          *)
(* conjunct of the invariant per question about a mention: which places    *)
(* of its three tasks go together, what may still be in the channels, and  *)
(* where every piece of its text is.  Steps of other mentions leave all    *)
(* that alone (Untouched).                                                 *)
(***************************************************************************)
EXTENDS RowStream, WellFoundedInduction, TLAPS

Q(m) == updates[SessionOf[m]]
W(m) == writer[SessionOf[m]]
H(m) == handler[SessionOf[m]]
Placed(m) == Exists(m, Thinking)
Place(m) == row[m][Thinking]
InHand(m) == W(m).pc # "recv" /\ W(m).update.m = m
InQueue(m) == {i \in DOMAIN Q(m) : Q(m)[i].m = m}
Ends == {"complete", "error"}

\* Nothing was concluded yet.
Open(m) == ~Place(m).final /\ ~Exists(m, Message)
\* The placeholder ends with the error message.
Ended(m) ==
  Place(m).text # None /\ Place(m).text # <<>> /\ Place(m).text[Len(Place(m).text)] = Error

\* Where the writer may be with an update of a kind.
PlacesOf(kind) ==
  CASE kind = "text" -> {"text"}
    [] kind = "call" -> {"status", "position", "insert"}
    [] kind = "result" -> {"position", "insert"}
    [] kind = "complete" -> {"get", "position", "insert", "ephemeral", "finalize", "idle"}
    [] kind = "error" -> {"text", "finalize", "idle"}

-----------------------------------------------------------------------------
(* The invariant                                                           *)

\* The handler places the rows of a mention before it spawns anything.
Handling(m) ==
  /\ Placed(m) => Exists(m, User)
  /\ H(m).m = m =>
       /\ H(m).pc \in {"user", "asked", "thinking"} => ~Placed(m)
       /\ H(m).pc \in {"status", "spawn"} => Placed(m) /\ relay[m].pc = "idle"
       /\ H(m).pc # "user" => Exists(m, User)

\* Nothing goes on for a mention whose tasks were not spawned.
Quiet(m) ==
  /\ ~Placed(m) => relay[m].pc = "idle"
  /\ model[m].pc = "idle" <=> relay[m].pc = "idle"
  /\ relay[m].pc = "idle" =>
       /\ model[m].text = <<>> /\ chunks[m] = <<>> /\ InQueue(m) = {} /\ ~InHand(m)
       /\ ~Exists(m, Message)
       /\ Placed(m) => Place(m).text = None /\ ~Place(m).final

\* The end is the last chunk, and nothing is left when the relay stops.
EndIsLast(m) ==
  /\ \A i \in DOMAIN chunks[m] :
       chunks[m][i].kind \in {"done", "error"} =>
         i = Len(chunks[m]) /\ model[m].pc = "returned"
  /\ relay[m].pc \in {"join", "done"} => chunks[m] = <<>> /\ model[m].pc = "returned"

\* A conclusion is the last update of its mention.
ConclusionIsLast(m) ==
  /\ \A i \in InQueue(m) :
       Q(m)[i].kind \in Ends => relay[m].pc = "done" /\ \A j \in InQueue(m) : j <= i
  /\ InHand(m) /\ W(m).update.kind \in Ends => relay[m].pc = "done" /\ InQueue(m) = {}
  /\ InQueue(m) # {} \/ relay[m].pc \in {"recv", "join"} => Open(m)

\* What the writer has done about the update in its hand.
Writing(m) ==
  InHand(m) =>
    /\ W(m).pc \in PlacesOf(W(m).update.kind)
    /\ W(m).pc \notin {"ephemeral", "finalize", "idle"} => Open(m)
    /\ W(m).update.kind = "complete" =>
         /\ W(m).pc \in {"position", "insert"} =>
              Place(m).text # None /\ W(m).content = Place(m).text
         /\ W(m).pc = "ephemeral" => Exists(m, Message)
         /\ W(m).pc = "finalize" =>
              /\ Exists(m, Message) <=> Place(m).text # None
              /\ Exists(m, Message) => Place(m).ephemeral
    /\ W(m).update.kind = "error" /\ W(m).pc = "finalize" =>
         Place(m).text # None /\ ~Exists(m, Message)
    /\ W(m).pc \in {"ephemeral", "finalize"} => ~Place(m).final
    /\ W(m).pc = "idle" => Place(m).final

\* What the placeholder and the message hold.
Rows(m) ==
  Placed(m) =>
    /\ Place(m).mutable = ~Place(m).final
    /\ Place(m).text # <<>>
    /\ Ended(m) => \/ Place(m).final
                   \/ InHand(m) /\ W(m).update.kind = "error" /\ W(m).pc = "finalize"
    /\ Place(m).final => relay[m].pc = "done" /\ InQueue(m) = {} /\ (InHand(m) => W(m).pc = "idle")
    /\ Exists(m, Message) =>
         /\ ~Ended(m) /\ row[m][Message].text = Place(m).text /\ Place(m).text # None
         /\ \/ Place(m).final /\ Place(m).ephemeral
            \/ /\ InHand(m) /\ W(m).update.kind = "complete"
               /\ W(m).pc \in {"ephemeral", "finalize"}

\* The pieces are numbered as they are said.
Numbered(m) == \A i \in DOMAIN model[m].text : model[m].text[i] = i

Flow(m) ==
  LET there == Len(ShownText(m))
  IN /\ there <= Len(model[m].text) /\ \A i \in 1..there : ShownText(m)[i] = i
     /\ Held(m) \cup Queued(m) \cup Relayed(m) = (there + 1)..Len(model[m].text)
     /\ \A x \in Held(m), y \in Queued(m) \cup Relayed(m) : x < y
     /\ \A x \in Queued(m), y \in Relayed(m) : x < y
     /\ \A i, j \in TextUpdates(m) : i < j => Q(m)[i].n < Q(m)[j].n
     /\ \A i, j \in TextChunks(m) : i < j => chunks[m][i].n < chunks[m][j].n

MentionOK(m) ==
  /\ Handling(m) /\ Quiet(m) /\ EndIsLast(m) /\ ConclusionIsLast(m) /\ Writing(m) /\ Rows(m)
  /\ Numbered(m) /\ Flow(m)

\* A session's tasks work on mentions of the session.
SessionOK(s) ==
  /\ handler[s].pc = "idle" => handler[s].m = None
  /\ handler[s].pc # "idle" => handler[s].m \in Mentions /\ SessionOf[handler[s].m] = s
  /\ writer[s].pc # "recv" => writer[s].update \in Updates /\ SessionOf[writer[s].update.m] = s
  /\ \A i \in DOMAIN updates[s] : SessionOf[updates[s][i].m] = s

Bounded ==
  \E b \in Nat : \A m \in Mentions, kind \in Kinds : Exists(m, kind) => row[m][kind].position <= b

IInv ==
  /\ TypeOK /\ Bounded
  /\ \A s \in Sessions : SessionOK(s)
  /\ \A m \in Mentions : MentionOK(m)

-----------------------------------------------------------------------------
(* What a step leaves alone                                                *)

Untouched(m) ==
  /\ row'[m] = row[m] /\ model'[m] = model[m] /\ chunks'[m] = chunks[m] /\ relay'[m] = relay[m]
  /\ H(m)' = H(m) \/ (H(m).m # m /\ H(m)'.m # m)
  /\ W(m)' = W(m) \/ (~InHand(m) /\ ~InHand(m)')
  /\ \/ Q(m)' = Q(m)
     \/ \E u \in Updates : u.m # m /\ Q(m)' = Append(Q(m), u)
     \/ Q(m) # <<>> /\ Head(Q(m)).m # m /\ Q(m)' = Tail(Q(m))

\* The updates of a mention stay as they are, or all move up.
LEMMA SameQueue ==
  ASSUME TypeOK, NEW m \in Mentions, Untouched(m)
  PROVE  \E d \in {0, 1} :
           /\ \A i \in InQueue(m)' : i + d \in InQueue(m) /\ Q(m)'[i] = Q(m)[i + d]
           /\ \A i \in InQueue(m) : i - d \in InQueue(m)'
<1>0. Q(m) \in Seq(Updates)
  BY SessionAssumption DEF TypeOK, Q
<1>1. CASE Q(m)' = Q(m)
  <2>1. InQueue(m)' = InQueue(m)
    BY <1>1 DEF InQueue
  <2>2. \A i \in InQueue(m) : i \in Int
    BY <1>0 DEF InQueue
  <2>3. QED
    BY <1>1, <2>1, <2>2
<1>2. ASSUME NEW u \in Updates, u.m # m, Q(m)' = Append(Q(m), u)
      PROVE  /\ \A i \in InQueue(m)' : i \in InQueue(m) /\ Q(m)'[i] = Q(m)[i] /\ i + 0 = i
             /\ \A i \in InQueue(m) : i \in InQueue(m)' /\ i - 0 = i
  <2>1. InQueue(m)' = {i \in DOMAIN Append(Q(m), u) : Append(Q(m), u)[i].m = m}
    BY <1>2 DEF InQueue
  <2>2. QED
    BY <1>0, <1>2, <2>1 DEF InQueue
<1>3. ASSUME Q(m) # <<>>, Head(Q(m)).m # m, Q(m)' = Tail(Q(m))
      PROVE  /\ \A i \in InQueue(m)' : i + 1 \in InQueue(m) /\ Q(m)'[i] = Q(m)[i + 1]
             /\ \A i \in InQueue(m) : i - 1 \in InQueue(m)'
  <2>1. InQueue(m)' = {i \in DOMAIN Tail(Q(m)) : Tail(Q(m))[i].m = m}
    BY <1>3 DEF InQueue
  <2>2. QED
    BY <1>0, <1>3, <2>1 DEF InQueue
<1>4. QED
  BY <1>1, <1>2, <1>3 DEF Untouched

\* Sequences with the same elements are the same sequence.
LEMMA SameSequence ==
  ASSUME NEW S, NEW a \in Seq(S), NEW b \in Seq(S), Len(a) = Len(b),
         \A i \in 1..Len(b) : a[i] = b[i]
  PROVE  a = b
  OBVIOUS

\* The three rows every mention may have are kinds of rows.
LEMMA KindsOK == User \in Kinds /\ Thinking \in Kinds /\ Message \in Kinds
BY DEF Kinds, User, Thinking, Message

\* What is read of one mention and of its session has its type.
LEMMA ViewTypes ==
  ASSUME TypeOK, NEW m \in Mentions
  PROVE  /\ SessionOf[m] \in Sessions
         /\ row[m] \in [Kinds -> Row \cup {None}]
         /\ Place(m) \in Row \cup {None}
         /\ model[m] \in ModelStates /\ chunks[m] \in Seq(Chunks) /\ relay[m] \in RelayStates
         /\ Q(m) \in Seq(Updates) /\ W(m) \in WriterStates /\ H(m) \in HandlerStates
<1>1. SessionOf[m] \in Sessions
  BY SessionAssumption
<1>2. QED
  BY <1>1, KindsOK DEF TypeOK, Q, W, H, Place

\* A step that does not touch a mention keeps all that is true of it.
LEMMA OthersKeep ==
  ASSUME TypeOK, NEW m \in Mentions, MentionOK(m), Untouched(m)
  PROVE  MentionOK(m)'
<1>. USE DEF MentionOK
<1>1. PICK d \in {0, 1} :
           /\ \A i \in InQueue(m)' : i + d \in InQueue(m) /\ Q(m)'[i] = Q(m)[i + d]
           /\ \A i \in InQueue(m) : i - d \in InQueue(m)'
  BY SameQueue
<1>2. InQueue(m)' = {} <=> InQueue(m) = {}
  BY <1>1
<1>3. InHand(m)' <=> InHand(m)
  BY DEF Untouched, InHand
<1>4. InHand(m) => W(m)' = W(m)
  BY DEF Untouched
<1>5. Placed(m)' = Placed(m) /\ Place(m)' = Place(m) /\ Exists(m, User)' = Exists(m, User)
       /\ Exists(m, Message)' = Exists(m, Message) /\ Open(m)' = Open(m) /\ Ended(m)' = Ended(m)
  BY DEF Untouched, Placed, Place, Exists, Open, Ended
<1>6. row'[m] = row[m] /\ model'[m] = model[m] /\ chunks'[m] = chunks[m] /\ relay'[m] = relay[m]
  BY DEF Untouched
<1>7. InQueue(m) \subseteq Nat /\ InQueue(m)' \subseteq Nat
  <2>1. Q(m) \in Seq(Updates)
    BY ViewTypes
  <2>2. InQueue(m) \subseteq Nat
    BY <2>1 DEF InQueue
  <2>3. \A i \in InQueue(m)' : i \in Nat
    <3>1. Q(m)' \in Seq(Updates)
      BY <2>1 DEF Untouched
    <3>2. QED
      BY <3>1 DEF InQueue
  <2>4. QED
    BY <2>2, <2>3
<1>8. Handling(m)'
  BY <1>5, <1>6 DEF Handling, Untouched
<1>9. Quiet(m)'
  BY <1>2, <1>3, <1>5, <1>6 DEF Quiet
<1>10. EndIsLast(m)'
  BY <1>6 DEF EndIsLast
<1>11. ConclusionIsLast(m)'
  <2>1. \A i \in InQueue(m)' :
          Q(m)'[i].kind \in Ends => relay[m].pc = "done" /\ \A j \in InQueue(m)' : j <= i
    BY <1>1, <1>7 DEF ConclusionIsLast
  <2>2. QED
    BY <2>1, <1>2, <1>3, <1>4, <1>5, <1>6 DEF ConclusionIsLast, Ends
<1>12. Writing(m)'
  BY <1>3, <1>4, <1>5 DEF Writing, PlacesOf
<1>13. Rows(m)'
  BY <1>2, <1>3, <1>4, <1>5, <1>6 DEF Rows
<1>14. Numbered(m)'
  BY <1>6 DEF Numbered
<1>15. Flow(m)'
  <2>1. ShownText(m)' = ShownText(m)
    BY <1>6 DEF ShownText, Exists
  <2>2. Held(m)' = Held(m)
    BY <1>3, <1>4 DEF Held, HoldsText, InHand, W, Update
  <2>3. TextChunks(m)' = TextChunks(m) /\ Relayed(m)' = Relayed(m)
    BY <1>6 DEF TextChunks, Relayed
  <2>4. TextUpdates(m) = {i \in InQueue(m) : Q(m)[i].kind = "text"}
    BY DEF TextUpdates, InQueue, Q
  <2>5. TextUpdates(m)' = {i \in InQueue(m)' : Q(m)'[i].kind = "text"}
    BY DEF TextUpdates, InQueue, Q
  <2>6. /\ \A i \in TextUpdates(m)' : i + d \in TextUpdates(m) /\ Q(m)'[i] = Q(m)[i + d]
        /\ \A i \in TextUpdates(m) : i - d \in TextUpdates(m)' /\ Q(m)'[i - d] = Q(m)[i]
    BY <1>1, <1>7, <2>4, <2>5
  <2>7. Queued(m)' = Queued(m)
    <3>1. Queued(m) = {Q(m)[i].n : i \in TextUpdates(m)}
      BY DEF Queued, Q
    <3>2. Queued(m)' = {Q(m)'[i].n : i \in TextUpdates(m)'}
      BY DEF Queued, Q
    <3>3. QED
      BY <3>1, <3>2, <2>6
  <2>8. \A i, j \in TextUpdates(m)' : i < j => Q(m)'[i].n < Q(m)'[j].n
    <3>1. Flow(m)
      OBVIOUS
    <3>2. ASSUME NEW i \in TextUpdates(m)', NEW j \in TextUpdates(m)', i < j
          PROVE  Q(m)'[i].n < Q(m)'[j].n
      <4>1. i \in Nat /\ j \in Nat /\ i + d < j + d
        BY <2>5, <1>7, <3>2
      <4>2. i + d \in TextUpdates(m) /\ j + d \in TextUpdates(m)
        BY <2>6
      <4>3. Q(m)[i + d].n < Q(m)[j + d].n
        BY <3>1, <4>1, <4>2 DEF Flow
      <4>4. QED
        BY <4>3, <2>6
    <3>3. QED
      BY <3>2
  <2>9. QED
    BY <2>1, <2>2, <2>3, <2>7, <2>8, <1>6 DEF Flow
<1>16. QED
  BY <1>8, <1>9, <1>10, <1>11, <1>12, <1>13, <1>14, <1>15

-----------------------------------------------------------------------------
(* The next position of a buffer                                           *)

\* A set of numbers that is not empty has a least element.
LEMMA LeastExists ==
  ASSUME NEW S \in SUBSET Nat, S # {}
  PROVE  \E x \in S : \A y \in S : x <= y
<1> DEFINE Below == {p \in Nat \X Nat : p[1] < p[2]}
<1>1. IsWellFoundedOn(Below, Nat)
  BY NatLessThanWellFounded DEF OpToRel
<1> HIDE DEF Below
<1>2. PICK x \in S : \A y \in S : ~(<<y, x>> \in Below)
  BY <1>1, WFMin
<1>3. ASSUME NEW y \in S PROVE x <= y
  <2>1. ~(<<y, x>> \in Below)
    BY <1>2
  <2>2. QED
    BY <2>1 DEF Below
<1>4. QED
  BY <1>3

\* A bounded set of numbers that is not empty has a greatest element.
LEMMA GreatestExists ==
  ASSUME NEW S \in SUBSET Nat, S # {}, NEW b \in Nat, \A x \in S : x <= b
  PROVE  \E x \in S : \A y \in S : y <= x
<1> DEFINE D == {d \in Nat : \E x \in S : d = b - x}
<1>1. PICK d \in D : \A e \in D : d <= e
  <2>1. D \in SUBSET Nat /\ D # {}
    <3>1. PICK x \in S : TRUE
      OBVIOUS
    <3>2. b - x \in D
      OBVIOUS
    <3>3. QED
      BY <3>2
  <2>2. QED
    BY <2>1, LeastExists
<1>2. PICK x \in S : d = b - x
  OBVIOUS
<1>3. ASSUME NEW y \in S PROVE y <= x
  <2>1. b - y \in D
    OBVIOUS
  <2>2. d <= b - y
    BY <1>1, <2>1
  <2>3. QED
    BY <1>2, <2>2
<1>4. QED
  BY <1>3

\* There is always a position after the last: nothing is written but at a
\* position that is a number.
LEMMA NextPositionIsNumber ==
  ASSUME TypeOK, Bounded
  PROVE  NextPosition \in Nat
<1>1. PICK b \in Nat : \A m \in Mentions, kind \in Kinds :
                         Exists(m, kind) => row[m][kind].position <= b
  BY DEF Bounded
<1>2. \A p \in TopLevelPositions : p \in Nat /\ p <= b
  <2>1. ASSUME NEW p \in TopLevelPositions PROVE p \in Nat /\ p <= b
    <3>1. PICK m \in Mentions : p \in Positions(m)
      BY DEF TopLevelPositions
    <3>2. PICK kind \in Kinds : Exists(m, kind) /\ p = row[m][kind].position
      BY <3>1 DEF Positions
    <3>3. row[m][kind] \in Row
      BY <3>2 DEF TypeOK, Exists
    <3>4. QED
      BY <1>1, <3>2, <3>3 DEF Row
  <2>2. QED
    BY <2>1
<1>3. CASE TopLevelPositions = {}
  BY <1>3 DEF NextPosition
<1>4. CASE TopLevelPositions # {}
  <2>1. \E p \in TopLevelPositions : \A q \in TopLevelPositions : q <= p
    <3>1. TopLevelPositions \in SUBSET Nat
      BY <1>2
    <3>2. QED
      BY <1>2, <1>4, <3>1, GreatestExists
  <2>2. (CHOOSE p \in TopLevelPositions : \A q \in TopLevelPositions : q <= p) \in Nat
    BY <1>2, <2>1
  <2>3. QED
    BY <1>4, <2>2 DEF NextPosition
<1>5. QED
  BY <1>3, <1>4

-----------------------------------------------------------------------------
(* Types                                                                   *)

SessionsOK == \A s \in Sessions : SessionOK(s)
MentionsOK == \A m \in Mentions : MentionOK(m)

\* What a handler, a writer that are busy work on.
LEMMA HandlersMention ==
  ASSUME TypeOK, SessionsOK, NEW s \in Sessions, handler[s].pc # "idle"
  PROVE  /\ handler[s].m \in Mentions /\ SessionOf[handler[s].m] = s
         /\ H(handler[s].m) = handler[s]
BY DEF SessionsOK, SessionOK, H

\* What the writer of a session works on is a mention of that session.
LEMMA WritersMention ==
  ASSUME TypeOK, SessionsOK, MentionsOK, NEW s \in Sessions, writer[s].pc # "recv"
  PROVE  /\ Update(s) \in Updates /\ Update(s).m \in Mentions /\ SessionOf[Update(s).m] = s
         /\ W(Update(s).m) = writer[s] /\ InHand(Update(s).m)
         /\ Placed(Update(s).m) /\ Place(Update(s).m) \in Row
         /\ writer[s].pc \in PlacesOf(Update(s).kind)
<1>1. Update(s) \in Updates /\ SessionOf[Update(s).m] = s
  BY DEF SessionsOK, SessionOK, Update
<1>2. Update(s).m \in Mentions /\ W(Update(s).m) = writer[s] /\ InHand(Update(s).m)
  BY <1>1 DEF Updates, W, InHand, Update
<1>3. MentionOK(Update(s).m)
  BY <1>2 DEF MentionsOK
<1>4. Placed(Update(s).m)
  BY <1>2, <1>3 DEF MentionOK, Quiet
<1>5. Place(Update(s).m) \in Row
  BY <1>2, <1>4, ViewTypes DEF Placed, Place, Exists
<1>6. writer[s].pc \in PlacesOf(Update(s).kind)
  BY <1>2, <1>3 DEF MentionOK, Writing, Update
<1>7. QED
  BY <1>1, <1>2, <1>4, <1>5, <1>6

\* The updates of a row give a row.
LEMMA RowOperations ==
  ASSUME NEW r \in Row
  PROVE  /\ \A text \in Seq(Nat) : WithText(r, text) \in Row
         /\ HideRow(r) \in Row /\ Finalized(r) \in Row
<1>1. HideRow(r) \in Row /\ Finalized(r) \in Row
  BY DEF HideRow, Finalized, Row
<1>2. ASSUME NEW text \in Seq(Nat) PROVE WithText(r, text) \in Row
  <2>1. (IF r.text = None THEN <<>> ELSE r.text) \o text \in Seq(Nat)
    BY DEF Row
  <2>2. QED
    BY <2>1 DEF WithText, Row
<1>3. QED
  BY <1>1, <1>2

\* What insert_row stores is a row.
LEMMA NewRows ==
  ASSUME NEW p \in Nat, NEW text \in Seq(Nat) \cup {None}, NEW mutable \in BOOLEAN
  PROVE  NewRow(p, text, mutable) \in Row /\ NewRow(p, text, mutable) # None
<1>1. NewRow(p, text, mutable) \in Row
  BY DEF NewRow, Row
<1>2. QED
  BY <1>1, RowAssumption

\* What the writer is to do about an update exists.
LEMMA Starts ==
  ASSUME NEW kind \in UpdateKinds
  PROVE  /\ Start(kind) \in PlacesOf(kind) /\ Start(kind) \notin {"recv", "ephemeral", "finalize", "idle"}
         /\ kind = "complete" => Start(kind) = "get"
         /\ Start(kind) \in {"recv", "text", "status", "get", "position", "insert",
              "ephemeral", "finalize", "idle"}
BY DEF UpdateKinds, Start, PlacesOf

\* The initial state has its types.
LEMMA TypeInit == Init => TypeOK
<1>. SUFFICES ASSUME Init PROVE TypeOK
  OBVIOUS
<1>1. row \in [Mentions -> [Kinds -> Row \cup {None}]]
  BY DEF Init
<1>2. /\ [pc |-> "idle", m |-> None, position |-> 0] \in HandlerStates
      /\ [pc |-> "idle", text |-> <<>>, calls |-> 0, results |-> 0] \in ModelStates
      /\ [pc |-> "idle", error |-> FALSE] \in RelayStates
      /\ [pc |-> "recv", update |-> None, position |-> 0, content |-> None] \in WriterStates
  BY DEF HandlerStates, ModelStates, RelayStates, WriterStates
<1>3. QED
  BY <1>1, <1>2, BoundAssumption, SessionAssumption DEF Init, TypeOK

\* A step of a record of a task is of its type.
LEMMA TaskTypes ==
  /\ \A r \in HandlerStates, pc \in {"idle", "user", "asked", "thinking", "status", "spawn"} :
       [r EXCEPT !.pc = pc] \in HandlerStates
  /\ \A r \in HandlerStates, pc \in {"idle", "user", "asked", "thinking", "status", "spawn"},
        p \in Nat : [r EXCEPT !.pc = pc, !.position = p] \in HandlerStates
  /\ \A r \in ModelStates, pc \in {"idle", "streaming", "returned"} :
       [r EXCEPT !.pc = pc] \in ModelStates
  /\ \A r \in RelayStates, pc \in {"idle", "recv", "join", "done"} :
       [r EXCEPT !.pc = pc] \in RelayStates
  /\ \A r \in WriterStates,
        pc \in {"recv", "text", "status", "get", "position", "insert", "ephemeral", "finalize", "idle"} :
       [r EXCEPT !.pc = pc] \in WriterStates
BY DEF HandlerStates, ModelStates, RelayStates, WriterStates

\* The steps of the mention handler keep the types.
LEMMA HandlerTypes ==
  ASSUME TypeOK, Bounded, SessionsOK, NEW s \in Sessions, HandlerStep(s)
  PROVE  TypeOK'
<1>0. NextPosition \in Nat
  BY NextPositionIsNumber
<1>1. CASE ReadPosition(s)
  <2>1. handler' \in [Sessions -> HandlerStates]
    <3>1. ASSUME NEW m \in Mentions,
                 handler' = [handler EXCEPT ![s] = [pc |-> "user", m |-> m, position |-> NextPosition]]
          PROVE  handler' \in [Sessions -> HandlerStates]
      <4>1. [pc |-> "user", m |-> m, position |-> NextPosition] \in HandlerStates
        BY <1>0 DEF HandlerStates
      <4>2. QED
        BY <3>1, <4>1 DEF TypeOK
    <3>2. ASSUME handler' = [handler EXCEPT ![s] =
                      [@ EXCEPT !.pc = "thinking", !.position = NextPosition]]
          PROVE  handler' \in [Sessions -> HandlerStates]
      <4>1. [handler[s] EXCEPT !.pc = "thinking", !.position = NextPosition] \in HandlerStates
        BY <1>0, TaskTypes DEF TypeOK
      <4>2. QED
        BY <3>2, <4>1 DEF TypeOK
    <3>3. QED
      BY <1>1, <3>1, <3>2 DEF ReadPosition
  <2>2. QED
    BY <1>1, <2>1 DEF ReadPosition, TypeOK
<1>. DEFINE Moves == \E pc \in {"asked", "status", "spawn"} : Handle(s, pc)
<1>2. Moves => handler' \in [Sessions -> HandlerStates]
  <2>1. SUFFICES ASSUME NEW pc \in {"asked", "status", "spawn"}, Handle(s, pc)
                 PROVE  handler' \in [Sessions -> HandlerStates]
    OBVIOUS
  <2>2. [handler[s] EXCEPT !.pc = pc] \in HandlerStates
    BY TaskTypes DEF TypeOK
  <2>3. QED
    BY <2>1, <2>2 DEF Handle, TypeOK
<1>3. ASSUME NEW m \in Mentions, NEW kind \in Kinds, NEW r \in Row, row' = [row EXCEPT ![m][kind] = r]
      PROVE  row' \in [Mentions -> [Kinds -> Row \cup {None}]]
  BY <1>3 DEF TypeOK
<1>4. CASE InsertUserRow(s)
  <2>1. handler[s].m \in Mentions /\ handler[s].position \in Nat
    BY <1>4, HandlersMention DEF InsertUserRow, Handles, TypeOK, HandlerStates
  <2>2. NewRow(handler[s].position, <<>>, FALSE) \in Row
    <3>1. <<>> \in Seq(Nat) /\ FALSE \in BOOLEAN
      OBVIOUS
    <3>2. QED
      BY <2>1, <3>1, NewRows
  <2>3. row' \in [Mentions -> [Kinds -> Row \cup {None}]]
    BY <1>3, <1>4, <2>1, <2>2, KindsOK DEF InsertUserRow
  <2>4. Moves
    BY <1>4 DEF InsertUserRow
  <2>5. QED
    BY <1>2, <1>4, <2>3, <2>4 DEF InsertUserRow, TypeOK
<1>5. CASE InsertThinkingRow(s)
  <2>1. handler[s].m \in Mentions /\ handler[s].position \in Nat
    BY <1>5, HandlersMention DEF InsertThinkingRow, Handles, TypeOK, HandlerStates
  <2>2. NewRow(handler[s].position, None, TRUE) \in Row
    BY <2>1, NewRows
  <2>3. row' \in [Mentions -> [Kinds -> Row \cup {None}]]
    BY <1>3, <1>5, <2>1, <2>2, KindsOK DEF InsertThinkingRow
  <2>4. Moves
    BY <1>5 DEF InsertThinkingRow
  <2>5. QED
    BY <1>2, <1>5, <2>3, <2>4 DEF InsertThinkingRow, TypeOK
<1>6. CASE SetThinking(s)
  <2>1. Moves
    BY <1>6 DEF SetThinking
  <2>2. status' \in [Sessions -> [Models -> {"idle", "thinking", "tool"}]]
    BY <1>6 DEF SetThinking, TypeOK
  <2>3. QED
    BY <1>2, <1>6, <2>1, <2>2 DEF SetThinking, TypeOK
<1>7. CASE SpawnResponse(s)
  <2>1. handler' \in [Sessions -> HandlerStates]
    <3>1. [pc |-> "idle", m |-> None, position |-> 0] \in HandlerStates
      BY DEF HandlerStates
    <3>2. QED
      BY <1>7, <3>1 DEF SpawnResponse, TypeOK
  <2>2. model' \in [Mentions -> ModelStates] /\ relay' \in [Mentions -> RelayStates]
    <3>1. CASE UNCHANGED <<model, relay>>
      BY <3>1 DEF TypeOK
    <3>2. ASSUME NEW m \in Mentions, model' = [model EXCEPT ![m].pc = "streaming"],
                 relay' = [relay EXCEPT ![m].pc = "recv"]
          PROVE  model' \in [Mentions -> ModelStates] /\ relay' \in [Mentions -> RelayStates]
      <4>1. [model[m] EXCEPT !.pc = "streaming"] \in ModelStates
        BY TaskTypes DEF TypeOK
      <4>2. [relay[m] EXCEPT !.pc = "recv"] \in RelayStates
        BY TaskTypes DEF TypeOK
      <4>3. QED
        BY <3>2, <4>1, <4>2 DEF TypeOK
    <3>3. handler[s].m \in Mentions
      BY <1>7, HandlersMention DEF SpawnResponse, Handles
    <3>4. QED
      BY <1>7, <3>1, <3>2, <3>3 DEF SpawnResponse
  <2>3. QED
    BY <1>7, <2>1, <2>2 DEF SpawnResponse, TypeOK
<1>8. QED
  BY <1>1, <1>4, <1>5, <1>6, <1>7 DEF HandlerStep

\* The steps of the model task keep the types.
LEMMA ModelTypes ==
  ASSUME TypeOK, NEW m \in Mentions, ModelStep(m)
  PROVE  TypeOK'
<1>0. model[m] \in ModelStates /\ chunks[m] \in Seq(Chunks) /\ Len(chunks[m]) <= ChunkCapacity
  BY DEF TypeOK
<1>1. ASSUME NEW kind \in {"text", "call", "result", "done", "error"}, NEW n \in Nat, Send(m, kind, n)
      PROVE  /\ chunks' \in [Mentions -> Seq(Chunks)]
             /\ \A k \in Mentions : Len(chunks'[k]) <= ChunkCapacity
  <2>1. [kind |-> kind, n |-> n] \in Chunks
    BY DEF Chunks
  <2>2. /\ Append(chunks[m], [kind |-> kind, n |-> n]) \in Seq(Chunks)
        /\ Len(Append(chunks[m], [kind |-> kind, n |-> n])) = Len(chunks[m]) + 1
    BY <1>0, <2>1
  <2>3. Len(chunks[m]) \in Nat /\ Len(chunks[m]) < ChunkCapacity
    BY <1>0, <1>1 DEF Send
  <2>4. Len(chunks[m]) + 1 <= ChunkCapacity
    BY <2>3, BoundAssumption
  <2>5. QED
    BY <1>1, <2>2, <2>4 DEF Send, TypeOK
<1>2. ASSUME NEW r \in ModelStates, model' = [model EXCEPT ![m] = r]
      PROVE  model' \in [Mentions -> ModelStates]
  BY <1>2 DEF TypeOK
<1>3. CASE SayText(m)
  <2>1. [model[m] EXCEPT !.text = Append(@, Len(@) + 1)] \in ModelStates
    <3>1. model[m].text \in Seq(Nat)
      BY <1>0 DEF ModelStates
    <3>2. Append(model[m].text, Len(model[m].text) + 1) \in Seq(Nat)
      BY <3>1
    <3>3. QED
      BY <1>0, <3>2 DEF ModelStates
  <2>2. model' \in [Mentions -> ModelStates]
    BY <1>2, <1>3, <2>1 DEF SayText
  <2>3. Len(model[m].text) + 1 \in Nat
    BY <1>0 DEF ModelStates
  <2>4. QED
    BY <1>1, <1>3, <2>2, <2>3 DEF SayText, TypeOK
<1>4. CASE CallTool(m)
  <2>1. [model[m] EXCEPT !.calls = @ + 1] \in ModelStates
    <3>1. model[m].calls + 1 \in Nat
      BY <1>0 DEF ModelStates
    <3>2. QED
      BY <1>0, <3>1 DEF ModelStates
  <2>2. model' \in [Mentions -> ModelStates]
    BY <1>2, <1>4, <2>1 DEF CallTool
  <2>3. model[m].calls + 1 \in Nat
    BY <1>0 DEF ModelStates
  <2>4. QED
    BY <1>1, <1>4, <2>2, <2>3 DEF CallTool, TypeOK
<1>5. CASE ToolReturns(m)
  <2>1. [model[m] EXCEPT !.results = @ + 1] \in ModelStates
    <3>1. model[m].results + 1 \in Nat
      BY <1>0 DEF ModelStates
    <3>2. QED
      BY <1>0, <3>1 DEF ModelStates
  <2>2. model' \in [Mentions -> ModelStates]
    BY <1>2, <1>5, <2>1 DEF ToolReturns
  <2>3. model[m].results + 1 \in Nat
    BY <1>0 DEF ModelStates
  <2>4. QED
    BY <1>1, <1>5, <2>2, <2>3 DEF ToolReturns, TypeOK
<1>6. [model[m] EXCEPT !.pc = "returned"] \in ModelStates
  BY <1>0, TaskTypes
<1>7. CASE EndStream(m)
  <2>1. model' \in [Mentions -> ModelStates]
    BY <1>2, <1>6, <1>7 DEF EndStream, AfterEnd
  <2>2. PICK end \in {"done", "error"} : Send(m, end, 0)
    BY <1>7 DEF EndStream
  <2>3. QED
    BY <1>1, <1>7, <2>1, <2>2 DEF EndStream, TypeOK
<1>8. CASE RefuseStream(m)
  <2>1. model' \in [Mentions -> ModelStates]
    BY <1>2, <1>6, <1>8 DEF RefuseStream
  <2>2. QED
    BY <1>8, <2>1 DEF RefuseStream, TypeOK
<1>9. QED
  BY <1>3, <1>4, <1>5, <1>7, <1>8 DEF ModelStep

\* The steps of the relay keep the types.
LEMMA RelayTypes ==
  ASSUME TypeOK, NEW m \in Mentions, RelayStep(m)
  PROVE  TypeOK'
<1>0. relay[m] \in RelayStates /\ chunks[m] \in Seq(Chunks) /\ Len(chunks[m]) <= ChunkCapacity
       /\ SessionOf[m] \in Sessions /\ updates[SessionOf[m]] \in Seq(Updates)
  BY SessionAssumption DEF TypeOK
<1>1. ASSUME NEW kind \in UpdateKinds, NEW n \in Nat, PushUpdate(m, kind, n)
      PROVE  /\ updates' \in [Sessions -> Seq(Updates)]
             /\ \A s \in Sessions : Len(updates'[s]) <= UpdateCapacity
  <2>. DEFINE q == updates[SessionOf[m]]
              u == [kind |-> kind, m |-> m, n |-> n]
  <2>1. u \in Updates
    BY DEF Updates
  <2>2. Append(q, u) \in Seq(Updates) /\ Len(Append(q, u)) = Len(q) + 1 /\ Len(q) \in Nat
    BY <1>0, <2>1
  <2>3. Len(q) < UpdateCapacity /\ updates' = [updates EXCEPT ![SessionOf[m]] = Append(q, u)]
    BY <1>1 DEF PushUpdate
  <2>4. Len(q) + 1 <= UpdateCapacity
    BY <2>2, <2>3, BoundAssumption
  <2>. HIDE DEF q, u
  <2>5. QED
    BY <1>0, <2>2, <2>3, <2>4 DEF TypeOK
<1>2. ASSUME chunks[m] # <<>>, chunks' = [chunks EXCEPT ![m] = Tail(@)]
      PROVE  /\ chunks' \in [Mentions -> Seq(Chunks)]
             /\ \A k \in Mentions : Len(chunks'[k]) <= ChunkCapacity
             /\ Head(chunks[m]) \in Chunks
  <2>1. /\ Tail(chunks[m]) \in Seq(Chunks) /\ Len(Tail(chunks[m])) = Len(chunks[m]) - 1
        /\ Head(chunks[m]) \in Chunks /\ Len(chunks[m]) \in Nat
    BY <1>0, <1>2
  <2>2. Len(chunks[m]) - 1 <= ChunkCapacity
    BY <1>0, <2>1, BoundAssumption
  <2>3. QED
    BY <1>2, <2>1, <2>2 DEF TypeOK
<1>3. ASSUME NEW r \in RelayStates, relay' = [relay EXCEPT ![m] = r]
      PROVE  relay' \in [Mentions -> RelayStates]
  BY <1>3 DEF TypeOK
<1>4. CASE RelayChunk(m)
  <2>. DEFINE c == Head(chunks[m])
  <2>1. c \in Chunks /\ c.kind \in {"text", "call", "result"} /\ PushUpdate(m, c.kind, c.n)
    BY <1>2, <1>4 DEF RelayChunk
  <2>2. c.kind \in UpdateKinds /\ c.n \in Nat
    BY <2>1 DEF Chunks, UpdateKinds
  <2>. HIDE DEF c
  <2>3. QED
    BY <1>1, <1>2, <1>4, <2>1, <2>2 DEF RelayChunk, TypeOK
<1>5. CASE RelayEnds(m)
  <2>1. CASE chunks[m] # <<>>
    <3>1. [pc |-> "join", error |-> Head(chunks[m]).kind = "error"] \in RelayStates
      BY DEF RelayStates
    <3>2. QED
      BY <1>2, <1>3, <1>5, <2>1, <3>1 DEF RelayEnds, TypeOK
  <2>2. CASE chunks[m] = <<>>
    <3>1. [relay[m] EXCEPT !.pc = "join"] \in RelayStates
      BY <1>0, TaskTypes
    <3>2. QED
      BY <1>3, <1>5, <2>2, <3>1 DEF RelayEnds, TypeOK
  <2>3. QED
    BY <2>1, <2>2
<1>6. CASE RelayConcludes(m)
  <2>1. [relay[m] EXCEPT !.pc = "done"] \in RelayStates
    BY <1>0, TaskTypes
  <2>2. relay' \in [Mentions -> RelayStates]
    BY <1>3, <1>6, <2>1 DEF RelayConcludes, Concludes
  <2>3. PICK kind \in UpdateKinds : PushUpdate(m, kind, 0)
    BY <1>6 DEF RelayConcludes, Concludes, UpdateKinds
  <2>4. QED
    BY <1>1, <1>6, <2>2, <2>3 DEF RelayConcludes, Concludes, TypeOK
<1>7. QED
  BY <1>4, <1>5, <1>6 DEF RelayStep

\* The steps of the session's writer keep the types.
LEMMA WriterTypes ==
  ASSUME TypeOK, Bounded, SessionsOK, MentionsOK, NEW s \in Sessions, WriterStep(s)
  PROVE  TypeOK'
<1>0. NextPosition \in Nat /\ writer[s] \in WriterStates /\ updates[s] \in Seq(Updates)
       /\ Len(updates[s]) <= UpdateCapacity
  BY NextPositionIsNumber DEF TypeOK
<1>1. ASSUME NEW r \in WriterStates, writer' = [writer EXCEPT ![s] = r]
      PROVE  writer' \in [Sessions -> WriterStates]
  BY <1>1 DEF TypeOK
<1>2. Rest(s) => writer' \in [Sessions -> WriterStates]
  <2>1. [pc |-> "recv", update |-> None, position |-> 0, content |-> None] \in WriterStates
    BY DEF WriterStates
  <2>2. QED
    BY <1>1, <2>1 DEF Rest
<1>3. ASSUME NEW pc \in {"position", "finalize", "ephemeral", "idle"}, WriterAt(s, pc)
      PROVE  writer' \in [Sessions -> WriterStates]
  <2>1. [writer[s] EXCEPT !.pc = pc] \in WriterStates
    BY <1>0, TaskTypes
  <2>2. QED
    BY <1>1, <1>3, <2>1 DEF WriterAt
<1>4. ASSUME NEW m \in Mentions, NEW kind, NEW r \in Row, row' = [row EXCEPT ![m][kind] = r]
      PROVE  row' \in [Mentions -> [Kinds -> Row \cup {None}]]
  BY <1>4 DEF TypeOK
<1>. DEFINE u == Update(s)
<1>5. ASSUME writer[s].pc # "recv"
      PROVE  /\ u \in Updates /\ u.m \in Mentions /\ u.kind \in UpdateKinds /\ u.n \in Nat
             /\ row[u.m][Thinking] \in Row
  BY <1>5, WritersMention DEF Place, Updates
<1>. HIDE DEF u
<1>6. CASE ReceiveUpdate(s)
  <2>1. /\ Head(updates[s]) \in Updates /\ Tail(updates[s]) \in Seq(Updates)
        /\ Len(Tail(updates[s])) <= UpdateCapacity
    <3>1. updates[s] # <<>>
      BY <1>6 DEF ReceiveUpdate
    <3>2. /\ Head(updates[s]) \in Updates /\ Tail(updates[s]) \in Seq(Updates)
          /\ Len(Tail(updates[s])) = Len(updates[s]) - 1 /\ Len(updates[s]) \in Nat
      BY <1>0, <3>1
    <3>3. QED
      BY <1>0, <3>2, BoundAssumption
  <2>2. [writer[s] EXCEPT !.pc = Start(Head(updates[s]).kind), !.update = Head(updates[s])]
          \in WriterStates
    <3>1. Head(updates[s]).kind \in UpdateKinds
      BY <2>1 DEF Updates
    <3>2. QED
      BY <1>0, <2>1, <3>1, Starts DEF WriterStates
  <2>3. writer' \in [Sessions -> WriterStates]
    BY <1>1, <1>6, <2>2 DEF ReceiveUpdate
  <2>4. updates' \in [Sessions -> Seq(Updates)] /\ \A t \in Sessions : Len(updates'[t]) <= UpdateCapacity
    BY <1>6, <2>1 DEF ReceiveUpdate, TypeOK
  <2>5. QED
    BY <1>6, <2>3, <2>4 DEF ReceiveUpdate, TypeOK
<1>7. CASE WriteText(s)
  <2>. DEFINE t == IF u.kind = "text" THEN <<u.n>> ELSE <<Error>>
  <2>1. writer[s].pc # "recv"
    BY <1>7 DEF WriteText, Writes
  <2>2. t \in Seq(Nat)
    BY <1>5, <2>1 DEF Error
  <2>3. WithText(row[u.m][Thinking], t) \in Row
    BY <1>5, <2>1, <2>2, RowOperations
  <2>4. row' = [row EXCEPT ![u.m][Thinking] = WithText(row[u.m][Thinking], t)]
    BY <1>7 DEF WriteText, u
  <2>5. row' \in [Mentions -> [Kinds -> Row \cup {None}]]
    BY <1>4, <1>5, <2>1, <2>3, <2>4
  <2>6. writer' \in [Sessions -> WriterStates]
    BY <1>2, <1>3, <1>7 DEF WriteText
  <2>7. QED
    BY <1>7, <2>5, <2>6 DEF WriteText, TypeOK
<1>8. CASE SetRunningTool(s)
  <2>1. status' \in [Sessions -> [Models -> {"idle", "thinking", "tool"}]]
    BY <1>8 DEF SetRunningTool, TypeOK
  <2>2. QED
    BY <1>3, <1>8, <2>1 DEF SetRunningTool, TypeOK
<1>9. CASE GetContent(s)
  <2>. DEFINE t == row[u.m][Thinking].text
  <2>1. writer[s].pc # "recv"
    BY <1>9 DEF GetContent, Writes
  <2>2. t \in Seq(Nat) \cup {None}
    BY <1>5, <2>1 DEF Row
  <2>3. [writer[s] EXCEPT !.pc = IF t = None THEN "finalize" ELSE "position", !.content = t]
          \in WriterStates
    BY <1>0, <2>2 DEF WriterStates
  <2>4. writer' \in [Sessions -> WriterStates]
    BY <1>1, <1>9, <2>3 DEF GetContent, u
  <2>5. QED
    BY <1>9, <2>4 DEF GetContent, TypeOK
<1>10. CASE LastPosition(s)
  <2>1. [writer[s] EXCEPT !.pc = "insert", !.position = NextPosition] \in WriterStates
    BY <1>0 DEF WriterStates
  <2>2. writer' \in [Sessions -> WriterStates]
    BY <1>1, <1>10, <2>1 DEF LastPosition
  <2>3. QED
    BY <1>10, <2>2 DEF LastPosition, TypeOK
<1>11. CASE InsertRow(s)
  <2>0. writer[s].pc # "recv"
    BY <1>11 DEF InsertRow, Writes
  <2>1. writer' \in [Sessions -> WriterStates]
    BY <1>2, <1>3, <1>11 DEF InsertRow
  <2>2. /\ NewRow(writer[s].position, writer[s].content, FALSE) \in Row
        /\ NewRow(writer[s].position, <<>>, u.kind = "call") \in Row
    <3>1. /\ <<>> \in Seq(Nat) /\ FALSE \in BOOLEAN /\ (u.kind = "call") \in BOOLEAN
          /\ writer[s].position \in Nat /\ writer[s].content \in Seq(Nat) \cup {None}
      BY <1>0 DEF WriterStates
    <3>2. QED
      BY <3>1, NewRows
  <2>3. row' \in [Mentions -> [Kinds -> Row \cup {None}]]
    <3>1. CASE u.kind = "complete"
      <4>1. row' = [row EXCEPT ![u.m][Message] = NewRow(writer[s].position, writer[s].content, FALSE)]
        BY <1>11, <3>1 DEF InsertRow, u
      <4>2. QED
        BY <1>4, <1>5, <2>0, <2>2, <4>1
    <3>2. CASE u.kind # "complete"
      <4>1. row' = [row EXCEPT ![u.m][<<u.kind, u.n>>] =
                      NewRow(writer[s].position, <<>>, u.kind = "call")]
        BY <1>11, <3>2 DEF InsertRow, u
      <4>2. QED
        BY <1>4, <1>5, <2>0, <2>2, <4>1
    <3>3. QED
      BY <3>1, <3>2
  <2>4. QED
    BY <1>11, <2>1, <2>3 DEF InsertRow, TypeOK
<1>12. CASE SetEphemeral(s) \/ FinalizeRow(s)
  <2>0. writer[s].pc # "recv"
    BY <1>12 DEF SetEphemeral, FinalizeRow, Writes
  <2>1. HideRow(row[u.m][Thinking]) \in Row /\ Finalized(row[u.m][Thinking]) \in Row
    BY <1>5, <2>0, RowOperations
  <2>2. PICK r \in Row : row' = [row EXCEPT ![u.m][Thinking] = r]
    BY <1>12, <2>1 DEF SetEphemeral, FinalizeRow, u
  <2>3. row' \in [Mentions -> [Kinds -> Row \cup {None}]]
    BY <1>4, <1>5, <2>0, <2>2
  <2>4. QED
    BY <1>3, <1>12, <2>3 DEF SetEphemeral, FinalizeRow, TypeOK
<1>13. CASE SetIdle(s)
  <2>1. status' \in [Sessions -> [Models -> {"idle", "thinking", "tool"}]]
    BY <1>13 DEF SetIdle, TypeOK
  <2>2. QED
    BY <1>2, <1>13, <2>1 DEF SetIdle, TypeOK
<1>14. QED
  BY <1>6, <1>7, <1>8, <1>9, <1>10, <1>11, <1>12, <1>13 DEF WriterStep

\* A step that writes one row leaves the positions bounded.
LEMMA BoundedStep ==
  ASSUME TypeOK, TypeOK', Bounded, NEW m, NEW kind,
         \A k \in Mentions, kd \in Kinds : row'[k][kd] = row[k][kd] \/ (k = m /\ kd = kind)
  PROVE  Bounded'
<1>1. PICK b \in Nat : \A k \in Mentions, kd \in Kinds :
                         Exists(k, kd) => row[k][kd].position <= b
  BY DEF Bounded
<1>. DEFINE p == IF m \in Mentions /\ kind \in Kinds /\ row'[m][kind] # None
                 THEN row'[m][kind].position ELSE 0
<1>2. p \in Nat
  BY DEF TypeOK, Row
<1>3. ASSUME NEW k \in Mentions, NEW kd \in Kinds, row'[k][kd] # None
      PROVE  row'[k][kd].position <= b + p
  <2>1. row'[k][kd].position \in Nat
    BY <1>3 DEF TypeOK, Row
  <2>2. CASE row'[k][kd] = row[k][kd]
    <3>1. row[k][kd].position <= b
      BY <1>1, <1>3, <2>2 DEF Exists
    <3>. HIDE DEF p
    <3>2. QED
      BY <1>2, <2>1, <2>2, <3>1
  <2>3. CASE k = m /\ kd = kind
    <3>1. row'[k][kd].position = p
      BY <1>3, <2>3
    <3>. HIDE DEF p
    <3>2. QED
      BY <1>2, <2>1, <3>1
  <2>4. QED
    BY <2>2, <2>3
<1>4. b + p \in Nat
  BY <1>2
<1>. HIDE DEF p
<1>5. QED
  BY <1>3, <1>4 DEF Bounded, Exists

\* A step writes at most one row.
LEMMA OneRow ==
  ASSUME TypeOK, Next
  PROVE  \E m, kind : \A k \in Mentions, kd \in Kinds :
           row'[k][kd] = row[k][kd] \/ (k = m /\ kd = kind)
<1>. DEFINE One == \E m, kind : \A k \in Mentions, kd \in Kinds :
                     row'[k][kd] = row[k][kd] \/ (k = m /\ kd = kind)
<1>1. ASSUME NEW m, NEW kind, NEW r, row' = [row EXCEPT ![m][kind] = r]
      PROVE  One
  <2>1. \A k \in Mentions, kd \in Kinds : row'[k][kd] = row[k][kd] \/ (k = m /\ kd = kind)
    BY <1>1 DEF TypeOK
  <2>2. QED
    BY <2>1
<1>2. row' = row => One
  BY Zenon
<1>. HIDE DEF One
<1>3. ASSUME NEW s \in Sessions, HandlerStep(s) PROVE One
  <2>1. CASE ReadPosition(s) \/ SetThinking(s) \/ SpawnResponse(s)
    BY <1>2, <2>1 DEF ReadPosition, SetThinking, SpawnResponse
  <2>2. CASE InsertUserRow(s)
    BY <1>1, <2>2 DEF InsertUserRow
  <2>3. CASE InsertThinkingRow(s)
    BY <1>1, <2>3 DEF InsertThinkingRow
  <2>4. QED
    BY <1>3, <2>1, <2>2, <2>3 DEF HandlerStep
<1>4. ASSUME NEW s \in Sessions, WriterStep(s) PROVE One
  <2>1. CASE ReceiveUpdate(s) \/ SetRunningTool(s) \/ GetContent(s) \/ LastPosition(s) \/ SetIdle(s)
    BY <1>2, <2>1 DEF ReceiveUpdate, SetRunningTool, GetContent, LastPosition, SetIdle
  <2>2. CASE WriteText(s)
    BY <1>1, <2>2 DEF WriteText
  <2>3. CASE InsertRow(s)
    <3>1. CASE Update(s).kind = "complete"
      BY <1>1, <2>3, <3>1 DEF InsertRow
    <3>2. CASE Update(s).kind # "complete"
      <4>1. row' = [row EXCEPT ![Update(s).m][<<Update(s).kind, Update(s).n>>] =
                      NewRow(writer[s].position, <<>>, Update(s).kind = "call")]
        BY <2>3, <3>2 DEF InsertRow
      <4>2. QED
        BY <1>1, <4>1
    <3>3. QED
      BY <3>1, <3>2
  <2>4. CASE SetEphemeral(s)
    BY <1>1, <2>4 DEF SetEphemeral
  <2>5. CASE FinalizeRow(s)
    BY <1>1, <2>5 DEF FinalizeRow
  <2>6. QED
    BY <1>4, <2>1, <2>2, <2>3, <2>4, <2>5 DEF WriterStep
<1>5. ASSUME NEW m \in Mentions, ModelStep(m) \/ RelayStep(m) PROVE One
  BY <1>2, <1>5 DEF ModelStep, SayText, CallTool, ToolReturns, EndStream, RefuseStream,
                    RelayStep, RelayChunk, RelayEnds, RelayConcludes
<1>6. QED
  BY <1>3, <1>4, <1>5 DEF Next, One

\* Every step keeps the types and the bound on the positions.
LEMMA TypeStep ==
  ASSUME TypeOK, Bounded, SessionsOK, MentionsOK, Next
  PROVE  TypeOK' /\ Bounded'
<1>1. TypeOK'
  BY HandlerTypes, WriterTypes, ModelTypes, RelayTypes DEF Next
<1>2. QED
  BY <1>1, OneRow, BoundedStep

\* Its next place.
LEMMA Moved ==
  ASSUME TypeOK, NEW s \in Sessions
  PROVE  /\ Rest(s) => writer'[s].pc = "recv"
         /\ \A pc : WriterAt(s, pc) => /\ writer'[s].pc = pc /\ writer'[s].update = writer[s].update
                                       /\ writer'[s].content = writer[s].content
<1>1. writer[s] \in WriterStates
  BY DEF TypeOK
<1>2. Rest(s) => writer'[s].pc = "recv"
  BY DEF Rest, TypeOK
<1>3. ASSUME NEW pc, WriterAt(s, pc)
      PROVE  /\ writer'[s].pc = pc /\ writer'[s].update = writer[s].update
             /\ writer'[s].content = writer[s].content
  BY <1>1, <1>3 DEF WriterAt, TypeOK, WriterStates
<1>4. QED
  BY <1>2, <1>3

\* Where the two reads of the writer leave it.
LEMMA Reads ==
  ASSUME TypeOK, NEW s \in Sessions
  PROVE  /\ GetContent(s) => /\ writer'[s].update = writer[s].update
                             /\ writer'[s].content = row[Update(s).m][Thinking].text
                             /\ writer'[s].pc = IF row[Update(s).m][Thinking].text = None
                                               THEN "finalize" ELSE "position"
         /\ LastPosition(s) => /\ writer'[s].update = writer[s].update
                               /\ writer'[s].content = writer[s].content
                               /\ writer'[s].pc = "insert"
<1>1. writer[s] \in WriterStates
  BY DEF TypeOK
<1>2. ASSUME GetContent(s)
      PROVE  /\ writer'[s].update = writer[s].update
             /\ writer'[s].content = row[Update(s).m][Thinking].text
             /\ writer'[s].pc = IF row[Update(s).m][Thinking].text = None
                               THEN "finalize" ELSE "position"
  <2>1. PICK text : text = row[Update(s).m][Thinking].text
    OBVIOUS
  <2>2. writer'[s] = [writer[s] EXCEPT !.pc = IF text = None THEN "finalize" ELSE "position",
                                       !.content = text]
    BY <1>2, <2>1 DEF GetContent, TypeOK
  <2>3. QED
    BY <1>1, <2>1, <2>2 DEF WriterStates
<1>3. ASSUME LastPosition(s)
      PROVE  /\ writer'[s].update = writer[s].update /\ writer'[s].content = writer[s].content
             /\ writer'[s].pc = "insert"
  <2>1. writer'[s] = [writer[s] EXCEPT !.pc = "insert", !.position = NextPosition]
    BY <1>3 DEF LastPosition, TypeOK
  <2>2. QED
    BY <1>1, <2>1 DEF WriterStates
<1>4. QED
  BY <1>2, <1>3

-----------------------------------------------------------------------------
(* Sessions                                                                *)

\* Every step keeps what sessions work on.
LEMMA SessionsStep ==
  ASSUME TypeOK, SessionsOK, Next
  PROVE  SessionsOK'
<1>. SUFFICES ASSUME NEW s \in Sessions PROVE SessionOK(s)'
  BY DEF SessionsOK
<1>0. SessionOK(s) /\ updates[s] \in Seq(Updates)
  BY DEF SessionsOK, TypeOK
<1>. DEFINE HandlerPart == /\ handler'[s].pc = "idle" => handler'[s].m = None
                           /\ handler'[s].pc # "idle" => handler'[s].m \in Mentions /\ SessionOf[handler'[s].m] = s
            WriterPart == writer'[s].pc # "recv" => writer'[s].update \in Updates /\ SessionOf[writer'[s].update.m] = s
            QueuePart == \A i \in DOMAIN updates'[s] : SessionOf[updates'[s][i].m] = s
<1>1. handler'[s] = handler[s] => HandlerPart
  BY <1>0 DEF SessionOK
<1>2. writer'[s] = writer[s] => WriterPart
  BY <1>0 DEF SessionOK
<1>3. updates'[s] = updates[s] => QueuePart
  BY <1>0 DEF SessionOK
<1>4. HandlerPart /\ WriterPart /\ QueuePart => SessionOK(s)'
  BY DEF SessionOK
<1>. HIDE DEF HandlerPart, WriterPart, QueuePart
<1>5. ASSUME NEW t \in Sessions, HandlerStep(t) PROVE SessionOK(s)'
  <2>1. writer' = writer /\ updates' = updates
    BY <1>5 DEF HandlerStep, ReadPosition, InsertUserRow, InsertThinkingRow, SetThinking, SpawnResponse
  <2>2. HandlerPart
    <3>1. CASE t # s
      <4>1. handler'[s] = handler[s]
        BY <1>5, <3>1 DEF HandlerStep, ReadPosition, InsertUserRow, InsertThinkingRow, SetThinking,
                          SpawnResponse, Handle, TypeOK
      <4>2. QED
        BY <1>1, <4>1
    <3>2. CASE t = s
      <4>1. CASE ReadPosition(s)
        <5>1. ASSUME NEW m \in Mentions, SessionOf[m] = s,
                     handler' = [handler EXCEPT ![s] = [pc |-> "user", m |-> m, position |-> NextPosition]]
              PROVE  HandlerPart
          BY <5>1 DEF TypeOK, HandlerPart
        <5>2. ASSUME Handles(s, "asked"),
                     handler' = [handler EXCEPT ![s] =
                                   [@ EXCEPT !.pc = "thinking", !.position = NextPosition]]
              PROVE  HandlerPart
          <6>1. handler'[s].pc = "thinking" /\ handler'[s].m = handler[s].m
            BY <5>2 DEF TypeOK, HandlerStates
          <6>2. QED
            BY <1>0, <5>2, <6>1 DEF SessionOK, Handles, HandlerPart
        <5>3. QED
          BY <4>1, <5>1, <5>2 DEF ReadPosition
      <4>2. CASE SpawnResponse(s)
        BY <4>2 DEF SpawnResponse, TypeOK, HandlerPart
      <4>3. CASE InsertUserRow(s) \/ InsertThinkingRow(s) \/ SetThinking(s)
        <5>1. PICK pc \in {"asked", "status", "spawn"} : Handle(s, pc)
          BY <4>3 DEF InsertUserRow, InsertThinkingRow, SetThinking
        <5>2. handler[s].pc # "idle"
          BY <4>3 DEF InsertUserRow, InsertThinkingRow, SetThinking, Handles
        <5>3. handler'[s].pc = pc /\ handler'[s].m = handler[s].m
          BY <5>1 DEF Handle, TypeOK, HandlerStates
        <5>4. QED
          BY <1>0, <5>2, <5>3 DEF SessionOK, HandlerPart
      <4>4. QED
        BY <1>5, <3>2, <4>1, <4>2, <4>3 DEF HandlerStep
    <3>3. QED
      BY <3>1, <3>2
  <2>3. QED
    BY <1>2, <1>3, <1>4, <2>1, <2>2
<1>6. ASSUME NEW m \in Mentions, ModelStep(m) PROVE SessionOK(s)'
  <2>1. writer' = writer /\ updates' = updates /\ handler' = handler
    BY <1>6 DEF ModelStep, SayText, CallTool, ToolReturns, EndStream, RefuseStream
  <2>2. QED
    BY <1>1, <1>2, <1>3, <1>4, <2>1
<1>7. ASSUME NEW m \in Mentions, RelayStep(m) PROVE SessionOK(s)'
  <2>1. writer' = writer /\ handler' = handler
    BY <1>7 DEF RelayStep, RelayChunk, RelayEnds, RelayConcludes
  <2>2. QueuePart
    <3>1. CASE updates' = updates
      BY <1>3, <3>1
    <3>2. ASSUME NEW kind, NEW n, PushUpdate(m, kind, n) PROVE QueuePart
      <4>. DEFINE u == [kind |-> kind, m |-> m, n |-> n]
      <4>1. CASE s # SessionOf[m]
        BY <1>3, <3>2, <4>1 DEF PushUpdate, TypeOK
      <4>2. CASE s = SessionOf[m]
        <5>1. updates'[s] = Append(updates[s], u) /\ u.m = m
          BY <3>2, <4>2 DEF PushUpdate, TypeOK
        <5>. HIDE DEF u
        <5>2. \A i \in DOMAIN updates[s] : SessionOf[updates[s][i].m] = s
          BY <1>0 DEF SessionOK
        <5>3. QED
          BY <1>0, <4>2, <5>1, <5>2 DEF QueuePart
      <4>3. QED
        BY <4>1, <4>2
    <3>3. QED
      BY <1>7, <3>1, <3>2 DEF RelayStep, RelayChunk, RelayEnds, RelayConcludes, Concludes
  <2>3. QED
    BY <1>1, <1>2, <1>4, <2>1, <2>2
<1>8. ASSUME NEW t \in Sessions, WriterStep(t) PROVE SessionOK(s)'
  <2>1. handler' = handler
    BY <1>8 DEF WriterStep, ReceiveUpdate, WriteText, SetRunningTool, GetContent, LastPosition,
                InsertRow, SetEphemeral, FinalizeRow, SetIdle
  <2>2. CASE t # s
    <3>1. writer'[s] = writer[s] /\ updates'[s] = updates[s]
      BY <1>8, <2>2 DEF WriterStep, ReceiveUpdate, WriteText, SetRunningTool, GetContent, LastPosition,
                InsertRow, SetEphemeral, FinalizeRow, SetIdle, Rest, WriterAt, TypeOK
    <3>2. QED
      BY <1>1, <1>2, <1>3, <1>4, <2>1, <3>1
  <2>3. CASE t = s
    <3>1. CASE ReceiveUpdate(s)
      <4>1. updates[s] # <<>> /\ updates'[s] = Tail(updates[s])
        BY <3>1 DEF ReceiveUpdate, TypeOK
      <4>2. writer'[s].update = Head(updates[s])
        BY <3>1 DEF ReceiveUpdate, TypeOK, WriterStates
      <4>3. \A i \in DOMAIN updates[s] : SessionOf[updates[s][i].m] = s
        BY <1>0 DEF SessionOK
      <4>4. QueuePart
        BY <1>0, <4>1, <4>3 DEF QueuePart
      <4>5. WriterPart
        BY <1>0, <4>1, <4>2, <4>3 DEF WriterPart
      <4>6. QED
        BY <1>1, <1>4, <2>1, <4>4, <4>5
    <3>2. CASE ~ReceiveUpdate(s)
      <4>1. updates' = updates
        BY <1>8, <2>3, <3>2 DEF WriterStep, WriteText, SetRunningTool, GetContent, LastPosition,
                InsertRow, SetEphemeral, FinalizeRow, SetIdle
      <4>2. writer[s].pc # "recv"
        BY <1>8, <2>3, <3>2 DEF WriterStep, WriteText, SetRunningTool, GetContent, LastPosition,
                InsertRow, SetEphemeral, FinalizeRow, SetIdle, Writes
      <4>3. writer'[s].pc = "recv" \/ writer'[s].update = writer[s].update
        <5>1. CASE Rest(s)
          BY <5>1 DEF Rest, TypeOK
        <5>2. CASE \E pc : WriterAt(s, pc)
          BY <5>2 DEF WriterAt, TypeOK, WriterStates
        <5>3. CASE GetContent(s) \/ LastPosition(s)
          BY <5>3, Reads
        <5>4. QED
          BY <1>8, <2>3, <3>2, <5>1, <5>2, <5>3 DEF WriterStep, WriteText, SetRunningTool,
                InsertRow, SetEphemeral, FinalizeRow, SetIdle
      <4>4. WriterPart
        BY <1>0, <4>2, <4>3 DEF SessionOK, WriterPart
      <4>5. QED
        BY <1>1, <1>3, <1>4, <2>1, <4>1, <4>4
    <3>3. QED
      BY <3>1, <3>2
  <2>4. QED
    BY <2>2, <2>3
<1>9. QED
  BY <1>5, <1>6, <1>7, <1>8 DEF Next

-----------------------------------------------------------------------------
(* What each part of the invariant of a mention depends on                 *)

SamePlace(m) == row'[m][Thinking] = row[m][Thinking]
SameMessage(m) == row'[m][Message] = row[m][Message]
SameUser(m) == row'[m][User] = row[m][User]
SameModel(m) == model'[m] = model[m]
SameChunks(m) == chunks'[m] = chunks[m]
SameRelay(m) == relay'[m] = relay[m]
SameHandler(m) == H(m)' = H(m)
SameWriter(m) == W(m)' = W(m)
SameUpdates(m) == Q(m)' = Q(m)

\* What is shown of a mention depends on its placeholder alone.
LEMMA SameShown ==
  ASSUME NEW m, SamePlace(m)
  PROVE  /\ Placed(m)' = Placed(m) /\ Place(m)' = Place(m) /\ Ended(m)' = Ended(m)
         /\ ShownText(m)' = ShownText(m)
BY DEF SamePlace, Placed, Place, Ended, ShownText, Exists

\* Each part of the invariant depends on what it names.
LEMMA SameParts ==
  ASSUME NEW m, MentionOK(m)
  PROVE  /\ SamePlace(m) /\ SameUser(m) /\ SameHandler(m) /\ SameRelay(m) => Handling(m)'
         /\ SamePlace(m) /\ SameMessage(m) /\ SameRelay(m) /\ SameModel(m) /\ SameChunks(m)
              /\ SameUpdates(m) /\ SameWriter(m) => Quiet(m)'
         /\ SameChunks(m) /\ SameModel(m) /\ SameRelay(m) => EndIsLast(m)'
         /\ SameUpdates(m) /\ SameRelay(m) /\ SameWriter(m) /\ SamePlace(m) /\ SameMessage(m)
              => ConclusionIsLast(m)'
         /\ SameWriter(m) /\ SamePlace(m) /\ SameMessage(m) => Writing(m)'
         /\ SamePlace(m) /\ SameMessage(m) /\ SameWriter(m) /\ SameUpdates(m) /\ SameRelay(m) => Rows(m)'
         /\ SameModel(m) => Numbered(m)'
         /\ SamePlace(m) /\ SameModel(m) /\ SameWriter(m) /\ SameUpdates(m) /\ SameChunks(m) => Flow(m)'
<1>. USE DEF MentionOK
<1>1. SamePlace(m) => Placed(m)' = Placed(m) /\ Place(m)' = Place(m) /\ Ended(m)' = Ended(m)
                      /\ ShownText(m)' = ShownText(m)
  BY SameShown
<1>2. SameMessage(m) => Exists(m, Message)' = Exists(m, Message)
  BY DEF SameMessage, Exists
<1>3. SameUser(m) => Exists(m, User)' = Exists(m, User)
  BY DEF SameUser, Exists
<1>4. SameUpdates(m) => InQueue(m)' = InQueue(m)
  BY DEF SameUpdates, InQueue
<1>5. SameWriter(m) => InHand(m)' = InHand(m)
  BY DEF SameWriter, InHand
<1>6. SamePlace(m) /\ SameMessage(m) => Open(m)' = Open(m)
  BY <1>1, <1>2 DEF Open
<1>7. SamePlace(m) /\ SameUser(m) /\ SameHandler(m) /\ SameRelay(m) => Handling(m)'
  BY <1>1, <1>3 DEF Handling, SameHandler, SameRelay
<1>8. SamePlace(m) /\ SameMessage(m) /\ SameRelay(m) /\ SameModel(m) /\ SameChunks(m)
        /\ SameUpdates(m) /\ SameWriter(m) => Quiet(m)'
  BY <1>1, <1>2, <1>4, <1>5 DEF Quiet, SameRelay, SameModel, SameChunks
<1>9. SameChunks(m) /\ SameModel(m) /\ SameRelay(m) => EndIsLast(m)'
  BY DEF EndIsLast, SameChunks, SameModel, SameRelay
<1>10. SameUpdates(m) /\ SameRelay(m) /\ SameWriter(m) /\ SamePlace(m) /\ SameMessage(m)
              => ConclusionIsLast(m)'
  BY <1>4, <1>5, <1>6 DEF ConclusionIsLast, SameUpdates, SameRelay, SameWriter
<1>11. SameWriter(m) /\ SamePlace(m) /\ SameMessage(m) => Writing(m)'
  BY <1>1, <1>2, <1>5, <1>6 DEF Writing, SameWriter, PlacesOf
<1>12. SamePlace(m) /\ SameMessage(m) /\ SameWriter(m) /\ SameUpdates(m) /\ SameRelay(m) => Rows(m)'
  BY <1>1, <1>2, <1>4, <1>5 DEF Rows, SameMessage, SameWriter, SameRelay
<1>13. SameModel(m) => Numbered(m)'
  BY DEF Numbered, SameModel
<1>14. SamePlace(m) /\ SameModel(m) /\ SameWriter(m) /\ SameUpdates(m) /\ SameChunks(m) => Flow(m)'
  <2>1. SUFFICES ASSUME SamePlace(m), SameModel(m), SameWriter(m), SameUpdates(m), SameChunks(m)
                 PROVE  Flow(m)'
    OBVIOUS
  <2>2. Held(m)' = Held(m)
    BY <2>1 DEF Held, HoldsText, SameWriter, W, Update
  <2>3. TextUpdates(m)' = TextUpdates(m) /\ Queued(m)' = Queued(m)
    BY <2>1 DEF TextUpdates, Queued, SameUpdates, Q
  <2>4. TextChunks(m)' = TextChunks(m) /\ Relayed(m)' = Relayed(m)
    BY <2>1 DEF TextChunks, Relayed, SameChunks
  <2>5. Flow(m)
    OBVIOUS
  <2>6. QED
    BY <1>1, <2>1, <2>2, <2>3, <2>4, <2>5 DEF Flow, SameModel, SameUpdates, SameChunks
<1>15. QED
  BY <1>7, <1>8, <1>9, <1>10, <1>11, <1>12, <1>13, <1>14

\* A row of another kind is not the placeholder.
LEMMA OtherRows ==
  ASSUME TypeOK, NEW m \in Mentions, NEW kind, NEW r, row' = [row EXCEPT ![m][kind] = r]
  PROVE  /\ \A k \in Mentions : k # m => row'[k] = row[k]
         /\ kind # User => SameUser(m)
         /\ kind # Thinking => SamePlace(m)
         /\ kind # Message => SameMessage(m)
         /\ kind \in Kinds => row'[m][kind] = r
BY KindsOK DEF TypeOK, SameUser, SamePlace, SameMessage

\* The rows of a mention are told apart.
LEMMA DistinctRows ==
  /\ User # Thinking /\ User # Message /\ Thinking # Message
  /\ \A k \in {"call", "result"}, n \in Nat : <<k, n>> \notin {User, Thinking, Message}
BY DEF User, Thinking, Message

-----------------------------------------------------------------------------
(* The steps of a handler                                                  *)

\* It has no effect on the mentions it does not handle.
LEMMA HandlerFrame ==
  ASSUME TypeOK, SessionsOK, NEW s \in Sessions, HandlerStep(s),
         NEW m \in Mentions, handler[s].m # m, handler'[s].m # m
  PROVE  Untouched(m)
<1>0. handler[s].pc # "idle" => handler[s].m \in Mentions
  BY HandlersMention
<1>1. writer' = writer /\ updates' = updates /\ chunks' = chunks
  BY DEF HandlerStep, ReadPosition, InsertUserRow, InsertThinkingRow, SetThinking, SpawnResponse
<1>2. W(m)' = W(m) /\ Q(m)' = Q(m) /\ chunks'[m] = chunks[m]
  BY <1>1 DEF W, Q
<1>3. SessionOf[m] # s => handler'[SessionOf[m]] = handler[SessionOf[m]]
  BY SessionAssumption DEF HandlerStep, ReadPosition, InsertUserRow, InsertThinkingRow, SetThinking,
     SpawnResponse, Handle, TypeOK
<1>4. H(m)' = H(m) \/ (H(m).m # m /\ H(m)'.m # m)
  BY <1>3 DEF H
<1>5. row'[m] = row[m]
  <2>1. CASE ReadPosition(s) \/ SetThinking(s) \/ SpawnResponse(s)
    BY <2>1 DEF ReadPosition, SetThinking, SpawnResponse
  <2>2. CASE InsertUserRow(s)
    BY <1>0, <2>2, OtherRows DEF InsertUserRow, Handles
  <2>3. CASE InsertThinkingRow(s)
    BY <1>0, <2>3, OtherRows DEF InsertThinkingRow, Handles
  <2>4. QED
    BY <2>1, <2>2, <2>3 DEF HandlerStep
<1>6. model'[m] = model[m] /\ relay'[m] = relay[m]
  <2>1. CASE SpawnResponse(s)
    BY <2>1 DEF SpawnResponse, TypeOK
  <2>2. CASE ~SpawnResponse(s)
    BY <2>2 DEF HandlerStep, ReadPosition, InsertUserRow, InsertThinkingRow, SetThinking
  <2>3. QED
    BY <2>1, <2>2
<1>7. QED
  BY <1>2, <1>4, <1>5, <1>6 DEF Untouched

\* A step of the handler keeps the invariant of the mention it handles.
LEMMA HandlerKeeps ==
  ASSUME TypeOK, SessionsOK, NEW s \in Sessions, HandlerStep(s), NEW m \in Mentions, MentionOK(m),
         handler[s].m = m \/ handler'[s].m = m
  PROVE  MentionOK(m)'
<1>. USE DEF MentionOK
<1>0. handler[s].pc # "idle" => handler[s].m = m /\ SessionOf[m] = s
  <2>1. handler[s].pc # "idle" => handler[s].m \in Mentions /\ SessionOf[handler[s].m] = s
    BY HandlersMention
  <2>2. handler[s].pc # "idle" => handler'[s].m = handler[s].m \/ handler'[s].m = None
    <3>1. CASE ReadPosition(s)
      BY <3>1 DEF ReadPosition, Handles, TypeOK, HandlerStates
    <3>2. CASE \E pc : Handle(s, pc)
      BY <3>2 DEF Handle, TypeOK, HandlerStates
    <3>3. CASE SpawnResponse(s)
      BY <3>3 DEF SpawnResponse, TypeOK
    <3>4. QED
      BY <3>1, <3>2, <3>3 DEF HandlerStep, InsertUserRow, InsertThinkingRow, SetThinking
  <2>3. QED
    BY <2>1, <2>2, NoneAssumption
<1>1. SameWriter(m) /\ SameUpdates(m) /\ SameChunks(m)
  BY DEF HandlerStep, ReadPosition, InsertUserRow, InsertThinkingRow, SetThinking, SpawnResponse,
         SameWriter, SameUpdates, SameChunks, W, Q
<1>2. ASSUME SamePlace(m), SameMessage(m), SameModel(m), SameRelay(m), Handling(m)'
      PROVE  MentionOK(m)'
  BY <1>1, <1>2, SameParts
<1>3. CASE ReadPosition(s)
  <2>1. SamePlace(m) /\ SameMessage(m) /\ SameModel(m) /\ SameRelay(m) /\ SameUser(m)
    BY <1>3 DEF ReadPosition, SamePlace, SameMessage, SameModel, SameRelay, SameUser
  <2>2. Handling(m)'
    <3>1. CASE Handles(s, "idle")
      <4>1. handler[s].m = None
        BY <3>1 DEF SessionsOK, SessionOK, Handles
      <4>2. handler'[s].m = m
        BY <4>1, NoneAssumption
      <4>3. handler'[s].pc = "user" /\ SessionOf[m] = s /\ ~Exists(m, User)
        BY <1>3, <3>1, <4>2 DEF ReadPosition, Handles, TypeOK
      <4>4. H(m)'.pc = "user" /\ H(m)'.m = m
        BY <4>2, <4>3 DEF H
      <4>5. ~Placed(m)
        BY <4>3 DEF Handling
      <4>6. QED
        BY <2>1, <4>3, <4>4, <4>5, SameShown DEF Handling
    <3>2. CASE ~Handles(s, "idle")
      <4>1. handler[s].pc = "asked" /\ handler[s].m = m /\ SessionOf[m] = s
        BY <1>0, <1>3, <3>2 DEF ReadPosition, Handles
      <4>2. handler'[s].pc = "thinking" /\ handler'[s].m = m
        BY <1>3, <4>1 DEF ReadPosition, Handles, TypeOK, HandlerStates
      <4>3. H(m)'.pc = "thinking" /\ H(m).pc = "asked" /\ H(m).m = m /\ H(m)'.m = m
        BY <4>1, <4>2 DEF H
      <4>4. ~Placed(m)
        BY <4>3 DEF Handling
      <4>5. QED
        BY <2>1, <4>3, <4>4, SameShown DEF Handling, SameUser, Exists
    <3>3. QED
      BY <3>1, <3>2
  <2>3. QED
    BY <1>2, <2>1, <2>2
<1>4. CASE InsertUserRow(s)
  <2>1. handler[s].pc = "user" /\ handler[s].m = m /\ SessionOf[m] = s
    BY <1>0, <1>4 DEF InsertUserRow, Handles
  <2>. DEFINE r == NewRow(handler[s].position, <<>>, FALSE)
  <2>2. row' = [row EXCEPT ![m][User] = r]
    BY <1>4, <2>1 DEF InsertUserRow
  <2>3. r # None
    <3>1. <<>> \in Seq(Nat) /\ FALSE \in BOOLEAN /\ handler[s].position \in Nat
      BY DEF TypeOK, HandlerStates
    <3>2. QED
      BY <3>1, NewRows
  <2>. HIDE DEF r
  <2>4. SamePlace(m) /\ SameMessage(m) /\ Exists(m, User)'
    <3>1. User \in Kinds /\ Thinking \in Kinds /\ Message \in Kinds /\ User # Thinking /\ User # Message
      BY KindsOK, DistinctRows
    <3>2. row'[m][User] = r /\ SamePlace(m) /\ SameMessage(m)
      BY <2>2, <3>1 DEF TypeOK, SamePlace, SameMessage
    <3>3. QED
      BY <2>3, <3>2 DEF Exists
  <2>5. SameModel(m) /\ SameRelay(m)
    BY <1>4 DEF InsertUserRow, SameModel, SameRelay
  <2>6. handler'[s].pc = "asked" /\ handler'[s].m = m
    BY <1>4, <2>1 DEF InsertUserRow, Handle, TypeOK, HandlerStates
  <2>7. H(m)'.pc = "asked" /\ H(m).pc = "user" /\ H(m).m = m
    BY <2>1, <2>6 DEF H
  <2>8. Handling(m)'
    BY <2>4, <2>5, <2>7, SameShown DEF Handling
  <2>9. QED
    BY <1>2, <2>4, <2>5, <2>8
<1>5. CASE SetThinking(s)
  <2>1. SamePlace(m) /\ SameMessage(m) /\ SameModel(m) /\ SameRelay(m) /\ SameUser(m)
    BY <1>5 DEF SetThinking, SamePlace, SameMessage, SameModel, SameRelay, SameUser
  <2>2. handler[s].pc = "status" /\ handler[s].m = m /\ SessionOf[m] = s
    BY <1>0, <1>5 DEF SetThinking, Handles
  <2>3. handler'[s].pc = "spawn" /\ handler'[s].m = m
    BY <1>5, <2>2 DEF SetThinking, Handle, TypeOK, HandlerStates
  <2>4. H(m)'.pc = "spawn" /\ H(m).pc = "status" /\ H(m).m = m
    BY <2>2, <2>3 DEF H
  <2>5. Handling(m)'
    BY <2>1, <2>4, SameShown DEF Handling, SameUser, SameRelay, Exists
  <2>6. QED
    BY <1>2, <2>1, <2>5
<1>6. CASE InsertThinkingRow(s)
  <2>1. handler[s].pc = "thinking" /\ handler[s].m = m /\ SessionOf[m] = s
    BY <1>0, <1>6 DEF InsertThinkingRow, Handles
  <2>2. H(m).pc = "thinking" /\ H(m).m = m
    BY <2>1 DEF H
  <2>3. ~Placed(m) /\ Exists(m, User) /\ relay[m].pc = "idle" /\ model[m].pc = "idle"
    BY <2>2 DEF Handling, Quiet
  <2>4. model[m].text = <<>> /\ chunks[m] = <<>> /\ InQueue(m) = {} /\ ~InHand(m) /\ ~Exists(m, Message)
    BY <2>3 DEF Quiet
  <2>. DEFINE r == NewRow(handler[s].position, None, TRUE)
  <2>5. row' = [row EXCEPT ![m][Thinking] = r]
    BY <1>6, <2>1 DEF InsertThinkingRow
  <2>6. r # None /\ r.text = None /\ r.mutable = TRUE /\ r.final = FALSE
    <3>1. None \in Seq(Nat) \cup {None} /\ TRUE \in BOOLEAN /\ handler[s].position \in Nat
      BY DEF TypeOK, HandlerStates
    <3>2. QED
      BY <3>1, NewRows DEF NewRow
  <2>. HIDE DEF r
  <2>7. SameUser(m) /\ SameMessage(m) /\ row'[m][Thinking] = r
    <3>1. User \in Kinds /\ Thinking \in Kinds /\ Message \in Kinds /\ Thinking # User /\ Thinking # Message
      BY KindsOK, DistinctRows
    <3>2. QED
      BY <2>5, <3>1 DEF TypeOK, SameUser, SameMessage
  <2>8. SameModel(m) /\ SameRelay(m)
    BY <1>6 DEF InsertThinkingRow, SameModel, SameRelay
  <2>9. Placed(m)' /\ Place(m)' = r /\ Exists(m, User)' /\ ~Exists(m, Message)' /\ ~Ended(m)'
    BY <2>3, <2>4, <2>6, <2>7 DEF Placed, Place, Exists, SameUser, SameMessage, Ended
  <2>10. InQueue(m)' = {} /\ ~InHand(m)' /\ relay'[m].pc = "idle" /\ model'[m].pc = "idle"
         /\ model'[m].text = <<>> /\ chunks'[m] = <<>>
    BY <1>1, <2>3, <2>4, <2>8 DEF SameUpdates, SameWriter, InQueue, InHand, SameModel, SameRelay, SameChunks
  <2>11. handler'[s].pc = "status" /\ handler'[s].m = m
    BY <1>6, <2>1 DEF InsertThinkingRow, Handle, TypeOK, HandlerStates
  <2>12. H(m)'.pc = "status"
    BY <2>1, <2>11 DEF H
  <2>13. Handling(m)'
    BY <2>9, <2>10, <2>12 DEF Handling
  <2>14. Quiet(m)'
    BY <2>6, <2>9, <2>10 DEF Quiet
  <2>15. ConclusionIsLast(m)'
    BY <2>9, <2>10 DEF ConclusionIsLast
  <2>16. Writing(m)'
    BY <2>10 DEF Writing
  <2>17. None # <<>>
    <3>1. <<>> \in Seq(Nat)
      OBVIOUS
    <3>2. QED
      BY <3>1, NoneAssumption
  <2>18. Rows(m)'
    BY <2>6, <2>9, <2>17 DEF Rows
  <2>19. Flow(m)'
    <3>1. ShownText(m) = <<>>
      BY <2>3 DEF ShownText, Placed
    <3>2. ShownText(m)' = <<>>
      BY <2>6, <2>7 DEF ShownText
    <3>3. Held(m)' = Held(m)
      BY <1>1 DEF Held, HoldsText, SameWriter, W, Update
    <3>4. TextUpdates(m)' = TextUpdates(m) /\ Queued(m)' = Queued(m)
      BY <1>1 DEF TextUpdates, Queued, SameUpdates, Q
    <3>5. TextChunks(m)' = TextChunks(m) /\ Relayed(m)' = Relayed(m)
      BY <1>1 DEF TextChunks, Relayed, SameChunks
    <3>6. QED
      BY <1>1, <2>8, <3>1, <3>2, <3>3, <3>4, <3>5 DEF Flow, SameModel, SameUpdates, SameChunks
  <2>20. EndIsLast(m)' /\ Numbered(m)'
    BY <1>1, <2>8, SameParts
  <2>21. QED
    BY <2>13, <2>14, <2>15, <2>16, <2>18, <2>19, <2>20
<1>7. CASE SpawnResponse(s)
  <2>1. handler[s].pc = "spawn" /\ handler[s].m = m /\ SessionOf[m] = s
    BY <1>0, <1>7 DEF SpawnResponse, Handles
  <2>2. H(m).pc = "spawn" /\ H(m).m = m
    BY <2>1 DEF H
  <2>3. Placed(m) /\ Exists(m, User) /\ relay[m].pc = "idle" /\ model[m].pc = "idle"
    BY <2>2 DEF Handling, Quiet
  <2>4. model[m].text = <<>> /\ chunks[m] = <<>> /\ InQueue(m) = {} /\ ~InHand(m)
        /\ ~Exists(m, Message) /\ Place(m).text = None /\ ~Place(m).final
    BY <2>3 DEF Quiet
  <2>5. SamePlace(m) /\ SameUser(m) /\ SameMessage(m)
    BY <1>7 DEF SpawnResponse, SamePlace, SameUser, SameMessage
  <2>6. H(m)'.m # m
    BY <1>7, <2>1, NoneAssumption DEF SpawnResponse, TypeOK, H
  <2>7. Handling(m)'
    BY <2>3, <2>5, <2>6, SameShown DEF Handling, SameUser, Exists
  <2>8. CASE UNCHANGED <<model, relay>>
    BY <1>2, <2>5, <2>7, <2>8 DEF SameModel, SameRelay
  <2>9. CASE ~UNCHANGED <<model, relay>>
    <3>1. /\ model'[m].pc = "streaming" /\ model'[m].text = <<>>
          /\ relay'[m].pc = "recv"
      BY <1>7, <2>1, <2>4, <2>9 DEF SpawnResponse, TypeOK, ModelStates, RelayStates
    <3>2. Placed(m)' /\ Place(m)' = Place(m) /\ ~Exists(m, Message)' /\ Ended(m)' = Ended(m)
          /\ ShownText(m)' = ShownText(m)
      BY <2>3, <2>4, <2>5, SameShown DEF SameMessage, Exists
    <3>3. InQueue(m)' = {} /\ ~InHand(m)' /\ chunks'[m] = <<>>
      BY <1>1, <2>4 DEF SameUpdates, SameWriter, InQueue, InHand, SameChunks
    <3>4. Quiet(m)'
      BY <3>1, <3>2 DEF Quiet
    <3>5. EndIsLast(m)'
      BY <3>1, <3>3 DEF EndIsLast
    <3>6. ConclusionIsLast(m)'
      BY <2>4, <3>2, <3>3 DEF ConclusionIsLast, Open
    <3>7. Writing(m)'
      BY <3>3 DEF Writing
    <3>8. Rows(m)'
      BY <2>3, <2>4, <3>2, <3>3 DEF Rows
    <3>9. Numbered(m)'
      BY <3>1 DEF Numbered
    <3>10. Flow(m)'
      <4>1. Held(m)' = Held(m)
        BY <1>1 DEF Held, HoldsText, SameWriter, W, Update
      <4>2. TextUpdates(m)' = TextUpdates(m) /\ Queued(m)' = Queued(m)
        BY <1>1 DEF TextUpdates, Queued, SameUpdates, Q
      <4>3. TextChunks(m)' = TextChunks(m) /\ Relayed(m)' = Relayed(m)
        BY <1>1 DEF TextChunks, Relayed, SameChunks
      <4>4. QED
        BY <1>1, <2>4, <3>1, <3>2, <4>1, <4>2, <4>3 DEF Flow, SameUpdates, SameChunks
    <3>11. QED
      BY <2>7, <3>4, <3>5, <3>6, <3>7, <3>8, <3>9, <3>10
  <2>10. QED
    BY <2>8, <2>9
<1>8. QED
  BY <1>3, <1>4, <1>5, <1>6, <1>7 DEF HandlerStep

-----------------------------------------------------------------------------
(* The steps of the task that talks to the model                           *)

\* A step of the model task touches no other mention.
LEMMA ModelFrame ==
  ASSUME TypeOK, NEW k \in Mentions, ModelStep(k), NEW m \in Mentions, m # k
  PROVE  Untouched(m)
<1>1. row' = row /\ handler' = handler /\ relay' = relay /\ updates' = updates /\ writer' = writer
  BY DEF ModelStep, SayText, CallTool, ToolReturns, EndStream, RefuseStream
<1>2. model'[m] = model[m] /\ chunks'[m] = chunks[m]
  BY DEF ModelStep, SayText, CallTool, ToolReturns, EndStream, RefuseStream, Send, TypeOK
<1>3. QED
  BY <1>1, <1>2 DEF Untouched, H, W, Q

\* A chunk that is sent is the last; the one text sends is the piece said.
LEMMA Sent ==
  ASSUME TypeOK, NEW m \in Mentions, MentionOK(m),
         NEW kind \in {"text", "call", "result", "done", "error"}, NEW n \in Nat, Send(m, kind, n)
  PROVE  /\ model[m].pc = "streaming"
         /\ DOMAIN chunks'[m] = 1..(Len(chunks[m]) + 1) /\ Len(chunks[m]) \in Nat
         /\ Len(chunks'[m]) = Len(chunks[m]) + 1
         /\ \A i \in 1..Len(chunks[m]) :
              chunks'[m][i] = chunks[m][i] /\ chunks[m][i].kind \notin {"done", "error"}
         /\ chunks'[m][Len(chunks[m]) + 1].kind = kind /\ chunks'[m][Len(chunks[m]) + 1].n = n
         /\ kind # "text" => TextChunks(m)' = TextChunks(m) /\ Relayed(m)' = Relayed(m)
         /\ kind = "text" => /\ TextChunks(m)' = TextChunks(m) \cup {Len(chunks[m]) + 1}
                             /\ Relayed(m)' = Relayed(m) \cup {n}
<1>. DEFINE c == [kind |-> kind, n |-> n]
            l == Len(chunks[m])
<1>1. c \in Chunks /\ c.kind = kind /\ c.n = n
  BY DEF Chunks
<1>2. chunks[m] \in Seq(Chunks) /\ l \in Nat
  BY DEF TypeOK
<1>3. chunks'[m] = Append(chunks[m], c) /\ model[m].pc = "streaming"
  BY DEF Send, TypeOK
<1>. HIDE DEF c
<1>4. /\ DOMAIN chunks'[m] = 1..(l + 1) /\ Len(chunks'[m]) = l + 1
      /\ \A i \in 1..l : chunks'[m][i] = chunks[m][i]
      /\ chunks'[m][l + 1] = c
  BY <1>1, <1>2, <1>3
<1>5. DOMAIN chunks[m] = 1..l
  BY <1>2
<1>6. \A i \in 1..l : chunks[m][i].kind \notin {"done", "error"}
  BY <1>3, <1>5 DEF MentionOK, EndIsLast
<1>. HIDE DEF l
<1>7. TextChunks(m) = {i \in 1..l : chunks[m][i].kind = "text"}
  BY <1>5 DEF TextChunks
<1>8. TextChunks(m)' = {i \in 1..(l + 1) : chunks'[m][i].kind = "text"}
  BY <1>4 DEF TextChunks
<1>9. kind # "text" => TextChunks(m)' = TextChunks(m)
  BY <1>1, <1>2, <1>4, <1>7, <1>8
<1>10. kind = "text" => TextChunks(m)' = TextChunks(m) \cup {l + 1}
  BY <1>1, <1>2, <1>4, <1>7, <1>8
<1>11. Relayed(m) = {chunks[m][i].n : i \in TextChunks(m)}
  BY DEF Relayed
<1>12. Relayed(m)' = {chunks'[m][i].n : i \in TextChunks(m)'}
  BY DEF Relayed
<1>13. \A i \in TextChunks(m) : chunks'[m][i] = chunks[m][i]
  BY <1>4, <1>7
<1>14. kind # "text" => Relayed(m)' = Relayed(m)
  BY <1>9, <1>11, <1>12, <1>13
<1>15. kind = "text" => Relayed(m)' = Relayed(m) \cup {n}
  BY <1>1, <1>4, <1>10, <1>11, <1>12, <1>13
<1>16. QED
  BY <1>1, <1>2, <1>3, <1>4, <1>6, <1>9, <1>10, <1>14, <1>15 DEF l

\* The pieces on their way are pieces that were said and are not shown.
LEMMA OnTheWay ==
  ASSUME TypeOK, NEW m \in Mentions, MentionOK(m)
  PROVE  /\ Len(ShownText(m)) \in Nat /\ Len(model[m].text) \in Nat
         /\ \A x \in Held(m) \cup Queued(m) \cup Relayed(m) :
              x \in Nat /\ x > Len(ShownText(m)) /\ x <= Len(model[m].text)
<1>1. Len(ShownText(m)) \in Nat
  <2>1. Place(m) \in Row \cup {None}
    BY ViewTypes
  <2>. DEFINE t == IF Exists(m, Thinking) /\ row[m][Thinking].text # None
                   THEN row[m][Thinking].text ELSE <<>>
  <2>2. t \in Seq(Nat)
    <3>1. CASE Exists(m, Thinking) /\ row[m][Thinking].text # None
      BY <2>1, <3>1 DEF Exists, Place, Row
    <3>2. CASE ~(Exists(m, Thinking) /\ row[m][Thinking].text # None)
      BY <3>2
    <3>3. QED
      BY <3>1, <3>2
  <2>3. ShownText(m) = IF t # <<>> /\ t[Len(t)] = Error THEN SubSeq(t, 1, Len(t) - 1) ELSE t
    BY DEF ShownText
  <2>. HIDE DEF t
  <2>4. t # <<>> => SubSeq(t, 1, Len(t) - 1) \in Seq(Nat)
    BY <2>2
  <2>5. QED
    BY <2>2, <2>3, <2>4
<1>2. Len(model[m].text) \in Nat
  BY DEF TypeOK, ModelStates
<1>3. Held(m) \cup Queued(m) \cup Relayed(m) = (Len(ShownText(m)) + 1)..Len(model[m].text)
  BY DEF MentionOK, Flow
<1>4. QED
  BY <1>1, <1>2, <1>3

\* A step of the model task keeps the invariant of its mention.
LEMMA ModelKeeps ==
  ASSUME TypeOK, NEW m \in Mentions, ModelStep(m), MentionOK(m)
  PROVE  MentionOK(m)'
<1>. USE DEF MentionOK
<1>1. SamePlace(m) /\ SameMessage(m) /\ SameUser(m) /\ SameRelay(m) /\ SameHandler(m)
      /\ SameWriter(m) /\ SameUpdates(m)
  BY DEF ModelStep, SayText, CallTool, ToolReturns, EndStream, RefuseStream, SamePlace,
         SameMessage, SameUser, SameRelay, SameHandler, SameWriter, SameUpdates, W, H, Q
<1>2. Handling(m)' /\ ConclusionIsLast(m)' /\ Writing(m)' /\ Rows(m)'
  BY <1>1, SameParts
<1>3. model[m].pc = "streaming"
  BY DEF ModelStep, SayText, CallTool, ToolReturns, EndStream, RefuseStream, Send
<1>4. relay[m].pc # "idle" /\ relay'[m] = relay[m] /\ relay[m].pc \notin {"join", "done"} /\ Placed(m)
  BY <1>1, <1>3 DEF Quiet, EndIsLast, SameRelay
<1>5. model'[m].pc # "idle" => Quiet(m)'
  BY <1>1, <1>4, SameShown DEF Quiet
<1>6. ShownText(m)' = ShownText(m) /\ Held(m)' = Held(m) /\ Queued(m)' = Queued(m)
      /\ TextUpdates(m)' = TextUpdates(m) /\ Q(m)' = Q(m)
  <2>1. Held(m)' = Held(m)
    BY <1>1 DEF Held, HoldsText, SameWriter, W, Update
  <2>2. TextUpdates(m)' = TextUpdates(m) /\ Queued(m)' = Queued(m)
    BY <1>1 DEF TextUpdates, Queued, SameUpdates, Q
  <2>3. QED
    BY <1>1, <2>1, <2>2, SameShown DEF SameUpdates
<1>7. model[m] \in ModelStates /\ model[m].text \in Seq(Nat)
  BY DEF TypeOK, ModelStates
<1>8. ASSUME NEW kind \in {"call", "result", "done", "error"}, NEW n \in Nat, Send(m, kind, n),
             model'[m].text = model[m].text,
             kind \in {"call", "result"} => model'[m].pc = "streaming",
             kind \in {"done", "error"} => model'[m].pc = "returned"
      PROVE  MentionOK(m)'
  <2>1. Quiet(m)'
    BY <1>5, <1>8
  <2>2. EndIsLast(m)'
    <3>1. \A i \in DOMAIN chunks'[m] : chunks'[m][i].kind \in {"done", "error"} =>
             i = Len(chunks'[m]) /\ model'[m].pc = "returned"
      <4>1. /\ DOMAIN chunks'[m] = 1..(Len(chunks[m]) + 1) /\ Len(chunks[m]) \in Nat
            /\ Len(chunks'[m]) = Len(chunks[m]) + 1
            /\ \A i \in 1..Len(chunks[m]) :
                 chunks'[m][i] = chunks[m][i] /\ chunks[m][i].kind \notin {"done", "error"}
            /\ chunks'[m][Len(chunks[m]) + 1].kind = kind
        BY <1>8, Sent
      <4>2. QED
        BY <1>8, <4>1
    <3>2. QED
      BY <1>4, <3>1 DEF EndIsLast
  <2>3. Numbered(m)'
    BY <1>8 DEF Numbered
  <2>4. TextChunks(m)' = TextChunks(m) /\ Relayed(m)' = Relayed(m)
    BY <1>8, Sent
  <2>5. \A i \in TextChunks(m) : chunks'[m][i] = chunks[m][i]
    <3>1. TextChunks(m) \subseteq 1..Len(chunks[m])
      BY DEF TextChunks, TypeOK
    <3>2. QED
      BY <1>8, <3>1, Sent
  <2>6. Flow(m)'
    BY <1>6, <1>8, <2>4, <2>5 DEF Flow
  <2>7. QED
    BY <1>2, <2>1, <2>2, <2>3, <2>6
<1>9. CASE SayText(m)
  <2>. DEFINE n == Len(model[m].text) + 1
  <2>1. n \in Nat /\ Send(m, "text", n) /\ model'[m].pc = "streaming"
        /\ model'[m].text = Append(model[m].text, n)
    BY <1>3, <1>7, <1>9 DEF SayText, TypeOK, ModelStates
  <2>2. Quiet(m)'
    BY <1>5, <2>1
  <2>3. EndIsLast(m)'
    <3>1. \A i \in DOMAIN chunks'[m] : chunks'[m][i].kind \notin {"done", "error"}
      <4>1. /\ DOMAIN chunks'[m] = 1..(Len(chunks[m]) + 1) /\ Len(chunks[m]) \in Nat
            /\ \A i \in 1..Len(chunks[m]) :
                 chunks'[m][i] = chunks[m][i] /\ chunks[m][i].kind \notin {"done", "error"}
            /\ chunks'[m][Len(chunks[m]) + 1].kind = "text"
        BY <2>1, Sent
      <4>2. QED
        BY <4>1
    <3>2. QED
      BY <1>4, <3>1 DEF EndIsLast
  <2>4. Numbered(m)'
    BY <1>7, <2>1 DEF Numbered
  <2>5. TextChunks(m)' = TextChunks(m) \cup {Len(chunks[m]) + 1} /\ Relayed(m)' = Relayed(m) \cup {n}
    BY <2>1, Sent
  <2>6. TextChunks(m) \subseteq 1..Len(chunks[m]) /\ Len(chunks[m]) \in Nat
    BY DEF TextChunks, TypeOK
  <2>7. \A i \in TextChunks(m) : chunks'[m][i] = chunks[m][i]
    BY <2>1, <2>6, Sent
  <2>8. chunks'[m][Len(chunks[m]) + 1].n = n
    BY <2>1, Sent
  <2>9. Len(model'[m].text) = n /\ n = Len(model[m].text) + 1 /\ Len(model[m].text) \in Nat
    BY <1>7, <2>1
  <2>. HIDE DEF n
  <2>10. \A x \in Held(m) \cup Queued(m) \cup Relayed(m) : x \in Nat /\ x < n
    BY <2>9, OnTheWay
  <2>11. Flow(m)'
    <3>. DEFINE there == Len(ShownText(m))
    <3>0. there \in Nat /\ Flow(m)
      BY OnTheWay
    <3>1. there <= Len(model'[m].text)
      BY <2>9, <3>0 DEF Flow
    <3>2. Held(m) \cup Queued(m) \cup Relayed(m)' = (there + 1)..Len(model'[m].text)
      <4>1. Held(m) \cup Queued(m) \cup Relayed(m) = (there + 1)..Len(model[m].text)
              /\ there <= Len(model[m].text)
        BY <3>0 DEF Flow
      <4>. HIDE DEF there
      <4>2. (there + 1)..Len(model'[m].text) = ((there + 1)..Len(model[m].text)) \cup {n}
        BY <2>9, <3>0, <4>1
      <4>3. QED
        BY <2>5, <4>1, <4>2
    <3>3. /\ \A x \in Held(m), y \in Queued(m) \cup Relayed(m)' : x < y
          /\ \A x \in Queued(m), y \in Relayed(m)' : x < y
      BY <2>5, <2>10, <3>0 DEF Flow
    <3>4. \A i, j \in TextChunks(m)' : i < j => chunks'[m][i].n < chunks'[m][j].n
      <4>1. SUFFICES ASSUME NEW i \in TextChunks(m)', NEW j \in TextChunks(m)', i < j
                     PROVE  chunks'[m][i].n < chunks'[m][j].n
        OBVIOUS
      <4>2. i \in TextChunks(m)
        BY <2>5, <2>6, <4>1
      <4>3. CASE j \in TextChunks(m)
        BY <2>7, <3>0, <4>1, <4>2, <4>3 DEF Flow
      <4>4. CASE j = Len(chunks[m]) + 1
        <5>1. chunks[m][i].n \in Relayed(m)
          BY <4>2 DEF Relayed
        <5>2. QED
          BY <2>7, <2>8, <2>10, <4>2, <4>4, <5>1
      <4>5. QED
        BY <2>5, <4>3, <4>4
    <3>5. /\ \A i \in 1..there : ShownText(m)[i] = i
          /\ \A i, j \in TextUpdates(m) : i < j => Q(m)[i].n < Q(m)[j].n
      BY <3>0 DEF Flow
    <3>6. QED
      BY <1>6, <3>1, <3>2, <3>3, <3>4, <3>5 DEF Flow
  <2>12. QED
    BY <1>2, <2>2, <2>3, <2>4, <2>11
<1>10. CASE CallTool(m)
  <2>1. model[m].calls + 1 \in Nat /\ model'[m].text = model[m].text /\ model'[m].pc = "streaming"
    BY <1>3, <1>7, <1>10 DEF CallTool, TypeOK, ModelStates
  <2>2. QED
    BY <1>8, <1>10, <2>1 DEF CallTool
<1>11. CASE ToolReturns(m)
  <2>1. model[m].results + 1 \in Nat /\ model'[m].text = model[m].text /\ model'[m].pc = "streaming"
    BY <1>3, <1>7, <1>11 DEF ToolReturns, TypeOK, ModelStates
  <2>2. QED
    BY <1>8, <1>11, <2>1 DEF ToolReturns
<1>12. CASE EndStream(m)
  <2>1. PICK end \in {"done", "error"} : Send(m, end, 0) /\ model' = [model EXCEPT ![m].pc = AfterEnd(m, end)]
    BY <1>12 DEF EndStream
  <2>2. model'[m].pc = "returned" /\ model'[m].text = model[m].text
    BY <1>7, <2>1 DEF TypeOK, ModelStates, AfterEnd
  <2>3. QED
    BY <1>8, <2>1, <2>2
<1>13. CASE RefuseStream(m)
  <2>1. model'[m].pc = "returned" /\ model'[m].text = model[m].text /\ SameChunks(m)
    BY <1>7, <1>13 DEF RefuseStream, TypeOK, ModelStates, SameChunks
  <2>2. Quiet(m)'
    BY <1>5, <2>1
  <2>3. EndIsLast(m)'
    BY <1>4, <1>13, <2>1 DEF EndIsLast, SameChunks, RefuseStream
  <2>4. Numbered(m)'
    BY <2>1 DEF Numbered
  <2>5. TextChunks(m)' = TextChunks(m) /\ Relayed(m)' = Relayed(m)
    BY <2>1 DEF TextChunks, Relayed, SameChunks
  <2>6. Flow(m)'
    BY <1>6, <2>1, <2>5 DEF Flow, SameChunks
  <2>7. QED
    BY <1>2, <2>2, <2>3, <2>4, <2>6
<1>14. QED
  BY <1>9, <1>10, <1>11, <1>12, <1>13 DEF ModelStep

-----------------------------------------------------------------------------
(* The steps of the relay task                                             *)

\* An update that is pushed is the last of its session's.
LEMMA Pushed ==
  ASSUME TypeOK, NEW m \in Mentions, NEW kind \in UpdateKinds, NEW n \in Nat, PushUpdate(m, kind, n)
  PROVE  /\ Q(m)' = Append(Q(m), [kind |-> kind, m |-> m, n |-> n])
         /\ \A s \in Sessions : s # SessionOf[m] => updates'[s] = updates[s]
         /\ [kind |-> kind, m |-> m, n |-> n] \in Updates
         /\ Len(Q(m)) \in Nat /\ DOMAIN Q(m) = 1..Len(Q(m)) /\ DOMAIN Q(m)' = 1..(Len(Q(m)) + 1)
         /\ \A i \in 1..Len(Q(m)) : Q(m)'[i] = Q(m)[i]
         /\ \A i \in InQueue(m) : i \in Nat /\ i < Len(Q(m)) + 1 /\ Q(m)'[i] = Q(m)[i]
         /\ Q(m)'[Len(Q(m)) + 1].kind = kind /\ Q(m)'[Len(Q(m)) + 1].n = n
         /\ InQueue(m) \subseteq 1..Len(Q(m)) /\ InQueue(m)' = InQueue(m) \cup {Len(Q(m)) + 1}
<1>. DEFINE u == [kind |-> kind, m |-> m, n |-> n]
            l == Len(Q(m))
<1>0. Q(m) \in Seq(Updates) /\ SessionOf[m] \in Sessions
  BY ViewTypes
<1>1. u \in Updates /\ u.kind = kind /\ u.n = n /\ u.m = m
  BY DEF Updates
<1>2. Q(m)' = Append(Q(m), u)
  BY <1>0 DEF PushUpdate, TypeOK, Q
<1>3. \A s \in Sessions : s # SessionOf[m] => updates'[s] = updates[s]
  BY DEF PushUpdate, TypeOK
<1>. HIDE DEF u
<1>4. /\ l \in Nat /\ DOMAIN Q(m) = 1..l
      /\ DOMAIN Append(Q(m), u) = 1..(l + 1)
      /\ \A i \in 1..l : Append(Q(m), u)[i] = Q(m)[i]
      /\ Append(Q(m), u)[l + 1] = u
  BY <1>0, <1>1
<1>. HIDE DEF l
<1>5. InQueue(m) = {i \in 1..l : Q(m)[i].m = m}
  BY <1>4 DEF InQueue
<1>6. InQueue(m)' = {i \in 1..(l + 1) : Append(Q(m), u)[i].m = m}
  BY <1>2, <1>4 DEF InQueue
<1>7. InQueue(m)' = InQueue(m) \cup {l + 1}
  BY <1>1, <1>4, <1>5, <1>6
<1>8. \A i \in InQueue(m) : i \in Nat /\ i < l + 1 /\ Q(m)'[i] = Q(m)[i]
  BY <1>2, <1>4, <1>5
<1>9. QED
  BY <1>1, <1>2, <1>3, <1>4, <1>5, <1>7, <1>8 DEF u, l

\* A step of the relay touches no other mention, whatever it puts in the queue they share.
LEMMA RelayFrame ==
  ASSUME TypeOK, NEW k \in Mentions, RelayStep(k), NEW m \in Mentions, m # k
  PROVE  Untouched(m)
<1>1. row' = row /\ handler' = handler /\ model' = model /\ writer' = writer
  BY DEF RelayStep, RelayChunk, RelayEnds, RelayConcludes
<1>2. chunks'[m] = chunks[m] /\ relay'[m] = relay[m]
  BY DEF RelayStep, RelayChunk, RelayEnds, RelayConcludes, Concludes, TypeOK
<1>3. Q(m)' = Q(m) \/ \E u \in Updates : u.m # m /\ Q(m)' = Append(Q(m), u)
  <2>1. ASSUME NEW kind \in UpdateKinds, NEW n \in Nat, PushUpdate(k, kind, n)
        PROVE  Q(m)' = Q(m) \/ \E u \in Updates : u.m # m /\ Q(m)' = Append(Q(m), u)
    <3>1. CASE SessionOf[m] # SessionOf[k]
      <4>1. updates'[SessionOf[m]] = updates[SessionOf[m]]
        <5>1. PICK s \in Sessions, t \in Sessions : s = SessionOf[m] /\ t = SessionOf[k] /\ s # t
          BY <3>1, SessionAssumption
        <5>2. updates \in [Sessions -> Seq(Updates)]
          BY DEF TypeOK
        <5>3. PICK q : updates' = [updates EXCEPT ![t] = q]
          BY <2>1, <5>1 DEF PushUpdate
        <5>4. updates'[s] = updates[s]
          BY <5>1, <5>2, <5>3
        <5>5. QED
          BY <5>1, <5>4
      <4>2. QED
        BY <4>1 DEF Q
    <3>2. CASE SessionOf[m] = SessionOf[k]
      <4>. DEFINE u == [kind |-> kind, m |-> k, n |-> n]
      <4>1. u \in Updates /\ u.m # m /\ Q(k)' = Append(Q(k), u)
        BY <2>1, Pushed
      <4>2. Q(m)' = Append(Q(m), u)
        BY <3>2, <4>1 DEF Q
      <4>3. QED
        BY <4>1, <4>2
    <3>3. QED
      BY <3>1, <3>2
  <2>2. CASE RelayChunk(k)
    <3>1. PICK c : c = Head(chunks[k])
      OBVIOUS
    <3>2. c \in Chunks /\ c.kind \in {"text", "call", "result"} /\ PushUpdate(k, c.kind, c.n)
      BY <2>2, <3>1 DEF RelayChunk, TypeOK
    <3>3. c.kind \in UpdateKinds /\ c.n \in Nat
      BY <3>2 DEF Chunks, UpdateKinds
    <3>4. QED
      BY <2>1, <3>2, <3>3
  <2>3. CASE RelayEnds(k)
    BY <2>3 DEF RelayEnds, Q
  <2>4. CASE RelayConcludes(k)
    <3>1. PICK kind \in UpdateKinds : PushUpdate(k, kind, 0)
      BY <2>4 DEF RelayConcludes, Concludes, UpdateKinds
    <3>2. QED
      BY <2>1, <3>1
  <2>5. QED
    BY <2>2, <2>3, <2>4 DEF RelayStep
<1>4. QED
  BY <1>1, <1>2, <1>3 DEF Untouched, H, W

\* A step of the relay keeps the invariant of its mention.
LEMMA RelayKeeps ==
  ASSUME TypeOK, NEW m \in Mentions, RelayStep(m), MentionOK(m)
  PROVE  MentionOK(m)'
<1>. USE DEF MentionOK
<1>1. SamePlace(m) /\ SameMessage(m) /\ SameUser(m) /\ SameModel(m) /\ SameHandler(m) /\ SameWriter(m)
  BY DEF RelayStep, RelayChunk, RelayEnds, RelayConcludes, SamePlace, SameMessage, SameUser,
         SameModel, SameHandler, SameWriter, W, H
<1>2. Writing(m)' /\ Numbered(m)'
  BY <1>1, SameParts
<1>3. relay[m].pc \in {"recv", "join"} /\ relay'[m].pc \in {"recv", "join", "done"}
  BY DEF RelayStep, RelayChunk, RelayEnds, RelayConcludes, Concludes, TypeOK, RelayStates
<1>4. relay[m].pc # "idle" /\ model[m].pc # "idle" /\ Placed(m) /\ Open(m)
  BY <1>3 DEF Quiet, ConclusionIsLast
<1>5. /\ Placed(m)' = Placed(m) /\ Place(m)' = Place(m) /\ Ended(m)' = Ended(m)
      /\ ShownText(m)' = ShownText(m) /\ Exists(m, Message)' = Exists(m, Message)
      /\ Exists(m, User)' = Exists(m, User) /\ Open(m)' /\ InHand(m)' = InHand(m)
  BY <1>1, <1>4, SameShown DEF SameMessage, SameUser, Exists, Open, SameWriter, InHand
<1>6. Handling(m)'
  BY <1>1, <1>3, <1>4, <1>5 DEF Handling, SameHandler
<1>7. Quiet(m)'
  BY <1>1, <1>3, <1>4, <1>5 DEF Quiet, SameModel
<1>8. ~(InHand(m) /\ W(m).update.kind \in Ends) /\ \A i \in InQueue(m) : Q(m)[i].kind \notin Ends
  BY <1>3 DEF ConclusionIsLast
<1>9. Rows(m)'
  BY <1>1, <1>4, <1>5 DEF Rows, Open, SameWriter
<1>10. Held(m)' = Held(m)
  BY <1>1 DEF Held, HoldsText, SameWriter, W, Update
<1>11. chunks[m] \in Seq(Chunks) /\ Q(m) \in Seq(Updates)
  BY ViewTypes
<1>12. TextUpdates(m) = {i \in InQueue(m) : Q(m)[i].kind = "text"}
  BY DEF TextUpdates, InQueue, Q
<1>13. TextUpdates(m)' = {i \in InQueue(m)' : Q(m)'[i].kind = "text"}
  BY DEF TextUpdates, InQueue, Q
<1>14. Queued(m) = {Q(m)[i].n : i \in TextUpdates(m)}
  BY DEF Queued, Q
<1>15. Queued(m)' = {Q(m)'[i].n : i \in TextUpdates(m)'}
  BY DEF Queued, Q
<1>16. Relayed(m) = {chunks[m][i].n : i \in TextChunks(m)}
  BY DEF Relayed
<1>17. Relayed(m)' = {chunks'[m][i].n : i \in TextChunks(m)'}
  BY DEF Relayed
<1>18. ASSUME NEW kind \in UpdateKinds, NEW n \in Nat, PushUpdate(m, kind, n), kind # "text"
       PROVE  /\ TextUpdates(m)' = TextUpdates(m) /\ Queued(m)' = Queued(m)
              /\ \A i \in TextUpdates(m) : Q(m)'[i] = Q(m)[i]
  <2>1. /\ \A i \in InQueue(m) : Q(m)'[i] = Q(m)[i]
        /\ InQueue(m)' = InQueue(m) \cup {Len(Q(m)) + 1} /\ Q(m)'[Len(Q(m)) + 1].kind = kind
    BY <1>18, Pushed
  <2>2. TextUpdates(m)' = TextUpdates(m) /\ \A i \in TextUpdates(m) : Q(m)'[i] = Q(m)[i]
    BY <1>12, <1>13, <1>18, <2>1
  <2>3. QED
    BY <1>14, <1>15, <2>2
<1>19. ASSUME chunks[m] # <<>>, chunks' = [chunks EXCEPT ![m] = Tail(@)]
       PROVE  /\ chunks'[m] = Tail(chunks[m]) /\ Head(chunks[m]) = chunks[m][1] /\ 1 \in DOMAIN chunks[m]
              /\ Head(chunks[m]) \in Chunks
              /\ Len(chunks[m]) \in Nat \ {0} /\ Len(chunks'[m]) = Len(chunks[m]) - 1
              /\ DOMAIN chunks[m] = 1..Len(chunks[m]) /\ DOMAIN chunks'[m] = 1..(Len(chunks[m]) - 1)
              /\ \A i \in DOMAIN chunks'[m] : i + 1 \in DOMAIN chunks[m] /\ chunks'[m][i] = chunks[m][i + 1]
  <2>1. chunks'[m] = Tail(chunks[m])
    BY <1>19 DEF TypeOK
  <2>2. PICK q \in Seq(Chunks) : q = chunks[m]
    BY <1>11
  <2>3. /\ Head(q) = q[1] /\ 1 \in DOMAIN q /\ Head(q) \in Chunks /\ Len(q) \in Nat \ {0}
        /\ Len(Tail(q)) = Len(q) - 1 /\ DOMAIN q = 1..Len(q) /\ DOMAIN Tail(q) = 1..(Len(q) - 1)
    BY <1>19, <2>2
  <2>4. \A i \in 1..(Len(q) - 1) : i + 1 \in 1..Len(q) /\ Tail(q)[i] = q[i + 1]
    BY <1>19, <2>2
  <2>5. QED
    BY <2>1, <2>2, <2>3, <2>4
<1>20. CASE RelayChunk(m)
  <2>1. PICK c : c = Head(chunks[m])
    OBVIOUS
  <2>2. chunks[m] # <<>> /\ chunks' = [chunks EXCEPT ![m] = Tail(@)]
        /\ c.kind \in {"text", "call", "result"} /\ PushUpdate(m, c.kind, c.n) /\ relay'[m].pc = "recv"
    BY <1>20, <2>1 DEF RelayChunk
  <2>3. c \in Chunks /\ c = chunks[m][1] /\ c.n \in Nat /\ c.kind \in UpdateKinds /\ c.kind \notin Ends
    BY <1>19, <2>1, <2>2 DEF Chunks, UpdateKinds, Ends
  <2>4. PICK kind, n : kind = c.kind /\ n = c.n
    OBVIOUS
  <2>5. kind \in UpdateKinds /\ n \in Nat /\ PushUpdate(m, kind, n)
    BY <2>2, <2>3, <2>4
  <2>6. /\ \A i \in InQueue(m) : i \in Nat /\ i < Len(Q(m)) + 1 /\ Q(m)'[i] = Q(m)[i]
        /\ InQueue(m)' = InQueue(m) \cup {Len(Q(m)) + 1}
        /\ Q(m)'[Len(Q(m)) + 1].kind = c.kind /\ Q(m)'[Len(Q(m)) + 1].n = c.n
        /\ Len(Q(m)) \in Nat
    <3>1. /\ \A i \in InQueue(m) : i \in Nat /\ i < Len(Q(m)) + 1 /\ Q(m)'[i] = Q(m)[i]
          /\ InQueue(m)' = InQueue(m) \cup {Len(Q(m)) + 1}
          /\ Q(m)'[Len(Q(m)) + 1].kind = kind /\ Q(m)'[Len(Q(m)) + 1].n = n
          /\ Len(Q(m)) \in Nat
      BY <2>5, Pushed
    <3>2. QED
      BY <2>4, <3>1
  <2>7. EndIsLast(m)'
    <3>1. \A i \in DOMAIN chunks'[m] :
             chunks'[m][i].kind \in {"done", "error"} => i + 1 = Len(chunks[m]) /\ model[m].pc = "returned"
      BY <1>19, <2>2 DEF EndIsLast
    <3>2. \A i \in DOMAIN chunks'[m] :
             chunks'[m][i].kind \in {"done", "error"} => i = Len(chunks'[m]) /\ model'[m].pc = "returned"
      BY <1>1, <1>19, <2>2, <3>1 DEF SameModel
    <3>3. QED
      BY <2>2, <3>2 DEF EndIsLast
  <2>8. ConclusionIsLast(m)'
    <3>1. \A i \in InQueue(m)' : Q(m)'[i].kind \notin Ends
      <4>1. \A i \in InQueue(m) : Q(m)'[i].kind \notin Ends
        BY <1>8, <2>6
      <4>2. Q(m)'[Len(Q(m)) + 1].kind \notin Ends
        BY <2>3, <2>6
      <4>3. QED
        BY <2>6, <4>1, <4>2
    <3>2. QED
      BY <1>1, <1>5, <1>8, <3>1 DEF ConclusionIsLast, SameWriter
  <2>9. Flow(m)'
    <3>. DEFINE there == Len(ShownText(m))
    <3>0. Flow(m) /\ there \in Nat
      BY OnTheWay
    <3>1. \A i \in TextChunks(m)' : i + 1 \in TextChunks(m) /\ chunks'[m][i] = chunks[m][i + 1] /\ i \in Nat \ {0}
      BY <1>19, <2>2 DEF TextChunks
    <3>2. \A i \in TextChunks(m) : i = 1 \/ i - 1 \in TextChunks(m)'
      BY <1>19, <2>2 DEF TextChunks
    <3>3. \A i, j \in TextChunks(m)' : i < j => chunks'[m][i].n < chunks'[m][j].n
      <4>1. SUFFICES ASSUME NEW i \in TextChunks(m)', NEW j \in TextChunks(m)', i < j
                     PROVE  chunks'[m][i].n < chunks'[m][j].n
        OBVIOUS
      <4>2. i + 1 \in TextChunks(m) /\ j + 1 \in TextChunks(m) /\ i + 1 < j + 1
        BY <3>1, <4>1
      <4>3. QED
        BY <3>0, <3>1, <4>2 DEF Flow
    <3>4. CASE c.kind # "text"
      <4>1. 1 \notin TextChunks(m)
        BY <2>3, <3>4 DEF TextChunks
      <4>2. Relayed(m)' = Relayed(m)
        <5>1. \A i \in TextChunks(m) : i - 1 \in TextChunks(m)' /\ chunks'[m][i - 1] = chunks[m][i]
          BY <3>1, <3>2, <4>1, <1>19, <2>2 DEF TextChunks
        <5>2. QED
          BY <1>16, <1>17, <3>1, <5>1
      <4>3. /\ TextUpdates(m)' = TextUpdates(m) /\ Queued(m)' = Queued(m)
            /\ \A i \in TextUpdates(m) : Q(m)'[i] = Q(m)[i]
        BY <1>18, <2>2, <2>3, <3>4
      <4>4. QED
        BY <1>1, <1>5, <1>10, <3>0, <3>3, <4>2, <4>3 DEF Flow, SameModel
    <3>5. CASE c.kind = "text"
      <4>1. 1 \in TextChunks(m) /\ c.n \in Relayed(m)
        BY <1>16, <1>19, <2>2, <2>3, <3>5 DEF TextChunks
      <4>2. \A i \in TextChunks(m)' : chunks'[m][i].n \in Relayed(m) /\ c.n < chunks'[m][i].n
        <5>1. SUFFICES ASSUME NEW i \in TextChunks(m)'
                       PROVE  chunks'[m][i].n \in Relayed(m) /\ c.n < chunks'[m][i].n
          OBVIOUS
        <5>2. i + 1 \in TextChunks(m) /\ 1 < i + 1
          BY <3>1
        <5>3. QED
          BY <1>16, <2>3, <3>0, <3>1, <4>1, <5>2 DEF Flow
      <4>3. Relayed(m) = Relayed(m)' \cup {c.n}
        <5>1. \A i \in TextChunks(m) : i = 1 \/ (i - 1 \in TextChunks(m)' /\ chunks'[m][i - 1] = chunks[m][i])
          BY <3>1, <3>2, <1>19, <2>2 DEF TextChunks
        <5>2. \A x \in Relayed(m) : x = c.n \/ x \in Relayed(m)'
          BY <1>16, <1>17, <2>3, <5>1
        <5>3. \A x \in Relayed(m)' : x \in Relayed(m)
          BY <1>17, <4>2
        <5>4. QED
          BY <4>1, <5>2, <5>3
      <4>4. \A y \in Relayed(m)' : c.n < y /\ y \in Relayed(m)
        BY <1>17, <4>2
      <4>5. /\ \A i \in InQueue(m) : i \in Nat /\ i < Len(Q(m)) + 1 /\ Q(m)'[i] = Q(m)[i]
            /\ InQueue(m)' = InQueue(m) \cup {Len(Q(m)) + 1}
            /\ Q(m)'[Len(Q(m)) + 1].kind = "text" /\ Q(m)'[Len(Q(m)) + 1].n = c.n
            /\ Len(Q(m)) \in Nat
        <5>1. Q(m)'[Len(Q(m)) + 1].kind = "text" /\ Q(m)'[Len(Q(m)) + 1].n = c.n
          BY <2>6, <3>5
        <5>2. QED
          BY <2>6, <5>1
      <4>6. /\ TextUpdates(m)' = TextUpdates(m) \cup {Len(Q(m)) + 1}
            /\ \A i \in TextUpdates(m) : i < Len(Q(m)) + 1 /\ i \in Nat /\ Q(m)'[i] = Q(m)[i]
        BY <1>12, <1>13, <4>5
      <4>7. Queued(m)' = Queued(m) \cup {c.n}
        BY <1>14, <1>15, <4>5, <4>6
      <4>8. \A i, j \in TextUpdates(m)' : i < j => Q(m)'[i].n < Q(m)'[j].n
        <5>1. SUFFICES ASSUME NEW i \in TextUpdates(m)', NEW j \in TextUpdates(m)', i < j
                       PROVE  Q(m)'[i].n < Q(m)'[j].n
          OBVIOUS
        <5>2. i \in TextUpdates(m)
          BY <4>5, <4>6, <5>1
        <5>3. CASE j \in TextUpdates(m)
          BY <3>0, <4>6, <5>1, <5>2, <5>3 DEF Flow
        <5>4. CASE j = Len(Q(m)) + 1
          <6>1. Q(m)[i].n \in Queued(m)
            BY <1>14, <5>2
          <6>2. QED
            BY <3>0, <4>1, <4>5, <4>6, <5>2, <5>4, <6>1 DEF Flow
        <5>5. QED
          BY <4>6, <5>3, <5>4
      <4>9. Held(m) \cup Queued(m)' \cup Relayed(m)' = Held(m) \cup Queued(m) \cup Relayed(m)
        BY <4>3, <4>7
      <4>10. /\ \A x \in Held(m), y \in Queued(m)' \cup Relayed(m)' : x < y
             /\ \A x \in Queued(m)', y \in Relayed(m)' : x < y
        <5>1. \A x \in Held(m), y \in Queued(m)' \cup Relayed(m)' : x < y
          BY <3>0, <4>1, <4>4, <4>7 DEF Flow
        <5>2. \A x \in Queued(m)', y \in Relayed(m)' : x < y
          BY <3>0, <4>4, <4>7 DEF Flow
        <5>3. QED
          BY <5>1, <5>2
      <4>11. QED
        BY <1>1, <1>5, <1>10, <3>0, <3>3, <4>8, <4>9, <4>10 DEF Flow, SameModel
    <3>6. QED
      BY <3>4, <3>5
  <2>10. QED
    BY <1>2, <1>6, <1>7, <1>9, <2>7, <2>8, <2>9
<1>21. CASE RelayEnds(m)
  <2>1. SameUpdates(m) /\ relay'[m].pc = "join"
    BY <1>21 DEF RelayEnds, SameUpdates, Q, TypeOK, RelayStates
  <2>2. chunks'[m] = <<>> /\ model[m].pc = "returned" /\ \A i \in DOMAIN chunks[m] : chunks[m][i].kind # "text"
    <3>1. CASE chunks[m] # <<>>
      <4>1. chunks' = [chunks EXCEPT ![m] = Tail(@)] /\ Head(chunks[m]).kind \in {"done", "error"}
        BY <1>21, <3>1 DEF RelayEnds
      <4>2. chunks[m][1].kind \in {"done", "error"} /\ 1 \in DOMAIN chunks[m]
        BY <1>19, <3>1, <4>1
      <4>3. Len(chunks[m]) = 1 /\ model[m].pc = "returned"
        BY <4>2 DEF EndIsLast
      <4>4. chunks'[m] = <<>>
        BY <1>11, <1>19, <3>1, <4>1, <4>3
      <4>5. QED
        BY <1>11, <4>2, <4>3, <4>4
    <3>2. CASE chunks[m] = <<>>
      BY <1>21, <3>2 DEF RelayEnds
    <3>3. QED
      BY <3>1, <3>2
  <2>3. EndIsLast(m)'
    BY <1>1, <2>2 DEF EndIsLast, SameModel
  <2>4. InQueue(m)' = InQueue(m)
    BY <2>1 DEF InQueue, SameUpdates
  <2>5. ConclusionIsLast(m)'
    BY <1>1, <1>5, <1>8, <2>1, <2>4 DEF ConclusionIsLast, SameUpdates, SameWriter
  <2>6. TextChunks(m) = {} /\ TextChunks(m)' = {} /\ Relayed(m) = {} /\ Relayed(m)' = {}
    BY <1>16, <1>17, <2>2 DEF TextChunks
  <2>7. TextUpdates(m)' = TextUpdates(m) /\ Queued(m)' = Queued(m)
    BY <2>1 DEF TextUpdates, Queued, SameUpdates, Q
  <2>8. Flow(m)'
    <3>1. Flow(m)
      OBVIOUS
    <3>2. QED
      BY <1>1, <1>5, <1>10, <2>1, <2>6, <2>7, <3>1 DEF Flow, SameModel, SameUpdates
  <2>9. QED
    BY <1>2, <1>6, <1>7, <1>9, <2>3, <2>5, <2>8
<1>22. CASE RelayConcludes(m)
  <2>1. PICK kind \in Ends : PushUpdate(m, kind, 0)
    BY <1>22 DEF RelayConcludes, Concludes, Ends
  <2>2. kind \in UpdateKinds /\ kind # "text"
    BY <2>1 DEF Ends, UpdateKinds
  <2>3. relay'[m].pc = "done" /\ relay[m].pc = "join" /\ SameChunks(m)
    BY <1>22 DEF RelayConcludes, Concludes, TypeOK, RelayStates, SameChunks
  <2>4. EndIsLast(m)'
    BY <1>1, <2>3 DEF EndIsLast, SameChunks, SameModel
  <2>5. ConclusionIsLast(m)'
    <3>1. /\ \A i \in InQueue(m) : i \in Nat /\ i < Len(Q(m)) + 1 /\ Q(m)'[i] = Q(m)[i]
          /\ InQueue(m)' = InQueue(m) \cup {Len(Q(m)) + 1} /\ Len(Q(m)) \in Nat
      BY <2>1, <2>2, Pushed
    <3>2. \A i \in InQueue(m)' : Q(m)'[i].kind \in Ends => \A j \in InQueue(m)' : j <= i
      BY <1>8, <3>1
    <3>3. QED
      BY <1>1, <1>5, <1>8, <2>3, <3>2 DEF ConclusionIsLast, SameWriter
  <2>6. /\ TextUpdates(m)' = TextUpdates(m) /\ Queued(m)' = Queued(m)
        /\ \A i \in TextUpdates(m) : Q(m)'[i] = Q(m)[i]
    BY <1>18, <2>1, <2>2
  <2>7. TextChunks(m)' = TextChunks(m) /\ Relayed(m)' = Relayed(m)
    BY <2>3 DEF TextChunks, Relayed, SameChunks
  <2>8. Flow(m)'
    <3>1. Flow(m)
      OBVIOUS
    <3>2. QED
      BY <1>1, <1>5, <1>10, <2>3, <2>6, <2>7, <3>1 DEF Flow, SameModel, SameChunks
  <2>9. QED
    BY <1>2, <1>6, <1>7, <1>9, <2>4, <2>5, <2>8
<1>23. QED
  BY <1>20, <1>21, <1>22 DEF RelayStep

-----------------------------------------------------------------------------
(* The steps of the task that writes                                       *)

\* The mention a step of the writer is about.
Served(s) == IF writer[s].pc = "recv" THEN Head(updates[s]).m ELSE Update(s).m

\* A step of the writer touches no mention but the one it serves.
LEMMA WriterFrame ==
  ASSUME TypeOK, SessionsOK, MentionsOK, NEW s \in Sessions, WriterStep(s),
         NEW m \in Mentions, m # Served(s)
  PROVE  Untouched(m)
<1>1. handler' = handler /\ model' = model /\ chunks' = chunks /\ relay' = relay
  BY DEF WriterStep, ReceiveUpdate, WriteText, SetRunningTool, GetContent, LastPosition,
         InsertRow, SetEphemeral, FinalizeRow, SetIdle
<1>2. row'[m] = row[m]
  <2>1. CASE ReceiveUpdate(s) \/ SetRunningTool(s) \/ GetContent(s) \/ LastPosition(s) \/ SetIdle(s)
    BY <2>1 DEF ReceiveUpdate, SetRunningTool, GetContent, LastPosition, SetIdle
  <2>2. CASE WriteText(s) \/ InsertRow(s) \/ SetEphemeral(s) \/ FinalizeRow(s)
    <3>1. writer[s].pc # "recv"
      BY <2>2 DEF WriteText, InsertRow, SetEphemeral, FinalizeRow, Writes
    <3>2. Update(s).m \in Mentions /\ m # Update(s).m
      BY <3>1, WritersMention DEF Served
    <3>3. PICK k \in Mentions : k = Update(s).m
      BY <3>2
    <3>4. \A kind, r : row' = [row EXCEPT ![k][kind] = r] => row'[m] = row[m]
      BY <3>2, <3>3, OtherRows
    <3>5. CASE InsertRow(s)
      <4>1. CASE Update(s).kind = "complete"
        BY <3>3, <3>4, <3>5, <4>1 DEF InsertRow
      <4>2. CASE Update(s).kind # "complete"
        <5>1. row' = [row EXCEPT ![k][<<Update(s).kind, Update(s).n>>] =
                        NewRow(writer[s].position, <<>>, Update(s).kind = "call")]
          BY <3>3, <3>5, <4>2 DEF InsertRow
        <5>2. QED
          BY <3>4, <5>1
      <4>3. QED
        BY <4>1, <4>2
    <3>6. QED
      BY <2>2, <3>3, <3>4, <3>5 DEF WriteText, SetEphemeral, FinalizeRow
  <2>3. QED
    BY <2>1, <2>2 DEF WriterStep
<1>3. CASE SessionOf[m] # s
  <2>1. writer'[SessionOf[m]] = writer[SessionOf[m]] /\ updates'[SessionOf[m]] = updates[SessionOf[m]]
    BY <1>3, SessionAssumption DEF WriterStep, ReceiveUpdate, WriteText, SetRunningTool, GetContent,
       LastPosition, InsertRow, SetEphemeral, FinalizeRow, SetIdle, Rest, WriterAt, TypeOK
  <2>2. QED
    BY <1>1, <1>2, <2>1 DEF Untouched, H, W, Q
<1>4. CASE SessionOf[m] = s
  <2>1. W(m) = writer[s] /\ W(m)' = writer'[s] /\ Q(m) = updates[s] /\ Q(m)' = updates'[s]
    BY <1>4 DEF W, Q
  <2>2. CASE ReceiveUpdate(s)
    <3>1. writer[s].pc = "recv" /\ updates[s] # <<>> /\ updates'[s] = Tail(updates[s])
          /\ writer'[s].update = Head(updates[s])
      BY <2>2 DEF ReceiveUpdate, Writes, TypeOK, WriterStates
    <3>2. Head(updates[s]).m # m
      BY <3>1 DEF Served
    <3>3. ~InHand(m) /\ ~InHand(m)'
      BY <2>1, <3>1, <3>2 DEF InHand
    <3>4. QED
      BY <1>1, <1>2, <2>1, <3>1, <3>2, <3>3 DEF Untouched, H
  <2>3. CASE ~ReceiveUpdate(s)
    <3>1. writer[s].pc # "recv" /\ updates' = updates
      BY <2>3 DEF WriterStep, WriteText, SetRunningTool, GetContent, LastPosition,
              InsertRow, SetEphemeral, FinalizeRow, SetIdle, Writes
    <3>2. writer[s].update.m # m
      BY <3>1 DEF Served, Update
    <3>3. writer'[s].pc = "recv" \/ writer'[s].update = writer[s].update
      <4>1. CASE Rest(s)
        BY <4>1 DEF Rest, TypeOK
      <4>2. CASE \E pc : WriterAt(s, pc)
        BY <4>2 DEF WriterAt, TypeOK, WriterStates
      <4>3. CASE GetContent(s) \/ LastPosition(s)
        BY <4>3, Reads
      <4>4. QED
        BY <2>3, <4>1, <4>2, <4>3 DEF WriterStep, WriteText, SetRunningTool,
              InsertRow, SetEphemeral, FinalizeRow, SetIdle
    <3>4. ~InHand(m) /\ ~InHand(m)'
      BY <2>1, <3>1, <3>2, <3>3 DEF InHand
    <3>5. QED
      BY <1>1, <1>2, <2>1, <3>1, <3>4 DEF Untouched, H
  <2>4. QED
    BY <2>2, <2>3
<1>5. QED
  BY <1>3, <1>4

\* What comes off the channel is its first update, and the others move up.
LEMMA ReceiveKeeps ==
  ASSUME TypeOK, SessionsOK, NEW s \in Sessions, ReceiveUpdate(s),
         NEW m \in Mentions, m = Served(s), MentionOK(m)
  PROVE  MentionOK(m)'
<1>. USE DEF MentionOK
<1>1. writer[s].pc = "recv" /\ updates[s] # <<>> /\ updates[s] \in Seq(Updates)
      /\ m = Head(updates[s]).m
  BY DEF ReceiveUpdate, Writes, TypeOK, Served
<1>2. Head(updates[s]) = updates[s][1] /\ 1 \in DOMAIN updates[s] /\ updates[s][1] \in Updates
  BY <1>1
<1>3. SessionOf[m] = s
  BY <1>1, <1>2 DEF SessionsOK, SessionOK
<1>4. PICK u \in Updates : u = Head(updates[s])
  BY <1>2
<1>5. u.m = m /\ u.kind \in UpdateKinds /\ u.n \in Nat /\ Q(m) = updates[s] /\ W(m) = writer[s] /\ u = Q(m)[1]
  BY <1>1, <1>2, <1>3, <1>4 DEF Updates, Q, W
<1>6. /\ W(m)'.pc = Start(u.kind) /\ W(m)'.update = u /\ InHand(m)' /\ ~InHand(m)
      /\ W(m)'.pc \in PlacesOf(u.kind) /\ W(m)'.pc \notin {"recv", "ephemeral", "finalize", "idle"}
      /\ u.kind = "complete" => W(m)'.pc = "get"
  <2>1. writer'[s].pc = Start(u.kind) /\ writer'[s].update = u
    BY <1>4 DEF ReceiveUpdate, TypeOK, WriterStates
  <2>2. W(m)'.pc = Start(u.kind) /\ W(m)'.update = u
    BY <1>3, <2>1 DEF W
  <2>3. QED
    BY <1>1, <1>5, <2>2, Starts DEF InHand
<1>7. SamePlace(m) /\ SameMessage(m) /\ SameUser(m) /\ SameModel(m) /\ SameHandler(m)
      /\ SameChunks(m) /\ SameRelay(m)
  BY DEF ReceiveUpdate, SamePlace, SameMessage, SameUser, SameModel, SameHandler, SameChunks, SameRelay, H
<1>8. Handling(m)' /\ EndIsLast(m)' /\ Numbered(m)'
  BY <1>7, SameParts
<1>9. /\ 1 \in InQueue(m) /\ InQueue(m) \subseteq Nat \ {0} /\ InQueue(m)' \subseteq Nat \ {0}
      /\ \A i \in InQueue(m)' : i + 1 \in InQueue(m) /\ Q(m)'[i] = Q(m)[i + 1]
      /\ \A i \in InQueue(m) : i = 1 \/ i - 1 \in InQueue(m)'
  <2>1. Q(m)' = Tail(Q(m)) /\ Q(m) \in Seq(Updates) /\ Q(m) # <<>>
    BY <1>1, <1>3, <1>5 DEF ReceiveUpdate, TypeOK, Q
  <2>2. InQueue(m)' = {i \in DOMAIN Tail(Q(m)) : Tail(Q(m))[i].m = m}
    BY <2>1 DEF InQueue
  <2>3. PICK q \in Seq(Updates) : q = Q(m)
    BY <2>1
  <2>4. DOMAIN q = 1..Len(q) /\ DOMAIN Tail(q) = 1..(Len(q) - 1) /\ Len(q) \in Nat \ {0}
        /\ \A i \in 1..(Len(q) - 1) : Tail(q)[i] = q[i + 1]
    BY <2>1, <2>3
  <2>5. InQueue(m) = {i \in 1..Len(q) : q[i].m = m}
    BY <2>3, <2>4 DEF InQueue
  <2>6. InQueue(m)' = {i \in 1..(Len(q) - 1) : q[i + 1].m = m}
    BY <2>2, <2>3, <2>4
  <2>7. QED
    BY <1>5, <2>1, <2>3, <2>4, <2>5, <2>6
<1>10. relay[m].pc # "idle" /\ model[m].pc # "idle" /\ Placed(m) /\ Open(m)
  BY <1>9 DEF Quiet, ConclusionIsLast
<1>11. /\ Placed(m)' = Placed(m) /\ Place(m)' = Place(m) /\ Ended(m)' = Ended(m)
       /\ ShownText(m)' = ShownText(m) /\ Exists(m, Message)' = Exists(m, Message) /\ Open(m)'
  BY <1>7, <1>10, SameShown DEF SameMessage, Exists, Open
<1>12. Quiet(m)'
  BY <1>7, <1>10, <1>11 DEF Quiet, SameRelay, SameModel
<1>13. ConclusionIsLast(m)'
  <2>1. \A i \in InQueue(m)' :
          Q(m)'[i].kind \in Ends => relay'[m].pc = "done" /\ \A j \in InQueue(m)' : j <= i
    <3>1. SUFFICES ASSUME NEW i \in InQueue(m)', Q(m)'[i].kind \in Ends
                   PROVE  relay[m].pc = "done" /\ \A j \in InQueue(m)' : j <= i
      BY <1>7 DEF SameRelay
    <3>2. i + 1 \in InQueue(m) /\ Q(m)[i + 1].kind \in Ends
      BY <1>9, <3>1
    <3>3. relay[m].pc = "done" /\ \A j \in InQueue(m) : j <= i + 1
      BY <3>2 DEF ConclusionIsLast
    <3>4. \A j \in InQueue(m)' : j + 1 <= i + 1
      BY <1>9, <3>3
    <3>5. QED
      BY <1>9, <3>3, <3>4
  <2>2. u.kind \in Ends => relay[m].pc = "done" /\ InQueue(m)' = {}
    <3>1. SUFFICES ASSUME u.kind \in Ends PROVE relay[m].pc = "done" /\ InQueue(m)' = {}
      OBVIOUS
    <3>2. relay[m].pc = "done" /\ \A j \in InQueue(m) : j <= 1
      BY <1>5, <1>9, <3>1 DEF ConclusionIsLast
    <3>3. \A j \in InQueue(m)' : j + 1 <= 1 /\ j \in Nat \ {0}
      BY <1>9, <3>2
    <3>4. InQueue(m)' = {}
      BY <3>3
    <3>5. QED
      BY <3>2, <3>4
  <2>3. QED
    BY <1>6, <1>7, <1>11, <2>1, <2>2 DEF ConclusionIsLast, SameRelay
<1>14. Writing(m)'
  <2>1. u.kind = "complete" => W(m)'.pc = "get"
    BY <1>6
  <2>2. QED
    BY <1>6, <1>11, <2>1 DEF Writing
<1>15. Rows(m)'
  BY <1>6, <1>10, <1>11 DEF Rows, Open
<1>16. Flow(m)'
  <2>. DEFINE there == Len(ShownText(m))
  <2>0. Flow(m) /\ there \in Nat
    BY OnTheWay
  <2>1. TextUpdates(m) = {i \in InQueue(m) : Q(m)[i].kind = "text"}
    BY DEF TextUpdates, InQueue, Q
  <2>2. TextUpdates(m)' = {i \in InQueue(m)' : Q(m)'[i].kind = "text"}
    BY DEF TextUpdates, InQueue, Q
  <2>3. Queued(m) = {Q(m)[i].n : i \in TextUpdates(m)}
    BY DEF Queued, Q
  <2>4. Queued(m)' = {Q(m)'[i].n : i \in TextUpdates(m)'}
    BY DEF Queued, Q
  <2>5. Held(m) = {}
    BY <1>3, <1>1 DEF Held, HoldsText
  <2>6. HoldsText(m)' <=> u.kind = "text"
    <3>1. HoldsText(m)' <=> W(m)'.pc = "text" /\ W(m)'.update.kind = "text" /\ W(m)'.update.m = m
      BY DEF HoldsText, W, Update
    <3>2. u.kind = "text" => W(m)'.pc = "text"
      BY <1>6 DEF Start
    <3>3. QED
      BY <1>5, <1>6, <3>1, <3>2
  <2>7. /\ u.kind = "text" => Held(m)' = {u.n}
        /\ u.kind # "text" => Held(m)' = {}
    <3>1. Held(m)' = IF HoldsText(m)' THEN {W(m)'.update.n} ELSE {}
      BY DEF Held, W, Update
    <3>2. QED
      BY <1>6, <2>6, <3>1
  <2>8. TextChunks(m)' = TextChunks(m) /\ Relayed(m)' = Relayed(m)
    BY <1>7 DEF TextChunks, Relayed, SameChunks
  <2>9. /\ \A i \in TextUpdates(m)' : i \in Nat /\ i + 1 \in TextUpdates(m) /\ i + 1 > 1 /\ Q(m)'[i] = Q(m)[i + 1]
        /\ \A i \in TextUpdates(m) : i = 1 \/ (i - 1 \in TextUpdates(m)' /\ Q(m)'[i - 1] = Q(m)[i])
        /\ 1 \in TextUpdates(m) <=> u.kind = "text"
    BY <1>5, <1>9, <2>1, <2>2
  <2>10. \A i, j \in TextUpdates(m)' : i < j => Q(m)'[i].n < Q(m)'[j].n
    <3>1. SUFFICES ASSUME NEW i \in TextUpdates(m)', NEW j \in TextUpdates(m)', i < j
                   PROVE  Q(m)'[i].n < Q(m)'[j].n
      OBVIOUS
    <3>2. i + 1 \in TextUpdates(m) /\ j + 1 \in TextUpdates(m) /\ i + 1 < j + 1
      BY <2>9, <3>1
    <3>3. QED
      BY <2>0, <2>9, <3>2 DEF Flow
  <2>11. Queued(m) = Held(m)' \cup Queued(m)'
    <3>1. \A x \in Queued(m) : x \in Held(m)' \cup Queued(m)'
      BY <1>5, <2>3, <2>4, <2>7, <2>9
    <3>2. \A x \in Queued(m)' : x \in Queued(m)
      BY <2>3, <2>4, <2>9
    <3>3. \A x \in Held(m)' : x \in Queued(m)
      BY <1>5, <2>3, <2>7, <2>9
    <3>4. QED
      BY <3>1, <3>2, <3>3
  <2>12. \A x \in Held(m)', y \in Queued(m)' : x < y
    <3>1. SUFFICES ASSUME u.kind = "text", NEW i \in TextUpdates(m)' PROVE u.n < Q(m)'[i].n
      BY <2>4, <2>7
    <3>2. 1 \in TextUpdates(m) /\ i + 1 \in TextUpdates(m) /\ 1 < i + 1
      BY <2>9, <3>1
    <3>3. QED
      BY <1>5, <2>0, <2>9, <3>2 DEF Flow
  <2>13. /\ Held(m)' \cup Queued(m)' \cup Relayed(m)' = Held(m) \cup Queued(m) \cup Relayed(m)
         /\ \A x \in Held(m)', y \in Queued(m)' \cup Relayed(m)' : x < y
         /\ \A x \in Queued(m)', y \in Relayed(m)' : x < y
    <3>1. Held(m)' \cup Queued(m)' \cup Relayed(m)' = Held(m) \cup Queued(m) \cup Relayed(m)
      BY <2>5, <2>8, <2>11
    <3>2. \A x \in Held(m)', y \in Relayed(m)' : x < y
      BY <2>0, <2>8, <2>11 DEF Flow
    <3>3. \A x \in Queued(m)', y \in Relayed(m)' : x < y
      BY <2>0, <2>8, <2>11 DEF Flow
    <3>4. QED
      BY <2>12, <3>1, <3>2, <3>3
  <2>14. QED
    BY <1>7, <1>11, <2>0, <2>8, <2>10, <2>13 DEF Flow, SameModel, SameChunks
<1>17. QED
  BY <1>8, <1>12, <1>13, <1>14, <1>15, <1>16

\* What every step of the writer about an update in its hand leaves alone.
LEMMA Busy ==
  ASSUME TypeOK, SessionsOK, MentionsOK, NEW s \in Sessions, WriterStep(s), writer[s].pc # "recv",
         NEW m \in Mentions, m = Update(s).m
  PROVE  /\ SessionOf[m] = s /\ W(m) = writer[s] /\ W(m)' = writer'[s] /\ Update(s) = W(m).update
         /\ InHand(m) /\ Placed(m) /\ Place(m) \in Row /\ W(m) \in WriterStates
         /\ W(m).update \in Updates /\ W(m).update.m = m /\ W(m).pc \in PlacesOf(W(m).update.kind)
         /\ SameModel(m) /\ SameChunks(m) /\ SameRelay(m) /\ SameHandler(m) /\ SameUpdates(m)
         /\ relay[m].pc # "idle" /\ model[m].pc # "idle" /\ InQueue(m)' = InQueue(m)
         /\ EndIsLast(m)' /\ Numbered(m)' /\ (Placed(m)' => Quiet(m)')
         /\ Placed(m)' /\ SameUser(m) => Handling(m)'
<1>1. SessionOf[m] = s /\ W(m) = writer[s] /\ Update(s) = W(m).update
       /\ InHand(m) /\ Placed(m) /\ Place(m) \in Row /\ W(m).pc \in PlacesOf(W(m).update.kind)
       /\ W(m).update \in Updates
  BY WritersMention DEF Update
<1>2. W(m)' = writer'[s] /\ W(m) \in WriterStates
  BY <1>1, ViewTypes DEF W
<1>3. MentionOK(m)
  BY DEF MentionsOK
<1>4. SameModel(m) /\ SameChunks(m) /\ SameRelay(m) /\ SameHandler(m)
  BY DEF WriterStep, ReceiveUpdate, WriteText, SetRunningTool, GetContent, LastPosition,
         InsertRow, SetEphemeral, FinalizeRow, SetIdle, SameModel, SameChunks, SameRelay, SameHandler, H
<1>5. SameUpdates(m)
  <2>1. ~ReceiveUpdate(s)
    BY DEF ReceiveUpdate, Writes
  <2>2. QED
    BY <2>1 DEF WriterStep, WriteText, SetRunningTool, GetContent, LastPosition,
         InsertRow, SetEphemeral, FinalizeRow, SetIdle, SameUpdates, Q
<1>6. InQueue(m)' = InQueue(m)
  BY <1>5 DEF SameUpdates, InQueue
<1>7. relay[m].pc # "idle" /\ model[m].pc # "idle"
  BY <1>1, <1>3 DEF MentionOK, Quiet
<1>8. EndIsLast(m)' /\ Numbered(m)'
  BY <1>3, <1>4, SameParts
<1>9. Placed(m)' => Quiet(m)'
  BY <1>4, <1>7 DEF Quiet, SameRelay, SameModel
<1>10. Placed(m)' /\ SameUser(m) => Handling(m)'
  BY <1>1, <1>3, <1>4 DEF Handling, SameHandler, SameRelay, SameUser, MentionOK, Exists
<1>11. QED
  BY <1>1, <1>2, <1>4, <1>5, <1>6, <1>7, <1>8, <1>9, <1>10

\* Text that nothing moved is still accounted for.
LEMMA FlowStays ==
  ASSUME NEW m, Flow(m), Held(m)' = Held(m), ShownText(m)' = ShownText(m),
         SameModel(m), SameChunks(m), SameUpdates(m)
  PROVE  Flow(m)'
<1>1. TextUpdates(m)' = TextUpdates(m) /\ Queued(m)' = Queued(m)
  BY DEF TextUpdates, Queued, SameUpdates, Q
<1>2. TextChunks(m)' = TextChunks(m) /\ Relayed(m)' = Relayed(m)
  BY DEF TextChunks, Relayed, SameChunks
<1>3. QED
  BY <1>1, <1>2 DEF Flow, SameModel, SameChunks, SameUpdates

\* A step that writes no row of a mention: it sets a status, or it reads.
LEMMA ReadingKeeps ==
  ASSUME TypeOK, SessionsOK, MentionsOK, NEW s \in Sessions, WriterStep(s), writer[s].pc # "recv",
         SetRunningTool(s) \/ GetContent(s) \/ LastPosition(s) \/ SetIdle(s),
         NEW m \in Mentions, m = Update(s).m
  PROVE  MentionOK(m)'
<1>0. MentionOK(m)
  BY DEF MentionsOK
<1>1. SamePlace(m) /\ SameMessage(m) /\ SameUser(m)
  BY DEF SetRunningTool, GetContent, LastPosition, SetIdle, SamePlace, SameMessage, SameUser
<1>2. /\ Placed(m)' = Placed(m) /\ Place(m)' = Place(m) /\ Ended(m)' = Ended(m)
      /\ ShownText(m)' = ShownText(m) /\ Exists(m, Message)' = Exists(m, Message) /\ Open(m)' = Open(m)
  BY <1>1, SameShown DEF SameMessage, Exists, Open
<1>3. /\ SessionOf[m] = s /\ W(m) = writer[s] /\ W(m)' = writer'[s] /\ Update(s) = W(m).update
      /\ InHand(m) /\ Placed(m) /\ Place(m) \in Row /\ W(m) \in WriterStates
      /\ W(m).update \in Updates /\ W(m).update.m = m /\ W(m).pc \in PlacesOf(W(m).update.kind)
      /\ SameModel(m) /\ SameChunks(m) /\ SameRelay(m) /\ SameUpdates(m) /\ InQueue(m)' = InQueue(m)
  BY Busy
<1>4. Handling(m)' /\ Quiet(m)' /\ EndIsLast(m)' /\ Numbered(m)'
  BY <1>1, <1>2, Busy
<1>5. W(m).update.kind \in UpdateKinds
  BY <1>3 DEF Updates
<1>6. W(m)'.pc = "recv" \/ (W(m)'.update = W(m).update /\ InHand(m)')
  <2>1. CASE SetRunningTool(s) \/ SetIdle(s)
    BY <1>3, <2>1, Moved DEF SetRunningTool, SetIdle, InHand
  <2>2. CASE GetContent(s) \/ LastPosition(s)
    <3>1. writer'[s].update = writer[s].update /\ writer'[s].pc \in {"finalize", "position", "insert"}
      BY <2>2, Reads
    <3>2. QED
      BY <1>3, <3>1 DEF InHand
  <2>3. QED
    BY <2>1, <2>2
<1>7. W(m).pc \notin {"text", "ephemeral", "finalize"} /\ W(m)'.pc \notin {"text", "ephemeral", "idle"}
  <2>1. CASE SetRunningTool(s) \/ SetIdle(s)
    BY <1>3, <2>1, Moved DEF SetRunningTool, SetIdle, Writes
  <2>2. CASE GetContent(s) \/ LastPosition(s)
    BY <1>3, <2>2, Reads DEF GetContent, LastPosition, Writes
  <2>3. QED
    BY <2>1, <2>2
<1>8. Flow(m)'
  <2>1. Held(m)' = {} /\ Held(m) = {}
    BY <1>3, <1>7 DEF Held, HoldsText, W
  <2>2. QED
    BY <1>0, <1>2, <1>3, <2>1, FlowStays DEF MentionOK
<1>9. ConclusionIsLast(m)'
  BY <1>0, <1>2, <1>3, <1>6 DEF MentionOK, ConclusionIsLast, SameUpdates, SameRelay, InHand
<1>10. Writing(m)' /\ Rows(m)'
  <2>1. CASE SetRunningTool(s)
    <3>1. W(m).pc = "status" /\ W(m)'.pc = "position" /\ W(m)'.update = W(m).update
      BY <1>3, <2>1, Moved DEF SetRunningTool, Writes
    <3>2. W(m).update.kind = "call" /\ Open(m)
      BY <1>0, <1>3, <1>5, <3>1 DEF MentionOK, Writing, PlacesOf, UpdateKinds
    <3>3. Writing(m)'
      BY <1>2, <3>1, <3>2 DEF Writing, PlacesOf
    <3>4. Rows(m)'
      BY <1>0, <1>2, <1>3, <3>1, <3>2 DEF MentionOK, Rows, Open
    <3>5. QED
      BY <3>3, <3>4
  <2>2. CASE GetContent(s)
    <3>1. W(m).pc = "get" /\ W(m)'.update = W(m).update /\ W(m)'.content = Place(m).text
          /\ W(m)'.pc = IF Place(m).text = None THEN "finalize" ELSE "position"
      BY <1>3, <2>2, Reads DEF GetContent, Writes, Place
    <3>2. W(m).update.kind = "complete" /\ Open(m)
      BY <1>0, <1>3, <1>5, <3>1 DEF MentionOK, Writing, PlacesOf, UpdateKinds
    <3>3. Writing(m)'
      BY <1>2, <3>1, <3>2 DEF Writing, PlacesOf, Open
    <3>4. Rows(m)'
      BY <1>0, <1>2, <1>3, <3>1, <3>2 DEF MentionOK, Rows, Open
    <3>5. QED
      BY <3>3, <3>4
  <2>3. CASE LastPosition(s)
    <3>1. W(m).pc = "position" /\ W(m)'.update = W(m).update /\ W(m)'.content = W(m).content
          /\ W(m)'.pc = "insert"
      BY <1>3, <2>3, Reads DEF LastPosition, Writes
    <3>2. W(m).update.kind \in {"call", "result", "complete"} /\ Open(m)
      BY <1>0, <1>3, <1>5, <3>1 DEF MentionOK, Writing, PlacesOf, UpdateKinds
    <3>3. W(m).update.kind = "complete" => Place(m).text # None /\ W(m).content = Place(m).text
      BY <1>0, <1>3, <3>1 DEF MentionOK, Writing
    <3>4. Writing(m)'
      BY <1>2, <3>1, <3>2, <3>3 DEF Writing, PlacesOf
    <3>5. Rows(m)'
      BY <1>0, <1>2, <1>3, <3>1, <3>2 DEF MentionOK, Rows, Open
    <3>6. QED
      BY <3>4, <3>5
  <2>4. CASE SetIdle(s)
    <3>1. W(m).pc = "idle" /\ W(m)'.pc = "recv"
      BY <1>3, <2>4, Moved DEF SetIdle, Writes
    <3>2. Place(m).final /\ ~InHand(m)'
      BY <1>0, <1>3, <3>1 DEF MentionOK, Writing, InHand
    <3>3. Writing(m)'
      BY <3>2 DEF Writing
    <3>4. Rows(m)'
      <4>1. Rows(m) /\ relay'[m] = relay[m] /\ row'[m][Message] = row[m][Message]
        BY <1>0, <1>1, <1>3 DEF MentionOK, SameRelay, SameMessage
      <4>2. Exists(m, Message) => Place(m).ephemeral
        BY <1>3, <3>1, <4>1 DEF Rows
      <4>3. QED
        BY <1>2, <1>3, <3>2, <4>1, <4>2 DEF Rows
    <3>5. QED
      BY <3>3, <3>4
  <2>5. QED
    BY <2>1, <2>2, <2>3, <2>4
<1>11. QED
  BY <1>4, <1>8, <1>9, <1>10 DEF MentionOK

\* The text of a placeholder that is open is all shown.
LEMMA OpenText ==
  ASSUME TypeOK, NEW m \in Mentions, MentionOK(m), Placed(m), Open(m), InHand(m), W(m).pc # "finalize"
  PROVE  /\ ShownText(m) = IF Place(m).text = None THEN <<>> ELSE Place(m).text
         /\ ShownText(m) \in Seq(Nat)
<1>1. ~Ended(m)
  BY DEF MentionOK, Rows, Open
<1>2. Place(m) \in Row
  BY ViewTypes DEF Placed, Exists, Place
<1>3. ShownText(m) = IF Place(m).text = None THEN <<>> ELSE Place(m).text
  <2>1. CASE Place(m).text = None
    BY <2>1 DEF ShownText, Place
  <2>2. CASE Place(m).text # None
    <3>1. ~(Place(m).text # <<>> /\ Place(m).text[Len(Place(m).text)] = Error)
      BY <1>1, <2>2 DEF Ended
    <3>2. QED
      BY <2>2, <3>1 DEF ShownText, Place, Placed
  <2>3. QED
    BY <2>1, <2>2
<1>4. QED
  BY <1>2, <1>3 DEF Row

\* A step that writes the placeholder alone.
LEMMA OnlyPlace ==
  ASSUME TypeOK, NEW m \in Mentions, NEW r \in Row, row' = [row EXCEPT ![m][Thinking] = r]
  PROVE  /\ SameUser(m) /\ SameMessage(m) /\ Exists(m, Message)' = Exists(m, Message)
         /\ Placed(m)' /\ Place(m)' = r
<1>1. User \in Kinds /\ Thinking \in Kinds /\ Message \in Kinds /\ Thinking # User /\ Thinking # Message
  BY KindsOK, DistinctRows
<1>2. SameUser(m) /\ SameMessage(m) /\ row'[m][Thinking] = r
  BY <1>1 DEF TypeOK, SameUser, SameMessage
<1>3. r # None
  BY RowAssumption
<1>4. QED
  BY <1>2, <1>3 DEF Placed, Place, Exists, SameMessage

\* append_to_row keeps the invariant, and shows one piece more or an error.
LEMMA WriteKeeps ==
  ASSUME TypeOK, SessionsOK, MentionsOK, NEW s \in Sessions, WriteText(s),
         NEW m \in Mentions, m = Update(s).m
  PROVE  /\ MentionOK(m)' /\ Placed(m)' /\ Open(m) /\ Open(m)'
         /\ Update(s).kind = "text" => Len(ShownText(m)') = Len(ShownText(m)) + 1
         /\ Update(s).kind # "text" => ShownText(m)' = ShownText(m)
<1>0. MentionOK(m) /\ WriterStep(s) /\ writer[s].pc # "recv" /\ writer[s].pc = "text"
  BY DEF MentionsOK, WriterStep, WriteText, Writes
<1>1. /\ SessionOf[m] = s /\ W(m) = writer[s] /\ W(m)' = writer'[s] /\ Update(s) = W(m).update
      /\ InHand(m) /\ Placed(m) /\ Place(m) \in Row
      /\ W(m).update \in Updates /\ W(m).update.m = m /\ W(m).pc \in PlacesOf(W(m).update.kind)
      /\ SameModel(m) /\ SameChunks(m) /\ SameRelay(m) /\ SameUpdates(m) /\ InQueue(m)' = InQueue(m)
  BY <1>0, Busy
<1>. DEFINE kind == W(m).update.kind
            n == W(m).update.n
            t == IF kind = "text" THEN <<n>> ELSE <<Error>>
            before == IF Place(m).text = None THEN <<>> ELSE Place(m).text
<1>2. kind \in {"text", "error"} /\ n \in Nat /\ Open(m)
  BY <1>0, <1>1 DEF Updates, UpdateKinds, PlacesOf, MentionOK, Writing
<1>3. ShownText(m) = before /\ before \in Seq(Nat) /\ Place(m).mutable
  <2>1. ShownText(m) = before /\ before \in Seq(Nat)
    BY <1>0, <1>1, <1>2, OpenText
  <2>2. Place(m).mutable
    BY <1>0, <1>1, <1>2 DEF MentionOK, Rows, Open
  <2>3. QED
    BY <2>1, <2>2
<1>4. PICK r \in Row : r = WithText(Place(m), t)
  <2>1. t \in Seq(Nat)
    BY <1>2 DEF Error
  <2>. HIDE DEF t
  <2>2. QED
    BY <1>1, <2>1, RowOperations
<1>5. /\ r.text = before \o t /\ r.final = Place(m).final /\ r.mutable = Place(m).mutable
      /\ r.ephemeral = Place(m).ephemeral
  <2>. HIDE DEF t
  <2>1. r = [Place(m) EXCEPT !.text = before \o t]
    BY <1>3, <1>4 DEF WithText
  <2>. HIDE DEF before
  <2>2. QED
    BY <1>1, <2>1 DEF Row
<1>6. /\ SameUser(m) /\ SameMessage(m) /\ Exists(m, Message)' = Exists(m, Message)
      /\ Placed(m)' /\ Place(m)' = r /\ row'[m][Thinking] = r
  <2>1. row' = [row EXCEPT ![m][Thinking] = r]
    BY <1>1, <1>4 DEF WriteText, Place
  <2>2. QED
    BY <2>1, OnlyPlace DEF Place
<1>7. Handling(m)' /\ Quiet(m)' /\ EndIsLast(m)' /\ Numbered(m)'
  BY <1>0, <1>6, Busy
<1>8. Open(m)' /\ ~Exists(m, Message)' /\ ~r.final
  BY <1>2, <1>5, <1>6 DEF Open
<1>9. kind = "text" => ~InHand(m)'
  BY <1>1, Moved DEF WriteText, InHand
<1>10. kind = "error" => W(m)'.pc = "finalize" /\ W(m)'.update = W(m).update /\ InHand(m)'
  BY <1>1, Moved DEF WriteText, InHand
<1>11. r.text \in Seq(Nat) /\ r.text # <<>> /\ r.text # None /\ Len(r.text) = Len(before) + 1
       /\ r.text[Len(r.text)] = (IF kind = "text" THEN n ELSE Error)
       /\ \A i \in 1..Len(before) : r.text[i] = before[i]
  <2>1. PICK x \in Nat : x = (IF kind = "text" THEN n ELSE Error)
    BY <1>2 DEF Error
  <2>2. t = <<x>>
    BY <2>1
  <2>3. PICK b \in Seq(Nat) : b = before
    BY <1>3
  <2>4. r.text = b \o <<x>>
    BY <1>5, <2>2, <2>3
  <2>5. /\ b \o <<x>> \in Seq(Nat) /\ b \o <<x>> # <<>> /\ Len(b \o <<x>>) = Len(b) + 1
        /\ (b \o <<x>>)[Len(b) + 1] = x
        /\ \A i \in 1..Len(b) : (b \o <<x>>)[i] = b[i]
    OBVIOUS
  <2>6. r.text # None
    BY <2>4, <2>5, NoneAssumption
  <2>7. QED
    BY <2>1, <2>3, <2>4, <2>5, <2>6
<1>. HIDE DEF before, t
<1>12. ConclusionIsLast(m)'
  <2>1. ConclusionIsLast(m) /\ Q(m)' = Q(m) /\ relay'[m] = relay[m] /\ InQueue(m)' = InQueue(m)
    BY <1>0, <1>1 DEF MentionOK, SameUpdates, SameRelay
  <2>2. InHand(m)' /\ W(m)'.update.kind \in Ends => relay[m].pc = "done" /\ InQueue(m) = {}
    BY <1>1, <1>2, <1>9, <1>10, <2>1 DEF ConclusionIsLast
  <2>3. QED
    BY <1>8, <2>1, <2>2 DEF ConclusionIsLast
<1>13. Writing(m)'
  BY <1>6, <1>8, <1>9, <1>10, <1>11, <1>2 DEF Writing, PlacesOf
<1>14. Held(m) = IF kind = "text" THEN {n} ELSE {}
  BY <1>0, <1>1 DEF Held, HoldsText
<1>15. Held(m)' = {}
  <2>1. W(m)'.pc # "text"
    BY <1>1, <1>2, <1>10, Moved DEF WriteText
  <2>2. QED
    BY <2>1 DEF Held, HoldsText, W
<1>16. kind = "text" => n > Len(before) /\ n \in Nat
  <2>1. kind = "text" => n \in Held(m)
    BY <1>14
  <2>2. QED
    BY <1>0, <1>3, <2>1, OnTheWay
<1>17. Ended(m)' <=> kind = "error"
  BY <1>2, <1>3, <1>6, <1>11, <1>16 DEF Ended, Error
<1>18. Rows(m)'
  BY <1>0, <1>1, <1>5, <1>6, <1>8, <1>9, <1>10, <1>11, <1>17, <1>2 DEF MentionOK, Rows
<1>19. /\ Flow(m)'
       /\ kind = "text" => Len(ShownText(m)') = Len(ShownText(m)) + 1
       /\ kind # "text" => ShownText(m)' = ShownText(m)
  <2>1. Flow(m)
    BY <1>0 DEF MentionOK
  <2>2. TextUpdates(m)' = TextUpdates(m) /\ Queued(m)' = Queued(m)
    BY <1>1 DEF TextUpdates, Queued, SameUpdates, Q
  <2>3. TextChunks(m)' = TextChunks(m) /\ Relayed(m)' = Relayed(m)
    BY <1>1 DEF TextChunks, Relayed, SameChunks
  <2>4. CASE kind = "error"
    <3>1. ShownText(m)' = SubSeq(r.text, 1, Len(r.text) - 1)
      <4>1. r.text[Len(r.text)] = Error
        BY <1>11, <2>4
      <4>2. QED
        BY <1>6, <1>11, <4>1 DEF ShownText, Placed, Place
    <3>2. ShownText(m)' = before
      <4>1. PICK a, b \in Seq(Nat) : a = SubSeq(r.text, 1, Len(r.text) - 1) /\ b = before
        BY <1>3, <1>11
      <4>2. Len(a) = Len(b) /\ \A i \in 1..Len(b) : a[i] = b[i]
        <5>1. PICK u \in Seq(Nat) : u = r.text
          BY <1>11
        <5>2. Len(u) = Len(b) + 1 /\ Len(b) \in Nat /\ \A i \in 1..Len(b) : u[i] = b[i]
          BY <1>11, <4>1, <5>1
        <5>3. a = SubSeq(u, 1, Len(b))
          BY <4>1, <5>1, <5>2
        <5>4. Len(a) = Len(b) /\ \A i \in 1..Len(b) : a[i] = u[i]
          BY <5>2, <5>3
        <5>5. QED
          BY <5>2, <5>4
      <4>3. a = b
        BY <4>1, <4>2, SameSequence
      <4>4. QED
        BY <3>1, <4>1, <4>3
    <3>3. Flow(m)'
      BY <1>1, <1>3, <1>14, <1>15, <2>1, <2>4, <3>2, FlowStays
    <3>4. QED
      BY <1>3, <2>4, <3>2, <3>3
  <2>5. CASE kind = "text"
    <3>. DEFINE l == Len(before)
    <3>0. l \in Nat
      BY <1>3
    <3>1. n = l + 1
      <4>1. {n} \cup Queued(m) \cup Relayed(m) = (l + 1)..Len(model[m].text)
        BY <1>3, <1>14, <2>1, <2>5 DEF Flow
      <4>2. Len(model[m].text) \in Nat
        BY <1>0, OnTheWay
      <4>3. n \in (l + 1)..Len(model[m].text)
        BY <4>1
      <4>. HIDE DEF l, n
      <4>4. l + 1 \in (l + 1)..Len(model[m].text)
        BY <3>0, <4>2, <4>3
      <4>5. l + 1 = n \/ l + 1 \in Queued(m) \cup Relayed(m)
        BY <4>1, <4>4
      <4>6. \A y \in Queued(m) \cup Relayed(m) : n < y
        BY <1>14, <2>1, <2>5 DEF Flow, n
      <4>7. QED
        BY <3>0, <4>2, <4>3, <4>5, <4>6
    <3>2. ShownText(m)' = r.text
      <4>1. r.text[Len(r.text)] # Error
        BY <1>11, <1>16, <1>3, <2>5 DEF Error
      <4>2. QED
        BY <1>6, <1>11, <4>1 DEF ShownText, Placed, Place
    <3>3. \A i \in 1..Len(r.text) : r.text[i] = i
      <4>1. \A i \in 1..l : before[i] = i
        BY <1>3, <2>1 DEF Flow
      <4>2. QED
        BY <1>3, <1>11, <2>5, <3>0, <3>1, <4>1
    <3>4. /\ Len(r.text) <= Len(model[m].text)
          /\ Queued(m) \cup Relayed(m) = (Len(r.text) + 1)..Len(model[m].text)
      <4>1. {n} \cup Queued(m) \cup Relayed(m) = (l + 1)..Len(model[m].text)
        BY <1>3, <1>14, <2>1, <2>5 DEF Flow
      <4>2. Len(model[m].text) \in Nat
        BY <1>0, OnTheWay
      <4>3. \A y \in Queued(m) \cup Relayed(m) : n < y
        BY <1>14, <2>1, <2>5 DEF Flow
      <4>4. Len(r.text) = n
        BY <1>11, <3>1
      <4>. HIDE DEF l, n
      <4>5. n <= Len(model[m].text)
        <5>1. n \in (l + 1)..Len(model[m].text)
          BY <4>1
        <5>2. QED
          BY <3>0, <4>2, <5>1
      <4>6. Queued(m) \cup Relayed(m) = (n + 1)..Len(model[m].text)
        <5>1. \A y \in Queued(m) \cup Relayed(m) : y \in (n + 1)..Len(model[m].text)
          BY <3>0, <3>1, <4>1, <4>2, <4>3
        <5>2. \A y \in (n + 1)..Len(model[m].text) : y \in Queued(m) \cup Relayed(m)
          BY <3>0, <3>1, <4>1, <4>2
        <5>3. QED
          BY <5>1, <5>2
      <4>7. QED
        BY <4>4, <4>5, <4>6
    <3>5. Flow(m)'
      BY <1>1, <1>15, <2>1, <2>2, <2>3, <3>2, <3>3, <3>4 DEF Flow, SameModel, SameChunks, SameUpdates
    <3>6. QED
      BY <1>3, <1>11, <2>5, <3>2, <3>5
  <2>6. QED
    BY <1>2, <2>4, <2>5
<1>20. QED
  BY <1>1, <1>2, <1>6, <1>7, <1>8, <1>12, <1>13, <1>18, <1>19 DEF MentionOK

\* Inserting the message or the row of a tool keeps the invariant.
LEMMA InsertKeeps ==
  ASSUME TypeOK, SessionsOK, MentionsOK, NEW s \in Sessions, InsertRow(s),
         NEW m \in Mentions, m = Update(s).m
  PROVE  MentionOK(m)'
<1>0. MentionOK(m) /\ WriterStep(s) /\ writer[s].pc # "recv" /\ writer[s].pc = "insert"
  BY DEF MentionsOK, WriterStep, InsertRow, Writes
<1>1. /\ SessionOf[m] = s /\ W(m) = writer[s] /\ W(m)' = writer'[s] /\ Update(s) = W(m).update
      /\ InHand(m) /\ Placed(m) /\ Place(m) \in Row /\ W(m) \in WriterStates
      /\ W(m).update \in Updates /\ W(m).update.m = m /\ W(m).pc \in PlacesOf(W(m).update.kind)
      /\ SameModel(m) /\ SameChunks(m) /\ SameRelay(m) /\ SameUpdates(m) /\ InQueue(m)' = InQueue(m)
  BY <1>0, Busy
<1>. DEFINE kind == W(m).update.kind
<1>2. kind \in {"call", "result", "complete"} /\ W(m).update.n \in Nat /\ Open(m)
  BY <1>0, <1>1 DEF Updates, UpdateKinds, PlacesOf, MentionOK, Writing
<1>3. User \in Kinds /\ Thinking \in Kinds /\ Message \in Kinds /\ Message # User /\ Message # Thinking
  BY KindsOK, DistinctRows
<1>4. SamePlace(m) /\ SameUser(m)
  <2>1. CASE kind = "complete"
    <3>1. PICK r : r = NewRow(writer[s].position, writer[s].content, FALSE)
      OBVIOUS
    <3>2. row' = [row EXCEPT ![m][Message] = r]
      BY <1>1, <2>1, <3>1 DEF InsertRow
    <3>3. QED
      BY <1>3, <3>2 DEF TypeOK, SamePlace, SameUser
  <2>2. CASE kind # "complete"
    <3>1. PICK r, k : r = NewRow(writer[s].position, <<>>, kind = "call") /\ k = <<kind, W(m).update.n>>
      OBVIOUS
    <3>2. row' = [row EXCEPT ![m][k] = r]
      BY <1>1, <2>2, <3>1 DEF InsertRow
    <3>3. k # User /\ k # Thinking
      BY <1>2, <2>2, <3>1, DistinctRows
    <3>4. QED
      BY <1>3, <3>2, <3>3 DEF TypeOK, SamePlace, SameUser
  <2>3. QED
    BY <2>1, <2>2
<1>5. /\ Placed(m)' = Placed(m) /\ Place(m)' = Place(m) /\ Ended(m)' = Ended(m) /\ ShownText(m)' = ShownText(m)
  BY <1>4, SameShown
<1>6. Handling(m)' /\ Quiet(m)' /\ EndIsLast(m)' /\ Numbered(m)'
  BY <1>0, <1>1, <1>4, <1>5, Busy
<1>7. W(m)'.pc \in {"recv", "ephemeral"}
  BY <1>1, Moved DEF InsertRow
<1>8. Flow(m)'
  <2>1. Held(m)' = {} /\ Held(m) = {}
    BY <1>0, <1>1, <1>7 DEF Held, HoldsText, W
  <2>2. QED
    BY <1>0, <1>1, <1>5, <2>1, FlowStays DEF MentionOK
<1>9. ConclusionIsLast(m) /\ Q(m)' = Q(m) /\ relay'[m] = relay[m]
  BY <1>0, <1>1 DEF MentionOK, SameUpdates, SameRelay
<1>10. CASE kind = "complete"
  <2>1. Place(m).text # None /\ W(m).content = Place(m).text
    BY <1>0, <1>1, <1>10 DEF MentionOK, Writing
  <2>2. PICK r \in Row : r = NewRow(writer[s].position, writer[s].content, FALSE)
    <3>1. writer[s].position \in Nat /\ writer[s].content \in Seq(Nat) \cup {None} /\ FALSE \in BOOLEAN
      BY <1>1 DEF WriterStates
    <3>2. QED
      BY <3>1, NewRows
  <2>3. r.text = Place(m).text /\ r # None
    BY <1>1, <2>1, <2>2, RowAssumption DEF NewRow
  <2>4. row'[m][Message] = r
    <3>1. row' = [row EXCEPT ![m][Message] = r]
      BY <1>1, <1>10, <2>2 DEF InsertRow
    <3>2. QED
      BY <1>3, <3>1 DEF TypeOK
  <2>5. Exists(m, Message)'
    BY <2>3, <2>4 DEF Exists
  <2>6. W(m)'.pc = "ephemeral" /\ W(m)'.update = W(m).update /\ InHand(m)'
    BY <1>1, <1>10, Moved DEF InsertRow, InHand
  <2>7. relay[m].pc = "done" /\ InQueue(m) = {}
    BY <1>1, <1>9, <1>10 DEF ConclusionIsLast, Ends
  <2>8. ConclusionIsLast(m)'
    BY <1>1, <1>9, <2>7 DEF ConclusionIsLast
  <2>9. Writing(m)'
    BY <1>2, <1>5, <1>10, <2>5, <2>6 DEF Writing, PlacesOf, Open
  <2>10. Rows(m)'
    <3>1. ~Ended(m) /\ ~Place(m).final
      BY <1>0, <1>1, <1>2 DEF MentionOK, Rows, Open
    <3>2. Place(m).mutable = ~Place(m).final /\ Place(m).text # <<>>
      BY <1>0, <1>1 DEF MentionOK, Rows
    <3>3. QED
      BY <1>5, <1>10, <2>1, <2>3, <2>4, <2>6, <3>1, <3>2 DEF Rows
  <2>11. QED
    BY <1>6, <1>8, <2>8, <2>9, <2>10 DEF MentionOK
<1>11. CASE kind # "complete"
  <2>1. SameMessage(m)
    <3>1. PICK r, k : r = NewRow(writer[s].position, <<>>, kind = "call") /\ k = <<kind, W(m).update.n>>
      OBVIOUS
    <3>2. row' = [row EXCEPT ![m][k] = r]
      BY <1>1, <1>11, <3>1 DEF InsertRow
    <3>3. k # Message
      BY <1>2, <1>11, <3>1, DistinctRows
    <3>4. QED
      BY <1>3, <3>2, <3>3 DEF TypeOK, SameMessage
  <2>2. ~InHand(m)'
    BY <1>1, <1>11, Moved DEF InsertRow, InHand
  <2>3. Exists(m, Message)' = Exists(m, Message) /\ Open(m)'
    BY <1>2, <1>5, <2>1 DEF SameMessage, Exists, Open
  <2>4. ConclusionIsLast(m)'
    BY <1>1, <1>9, <2>2, <2>3 DEF ConclusionIsLast
  <2>5. Writing(m)'
    BY <2>2 DEF Writing
  <2>6. Rows(m)'
    <3>1. ~Ended(m) /\ ~Place(m).final /\ ~Exists(m, Message)
      BY <1>0, <1>1, <1>2 DEF MentionOK, Rows, Open
    <3>2. Place(m).mutable = ~Place(m).final /\ Place(m).text # <<>>
      BY <1>0, <1>1 DEF MentionOK, Rows
    <3>3. QED
      BY <1>5, <2>3, <3>1, <3>2 DEF Rows
  <2>7. QED
    BY <1>6, <1>8, <2>4, <2>5, <2>6 DEF MentionOK
<1>12. QED
  BY <1>10, <1>11

\* Hiding and finalising the placeholder keep the invariant.
LEMMA HideKeeps ==
  ASSUME TypeOK, SessionsOK, MentionsOK, NEW s \in Sessions, SetEphemeral(s) \/ FinalizeRow(s),
         NEW m \in Mentions, m = Update(s).m
  PROVE  MentionOK(m)'
<1>0. MentionOK(m) /\ WriterStep(s) /\ writer[s].pc # "recv" /\ writer[s].pc \in {"ephemeral", "finalize"}
  BY DEF MentionsOK, WriterStep, SetEphemeral, FinalizeRow, Writes
<1>1. /\ SessionOf[m] = s /\ W(m) = writer[s] /\ W(m)' = writer'[s] /\ Update(s) = W(m).update
      /\ InHand(m) /\ Placed(m) /\ Place(m) \in Row /\ W(m) \in WriterStates
      /\ W(m).update \in Updates /\ W(m).update.m = m /\ W(m).pc \in PlacesOf(W(m).update.kind)
      /\ SameModel(m) /\ SameChunks(m) /\ SameRelay(m) /\ SameUpdates(m) /\ InQueue(m)' = InQueue(m)
  BY <1>0, Busy
<1>. DEFINE kind == W(m).update.kind
<1>2. kind \in Ends /\ (W(m).pc = "ephemeral" => kind = "complete")
  BY <1>0, <1>1 DEF Updates, UpdateKinds, PlacesOf, Ends
<1>3. PICK r \in Row : /\ row' = [row EXCEPT ![m][Thinking] = r]
                       /\ SetEphemeral(s) => r = HideRow(Place(m))
                       /\ FinalizeRow(s) => r = Finalized(Place(m))
  <2>1. HideRow(Place(m)) \in Row /\ Finalized(Place(m)) \in Row
    BY <1>1, RowOperations
  <2>2. CASE SetEphemeral(s)
    <3>1. ~FinalizeRow(s) /\ row' = [row EXCEPT ![m][Thinking] = HideRow(Place(m))]
      BY <1>1, <2>2 DEF SetEphemeral, FinalizeRow, Writes, Place
    <3>2. QED
      BY <2>1, <3>1
  <2>3. CASE FinalizeRow(s)
    <3>1. ~SetEphemeral(s) /\ row' = [row EXCEPT ![m][Thinking] = Finalized(Place(m))]
      BY <1>1, <2>3 DEF SetEphemeral, FinalizeRow, Writes, Place
    <3>2. QED
      BY <2>1, <3>1
  <2>4. QED
    BY <2>2, <2>3
<1>4. /\ SameUser(m) /\ SameMessage(m) /\ Exists(m, Message)' = Exists(m, Message)
      /\ Placed(m)' /\ Place(m)' = r /\ row'[m][Message] = row[m][Message]
  BY <1>3, OnlyPlace DEF SameMessage
<1>5. /\ SetEphemeral(s) => /\ r.text = Place(m).text /\ r.final = Place(m).final
                            /\ r.mutable = Place(m).mutable /\ r.ephemeral
      /\ FinalizeRow(s) => /\ r.text = Place(m).text /\ r.final /\ ~r.mutable
                           /\ r.ephemeral = Place(m).ephemeral
  BY <1>1, <1>3 DEF HideRow, Finalized, Row
<1>6. r.text = Place(m).text
  BY <1>5
<1>7. Handling(m)' /\ Quiet(m)' /\ EndIsLast(m)' /\ Numbered(m)'
  BY <1>0, <1>4, Busy
<1>8. /\ SetEphemeral(s) => W(m)'.pc = "finalize" /\ W(m).pc = "ephemeral"
      /\ FinalizeRow(s) => W(m)'.pc = "idle" /\ W(m).pc = "finalize"
      /\ W(m)'.update = W(m).update /\ InHand(m)'
  BY <1>1, Moved DEF SetEphemeral, FinalizeRow, Writes, InHand
<1>9. Ended(m)' = Ended(m) /\ ShownText(m)' = ShownText(m)
  <2>1. Ended(m)' = Ended(m)
    BY <1>4, <1>6 DEF Ended
  <2>2. ShownText(m)' = LET text == IF Placed(m)' /\ Place(m)'.text # None THEN Place(m)'.text ELSE <<>>
                        IN  IF text # <<>> /\ text[Len(text)] = Error
                            THEN SubSeq(text, 1, Len(text) - 1) ELSE text
    BY DEF ShownText, Placed, Place
  <2>3. ShownText(m) = LET text == IF Placed(m) /\ Place(m).text # None THEN Place(m).text ELSE <<>>
                        IN  IF text # <<>> /\ text[Len(text)] = Error
                            THEN SubSeq(text, 1, Len(text) - 1) ELSE text
    BY DEF ShownText, Placed, Place
  <2>4. QED
    BY <1>1, <1>4, <1>6, <2>1, <2>2, <2>3
<1>10. Flow(m)'
  <2>1. Held(m)' = {} /\ Held(m) = {}
    BY <1>0, <1>1, <1>8 DEF Held, HoldsText, W
  <2>2. QED
    BY <1>0, <1>1, <1>9, <2>1, FlowStays DEF MentionOK
<1>11. relay[m].pc = "done" /\ InQueue(m) = {} /\ relay'[m] = relay[m]
  BY <1>0, <1>1, <1>2 DEF MentionOK, ConclusionIsLast, SameRelay
<1>12. ConclusionIsLast(m)'
  BY <1>1, <1>11 DEF ConclusionIsLast
<1>13. Writing(m) /\ Rows(m)
  BY <1>0 DEF MentionOK
<1>14. CASE SetEphemeral(s)
  <2>1. Exists(m, Message) /\ kind = "complete" /\ ~Place(m).final
    BY <1>1, <1>2, <1>8, <1>13, <1>14 DEF Writing
  <2>2. Place(m).text # None
    BY <1>1, <1>13, <2>1 DEF Rows
  <2>3. Writing(m)'
    BY <1>4, <1>5, <1>8, <1>14, <2>1, <2>2 DEF Writing, PlacesOf
  <2>4. Rows(m)'
    BY <1>1, <1>4, <1>5, <1>8, <1>9, <1>13, <1>14, <2>1 DEF Rows
  <2>5. QED
    BY <1>7, <1>10, <1>12, <2>3, <2>4 DEF MentionOK
<1>15. CASE FinalizeRow(s)
  <2>1. Exists(m, Message) => Place(m).ephemeral
    <3>1. CASE kind = "complete"
      BY <1>1, <1>8, <1>13, <1>15, <3>1 DEF Writing
    <3>2. CASE kind = "error"
      BY <1>1, <1>8, <1>13, <1>15, <3>2 DEF Writing
    <3>3. QED
      BY <1>2, <3>1, <3>2 DEF Ends
  <2>2. Writing(m)'
    BY <1>2, <1>4, <1>5, <1>8, <1>15 DEF Writing, PlacesOf, Ends
  <2>3. Rows(m)'
    <3>1. /\ Place(m).text # <<>>
          /\ Exists(m, Message) => ~Ended(m) /\ row[m][Message].text = Place(m).text /\ Place(m).text # None
      BY <1>1, <1>13 DEF Rows
    <3>2. /\ Place(m)'.final /\ ~Place(m)'.mutable /\ Place(m)'.text = Place(m).text
          /\ Place(m)'.ephemeral = Place(m).ephemeral /\ Place(m)'.mutable \in BOOLEAN
      BY <1>4, <1>5, <1>15 DEF Row
    <3>3. InQueue(m)' = {} /\ W(m)'.pc = "idle"
      BY <1>1, <1>8, <1>11, <1>15
    <3>4. QED
      BY <1>4, <1>9, <1>11, <2>1, <3>1, <3>2, <3>3 DEF Rows
  <2>4. QED
    BY <1>7, <1>10, <1>12, <2>2, <2>3 DEF MentionOK
<1>16. QED
  BY <1>14, <1>15

\* A step of the writer keeps the invariant of the mention it serves.
LEMMA WriterKeeps ==
  ASSUME TypeOK, SessionsOK, MentionsOK, NEW s \in Sessions, WriterStep(s),
         NEW m \in Mentions, m = Served(s)
  PROVE  MentionOK(m)'
<1>1. CASE ReceiveUpdate(s)
  BY <1>1, ReceiveKeeps DEF MentionsOK
<1>2. CASE ~ReceiveUpdate(s)
  <2>1. writer[s].pc # "recv"
    BY <1>2 DEF WriterStep, WriteText, SetRunningTool, GetContent, LastPosition,
              InsertRow, SetEphemeral, FinalizeRow, SetIdle, Writes
  <2>2. m = Update(s).m
    BY <2>1 DEF Served
  <2>3. QED
    BY <1>2, <2>1, <2>2, ReadingKeeps, WriteKeeps, InsertKeeps, HideKeeps DEF WriterStep
<1>3. QED
  BY <1>1, <1>2

-----------------------------------------------------------------------------
(* The invariant holds                                                     *)

\* The invariant holds initially.
LEMMA InvInit == Init => IInv
<1>. SUFFICES ASSUME Init PROVE IInv
  OBVIOUS
<1>1. TypeOK
  BY TypeInit
<1>2. \A m \in Mentions, kind \in Kinds : row[m][kind] = None
  BY DEF Init
<1>3. Bounded
  <2>1. 0 \in Nat /\ \A m \in Mentions, kind \in Kinds : ~Exists(m, kind)
    BY <1>2 DEF Exists
  <2>2. QED
    BY <2>1 DEF Bounded
<1>4. \A s \in Sessions : SessionOK(s)
  BY DEF Init, SessionOK
<1>5. ASSUME NEW m \in Mentions PROVE MentionOK(m)
  <2>1. ~Placed(m) /\ ~Exists(m, User) /\ ~Exists(m, Message)
    BY <1>2, KindsOK DEF Placed, Exists
  <2>2. /\ model[m].pc = "idle" /\ model[m].text = <<>> /\ chunks[m] = <<>> /\ relay[m].pc = "idle"
        /\ Q(m) = <<>> /\ W(m).pc = "recv" /\ H(m).pc = "idle" /\ H(m).m = None
    BY SessionAssumption DEF Init, Q, W, H
  <2>3. InQueue(m) = {} /\ ~InHand(m)
    BY <2>2 DEF InQueue, InHand
  <2>4. Handling(m) /\ Quiet(m) /\ EndIsLast(m) /\ ConclusionIsLast(m) /\ Writing(m) /\ Rows(m) /\ Numbered(m)
    BY <2>1, <2>2, <2>3, NoneAssumption
       DEF Handling, Quiet, EndIsLast, ConclusionIsLast, Writing, Rows, Numbered
  <2>5. Flow(m)
    <3>1. ShownText(m) = <<>>
      BY <2>1 DEF ShownText, Placed
    <3>2. TextUpdates(m) = {} /\ TextChunks(m) = {} /\ Held(m) = {}
      BY <2>2 DEF TextUpdates, TextChunks, Held, HoldsText, Q, W
    <3>3. Queued(m) = {} /\ Relayed(m) = {}
      BY <3>2 DEF Queued, Relayed
    <3>4. QED
      BY <2>2, <3>1, <3>2, <3>3 DEF Flow
  <2>6. QED
    BY <2>4, <2>5 DEF MentionOK
<1>6. QED
  BY <1>1, <1>3, <1>4, <1>5 DEF IInv

\* Every step keeps the invariant.
LEMMA InvStep == IInv /\ [Next]_vars => IInv'
<1>. SUFFICES ASSUME IInv, [Next]_vars PROVE IInv'
  OBVIOUS
<1>0. TypeOK /\ Bounded /\ SessionsOK /\ MentionsOK /\ \A m \in Mentions : MentionOK(m)
  BY DEF IInv, SessionsOK, MentionsOK
<1>1. CASE UNCHANGED vars
  <2>1. TypeOK' /\ Bounded'
    <3>1. TypeOK'
      BY <1>0, <1>1 DEF vars, TypeOK
    <3>2. Bounded'
      BY <1>0, <1>1 DEF vars, Bounded, Exists
    <3>3. QED
      BY <3>1, <3>2
  <2>2. \A s \in Sessions : SessionOK(s)'
    BY <1>0, <1>1 DEF vars, SessionsOK, SessionOK
  <2>3. \A m \in Mentions : Untouched(m)
    BY <1>1 DEF vars, Untouched, H, W, Q
  <2>4. \A m \in Mentions : MentionOK(m)'
    BY <1>0, <2>3, OthersKeep
  <2>5. QED
    BY <2>1, <2>2, <2>4 DEF IInv
<1>2. CASE Next
  <2>1. TypeOK' /\ Bounded' /\ SessionsOK'
    BY <1>0, <1>2, TypeStep, SessionsStep
  <2>2. ASSUME NEW m \in Mentions PROVE MentionOK(m)'
    <3>1. ASSUME NEW s \in Sessions, HandlerStep(s) PROVE MentionOK(m)'
      BY <1>0, <3>1, HandlerFrame, HandlerKeeps, OthersKeep
    <3>2. ASSUME NEW s \in Sessions, WriterStep(s) PROVE MentionOK(m)'
      BY <1>0, <3>2, WriterFrame, WriterKeeps, OthersKeep
    <3>3. ASSUME NEW k \in Mentions, ModelStep(k) PROVE MentionOK(m)'
      BY <1>0, <3>3, ModelFrame, ModelKeeps, OthersKeep
    <3>4. ASSUME NEW k \in Mentions, RelayStep(k) PROVE MentionOK(m)'
      BY <1>0, <3>4, RelayFrame, RelayKeeps, OthersKeep
    <3>5. QED
      BY <1>2, <3>1, <3>2, <3>3, <3>4 DEF Next
  <2>3. QED
    BY <2>1, <2>2 DEF IInv, SessionsOK
<1>3. QED
  BY <1>1, <1>2

\* The text that is shown is a number of pieces in order.
LEMMA ShownIsText ==
  ASSUME TypeOK, NEW m \in Mentions
  PROVE  ShownText(m) \in Seq(Nat)
<1>. DEFINE t == IF Exists(m, Thinking) /\ row[m][Thinking].text # None
                 THEN row[m][Thinking].text ELSE <<>>
<1>1. t \in Seq(Nat)
  <2>1. CASE Exists(m, Thinking) /\ row[m][Thinking].text # None
    <3>1. row[m][Thinking] \in Row
      BY <2>1, KindsOK DEF TypeOK, Exists
    <3>2. QED
      BY <2>1, <3>1 DEF Row
  <2>2. CASE ~(Exists(m, Thinking) /\ row[m][Thinking].text # None)
    BY <2>2
  <2>3. QED
    BY <2>1, <2>2
<1>2. ShownText(m) = IF t # <<>> /\ t[Len(t)] = Error THEN SubSeq(t, 1, Len(t) - 1) ELSE t
  BY DEF ShownText
<1>. HIDE DEF t
<1>3. t # <<>> => SubSeq(t, 1, Len(t) - 1) \in Seq(Nat)
  BY <1>1
<1>4. QED
  BY <1>1, <1>2, <1>3

\* The invariant implies that no text is lost.
LEMMA Conserved == IInv => TextIsConserved
<1>. SUFFICES ASSUME IInv, NEW m \in Mentions
              PROVE  LET s == SessionOf[m]
                         there == Len(ShownText(m))
                     IN /\ there <= Len(model[m].text) /\ ShownText(m) = SubSeq(model[m].text, 1, there)
                        /\ Held(m) \cup Queued(m) \cup Relayed(m) = (there + 1)..Len(model[m].text)
                        /\ \A x \in Held(m), y \in Queued(m) \cup Relayed(m) : x < y
                        /\ \A x \in Queued(m), y \in Relayed(m) : x < y
                        /\ \A i, j \in TextUpdates(m) : i < j => updates[s][i].n < updates[s][j].n
                        /\ \A i, j \in TextChunks(m) : i < j => chunks[m][i].n < chunks[m][j].n
  BY DEF TextIsConserved
<1>1. TypeOK /\ Flow(m) /\ Numbered(m)
  BY DEF IInv, MentionOK
<1>2. ShownText(m) \in Seq(Nat) /\ model[m].text \in Seq(Nat)
  BY <1>1, ShownIsText DEF TypeOK, ModelStates
<1>3. ShownText(m) = SubSeq(model[m].text, 1, Len(ShownText(m)))
  <2>1. PICK a, b \in Seq(Nat) : a = ShownText(m) /\ b = model[m].text
    BY <1>2
  <2>2. Len(a) \in Nat /\ Len(b) \in Nat /\ Len(a) <= Len(b) /\ DOMAIN b = 1..Len(b)
        /\ (\A i \in 1..Len(a) : a[i] = i) /\ (\A i \in 1..Len(b) : b[i] = i)
    BY <1>1, <2>1 DEF Flow, Numbered
  <2>3. SubSeq(b, 1, Len(a)) \in Seq(Nat) /\ Len(SubSeq(b, 1, Len(a))) = Len(a)
        /\ \A i \in 1..Len(a) : SubSeq(b, 1, Len(a))[i] = b[i]
    BY <2>2
  <2>4. a = SubSeq(b, 1, Len(a))
    BY <2>2, <2>3
  <2>5. QED
    BY <2>1, <2>4
<1>4. QED
  BY <1>1, <1>3 DEF Flow, Q

\* The invariant implies that a reply is shown once.
LEMMA Once == IInv => ShownOnce
<1>. SUFFICES ASSUME IInv, NEW m \in Mentions, Exists(m, Message)
              PROVE  \/ row[m][Thinking].ephemeral
                     \/ writer[SessionOf[m]].pc = "ephemeral" /\ Update(SessionOf[m]).m = m
  BY DEF ShownOnce
<1>1. Quiet(m) /\ Rows(m) /\ Writing(m)
  BY DEF IInv, MentionOK
<1>2. Placed(m)
  BY <1>1 DEF Quiet
<1>3. \/ Place(m).ephemeral
      \/ InHand(m) /\ W(m).update.kind = "complete" /\ W(m).pc \in {"ephemeral", "finalize"}
  BY <1>1, <1>2 DEF Rows
<1>4. QED
  BY <1>1, <1>3 DEF Writing, Place, InHand, W, Update

\* The rows, the channels and the tasks of replies always have their types:
\* neither channel ever holds more than its capacity.  (ops.rs, db/rows.rs)
THEOREM StreamTypes == SafeSpec => []TypeOK
<1>1. IInv => TypeOK
  BY DEF IInv
<1>2. QED
  BY InvInit, InvStep, <1>1, PTL DEF SafeSpec

\* Nothing a model says is lost, doubled or put out of order on its way to the
\* row, for any number of replies that share the channel of their session and
\* any capacities.  (ops.rs relay, push_updates_task)
THEOREM TextConserved == SafeSpec => []TextIsConserved
BY InvInit, InvStep, Conserved, PTL DEF SafeSpec

\* The history never shows a reply twice, but for the moment in which the
\* placeholder is about to be hidden.  (push_updates_task, complete)
THEOREM ReplyShownOnce == SafeSpec => []ShownOnce
BY InvInit, InvStep, Once, PTL DEF SafeSpec

-----------------------------------------------------------------------------
(* The rows implement the reply a user is promised                         *)

Said(m) == model[m].text

\* A mention that looks the same in the abstract.
Kept(m) ==
  /\ Said(m)' = Said(m) /\ ShownText(m)' = ShownText(m)
  /\ Published(m)' = Published(m) /\ Phase(m)' = Phase(m)

\* A mention whose rows and text stay is the same reply.
LEMMA KeptRows ==
  ASSUME NEW m, SamePlace(m), SameMessage(m), Said(m)' = Said(m)
  PROVE  Kept(m)
<1>1. Published(m)' = Published(m)
  BY DEF SameMessage, Published, Exists
<1>2. Phase(m)' = Phase(m)
  BY DEF SamePlace, SameMessage, Phase, IsFinal, Exists
<1>3. QED
  BY <1>1, <1>2, SameShown DEF Kept

\* A mention that a step does not touch is the same reply.
LEMMA KeptUntouched ==
  ASSUME NEW m, Untouched(m)
  PROVE  Kept(m)
BY KeptRows DEF Untouched, SamePlace, SameMessage, Said

\* A step that changes no reply stutters in Reply.
LEMMA Stutters ==
  ASSUME \A m \in Mentions : Kept(m)
  PROVE  UNCHANGED R!replyVars
<1>1. [m \in Mentions |-> model[m].text]' = [m \in Mentions |-> model[m].text]
  BY DEF Kept, Said
<1>2. [m \in Mentions |-> ShownText(m)]' = [m \in Mentions |-> ShownText(m)]
  BY DEF Kept
<1>3. [m \in Mentions |-> Published(m)]' = [m \in Mentions |-> Published(m)]
  BY DEF Kept
<1>4. [m \in Mentions |-> Phase(m)]' = [m \in Mentions |-> Phase(m)]
  BY DEF Kept
<1>5. QED
  BY <1>1, <1>2, <1>3, <1>4 DEF R!replyVars

\* The phase of a reply, from the rows of its mention.
LEMMA Phases ==
  ASSUME TypeOK, NEW m \in Mentions, MentionOK(m)
  PROVE  /\ ~Placed(m) => Phase(m) = "none"
         /\ Placed(m) /\ ~Place(m).final => Phase(m) = "open"
         /\ Placed(m) /\ Place(m).final /\ Exists(m, Message) => Phase(m) = "answered"
         /\ Placed(m) /\ Place(m).final /\ ~Exists(m, Message) =>
              Phase(m) = IF Place(m).text = None THEN "blank" ELSE "failed"
         /\ ~Exists(m, Message) => Published(m) = None
         /\ Placed(m) /\ Exists(m, Message) => Published(m) = Place(m).text /\ Published(m) # None
<1>1. ~Placed(m) => Phase(m) = "none"
  BY DEF Placed, Phase, IsFinal
<1>2. Placed(m) => Place(m).final \in BOOLEAN
  BY ViewTypes DEF Placed, Exists, Place, Row
<1>3. Placed(m) => (IsFinal(m) <=> Place(m).final)
  BY DEF Placed, Place, IsFinal
<1>4. Placed(m) /\ ~Place(m).final => Phase(m) = "open"
  BY <1>3 DEF Placed, Phase
<1>5. Placed(m) /\ Place(m).final /\ Exists(m, Message) => Phase(m) = "answered"
  BY <1>3 DEF Placed, Phase
<1>6. Placed(m) /\ Place(m).final /\ ~Exists(m, Message) =>
              Phase(m) = IF Place(m).text = None THEN "blank" ELSE "failed"
  BY <1>3 DEF Placed, Place, Phase
<1>7. ~Exists(m, Message) => Published(m) = None
  BY DEF Published
<1>8. Placed(m) /\ Exists(m, Message) => Published(m) = Place(m).text /\ Published(m) # None
  BY DEF MentionOK, Rows, Published
<1>9. QED
  BY <1>1, <1>4, <1>5, <1>6, <1>7, <1>8

\* Each step of the abstract reply.
LEMMA Opens ==
  ASSUME NEW k \in Mentions, \A m \in Mentions : m # k => Kept(m),
         Phase(k) = "none", Phase(k)' = "open", Said(k)' = Said(k),
         ShownText(k)' = ShownText(k), Published(k)' = Published(k)
  PROVE  R!Next
<1>1. R!Open(k)
  <2>1. [m \in Mentions |-> Phase(m)]' = [[m \in Mentions |-> Phase(m)] EXCEPT ![k] = "open"]
    BY DEF Kept
  <2>2. [m \in Mentions |-> model[m].text]' = [m \in Mentions |-> model[m].text]
    BY DEF Kept, Said
  <2>3. [m \in Mentions |-> ShownText(m)]' = [m \in Mentions |-> ShownText(m)]
    BY DEF Kept
  <2>4. [m \in Mentions |-> Published(m)]' = [m \in Mentions |-> Published(m)]
    BY DEF Kept
  <2>5. QED
    BY <2>1, <2>2, <2>3, <2>4 DEF R!Open
<1>2. QED
  BY <1>1 DEF R!Next

\* A step that says one piece is Say of Reply.
LEMMA Says ==
  ASSUME NEW k \in Mentions, \A m \in Mentions : m # k => Kept(m),
         Phase(k) = "open", Phase(k)' = "open", Said(k)' = Append(Said(k), Len(Said(k)) + 1),
         ShownText(k)' = ShownText(k), Published(k)' = Published(k), Published(k) = None
  PROVE  R!Next
<1>1. R!Say(k)
  <2>1. [m \in Mentions |-> model[m].text]' =
          [[m \in Mentions |-> model[m].text] EXCEPT ![k] = Append(@, Len(@) + 1)]
    BY DEF Kept, Said
  <2>2. [m \in Mentions |-> Phase(m)]' = [m \in Mentions |-> Phase(m)]
    BY DEF Kept
  <2>3. [m \in Mentions |-> ShownText(m)]' = [m \in Mentions |-> ShownText(m)]
    BY DEF Kept
  <2>4. [m \in Mentions |-> Published(m)]' = [m \in Mentions |-> Published(m)]
    BY DEF Kept
  <2>5. QED
    BY <2>1, <2>2, <2>3, <2>4 DEF R!Say
<1>2. QED
  BY <1>1 DEF R!Next

\* A step that shows one piece is Show of Reply.
LEMMA Shows ==
  ASSUME NEW k \in Mentions, \A m \in Mentions : m # k => Kept(m),
         Phase(k) = "open", Phase(k)' = "open", Said(k)' = Said(k),
         Len(ShownText(k)) < Len(Said(k)),
         ShownText(k)' = SubSeq(Said(k), 1, Len(ShownText(k)) + 1),
         Published(k)' = Published(k), Published(k) = None
  PROVE  R!Next
<1>1. R!Show(k)
  <2>1. [m \in Mentions |-> ShownText(m)]' =
          [[m \in Mentions |-> ShownText(m)] EXCEPT
             ![k] = SubSeq([m \in Mentions |-> model[m].text][k], 1, Len(@) + 1)]
    BY DEF Kept, Said
  <2>2. [m \in Mentions |-> Phase(m)]' = [m \in Mentions |-> Phase(m)]
    BY DEF Kept
  <2>3. [m \in Mentions |-> model[m].text]' = [m \in Mentions |-> model[m].text]
    BY DEF Kept, Said
  <2>4. [m \in Mentions |-> Published(m)]' = [m \in Mentions |-> Published(m)]
    BY DEF Kept
  <2>5. QED
    BY <2>1, <2>2, <2>3, <2>4 DEF R!Show, Said
<1>2. QED
  BY <1>1 DEF R!Next

\* A step that makes the message is Publish of Reply.
LEMMA Publishes ==
  ASSUME NEW k \in Mentions, \A m \in Mentions : m # k => Kept(m),
         Phase(k) = "open", Phase(k)' = "open", Said(k)' = Said(k), ShownText(k)' = ShownText(k),
         ShownText(k) = Said(k), Said(k) # <<>>, Published(k) = None, Published(k)' = Said(k)
  PROVE  R!Next
<1>1. R!Publish(k)
  <2>1. [m \in Mentions |-> Published(m)]' =
          [[m \in Mentions |-> Published(m)] EXCEPT ![k] = [m \in Mentions |-> model[m].text][k]]
    BY DEF Kept, Said
  <2>2. [m \in Mentions |-> Phase(m)]' = [m \in Mentions |-> Phase(m)]
    BY DEF Kept
  <2>3. [m \in Mentions |-> model[m].text]' = [m \in Mentions |-> model[m].text]
    BY DEF Kept, Said
  <2>4. [m \in Mentions |-> ShownText(m)]' = [m \in Mentions |-> ShownText(m)]
    BY DEF Kept
  <2>5. QED
    BY <2>1, <2>2, <2>3, <2>4 DEF R!Publish, Said
<1>2. QED
  BY <1>1 DEF R!Next

\* A step that finalises the placeholder is Close of Reply.
LEMMA Closes ==
  ASSUME NEW k \in Mentions, \A m \in Mentions : m # k => Kept(m),
         Phase(k) = "open", Said(k)' = Said(k), ShownText(k)' = ShownText(k),
         ShownText(k) = Said(k), Published(k)' = Published(k),
         \/ Published(k) # None /\ Phase(k)' = "answered"
         \/ Published(k) = None /\ Phase(k)' = "failed"
         \/ Said(k) = <<>> /\ Phase(k)' = "blank"
  PROVE  R!Next
<1>1. R!Close(k)
  <2>1. \A p : Phase(k)' = p =>
          [m \in Mentions |-> Phase(m)]' = [[m \in Mentions |-> Phase(m)] EXCEPT ![k] = p]
    BY DEF Kept
  <2>2. [m \in Mentions |-> Published(m)]' = [m \in Mentions |-> Published(m)]
    BY DEF Kept
  <2>3. [m \in Mentions |-> model[m].text]' = [m \in Mentions |-> model[m].text]
    BY DEF Kept, Said
  <2>4. [m \in Mentions |-> ShownText(m)]' = [m \in Mentions |-> ShownText(m)]
    BY DEF Kept
  <2>5. QED
    BY <2>1, <2>2, <2>3, <2>4 DEF R!Close, Said
<1>2. QED
  BY <1>1 DEF R!Next

\* With nothing on its way, all that was said is shown.
LEMMA AllShown ==
  ASSUME TypeOK, NEW m \in Mentions, MentionOK(m), InHand(m), W(m).update.kind \in Ends
  PROVE  ShownText(m) = Said(m)
<1>1. relay[m].pc = "done" /\ InQueue(m) = {} /\ chunks[m] = <<>>
  BY DEF MentionOK, ConclusionIsLast, EndIsLast
<1>2. Held(m) = {} /\ Queued(m) = {} /\ Relayed(m) = {}
  <2>1. Held(m) = {}
    BY DEF Held, HoldsText, W, Update, Ends
  <2>2. TextUpdates(m) = {}
    BY <1>1 DEF TextUpdates, InQueue, Q
  <2>3. TextChunks(m) = {}
    BY <1>1 DEF TextChunks
  <2>4. QED
    BY <2>1, <2>2, <2>3 DEF Queued, Relayed
<1>3. PICK a, b \in Seq(Nat) : a = ShownText(m) /\ b = model[m].text
  BY ShownIsText DEF TypeOK, ModelStates
<1>4. /\ Len(a) <= Len(b) /\ (Len(a) + 1)..Len(b) = {} /\ DOMAIN b = 1..Len(b)
      /\ (\A i \in 1..Len(a) : a[i] = i) /\ (\A i \in 1..Len(b) : b[i] = i)
  BY <1>2, <1>3 DEF MentionOK, Flow, Numbered
<1>5. Len(a) \in Nat /\ Len(b) \in Nat
  BY <1>3
<1>6. Len(a) = Len(b)
  <2>1. Len(b) \notin (Len(a) + 1)..Len(b)
    BY <1>4
  <2>2. QED
    BY <1>4, <1>5, <2>1
<1>7. a = b
  <2>1. \A i \in 1..Len(b) : a[i] = b[i]
    BY <1>4, <1>6
  <2>2. QED
    BY <1>3, <1>6, <2>1, SameSequence
<1>8. QED
  BY <1>3, <1>7 DEF Said

\* Every step of the handler is a step of Reply or a stutter.
LEMMA HandlerRefines ==
  ASSUME IInv, IInv', NEW s \in Sessions, HandlerStep(s)
  PROVE  R!Next \/ UNCHANGED R!replyVars
<1>0. TypeOK /\ SessionsOK /\ MentionsOK /\ \A m \in Mentions : MentionOK(m) /\ MentionOK(m)'
  BY DEF IInv, SessionsOK, MentionsOK
<1>1. \A m \in Mentions : handler[s].m # m /\ handler'[s].m # m => Kept(m)
  BY <1>0, HandlerFrame, KeptUntouched
<1>2. CASE InsertThinkingRow(s)
  <2>1. handler[s].pc = "thinking" /\ handler[s].m \in Mentions /\ SessionOf[handler[s].m] = s
        /\ H(handler[s].m) = handler[s]
    BY <1>0, <1>2, HandlersMention DEF InsertThinkingRow, Handles
  <2>2. PICK k \in Mentions : k = handler[s].m
    BY <2>1
  <2>3. handler'[s].m = k
    BY <1>0, <1>2, <2>1, <2>2 DEF InsertThinkingRow, Handle, TypeOK, HandlerStates
  <2>4. \A m \in Mentions : m # k => Kept(m)
    BY <1>1, <2>2, <2>3
  <2>5. ~Placed(k)
    BY <1>0, <2>1, <2>2 DEF MentionOK, Handling
  <2>6. PICK r \in Row : r = NewRow(handler[s].position, None, TRUE)
    <3>1. None \in Seq(Nat) \cup {None} /\ TRUE \in BOOLEAN /\ handler[s].position \in Nat
      BY <1>0 DEF TypeOK, HandlerStates
    <3>2. QED
      BY <3>1, NewRows
  <2>7. row' = [row EXCEPT ![k][Thinking] = r]
    BY <1>2, <2>2, <2>6 DEF InsertThinkingRow
  <2>8. /\ SameMessage(k) /\ Exists(k, Message)' = Exists(k, Message) /\ Placed(k)' /\ Place(k)' = r
    BY <1>0, <2>7, OnlyPlace
  <2>9. r.text = None /\ r.final = FALSE
    BY <2>6 DEF NewRow
  <2>10. Phase(k) = "none" /\ Phase(k)' = "open"
    <3>1. Phase(k) = "none"
      BY <2>5 DEF Phase, Placed, IsFinal
    <3>2. Exists(k, Thinking)' /\ ~IsFinal(k)'
      BY <2>8, <2>9 DEF Placed, Place, IsFinal
    <3>3. Phase(k)' = "open"
      BY <3>2 DEF Phase
    <3>4. QED
      BY <3>1, <3>3
  <2>11. ShownText(k) = <<>> /\ ShownText(k)' = <<>>
    <3>1. ShownText(k) = <<>>
      BY <2>5 DEF ShownText, Placed
    <3>2. Place(k)'.text = None
      BY <2>8, <2>9
    <3>3. QED
      BY <3>1, <3>2 DEF ShownText, Place
  <2>12. Published(k)' = Published(k) /\ Said(k)' = Said(k)
    <3>1. Published(k)' = Published(k)
      BY <2>8 DEF SameMessage, Published
    <3>2. Said(k)' = Said(k)
      BY <1>2 DEF Said, InsertThinkingRow
    <3>3. QED
      BY <3>1, <3>2
  <2>13. QED
    BY <2>4, <2>10, <2>11, <2>12, Opens
<1>3. CASE ~InsertThinkingRow(s)
  <2>1. ASSUME NEW m \in Mentions PROVE Kept(m)
    <3>1. CASE ReadPosition(s) \/ SetThinking(s)
      BY <3>1, KeptRows DEF ReadPosition, SetThinking, SamePlace, SameMessage, Said
    <3>2. CASE InsertUserRow(s)
      <4>1. SamePlace(m) /\ SameMessage(m)
        <5>1. User # Thinking /\ User # Message /\ Thinking \in Kinds /\ Message \in Kinds
          BY KindsOK, DistinctRows
        <5>2. QED
          BY <1>0, <3>2, <5>1 DEF InsertUserRow, TypeOK, SamePlace, SameMessage
      <4>2. QED
        BY <3>2, <4>1, KeptRows DEF InsertUserRow, Said
    <3>3. CASE SpawnResponse(s)
      <4>1. SamePlace(m) /\ SameMessage(m)
        BY <3>3 DEF SpawnResponse, SamePlace, SameMessage
      <4>2. model'[m].text = model[m].text
        <5>1. CASE model' = model
          BY <5>1
        <5>2. CASE model' = [model EXCEPT ![handler[s].m].pc = "streaming"]
          BY <1>0, <5>2 DEF TypeOK, ModelStates
        <5>3. QED
          BY <3>3, <5>1, <5>2 DEF SpawnResponse
      <4>3. QED
        BY <4>1, <4>2, KeptRows DEF Said
    <3>4. QED
      BY <1>3, <3>1, <3>2, <3>3 DEF HandlerStep
  <2>2. QED
    BY <2>1, Stutters
<1>4. QED
  BY <1>2, <1>3

\* Every step of the model task is a step of Reply or a stutter.
LEMMA ModelRefines ==
  ASSUME IInv, IInv', NEW k \in Mentions, ModelStep(k)
  PROVE  R!Next \/ UNCHANGED R!replyVars
<1>0. TypeOK /\ MentionOK(k)
  BY DEF IInv
<1>1. \A m \in Mentions : m # k => Kept(m)
  BY <1>0, ModelFrame, KeptUntouched
<1>2. SamePlace(k) /\ SameMessage(k)
  BY DEF ModelStep, SayText, CallTool, ToolReturns, EndStream, RefuseStream, SamePlace, SameMessage
<1>3. CASE SayText(k)
  <2>1. model[k].pc = "streaming" /\ model'[k].text = Append(model[k].text, Len(model[k].text) + 1)
    BY <1>0, <1>3 DEF SayText, Send, TypeOK, ModelStates
  <2>2. relay[k].pc = "recv" /\ Placed(k) /\ Open(k)
    BY <1>0, <2>1 DEF MentionOK, Quiet, EndIsLast, ConclusionIsLast, TypeOK, RelayStates
  <2>3. Phase(k) = "open" /\ Published(k) = None
    BY <1>0, <2>2, Phases DEF Open
  <2>4. Phase(k)' = Phase(k) /\ Published(k)' = Published(k)
    BY <1>2 DEF SamePlace, SameMessage, Phase, IsFinal, Exists, Published
  <2>5. ShownText(k)' = ShownText(k)
    BY <1>2, SameShown
  <2>6. QED
    BY <1>1, <2>1, <2>3, <2>4, <2>5, Says DEF Said
<1>4. CASE ~SayText(k)
  <2>1. Said(k)' = Said(k)
    BY <1>0, <1>4 DEF ModelStep, CallTool, ToolReturns, EndStream, RefuseStream, Said, TypeOK, ModelStates
  <2>2. Kept(k)
    BY <1>2, <2>1, KeptRows
  <2>3. QED
    BY <1>1, <2>2, Stutters
<1>5. QED
  BY <1>3, <1>4

\* Every step of the writer is a step of Reply or a stutter.
LEMMA WriterRefines ==
  ASSUME IInv, IInv', NEW s \in Sessions, WriterStep(s)
  PROVE  R!Next \/ UNCHANGED R!replyVars
<1>0. TypeOK /\ SessionsOK /\ MentionsOK /\ \A m \in Mentions : MentionOK(m) /\ MentionOK(m)' /\ TypeOK'
  BY DEF IInv, SessionsOK, MentionsOK
<1>1. CASE ReceiveUpdate(s) \/ SetRunningTool(s) \/ GetContent(s) \/ LastPosition(s) \/ SetIdle(s)
  <2>1. row' = row /\ model' = model
    BY <1>1 DEF ReceiveUpdate, SetRunningTool, GetContent, LastPosition, SetIdle
  <2>2. \A m \in Mentions : Kept(m)
    BY <2>1, KeptRows DEF SamePlace, SameMessage, Said
  <2>3. QED
    BY <2>2, Stutters
<1>2. CASE WriteText(s) \/ InsertRow(s) \/ SetEphemeral(s) \/ FinalizeRow(s)
  <2>1. writer[s].pc # "recv"
    BY <1>2 DEF WriteText, InsertRow, SetEphemeral, FinalizeRow, Writes
  <2>2. PICK k \in Mentions : k = Update(s).m
    BY <1>0, <2>1, WritersMention
  <2>3. /\ W(k) = writer[s] /\ W(k)' = writer'[s] /\ Update(s) = W(k).update
        /\ InHand(k) /\ Placed(k) /\ Place(k) \in Row /\ W(k) \in WriterStates
        /\ W(k).update \in Updates /\ W(k).pc \in PlacesOf(W(k).update.kind) /\ SameModel(k)
    BY <1>0, <2>1, <2>2, Busy
  <2>4. \A m \in Mentions : m # k => Kept(m)
    BY <1>0, <2>1, <2>2, WriterFrame, KeptUntouched DEF Served
  <2>5. Said(k)' = Said(k) /\ W(k).update.kind \in UpdateKinds
    BY <2>3 DEF SameModel, Said, Updates
  <2>6. Kept(k) => UNCHANGED R!replyVars
    BY <2>4, Stutters
  <2>7. CASE WriteText(s)
    <3>1. /\ Placed(k)' /\ Open(k) /\ Open(k)'
          /\ W(k).update.kind = "text" => Len(ShownText(k)') = Len(ShownText(k)) + 1
          /\ W(k).update.kind # "text" => ShownText(k)' = ShownText(k)
      BY <1>0, <2>2, <2>3, <2>7, WriteKeeps
    <3>2. Phase(k) = "open" /\ Published(k) = None
      BY <1>0, <2>3, <3>1, Phases DEF Open
    <3>3. Phase(k)' = "open" /\ Published(k)' = None
      <4>1. Exists(k, Thinking)' /\ ~IsFinal(k)' /\ ~Exists(k, Message)'
        BY <3>1 DEF Open, Placed, Place, IsFinal
      <4>2. QED
        BY <4>1 DEF Phase, Published
    <3>4. CASE W(k).update.kind = "text"
      <4>1. TextIsConserved'
        BY Conserved, PTL
      <4>2. ShownText(k)' = SubSeq(Said(k)', 1, Len(ShownText(k)')) /\ Len(ShownText(k)') <= Len(Said(k)')
        BY <4>1 DEF TextIsConserved, Said
      <4>3. Len(ShownText(k)) \in Nat /\ Len(Said(k)) \in Nat
        BY <1>0, OnTheWay DEF Said
      <4>4. ShownText(k)' = SubSeq(Said(k), 1, Len(ShownText(k)) + 1) /\ Len(ShownText(k)) + 1 <= Len(Said(k))
        BY <2>5, <3>1, <3>4, <4>2
      <4>5. Len(ShownText(k)) < Len(Said(k))
        BY <4>3, <4>4
      <4>6. QED
        BY <2>4, <2>5, <3>2, <3>3, <4>4, <4>5, Shows
    <3>5. CASE W(k).update.kind # "text"
      BY <2>5, <2>6, <3>1, <3>2, <3>3, <3>5 DEF Kept
    <3>6. QED
      BY <3>4, <3>5
  <2>8. CASE InsertRow(s)
    <3>1. Message \in Kinds /\ Thinking \in Kinds /\ Message # Thinking
      BY KindsOK, DistinctRows
    <3>2. W(k).pc = "insert" /\ Open(k) /\ W(k).update.kind \in {"call", "result", "complete"}
      BY <1>0, <2>3, <2>5, <2>8 DEF InsertRow, Writes, MentionOK, Writing, PlacesOf, UpdateKinds
    <3>3. CASE W(k).update.kind = "complete"
      <4>1. PICK r \in Row : r = NewRow(writer[s].position, writer[s].content, FALSE)
        <5>1. writer[s].position \in Nat /\ writer[s].content \in Seq(Nat) \cup {None} /\ FALSE \in BOOLEAN
          BY <2>3 DEF WriterStates
        <5>2. QED
          BY <5>1, NewRows
      <4>2. row' = [row EXCEPT ![k][Message] = r]
        BY <2>2, <2>8, <2>3, <3>3, <4>1 DEF InsertRow
      <4>3. SamePlace(k) /\ row'[k][Message] = r
        BY <1>0, <3>1, <4>2 DEF TypeOK, SamePlace
      <4>4. Place(k).text # None /\ writer[s].content = Place(k).text
        BY <1>0, <2>3, <3>2, <3>3 DEF MentionOK, Writing
      <4>5. ShownText(k) = Place(k).text /\ Place(k).text # <<>>
        BY <1>0, <2>3, <3>2, <4>4, OpenText DEF MentionOK, Rows
      <4>6. ShownText(k) = Said(k)
        BY <1>0, <2>3, <3>3, AllShown DEF Ends
      <4>7. Published(k)' = Said(k)
        <5>1. r # None /\ r.text = Said(k)
          BY <4>1, <4>4, <4>5, <4>6, RowAssumption DEF NewRow
        <5>2. QED
          BY <4>3, <5>1 DEF Published, Exists
      <4>8. Phase(k) = "open" /\ Published(k) = None
        BY <1>0, <2>3, <3>2, Phases DEF Open
      <4>9. Phase(k)' = "open" /\ ShownText(k)' = ShownText(k)
        <5>1. Exists(k, Thinking)' /\ ~IsFinal(k)'
          BY <2>3, <3>2, <4>3 DEF SamePlace, Open, Placed, Place, IsFinal, Exists
        <5>2. QED
          BY <4>3, <5>1, SameShown DEF Phase
      <4>10. QED
        BY <2>4, <2>5, <4>5, <4>6, <4>7, <4>8, <4>9, Publishes
    <3>4. CASE W(k).update.kind # "complete"
      <4>1. PICK r, kd : r = NewRow(writer[s].position, <<>>, W(k).update.kind = "call")
                         /\ kd = <<W(k).update.kind, W(k).update.n>>
        OBVIOUS
      <4>2. row' = [row EXCEPT ![k][kd] = r]
        BY <2>2, <2>3, <2>8, <3>4, <4>1 DEF InsertRow
      <4>3. kd # Thinking /\ kd # Message
        BY <2>3, <3>2, <3>4, <4>1, DistinctRows DEF Updates
      <4>4. SamePlace(k) /\ SameMessage(k)
        BY <1>0, <3>1, <4>2, <4>3 DEF TypeOK, SamePlace, SameMessage
      <4>5. QED
        BY <2>5, <2>6, <4>4, KeptRows
    <3>5. QED
      BY <3>3, <3>4
  <2>9. CASE SetEphemeral(s) \/ FinalizeRow(s)
    <3>1. PICK r \in Row : /\ row' = [row EXCEPT ![k][Thinking] = r]
                           /\ SetEphemeral(s) => r = HideRow(Place(k))
                           /\ FinalizeRow(s) => r = Finalized(Place(k))
      <4>1. HideRow(Place(k)) \in Row /\ Finalized(Place(k)) \in Row
        BY <2>3, RowOperations
      <4>2. CASE SetEphemeral(s)
        <5>1. ~FinalizeRow(s) /\ row' = [row EXCEPT ![k][Thinking] = HideRow(Place(k))]
          BY <2>2, <4>2 DEF SetEphemeral, FinalizeRow, Writes, Place
        <5>2. QED
          BY <4>1, <5>1
      <4>3. CASE FinalizeRow(s)
        <5>1. ~SetEphemeral(s) /\ row' = [row EXCEPT ![k][Thinking] = Finalized(Place(k))]
          BY <2>2, <4>3 DEF SetEphemeral, FinalizeRow, Writes, Place
        <5>2. QED
          BY <4>1, <5>1
      <4>4. QED
        BY <2>9, <4>2, <4>3
    <3>2. /\ SameMessage(k) /\ Exists(k, Message)' = Exists(k, Message) /\ Placed(k)' /\ Place(k)' = r
      BY <1>0, <3>1, OnlyPlace
    <3>3. r.text = Place(k).text /\ (SetEphemeral(s) => r.final = Place(k).final) /\ (FinalizeRow(s) => r.final)
      BY <2>3, <2>9, <3>1 DEF HideRow, Finalized, Row
    <3>4. ShownText(k)' = ShownText(k)
      <4>1. ShownText(k)' = LET text == IF Placed(k)' /\ Place(k)'.text # None THEN Place(k)'.text ELSE <<>>
                            IN  IF text # <<>> /\ text[Len(text)] = Error
                                THEN SubSeq(text, 1, Len(text) - 1) ELSE text
        BY DEF ShownText, Placed, Place
      <4>2. ShownText(k) = LET text == IF Placed(k) /\ Place(k).text # None THEN Place(k).text ELSE <<>>
                           IN  IF text # <<>> /\ text[Len(text)] = Error
                               THEN SubSeq(text, 1, Len(text) - 1) ELSE text
        BY DEF ShownText, Placed, Place
      <4>3. QED
        BY <2>3, <3>2, <3>3, <4>1, <4>2
    <3>5. Published(k)' = Published(k)
      BY <3>2 DEF SameMessage, Published, Exists
    <3>6. CASE SetEphemeral(s)
      <4>1. Phase(k)' = Phase(k)
        BY <2>3, <3>2, <3>3, <3>6 DEF Phase, IsFinal, Placed, Place
      <4>2. QED
        BY <2>5, <2>6, <3>4, <3>5, <4>1 DEF Kept
    <3>7. CASE FinalizeRow(s)
      <4>1. W(k).pc = "finalize" /\ W(k).update.kind \in Ends
        BY <2>3, <2>5, <3>7 DEF FinalizeRow, Writes, PlacesOf, Ends, UpdateKinds
      <4>2. ShownText(k) = Said(k)
        BY <1>0, <2>3, <4>1, AllShown
      <4>3. ~Place(k).final
        BY <1>0, <2>3, <4>1 DEF MentionOK, Writing
      <4>4. Phase(k) = "open"
        BY <1>0, <2>3, <4>3, Phases
      <4>5. IsFinal(k)' /\ Exists(k, Thinking)'
        BY <3>2, <3>3, <3>7 DEF IsFinal, Placed, Place
      <4>6. CASE Exists(k, Message)
        <5>1. Published(k) # None
          BY <1>0, <2>3, <4>6, Phases
        <5>2. Phase(k)' = "answered"
          BY <3>2, <4>5, <4>6 DEF Phase
        <5>3. QED
          BY <2>4, <2>5, <3>4, <3>5, <4>2, <4>4, <5>1, <5>2, Closes
      <4>7. CASE ~Exists(k, Message) /\ Place(k).text # None
        <5>1. Published(k) = None
          BY <4>7 DEF Published
        <5>2. Phase(k)' = "failed"
          BY <3>2, <3>3, <4>5, <4>7 DEF Phase, Place
        <5>3. QED
          BY <2>4, <2>5, <3>4, <3>5, <4>2, <4>4, <5>1, <5>2, Closes
      <4>8. CASE ~Exists(k, Message) /\ Place(k).text = None
        <5>1. Said(k) = <<>>
          BY <4>2, <4>8 DEF ShownText, Place
        <5>2. Phase(k)' = "blank"
          BY <3>2, <3>3, <4>5, <4>8 DEF Phase, Place
        <5>3. QED
          BY <2>4, <2>5, <3>4, <3>5, <4>2, <4>4, <5>1, <5>2, Closes
      <4>9. QED
        BY <4>6, <4>7, <4>8
    <3>8. QED
      BY <2>9, <3>6, <3>7
  <2>10. QED
    BY <1>2, <2>7, <2>8, <2>9
<1>3. QED
  BY <1>1, <1>2 DEF WriterStep

\* Every step maps to a step of Reply or a stutter.
LEMMA RefineStep == IInv /\ IInv' /\ [Next]_vars => [R!Next]_R!replyVars
<1>. SUFFICES ASSUME IInv, IInv', [Next]_vars PROVE R!Next \/ UNCHANGED R!replyVars
  OBVIOUS
<1>1. CASE UNCHANGED vars
  <2>1. \A m \in Mentions : Kept(m)
    BY <1>1, KeptRows DEF vars, SamePlace, SameMessage, Said
  <2>2. QED
    BY <2>1, Stutters
<1>2. ASSUME NEW k \in Mentions, RelayStep(k) PROVE R!Next \/ UNCHANGED R!replyVars
  <2>1. row' = row /\ model' = model
    BY <1>2 DEF RelayStep, RelayChunk, RelayEnds, RelayConcludes
  <2>2. \A m \in Mentions : Kept(m)
    BY <2>1, KeptRows DEF SamePlace, SameMessage, Said
  <2>3. QED
    BY <2>2, Stutters
<1>3. QED
  BY <1>1, <1>2, HandlerRefines, ModelRefines, WriterRefines DEF Next

\* The initial state maps to an initial state of Reply.
LEMMA RefineInit == Init => R!Init
<1>. SUFFICES ASSUME Init PROVE R!Init
  OBVIOUS
<1>1. ASSUME NEW m \in Mentions
      PROVE  model[m].text = <<>> /\ ShownText(m) = <<>> /\ Published(m) = None /\ Phase(m) = "none"
  <2>1. ~Exists(m, Thinking) /\ ~Exists(m, Message) /\ model[m].text = <<>>
    BY KindsOK DEF Init, Exists
  <2>2. QED
    BY <2>1 DEF ShownText, Published, Phase
<1>2. QED
  BY <1>1 DEF R!Init

\* Whatever the channels, the tasks and their interleavings do, a reply is what
\* a user is promised: its text grows in order, a message is made once and of
\* all of it, what is over never changes.  (ops.rs, ssh/streaming.rs)
THEOREM ReplyImplemented == SafeSpec => ImplementsReply
BY InvInit, InvStep, RefineInit, RefineStep, PTL DEF SafeSpec, ImplementsReply, R!Spec
=============================================================================

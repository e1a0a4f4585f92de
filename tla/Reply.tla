------------------------------- MODULE Reply -------------------------------
(***************************************************************************)
(* What a user is promised of a model's reply, with no channels and no     *)
(* tasks: the text that is shown grows with what the model says, in order  *)
(* and with nothing left out; a reply that is answered is published once,  *)
(* with all of it; a reply that is over never changes again.               *)
(***************************************************************************)
EXTENDS Sequences, Naturals

CONSTANTS Mentions, None

VARIABLES
  said,        \* what the model has said to a mention
  shown,       \* what the room shows of it
  published,   \* the message made of it, or None
  phase        \* none, open, answered, failed or blank

replyVars == <<said, shown, published, phase>>

Init ==
  /\ said = [m \in Mentions |-> <<>>]
  /\ shown = [m \in Mentions |-> <<>>]
  /\ published = [m \in Mentions |-> None]
  /\ phase = [m \in Mentions |-> "none"]

Open(m) ==
  /\ phase[m] = "none"
  /\ phase' = [phase EXCEPT ![m] = "open"]
  /\ UNCHANGED <<said, shown, published>>

Say(m) ==
  /\ phase[m] = "open"
  /\ published[m] = None
  /\ said' = [said EXCEPT ![m] = Append(@, Len(@) + 1)]
  /\ UNCHANGED <<shown, published, phase>>

Show(m) ==
  /\ phase[m] = "open"
  /\ published[m] = None
  /\ Len(shown[m]) < Len(said[m])
  /\ shown' = [shown EXCEPT ![m] = SubSeq(said[m], 1, Len(@) + 1)]
  /\ UNCHANGED <<said, published, phase>>

\* Only what is complete is published.
Publish(m) ==
  /\ phase[m] = "open"
  /\ published[m] = None
  /\ shown[m] = said[m] /\ said[m] # <<>>
  /\ published' = [published EXCEPT ![m] = said[m]]
  /\ UNCHANGED <<said, shown, phase>>

\* A reply closes once all that was said is shown: with a message, with an
\* error, or with nothing at all.
Close(m) ==
  /\ phase[m] = "open"
  /\ shown[m] = said[m]
  /\ \/ published[m] # None /\ phase' = [phase EXCEPT ![m] = "answered"]
     \/ published[m] = None /\ phase' = [phase EXCEPT ![m] = "failed"]
     \/ said[m] = <<>> /\ phase' = [phase EXCEPT ![m] = "blank"]
  /\ UNCHANGED <<said, shown, published>>

Next ==
  \E m \in Mentions : Open(m) \/ Say(m) \/ Show(m) \/ Publish(m) \/ Close(m)

Spec == Init /\ [][Next]_replyVars
=============================================================================

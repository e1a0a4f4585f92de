---------------------------- MODULE ScreenProofs ----------------------------
(***************************************************************************)
(* Screen for any number of writers, changes, failing frames and resizes:  *)
(* no mark is lost while the task sleeps, what was marked is drawn, and    *)
(* every change is on the screen in the end.                               *)
(*                                                                         *)
(* The first two need more than they say.  A dirty screen is backed by a   *)
(* wake-up not only while the task sleeps but wherever it stands, except   *)
(* before it takes the tags: it may go to sleep from there without another *)
(* look.  And a frame is never older than the one before it, so that what  *)
(* it replaces as the base of the diff had nothing it lacks.               *)
(***************************************************************************)
EXTENDS Screen, TLAPS

\* A dirty screen is about to be looked at, or a wake-up is stored or on its way.
DirtyIsBacked ==
  tags # {} => At("take") \/ permit \/ \E w \in Writers : writer[w].pc = "notify"

\* Nothing marked or drawn is ahead of what is there, and frames go forward.
Forward ==
  /\ marked <= version /\ base <= version /\ frame <= version
  /\ \A w \in Writers : writer[w].made <= version
  /\ At("send") => base <= frame

IInv == TypeOK /\ DirtyIsBacked /\ Forward /\ MarkedIsDrawn

-----------------------------------------------------------------------------
\* Every variable keeps its type: the counters are bounded by the guards.
LEMMA TypeKept == TypeOK /\ [Next]_vars => TypeOK'
<1> USE BoundAssumption, StatusAssumption DEF TypeOK, At
<1> SUFFICES ASSUME TypeOK, [Next]_vars PROVE TypeOK'
  OBVIOUS
<1>1. CASE MarkInitial
  BY <1>1 DEF MarkInitial, MarkAll
<1>2. CASE DirtyWakes
  BY <1>2 DEF DirtyWakes
<1>3. CASE Reload
  <2>1. CASE version < MaxVersion /\ version' = version + 1 /\ marked' = version + 1 /\ MarkAll
    <3>1. version' \in 0..MaxVersion /\ marked' \in 0..MaxVersion
      BY <2>1
    <3>2. QED
      BY <1>3, <2>1, <3>1 DEF Reload, MarkAll
  <2>2. CASE UNCHANGED <<version, marked, tags, permit>>
    BY <1>3, <2>2 DEF Reload
  <2>3. QED
    BY <1>3, <2>1, <2>2 DEF Reload
<1>4. CASE Background
  BY <1>4 DEF Background, MarkedAt, NextTick
<1>5. CASE TakeTags
  BY <1>5 DEF TakeTags
<1>6. CASE DrawFrame
  BY <1>6 DEF DrawFrame
<1>7. CASE SendDiff
  BY <1>7 DEF SendDiff, TagsAfterSend
<1>8. ASSUME NEW w \in Writers, Change(w) PROVE TypeOK'
  BY <1>8 DEF Change
<1>9. ASSUME NEW w \in Writers, NEW new \in SUBSET Tags, Inserted(w, new) PROVE TypeOK'
  BY <1>9 DEF Inserted
<1>10. ASSUME NEW w \in Writers, NotifyTask(w) PROVE TypeOK'
  BY <1>10 DEF NotifyTask, Notified, Idle
<1>11. CASE ChangeElsewhere
  BY <1>11 DEF ChangeElsewhere
<1>12. CASE Resize
  BY <1>12 DEF Resize
<1>13. CASE Disconnect
  BY <1>13 DEF Disconnect
<1>14. CASE UNCHANGED vars
  BY <1>14 DEF vars
<1> QED
  BY <1>1, <1>2, <1>3, <1>4, <1>5, <1>6, <1>7, <1>8, <1>9, <1>10, <1>11, <1>12,
     <1>13, <1>14 DEF Next, TaskStep, MarkStep, InsertTag, InsertAll

\* A wake-up is spent only on the way to a look at the tags.
LEMMA BackedKept == TypeOK /\ DirtyIsBacked /\ [Next]_vars => DirtyIsBacked'
<1> USE DEF DirtyIsBacked, At
<1> SUFFICES ASSUME TypeOK, DirtyIsBacked, [Next]_vars PROVE DirtyIsBacked'
  OBVIOUS
<1>1. CASE MarkInitial \/ DirtyWakes \/ Reload \/ Background \/ TakeTags
  BY <1>1 DEF MarkInitial, MarkAll, DirtyWakes, Reload, Background, TakeTags
<1>2. CASE DrawFrame \/ SendDiff
  BY <1>2 DEF DrawFrame, SendDiff, TagsAfterSend
<1>3. ASSUME NEW w \in Writers, Change(w) PROVE DirtyIsBacked'
  <2>1. ASSUME NEW v \in Writers, writer[v].pc = "notify" PROVE writer'[v].pc = "notify"
    BY <1>3, <2>1 DEF Change, TypeOK
  <2>2. QED
    BY <1>3, <2>1 DEF Change
<1>4. ASSUME NEW w \in Writers, NEW new \in SUBSET Tags, Inserted(w, new) PROVE DirtyIsBacked'
  BY <1>4 DEF Inserted, TypeOK
<1>5. ASSUME NEW w \in Writers, NotifyTask(w) PROVE DirtyIsBacked'
  BY <1>5 DEF NotifyTask, Notified
<1>6. CASE ChangeElsewhere \/ Resize \/ Disconnect \/ UNCHANGED vars
  BY <1>6 DEF ChangeElsewhere, Resize, Disconnect, vars
<1>7. QED
  BY <1>1, <1>2, <1>3, <1>4, <1>5, <1>6 DEF Next, TaskStep, MarkStep, InsertTag, InsertAll

\* Versions only grow, and a frame is drawn from the newest.
LEMMA ForwardKept == TypeOK /\ Forward /\ [Next]_vars => Forward'
<1> USE DEF Forward, TypeOK, At
<1> SUFFICES ASSUME TypeOK, Forward, [Next]_vars PROVE Forward'
  OBVIOUS
<1>1. CASE MarkInitial \/ DirtyWakes \/ Background \/ TakeTags
  BY <1>1 DEF MarkInitial, MarkAll, DirtyWakes, Background, TakeTags
<1>2. CASE Reload
  BY <1>2 DEF Reload
<1>3. CASE DrawFrame
  BY <1>3 DEF DrawFrame
<1>4. CASE SendDiff
  BY <1>4 DEF SendDiff
<1>5. ASSUME NEW w \in Writers, Change(w) PROVE Forward'
  BY <1>5 DEF Change
<1>6. ASSUME NEW w \in Writers, NEW new \in SUBSET Tags, Inserted(w, new) PROVE Forward'
  BY <1>6 DEF Inserted
<1>7. ASSUME NEW w \in Writers, NotifyTask(w) PROVE Forward'
  BY <1>7 DEF NotifyTask, Idle
<1>8. CASE ChangeElsewhere
  BY <1>8 DEF ChangeElsewhere
<1>9. CASE Resize \/ Disconnect \/ UNCHANGED vars
  BY <1>9 DEF Resize, Disconnect, vars
<1>10. QED
  BY <1>1, <1>2, <1>3, <1>4, <1>5, <1>6, <1>7, <1>8, <1>9
     DEF Next, TaskStep, MarkStep, InsertTag, InsertAll

\* The tags are taken before the state is read, and a frame that is sent takes
\* the place of one that is no newer.
LEMMA MarkedKept == IInv /\ [Next]_vars => MarkedIsDrawn'
<1> USE DEF MarkedIsDrawn, Forward, TypeOK, At
<1> SUFFICES ASSUME IInv, [Next]_vars PROVE MarkedIsDrawn'
  OBVIOUS
<1> USE DEF IInv
<1>1. CASE MarkInitial
  BY <1>1, StatusAssumption DEF MarkInitial, MarkAll
<1>2. CASE DirtyWakes
  BY <1>2 DEF DirtyWakes
<1>3. CASE Reload
  BY <1>3, StatusAssumption DEF Reload, MarkAll
<1>4. CASE Background
  BY <1>4 DEF Background
<1>5. CASE TakeTags
  BY <1>5 DEF TakeTags
<1>6. CASE DrawFrame
  BY <1>6, BoundAssumption DEF DrawFrame
<1>7. CASE SendDiff
  BY <1>7 DEF SendDiff, TagsAfterSend
<1>8. ASSUME NEW w \in Writers, Change(w) PROVE MarkedIsDrawn'
  BY <1>8 DEF Change
<1>9. ASSUME NEW w \in Writers, NEW new \in SUBSET Tags, new # {}, Inserted(w, new)
      PROVE  MarkedIsDrawn'
  BY <1>9 DEF Inserted
<1>10. ASSUME NEW w \in Writers, NotifyTask(w) PROVE MarkedIsDrawn'
  BY <1>10 DEF NotifyTask
<1>11. CASE ChangeElsewhere \/ Resize \/ Disconnect \/ UNCHANGED vars
  BY <1>11 DEF ChangeElsewhere, Resize, Disconnect, vars
<1>12. ASSUME NEW w \in Writers, MarkStep(w) PROVE MarkedIsDrawn'
  BY <1>9, <1>10, <1>12, StatusAssumption DEF MarkStep, InsertTag, InsertAll
<1>13. QED
  BY <1>1, <1>2, <1>3, <1>4, <1>5, <1>6, <1>7, <1>8, <1>11, <1>12 DEF Next, TaskStep

-----------------------------------------------------------------------------
LEMMA InitOK == Init => IInv
<1> SUFFICES ASSUME Init PROVE IInv
  OBVIOUS
<1>1. TypeOK
  <2>1. {version, marked, shown, base, frame} \subseteq 0..MaxVersion
    BY BoundAssumption DEF Init
  <2>2. writer \in [Writers -> [pc : {"idle", "insert", "notify"}, made : 0..MaxVersion]]
    BY BoundAssumption DEF Init, Idle
  <2>3. tags \subseteq Tags /\ ticks \in 0..3 /\ errors \in 0..MaxErrors /\ resizes \in 0..MaxResizes
    BY BoundAssumption DEF Init
  <2>4. permit \in BOOLEAN /\ connected \in BOOLEAN /\ {termSize, taskSize} \subseteq Sizes
    BY DEF Init
  <2>5. task \in {"start", "wait", "take", "draw", "send", "ended"}
    BY DEF Init
  <2>6. QED
    BY <2>1, <2>2, <2>3, <2>4, <2>5 DEF TypeOK
<1>2. DirtyIsBacked /\ Forward /\ MarkedIsDrawn
  BY DEF Init, DirtyIsBacked, Forward, MarkedIsDrawn, At, Idle
<1>3. QED
  BY <1>1, <1>2 DEF IInv

LEMMA Inductive == IInv /\ [Next]_vars => IInv'
BY TypeKept, BackedKept, ForwardKept, MarkedKept DEF IInv

\* Every variable of the screen's model has its type (ssh/screen.rs,
\* lua/dirty.rs).
THEOREM TypeCorrect == Spec => []TypeOK
<1>1. IInv => TypeOK
  BY DEF IInv
<1>2. QED
  BY <1>1, InitOK, Inductive, PTL DEF Spec

\* However marks, notifications and the task interleave, it never sleeps on a
\* dirty screen with no wake-up stored or on its way (DirtyState::mark, take
\* and notified, screen_refresh_task).
THEOREM NoMarkIsLost == Spec => []NoSleepWhileDirty
<1>1. IInv => NoSleepWhileDirty
  BY DEF IInv, DirtyIsBacked, NoSleepWhileDirty, At
<1>2. QED
  BY <1>1, InitOK, Inductive, PTL DEF Spec

\* As long as no frame failed, what was marked is in the last frame, in the one
\* on its way, or still dirty (screen_refresh_task, render_screen_with_tags).
THEOREM MarkedGetsDrawn == Spec => []MarkedIsDrawn
<1>1. IInv => MarkedIsDrawn
  BY DEF IInv
<1>2. QED
  BY <1>1, InitOK, Inductive, PTL DEF Spec

-----------------------------------------------------------------------------
(* What the screen shows in the end.  The task comes back to its sleep, the*)
(* fourth tick from there marks the status, and the frame that follows is  *)
(* drawn from whatever is there then.  TLAPS knows nothing of ENABLED: that*)
(* the task has a way on (TaskCanGoOn), which the guards of its actions    *)
(* say, is a premise; that not every frame fails is the other (Screen      *)
(* bounds the failures).                                                   *)

\* Asleep the task has the background tick; elsewhere its next step waits for
\* nobody.
TaskCanGoOn ==
  /\ At("wait") => ENABLED <<Background>>_vars
  /\ \/ task \in {"start", "take", "draw", "send"}
     \/ At("wait") /\ permit
     => ENABLED <<Go>>_vars

\* The diff is made against what the terminal shows.
BaseIsShown == At("ended") \/ base = shown

LInv == IInv /\ BaseIsShown

LEMMA BaseKept == LInv /\ [Next]_vars => BaseIsShown'
<1> USE DEF BaseIsShown, At
<1> SUFFICES ASSUME LInv, [Next]_vars PROVE BaseIsShown'
  OBVIOUS
<1> USE DEF LInv
<1>1. CASE TaskStep
  <2>1. CASE MarkInitial \/ DirtyWakes \/ Reload \/ Background \/ TakeTags \/ DrawFrame
    BY <2>1 DEF MarkInitial, DirtyWakes, Reload, Background, TakeTags, DrawFrame
  <2>2. CASE SendDiff
    BY <2>2 DEF SendDiff
  <2>3. QED
    BY <1>1, <2>1, <2>2 DEF TaskStep
<1>2. ASSUME NEW w \in Writers, Change(w) \/ MarkStep(w) PROVE BaseIsShown'
  BY <1>2 DEF Change, MarkStep, InsertTag, InsertAll, Inserted, NotifyTask
<1>3. CASE ChangeElsewhere \/ Resize \/ Disconnect \/ UNCHANGED vars
  BY <1>3 DEF ChangeElsewhere, Resize, Disconnect, vars
<1>4. QED
  BY <1>1, <1>2, <1>3 DEF Next

LEMMA LInvariant == Spec => []LInv
<1>1. Init => LInv
  BY InitOK DEF LInv, BaseIsShown, Init
<1>2. LInv /\ [Next]_vars => LInv'
  BY Inductive, BaseKept DEF LInv
<1>3. QED
  BY <1>1, <1>2, PTL DEF Spec

\* The task is moved by its own steps alone, and so are its count of ticks and
\* its frame; nobody but the task takes a tag away or makes a version less.
LEMMA OthersLeaveTask ==
  ASSUME LInv, [Next]_vars, ~TaskStep
  PROVE  /\ UNCHANGED <<task, ticks, frame, shown, base, errors>>
         /\ tags \subseteq tags'
         /\ version' >= version
<1>1. ASSUME NEW w \in Writers, Change(w) \/ NotifyTask(w)
      PROVE  /\ UNCHANGED <<task, ticks, frame, shown, base, errors, tags>>
             /\ version' >= version
  BY <1>1 DEF Change, NotifyTask, LInv, IInv, TypeOK
<1>2. ASSUME NEW w \in Writers, NEW new \in SUBSET Tags, Inserted(w, new)
      PROVE  /\ UNCHANGED <<task, ticks, frame, shown, base, errors, version>>
             /\ tags \subseteq tags'
  BY <1>2 DEF Inserted
<1>3. CASE ChangeElsewhere \/ Resize \/ Disconnect \/ UNCHANGED vars
  BY <1>3 DEF ChangeElsewhere, Resize, Disconnect, vars, LInv, IInv, TypeOK
<1>4. version' = version => version' >= version
  BY DEF LInv, IInv, TypeOK
<1>5. QED
  BY <1>1, <1>2, <1>3, <1>4 DEF Next, MarkStep, InsertTag, InsertAll

\* Where a step of the task leads
LEMMA TaskGoesOn ==
  ASSUME LInv, [Next]_vars
  PROVE  /\ At("start") => At("start")' \/ At("take")'
         /\ At("take") => At("take")' \/ At("wait")' \/ At("draw")'
         /\ At("draw") => At("draw")' \/ At("send")' \/ At("wait")'
         /\ At("send") => At("send")' \/ At("wait")' \/ At("ended")'
<1>1. CASE TaskStep
  BY <1>1 DEF TaskStep, MarkInitial, DirtyWakes, Reload, Background, TakeTags,
              DrawFrame, SendDiff, At
<1>2. CASE ~TaskStep
  BY <1>2, OthersLeaveTask DEF At
<1>3. QED
  BY <1>1, <1>2

LEMMA OwnStepGoesOn ==
  ASSUME LInv, Go
  PROVE  /\ At("start") => At("take")'
         /\ At("take") => At("wait")' \/ At("draw")'
         /\ At("draw") => At("send")' \/ At("wait")'
         /\ At("send") => At("wait")' \/ At("ended")'
  BY DEF Go, MarkInitial, DirtyWakes, TakeTags, DrawFrame, SendDiff, At

\* The task comes back to its sleep, or ends.
LEMMA SleepsAgain == Spec /\ []TaskCanGoOn => []<>(At("wait") \/ At("ended"))
<1> DEFINE A == At("start")
           B == At("take")
           C == At("draw")
           D == At("send")
           W == At("wait")
           E == At("ended")
<1>1. LInv /\ [Next]_vars => /\ A => A' \/ B'
                             /\ B => B' \/ W' \/ C'
                             /\ C => C' \/ D' \/ W'
                             /\ D => D' \/ W' \/ E'
  BY TaskGoesOn
<1>2. LInv /\ [Next]_vars /\ Go => /\ A => B'
                                   /\ B => W' \/ C'
                                   /\ C => D' \/ W'
                                   /\ D => W' \/ E'
  BY OwnStepGoesOn
<1>3. LInv => A \/ B \/ C \/ D \/ W \/ E
  BY DEF LInv, IInv, TypeOK, At
<1>4. TaskCanGoOn /\ (A \/ B \/ C \/ D) => ENABLED <<Go>>_vars
  BY DEF TaskCanGoOn, At
<1> HIDE DEF A, B, C, D, W, E
<1>5. Spec /\ []TaskCanGoOn => []<>(W \/ E)
  BY <1>1, <1>2, <1>3, <1>4, LInvariant, PTL DEF Spec, Fairness, TaskIsRun
<1>6. QED
  BY <1>5 DEF W, E

\* The task is about to take tags that are there.
Due == At("take") /\ tags # {}
Tick(n) == ticks = n

LEMMA TicksGoOn ==
  ASSUME LInv, [Next]_vars
  PROVE  /\ Tick(0) => Tick(0)' \/ Tick(1)'
         /\ Tick(1) => Tick(1)' \/ Tick(2)'
         /\ Tick(2) => Tick(2)' \/ Tick(3)'
         /\ Tick(3) => Tick(3)' \/ Due'
<1>1. CASE Background
  BY <1>1 DEF Background, NextTick, MarkedAt, Tick, Due, At
<1>2. CASE MarkInitial \/ DirtyWakes \/ Reload \/ TakeTags \/ DrawFrame \/ SendDiff
  BY <1>2 DEF MarkInitial, DirtyWakes, Reload, TakeTags, DrawFrame, SendDiff, Tick
<1>3. CASE ~TaskStep
  BY <1>3, OthersLeaveTask DEF Tick
<1>4. QED
  BY <1>1, <1>2, <1>3 DEF TaskStep

LEMMA BackgroundTicks ==
  ASSUME LInv, Background
  PROVE  /\ Tick(0) => Tick(1)'
         /\ Tick(1) => Tick(2)'
         /\ Tick(2) => Tick(3)'
         /\ Tick(3) => Due'
  BY DEF Background, NextTick, MarkedAt, Tick, Due, At

\* Every fourth tick of the sleep makes the screen dirty: it is redrawn for
\* ever, marked or not.
LEMMA DueAgain == Spec /\ []TaskCanGoOn => []<>(Due \/ At("ended"))
<1> DEFINE T0 == Tick(0)
           T1 == Tick(1)
           T2 == Tick(2)
           T3 == Tick(3)
           W == At("wait")
           E == At("ended")
<1>1. LInv /\ [Next]_vars => /\ T0 => T0' \/ T1'
                             /\ T1 => T1' \/ T2'
                             /\ T2 => T2' \/ T3'
                             /\ T3 => T3' \/ Due'
  BY TicksGoOn
<1>2. LInv /\ [Next]_vars /\ Background => /\ T0 => T1'
                                           /\ T1 => T2'
                                           /\ T2 => T3'
                                           /\ T3 => Due'
  BY BackgroundTicks
<1>3. LInv => T0 \/ T1 \/ T2 \/ T3
  BY DEF LInv, IInv, TypeOK, Tick
<1>4. TaskCanGoOn /\ W => ENABLED <<Background>>_vars
  BY DEF TaskCanGoOn
<1>5. Spec /\ []TaskCanGoOn => []<>(W \/ E)
  BY SleepsAgain
<1> HIDE DEF T0, T1, T2, T3, W, E
<1>6. Spec /\ []TaskCanGoOn => []<>(Due \/ E)
  BY <1>1, <1>2, <1>3, <1>4, <1>5, LInvariant, PTL DEF Spec, Fairness, SleepEnds
<1>7. QED
  BY <1>6 DEF E

\* A change is there, and the task is about to redraw; it draws; what it drew
\* has the change; the terminal shows it, or nobody is there to see it.
There(v) == version >= v
DueSince(v) == Due /\ version >= v
Drawing(v) == At("draw") /\ version >= v
Drawn(v) == At("send") /\ frame >= v
Seen(v) == shown >= v \/ At("ended") \/ ~connected

\* The frame does not fail.
Succeeds == errors' = errors

LEMMA ChangeGoesOn ==
  ASSUME LInv, [Next]_vars, NEW v \in Nat
  PROVE  /\ There(v) => There(v)'
         /\ DueSince(v) => DueSince(v)' \/ Drawing(v)'
         /\ Drawing(v) /\ Succeeds => Drawing(v)' \/ Drawn(v)'
         /\ Drawn(v) => Drawn(v)' \/ Seen(v)'
<1> USE DEF There, DueSince, Due, Drawing, Drawn, Seen, Succeeds, At
<1> USE DEF LInv, IInv, TypeOK
<1>1. CASE TaskStep
  <2>1. CASE MarkInitial \/ DirtyWakes \/ Background
    BY <2>1 DEF MarkInitial, DirtyWakes, Background
  <2>2. CASE Reload
    BY <2>2 DEF Reload
  <2>3. CASE TakeTags
    BY <2>3 DEF TakeTags
  <2>4. CASE DrawFrame
    BY <2>4 DEF DrawFrame
  <2>5. CASE SendDiff
    BY <2>5 DEF SendDiff, BaseIsShown
  <2>6. QED
    BY <1>1, <2>1, <2>2, <2>3, <2>4, <2>5 DEF TaskStep
<1>2. CASE ~TaskStep
  <2>1. /\ UNCHANGED <<task, frame>>
        /\ tags \subseteq tags'
        /\ version' >= version
    BY <1>2, OthersLeaveTask
  <2>2. version \in Nat /\ version' \in Nat
    BY Inductive
  <2>3. QED
    BY <2>1, <2>2
<1>3. QED
  BY <1>1, <1>2

LEMMA OwnStepShows ==
  ASSUME LInv, Go, NEW v \in Nat
  PROVE  /\ DueSince(v) => Drawing(v)'
         /\ Drawing(v) /\ Succeeds => Drawn(v)'
         /\ Drawn(v) => Seen(v)'
<1> USE DEF DueSince, Due, Drawing, Drawn, Seen, Succeeds, At
<1> USE DEF LInv, IInv, TypeOK
<1>1. CASE MarkInitial \/ DirtyWakes
  BY <1>1 DEF MarkInitial, DirtyWakes
<1>2. CASE TakeTags
  BY <1>2 DEF TakeTags
<1>3. CASE DrawFrame
  BY <1>3, BoundAssumption DEF DrawFrame
<1>4. CASE SendDiff
  BY <1>4 DEF SendDiff, BaseIsShown
<1>5. QED
  BY <1>1, <1>2, <1>3, <1>4 DEF Go

\* A failing frame is followed by one that does not fail, in the end.
FailuresEnd == <>[][Succeeds]_vars

ChangeIsSeen(v) == (version >= v) ~> (shown >= v \/ At("ended") \/ ~connected)

LEMMA OneChangeIsSeen ==
  ASSUME NEW v \in 1..MaxVersion
  PROVE  Spec /\ []TaskCanGoOn /\ FailuresEnd => ChangeIsSeen(v)
<1> DEFINE P == There(v)
           A == DueSince(v)
           B == Drawing(v)
           C == Drawn(v)
           G == Seen(v)
           E == At("ended")
<1>0. v \in Nat
  BY BoundAssumption
<1>1. LInv /\ [Next]_vars => /\ P => P'
                             /\ A => A' \/ B'
                             /\ B /\ Succeeds => B' \/ C'
                             /\ C => C' \/ G'
  BY <1>0, ChangeGoesOn
<1>2. LInv /\ [Next]_vars /\ Go => /\ A => B'
                                   /\ B /\ Succeeds => C'
                                   /\ C => G'
  BY <1>0, OwnStepShows
<1>3. [Succeeds]_vars => Succeeds
  BY DEF Succeeds, vars
<1>4. /\ P /\ Due => A
      /\ E => G
  BY DEF There, DueSince, Seen
<1>5. TaskCanGoOn /\ (A \/ B \/ C) => ENABLED <<Go>>_vars
  BY DEF TaskCanGoOn, DueSince, Due, Drawing, Drawn, At
<1>6. Spec /\ []TaskCanGoOn => []<>(Due \/ E)
  BY DueAgain
<1> HIDE DEF P, A, B, C, G, E
<1>7. Spec /\ []TaskCanGoOn /\ FailuresEnd => [](P => <>G)
  BY <1>1, <1>2, <1>3, <1>4, <1>5, <1>6, LInvariant, PTL
     DEF Spec, Fairness, TaskIsRun, FailuresEnd
<1>8. QED
  BY <1>7, PTL DEF ChangeIsSeen, P, G, There, Seen

\* Every change is on the screen in the end, marked or not, whatever writers,
\* reloads, resizes and frames that fail come between, as long as the client is
\* there and not every frame fails (screen_refresh_task, background): the
\* fourth tick redraws what nobody marked and what a failed frame left behind.
THEOREM ScreenIsCurrent ==
  Spec /\ []TaskCanGoOn /\ FailuresEnd => ScreenCatchesUp
<1>1. ASSUME NEW v \in 1..MaxVersion
      PROVE  Spec /\ []TaskCanGoOn /\ FailuresEnd => ChangeIsSeen(v)
  BY OneChangeIsSeen
<1>2. Spec /\ []TaskCanGoOn /\ FailuresEnd => \A v \in 1..MaxVersion : ChangeIsSeen(v)
  BY <1>1
<1>3. QED
  BY <1>2 DEF ScreenCatchesUp, ChangeIsSeen
=============================================================================

------------------------------- MODULE Screen -------------------------------
(***************************************************************************)
(* The screen of one SSH session: the dirty tags of lua/dirty.rs and the   *)
(* refresh task of ssh/screen.rs that sleeps until something is dirty,     *)
(* takes the tags and redraws.  What a full redraw would show is a version *)
(* number: a change of the rooms, of the input line or of the Lua modules  *)
(* makes a new version.  The tasks of the session mark a tag after they    *)
(* changed something; other sessions change what is shown and mark nothing.*)
(***************************************************************************)
EXTENDS Naturals, FiniteSets

CONSTANTS
  Writers,       \* tasks of this session that change and mark
  Tags,          \* the tags Lua uses: status, chat, input
  Status,        \* the tag that background() marks
  Sizes,         \* terminal sizes
  MaxVersion,    \* bound: changes
  MaxErrors,     \* bound: frames in which on_tick fails
  MaxResizes     \* bound: changes of the terminal's size

ASSUME StatusAssumption == Status \in Tags
ASSUME BoundAssumption ==
  MaxVersion \in Nat \ {0} /\ MaxErrors \in Nat /\ MaxResizes \in Nat

VARIABLES
  version,       \* what a redraw would show now
  marked,        \* the last version for which a tag was inserted
  shown,         \* what the terminal shows
  base,          \* last_buffer, the frame the next diff is made against
  frame,         \* current_buffer, drawn and not sent yet
  tags,          \* the dirty tags
  permit,        \* a wake-up is stored in the Notify
  task,          \* where the refresh task stands
  ticks,         \* background ticks, modulo 4
  writer,        \* where a writer stands, and the version it made
  errors,        \* frames that failed so far
  connected,     \* the client is there
  termSize,      \* the handler's term_size
  taskSize,      \* term_width and term_height of the task
  resizes        \* resizes so far

vars == <<version, marked, shown, base, frame, tags, permit, task, ticks,
          writer, errors, connected, termSize, taskSize, resizes>>

Idle == [pc |-> "idle", made |-> 0]

Init ==
  /\ version = 1 /\ marked = 0 /\ shown = 0 /\ base = 0 /\ frame = 0
  /\ tags = {} /\ permit = FALSE
  /\ task = "start" /\ ticks = 0
  /\ writer = [w \in Writers |-> Idle]
  /\ errors = 0 /\ connected = TRUE
  /\ termSize \in Sizes /\ taskSize = termSize /\ resizes = 0

-----------------------------------------------------------------------------
(* Who changes what is shown                                               *)

\* push_updates_task, data(), handle_input_action: change, then mark, where
\* mark inserts under the lock and notifies after it.
Change(w) ==
  /\ writer[w].pc = "idle"
  /\ version < MaxVersion
  /\ version' = version + 1
  /\ writer' = [writer EXCEPT ![w] = [pc |-> "insert", made |-> version + 1]]
  /\ UNCHANGED <<marked, shown, base, frame, tags, permit, task, ticks, errors,
                 connected, termSize, taskSize, resizes>>

Inserted(w, new) ==
  /\ writer[w].pc = "insert"
  /\ tags' = tags \cup new
  /\ marked' = IF writer[w].made > marked THEN writer[w].made ELSE marked
  /\ writer' = [writer EXCEPT ![w].pc = "notify"]
  /\ UNCHANGED <<version, shown, base, frame, permit, task, ticks, errors,
                 connected, termSize, taskSize, resizes>>

\* set_input, set_status and a notification mark one tag, a change of the
\* session's context all of them.
InsertTag(w) == \E tag \in Tags : Inserted(w, {tag})
InsertAll(w) == Inserted(w, Tags)

\* Variant: notify_waiters, which stores nothing when nobody waits.
OnlyWaiters == permit \/ task = "wait"
\* notify_one
Notified == TRUE

NotifyTask(w) ==
  /\ writer[w].pc = "notify"
  /\ permit' = Notified
  /\ writer' = [writer EXCEPT ![w] = Idle]
  /\ UNCHANGED <<version, marked, shown, base, frame, tags, task, ticks, errors,
                 connected, termSize, taskSize, resizes>>

\* Another session writes into the room.
ChangeElsewhere ==
  /\ version < MaxVersion
  /\ version' = version + 1
  /\ UNCHANGED <<marked, shown, base, frame, tags, permit, task, ticks, writer,
                 errors, connected, termSize, taskSize, resizes>>

\* window_change_request stores the size in the handler.
Resize ==
  /\ resizes < MaxResizes
  /\ termSize' \in Sizes \ {termSize}
  /\ resizes' = resizes + 1
  /\ UNCHANGED <<version, marked, shown, base, frame, tags, permit, task, ticks,
                 writer, errors, connected, taskSize>>

Disconnect ==
  /\ connected
  /\ connected' = FALSE
  /\ UNCHANGED <<version, marked, shown, base, frame, tags, permit, task, ticks,
                 writer, errors, termSize, taskSize, resizes>>

-----------------------------------------------------------------------------
(* screen_refresh_task                                                     *)

At(pc) == task = pc
MarkAll == tags' = Tags /\ permit' = TRUE

MarkInitial ==
  /\ At("start")
  /\ MarkAll
  /\ task' = "take"
  /\ UNCHANGED <<version, marked, shown, base, frame, ticks, writer, errors,
                 connected, termSize, taskSize, resizes>>

\* The three arms of the select.
DirtyWakes ==
  /\ At("wait")
  /\ permit
  /\ permit' = FALSE
  /\ task' = "take"
  /\ UNCHANGED <<version, marked, shown, base, frame, tags, ticks, writer, errors,
                 connected, termSize, taskSize, resizes>>

\* A module that was loaded is dropped, so the next redraw may differ; of a
\* module that was not loaded nothing changes.
Reload ==
  /\ At("wait")
  /\ \/ /\ version < MaxVersion
        /\ version' = version + 1
        /\ marked' = version + 1
        /\ MarkAll
     \/ UNCHANGED <<version, marked, tags, permit>>
  /\ task' = "take"
  /\ UNCHANGED <<shown, base, frame, ticks, writer, errors, connected, termSize,
                 taskSize, resizes>>

\* Variant: background() marks nothing.
NothingAt(tick) == {}
\* background() marks the status every fourth tick.
MarkedAt(tick) == IF tick = 0 THEN {Status} ELSE {}

\* Variant: the tick is not reduced before it is compared.
Unwrapped(tick) == tick + 1
NextTick(tick) == (tick + 1) % 4

Background ==
  LET tick == NextTick(ticks) IN
  /\ At("wait")
  /\ ticks' = tick
  /\ tags' = tags \cup MarkedAt(tick)
  /\ permit' = (permit \/ MarkedAt(tick) # {})
  /\ task' = "take"
  /\ UNCHANGED <<version, marked, shown, base, frame, writer, errors, connected,
                 termSize, taskSize, resizes>>

TakeTags ==
  /\ At("take")
  /\ task' = IF tags = {} THEN "wait" ELSE "draw"
  /\ tags' = {}
  /\ UNCHANGED <<version, marked, shown, base, frame, permit, ticks, writer,
                 errors, connected, termSize, taskSize, resizes>>

\* on_tick draws the whole screen, whatever the tags; when it fails the frame
\* is skipped, and the tags that asked for it are gone.
DrawFrame ==
  /\ At("draw")
  /\ \/ frame' = version /\ task' = "send" /\ UNCHANGED errors
     \/ /\ errors < MaxErrors
        /\ errors' = errors + 1
        /\ task' = "wait"
        /\ UNCHANGED frame
  /\ UNCHANGED <<version, marked, shown, base, tags, permit, ticks, writer,
                 connected, termSize, taskSize, resizes>>

\* Variant: what became dirty while the frame was drawn is cleared too.
ClearedAgain == {}
TagsAfterSend == tags

\* Nothing is sent when nothing differs; a send that fails ends the task.
SendDiff ==
  /\ At("send")
  /\ base' = frame
  /\ IF frame # base /\ ~connected
       THEN task' = "ended" /\ UNCHANGED shown
       ELSE task' = "wait" /\ shown' = IF frame # base THEN frame ELSE shown
  /\ tags' = TagsAfterSend
  /\ UNCHANGED <<version, marked, frame, permit, ticks, writer, errors, connected,
                 termSize, taskSize, resizes>>

TaskStep ==
  \/ MarkInitial \/ DirtyWakes \/ Reload \/ Background
  \/ TakeTags \/ DrawFrame \/ SendDiff

MarkStep(w) == InsertTag(w) \/ InsertAll(w) \/ NotifyTask(w)

Next ==
  \/ TaskStep
  \/ \E w \in Writers : Change(w) \/ MarkStep(w)
  \/ ChangeElsewhere \/ Resize \/ Disconnect

\* The task is run when it can go on.  Its sleep starts anew after every other
\* event, and ends if there are infinitely many: files are not reloaded, and
\* nothing is marked, every 500 ms for ever.
Go == MarkInitial \/ DirtyWakes \/ TakeTags \/ DrawFrame \/ SendDiff
MarkEnds(w) == WF_vars(MarkStep(w))
TaskIsRun == WF_vars(Go)
SleepEnds == SF_vars(Background)
MarksEnd == \A w \in Writers : MarkEnds(w)
Fairness == TaskIsRun /\ SleepEnds /\ MarksEnd

Spec == Init /\ [][Next]_vars /\ Fairness
-----------------------------------------------------------------------------
(* Properties                                                              *)

\* Every variable has its type; the tick that decides when the status is
\* marked stays below 4.
TypeOK ==
  /\ {version, marked, shown, base, frame} \subseteq 0..MaxVersion
  /\ tags \subseteq Tags /\ permit \in BOOLEAN
  /\ task \in {"start", "wait", "take", "draw", "send", "ended"}
  /\ ticks \in 0..3 /\ errors \in 0..MaxErrors /\ connected \in BOOLEAN
  /\ writer \in [Writers -> [pc : {"idle", "insert", "notify"},
                             made : 0..MaxVersion]]
  /\ {termSize, taskSize} \subseteq Sizes /\ resizes \in 0..MaxResizes

\* The task never sleeps on a dirty screen without a wake-up stored or on its
\* way: no mark is lost between take() and the next notified().
NoSleepWhileDirty ==
  At("wait") /\ tags # {} =>
    permit \/ \E w \in Writers : writer[w].pc = "notify"

\* What was marked is on the screen or will be drawn: the tags are taken
\* before the frame is read, so a change between the two is drawn or leaves
\* its tag (screen.rs loop).  A frame skipped by an error is the exception.
MarkedIsDrawn ==
  errors = 0 /\ ~At("ended") =>
    \/ marked <= base
    \/ tags # {}
    \/ At("draw")
    \/ At("send") /\ marked <= frame

\* Every change is seen in the end, one that nobody marked and one whose frame
\* failed too, as long as the client is there.
ScreenCatchesUp ==
  \A v \in 1..MaxVersion : (version >= v) ~> (shown >= v \/ At("ended") \/ ~connected)
=============================================================================

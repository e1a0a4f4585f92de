------------------------------- MODULE Runtime -------------------------------
(***************************************************************************)
(* What runs the Lua of a user: the modules that a terminal session reads  *)
(* again when they change, the tools of the MCP server, the frames that    *)
(* on_tick draws, and the turns of models that a session waits for.  These *)
(* share no state that the modules speak of, so a behaviour works on one   *)
(* of them.                                                                *)
(***************************************************************************)
EXTENDS HotReload, Frame, Turns

VARIABLE family
runtimeSpecVars == <<family, reloadVars, frameVars, turnsVars>>

Families == {"reload", "tools", "frame", "turns"}

RuntimeInit ==
  /\ family \in Families /\ ReloadInit /\ FrameInit /\ TurnsInit
  \* The files of tools are the server's, the others those of the sessions.
  /\ LET ofTools == {p \in Edited : \E m \in Tools : ToSet(PathsOf(m)) \cap p # {}} IN
     CASE family = "reload" -> touched \notin ofTools
       [] family = "tools" -> touched \in ofTools
       [] OTHER -> touched = CHOOSE p \in Edited : TRUE
  /\ family # "reload" => entry = [s \in Sessions |-> <<>>]

ReloadStep == family = "reload" /\ ReloadNext /\ UNCHANGED <<family, frameVars, turnsVars>>
ServeStep == family = "tools" /\ ServeNext /\ UNCHANGED <<family, frameVars, turnsVars>>
FrameStep == family = "frame" /\ FrameNext /\ UNCHANGED <<family, reloadVars, turnsVars>>
TurnsStep == family = "turns" /\ TurnsNext /\ UNCHANGED <<family, reloadVars, frameVars>>

RuntimeNext == ReloadStep \/ ServeStep \/ FrameStep \/ TurnsStep
RuntimeSpec == RuntimeInit /\ [][RuntimeNext]_runtimeSpecVars

\* Tables of modules, channels, cells and turns have their types.
TypeOK ==
  CASE family = "frame" -> FrameTypeOK
    [] family = "turns" -> TurnsTypeOK
    [] OTHER -> ReloadTypeOK
=============================================================================

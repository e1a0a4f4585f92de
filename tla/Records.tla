------------------------------- MODULE Records -------------------------------
(***************************************************************************)
(* The records of the database that people share: what they say, who they  *)
(* are, the prompts and the exits of rooms.  The families of tables have   *)
(* no row in common, so a behaviour works on one of them.                  *)
(***************************************************************************)
EXTENDS Talk, Prompts, Exits

VARIABLE family
recordsVars == <<family, talkVars, promptsVars, exitsVars>>

Families == {"talk", "prompts", "exits"}

RecordsInit ==
  /\ family \in Families /\ TalkInit /\ PromptsInit /\ ExitsInit
  /\ family # "exits" => built = Rooms

TalkStep == family = "talk" /\ TalkNext /\ UNCHANGED <<family, promptsVars, exitsVars>>
PromptsStep == family = "prompts" /\ PromptsNext /\ UNCHANGED <<family, talkVars, exitsVars>>
ExitsStep == family = "exits" /\ ExitsNext /\ UNCHANGED <<family, talkVars, promptsVars>>

RecordsNext == TalkStep \/ PromptsStep \/ ExitsStep
RecordsSpec == RecordsInit /\ [][RecordsNext]_recordsVars

\* Every table has its type, and every reference in one finds its target.
TypeOK ==
  CASE family = "talk" -> TalkTypeOK
    [] family = "prompts" -> PromptsTypeOK
    [] family = "exits" -> ExitsTypeOK

\* Where exits are worked on, they lead as ExitsLead says.
RoomsLead == family = "exits" => ExitsLead
=============================================================================

------------------------------- MODULE Prompts -------------------------------
(***************************************************************************)
(* Versioned scripts (db/scripts.rs), and prompts, which are scripts of a  *)
(* room (db/mod.rs).  A version is never changed: an edit reads the        *)
(* current one and inserts another, a call of the database each, with a    *)
(* stamp (id and time) drawn between the two.  The paths of one scope;     *)
(* code and description of a version do not matter here.                   *)
(***************************************************************************)
EXTENDS Integers, Sequences, FiniteSets

CONSTANTS
  Editors,     \* who edits: callers of the prompt tools
  Paths,       \* module paths
  MaxEdits     \* bound: commands

ASSUME PromptsAssumption == MaxEdits \in Nat

VARIABLES
  scripts,     \* the versions of all scripts
  drawn,       \* the last stamp
  edit,        \* the edit of an editor that is under way
  edits        \* commands so far

promptsVars == <<scripts, drawn, edit, edits>>

\* parent 0: the first version
Version(r) == [path |-> r.path, at |-> r.at, parent |-> r.script, op |-> r.op, seen |-> r.seen]
NoEdit == [pc |-> "idle", op |-> "none", path |-> "none", script |-> 0, at |-> 0,
                 seen |-> {}, race |-> FALSE, answer |-> "none"]

PromptsInit ==
  /\ scripts = {} /\ drawn = 0 /\ edits = 0
  /\ edit = [e \in Editors |-> NoEdit]

VersionsOf(path) == {v \in scripts : v.path = path}
Stamps(path) == {v.at : v \in VersionsOf(path)}

\* Queries.  The first of the versions, the latest first, if there is one
GetCurrent(path) == {v \in VersionsOf(path) : \A w \in VersionsOf(path) : w.at <= v.at}
ListVersions(path) == [n \in 1..Cardinality(VersionsOf(path)) |->
  CHOOSE v \in VersionsOf(path) : Cardinality({w \in VersionsOf(path) : w.at >= v.at}) = n]
ListScripts == {v \in scripts : v.at \in {w.at : w \in GetCurrent(v.path)}}
GetScript(at) == {v \in scripts : v.at = at}

StartsEdit(e, op, path, pc, script) ==
  /\ edit[e].pc = "idle" /\ edits < MaxEdits
  /\ edits' = edits + 1
  /\ edit' = [edit EXCEPT ![e] = [NoEdit EXCEPT !.pc = pc, !.op = op, !.path = path,
                                                !.script = script, !.seen = Stamps(path)]]
  /\ UNCHANGED <<scripts, drawn>>

EditBecomes(e, r) == edit' = [edit EXCEPT ![e] = r]
\* What failed is remembered until the next command.
EditEnds(e, a) ==
  EditBecomes(e, IF a = "failed" THEN [NoEdit EXCEPT !.race = edit[e].race, !.answer = a]
                 ELSE NoEdit)

\* set_prompt; add_prompt; update_script_by_path
SetPrompt(e) == \E p \in Paths : StartsEdit(e, "set", p, "find", 0)
AddPrompt(e) == \E p \in Paths : StartsEdit(e, "add", p, "stamp", 0)
UpdateByPath(e) == \E p \in Paths : StartsEdit(e, "update", p, "find", 0)
\* set_script_description, of a version that was listed
Describe(e) == \E v \in scripts : StartsEdit(e, "describe", v.path, "read", v.at)

\* delete_prompt: all versions, in one call.
DeletePrompt(e) ==
  \E p \in Paths :
    /\ edit[e].pc = "idle" /\ edits < MaxEdits
    /\ edits' = edits + 1
    /\ scripts' = scripts \ VersionsOf(p)
    /\ edit' = [f \in Editors |->
         IF f = e THEN NoEdit
         ELSE [edit[f] EXCEPT !.race = @ \/ (edit[f].path = p /\ edit[f].pc # "idle")]]
    /\ UNCHANGED drawn

\* set_prompt and update_script_by_path: the current version, ...
FindCurrent(e) ==
  LET current == GetCurrent(edit[e].path) IN
  /\ edit[e].pc = "find"
  /\ \/ \E v \in current : EditBecomes(e, [edit[e] EXCEPT !.pc = "read", !.script = v.at])
     \/ /\ current = {} /\ edit[e].op = "set"
        /\ EditBecomes(e, [edit[e] EXCEPT !.pc = "stamp"])
     \/ /\ current = {} /\ edit[e].op = "update"
        /\ EditEnds(e, "not found")
  /\ UNCHANGED <<scripts, drawn, edits>>

\* ... read again by its id, ...
ReadScript(e) ==
  /\ edit[e].pc = "read"
  /\ IF GetScript(edit[e].script) # {} THEN EditBecomes(e, [edit[e] EXCEPT !.pc = "stamp"])
     ELSE EditEnds(e, "failed")
  /\ UNCHANGED <<scripts, drawn, edits>>

\* Variant: the new version has the time of the one it replaces.
OldStamp(r) == IF r.script # 0 THEN r.script ELSE drawn + 1
NewStamp(r) == drawn + 1

\* ... the stamp, before the lock is taken, ...
DrawStamp(e) ==
  /\ edit[e].pc = "stamp"
  /\ drawn' = drawn + 1
  /\ EditBecomes(e, [edit[e] EXCEPT !.pc = "insert", !.at = NewStamp(edit[e])])
  /\ UNCHANGED <<scripts, edits>>

\* ... and the insert.  No constraint ties it to its parent, or makes the path
\* of a first version unique.
InsertVersion(e) ==
  LET r == edit[e] IN
  /\ r.pc = "insert"
  /\ scripts' = scripts \cup {Version(r)}
  /\ EditEnds(e, "ok")
  /\ UNCHANGED <<drawn, edits>>

PromptsNext ==
  \E e \in Editors : \/ SetPrompt(e) \/ AddPrompt(e) \/ UpdateByPath(e) \/ Describe(e)
                     \/ DeletePrompt(e) \/ FindCurrent(e) \/ ReadScript(e) \/ DrawStamp(e)
                     \/ InsertVersion(e)

-----------------------------------------------------------------------------
(* Properties                                                              *)

PromptsTypeOK ==
  /\ \A v \in scripts : v \in [path : Paths, at : 1..drawn, parent : 0..(v.at - 1),
                               op : {"set", "add", "update", "describe"},
                               seen : SUBSET (0..(v.at - 1))]
  /\ Cardinality(scripts) = Cardinality({v.at : v \in scripts})
  /\ \A p \in Paths : Cardinality(GetCurrent(p)) <= 1
  /\ edits \in 0..MaxEdits

\* An edit hides all that was there when it began, so it is itself hidden by
\* no edit that ended before; and one that goes by the path builds on all of
\* it: what it reads misses only edits it overlapped.  The list shows what a
\* look for the path finds, and the history begins with it.  A command fails
\* only if the prompt was deleted meanwhile.
PromptsInOrder ==
  /\ \A v, w \in scripts : v.path = w.path /\ v.at \in w.seen =>
       /\ v.at < w.at
       /\ w.op \in {"set", "update"} => v.at <= w.parent
  /\ \A p \in Paths :
       /\ {v \in ListScripts : v.path = p} = GetCurrent(p)
       /\ VersionsOf(p) # {} => GetCurrent(p) = {Head(ListVersions(p))}
  /\ \A e \in Editors : edit[e].answer = "failed" => edit[e].race
=============================================================================

---------------------------- MODULE RuntimeProofs ----------------------------
(***************************************************************************)
(* What runs the Lua of a user, for any files, sessions, screens, texts,   *)
(* users, models and tools, any capacity of the channels and any number of *)
(* changes: a module that a session loaded is what its file holds, or the  *)
(* change is on its way; a row that was sent stands on the terminal as it  *)
(* was drawn, and has the fingerprint of that row in the last frame; a     *)
(* model that a terminal shows as busy is at work.                         *)
(***************************************************************************)
EXTENDS Runtime, Functions, FiniteSetTheorems, WellFoundedInduction, TLAPS

-----------------------------------------------------------------------------
(* Files.  The invariant is inductive once sessions that do not follow the *)
(* changes are sure of nothing and the channels keep their bound: what     *)
(* leaves a queue then reaches the next one, the runtime or the set of     *)
(* what the session missed.                                                *)

Named == {ModuleName(p) : p \in Paths}
Phases == {"out", "new", "ready", "in", "client"}
\* What a runtime may hold of a module, what a terminal may show
Contents == (Unloaded..drawn) \ broken
Scripts == (0..drawn) \ broken

FilesOK ==
  /\ touched \subseteq Paths /\ disk \in [Paths -> 0..drawn]
  /\ drawn \in 0..MaxWrites /\ broken \subseteq 1..drawn
  /\ seen \in Seq(Paths)

RuntimesOK ==
  /\ phase \in [Runtimes -> Phases]
  /\ loaded \in [Runtimes -> [Modules -> Contents]]
  /\ shown \in [Sessions -> Scripts]
  /\ backlog \in [Sessions -> Seq(Named)]
  /\ unsure \in [Sessions -> SUBSET Modules]
  /\ entry \in [Sessions -> {<<>>} \cup Own]
  /\ server \in {"down", "up"} /\ (server = "down" => \A c \in Clients : phase[c] = "out")

ChannelsOK ==
  \A s \in Sessions :
    /\ Len(backlog[s]) <= Capacity
    /\ phase[s] # "in" => backlog[s] = <<>> /\ unsure[s] = Modules

\* What a session that follows the changes may say of a module
Covered(s, m) ==
  \/ loaded[s][m] \in {Unloaded, FileOf(m)}
  \/ \E p \in ToSet(seen) : ModuleName(p) = m
  \/ m \in ToSet(backlog[s])
CoveredOK(s) == Subscribed(s) => \A m \in Modules \ unsure[s] : Covered(s, m)

ReloadInv == FilesOK /\ RuntimesOK /\ ChannelsOK /\ \A s \in Sessions : CoveredOK(s)

\* The changes of files, of sessions and of the server
ReloadSpec == ReloadInit /\ [][ReloadNext \/ ServeNext]_reloadVars

-----------------------------------------------------------------------------
(* Names and paths                                                         *)

\* What is appended to a sequence is its last element, the rest is in front.
LEMMA Appended ==
  ASSUME NEW S, NEW q \in Seq(S), NEW x \in S
  PROVE  /\ Append(q, x) \in Seq(S) /\ Len(Append(q, x)) = Len(q) + 1
         /\ Append(q, x)[Len(q) + 1] = x /\ \A i \in 1..Len(q) : Append(q, x)[i] = q[i]
         /\ Front(Append(q, x)) = q
<1>0. Append(q, x) \in Seq(S)
  OBVIOUS
<1>1. PICK p \in Seq(S) : p = Append(q, x)
  BY <1>0
<1>2. Len(p) = Len(q) + 1 /\ p[Len(q) + 1] = x /\ \A i \in 1..Len(q) : p[i] = q[i]
  BY <1>1
<1>3. Front(p) = SubSeq(p, 1, Len(q))
  BY <1>2 DEF Front
<1>4. PICK f \in Seq(S) : f = Front(p)
  BY <1>2, <1>3
<1>5. Len(f) = Len(q) /\ \A i \in 1..Len(q) : f[i] = q[i]
  BY <1>2, <1>3, <1>4
<1>6. f = q
  BY <1>5
<1>7. QED
  BY <1>1, <1>2, <1>4, <1>6

\* A sequence of a set is one of any larger set.
LEMMA SeqMonotone ==
  ASSUME NEW S, NEW T, S \subseteq T, NEW q \in Seq(S)
  PROVE  q \in Seq(T)
OBVIOUS

\* A change of a file that require looks for is told under the module's name.
LEMMA OwnName ==
  ASSUME NEW m \in Modules
  PROVE  /\ m \in Paths /\ Append(m, "init") \in Paths
         /\ PathsOf(m)[1] = m /\ PathsOf(m)[2] = Append(m, "init")
         /\ ModuleName(m) = m /\ ModuleName(Append(m, "init")) = m
         /\ Watched(m) /\ Watched(Append(m, "init"))
<1>1. m \in Seq(STRING) /\ m # <<>> /\ m[1] # Above /\ (Len(m) > 1 => m[Len(m)] # "init")
  BY NameAssumption
<1>2. PathsOf(m)[1] = m /\ PathsOf(m)[2] = Append(m, "init") /\ DOMAIN PathsOf(m) = {1, 2}
  BY DEF PathsOf
<1>3. m \in Paths /\ Append(m, "init") \in Paths
  <2>1. m \in ToSet(PathsOf(m)) /\ Append(m, "init") \in ToSet(PathsOf(m))
    BY <1>2 DEF ToSet
  <2>2. QED
    BY <2>1 DEF Paths
<1>4. ModuleName(m) = m /\ Watched(m)
  BY <1>1 DEF ModuleName, Last, Watched
<1>5. PICK S : S = STRING \cup {"init"}
  OBVIOUS
<1>6. m \in Seq(S) /\ "init" \in S
  BY <1>1, <1>5, SeqMonotone
<1>7. PICK p : p = Append(m, "init")
  OBVIOUS
<1>8. Len(p) = Len(m) + 1 /\ p[Len(m) + 1] = "init" /\ (\A i \in 1..Len(m) : p[i] = m[i]) /\ Front(p) = m
  BY <1>1, <1>6, <1>7, Appended
<1>9. Len(m) \in Nat \ {0}
  BY <1>1
<1>10. Len(p) > 1 /\ Last(p) = "init" /\ p[1] = m[1]
  BY <1>8, <1>9 DEF Last
<1>11. ModuleName(p) = m /\ Watched(p)
  BY <1>1, <1>8, <1>10 DEF ModuleName, Watched
<1>12. QED
  BY <1>2, <1>3, <1>4, <1>7, <1>11

\* What a module is read from has a type.
LEMMA FileTyped ==
  ASSUME FilesOK, NEW m \in Modules
  PROVE  FileOf(m) \in 0..drawn
BY OwnName DEF FilesOK, FileOf

\* What a module is read from changes with a file that is watched under its
\* name.
LEMMA FileMoved ==
  ASSUME NEW m \in Modules, FileOf(m)' # FileOf(m)
  PROVE  \E p \in Paths : disk'[p] # disk[p] /\ Watched(p) /\ ModuleName(p) = m
<1>1. PathsOf(m)[1] = m /\ PathsOf(m)[2] = Append(m, "init")
  BY OwnName
<1>2. PICK p : p = Append(m, "init")
  OBVIOUS
<1>3. FileOf(m) = IF disk[m] # 0 THEN disk[m] ELSE disk[p]
  BY <1>1, <1>2 DEF FileOf
<1>4. FileOf(m)' = IF disk'[m] # 0 THEN disk'[m] ELSE disk'[p]
  BY <1>1, <1>2 DEF FileOf
<1>5. disk'[m] # disk[m] \/ disk'[p] # disk[p]
  BY <1>3, <1>4
<1>6. QED
  BY <1>2, <1>5, OwnName

-----------------------------------------------------------------------------
(* Channels                                                                *)

\* What leaves a queue is its head.
LEMMA Dequeued ==
  ASSUME NEW S, NEW q \in Seq(S), q # <<>>
  PROVE  /\ Head(q) \in S /\ Tail(q) \in Seq(S) /\ Len(Tail(q)) = Len(q) - 1
         /\ \A y \in ToSet(q) : y = Head(q) \/ y \in ToSet(Tail(q))
<1>1. Head(q) = q[1] /\ Head(q) \in S /\ Tail(q) \in Seq(S) /\ Len(Tail(q)) = Len(q) - 1
      /\ Len(q) \in Nat \ {0}
  OBVIOUS
<1>2. PICK t \in Seq(S) : t = Tail(q)
  BY <1>1
<1>3. Len(t) = Len(q) - 1 /\ \A i \in 1..Len(t) : t[i] = q[i + 1]
  BY <1>1, <1>2
<1>4. ASSUME NEW y \in ToSet(q)
      PROVE  y = q[1] \/ y \in ToSet(t)
  <2>1. PICK i \in 1..Len(q) : q[i] = y
    BY DEF ToSet
  <2>2. CASE i = 1
    BY <2>1, <2>2
  <2>3. CASE i # 1
    <3>1. i - 1 \in 1..Len(t) /\ t[i - 1] = y
      BY <1>1, <1>3, <2>1, <2>3
    <3>2. QED
      BY <3>1 DEF ToSet
  <2>4. QED
    BY <2>2, <2>3
<1>5. QED
  BY <1>1, <1>2, <1>4

\* What enters a queue is in it, with what was.
LEMMA Enqueued ==
  ASSUME NEW S, NEW q \in Seq(S), NEW x \in S
  PROVE  /\ Append(q, x) \in Seq(S) /\ Len(Append(q, x)) = Len(q) + 1
         /\ x \in ToSet(Append(q, x)) /\ ToSet(q) \subseteq ToSet(Append(q, x))
<1>1. PICK p \in Seq(S) : p = Append(q, x)
  BY Appended
<1>2. Len(p) = Len(q) + 1 /\ p[Len(q) + 1] = x /\ \A i \in 1..Len(q) : p[i] = q[i]
  BY <1>1, Appended
<1>3. x \in ToSet(p)
  BY <1>2 DEF ToSet
<1>4. ToSet(q) \subseteq ToSet(p)
  BY <1>2 DEF ToSet
<1>5. QED
  BY <1>1, <1>2, <1>3, <1>4

\* A channel at its limit loses its oldest name, and no other.
LEMMA Received ==
  ASSUME NEW S, NEW q \in Seq(S), NEW x \in S, Len(q) <= Capacity
  PROVE  /\ Receives(q, x) \in Seq(S) /\ Len(Receives(q, x)) <= Capacity
         /\ x \in ToSet(Receives(q, x))
         /\ \A y \in ToSet(q) :
              y \in ToSet(Receives(q, x)) \/ (Len(q) = Capacity /\ y = Head(q))
<1>1. Capacity \in Nat \ {0} /\ Len(q) \in Nat
  BY ReloadAssumption
<1>2. CASE Len(q) < Capacity
  <2>1. Receives(q, x) = Append(q, x)
    BY <1>2 DEF Receives
  <2>2. QED
    BY <1>1, <1>2, <2>1, Enqueued
<1>3. CASE Len(q) = Capacity
  <2>1. Receives(q, x) = Append(Tail(q), x) /\ q # <<>>
    BY <1>1, <1>3 DEF Receives
  <2>2. PICK t \in Seq(S) : t = Tail(q)
    BY <2>1, Dequeued
  <2>3. Len(t) = Len(q) - 1 /\ \A y \in ToSet(q) : y = Head(q) \/ y \in ToSet(t)
    BY <2>1, <2>2, Dequeued
  <2>4. Receives(q, x) = Append(t, x)
    BY <2>1, <2>2
  <2>5. Append(t, x) \in Seq(S) /\ Len(Append(t, x)) = Len(t) + 1
        /\ x \in ToSet(Append(t, x)) /\ ToSet(t) \subseteq ToSet(Append(t, x))
    BY Enqueued
  <2>6. QED
    BY <1>1, <1>3, <2>3, <2>4, <2>5
<1>4. QED
  BY <1>1, <1>2, <1>3

-----------------------------------------------------------------------------
(* Loading                                                                 *)

\* require reads files of what is not loaded, and leaves the rest.
LEMMA Required ==
  ASSUME FilesOK, NEW l \in [Modules -> Contents], NEW m \in Modules
  PROVE  /\ Requires(l, m) \in [Modules -> Contents]
         /\ \A k \in Modules :
              \/ Requires(l, m)[k] = l[k]
              \/ l[k] = Unloaded /\ Requires(l, m)[k] = FileOf(k)
<1>1. \A k \in Modules : CanLoad(k) => FileOf(k) \in Contents
  BY FileTyped DEF CanLoad, Contents, Unloaded, FilesOK
<1>2. Unloaded \in Contents
  BY DEF Contents, Unloaded, FilesOK
<1>3. PICK parts : parts = [k \in Modules |->
        IF k \in Needs(m) /\ l[k] = Unloaded /\ CanLoad(k) THEN FileOf(k) ELSE l[k]]
  OBVIOUS
<1>4. parts \in [Modules -> Contents]
  BY <1>1, <1>3
<1>5. \A k \in Modules : parts[k] = l[k] \/ (l[k] = Unloaded /\ parts[k] = FileOf(k))
  BY <1>3
<1>6. PICK x : x = IF \A k \in Needs(m) : parts[k] # Unloaded THEN FileOf(m) ELSE Unloaded
  OBVIOUS
<1>7. Requires(l, m) = IF l[m] # Unloaded \/ ~CanLoad(m) THEN l ELSE [parts EXCEPT ![m] = x]
  BY <1>3, <1>6 DEF Requires
<1>8. CASE l[m] # Unloaded \/ ~CanLoad(m)
  BY <1>7, <1>8
<1>9. CASE l[m] = Unloaded /\ CanLoad(m)
  <2>1. x \in Contents /\ x \in {Unloaded, FileOf(m)}
    BY <1>1, <1>2, <1>6, <1>9
  <2>2. Requires(l, m) = [parts EXCEPT ![m] = x]
    BY <1>7, <1>9
  <2>3. Requires(l, m)[m] = x /\ \A k \in Modules : k # m => Requires(l, m)[k] = parts[k]
    BY <1>4, <2>2
  <2>4. QED
    BY <1>4, <1>5, <1>9, <2>1, <2>2, <2>3
<1>10. QED
  BY <1>8, <1>9

-----------------------------------------------------------------------------
(* The steps                                                               *)

\* Names that sessions follow are those of files.
LEMMA NameOf ==
  ASSUME NEW p \in Paths
  PROVE  ModuleName(p) \in Named
BY DEF Named

\* The watcher is told of a path under <config>/lua.
LEMMA Told ==
  ASSUME NEW q \in Seq(Paths), NEW p \in Paths
  PROVE  /\ Noticed(q, p) \in Seq(Paths) /\ ToSet(q) \subseteq ToSet(Noticed(q, p))
         /\ Watched(p) => p \in ToSet(Noticed(q, p))
BY Enqueued DEF Noticed

\* No file changes without the watcher's notice.
LEMMA FilesChanged ==
  ASSUME FilesOK, EditFiles
  PROVE  /\ FilesOK' /\ drawn' = drawn + 1
         /\ broken \subseteq broken' /\ broken' \subseteq broken \cup {drawn + 1}
         /\ ToSet(seen) \subseteq ToSet(seen')
         /\ \A p \in Paths : disk'[p] # disk[p] /\ Watched(p) => p \in ToSet(seen')
<1>1. PICK p \in touched : WriteFile(p) \/ RemoveFile(p) \/ \E q \in touched : RenameFile(p, q)
  BY DEF EditFiles
<1>2. p \in Paths /\ touched' = touched /\ touched \subseteq Paths /\ seen \in Seq(Paths)
      /\ disk \in [Paths -> 0..drawn] /\ drawn \in 0..MaxWrites /\ broken \subseteq 1..drawn
  BY <1>1 DEF EditFiles, FilesOK
<1>3. MaxWrites \in Nat
  BY ReloadAssumption
<1>4. /\ Noticed(seen, p) \in Seq(Paths) /\ ToSet(seen) \subseteq ToSet(Noticed(seen, p))
      /\ Watched(p) => p \in ToSet(Noticed(seen, p))
  BY <1>2, Told
<1>5. CASE WriteFile(p)
  <2>1. /\ drawn < MaxWrites /\ drawn' = drawn + 1 /\ disk' = [disk EXCEPT ![p] = drawn + 1]
        /\ broken' \in {broken, broken \cup {drawn + 1}} /\ seen' = Noticed(seen, p)
    BY <1>5 DEF WriteFile
  <2>2. disk' \in [Paths -> 0..drawn'] /\ \A r \in Paths : r # p => disk'[r] = disk[r]
    BY <1>2, <2>1
  <2>3. drawn' \in 0..MaxWrites /\ broken' \subseteq 1..drawn'
    BY <1>2, <1>3, <2>1
  <2>4. QED
    BY <1>2, <1>4, <2>1, <2>2, <2>3 DEF FilesOK
<1>6. CASE RemoveFile(p)
  <2>1. /\ drawn < MaxWrites /\ drawn' = drawn + 1 /\ disk' = [disk EXCEPT ![p] = 0]
        /\ broken' = broken /\ seen' = Noticed(seen, p)
    BY <1>6 DEF RemoveFile
  <2>2. disk' \in [Paths -> 0..drawn'] /\ \A r \in Paths : r # p => disk'[r] = disk[r]
    BY <1>2, <2>1
  <2>3. drawn' \in 0..MaxWrites /\ broken' \subseteq 1..drawn'
    BY <1>2, <1>3, <2>1
  <2>4. QED
    BY <1>2, <1>4, <2>1, <2>2, <2>3 DEF FilesOK
<1>7. CASE \E q \in touched : RenameFile(p, q)
  <2>1. PICK q \in touched : RenameFile(p, q)
    BY <1>7
  <2>2. /\ drawn < MaxWrites /\ drawn' = drawn + 1 /\ p # q
        /\ disk' = [disk EXCEPT ![p] = 0, ![q] = disk[p]]
        /\ broken' = broken /\ seen' = Noticed(Noticed(seen, p), q) /\ q \in Paths
    BY <1>2, <2>1 DEF RenameFile
  <2>3. disk' \in [Paths -> 0..drawn'] /\ \A r \in Paths : r # p /\ r # q => disk'[r] = disk[r]
    BY <1>2, <2>2
  <2>4. drawn' \in 0..MaxWrites /\ broken' \subseteq 1..drawn'
    BY <1>2, <1>3, <2>2
  <2>5. /\ seen' \in Seq(Paths) /\ ToSet(Noticed(seen, p)) \subseteq ToSet(seen')
        /\ Watched(q) => q \in ToSet(seen')
    BY <1>4, <2>2, Told
  <2>6. QED
    BY <1>2, <1>4, <2>2, <2>3, <2>4, <2>5 DEF FilesOK
<1>8. QED
  BY <1>1, <1>5, <1>6, <1>7

\* A change of files: what is written was never loaded, and what a module is
\* read from does not change without the watcher's notice.
LEMMA EditKeeps ==
  ASSUME ReloadInv, EditFiles
  PROVE  ReloadInv'
<1>1. FilesOK /\ RuntimesOK /\ ChannelsOK /\ \A s \in Sessions : CoveredOK(s)
  BY DEF ReloadInv
<1>2. /\ FilesOK' /\ drawn' = drawn + 1
      /\ broken \subseteq broken' /\ broken' \subseteq broken \cup {drawn + 1}
      /\ ToSet(seen) \subseteq ToSet(seen')
      /\ \A p \in Paths : disk'[p] # disk[p] /\ Watched(p) => p \in ToSet(seen')
  BY <1>1, FilesChanged
<1>3. phase' = phase /\ loaded' = loaded /\ shown' = shown /\ unsure' = unsure
      /\ backlog' = backlog /\ entry' = entry /\ server' = server
  BY DEF EditFiles, runtimeVars, serverVars
<1>4. Contents \subseteq Contents' /\ Scripts \subseteq Scripts'
  BY <1>1, <1>2 DEF Contents, Scripts, FilesOK, Unloaded
<1>5. RuntimesOK'
  <2>1. loaded' \in [Runtimes -> [Modules -> Contents']]
    BY <1>1, <1>3, <1>4 DEF RuntimesOK
  <2>2. shown' \in [Sessions -> Scripts']
    BY <1>1, <1>3, <1>4 DEF RuntimesOK
  <2>3. QED
    BY <1>1, <1>3, <2>1, <2>2 DEF RuntimesOK
<1>6. ChannelsOK'
  BY <1>1, <1>3 DEF ChannelsOK
<1>7. ASSUME NEW s \in Sessions PROVE CoveredOK(s)'
  <2>1. SUFFICES ASSUME Subscribed(s)', NEW m \in Modules \ unsure'[s] PROVE Covered(s, m)'
    BY DEF CoveredOK
  <2>2. Covered(s, m)
    BY <1>1, <1>3, <2>1 DEF CoveredOK, Subscribed
  <2>3. CASE FileOf(m)' = FileOf(m)
    BY <1>2, <1>3, <2>2, <2>3 DEF Covered
  <2>4. CASE FileOf(m)' # FileOf(m)
    <3>1. PICK p \in Paths : disk'[p] # disk[p] /\ Watched(p) /\ ModuleName(p) = m
      BY <2>4, FileMoved
    <3>2. p \in ToSet(seen')
      BY <1>2, <3>1
    <3>3. QED
      BY <3>1, <3>2 DEF Covered
  <2>5. QED
    BY <2>3, <2>4
<1>8. QED
  BY <1>2, <1>5, <1>6, <1>7 DEF ReloadInv

\* A change processed: its name reaches every session that follows, and the
\* name a full channel loses is one the session is no longer sure of.
LEMMA ProcessKeeps ==
  ASSUME ReloadInv, Process
  PROVE  ReloadInv'
<1>1. FilesOK /\ RuntimesOK /\ ChannelsOK /\ \A s \in Sessions : CoveredOK(s)
  BY DEF ReloadInv
<1>2. PICK n : n = ModuleName(Head(seen))
  OBVIOUS
<1>3. /\ seen # <<>> /\ seen' = Tail(seen)
      /\ backlog' = [s \in Sessions |->
           IF Subscribed(s) THEN Receives(backlog[s], n) ELSE backlog[s]]
      /\ unsure' = [s \in Sessions |->
           IF Subscribed(s) /\ Len(backlog[s]) = Capacity
           THEN unsure[s] \cup ({Head(backlog[s])} \cap Modules) ELSE unsure[s]]
      /\ UNCHANGED <<touched, disk, broken, drawn, phase, loaded, shown, entry, server>>
  BY <1>2 DEF Process, filesVars, serverVars
<1>4. /\ Head(seen) \in Paths /\ seen' \in Seq(Paths)
      /\ \A p \in ToSet(seen) : p = Head(seen) \/ p \in ToSet(seen')
  <2>1. seen \in Seq(Paths)
    BY <1>1 DEF FilesOK
  <2>2. QED
    BY <1>3, <2>1, Dequeued
<1>5. n \in Named
  BY <1>2, <1>4, NameOf
<1>6. FilesOK'
  BY <1>1, <1>3, <1>4 DEF FilesOK
<1>7. \A s \in Sessions : backlog[s] \in Seq(Named) /\ Len(backlog[s]) <= Capacity
        /\ unsure[s] \in SUBSET Modules
  BY <1>1 DEF RuntimesOK, ChannelsOK
<1>8. \A s \in Sessions : Subscribed(s) =>
        /\ backlog'[s] \in Seq(Named) /\ Len(backlog'[s]) <= Capacity /\ n \in ToSet(backlog'[s])
        /\ \A y \in ToSet(backlog[s]) :
             y \in ToSet(backlog'[s]) \/ (Len(backlog[s]) = Capacity /\ y = Head(backlog[s]))
  BY <1>3, <1>5, <1>7, Received
<1>9. \A s \in Sessions : ~Subscribed(s) => backlog'[s] = backlog[s] /\ unsure'[s] = unsure[s]
  BY <1>3
<1>10. \A s \in Sessions : unsure[s] \subseteq unsure'[s]
         /\ (Subscribed(s) /\ Len(backlog[s]) = Capacity =>
               {Head(backlog[s])} \cap Modules \subseteq unsure'[s])
  BY <1>3
<1>11. backlog' \in [Sessions -> Seq(Named)]
  BY <1>3, <1>7, <1>8, <1>9
<1>12. unsure' \in [Sessions -> SUBSET Modules]
  <2>1. \A s \in Sessions : (IF Subscribed(s) /\ Len(backlog[s]) = Capacity
          THEN unsure[s] \cup ({Head(backlog[s])} \cap Modules) ELSE unsure[s]) \in SUBSET Modules
    BY <1>7
  <2>2. QED
    BY <1>3, <2>1
<1>13. RuntimesOK'
  BY <1>1, <1>3, <1>11, <1>12 DEF RuntimesOK, Contents, Scripts
<1>14. ChannelsOK'
  BY <1>1, <1>3, <1>7, <1>8, <1>9 DEF ChannelsOK, Subscribed
<1>15. ASSUME NEW s \in Sessions PROVE CoveredOK(s)'
  <2>1. SUFFICES ASSUME Subscribed(s)', NEW m \in Modules \ unsure'[s] PROVE Covered(s, m)'
    BY DEF CoveredOK
  <2>2. Subscribed(s) /\ m \in Modules \ unsure[s]
    BY <1>3, <1>10, <2>1 DEF Subscribed
  <2>3. Covered(s, m)
    BY <1>1, <2>2 DEF CoveredOK
  <2>4. CASE loaded[s][m] \in {Unloaded, FileOf(m)}
    <3>1. FileOf(m)' = FileOf(m) /\ loaded'[s][m] = loaded[s][m]
      BY <1>3 DEF FileOf
    <3>2. QED
      BY <2>4, <3>1 DEF Covered
  <2>5. CASE \E p \in ToSet(seen) : ModuleName(p) = m
    <3>1. PICK p \in ToSet(seen) : ModuleName(p) = m
      BY <2>5
    <3>2. CASE p \in ToSet(seen')
      BY <3>1, <3>2 DEF Covered
    <3>3. CASE p = Head(seen)
      <4>1. m \in ToSet(backlog'[s])
        BY <1>2, <1>8, <2>2, <3>1, <3>3
      <4>2. QED
        BY <4>1 DEF Covered
    <3>4. QED
      BY <1>4, <3>1, <3>2, <3>3
  <2>6. CASE m \in ToSet(backlog[s])
    <3>1. m \in ToSet(backlog'[s])
      BY <1>8, <1>10, <2>1, <2>2, <2>6
    <3>2. QED
      BY <3>1 DEF Covered
  <2>7. QED
    BY <2>3, <2>4, <2>5, <2>6 DEF Covered
<1>16. QED
  BY <1>6, <1>13, <1>14, <1>15 DEF ReloadInv

-----------------------------------------------------------------------------
(* Steps of a runtime                                                      *)

\* A session for which nothing changed is as well covered as before.
LEMMA StaysCovered ==
  ASSUME NEW s \in Sessions, CoveredOK(s), disk' = disk, seen' = seen, phase'[s] = phase[s],
         loaded'[s] = loaded[s], backlog'[s] = backlog[s], unsure'[s] = unsure[s]
  PROVE  CoveredOK(s)'
<1>1. SUFFICES ASSUME Subscribed(s)', NEW m \in Modules \ unsure'[s] PROVE Covered(s, m)'
  BY DEF CoveredOK
<1>2. Covered(s, m)
  BY <1>1 DEF CoveredOK, Subscribed
<1>3. FileOf(m)' = FileOf(m)
  BY DEF FileOf
<1>4. QED
  BY <1>2, <1>3 DEF Covered

\* A module that is not loaded may be in every table.
LEMMA EmptyTyped ==
  ASSUME FilesOK
  PROVE  Unloaded \in Contents /\ 0 \in Contents /\ 0 \in Scripts /\ Fresh \in [Modules -> Contents]
         /\ Contents \ {Unloaded} \subseteq Scripts
<1>1. Unloaded \in Contents /\ 0 \in Contents /\ 0 \in Scripts
  BY DEF FilesOK, Contents, Scripts, Unloaded
<1>2. Fresh \in [Modules -> Contents]
  BY <1>1 DEF Fresh
<1>3. Contents \ {Unloaded} \subseteq Scripts
  BY DEF FilesOK, Contents, Scripts, Unloaded
<1>4. QED
  BY <1>1, <1>2, <1>3

\* A runtime that requires a module changes its own table.
LEMMA LoadsTyped ==
  ASSUME FilesOK, loaded \in [Runtimes -> [Modules -> Contents]],
         NEW r \in Runtimes, NEW l \in [Modules -> Contents], NEW m \in Modules, Loads(r, l, m)
  PROVE  /\ loaded' \in [Runtimes -> [Modules -> Contents]] /\ loaded'[r] = Requires(l, m)
         /\ \A q \in Runtimes : q # r => loaded'[q] = loaded[q]
<1>1. loaded' = [loaded EXCEPT ![r] = Requires(l, m)]
  BY DEF Loads
<1>2. Requires(l, m) \in [Modules -> Contents]
  BY Required
<1>3. QED
  BY <1>1, <1>2

\* A session that follows the changes is covered for what it just read, and
\* for what it had.
LEMMA LoadsKeep ==
  ASSUME ReloadInv, NEW r \in Runtimes, NEW l \in [Modules -> Contents], NEW m \in Modules,
         Loads(r, l, m), r \in Sessions /\ Subscribed(r) => \A k \in Modules : l[k] \in {Unloaded, loaded[r][k]},
         UNCHANGED <<touched, disk, broken, drawn, seen, backlog, entry, server>>,
         phase' \in [Runtimes -> Phases], \A s \in Sessions : phase'[s] = "in" <=> phase[s] = "in",
         server = "down" => \A c \in Clients : phase'[c] = "out",
         shown' \in [Sessions -> Scripts]
  PROVE  ReloadInv'
<1>1. FilesOK /\ RuntimesOK /\ ChannelsOK /\ \A s \in Sessions : CoveredOK(s)
  BY DEF ReloadInv
<1>2. /\ loaded' \in [Runtimes -> [Modules -> Contents]] /\ loaded'[r] = Requires(l, m)
      /\ \A q \in Runtimes : q # r => loaded'[q] = loaded[q]
  BY <1>1, LoadsTyped DEF RuntimesOK
<1>3. unsure \in [Sessions -> SUBSET Modules]
  BY <1>1 DEF RuntimesOK
<1>4. PICK u : u = {k \in unsure[r] : l[k] # Unloaded}
  OBVIOUS
<1>5. unsure' = IF r \in Sessions /\ Subscribed(r) THEN [unsure EXCEPT ![r] = u] ELSE unsure
  BY <1>4 DEF Loads
<1>6. /\ unsure' \in [Sessions -> SUBSET Modules]
      /\ \A s \in Sessions : s # r \/ ~Subscribed(s) => unsure'[s] = unsure[s]
      /\ r \in Sessions /\ Subscribed(r) => unsure'[r] = u
  BY <1>3, <1>4, <1>5
<1>7. FilesOK'
  BY <1>1 DEF FilesOK
<1>8. RuntimesOK'
  BY <1>1, <1>2, <1>6 DEF RuntimesOK, Contents, Scripts
<1>9. ChannelsOK'
  BY <1>1, <1>6 DEF ChannelsOK, Subscribed
<1>10. ASSUME NEW s \in Sessions PROVE CoveredOK(s)'
  <2>1. SUFFICES ASSUME Subscribed(s)', NEW k \in Modules \ unsure'[s] PROVE Covered(s, k)'
    BY DEF CoveredOK
  <2>2. Subscribed(s) /\ s \in Runtimes
    BY <2>1 DEF Subscribed, Runtimes
  <2>3. FileOf(k)' = FileOf(k)
    BY DEF FileOf
  <2>4. CASE s # r
    <3>1. loaded'[s] = loaded[s] /\ k \in Modules \ unsure[s]
      BY <1>2, <1>6, <2>1, <2>2, <2>4
    <3>2. Covered(s, k)
      BY <1>1, <2>2, <3>1 DEF CoveredOK
    <3>3. QED
      BY <2>3, <3>1, <3>2 DEF Covered
  <2>5. CASE s = r
    <3>1. loaded'[s][k] = l[k] \/ (l[k] = Unloaded /\ loaded'[s][k] = FileOf(k))
      BY <1>1, <1>2, <2>5, Required
    <3>2. l[k] = Unloaded \/ k \in Modules \ unsure[s]
      BY <1>4, <1>6, <2>1, <2>2, <2>5
    <3>3. CASE l[k] = Unloaded
      BY <2>3, <3>1, <3>3 DEF Covered
    <3>4. CASE l[k] # Unloaded
      <4>1. Covered(s, k) /\ loaded'[s][k] = loaded[s][k]
        BY <1>1, <2>2, <2>5, <3>1, <3>2, <3>4 DEF CoveredOK
      <4>2. QED
        BY <2>3, <4>1 DEF Covered
    <3>5. QED
      BY <3>3, <3>4
  <2>6. QED
    BY <2>4, <2>5
<1>11. QED
  BY <1>7, <1>8, <1>9, <1>10 DEF ReloadInv

\* What a session shows after a module was loaded is what it loaded.
LEMMA ShowsTyped ==
  ASSUME FilesOK, shown \in [Sessions -> Scripts], loaded' \in [Runtimes -> [Modules -> Contents]],
         NEW s \in Sessions, NEW m \in Modules, Shows(s, m)
  PROVE  shown' \in [Sessions -> Scripts]
<1>1. loaded'[s][m] \in Contents
  BY DEF Runtimes
<1>2. CASE loaded'[s][m] = Unloaded
  BY <1>2 DEF Shows
<1>3. CASE loaded'[s][m] # Unloaded
  <2>1. loaded'[s][m] \in Scripts
    BY <1>1, <1>3, EmptyTyped
  <2>2. QED
    BY <1>3, <2>1 DEF Shows
<1>4. QED
  BY <1>2, <1>3

\* The script of a user is one that runs.
LEMMA ScriptTyped ==
  ASSUME FilesOK, NEW s \in Sessions
  PROVE  ScriptOf(s) \in Scripts
<1>1. UserScript(s) \in Paths /\ SharedScript \in Paths
  <2>1. UserScript(s) \in {UserScript(q) : q \in Sessions}
    OBVIOUS
  <2>2. SharedScript \in {SharedScript, McpScript}
    OBVIOUS
  <2>3. QED
    BY <2>1, <2>2 DEF Paths
<1>2. PICK p \in Paths, q \in Paths : p = UserScript(s) /\ q = SharedScript
  BY <1>1
<1>3. ScriptOf(s) = IF Runs(p) THEN disk[p] ELSE IF Runs(q) THEN disk[q] ELSE 0
  BY <1>2 DEF ScriptOf
<1>4. disk[p] \in 0..drawn /\ disk[q] \in 0..drawn
  BY DEF FilesOK
<1>5. QED
  BY <1>3, <1>4, EmptyTyped DEF Runs, Scripts

\* A runtime that follows no changes, before or after, is not covered.
LEMMA OutsideKeeps ==
  ASSUME ReloadInv, NEW r \in Runtimes, phase[r] # "in", phase'[r] # "in",
         UNCHANGED <<touched, disk, broken, drawn, seen, backlog, unsure, entry>>,
         \A q \in Runtimes : q # r => phase'[q] = phase[q] /\ loaded'[q] = loaded[q],
         RuntimesOK'
  PROVE  ReloadInv'
<1>1. FilesOK /\ RuntimesOK /\ ChannelsOK /\ \A s \in Sessions : CoveredOK(s)
  BY DEF ReloadInv
<1>2. FilesOK'
  BY <1>1 DEF FilesOK
<1>3. ASSUME NEW s \in Sessions
      PROVE  CoveredOK(s)' /\ (phase'[s] = "in" <=> phase[s] = "in")
  <2>1. CASE s = r
    BY <2>1 DEF CoveredOK, Subscribed
  <2>2. CASE s # r
    <3>1. s \in Runtimes
      BY DEF Runtimes
    <3>2. phase'[s] = phase[s] /\ loaded'[s] = loaded[s]
      BY <2>2, <3>1
    <3>3. QED
      BY <1>1, <3>2, StaysCovered
  <2>3. QED
    BY <2>1, <2>2
<1>4. ChannelsOK'
  BY <1>1, <1>3 DEF ChannelsOK
<1>5. QED
  BY <1>2, <1>3, <1>4 DEF ReloadInv

\* A new runtime of a session has the embedded parts and the user's script.
LEMMA NewForUserKeeps ==
  ASSUME ReloadInv, NEW s \in Sessions, NewForUser(s)
  PROVE  ReloadInv'
<1>1. FilesOK /\ RuntimesOK /\ s \in Runtimes
  BY DEF ReloadInv, Runtimes
<1>2. /\ phase[s] = "out" /\ phase' = [phase EXCEPT ![s] = "new"]
      /\ shown' = [shown EXCEPT ![s] = ScriptOf(s)] /\ loaded' = [loaded EXCEPT ![s] = Fresh]
      /\ UNCHANGED <<touched, disk, broken, drawn, seen, backlog, unsure, entry, server>>
  BY DEF NewForUser, filesVars, serverVars
<1>3. phase \in [Runtimes -> Phases] /\ loaded \in [Runtimes -> [Modules -> Contents]]
      /\ shown \in [Sessions -> Scripts]
  BY <1>1 DEF RuntimesOK
<1>4. phase' \in [Runtimes -> Phases] /\ phase'[s] = "new"
      /\ \A q \in Runtimes : q # s => phase'[q] = phase[q]
  BY <1>1, <1>2, <1>3 DEF Phases
<1>5. Fresh \in [Modules -> Contents] /\ ScriptOf(s) \in Scripts
  BY <1>1, EmptyTyped, ScriptTyped
<1>6. loaded' \in [Runtimes -> [Modules -> Contents]]
      /\ \A q \in Runtimes : q # s => loaded'[q] = loaded[q]
  BY <1>1, <1>2, <1>3, <1>5
<1>7. shown' \in [Sessions -> Scripts]
  BY <1>2, <1>3, <1>5
<1>8. \A c \in Clients : c # s /\ phase'[c] = phase[c]
  BY <1>4, ReloadAssumption DEF Runtimes
<1>9. RuntimesOK'
  BY <1>1, <1>2, <1>4, <1>6, <1>7, <1>8 DEF RuntimesOK, Contents, Scripts
<1>10. QED
  BY <1>1, <1>2, <1>4, <1>6, <1>9, OutsideKeeps

\* The entry point, if there is one, is loaded before the session follows
\* the changes.
LEMMA LoadEntrypointKeeps ==
  ASSUME ReloadInv, NEW s \in Sessions, LoadEntrypoint(s)
  PROVE  ReloadInv'
<1>1. FilesOK /\ RuntimesOK /\ s \in Runtimes
  BY DEF ReloadInv, Runtimes
<1>2. PICK m : m = entry[s]
  OBVIOUS
<1>3. /\ phase[s] = "new" /\ phase' = [phase EXCEPT ![s] = "ready"]
      /\ \/ m = <<>> /\ UNCHANGED <<loaded, shown, unsure>>
         \/ m # <<>> /\ Loads(s, loaded[s], m) /\ Shows(s, m)
      /\ UNCHANGED <<touched, disk, broken, drawn, seen, backlog, entry, server>>
  BY <1>2 DEF LoadEntrypoint, filesVars, serverVars
<1>4. phase \in [Runtimes -> Phases] /\ loaded \in [Runtimes -> [Modules -> Contents]]
      /\ shown \in [Sessions -> Scripts] /\ m \in {<<>>} \cup Own
  BY <1>1, <1>2 DEF RuntimesOK
<1>5. phase' \in [Runtimes -> Phases] /\ phase'[s] = "ready"
      /\ \A q \in Runtimes : q # s => phase'[q] = phase[q]
  BY <1>1, <1>3, <1>4 DEF Phases
<1>6. \A c \in Clients : c # s /\ phase'[c] = phase[c]
  BY <1>5, ReloadAssumption DEF Runtimes
<1>7. CASE m = <<>> /\ UNCHANGED <<loaded, shown, unsure>>
  <2>1. RuntimesOK'
    BY <1>1, <1>3, <1>5, <1>6, <1>7 DEF RuntimesOK, Contents, Scripts
  <2>2. QED
    BY <1>1, <1>3, <1>5, <1>7, <2>1, OutsideKeeps
<1>8. CASE m # <<>> /\ Loads(s, loaded[s], m) /\ Shows(s, m)
  <2>1. PICK l \in [Modules -> Contents] : l = loaded[s]
    BY <1>1, <1>4
  <2>2. m \in Modules /\ Loads(s, l, m)
    BY <1>4, <1>8, <2>1 DEF Modules
  <2>3. loaded' \in [Runtimes -> [Modules -> Contents]]
    BY <1>1, <1>4, <2>2, LoadsTyped
  <2>4. shown' \in [Sessions -> Scripts]
    BY <1>1, <1>4, <1>8, <2>2, <2>3, ShowsTyped
  <2>5. server = "down" => \A c \in Clients : phase'[c] = "out"
    BY <1>1, <1>6 DEF RuntimesOK
  <2>6. \A q \in Sessions : phase'[q] = "in" <=> phase[q] = "in"
    BY <1>3, <1>5 DEF Runtimes
  <2>7. ~Subscribed(s)
    BY <1>3 DEF Subscribed
  <2>8. QED
    BY <1>1, <1>3, <1>5, <2>2, <2>4, <2>5, <2>6, <2>7, LoadsKeep
<1>9. QED
  BY <1>3, <1>7, <1>8

\* A session begins to follow the changes, sure of nothing.
LEMMA SubscribeKeeps ==
  ASSUME ReloadInv, NEW s \in Sessions, Subscribe(s)
  PROVE  ReloadInv'
<1>1. FilesOK /\ RuntimesOK /\ ChannelsOK /\ (\A q \in Sessions : CoveredOK(q)) /\ s \in Runtimes
  BY DEF ReloadInv, Runtimes
<1>2. /\ phase[s] = "ready" /\ phase' = [phase EXCEPT ![s] = "in"]
      /\ UNCHANGED <<touched, disk, broken, drawn, seen, loaded, shown, backlog, unsure, entry, server>>
  BY DEF Subscribe, filesVars, serverVars
<1>3. phase \in [Runtimes -> Phases]
  BY <1>1 DEF RuntimesOK
<1>4. phase' \in [Runtimes -> Phases] /\ phase'[s] = "in"
      /\ \A q \in Runtimes : q # s => phase'[q] = phase[q]
  BY <1>1, <1>2, <1>3 DEF Phases
<1>5. \A c \in Clients : c # s /\ phase'[c] = phase[c]
  BY <1>4, ReloadAssumption DEF Runtimes
<1>6. FilesOK' /\ RuntimesOK'
  BY <1>1, <1>2, <1>4, <1>5 DEF FilesOK, RuntimesOK, Contents, Scripts
<1>7. \A q \in Sessions : q \in Runtimes
  BY DEF Runtimes
<1>8. ChannelsOK'
  BY <1>1, <1>2, <1>4, <1>7 DEF ChannelsOK
<1>9. ASSUME NEW q \in Sessions PROVE CoveredOK(q)'
  <2>1. CASE q = s
    <3>1. unsure'[q] = Modules
      BY <1>1, <1>2, <2>1 DEF ChannelsOK
    <3>2. QED
      BY <3>1 DEF CoveredOK
  <2>2. CASE q # s
    BY <1>1, <1>2, <1>4, <1>7, <2>2, StaysCovered
  <2>3. QED
    BY <2>1, <2>2
<1>10. QED
  BY <1>6, <1>8, <1>9 DEF ReloadInv

\* A session that ends takes its runtime and its channel along.
LEMMA LeaveKeeps ==
  ASSUME ReloadInv, NEW s \in Sessions, Leave(s)
  PROVE  ReloadInv'
<1>1. FilesOK /\ RuntimesOK /\ ChannelsOK /\ (\A q \in Sessions : CoveredOK(q)) /\ s \in Runtimes
  BY DEF ReloadInv, Runtimes
<1>2. PICK none : none = [m \in Modules |-> Unloaded]
  OBVIOUS
<1>3. /\ phase' = [phase EXCEPT ![s] = "out"] /\ loaded' = [loaded EXCEPT ![s] = none]
      /\ shown' = [shown EXCEPT ![s] = 0] /\ backlog' = [backlog EXCEPT ![s] = <<>>]
      /\ unsure' = [unsure EXCEPT ![s] = Modules]
      /\ UNCHANGED <<touched, disk, broken, drawn, seen, entry, server>>
  BY <1>2 DEF Leave, filesVars, serverVars
<1>4. /\ phase \in [Runtimes -> Phases] /\ loaded \in [Runtimes -> [Modules -> Contents]]
      /\ shown \in [Sessions -> Scripts] /\ backlog \in [Sessions -> Seq(Named)]
      /\ unsure \in [Sessions -> SUBSET Modules]
  BY <1>1 DEF RuntimesOK
<1>5. none \in [Modules -> Contents] /\ 0 \in Scripts
  BY <1>1, <1>2, EmptyTyped
<1>6. phase' \in [Runtimes -> Phases] /\ phase'[s] = "out"
      /\ \A q \in Runtimes : q # s => phase'[q] = phase[q]
  BY <1>1, <1>3, <1>4 DEF Phases
<1>7. loaded' \in [Runtimes -> [Modules -> Contents]]
      /\ \A q \in Runtimes : q # s => loaded'[q] = loaded[q]
  BY <1>1, <1>3, <1>4, <1>5
<1>8. shown' \in [Sessions -> Scripts]
  BY <1>3, <1>4, <1>5
<1>9. backlog' \in [Sessions -> Seq(Named)] /\ backlog'[s] = <<>>
      /\ \A q \in Sessions : q # s => backlog'[q] = backlog[q]
  BY <1>3, <1>4
<1>10. unsure' \in [Sessions -> SUBSET Modules] /\ unsure'[s] = Modules
       /\ \A q \in Sessions : q # s => unsure'[q] = unsure[q]
  BY <1>3, <1>4
<1>11. \A c \in Clients : c # s /\ phase'[c] = phase[c]
  BY <1>6, ReloadAssumption DEF Runtimes
<1>12. FilesOK' /\ RuntimesOK'
  BY <1>1, <1>3, <1>6, <1>7, <1>8, <1>9, <1>10, <1>11 DEF FilesOK, RuntimesOK, Contents, Scripts
<1>13. \A q \in Sessions : q \in Runtimes
  BY DEF Runtimes
<1>14. ASSUME NEW q \in Sessions
       PROVE  Len(backlog'[q]) <= Capacity /\ (phase'[q] # "in" => backlog'[q] = <<>> /\ unsure'[q] = Modules)
  <2>1. CASE q = s
    BY <1>9, <1>10, <2>1, ReloadAssumption
  <2>2. CASE q # s
    BY <1>1, <1>6, <1>9, <1>10, <1>13, <2>2 DEF ChannelsOK
  <2>3. QED
    BY <2>1, <2>2
<1>15. ASSUME NEW q \in Sessions PROVE CoveredOK(q)'
  <2>1. CASE q = s
    BY <1>6, <2>1 DEF CoveredOK, Subscribed
  <2>2. CASE q # s
    <3>1. phase'[q] = phase[q] /\ loaded'[q] = loaded[q] /\ backlog'[q] = backlog[q] /\ unsure'[q] = unsure[q]
      BY <1>6, <1>7, <1>9, <1>10, <1>13, <2>2
    <3>2. QED
      BY <1>1, <1>3, <3>1, StaysCovered
  <2>3. QED
    BY <2>1, <2>2
<1>16. QED
  BY <1>12, <1>14, <1>15 DEF ReloadInv, ChannelsOK

\* A name that arrives: its module is forgotten.
LEMMA InvalidateKeeps ==
  ASSUME ReloadInv, NEW s \in Sessions, Invalidate(s)
  PROVE  ReloadInv'
<1>1. FilesOK /\ RuntimesOK /\ ChannelsOK /\ (\A q \in Sessions : CoveredOK(q)) /\ s \in Runtimes
  BY DEF ReloadInv, Runtimes
<1>2. /\ phase \in [Runtimes -> Phases] /\ loaded \in [Runtimes -> [Modules -> Contents]]
      /\ backlog \in [Sessions -> Seq(Named)] /\ unsure \in [Sessions -> SUBSET Modules]
  BY <1>1 DEF RuntimesOK
<1>3. PICK n : n = Head(backlog[s])
  OBVIOUS
<1>4. PICK l : l = IF n \in Modules THEN [loaded[s] EXCEPT ![n] = Unloaded] ELSE loaded[s]
  OBVIOUS
<1>5. PICK b : b = Tail(backlog[s])
  OBVIOUS
<1>6. PICK u : u = unsure[s] \ {n}
  OBVIOUS
<1>7. /\ phase[s] = "in" /\ backlog[s] # <<>>
      /\ loaded' = [loaded EXCEPT ![s] = l] /\ unsure' = [unsure EXCEPT ![s] = u]
      /\ backlog' = [backlog EXCEPT ![s] = b]
      /\ UNCHANGED <<touched, disk, broken, drawn, seen, phase, shown, entry, server>>
  BY <1>3, <1>4, <1>5, <1>6 DEF Invalidate, Subscribed, filesVars, serverVars
<1>8. /\ b \in Seq(Named) /\ Len(b) = Len(backlog[s]) - 1
      /\ \A y \in ToSet(backlog[s]) : y = n \/ y \in ToSet(b)
  BY <1>2, <1>3, <1>5, <1>7, Dequeued
<1>9. /\ l \in [Modules -> Contents] /\ (n \in Modules => l[n] = Unloaded)
      /\ \A m \in Modules : m # n => l[m] = loaded[s][m]
  <2>1. loaded[s] \in [Modules -> Contents] /\ Unloaded \in Contents
    BY <1>1, <1>2, EmptyTyped
  <2>2. QED
    BY <1>4, <2>1
<1>10. loaded' \in [Runtimes -> [Modules -> Contents]] /\ loaded'[s] = l
       /\ \A q \in Runtimes : q # s => loaded'[q] = loaded[q]
  BY <1>1, <1>2, <1>7, <1>9
<1>11. backlog' \in [Sessions -> Seq(Named)] /\ backlog'[s] = b
       /\ \A q \in Sessions : q # s => backlog'[q] = backlog[q]
  BY <1>2, <1>7, <1>8
<1>12. unsure' \in [Sessions -> SUBSET Modules] /\ unsure'[s] = u
       /\ \A q \in Sessions : q # s => unsure'[q] = unsure[q]
  BY <1>2, <1>6, <1>7
<1>13. FilesOK' /\ RuntimesOK'
  BY <1>1, <1>7, <1>10, <1>11, <1>12 DEF FilesOK, RuntimesOK, Contents, Scripts
<1>14. \A q \in Sessions : q \in Runtimes
  BY DEF Runtimes
<1>15. ASSUME NEW q \in Sessions
       PROVE  Len(backlog'[q]) <= Capacity /\ (phase'[q] # "in" => backlog'[q] = <<>> /\ unsure'[q] = Modules)
  <2>1. Len(backlog[q]) <= Capacity /\ (phase[q] # "in" => backlog[q] = <<>> /\ unsure[q] = Modules)
    BY <1>1 DEF ChannelsOK
  <2>2. CASE q = s
    <3>1. Len(backlog[s]) \in Nat /\ Capacity \in Nat
      BY <1>2, ReloadAssumption
    <3>2. QED
      BY <1>7, <1>8, <1>11, <2>1, <2>2, <3>1
  <2>3. CASE q # s
    BY <1>7, <1>11, <1>12, <2>1, <2>3
  <2>4. QED
    BY <2>2, <2>3
<1>16. ASSUME NEW q \in Sessions PROVE CoveredOK(q)'
  <2>1. CASE q = s
    <3>1. SUFFICES ASSUME NEW m \in Modules \ u PROVE Covered(s, m)'
      BY <1>12, <2>1 DEF CoveredOK
    <3>2. CASE m = n
      <4>1. loaded'[s][m] = Unloaded
        BY <1>9, <1>10, <3>1, <3>2
      <4>2. QED
        BY <4>1 DEF Covered
    <3>3. CASE m # n
      <4>1. m \in Modules \ unsure[s] /\ loaded'[s][m] = loaded[s][m] /\ FileOf(m)' = FileOf(m)
        BY <1>6, <1>7, <1>9, <1>10, <3>1, <3>3 DEF FileOf
      <4>2. Covered(s, m)
        BY <1>1, <1>7, <4>1 DEF CoveredOK, Subscribed
      <4>3. m \in ToSet(backlog[s]) => m \in ToSet(backlog'[s])
        BY <1>8, <1>11, <3>3
      <4>4. QED
        BY <1>7, <4>1, <4>2, <4>3 DEF Covered
    <3>4. QED
      BY <3>2, <3>3
  <2>2. CASE q # s
    <3>1. phase'[q] = phase[q] /\ loaded'[q] = loaded[q] /\ backlog'[q] = backlog[q] /\ unsure'[q] = unsure[q]
      BY <1>7, <1>10, <1>11, <1>12, <1>14, <2>2
    <3>2. QED
      BY <1>1, <1>7, <3>1, StaysCovered
  <2>3. QED
    BY <2>1, <2>2
<1>17. QED
  BY <1>13, <1>15, <1>16 DEF ReloadInv, ChannelsOK

\* A command of a session that forgets some modules and requires one.
LEMMA CommandKeeps ==
  ASSUME ReloadInv, NEW s \in Sessions, Subscribed(s), NEW m \in Modules,
         NEW l, l = [k \in Modules |-> l[k]], \A k \in Modules : l[k] \in {Unloaded, loaded[s][k]},
         Loads(s, l, m), Shows(s, m) \/ shown' = shown,
         UNCHANGED <<touched, disk, broken, drawn, seen, phase, backlog, entry, server>>
  PROVE  ReloadInv'
<1>1. FilesOK /\ RuntimesOK /\ s \in Runtimes
  BY DEF ReloadInv, Runtimes
<1>2. loaded \in [Runtimes -> [Modules -> Contents]] /\ shown \in [Sessions -> Scripts]
      /\ phase \in [Runtimes -> Phases]
  BY <1>1 DEF RuntimesOK
<1>3. l \in [Modules -> Contents]
  <2>1. Unloaded \in Contents /\ \A k \in Modules : loaded[s][k] \in Contents
    BY <1>1, <1>2, EmptyTyped
  <2>2. \A k \in Modules : l[k] \in Contents
    BY <2>1
  <2>3. [k \in Modules |-> l[k]] \in [Modules -> Contents]
    BY <2>2
  <2>4. QED
    BY <2>3
<1>4. loaded' \in [Runtimes -> [Modules -> Contents]]
  BY <1>1, <1>2, <1>3, LoadsTyped
<1>5. shown' \in [Sessions -> Scripts]
  BY <1>1, <1>2, <1>4, ShowsTyped
<1>6. server = "down" => \A c \in Clients : phase'[c] = "out"
  BY <1>1 DEF RuntimesOK
<1>7. QED
  BY <1>1, <1>2, <1>3, <1>5, <1>6, LoadsKeep

\* A step of a session keeps the invariant.
LEMMA SessionKeeps ==
  ASSUME ReloadInv, NEW s \in Sessions, SessionStep(s)
  PROVE  ReloadInv'
<1>1. Screen \in Modules /\ Stable \in Modules
  BY DEF Modules
<1>2. loaded[s] \in [Modules -> Contents]
  BY DEF ReloadInv, RuntimesOK, Runtimes
<1>3. CASE NewForUser(s)
  BY <1>3, NewForUserKeeps
<1>4. CASE LoadEntrypoint(s)
  BY <1>4, LoadEntrypointKeeps
<1>5. CASE Subscribe(s)
  BY <1>5, SubscribeKeeps
<1>6. CASE Leave(s)
  BY <1>6, LeaveKeeps
<1>7. CASE Invalidate(s)
  BY <1>7, InvalidateKeeps
<1>8. CASE ReloadAll(s) \/ ReloadDefault(s)
  <2>1. PICK m \in {Screen, Stable} : Reloads(s, m)
    BY <1>8 DEF ReloadAll, ReloadDefault
  <2>2. PICK l : l = Cleared(loaded[s])
    OBVIOUS
  <2>3. l = [k \in Modules |-> l[k]] /\ \A k \in Modules : l[k] \in {Unloaded, loaded[s][k]}
    BY <2>2 DEF Cleared
  <2>4. /\ Subscribed(s) /\ Loads(s, l, m) /\ Shows(s, m)
        /\ UNCHANGED <<touched, disk, broken, drawn, seen, phase, backlog, entry, server>>
    BY <2>1, <2>2 DEF Reloads, filesVars, serverVars
  <2>5. QED
    BY <1>1, <2>3, <2>4, CommandKeeps
<1>9. CASE \E m \in Modules \ Tools : ReloadOne(s, m)
  <2>1. PICK m \in Modules : ReloadOne(s, m)
    BY <1>9
  <2>2. PICK l : l = [loaded[s] EXCEPT ![m] = Unloaded]
    OBVIOUS
  <2>3. l = [k \in Modules |-> l[k]] /\ \A k \in Modules : l[k] \in {Unloaded, loaded[s][k]}
    BY <1>2, <2>2
  <2>4. /\ Subscribed(s) /\ Loads(s, l, m) /\ shown' = shown
        /\ UNCHANGED <<touched, disk, broken, drawn, seen, phase, backlog, entry, server>>
    BY <2>1, <2>2 DEF ReloadOne, filesVars, serverVars
  <2>5. QED
    BY <2>3, <2>4, CommandKeeps
<1>10. CASE \E m \in Modules \ Tools : Require(s, m)
  <2>1. PICK m \in Modules : Require(s, m)
    BY <1>10
  <2>2. PICK l : l = loaded[s]
    OBVIOUS
  <2>3. l = [k \in Modules |-> l[k]] /\ \A k \in Modules : l[k] \in {Unloaded, loaded[s][k]}
    BY <1>2, <2>2
  <2>4. /\ Subscribed(s) /\ Loads(s, l, m) /\ shown' = shown
        /\ UNCHANGED <<touched, disk, broken, drawn, seen, phase, backlog, entry, server>>
    BY <2>1, <2>2 DEF Require, filesVars, serverVars
  <2>5. QED
    BY <2>3, <2>4, CommandKeeps
<1>11. QED
  BY <1>3, <1>4, <1>5, <1>6, <1>7, <1>8, <1>9, <1>10 DEF SessionStep

\* The server starts, a client connects, a tool is called.
LEMMA StartServerKeeps ==
  ASSUME ReloadInv, StartServer
  PROVE  ReloadInv'
<1>1. FilesOK /\ RuntimesOK /\ ChannelsOK /\ \A s \in Sessions : CoveredOK(s)
  BY DEF ReloadInv
<1>2. /\ server' = "up"
      /\ UNCHANGED <<touched, disk, broken, drawn, seen, phase, loaded, shown, unsure, backlog, entry>>
  BY DEF StartServer, filesVars, runtimeVars
<1>3. FilesOK' /\ RuntimesOK' /\ ChannelsOK'
  BY <1>1, <1>2 DEF FilesOK, RuntimesOK, ChannelsOK, Contents, Scripts
<1>4. \A s \in Sessions : CoveredOK(s)'
  BY <1>1, <1>2, StaysCovered
<1>5. QED
  BY <1>3, <1>4 DEF ReloadInv

\* A client gets a runtime that follows no changes.
LEMMA ConnectKeeps ==
  ASSUME ReloadInv, NEW c \in Clients, Connect(c)
  PROVE  ReloadInv'
<1>1. FilesOK /\ RuntimesOK /\ c \in Runtimes
  BY DEF ReloadInv, Runtimes
<1>2. /\ server = "up" /\ phase[c] = "out" /\ phase' = [phase EXCEPT ![c] = "client"]
      /\ loaded' = [loaded EXCEPT ![c] = Fresh]
      /\ UNCHANGED <<touched, disk, broken, drawn, seen, shown, backlog, unsure, entry, server>>
  BY DEF Connect, filesVars, serverVars
<1>3. phase \in [Runtimes -> Phases] /\ loaded \in [Runtimes -> [Modules -> Contents]]
  BY <1>1 DEF RuntimesOK
<1>4. phase' \in [Runtimes -> Phases] /\ phase'[c] = "client"
      /\ \A q \in Runtimes : q # c => phase'[q] = phase[q]
  BY <1>1, <1>2, <1>3 DEF Phases
<1>5. Fresh \in [Modules -> Contents]
  BY <1>1, EmptyTyped
<1>6. loaded' \in [Runtimes -> [Modules -> Contents]]
      /\ \A q \in Runtimes : q # c => loaded'[q] = loaded[q]
  BY <1>1, <1>2, <1>3, <1>5
<1>7. RuntimesOK'
  BY <1>1, <1>2, <1>4, <1>6 DEF RuntimesOK, Contents, Scripts
<1>8. QED
  BY <1>1, <1>2, <1>4, <1>6, <1>7, OutsideKeeps

\* A tool that is called is loaded where it is called.
LEMMA DispatchKeeps ==
  ASSUME ReloadInv, NEW c \in Clients, NEW m \in Tools, Dispatch(c, m)
  PROVE  ReloadInv'
<1>1. FilesOK /\ RuntimesOK /\ c \in Runtimes /\ m \in Modules
  BY DEF ReloadInv, Runtimes, Modules
<1>2. /\ Loads(c, loaded[c], m)
      /\ UNCHANGED <<touched, disk, broken, drawn, seen, phase, shown, backlog, entry, server>>
  BY DEF Dispatch, filesVars, serverVars
<1>3. phase \in [Runtimes -> Phases] /\ loaded \in [Runtimes -> [Modules -> Contents]]
      /\ shown \in [Sessions -> Scripts] /\ (server = "down" => \A d \in Clients : phase[d] = "out")
  BY <1>1 DEF RuntimesOK
<1>4. PICK l \in [Modules -> Contents] : l = loaded[c]
  BY <1>1, <1>3
<1>5. c \notin Sessions /\ Loads(c, l, m)
  BY <1>2, <1>4, ReloadAssumption
<1>6. QED
  BY <1>1, <1>2, <1>3, <1>5, LoadsKeep

-----------------------------------------------------------------------------
(* The invariant and what it gives                                         *)

\* Nothing is loaded, changed or on its way at first.
LEMMA ReloadStarts == ReloadInit => ReloadInv
<1>1. SUFFICES ASSUME ReloadInit PROVE ReloadInv
  OBVIOUS
<1>2. /\ touched \in Edited /\ disk = [p \in Paths |-> 0] /\ broken = {} /\ drawn = 0 /\ seen = <<>>
      /\ phase = [r \in Runtimes |-> "out"]
      /\ loaded = [r \in Runtimes |-> [m \in Modules |-> Unloaded]]
      /\ shown = [s \in Sessions |-> 0] /\ backlog = [s \in Sessions |-> <<>>]
      /\ unsure = [s \in Sessions |-> Modules] /\ entry \in [Sessions -> {<<>>} \cup Own]
      /\ server = "down"
  BY <1>1 DEF ReloadInit
<1>3. FilesOK
  BY <1>2, ReloadAssumption, EditedAssumption DEF FilesOK
<1>4. Unloaded \in Contents /\ 0 \in Scripts
  BY <1>3, EmptyTyped
<1>5. RuntimesOK
  <2>1. [m \in Modules |-> Unloaded] \in [Modules -> Contents]
    BY <1>4
  <2>2. loaded \in [Runtimes -> [Modules -> Contents]]
    BY <1>2, <2>1
  <2>3. phase \in [Runtimes -> Phases] /\ \A c \in Clients : phase[c] = "out"
    BY <1>2 DEF Phases, Runtimes
  <2>4. QED
    BY <1>2, <1>4, <2>2, <2>3 DEF RuntimesOK
<1>6. ChannelsOK
  BY <1>2, ReloadAssumption DEF ChannelsOK
<1>7. \A s \in Sessions : CoveredOK(s)
  BY <1>2 DEF CoveredOK, Subscribed, Runtimes
<1>8. QED
  BY <1>3, <1>5, <1>6, <1>7 DEF ReloadInv

\* Every step keeps the invariant.
LEMMA ReloadKeeps == ReloadInv /\ [ReloadNext \/ ServeNext]_reloadVars => ReloadInv'
<1>1. SUFFICES ASSUME ReloadInv, [ReloadNext \/ ServeNext]_reloadVars PROVE ReloadInv'
  OBVIOUS
<1>2. CASE EditFiles
  BY <1>1, <1>2, EditKeeps
<1>3. CASE Process
  BY <1>1, <1>3, ProcessKeeps
<1>4. CASE \E s \in Sessions : SessionStep(s)
  BY <1>1, <1>4, SessionKeeps
<1>5. CASE StartServer
  BY <1>1, <1>5, StartServerKeeps
<1>6. CASE \E c \in Clients : Connect(c)
  BY <1>1, <1>6, ConnectKeeps
<1>7. CASE \E c \in Clients : \E m \in Tools : Dispatch(c, m)
  BY <1>1, <1>7, DispatchKeeps
<1>8. CASE UNCHANGED reloadVars
  <2>1. UNCHANGED <<touched, disk, broken, drawn, seen, phase, loaded, shown, backlog, unsure, entry, server>>
    BY <1>8 DEF reloadVars
  <2>2. FilesOK' /\ RuntimesOK' /\ ChannelsOK'
    BY <1>1, <2>1 DEF ReloadInv, FilesOK, RuntimesOK, ChannelsOK, Contents, Scripts
  <2>3. \A s \in Sessions : CoveredOK(s)'
    BY <1>1, <2>1, StaysCovered DEF ReloadInv
  <2>4. QED
    BY <2>2, <2>3 DEF ReloadInv
<1>9. QED
  BY <1>1, <1>2, <1>3, <1>4, <1>5, <1>6, <1>7, <1>8 DEF ReloadNext, ServeNext

\* The invariant implies what the runs check.
LEMMA ReloadGives == ReloadInv => ReloadTypeOK /\ LoadedIsFresh
<1>1. SUFFICES ASSUME ReloadInv PROVE ReloadTypeOK /\ LoadedIsFresh
  OBVIOUS
<1>2. FilesOK /\ RuntimesOK /\ ChannelsOK /\ \A s \in Sessions : CoveredOK(s)
  BY <1>1 DEF ReloadInv
<1>3. LoadedIsFresh
  <2>1. SUFFICES ASSUME NEW s \in Sessions, Subscribed(s), NEW m \in Modules \ unsure[s]
                 PROVE  \/ loaded[s][m] \in {Unloaded, FileOf(m)}
                        \/ m \in {ModuleName(p) : p \in ToSet(seen)} \cup ToSet(backlog[s])
    BY DEF LoadedIsFresh
  <2>2. QED
    BY <1>2, <2>1 DEF CoveredOK, Covered
<1>4. MaxWrites \in Nat /\ drawn \in 0..MaxWrites
  BY <1>2, ReloadAssumption DEF FilesOK
<1>5. disk \in [Paths -> 0..MaxWrites] /\ broken \subseteq 1..drawn
  BY <1>2, <1>4 DEF FilesOK
<1>6. Contents \subseteq Unloaded..MaxWrites
  BY <1>4 DEF Contents, Unloaded
<1>7. loaded \in [Runtimes -> [Modules -> Contents]]
  BY <1>2 DEF RuntimesOK
<1>8. loaded \in [Runtimes -> [Modules -> Unloaded..MaxWrites]]
  BY <1>6, <1>7
<1>9. \A r \in Runtimes, m \in Modules : loaded[r][m] \notin broken
  BY <1>7 DEF Contents
<1>10. \A s \in Sessions : shown[s] \in (0..drawn) \ broken /\ Len(backlog[s]) <= Capacity
          /\ (phase[s] # "in" => backlog[s] = <<>>)
  BY <1>2 DEF RuntimesOK, ChannelsOK, Scripts
<1>11. server = "down" => \A c \in Clients : phase[c] = "out"
  BY <1>2 DEF RuntimesOK
<1>12. QED
  BY <1>3, <1>4, <1>5, <1>8, <1>9, <1>10, <1>11 DEF ReloadTypeOK

\* In any behaviour of files, sessions and the server, a module that a session
\* loaded is what its file now holds, or the change is on its way, or the
\* session is not sure of it; and tables and channels have their types.
THEOREM ReloadIsFresh == ReloadSpec => [](ReloadTypeOK /\ LoadedIsFresh)
<1>1. ReloadSpec => []ReloadInv
  BY ReloadStarts, ReloadKeeps, PTL DEF ReloadSpec
<1>2. QED
  BY <1>1, ReloadGives, PTL

-----------------------------------------------------------------------------
(* Turns.  The status alone is not inductive: an update that is still      *)
(* queued sets it again, after the turn that sent it is over and after     *)
(* another turn of the same model ended it.  So the queue has to be right  *)
(* too: behind an update that says "running" there is the turn that sent   *)
(* it, still at work, or its end, later in the queue.                      *)

TurnsSpec == TurnsInit /\ [][TurnsNext]_turnsVars

Ends == {"complete", "error"}
Update == [kind : {"text", "tool"} \cup Ends, model : Models]
Stages == {"mentioned", "thinking", "listed", "chosen", "registered", "streaming"}
OpenTurn ==
  [stage : Stages, by : Users \cup Visitors, model : Models, room : Rooms \cup {Nowhere},
   signed : Users \cup {Claude}, held : SUBSET AllTools, chosen : SUBSET AllTools,
   offered : SUBSET AllTools, sent : Nat]
Turn == OpenTurn \cup {Unused, [stage |-> "done"]}

Shapes ==
  /\ equipped \in [Rooms -> SUBSET AllTools]
  /\ carried \in [Users \cup Models -> SUBSET AllTools]
  /\ available \subseteq McpTools /\ connected \subseteq McpTools
  /\ place \in [Users -> Rooms \cup {Nowhere}]
  /\ status \in [Users -> [Models -> {"idle", "thinking", "running"}]]
  /\ updates \in [Users -> Seq(Update)]
  /\ \A u \in Users : Len(updates[u]) <= UpdateCapacity
  /\ turn \in [Turns -> Turn]
  /\ stuck \in [Users -> SUBSET Models]

Working(u, m) ==
  \E t \in Turns : turn[t].stage \in Stages \ {"mentioned"} /\ turn[t].by = u /\ turn[t].model = m
Sending(u, m) ==
  \E t \in Turns :
    turn[t].stage = "streaming" /\ turn[t].room # Nowhere /\ turn[t].by = u /\ turn[t].model = m
EndsAfter(u, m, i) ==
  \E j \in 1..Len(updates[u]) : j > i /\ updates[u][j].model = m /\ updates[u][j].kind \in Ends

\* Behind every queued update there is a turn that streams, or an end.
QueueIsBacked ==
  \A u \in Users, m \in Models : \A i \in 1..Len(updates[u]) :
    updates[u][i].model = m /\ updates[u][i].kind \notin Ends => Sending(u, m) \/ EndsAfter(u, m, i)

StatusIsBacked ==
  \A u \in Users, m \in Models :
    status[u][m] # "idle" => m \in stuck[u] \/ Working(u, m) \/ EndsAfter(u, m, 0)

TurnsInv == Shapes /\ QueueIsBacked /\ StatusIsBacked

-----------------------------------------------------------------------------
(* How the witnesses of the backing survive a step                         *)

Backing == <<turn, shownVars>>

\* A step that touches neither turns nor what is shown keeps both.
LEMMA SameBacking ==
  ASSUME QueueIsBacked, StatusIsBacked, UNCHANGED Backing
  PROVE  QueueIsBacked' /\ StatusIsBacked'
BY DEF QueueIsBacked, StatusIsBacked, Working, Sending, EndsAfter, Backing, shownVars

\* A turn that goes on is still the work of its model.
LEMMA TurnGoesOn ==
  ASSUME Shapes, NEW t \in Turns, NEW x \in OpenTurn,
         turn' = [turn EXCEPT ![t] = x],
         \/ turn[t].stage \in {"unused", "mentioned"}
         \/ /\ x.by = turn[t].by /\ x.model = turn[t].model /\ x.room = turn[t].room
            /\ x.stage \in Stages \ {"mentioned"}
            /\ turn[t].stage = "streaming" => x.stage = "streaming"
  PROVE  \A u, m : (Working(u, m) => Working(u, m)') /\ (Sending(u, m) => Sending(u, m)')
<1> SUFFICES ASSUME NEW u, NEW m
             PROVE  (Working(u, m) => Working(u, m)') /\ (Sending(u, m) => Sending(u, m)')
  OBVIOUS
<1>1. turn'[t] = x /\ \A k \in Turns \ {t} : turn'[k] = turn[k]
  BY DEF Shapes
<1>2. Working(u, m) => Working(u, m)'
  BY <1>1 DEF Working, Stages
<1>3. Sending(u, m) => Sending(u, m)'
  BY <1>1 DEF Sending, Stages
<1>4. QED
  BY <1>2, <1>3

\* A turn that ends takes away the work of its own model alone.
LEMMA TurnEnds ==
  ASSUME Shapes, NEW t \in Turns, turn' = [turn EXCEPT ![t] = [stage |-> "done"]],
         NEW u, NEW m, u # turn[t].by \/ m # turn[t].model
  PROVE  (Working(u, m) => Working(u, m)') /\ (Sending(u, m) => Sending(u, m)')
<1>1. \A k \in Turns \ {t} : turn'[k] = turn[k]
  BY DEF Shapes
<1>2. QED
  BY <1>1 DEF Working, Sending

\* A step that leaves the queue and the status keeps the backing when what it
\* takes from one side it gives to the other.
LEMMA QuietStep ==
  ASSUME QueueIsBacked, StatusIsBacked, UNCHANGED <<updates, status>>,
         \A u \in Users, m \in Models :
           /\ Sending(u, m) => Sending(u, m)'
           /\ m \in stuck[u] \/ Working(u, m) => m \in stuck'[u] \/ Working(u, m)'
  PROVE  QueueIsBacked' /\ StatusIsBacked'
<1>1. \A u, m, i : EndsAfter(u, m, i) => EndsAfter(u, m, i)'
  BY DEF EndsAfter
<1>2. QueueIsBacked'
  BY <1>1 DEF QueueIsBacked
<1>3. StatusIsBacked'
  BY <1>1 DEF StatusIsBacked
<1>4. QED
  BY <1>2, <1>3

-----------------------------------------------------------------------------
(* Types                                                                   *)

LEMMA InitOK == TurnsInit => TurnsInv
<1> SUFFICES ASSUME TurnsInit PROVE TurnsInv
  OBVIOUS
<1>1. Shapes
  BY TurnsAssumption DEF TurnsInit, Shapes, Turn, Internal, AllTools
<1>2. QueueIsBacked /\ StatusIsBacked
  BY DEF TurnsInit, QueueIsBacked, StatusIsBacked
<1>3. QED
  BY <1>1, <1>2 DEF TurnsInv

-----------------------------------------------------------------------------
(* Commands and connections                                                *)

LEMMA CommandOK ==
  ASSUME TurnsInv, NEW u \in Users,
         \/ \E r \in Rooms \cup {Nowhere} : Move(u, r)
         \/ \E tools \in {Internal, McpTools} :
              EquipRoom(u, tools) \/ \E a \in {u} \cup Models : EquipAgent(u, a, tools)
  PROVE  TurnsInv'
<1>1. UNCHANGED <<status, updates, turn, stuck>>
  BY DEF Move, EquipRoom, EquipAgent, shownVars
<1>2. QueueIsBacked' /\ StatusIsBacked'
  BY <1>1, SameBacking DEF TurnsInv, Backing, shownVars
<1>3. CASE \E r \in Rooms \cup {Nowhere} : Move(u, r)
  BY <1>1, <1>2, <1>3 DEF TurnsInv, Shapes, Move, equipVars
<1>4. CASE \E tools \in {Internal, McpTools} : EquipRoom(u, tools)
  <2>1. PICK tools \in SUBSET AllTools : EquipRoom(u, tools)
    BY <1>4 DEF AllTools
  <2>2. equipped' \in [Rooms -> SUBSET AllTools]
    BY <2>1 DEF EquipRoom, TurnsInv, Shapes
  <2>3. QED
    BY <1>1, <1>2, <2>1, <2>2 DEF TurnsInv, Shapes, EquipRoom
<1>5. CASE \E tools \in {Internal, McpTools} : \E a \in {u} \cup Models : EquipAgent(u, a, tools)
  <2>1. PICK tools \in SUBSET AllTools : \E a \in {u} \cup Models : EquipAgent(u, a, tools)
    BY <1>5 DEF AllTools
  <2>2. PICK a \in Users \cup Models : EquipAgent(u, a, tools)
    BY <2>1
  <2>3. carried \in [Users \cup Models -> SUBSET AllTools]
    BY DEF TurnsInv, Shapes
  <2>4. carried' \in [Users \cup Models -> SUBSET AllTools]
    <3>1. CASE carried' = [carried EXCEPT ![a] = carried[a] \cup tools]
      BY <2>3, <3>1
    <3>2. CASE carried' = [carried EXCEPT ![a] = carried[a] \ tools]
      BY <2>3, <3>2
    <3>3. QED
      BY <2>2, <3>1, <3>2 DEF EquipAgent
  <2>5. QED
    BY <1>1, <1>2, <2>2, <2>4 DEF TurnsInv, Shapes, EquipAgent
<1>6. QED
  BY <1>3, <1>4, <1>5

LEMMA IdentifyOK ==
  ASSUME TurnsInv, NEW c, NEW n, Identify(c, n)
  PROVE  TurnsInv'
<1>1. QueueIsBacked' /\ StatusIsBacked'
  BY SameBacking DEF TurnsInv, Backing, shownVars, Identify
<1>2. QED
  BY <1>1 DEF TurnsInv, Shapes, Identify, equipVars, shownVars

-----------------------------------------------------------------------------
(* Steps of a turn that leave the queue and the status                     *)

\* All a step needs that puts an open turn in the place of t.
LEMMA TurnStepOK ==
  ASSUME TurnsInv, NEW t \in Turns, NEW x \in OpenTurn,
         turn' = [turn EXCEPT ![t] = x],
         \/ turn[t].stage \in {"unused", "mentioned"}
         \/ /\ x.by = turn[t].by /\ x.model = turn[t].model /\ x.room = turn[t].room
            /\ x.stage \in Stages \ {"mentioned"}
            /\ turn[t].stage = "streaming" => x.stage = "streaming",
         UNCHANGED <<equipVars, place, shownVars>>
  PROVE  TurnsInv'
<1>1. \A u, m : (Working(u, m) => Working(u, m)') /\ (Sending(u, m) => Sending(u, m)')
  BY TurnGoesOn DEF TurnsInv
<1>2. QueueIsBacked' /\ StatusIsBacked'
  BY <1>1, QuietStep DEF TurnsInv, Shapes, shownVars
<1>3. Shapes'
  BY DEF TurnsInv, Shapes, equipVars, shownVars, Turn
<1>4. QED
  BY <1>2, <1>3 DEF TurnsInv

LEMMA OpenTurns ==
  ASSUME Shapes, NEW t \in Turns, turn[t].stage \in Stages
  PROVE  turn[t] \in OpenTurn
BY DEF Shapes, Turn, Stages, Unused

LEMMA NewTurnOK ==
  ASSUME TurnsInv, NEW p \in Users \cup Visitors, NEW m \in Models, NEW r \in Rooms \cup {Nowhere},
         NEW signed \in Users \cup {Claude}, NEW held \in SUBSET AllTools,
         NEW stage \in {"mentioned", "thinking"}, NewTurn(p, m, r, signed, held, stage),
         UNCHANGED <<equipVars, place, shownVars>>
  PROVE  TurnsInv'
<1> DEFINE x == [stage |-> stage, by |-> p, model |-> m, room |-> r, signed |-> signed,
                 held |-> held, chosen |-> {}, offered |-> {}, sent |-> 0]
<1>1. PICK t \in Turns : turn[t].stage = "unused" /\ turn' = [turn EXCEPT ![t] = x]
  BY DEF NewTurn
<1>2. x \in OpenTurn
  BY DEF OpenTurn, Stages
<1>3. QED
  BY <1>1, <1>2, TurnStepOK

LEMMA MentionOK ==
  ASSUME TurnsInv, NEW u \in Users, NEW m \in Models, Mention(u, m)
  PROVE  TurnsInv'
<1>1. place[u] \in Rooms \cup {Nowhere}
  BY DEF TurnsInv, Shapes
<1>2. (carried[u] \cup carried[m]) \cap available \cap connected \in SUBSET AllTools
  BY DEF TurnsInv, Shapes, AllTools
<1>3. QED
  BY <1>1, <1>2, NewTurnOK DEF Mention

LEMMA TriggerOK ==
  ASSUME TurnsInv, NEW c \in Visitors, NEW m \in Models, NEW r \in Rooms, Trigger(c, m, r)
  PROVE  TurnsInv'
BY NewTurnOK DEF Trigger

LEMMA PrepareOK ==
  ASSUME TurnsInv, NEW t \in Turns, ListTools(t) \/ ChooseTools(t) \/ Register(t) \/ Compose(t)
  PROVE  TurnsInv'
<1> DEFINE y == turn[t]
           chosen == equipped[ToolRoom(t)] \cap (Internal \cup available)
           more == IF y.by \in Users THEN y.offered \cup Registered(t) ELSE y.offered
<1>1. y \in OpenTurn
  BY OpenTurns DEF TurnsInv, ListTools, ChooseTools, Register, Compose, Stages
<1>2. y \in [stage : Stages, by : Users \cup Visitors, model : Models, room : Rooms \cup {Nowhere},
             signed : Users \cup {Claude}, held : SUBSET AllTools, chosen : SUBSET AllTools,
             offered : SUBSET AllTools, sent : Nat]
  BY <1>1 DEF OpenTurn
<1>3. turn \in [Turns -> Turn]
  BY DEF TurnsInv, Shapes
<1>4. CASE ListTools(t)
  <2> DEFINE x == [y EXCEPT !.stage = "listed", !.offered = connected]
  <2>1. connected \in SUBSET AllTools
    BY DEF TurnsInv, Shapes, AllTools
  <2>2. x \in OpenTurn
    BY <1>2, <2>1 DEF OpenTurn, Stages
  <2>3. turn' = [turn EXCEPT ![t] = x]
    BY <1>2, <1>3, <1>4 DEF ListTools
  <2>4. x.by = y.by /\ x.model = y.model /\ x.room = y.room /\ x.stage = "listed"
    BY <1>2
  <2>5. QED
    BY <1>4, <2>2, <2>3, <2>4, TurnStepOK DEF ListTools, Stages
<1>5. CASE ChooseTools(t)
  <2> DEFINE x == [y EXCEPT !.stage = "chosen", !.chosen = chosen, !.offered = @ \cap chosen]
  <2>1. ToolRoom(t) \in Rooms
    BY <1>2, TurnsAssumption DEF ToolRoom
  <2>2. chosen \in SUBSET AllTools
    BY <2>1 DEF TurnsInv, Shapes, AllTools
  <2>3. x \in OpenTurn
    BY <1>2, <2>2 DEF OpenTurn, Stages
  <2>4. turn' = [turn EXCEPT ![t] = x]
    BY <1>2, <1>3, <1>5 DEF ChooseTools
  <2>5. x.by = y.by /\ x.model = y.model /\ x.room = y.room /\ x.stage = "chosen"
    BY <1>2
  <2>6. QED
    BY <1>5, <2>3, <2>4, <2>5, TurnStepOK DEF ChooseTools, Stages
<1>6. CASE Register(t)
  <2> DEFINE x == [y EXCEPT !.stage = "registered", !.offered = more]
  <2>1. more \in SUBSET AllTools
    BY <1>2 DEF Registered, AllTools
  <2>2. x \in OpenTurn
    BY <1>2, <2>1 DEF OpenTurn, Stages
  <2>3. turn' = [turn EXCEPT ![t] = x]
    BY <1>2, <1>3, <1>6 DEF Register
  <2>4. x.by = y.by /\ x.model = y.model /\ x.room = y.room /\ x.stage = "registered"
    BY <1>2
  <2>5. QED
    BY <1>6, <2>2, <2>3, <2>4, TurnStepOK DEF Register, Stages
<1>7. CASE Compose(t)
  <2> DEFINE x == [y EXCEPT !.stage = "streaming"]
  <2>1. x \in OpenTurn
    BY <1>2 DEF OpenTurn, Stages
  <2>2. turn' = [turn EXCEPT ![t] = x]
    BY <1>2, <1>3, <1>7 DEF Compose
  <2>3. x.by = y.by /\ x.model = y.model /\ x.room = y.room /\ x.stage = "streaming"
    BY <1>2
  <2>4. QED
    BY <1>7, <2>1, <2>2, <2>3, TurnStepOK DEF Compose, Stages
<1>8. QED
  BY <1>4, <1>5, <1>6, <1>7

LEMMA ThinkOK ==
  ASSUME TurnsInv, NEW t \in Turns, Think(t)
  PROVE  TurnsInv'
<1> DEFINE y == turn[t]
           x == [y EXCEPT !.stage = "thinking"]
<1>1. y \in OpenTurn
  BY OpenTurns DEF TurnsInv, Think, Stages
<1>2. x \in OpenTurn /\ x.by = y.by /\ x.model = y.model /\ x.stage = "thinking"
  BY <1>1 DEF OpenTurn, Stages
<1>3. turn' = [turn EXCEPT ![t] = x]
  BY DEF Think, TurnsInv, Shapes
<1>4. \A u, m : (Working(u, m) => Working(u, m)') /\ (Sending(u, m) => Sending(u, m)')
  BY <1>2, <1>3, TurnGoesOn DEF TurnsInv, Think
<1>5. Shapes'
  <2>1. status' \in [Users -> [Models -> {"idle", "thinking", "running"}]]
    <3>1. status' = [status EXCEPT ![y.by][y.model] = "thinking"]
      BY DEF Think
    <3>2. y.model \in Models
      BY <1>1 DEF OpenTurn
    <3>3. QED
      BY <3>1, <3>2 DEF TurnsInv, Shapes
  <2>2. stuck' \in [Users -> SUBSET Models]
    BY DEF Think, TurnsInv, Shapes
  <2>3. turn' \in [Turns -> Turn]
    BY <1>2, <1>3 DEF TurnsInv, Shapes, Turn
  <2>4. QED
    BY <2>1, <2>2, <2>3 DEF Think, TurnsInv, Shapes, equipVars
<1>6. UNCHANGED updates
  BY DEF Think
<1>7. QueueIsBacked'
  BY <1>4, <1>6 DEF TurnsInv, QueueIsBacked, EndsAfter
<1>8. StatusIsBacked'
  <2>1. SUFFICES ASSUME NEW u \in Users, NEW m \in Models, status'[u][m] # "idle"
                 PROVE  m \in stuck'[u] \/ Working(u, m)' \/ EndsAfter(u, m, 0)'
    BY DEF StatusIsBacked
  <2>2. CASE u = y.by /\ m = y.model
    <3>1. turn'[t] = x
      BY <1>3 DEF TurnsInv, Shapes
    <3>2. QED
      BY <1>2, <2>2, <3>1 DEF Working, Stages
  <2>3. CASE ~(u = y.by /\ m = y.model)
    <3>1. status'[u][m] = status[u][m]
      BY <2>3 DEF Think, TurnsInv, Shapes
    <3>2. m \in stuck[u] => m \in stuck'[u]
      BY <2>3 DEF Think, TurnsInv, Shapes
    <3>3. QED
      BY <1>4, <1>6, <2>1, <3>1, <3>2 DEF TurnsInv, StatusIsBacked, EndsAfter
  <2>4. QED
    BY <2>2, <2>3
<1>9. QED
  BY <1>5, <1>7, <1>8 DEF TurnsInv

\* A turn that ends without an update leaves its model to the exemption.
LEMMA SilentEndOK ==
  ASSUME TurnsInv, NEW t \in Turns, turn[t] \in OpenTurn,
         turn' = [turn EXCEPT ![t] = [stage |-> "done"]],
         turn[t].stage = "streaming" => turn[t].by \notin Users \/ turn[t].room = Nowhere,
         stuck' = IF turn[t].by \in Users
                  THEN [stuck EXCEPT ![turn[t].by] = @ \cup {turn[t].model}] ELSE stuck,
         UNCHANGED <<equipVars, place, status, updates>>
  PROVE  TurnsInv'
<1> DEFINE y == turn[t]
<1>1. y.model \in Models
  BY DEF OpenTurn
<1>2. stuck' \in [Users -> SUBSET Models]
  BY <1>1 DEF TurnsInv, Shapes
<1>3. \A u \in Users : stuck[u] \subseteq stuck'[u] /\ (u = y.by => y.model \in stuck'[u])
  BY DEF TurnsInv, Shapes
<1>4. turn'[t] = [stage |-> "done"] /\ \A k \in Turns \ {t} : turn'[k] = turn[k]
  BY DEF TurnsInv, Shapes
<1>5. \A u \in Users, m \in Models : Sending(u, m) => Sending(u, m)'
  BY <1>4 DEF Sending
<1>6. \A u \in Users, m \in Models : Working(u, m) => m \in stuck'[u] \/ Working(u, m)'
  BY <1>3, <1>4 DEF Working
<1>7. QueueIsBacked' /\ StatusIsBacked'
  BY <1>3, <1>5, <1>6, QuietStep DEF TurnsInv, Shapes
<1>8. Shapes'
  BY <1>2 DEF TurnsInv, Shapes, equipVars, Turn
<1>9. QED
  BY <1>7, <1>8 DEF TurnsInv

LEMMA ComposeFailsOK ==
  ASSUME TurnsInv, NEW t \in Turns, ComposeFails(t)
  PROVE  TurnsInv'
<1>1. turn[t] \in OpenTurn /\ turn[t].stage # "streaming"
  BY OpenTurns DEF TurnsInv, ComposeFails, Stages
<1>2. QED
  BY <1>1, SilentEndOK DEF ComposeFails

-----------------------------------------------------------------------------
(* The queue of updates                                                    *)

\* One update is appended; what was queued keeps its place.
Queued(u, kind, model) ==
  /\ updates' \in [Users -> Seq(Update)]
  /\ \A v \in Users : Len(updates'[v]) <= UpdateCapacity
  /\ \A v \in Users : Len(updates[v]) \in Nat /\ Len(updates'[v]) \in Nat
  /\ \A v \in Users : Len(updates[v]) <= Len(updates'[v])
  /\ \A v \in Users \ {u} : Len(updates'[v]) = Len(updates[v])
  /\ Len(updates'[u]) = Len(updates[u]) + 1
  /\ \A v \in Users : \A i \in 1..Len(updates[v]) : updates'[v][i] = updates[v][i]
  /\ updates'[u][Len(updates[u]) + 1] = [kind |-> kind, model |-> model]

LEMMA Reported ==
  ASSUME Shapes, NEW t \in Turns, NEW kind \in {"text", "tool"} \cup Ends,
         turn[t] \in OpenTurn, Report(t, kind)
  PROVE  /\ turn[t].by \in Users /\ turn[t].room # Nowhere
         /\ Queued(turn[t].by, kind, turn[t].model)
<1> DEFINE u == turn[t].by
           up == [kind |-> kind, model |-> turn[t].model]
<1>1. u \in Users /\ turn[t].room # Nowhere /\ Len(updates[u]) < UpdateCapacity
  BY DEF Report, Reports
<1>2. up \in Update
  BY DEF Update, OpenTurn
<1>3. updates \in [Users -> Seq(Update)] /\ \A v \in Users : Len(updates[v]) <= UpdateCapacity
  BY DEF Shapes
<1>4. updates' = [updates EXCEPT ![u] = Append(updates[u], up)]
  BY DEF Report
<1>5. updates[u] \in Seq(Update)
  BY <1>1, <1>3
<1>6. /\ Append(updates[u], up) \in Seq(Update)
      /\ Len(Append(updates[u], up)) = Len(updates[u]) + 1
      /\ \A i \in 1..Len(updates[u]) : Append(updates[u], up)[i] = updates[u][i]
      /\ Append(updates[u], up)[Len(updates[u]) + 1] = up
  BY <1>2, <1>5
<1>7. updates'[u] = Append(updates[u], up) /\ \A v \in Users \ {u} : updates'[v] = updates[v]
  BY <1>1, <1>3, <1>4
<1>8. updates' \in [Users -> Seq(Update)]
  BY <1>1, <1>3, <1>4, <1>6
<1>9. \A v \in Users : Len(updates[v]) \in Nat
  <2> TAKE v \in Users
  <2>1. updates[v] \in Seq(Update)
    BY <1>3
  <2>2. QED
    BY <2>1
<1>10. /\ Len(updates'[u]) = Len(updates[u]) + 1
       /\ \A v \in Users \ {u} : Len(updates'[v]) = Len(updates[v])
  BY <1>6, <1>7
<1>11. \A v \in Users : Len(updates'[v]) <= UpdateCapacity
  <2> TAKE v \in Users
  <2>1. CASE v = u
    BY <1>1, <1>9, <1>10, <2>1, TurnsAssumption
  <2>2. CASE v # u
    BY <1>3, <1>10, <2>2
  <2>3. QED
    BY <2>1, <2>2
<1>12. \A v \in Users : \A i \in 1..Len(updates[v]) : updates'[v][i] = updates[v][i]
  BY <1>6, <1>7
<1>13. \A v \in Users : Len(updates'[v]) \in Nat /\ Len(updates[v]) <= Len(updates'[v])
  <2> TAKE v \in Users
  <2>1. CASE v = u
    BY <1>9, <1>10, <2>1
  <2>2. CASE v # u
    BY <1>9, <1>10, <2>2
  <2>3. QED
    BY <2>1, <2>2
<1>14. updates'[u][Len(updates[u]) + 1] = up
  BY <1>6, <1>7
<1>15. QED
  BY <1>1, <1>8, <1>9, <1>10, <1>11, <1>12, <1>13, <1>14 DEF Queued

\* ... and an end that stood behind a place still stands there.
LEMMA EndsStay ==
  ASSUME updates \in [Users -> Seq(Update)],
         \A v \in Users : Len(updates'[v]) \in Nat /\ Len(updates[v]) <= Len(updates'[v]),
         \A v \in Users : \A i \in 1..Len(updates[v]) : updates'[v][i] = updates[v][i]
  PROVE  \A v \in Users : \A m, i : EndsAfter(v, m, i) => EndsAfter(v, m, i)'
<1> SUFFICES ASSUME NEW v \in Users, NEW m, NEW i, EndsAfter(v, m, i)
             PROVE  EndsAfter(v, m, i)'
  OBVIOUS
<1>1. PICK j \in 1..Len(updates[v]) :
        j > i /\ updates[v][j].model = m /\ updates[v][j].kind \in Ends
  BY DEF EndsAfter
<1>2. j \in 1..Len(updates'[v]) /\ updates'[v][j] = updates[v][j]
  OBVIOUS
<1>3. QED
  BY <1>1, <1>2 DEF EndsAfter

LEMMA StreamOK ==
  ASSUME TurnsInv, NEW t \in Turns, Stream(t)
  PROVE  TurnsInv'
<1> DEFINE y == turn[t]
           x == [y EXCEPT !.sent = y.sent + 1]
<1>1. y \in OpenTurn
  BY OpenTurns DEF TurnsInv, Stream, Stages
<1>2. PICK u \in Users \cup Visitors, model \in Models : u = y.by /\ model = y.model
  BY <1>1 DEF OpenTurn
<1>3. PICK kind \in {"text", "tool"} : Report(t, kind)
  BY DEF Stream
<1>4. x \in OpenTurn /\ x.by = u /\ x.model = model /\ x.room = y.room /\ x.stage = "streaming"
  BY <1>1, <1>2 DEF OpenTurn, Stream
<1>5. turn' = [turn EXCEPT ![t] = x]
  BY DEF Stream, TurnsInv, Shapes
<1>6. \A v, m : (Working(v, m) => Working(v, m)') /\ (Sending(v, m) => Sending(v, m)')
  BY <1>2, <1>4, <1>5, TurnGoesOn DEF TurnsInv, Stream, Stages
<1>7. u \in Users /\ y.room # Nowhere /\ Queued(u, kind, model)
  BY <1>1, <1>2, <1>3, Reported DEF TurnsInv
<1>8. \A v \in Users : \A m, i : EndsAfter(v, m, i) => EndsAfter(v, m, i)'
  BY <1>7, EndsStay DEF TurnsInv, Shapes, Queued
<1>9. Shapes'
  BY <1>4, <1>5, <1>7 DEF Queued, Stream, TurnsInv, Shapes, Turn, equipVars
<1>10. QueueIsBacked'
  <2>1. SUFFICES ASSUME NEW v \in Users, NEW m \in Models, NEW i \in 1..Len(updates'[v]),
                        updates'[v][i].model = m, updates'[v][i].kind \notin Ends
                 PROVE  Sending(v, m)' \/ EndsAfter(v, m, i)'
    BY DEF QueueIsBacked
  <2>2. CASE i \in 1..Len(updates[v])
    <3>1. updates'[v][i] = updates[v][i]
      BY <1>7, <2>2 DEF Queued
    <3>2. Sending(v, m) \/ EndsAfter(v, m, i)
      BY <2>1, <2>2, <3>1 DEF TurnsInv, QueueIsBacked
    <3>3. QED
      BY <1>6, <1>8, <3>2
  <2>3. CASE i \notin 1..Len(updates[v])
    <3>1. v = u /\ i = Len(updates[u]) + 1
      BY <1>7, <2>3 DEF Queued
    <3>2. m = model
      BY <1>7, <2>1, <3>1 DEF Queued
    <3>3. turn'[t] = x
      BY <1>5 DEF TurnsInv, Shapes
    <3>4. Sending(u, model)'
      BY <1>4, <1>7, <3>3 DEF Sending
    <3>5. QED
      BY <3>1, <3>2, <3>4
  <2>4. QED
    BY <2>2, <2>3
<1>11. StatusIsBacked'
  BY <1>6, <1>8 DEF Stream, TurnsInv, StatusIsBacked
<1>12. QED
  BY <1>9, <1>10, <1>11 DEF TurnsInv

LEMMA FinishOK ==
  ASSUME TurnsInv, NEW t \in Turns, Finish(t)
  PROVE  TurnsInv'
<1> DEFINE y == turn[t]
<1>1. y \in OpenTurn
  BY OpenTurns DEF TurnsInv, Finish, Stages
<1>2. CASE ~Reports(t)
  BY <1>1, <1>2, SilentEndOK DEF Finish, Reports, Report
<1>3. CASE Reports(t)
  <2>1. PICK u \in Users, model \in Models : u = y.by /\ model = y.model
    BY <1>1, <1>3 DEF OpenTurn, Reports
  <2>2. PICK kind \in Ends : Report(t, kind)
    BY <1>3 DEF Finish, Ends
  <2>3. UNCHANGED stuck
    BY <1>3 DEF Finish
  <2>4. Queued(u, kind, model)
    BY <1>1, <2>1, <2>2, Reported DEF TurnsInv
  <2>5. \A v \in Users : Len(updates[v]) \in Nat
    BY <2>4 DEF Queued
  <2>6. \A v \in Users : \A m, i : EndsAfter(v, m, i) => EndsAfter(v, m, i)'
    BY <2>4, EndsStay DEF TurnsInv, Shapes, Queued
  <2>7. turn' = [turn EXCEPT ![t] = [stage |-> "done"]]
    BY DEF Finish
  <2>8. \A i \in 0..Len(updates[u]) : EndsAfter(u, model, i)'
    <3> TAKE i \in 0..Len(updates[u])
    <3>1. PICK j \in 1..Len(updates'[u]) : j = Len(updates[u]) + 1
      BY <2>4, <2>5 DEF Queued
    <3>2. j > i /\ updates'[u][j].model = model /\ updates'[u][j].kind \in Ends
      BY <2>4, <2>5, <3>1 DEF Queued
    <3>3. QED
      BY <3>1, <3>2 DEF EndsAfter
  <2>9. ASSUME NEW v \in Users, NEW m, v # u \/ m # model
        PROVE  (Working(v, m) => Working(v, m)') /\ (Sending(v, m) => Sending(v, m)')
    BY <2>1, <2>7, <2>9, TurnEnds DEF TurnsInv
  <2>10. Shapes'
    BY <2>3, <2>4, <2>7 DEF Queued, Finish, TurnsInv, Shapes, Turn, equipVars
  <2>11. QueueIsBacked'
    <3>1. SUFFICES ASSUME NEW v \in Users, NEW m \in Models, NEW i \in 1..Len(updates'[v]),
                          updates'[v][i].model = m, updates'[v][i].kind \notin Ends
                   PROVE  Sending(v, m)' \/ EndsAfter(v, m, i)'
      BY DEF QueueIsBacked
    <3>2. i \in 1..Len(updates[v])
      <4>1. ~(v = u /\ i = Len(updates[u]) + 1)
        BY <2>4, <3>1 DEF Queued
      <4>2. QED
        BY <2>4, <2>5, <4>1 DEF Queued
    <3>3. Sending(v, m) \/ EndsAfter(v, m, i)
      BY <2>4, <3>1, <3>2 DEF Queued, TurnsInv, QueueIsBacked
    <3>4. CASE v = u /\ m = model
      BY <2>5, <2>8, <3>2, <3>4
    <3>5. CASE ~(v = u /\ m = model)
      BY <2>6, <2>9, <3>3, <3>5
    <3>6. QED
      BY <3>4, <3>5
  <2>12. StatusIsBacked'
    <3>1. SUFFICES ASSUME NEW v \in Users, NEW m \in Models, status'[v][m] # "idle"
                   PROVE  m \in stuck'[v] \/ Working(v, m)' \/ EndsAfter(v, m, 0)'
      BY DEF StatusIsBacked
    <3>2. m \in stuck[v] \/ Working(v, m) \/ EndsAfter(v, m, 0)
      BY <3>1 DEF Finish, TurnsInv, StatusIsBacked
    <3>3. CASE v = u /\ m = model
      BY <2>5, <2>8, <3>3
    <3>4. CASE ~(v = u /\ m = model)
      BY <2>3, <2>6, <2>9, <3>2, <3>4
    <3>5. QED
      BY <3>3, <3>4
  <2>13. QED
    BY <2>10, <2>11, <2>12 DEF TurnsInv
<1>4. QED
  BY <1>2, <1>3

\* The first update is taken; what stood behind it moves up by one.
Taken(u) ==
  /\ updates' \in [Users -> Seq(Update)]
  /\ \A v \in Users \ {u} : updates'[v] = updates[v]
  /\ Len(updates[u]) \in Nat \ {0} /\ Len(updates'[u]) = Len(updates[u]) - 1
  /\ \A i \in 1..Len(updates'[u]) : updates'[u][i] = updates[u][i + 1]

LEMMA TakenOK ==
  ASSUME Shapes, NEW u \in Users, PushUpdate(u)
  PROVE  Taken(u) /\ updates[u][1] \in Update /\ Head(updates[u]) = updates[u][1]
<1>1. updates \in [Users -> Seq(Update)]
  BY DEF Shapes
<1>2. updates[u] \in Seq(Update) /\ updates[u] # <<>>
  BY <1>1 DEF PushUpdate
<1>3. updates' = [updates EXCEPT ![u] = Tail(updates[u])]
  BY DEF PushUpdate
<1>4. /\ Tail(updates[u]) \in Seq(Update)
      /\ Len(updates[u]) \in Nat \ {0}
      /\ Len(Tail(updates[u])) = Len(updates[u]) - 1
      /\ \A i \in 1..Len(Tail(updates[u])) : Tail(updates[u])[i] = updates[u][i + 1]
  BY <1>2
<1>5. updates[u][1] \in Update /\ Head(updates[u]) = updates[u][1]
  BY <1>2, <1>4
<1>6. updates'[u] = Tail(updates[u]) /\ \A v \in Users \ {u} : updates'[v] = updates[v]
  BY <1>1, <1>3
<1>7. updates' \in [Users -> Seq(Update)]
  BY <1>1, <1>3, <1>4
<1>8. QED
  BY <1>4, <1>5, <1>6, <1>7 DEF Taken

\* An end behind place i > 0 moves up with it; an end that was not the first
\* update is still in the queue.
LEMMA EndsMoveUp ==
  ASSUME NEW u \in Users, Taken(u), NEW m, NEW i \in Nat, EndsAfter(u, m, i),
         i > 0 \/ updates[u][1].model # m \/ updates[u][1].kind \notin Ends
  PROVE  \E k \in Int : (IF i > 0 THEN k = i - 1 ELSE k = 0) /\ EndsAfter(u, m, k)'
<1>1. PICK j \in 1..Len(updates[u]) :
        j > i /\ updates[u][j].model = m /\ updates[u][j].kind \in Ends
  BY DEF EndsAfter
<1>2. j > 1
  BY <1>1 DEF Taken
<1>3. PICK h \in Int : h = j - 1
  BY <1>1 DEF Taken
<1>4. h \in 1..Len(updates'[u]) /\ updates'[u][h] = updates[u][j]
  BY <1>1, <1>2, <1>3 DEF Taken
<1>5. PICK k \in Int : (IF i > 0 THEN k = i - 1 ELSE k = 0) /\ h > k
  BY <1>1, <1>2, <1>3 DEF Taken
<1>6. EndsAfter(u, m, k)'
  BY <1>1, <1>4, <1>5 DEF EndsAfter
<1>7. QED
  BY <1>5, <1>6

LEMMA PushUpdateOK ==
  ASSUME TurnsInv, NEW u \in Users, PushUpdate(u)
  PROVE  TurnsInv'
<1> DEFINE up == updates[u][1]
           after == StatusAfter(up.kind, status[u][up.model])
<1>1. Taken(u) /\ up \in Update /\ Head(updates[u]) = up
  BY TakenOK DEF TurnsInv
<1>2. PICK kind \in {"text", "tool"} \cup Ends, model \in Models : kind = up.kind /\ model = up.model
  BY <1>1 DEF Update
<1>3. after \in {"idle", "thinking", "running"}
  BY <1>2 DEF StatusAfter, Ends, TurnsInv, Shapes
<1>4. status' = [status EXCEPT ![u][model] = after]
  BY <1>1, <1>2 DEF PushUpdate
<1>5. stuck' = IF after = "idle" THEN [stuck EXCEPT ![u] = @ \ {model}] ELSE stuck
  BY <1>1, <1>2 DEF PushUpdate
<1>6. \A v, m : Working(v, m)' = Working(v, m) /\ Sending(v, m)' = Sending(v, m)
  BY DEF PushUpdate, Working, Sending
<1>7. \A v \in Users \ {u} : \A m, i : EndsAfter(v, m, i) => EndsAfter(v, m, i)'
  BY <1>1 DEF Taken, EndsAfter
<1>8. Shapes'
  <2>1. status' \in [Users -> [Models -> {"idle", "thinking", "running"}]]
    BY <1>2, <1>3, <1>4 DEF TurnsInv, Shapes
  <2>2. stuck' \in [Users -> SUBSET Models]
    BY <1>5 DEF TurnsInv, Shapes
  <2>3. \A v \in Users : Len(updates'[v]) <= UpdateCapacity
    <3> TAKE v \in Users
    <3>1. CASE v = u
      BY <1>1, <3>1, TurnsAssumption DEF Taken, TurnsInv, Shapes
    <3>2. CASE v # u
      BY <1>1, <3>2 DEF Taken, TurnsInv, Shapes
    <3>3. QED
      BY <3>1, <3>2
  <2>4. QED
    BY <1>1, <2>1, <2>2, <2>3 DEF Taken, PushUpdate, TurnsInv, Shapes, equipVars
<1>9. QueueIsBacked'
  <2>1. SUFFICES ASSUME NEW v \in Users, NEW m \in Models, NEW i \in 1..Len(updates'[v]),
                        updates'[v][i].model = m, updates'[v][i].kind \notin Ends
                 PROVE  Sending(v, m)' \/ EndsAfter(v, m, i)'
    BY DEF QueueIsBacked
  <2>2. CASE v # u
    <3>1. updates'[v] = updates[v]
      BY <1>1, <2>2 DEF Taken
    <3>2. Sending(v, m) \/ EndsAfter(v, m, i)
      BY <2>1, <3>1 DEF TurnsInv, QueueIsBacked
    <3>3. QED
      BY <1>6, <1>7, <2>2, <3>2
  <2>3. CASE v = u
    <3>1. PICK j \in Nat : j = i + 1 /\ j \in 1..Len(updates[u])
      BY <1>1, <2>1, <2>3 DEF Taken
    <3>2. updates[u][j].model = m /\ updates[u][j].kind \notin Ends
      BY <1>1, <2>1, <2>3, <3>1 DEF Taken
    <3>3. Sending(u, m) \/ EndsAfter(u, m, j)
      BY <3>1, <3>2 DEF TurnsInv, QueueIsBacked
    <3>4. ASSUME EndsAfter(u, m, j) PROVE EndsAfter(u, m, i)'
      <4>1. PICK k \in Int : (IF j > 0 THEN k = j - 1 ELSE k = 0) /\ EndsAfter(u, m, k)'
        BY <1>1, <3>1, <3>4, EndsMoveUp
      <4>2. k = i
        BY <3>1, <4>1
      <4>3. QED
        BY <4>1, <4>2
    <3>5. QED
      BY <1>6, <2>3, <3>3, <3>4
  <2>4. QED
    BY <2>2, <2>3
<1>10. StatusIsBacked'
  <2>1. SUFFICES ASSUME NEW v \in Users, NEW m \in Models, status'[v][m] # "idle"
                 PROVE  m \in stuck'[v] \/ Working(v, m)' \/ EndsAfter(v, m, 0)'
    BY DEF StatusIsBacked
  <2>2. CASE v # u
    <3>1. status'[v][m] = status[v][m] /\ stuck'[v] = stuck[v]
      BY <1>4, <1>5, <2>2 DEF TurnsInv, Shapes
    <3>2. QED
      BY <1>6, <1>7, <2>1, <2>2, <3>1 DEF TurnsInv, StatusIsBacked
  <2>3. CASE v = u /\ (m # model \/ kind = "text")
    <3>1. status'[v][m] = status[v][m]
      <4>1. CASE m # model
        BY <1>4, <2>3, <4>1 DEF TurnsInv, Shapes
      <4>2. CASE m = model /\ kind = "text"
        BY <1>2, <1>4, <2>3, <4>2 DEF TurnsInv, Shapes, StatusAfter
      <4>3. QED
        BY <2>3, <4>1, <4>2
    <3>2. m \in stuck[u] => m \in stuck'[u]
      <4>1. CASE m # model
        BY <1>5, <4>1 DEF TurnsInv, Shapes
      <4>2. CASE m = model
        <5>1. after # "idle"
          BY <1>2, <1>4, <2>1, <2>3, <4>2 DEF TurnsInv, Shapes
        <5>2. QED
          BY <1>5, <5>1
      <4>3. QED
        BY <4>1, <4>2
    <3>3. m \in stuck[u] \/ Working(u, m) \/ EndsAfter(u, m, 0)
      BY <2>1, <2>3, <3>1 DEF TurnsInv, StatusIsBacked
    <3>4. ASSUME EndsAfter(u, m, 0) PROVE EndsAfter(u, m, 0)'
      <4>1. updates[u][1].model # m \/ updates[u][1].kind \notin Ends
        BY <1>2, <2>3 DEF Ends
      <4>2. PICK k \in Int : (IF 0 > 0 THEN k = 0 - 1 ELSE k = 0) /\ EndsAfter(u, m, k)'
        BY <1>1, <3>4, <4>1, EndsMoveUp
      <4>3. QED
        BY <4>2
    <3>5. QED
      BY <1>6, <2>3, <3>2, <3>3, <3>4
  <2>4. CASE v = u /\ m = model /\ kind = "tool"
    <3>1. updates[u][1].model = m /\ updates[u][1].kind \notin Ends /\ 1 \in 1..Len(updates[u])
      BY <1>1, <1>2, <2>4 DEF Taken, Ends
    <3>2. Sending(u, m) \/ EndsAfter(u, m, 1)
      BY <3>1 DEF TurnsInv, QueueIsBacked
    <3>3. Sending(u, m) => Working(u, m)
      BY DEF Sending, Working, Stages
    <3>4. ASSUME EndsAfter(u, m, 1) PROVE EndsAfter(u, m, 0)'
      <4>1. PICK k \in Int : (IF 1 > 0 THEN k = 1 - 1 ELSE k = 0) /\ EndsAfter(u, m, k)'
        BY <1>1, <3>4, EndsMoveUp
      <4>2. k = 0
        BY <4>1
      <4>3. QED
        BY <4>1, <4>2
    <3>5. QED
      BY <1>6, <2>4, <3>2, <3>3, <3>4
  <2>5. CASE v = u /\ m = model /\ kind \in Ends
    <3>1. after = "idle"
      BY <1>2, <2>5 DEF StatusAfter, Ends
    <3>2. status'[u][m] = "idle"
      BY <1>4, <2>5, <3>1 DEF TurnsInv, Shapes
    <3>3. QED
      BY <2>1, <2>5, <3>2
  <2>6. QED
    BY <1>2, <2>2, <2>3, <2>4, <2>5
<1>11. QED
  BY <1>8, <1>9, <1>10 DEF TurnsInv

-----------------------------------------------------------------------------
(* The theorems                                                            *)

LEMMA NextOK == TurnsInv /\ [TurnsNext]_turnsVars => TurnsInv'
<1> SUFFICES ASSUME TurnsInv, [TurnsNext]_turnsVars PROVE TurnsInv'
  OBVIOUS
<1>1. CASE UNCHANGED turnsVars
  <2>1. QueueIsBacked' /\ StatusIsBacked'
    BY <1>1, SameBacking DEF TurnsInv, Backing, turnsVars, shownVars
  <2>2. QED
    BY <1>1, <2>1 DEF TurnsInv, Shapes, turnsVars
<1>2. CASE Reconnect \/ SyncTools
  <2>1. UNCHANGED <<status, updates, turn, stuck, equipped, carried, place>>
    BY <1>2 DEF Reconnect, SyncTools, shownVars
  <2>2. available' \subseteq McpTools /\ connected' \subseteq McpTools
    BY <1>2 DEF Reconnect, SyncTools, TurnsInv, Shapes
  <2>3. QueueIsBacked' /\ StatusIsBacked'
    BY <2>1, SameBacking DEF TurnsInv, Backing, shownVars
  <2>4. QED
    BY <2>1, <2>2, <2>3 DEF TurnsInv, Shapes
<1>3. ASSUME NEW u \in Users,
             \/ \E r \in Rooms \cup {Nowhere} : Move(u, r)
             \/ \E tools \in {Internal, McpTools} :
                  EquipRoom(u, tools) \/ \E a \in {u} \cup Models : EquipAgent(u, a, tools)
      PROVE  TurnsInv'
  BY <1>3, CommandOK
<1>4. ASSUME NEW u \in Users, PushUpdate(u) \/ \E m \in Models : Mention(u, m)
      PROVE  TurnsInv'
  BY <1>4, PushUpdateOK, MentionOK
<1>5. ASSUME NEW c \in Visitors,
             \/ \E n \in Names : Identify(c, n)
             \/ \E m \in Models, r \in Rooms : Trigger(c, m, r)
      PROVE  TurnsInv'
  BY <1>5, IdentifyOK, TriggerOK
<1>6. ASSUME NEW t \in Turns,
             \/ Think(t) \/ ListTools(t) \/ ChooseTools(t) \/ Register(t) \/ Compose(t)
             \/ ComposeFails(t) \/ Stream(t) \/ Finish(t)
      PROVE  TurnsInv'
  BY <1>6, ThinkOK, PrepareOK, ComposeFailsOK, StreamOK, FinishOK
<1>7. QED
  BY <1>1, <1>2, <1>3, <1>4, <1>5, <1>6 DEF TurnsNext

LEMMA BackedIsWorking == TurnsInv => BusyMeansWorking
<1> SUFFICES ASSUME TurnsInv, NEW u \in Users, NEW m \in Models, status[u][m] # "idle"
             PROVE  m \in stuck[u] \/ AtWork(u, m)
  BY DEF BusyMeansWorking
<1>1. Working(u, m) => AtWork(u, m)
  BY DEF Working, AtWork, Stages
<1>2. DOMAIN updates[u] = 1..Len(updates[u])
  <2>1. updates[u] \in Seq(Update)
    BY DEF TurnsInv, Shapes
  <2>2. QED
    BY <2>1
<1>3. EndsAfter(u, m, 0) => AtWork(u, m)
  BY <1>2 DEF EndsAfter, AtWork, Ends
<1>4. QED
  BY <1>1, <1>3 DEF TurnsInv, StatusIsBacked

\* Whatever is mentioned, by whom and how often, in whatever order turns, their
\* updates and the commands come: a model that a terminal shows as busy is at
\* work for it, or the end of its work is on the way (handle_mention,
\* spawn_model_response, push_updates_task).
THEOREM BusyIsAtWork == TurnsSpec => []BusyMeansWorking
<1>1. TurnsInit => TurnsInv
  BY InitOK
<1>2. TurnsInv /\ [TurnsNext]_turnsVars => TurnsInv'
  BY NextOK
<1>3. TurnsInv => BusyMeansWorking
  BY BackedIsWorking
<1>4. QED
  BY <1>1, <1>2, <1>3, PTL DEF TurnsSpec

-----------------------------------------------------------------------------
(* Frames.  What is drawn is typed; and where the wide characters of a row *)
(* are whole, the columns that are sent before a character are as many as  *)
(* its own column, so that the terminal puts it there.                     *)

\* A set of numbers that is not empty has a least element.
LEMMA LeastExists ==
  ASSUME NEW S \in SUBSET Nat, S # {}
  PROVE  \E x \in S : \A y \in S : x <= y
<1> DEFINE Below == {p \in Nat \X Nat : p[1] < p[2]}
<1>1. IsWellFoundedOn(Below, Nat)
  BY NatLessThanWellFounded DEF OpToRel
<1> HIDE DEF Below
<1>2. PICK x \in S : \A y \in S : ~(<<y, x>> \in Below)
  BY <1>1, WFMin
<1>3. ASSUME NEW y \in S PROVE x <= y
  <2>1. ~(<<y, x>> \in Below)
    BY <1>2
  <2>2. QED
    BY <2>1 DEF Below
<1>4. QED
  BY <1>3

\* A bounded set of numbers that is not empty has a greatest element.
LEMMA MaxIsGreatest ==
  ASSUME NEW b \in Nat, NEW S \in SUBSET (0..b), S # {}
  PROVE  Max(S) \in S /\ \A y \in S : y <= Max(S)
<1> DEFINE D == {d \in Nat : \E x \in S : d = b - x}
<1>1. PICK d \in D : \A e \in D : d <= e
  <2>1. D \in SUBSET Nat /\ D # {}
    <3>1. PICK x \in S : TRUE
      OBVIOUS
    <3>2. b - x \in D
      BY <3>1
    <3>3. QED
      BY <3>2
  <2>2. QED
    BY <2>1, LeastExists
<1>2. PICK x \in S : d = b - x
  BY <1>1
<1>3. ASSUME NEW y \in S PROVE x >= y
  <2>1. b - y \in D
    BY <1>3
  <2>2. d <= b - y
    BY <1>1, <2>1
  <2>3. QED
    BY <1>2, <1>3, <2>2
<1>4. \E z \in S : \A y \in S : z >= y
  BY <1>3
<1>5. Max(S) \in S /\ \A y \in S : Max(S) >= y
  BY <1>4 DEF Max
<1>6. QED
  BY <1>5

Buffers == [Rows -> [Columns -> Cells]]
Drawable == Glyphs
Pens == Styles \cup {Plain}

\* What has a glyph and a style is a cell.
LEMMA CellTyped ==
  ASSUME NEW c \in Drawable, NEW style \in Pens
  PROVE  Cell(c, style) \in Cells
<1>1. style.bold \in BOOLEAN
  <2>1. CASE style \in Styles
    <3>1. style \in [colour : STRING, bold : BOOLEAN]
      BY <2>1, DrawingAssumption
    <3>2. QED
      BY <3>1
  <2>2. CASE style = Plain
    BY <2>2 DEF Plain
  <2>3. QED
    BY <2>1, <2>2 DEF Pens
<1>2. style.colour \in {s.colour : s \in Styles \cup {Plain}}
  BY DEF Pens
<1>3. QED
  BY <1>1, <1>2 DEF Cell, Cells, Drawable

\* What is drawn with is in the alphabet.
LEMMA MarksDrawable == Marks \cup {Wide, Joined, Spacer} \subseteq Drawable
BY WidthAssumption DEF Marks, Drawable, Glyphs, Spacer

LEMMA EmptyFrameTyped == Empty \in Buffers
<1>1. " " \in Drawable /\ Plain \in Pens
  BY MarksDrawable DEF Marks, Pens
<1>2. Blank \in Cells
  BY <1>1, CellTyped DEF Blank
<1>3. [x \in Columns |-> Blank] \in [Columns -> Cells]
  BY <1>2
<1>4. QED
  BY <1>3 DEF Empty, Buffers

LEMMA SetsTyped ==
  ASSUME NEW b \in Buffers, NEW cells, \A p \in DOMAIN cells : cells[p] \in Cells
  PROVE  Sets(b, cells) \in Buffers
BY DEF Sets, Buffers

LEMMA SameTyped ==
  ASSUME NEW b \in Buffers, NEW places, NEW c \in Drawable, NEW style \in Pens
  PROVE  Sets(b, Same(places, c, style)) \in Buffers
BY SetsTyped, CellTyped DEF Same

LEMMA FillTyped ==
  ASSUME NEW b \in Buffers, NEW x, NEW y, NEW w, NEW h, NEW c \in Drawable, NEW style \in Pens
  PROVE  Fill(b, x, y, w, h, c, style) \in Buffers
BY SameTyped DEF Fill

LEMMA LinesTyped ==
  ASSUME NEW b \in Buffers, NEW x, NEW y, NEW n, NEW style \in Pens
  PROVE  HLine(b, x, y, n, style) \in Buffers /\ VLine(b, x, y, n, style) \in Buffers
BY FillTyped, MarksDrawable DEF HLine, VLine, Marks

LEMMA DrawBoxTyped ==
  ASSUME NEW b \in Buffers, NEW x, NEW y, NEW w, NEW h, NEW style \in Pens
  PROVE  DrawBox(b, x, y, w, h, style) \in Buffers
<1> DEFINE right == x + w - 1
           low == y + h - 1
           edges == HLine(HLine(b, x, y, w, style), x, low, w, style)
           sides == VLine(VLine(edges, x, y, h, style), right, y, h, style)
<1>1. HLine(b, x, y, w, style) \in Buffers
  BY LinesTyped
<1>2. edges \in Buffers
  BY <1>1, LinesTyped
<1>3. VLine(edges, x, y, h, style) \in Buffers
  BY <1>2, LinesTyped
<1>4. sides \in Buffers
  BY <1>3, LinesTyped
<1>5. "+" \in Drawable
  BY MarksDrawable DEF Marks
<1>6. Sets(sides, Same({x, right} \X {y, low}, "+", style)) \in Buffers
  BY <1>4, <1>5, SameTyped
<1>7. QED
  BY <1>6 DEF DrawBox

LEMMA GaugeTyped ==
  ASSUME NEW b \in Buffers, NEW x, NEW y, NEW w, NEW filled, NEW style \in Pens
  PROVE  Gauge(b, x, y, w, filled, style) \in Buffers
<1>1. "." \in Drawable /\ "#" \in Drawable
  BY MarksDrawable DEF Marks
<1>2. Fill(b, x, y, w, 1, ".", style) \in Buffers
  BY <1>1, FillTyped
<1>3. QED
  BY <1>1, <1>2, FillTyped DEF Gauge

LEMMA SparklineTyped ==
  ASSUME NEW b \in Buffers, NEW x \in Nat, NEW y, NEW bars \in Seq(Drawable), NEW style \in Pens
  PROVE  Sparkline(b, x, y, bars, style) \in Buffers
<1> DEFINE cells == [p \in (x..(x + Len(bars) - 1)) \X {y} |-> Cell(bars[p[1] - x + 1], style)]
<1>1. ASSUME NEW p \in DOMAIN cells PROVE cells[p] \in Cells
  <2>1. p[1] \in x..(x + Len(bars) - 1)
    BY <1>1
  <2>2. p[1] - x + 1 \in 1..Len(bars)
    BY <2>1
  <2>3. bars[p[1] - x + 1] \in Drawable
    BY <2>2
  <2>4. QED
    BY <1>1, <2>3, CellTyped
<1>2. Sets(b, cells) \in Buffers
  BY <1>1, SetsTyped
<1>3. QED
  BY <1>2 DEF Sparkline

\* Columns, each of a character, are finitely many.
LEMMA SpreadFinite ==
  ASSUME NEW a \in Int, NEW b \in Int, NEW S \in SUBSET ((a..b) \X {1, 2})
  PROVE  IsFiniteSet(S) /\ Cardinality(S) \in Nat
<1>1. IsFiniteSet(a..b)
  BY FS_Interval
<1>2. IsFiniteSet({1, 2})
  <2>1. IsFiniteSet({1})
    BY FS_Singleton
  <2>2. IsFiniteSet({1} \cup {2})
    BY <2>1, FS_AddElement
  <2>3. QED
    BY <2>2
<1>3. IsFiniteSet((a..b) \X {1, 2})
  BY <1>1, <1>2, FS_Product
<1>4. IsFiniteSet(S)
  BY <1>3, FS_Subset
<1>5. QED
  BY <1>4, FS_CardinalityType

LEMMA WidthTyped ==
  ASSUME NEW text \in Seq(STRING)
  PROVE  TextWidth(text) \in Nat
<1>1. DOMAIN text = 1..Len(text) /\ Len(text) \in Int
  OBVIOUS
<1> DEFINE S == {p \in (DOMAIN text) \X {1, 2} : p[2] <= CharWidth(text[p[1]])}
<1>2. S \in SUBSET ((1..Len(text)) \X {1, 2})
  BY <1>1
<1> HIDE DEF S
<1>3. Cardinality(S) \in Nat
  <2>1. 1 \in Int
    OBVIOUS
  <2>2. QED
    BY <1>1, <1>2, <2>1, SpreadFinite, Zenon
<1> USE DEF S
<1>4. QED
  BY <1>3 DEF TextWidth

\* A character that covers a column has a width.
LEMMA PrintTyped ==
  ASSUME NEW b \in Buffers, NEW x \in Nat, NEW y, NEW text \in Seq(STRING),
         \A k \in DOMAIN text : text[k] \in Glyphs, NEW style \in Pens
  PROVE  PrintText(b, x, y, text, style) \in Buffers
<1> DEFINE column(n) == x + TextWidth(SubSeq(text, 1, n - 1))
           over(p) == {k \in DOMAIN text : column(k) <= p[1] /\ p[1] < column(k) + CharWidth(text[k])}
           cell(p, n) == Cell(IF p[1] = column(n) THEN text[n] ELSE Spacer, style)
           cells == [p \in {q \in Columns \X {y} : over(q) # {}} |-> cell(p, CHOOSE k \in over(p) : TRUE)]
<1>1. ASSUME NEW p \in DOMAIN cells PROVE cells[p] \in Cells
  <2>1. PICK i : i = CHOOSE k \in over(p) : TRUE
    OBVIOUS
  <2>2. i \in over(p)
    BY <1>1, <2>1
  <2>3. text[i] \in Glyphs /\ column(i) <= p[1] /\ p[1] < column(i) + CharWidth(text[i])
    BY <2>2
  <2>4. SubSeq(text, 1, i - 1) \in Seq(STRING)
    <3>1. i \in 1..Len(text)
      BY <2>2
    <3>2. QED
      BY <3>1
  <2>11. p[1] \in Int
    BY <1>1 DEF Columns
  <2>5. column(i) \in Int
    <3>1. TextWidth(SubSeq(text, 1, i - 1)) \in Nat
      BY <2>4, WidthTyped
    <3>2. QED
      BY <3>1
  <2>7. (IF p[1] = column(i) THEN text[i] ELSE Spacer) \in Drawable
    BY <2>3, MarksDrawable DEF Drawable
  <2>8. cell(p, i) \in Cells
    BY <2>7, CellTyped
  <2>9. cells[p] = cell(p, i)
    BY <1>1, <2>1
  <2>10. QED
    BY <2>8, <2>9
<1>2. Sets(b, cells) \in Buffers
  BY <1>1, SetsTyped
<1>3. QED
  BY <1>2 DEF PrintText

\* Of the texts, and so of what is clipped from them, the characters are glyphs.
GlyphText(text) == text \in Seq(STRING) /\ \A k \in DOMAIN text : text[k] \in Glyphs

LEMMA TextsAreGlyphs ==
  ASSUME NEW text \in Texts
  PROVE  GlyphText(text)
<1>1. text \in Seq(STRING)
  BY DrawingAssumption
<1>2. ASSUME NEW k \in DOMAIN text PROVE text[k] \in Glyphs
  BY DEF Glyphs, ToSet
<1>3. QED
  BY <1>1, <1>2 DEF GlyphText

LEMMA ClipTyped ==
  ASSUME NEW text, GlyphText(text), NEW width \in Nat
  PROVE  GlyphText(Clip(text, width))
<1> DEFINE S == {n \in 0..Len(text) : TextWidth(SubSeq(text, 1, n)) <= width}
<1>1. text \in Seq(STRING) /\ Len(text) \in Nat /\ DOMAIN text = 1..Len(text)
  BY DEF GlyphText
<1>2. 0 \in S
  <2>1. SubSeq(text, 1, 0) = <<>>
    BY <1>1
  <2>2. {p \in (DOMAIN <<>>) \X {1, 2} : p[2] <= CharWidth(<<>>[p[1]])} = {}
    OBVIOUS
  <2>3. TextWidth(<<>>) = 0
    BY <2>2, FS_EmptySet DEF TextWidth
  <2>4. TextWidth(SubSeq(text, 1, 0)) = 0
    BY <2>1, <2>3, Zenon
  <2>5. QED
    BY <1>1, <2>4
<1>3. S \in SUBSET (0..Len(text)) /\ S # {}
  BY <1>2
<1> HIDE DEF S
<1>4. Max(S) \in 0..Len(text)
  BY <1>1, <1>3, MaxIsGreatest
<1>5. PICK n \in 0..Len(text) : Clip(text, width) = SubSeq(text, 1, n)
  BY <1>4 DEF Clip, S
<1>6. SubSeq(text, 1, n) \in Seq(STRING) /\ DOMAIN SubSeq(text, 1, n) = 1..n
  BY <1>1
<1>7. ASSUME NEW k \in 1..n PROVE SubSeq(text, 1, n)[k] \in Glyphs
  <2>1. SubSeq(text, 1, n)[k] = text[k] /\ k \in DOMAIN text
    BY <1>1
  <2>2. QED
    BY <2>1 DEF GlyphText
<1>8. QED
  BY <1>5, <1>6, <1>7 DEF GlyphText

LEMMA MeterTyped ==
  ASSUME NEW b \in Buffers, NEW x \in Nat, NEW y, NEW w, NEW filled,
         NEW label, GlyphText(label), NEW style \in Pens
  PROVE  Meter(b, x, y, w, filled, label, style) \in Buffers
<1>1. PrintText(b, x, y, label, style) \in Buffers
  BY PrintTyped DEF GlyphText
<1>2. QED
  BY <1>1, GaugeTyped DEF Meter

LEMMA ContextTyped == Contexts \subseteq [x : Nat, y : Nat, w : Nat, h : Nat]
<1>1. Full \in [x : Nat, y : Nat, w : Nat, h : Nat]
  BY FrameAssumption DEF Full
<1>2. ASSUME NEW r \in Regions
      PROVE  Sub(Full, r.x, r.y, r.w, r.h) \in [x : Nat, y : Nat, w : Nat, h : Nat]
  <2>1. r \in [x : Nat, y : Nat, w : Nat, h : Nat]
    BY DrawingAssumption
  <2>2. r.x \in Nat /\ r.y \in Nat /\ r.w \in Nat /\ r.h \in Nat
    BY <2>1
  <2>3. QED
    BY <2>2, FrameAssumption DEF Sub, Full, Least, Monus
<1>3. QED
  BY <1>1, <1>2 DEF Contexts

\* Whatever is called, the buffer keeps its cells.
LEMMA DrawingsTyped ==
  ASSUME buffer \in Buffers, NEW bx \in Nat, NEW by, NEW right \in Nat \ {0}, NEW lower,
         NEW style \in Pens
  PROVE  Drawings(bx, by, right, lower, style) \subseteq Buffers
<1>1. " " \in Drawable /\ {Wide, Joined} \subseteq Drawable /\ "#" \in Drawable /\ "." \in Drawable
  BY MarksDrawable DEF Marks
<1>2. {PrintText(buffer, bx, by, Clip(text, right), style) : text \in Texts} \subseteq Buffers
  <2>1. ASSUME NEW text \in Texts
        PROVE  PrintText(buffer, bx, by, Clip(text, right), style) \in Buffers
    <3>1. GlyphText(Clip(text, right))
      BY TextsAreGlyphs, ClipTyped
    <3>2. QED
      BY <3>1, PrintTyped DEF GlyphText
  <2>2. QED
    BY <2>1
<1>3. {Fill(buffer, bx, by, Least(w, right), Least(h, lower), c, style) :
         w \in Lengths, h \in Lengths, c \in Fillings} \subseteq Buffers
  <2>1. ASSUME NEW w, NEW h, NEW c \in Fillings
        PROVE  Fill(buffer, bx, by, Least(w, right), Least(h, lower), c, style) \in Buffers
    BY <1>1, FillTyped DEF Fillings
  <2>2. QED
    BY <2>1
<1>4. /\ {HLine(buffer, bx, by, Least(n, right), style) : n \in Lengths} \subseteq Buffers
      /\ {VLine(buffer, bx, by, Least(n, lower), style) : n \in Lengths} \subseteq Buffers
  BY LinesTyped
<1>5. {DrawBox(buffer, bx, by, Least(w, right), Least(h, lower), style) :
         w \in Lengths, h \in Lengths} \subseteq Buffers
  <2>1. \A w, h : DrawBox(buffer, bx, by, Least(w, right), Least(h, lower), style) \in Buffers
    BY DrawBoxTyped
  <2>2. QED
    BY <2>1
<1>6. {Gauge(buffer, bx, by, Least(w, right), n, style) : w \in Lengths, n \in Lengths}
        \subseteq Buffers
  <2>1. \A w, n : Gauge(buffer, bx, by, Least(w, right), n, style) \in Buffers
    BY GaugeTyped
  <2>2. QED
    BY <2>1
<1>7. Sparkline(buffer, bx, by, SubSeq(<<"#", ".">>, 1, Least(2, right)), style) \in Buffers
  <2>1. Least(2, right) \in 1..2
    BY DEF Least
  <2>2. PICK n \in 1..2 : n = Least(2, right)
    BY <2>1
  <2>3. ASSUME NEW c \in Drawable, NEW d \in Drawable
        PROVE  SubSeq(<<c, d>>, 1, n) \in Seq(Drawable)
    OBVIOUS
  <2>4. SubSeq(<<"#", ".">>, 1, n) \in Seq(Drawable)
    BY <1>1, <2>3
  <2>5. QED
    BY <2>2, <2>4, SparklineTyped
<1>8. {Meter(buffer, bx, by, Least(w, right), 1, text, style) :
         w \in Lengths, text \in Texts} \subseteq Buffers
  <2>1. ASSUME NEW w, NEW text \in Texts
        PROVE  Meter(buffer, bx, by, Least(w, right), 1, text, style) \in Buffers
    BY TextsAreGlyphs, MeterTyped
  <2>2. QED
    BY <2>1
<1>9. QED
  <2> DEFINE A == {PrintText(buffer, bx, by, Clip(text, right), style) : text \in Texts}
             B == {Fill(buffer, bx, by, Least(w, right), Least(h, lower), c, style) :
                     w \in Lengths, h \in Lengths, c \in Fillings}
             C == {HLine(buffer, bx, by, Least(n, right), style) : n \in Lengths}
             D == {VLine(buffer, bx, by, Least(n, lower), style) : n \in Lengths}
             E == {DrawBox(buffer, bx, by, Least(w, right), Least(h, lower), style) :
                     w \in Lengths, h \in Lengths}
             F == {Gauge(buffer, bx, by, Least(w, right), n, style) :
                     w \in Lengths, n \in Lengths}
             G == Sparkline(buffer, bx, by, SubSeq(<<"#", ".">>, 1, Least(2, right)), style)
             H == {Meter(buffer, bx, by, Least(w, right), 1, text, style) :
                     w \in Lengths, text \in Texts}
  <2>1. Drawings(bx, by, right, lower, style) = A \cup B \cup C \cup D \cup E \cup F \cup {G} \cup H
    BY DEF Drawings
  <2>2. A \subseteq Buffers /\ B \subseteq Buffers
    BY <1>2, <1>3
  <2>3. C \subseteq Buffers /\ D \subseteq Buffers
    BY <1>4
  <2>4. E \subseteq Buffers /\ F \subseteq Buffers
    BY <1>5, <1>6
  <2>5. G \in Buffers /\ H \subseteq Buffers
    BY <1>7, <1>8
  <2> HIDE DEF A, B, C, D, E, F, G, H
  <2>6. QED
    BY <2>1, <2>2, <2>3, <2>4, <2>5

LEMMA DrawnTyped ==
  ASSUME buffer \in Buffers, NEW ctx \in Contexts, NEW x \in Nat, NEW y \in Nat,
         Inside(ctx, x, y), NEW style \in Styles
  PROVE  Drawn(ctx, x, y, style) \subseteq Buffers
<1>1. ctx.x + x \in Nat /\ ctx.w - x \in Nat \ {0}
  <2>1. ctx \in [x : Nat, y : Nat, w : Nat, h : Nat]
    BY ContextTyped
  <2>2. QED
    BY <2>1 DEF Inside
<1>2. style \in Pens
  BY DEF Pens
<1>3. QED
  BY <1>1, <1>2, DrawingsTyped DEF Drawn

LEMMA FrameTypeStarts == FrameInit => FrameTypeOK
BY EmptyFrameTyped, FrameAssumption DEF FrameInit, FrameTypeOK, Buffers

LEMMA FrameTypeKept == FrameTypeOK /\ [FrameNext]_frameVars => FrameTypeOK'
<1> SUFFICES ASSUME FrameTypeOK, [FrameNext]_frameVars PROVE FrameTypeOK'
  OBVIOUS
<1> USE DEF FrameTypeOK, Buffers
<1>1. CASE UNCHANGED frameVars
  BY <1>1 DEF frameVars
<1>2. CASE BeginFrame
  BY <1>2, EmptyFrameTyped DEF BeginFrame
<1>3. CASE Draw
  <2>1. buffer' \in Buffers
    <3>1. PICK ctx \in Contexts :
            \/ buffer' = ClearContext(ctx)
            \/ \E p \in Spots, style \in Styles :
                 /\ Inside(ctx, p.x, p.y)
                 /\ buffer' \in Drawn(ctx, p.x, p.y, style)
      BY <1>3 DEF Draw
    <3>2. CASE buffer' = ClearContext(ctx)
      <4>1. " " \in Drawable /\ Plain \in Pens
        BY MarksDrawable DEF Marks, Pens
      <4>2. QED
        BY <3>2, <4>1, FillTyped DEF ClearContext
    <3>3. ASSUME NEW p \in Spots, NEW style \in Styles,
                 Inside(ctx, p.x, p.y), buffer' \in Drawn(ctx, p.x, p.y, style)
          PROVE  buffer' \in Buffers
      <4>1. p \in [x : Nat, y : Nat]
        BY DrawingAssumption
      <4>2. p.x \in Nat /\ p.y \in Nat
        BY <4>1
      <4>3. QED
        BY <3>3, <4>2, DrawnTyped
    <3>4. QED
      BY <3>1, <3>2, <3>3
  <2>2. draws' \in 0..MaxDraws
    BY <1>3, FrameAssumption DEF Draw
  <2>3. QED
    BY <1>3, <2>1, <2>2 DEF Draw
<1>4. CASE FailFirst \/ SkipFrame
  BY <1>4 DEF FailFirst, SkipFrame
<1>5. CASE SendFrame
  <2>1. hurt' \subseteq Rows
    BY <1>5 DEF SendFrame, HurtAfter
  <2>2. QED
    BY <1>5, <2>1 DEF SendFrame
<1>6. QED
  BY <1>1, <1>2, <1>3, <1>4, <1>5 DEF FrameNext

-----------------------------------------------------------------------------
(* What a row shows                                                        *)

\* Where every character has a width, one that is sent takes one column, or two
\* if it is wide.
LEMMA SentWidth ==
  ASSUME NEW row \in [Columns -> Cells], Whole(row), NEW k \in Sent(row)
  PROVE  CharWidth(row[k].char) = IF row[k].char = Wide THEN 2 ELSE 1
<1>1. row[k].char # Joined
  BY DEF Sent, Whole
<1>2. QED
  BY <1>1, WidthAssumption DEF CharWidth

\* Where wide characters are whole, the terminal puts a character that is sent
\* onto its own column: the columns taken before it are those left of it.
LEMMA AtIsColumn ==
  ASSUME NEW row \in [Columns -> Cells], Whole(row), NEW x \in Sent(row)
  PROVE  At(row, x) = x
<1> DEFINE S == {p \in Spread(row) : p[1] < x}
           f == [p \in S |-> p[1] + p[2] - 1]
<1>1. Columns \subseteq Nat /\ x \in Columns /\ x \in Nat /\ Columns = 0..(Width - 1) /\ Width \in Nat
  BY FrameAssumption DEF Sent, Columns
<1>2. ASSUME NEW p \in S
      PROVE  /\ p = <<p[1], p[2]>> /\ p[1] \in Sent(row) /\ p[1] \in Columns /\ p[1] \in Nat
             /\ p[2] \in {1, 2} /\ p[1] < x
             /\ p[2] = 2 => row[p[1]].char = Wide /\ p[1] + 1 \in Columns /\ row[p[1] + 1].char = Spacer
  <2>1. p \in Sent(row) \X {1, 2} /\ p[2] <= CharWidth(row[p[1]].char) /\ p[1] < x
    BY DEF Spread
  <2>2. p[1] \in Columns
    BY <2>1 DEF Sent
  <2>3. p[2] = 2 => row[p[1]].char = Wide
    BY <2>1, SentWidth
  <2>4. QED
    BY <1>1, <2>1, <2>2, <2>3 DEF Whole
<1>3. \A y \in Sent(row) : y \in Columns /\ row[y].char # Spacer
  BY DEF Sent
<1>4. ASSUME NEW p \in S PROVE f[p] = p[1] + p[2] - 1 /\ f[p] \in 0..(x - 1)
  BY <1>1, <1>2, <1>3, <1>4
<1>5. ASSUME NEW p \in S, NEW q \in S, f[p] = f[q] PROVE p = q
  <2>1. p[1] + p[2] = q[1] + q[2]
    BY <1>2, <1>4, <1>5
  <2>2. ASSUME p[2] = 2, q[2] = 1 PROVE FALSE
    BY <1>2, <1>3, <2>1, <2>2
  <2>3. ASSUME p[2] = 1, q[2] = 2 PROVE FALSE
    BY <1>2, <1>3, <2>1, <2>3
  <2>4. p[2] = q[2] /\ p[1] = q[1]
    BY <1>2, <2>1, <2>2, <2>3
  <2>5. QED
    BY <1>2, <2>4
<1>6. ASSUME NEW y \in 0..(x - 1) PROVE \E p \in S : f[p] = y
  <2>1. y \in Columns /\ y \in Nat /\ y < x
    BY <1>1
  <2>2. CASE y \in Sent(row)
    <3>1. <<y, 1>> \in S
      BY <2>1, <2>2, SentWidth DEF Spread
    <3>2. QED
      BY <2>1, <3>1, <1>4
  <2>3. CASE y \notin Sent(row)
    <3>1. row[y].char = Spacer
      BY <2>1, <2>3 DEF Sent
    <3>2. y - 1 \in Columns /\ row[y - 1].char = Wide
      BY <2>1, <3>1 DEF Whole
    <3>3. y - 1 \in Sent(row) /\ y - 1 < x /\ y - 1 \in Nat
      BY <1>1, <2>1, <3>2, WidthAssumption DEF Sent
    <3>4. CharWidth(row[y - 1].char) = 2
      BY <3>2, <3>3, SentWidth
    <3>5. <<y - 1, 2>> \in S
      BY <3>3, <3>4 DEF Spread
    <3>6. f[<<y - 1, 2>>] = y
      BY <2>1, <3>5, <1>4
    <3>7. QED
      BY <3>5, <3>6
  <2>4. QED
    BY <2>2, <2>3
<1> HIDE DEF S
<1>7. f \in [S -> 0..(x - 1)]
  BY <1>4
<1> HIDE DEF f
<1>8. f \in Injection(S, 0..(x - 1)) /\ f \in Surjection(S, 0..(x - 1))
  BY <1>5, <1>6, <1>7 DEF Injection, Surjection, IsInjective
<1>9. IsFiniteSet(0..(x - 1)) /\ Cardinality(0..(x - 1)) = x
  <2>1. 0 \in Int /\ x - 1 \in Int
    BY <1>1
  <2>2. IsFiniteSet(0..(x - 1)) /\ Cardinality(0..(x - 1)) = IF 0 > x - 1 THEN 0 ELSE (x - 1) - 0 + 1
    BY <2>1, FS_Interval, Zenon
  <2>3. QED
    BY <1>1, <2>2
<1>10. Cardinality(S) = x
  BY <1>8, <1>9, FS_Injection
<1>11. QED
  BY <1>10 DEF At, S

\* A cell is shown in its colour, or if it has none perhaps in that of a cell
\* before it.
LEMMA PenOfRow ==
  ASSUME NEW row \in [Columns -> Cells], NEW x \in Columns
  PROVE  \/ Pen(row, x) = row[x].colour
         \/ row[x].colour = None /\ \E k \in 0..(x - 1) : row[k].colour = Pen(row, x)
<1> DEFINE starts == {k \in 1..x : row[k].bold # row[k - 1].bold} \cup {0}
           from == Max(starts)
           coloured == {k \in from..x : row[k].colour # None}
           latest == Max(coloured)
<1>1. x \in Nat
  BY FrameAssumption DEF Columns
<1>2. from \in 0..x
  <2>1. starts \in SUBSET (0..x) /\ starts # {}
    BY <1>1
  <2> HIDE DEF starts
  <2>2. from \in starts
    BY <1>1, <2>1, MaxIsGreatest
  <2>3. QED
    BY <2>1, <2>2
<1> HIDE DEF from
<1>3. x \in from..x
  BY <1>1, <1>2
<1>4. CASE coloured = {}
  <2>1. Pen(row, x) = None
    BY <1>4 DEF Pen, from
  <2>2. row[x].colour = None
    BY <1>3, <1>4
  <2>3. QED
    BY <2>1, <2>2
<1>5. CASE coloured # {}
  <2>1. coloured \in SUBSET (0..x)
    BY <1>1, <1>2
  <2>2. latest \in coloured /\ \A k \in coloured : k <= latest
    <3> HIDE DEF coloured
    <3>1. QED
      BY <1>1, <1>5, <2>1, MaxIsGreatest
  <2>3. Pen(row, x) = row[latest].colour
    BY <1>5 DEF Pen, from
  <2>4. latest \in 0..x
    BY <2>1, <2>2
  <2> HIDE DEF latest
  <2>5. CASE latest = x
    BY <2>3, <2>5
  <2>6. CASE latest # x
    <3>1. latest \in 0..(x - 1)
      BY <1>1, <2>4, <2>6
    <3>2. row[x].colour = None
      BY <1>1, <1>3, <2>2, <3>1
    <3>3. QED
      BY <2>3, <3>1, <3>2
  <2>7. QED
    BY <2>5, <2>6
<1>6. QED
  BY <1>4, <1>5

LEMMA MaxOfOne ==
  ASSUME NEW n \in Nat
  PROVE  Max({n}) = n
<1>1. {n} \in SUBSET (0..n) /\ {n} # {}
  OBVIOUS
<1>2. Max({n}) \in {n}
  BY <1>1, MaxIsGreatest
<1>3. QED
  BY <1>2

\* What the terminal shows of a whole row is the row.
LEMMA ShownRow ==
  ASSUME NEW row \in [Columns -> Cells], Whole(row), NEW x \in Columns
  PROVE  /\ Shown(row)[x].char = row[x].char
         /\ row[x].char # Spacer =>
              /\ Shown(row)[x].bold = row[x].bold
              /\ Shown(row)[x].colour = Pen(row, x)
<1> DEFINE here == {k \in Sent(row) : At(row, k) = x /\ CharWidth(row[k].char) > 0}
           before == {k \in Sent(row) : At(row, k) = x - 1 /\ CharWidth(row[k].char) = 2}
           glyph(k, c) == [char |-> c, colour |-> Pen(row, k), bold |-> row[k].bold]
<1>1. Shown(row)[x] = IF here # {} THEN glyph(Max(here), row[Max(here)].char)
                      ELSE IF before # {} THEN glyph(Max(before), Spacer) ELSE Blank
  BY DEF Shown
<1>2. x \in Nat
  BY FrameAssumption DEF Columns
<1>3. CASE row[x].char # Spacer
  <2>1. x \in Sent(row)
    BY <1>3 DEF Sent
  <2>2. here = {x}
    <3>1. CharWidth(row[x].char) > 0
      BY <2>1, SentWidth
    <3>2. QED
      BY <2>1, <3>1, AtIsColumn
  <2>3. Max(here) = x
    BY <1>2, <2>2, MaxOfOne
  <2>4. here # {}
    BY <2>2
  <2> HIDE DEF here, before
  <2>5. Shown(row)[x] = glyph(x, row[x].char)
    BY <1>1, <2>3, <2>4
  <2>6. QED
    BY <2>5
<1>4. CASE row[x].char = Spacer
  <2>1. here = {}
    BY <1>4, AtIsColumn DEF Sent
  <2>2. x - 1 \in Columns /\ row[x - 1].char = Wide
    BY <1>4 DEF Whole
  <2>3. x - 1 \in Sent(row)
    BY <2>2, WidthAssumption DEF Sent
  <2>4. before # {}
    <3>1. At(row, x - 1) = x - 1
      BY <2>3, AtIsColumn
    <3>2. CharWidth(row[x - 1].char) = 2
      BY <2>2, <2>3, SentWidth
    <3>3. QED
      BY <2>3, <3>1, <3>2
  <2> HIDE DEF here, before
  <2>5. Shown(row)[x] = glyph(Max(before), Spacer)
    BY <1>1, <2>1, <2>4
  <2>6. QED
    BY <1>4, <2>5
<1>5. QED
  BY <1>3, <1>4

-----------------------------------------------------------------------------
(* The steps of a frame                                                    *)

FrameInv == FrameTypeOK /\ FrameIsShown

\* A row of the terminal and the row it was sent for.
Pictures(row, of) ==
  \A x \in 0..(Width - 2) :
    /\ row[x].char = of[x].char
    /\ of[x].char = Spacer \/ row[x].bold = of[x].bold
    /\ \/ of[x].char = Spacer \/ row[x].colour = of[x].colour
       \/ of[x].colour = None /\ \E k \in 0..(x - 1) : of[k].colour = row[x].colour

Untold(y) == Fingerprint(sent[y]) = Fingerprint(last[y])

LEMMA FrameStarts == FrameInit => FrameInv
<1> SUFFICES ASSUME FrameInit PROVE FrameIsShown
  BY FrameTypeStarts DEF FrameInv
<1>1. terminal = sent /\ sent = last
  BY DEF FrameInit
<1>2. QED
  BY <1>1 DEF FrameIsShown

\* A row that is not sent has the fingerprint of the row before it, and that
\* one has the fingerprint of what was sent; a row that is sent is whole on
\* the terminal.
LEMMA FrameKeeps == FrameInv /\ [FrameNext]_frameVars => FrameInv'
<1> SUFFICES ASSUME FrameInv, [FrameNext]_frameVars PROVE FrameIsShown'
  BY FrameTypeKept DEF FrameInv
<1>1. CASE UNCHANGED <<last, sent, terminal, hurt>>
  BY <1>1 DEF FrameInv, FrameIsShown
<1>2. CASE SendFrame
  <2> SUFFICES ASSUME NEW y \in Rows
               PROVE  /\ Untold(y)'
                      /\ Whole(sent'[y]) /\ y \notin hurt' => Pictures(terminal'[y], sent'[y])
    BY DEF FrameIsShown, Pictures, Untold
  <2>1. last'[y] = buffer[y] /\ buffer[y] \in [Columns -> Cells]
    BY <1>2 DEF SendFrame, FrameInv, FrameTypeOK
  <2>2. CASE y \in Changed
    <3>1. terminal'[y] = Shown(buffer[y]) /\ sent'[y] = buffer[y]
      BY <1>2, <2>2 DEF SendFrame
    <3>2. ASSUME NEW x \in 0..(Width - 2) PROVE x \in Columns
      BY FrameAssumption DEF Columns
    <3>3. Whole(buffer[y]) => Pictures(Shown(buffer[y]), buffer[y])
      BY <2>1, <3>2, ShownRow, PenOfRow DEF Pictures
    <3>4. QED
      BY <2>1, <3>1, <3>3 DEF Untold
  <2>3. CASE y \notin Changed
    <3>1. Fingerprint(buffer[y]) = Fingerprint(last[y])
      BY <2>3 DEF Changed
    <3>2. sent'[y] = sent[y] /\ terminal'[y] = terminal[y]
      BY <1>2, <2>3 DEF SendFrame
    <3>3. Fingerprint(sent'[y]) = Fingerprint(last'[y])
      <4>1. Fingerprint(sent[y]) = Fingerprint(last[y])
        BY DEF FrameInv, FrameIsShown
      <4>2. QED
        BY <2>1, <3>1, <3>2, <4>1
    <3>4. y \notin hurt' => y \notin hurt
      BY <1>2, <2>3 DEF SendFrame, HurtAfter
    <3>5. Whole(sent[y]) /\ y \notin hurt => Pictures(terminal[y], sent[y])
      BY DEF FrameInv, FrameIsShown, Pictures
    <3>6. Untold(y)'
      BY <3>3 DEF Untold
    <3>7. QED
      BY <3>2, <3>4, <3>5, <3>6
  <2>4. QED
    BY <2>2, <2>3
<1>3. QED
  BY <1>1, <1>2 DEF FrameNext, BeginFrame, Draw, FailFirst, SkipFrame, frameVars

-----------------------------------------------------------------------------
(* The whole runtime, whose run checks these                               *)

RuntimeInv == ReloadInv /\ FrameInv /\ TurnsInv

LEMMA RuntimeKeeps == RuntimeSpec => []RuntimeInv
<1>1. RuntimeInit => RuntimeInv
  BY ReloadStarts, FrameStarts, InitOK DEF RuntimeInit, RuntimeInv
<1>2. RuntimeInv /\ [RuntimeNext]_runtimeSpecVars => RuntimeInv'
  <2>1. [RuntimeNext]_runtimeSpecVars =>
          /\ [ReloadNext \/ ServeNext]_reloadVars
          /\ [FrameNext]_frameVars
          /\ [TurnsNext]_turnsVars
    BY DEF RuntimeNext, runtimeSpecVars, ReloadStep, ServeStep, FrameStep, TurnsStep
  <2>2. QED
    BY <2>1, ReloadKeeps, FrameKeeps, NextOK DEF RuntimeInv
<1>3. QED
  BY <1>1, <1>2, PTL DEF RuntimeSpec

\* Tables of modules, channels, cells, the queues of updates and what turns
\* offer have their types (HotReload.tla, Frame.tla, Turns.tla).
THEOREM RuntimeIsTyped == RuntimeSpec => []TypeOK
<1>1. RuntimeInv => TypeOK
  <2>1. RuntimeInv => ReloadTypeOK /\ FrameTypeOK
    BY ReloadGives DEF RuntimeInv, FrameInv
  <2>2. RuntimeInv => TurnsTypeOK
    <3> SUFFICES ASSUME TurnsInv PROVE TurnsTypeOK
      BY DEF RuntimeInv
    <3>1. ASSUME NEW u \in Users
          PROVE  Len(updates[u]) <= UpdateCapacity /\ stuck[u] \subseteq Models
      BY DEF TurnsInv, Shapes
    <3>2. ASSUME NEW t \in Turns, turn[t].stage \notin {"unused", "done"}
          PROVE  turn[t].offered \subseteq AllTools
      <4>1. turn[t] \in Turn
        BY DEF TurnsInv, Shapes
      <4>2. QED
        BY <3>2, <4>1 DEF Turn, OpenTurn, Unused
    <3>3. QED
      BY <3>1, <3>2 DEF TurnsInv, Shapes, TurnsTypeOK
  <2>3. QED
    BY <2>1, <2>2 DEF TypeOK
<1>2. QED
  BY <1>1, RuntimeKeeps, PTL

\* Next to frames and turns too, a module that a session loaded is what its
\* file holds, or the change is on its way.
THEOREM RuntimeIsFresh == RuntimeSpec => []LoadedIsFresh
<1>1. RuntimeInv => LoadedIsFresh
  BY ReloadGives DEF RuntimeInv
<1>2. QED
  BY <1>1, RuntimeKeeps, PTL

\* However wide and high the screen is, whatever texts, styles and contexts
\* Lua draws with, however few digits are kept of the hash of a style, and
\* whatever frames were sent or skipped before: what was sent of a row has the
\* fingerprint of that row in the last frame, and if every character of it has
\* its columns it stands on the terminal as it was drawn, unless a row that was
\* not whole ran into it (print, row_fingerprint, row_to_ansi, diff_ansi).
THEOREM FramesAreShown == RuntimeSpec => []FrameIsShown
<1>1. RuntimeInv => FrameIsShown
  BY DEF RuntimeInv, FrameInv
<1>2. QED
  BY <1>1, RuntimeKeeps, PTL

\* Next to files and frames too, a model that a terminal shows as busy is at
\* work.
THEOREM RuntimeIsAtWork == RuntimeSpec => []BusyMeansWorking
<1>1. RuntimeInv => BusyMeansWorking
  BY BackedIsWorking DEF RuntimeInv
<1>2. QED
  BY <1>1, RuntimeKeeps, PTL
=============================================================================

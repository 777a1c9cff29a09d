------------------------- MODULE JournalFilesProofs -------------------------
(***************************************************************************)
(* The journal directory keeps every record it has published until an      *)
(* attempt on it ends Terminal, for any number of processes, reservations  *)
(* and colliding legacy names, with processes that die anywhere and        *)
(* failing writes, removals and renames (not reads: those lose records, as *)
(* the run unread_record shows).  A power failure takes at most the record *)
(* whose rename was the last change of the directory, and leaves no half   *)
(* record.  The directory is one register per reservation, and a flush     *)
(* finds a spend once.                                                     *)
(***************************************************************************)
EXTENDS JournalFiles, TLAPS

(* Names and contents that differ.                                         *)
LEMMA Contents ==
    /\ Absent \notin Record /\ Unreadable \notin Record /\ Absent # Unreadable
    /\ Absent.id \notin Ids /\ Unreadable.id \notin Ids
    /\ Absent \in Content /\ Unreadable \in Content /\ Record \subseteq Content
    /\ \A c \in Content : c.id \in Ids <=> c \in Record
    /\ \A r \in Record : r.id \in Ids /\ r.mode \in JournalMode
BY IdAssumption DEF Absent, Unreadable, Record, Content, JournalMode

LEMMA Paths ==
    \A i, j \in Ids :
       /\ path_for[i] \in Names /\ legacy_path_for[i] \in Names
       /\ path_for[i] # legacy_path_for[j]
       /\ path_for[i] = path_for[j] => i = j
BY NameAssumption DEF StandardNames, LegacyNames

LEMMA Operations ==
    /\ Idle \in Operation /\ Loading \in Operation
    /\ \A step \in Steps, c \in Content, n \in Names \cup {NoName} :
          Op(step, c, n) \in Operation
    /\ \A r \in Record : WrittenAndSynced(r) \in Operation
BY Contents, Paths DEF Idle, Loading, Op, Operation, Steps, WrittenAndSynced

-----------------------------------------------------------------------------
(* Types.                                                                  *)

LEMMA StoredType ==
    ASSUME NEW dir \in [Names -> Content], NEW i \in Ids
    PROVE  StoredIn(dir, i) \in Slot
<1>1. dir[path_for[i]] \in Content /\ dir[legacy_path_for[i]] \in Content
  BY Paths
<1>2. ASSUME NEW c \in Content, c.id = i PROVE c.mode \in JournalMode
  BY <1>2, Contents
<1> QED
  BY <1>1, <1>2 DEF StoredIn, Slot

LEMMA InitType == Init => TypeOK
<1> SUFFICES ASSUME Init PROVE TypeOK
  OBVIOUS
<1>1. files \in [Names -> Content] /\ past \subseteq [Names -> Content]
  BY DEF Init
<1>2. latest \in [Ids -> Slot]
  BY <1>1, StoredType DEF Init, Stored
<1>3. op \in [Procs -> Operation]
  BY Operations DEF Init
<1> QED
  BY <1>1, <1>2, <1>3 DEF Init, TypeOK

LEMMA DirectoryType ==
    ASSUME TypeOK,
           \/ \E n \in Names : remove_if_exists(n)
           \/ \E from, to \in Names : Rename(from, to)
           \/ \E operation \in {"write", "remove", "rename"} : Fails(operation)
           \/ UNCHANGED dirVars
    PROVE  /\ files' \in [Names -> Content]
           /\ past' \subseteq [Names -> Content]
           /\ failed' \subseteq {"remove", "rename", "power"}
<1>1. CASE \E n \in Names : remove_if_exists(n)
  BY <1>1, Contents DEF TypeOK, remove_if_exists, Change
<1>2. CASE \E from, to \in Names : Rename(from, to)
  BY <1>2, Contents DEF TypeOK, Rename, Change
<1>3. CASE \E operation \in {"write", "remove", "rename"} : Fails(operation)
  BY <1>3 DEF TypeOK, Fails
<1>4. CASE UNCHANGED dirVars
  BY <1>4 DEF TypeOK, dirVars
<1> QED
  BY <1>1, <1>2, <1>3, <1>4

LEMMA OpType ==
    ASSUME TypeOK, NEW p \in Procs,
           \/ \E next \in Operation : Goto(p, next)
           \/ \E step \in Steps : Then(p, step)
    PROVE  op' \in [Procs -> Operation]
<1>1. CASE \E next \in Operation : Goto(p, next)
  BY <1>1 DEF TypeOK, Goto
<1>2. CASE \E step \in Steps : Then(p, step)
  BY <1>2 DEF TypeOK, Then, Operation
<1> QED
  BY <1>1, <1>2

LEMMA PushType ==
    ASSUME TypeOK, NEW p \in Procs, NEW r \in Record, NEW n \in Names, Push(p, r, n)
    PROVE  got' \in [Procs -> SUBSET Finding]
BY DEF TypeOK, Push, Finding

(* Which operations carry a record and a file name.                        *)
LEMMA Carries ==
    ASSUME FilesInv, NEW p \in Procs
    PROVE  /\ op[p] \in Operation
           /\ op[p].do \notin {"idle", "load", "quarantine"} =>
                 op[p].entry \in Record /\ op[p].entry.id \in Ids
           /\ op[p].do \notin {"idle", "load"} => op[p].name \in Names
BY Paths, Contents DEF FilesInv, TypeOK, OperationInv, Operation, Steps

LEMMA TypeStep == FilesInv /\ [Next]_vars => TypeOK'
<1> SUFFICES ASSUME FilesInv, [Next]_vars PROVE TypeOK'
  OBVIOUS
<1>0. TypeOK
  BY DEF FilesInv
<1>1. ASSUME NEW p \in Procs, NEW r \in Record, StartRecord(p, r) PROVE TypeOK'
  <2>1. op' \in [Procs -> Operation]
    <3>1. CASE op' = op
      BY <1>0, <3>1 DEF TypeOK
    <3>2. CASE Goto(p, WrittenAndSynced(r))
      BY <1>0, <3>2, Operations, OpType
    <3> QED
      BY <1>1, <3>1, <3>2 DEF StartRecord
  <2>2. held' \in [Procs -> SUBSET Record]
    BY <1>0, <1>1 DEF StartRecord, TypeOK, Without
  <2> QED
    BY <1>0, <1>1, <2>1, <2>2 DEF StartRecord, TypeOK, dirVars, history
<1>2. ASSUME NEW p \in Procs, Persist(p) PROVE TypeOK'
  <2>1. op[p].entry \in Record /\ op[p].name \in Names
    BY <1>2, Carries DEF Persist, At
  <2>2. op' \in [Procs -> Operation]
    BY <1>0, <1>2, Operations, OpType DEF Persist
  <2>3. CASE Fails("write") /\ UNCHANGED <<latest, undone>>
    BY <1>0, <1>2, <2>2, <2>3, DirectoryType DEF Persist, TypeOK
  <2>4. CASE ~(Fails("write") /\ UNCHANGED <<latest, undone>>)
    <3>1. files' \in [Names -> Content] /\ past' \subseteq [Names -> Content] /\ failed' = failed
      BY <1>0, <1>2, <2>1, <2>4, Contents DEF Persist, TypeOK, Change
    <3>2. latest' \in [Ids -> Slot]
      <4>1. latest' = [latest EXCEPT ![op[p].entry.id] = {op[p].entry.mode}]
        BY <1>2, <2>4 DEF Persist
      <4>2. op[p].entry.id \in Ids /\ op[p].entry.mode \in JournalMode
        BY <2>1, Contents
      <4>3. {op[p].entry.mode} \in Slot
        BY <4>2 DEF Slot
      <4>4. latest \in [Ids -> Slot]
        BY <1>0 DEF TypeOK
      <4> QED
        BY <4>1, <4>2, <4>3, <4>4
    <3> QED
      BY <1>0, <1>2, <2>2, <3>1, <3>2 DEF Persist, TypeOK
  <2> QED
    BY <1>2, <2>3, <2>4 DEF Persist
<1>3. ASSUME NEW p \in Procs, NEW r \in Record, StartDiscard(p, r) PROVE TypeOK'
  <2>1. op' \in [Procs -> Operation]
    BY <1>0, <1>3, Operations, OpType, Contents, Paths DEF StartDiscard, Steps
  <2> QED
    BY <1>0, <1>3, <2>1 DEF StartDiscard, TypeOK, dirVars, history, Without
<1>4. ASSUME NEW p \in Procs, DropStandard(p) PROVE TypeOK'
  <2>1. op' \in [Procs -> Operation]
    BY <1>0, <1>4, Operations, OpType DEF DropStandard, Steps
  <2>2. path_for[op[p].entry.id] \in Names
    BY <1>4, Carries, Paths DEF DropStandard, At
  <2> QED
    BY <1>0, <1>4, <2>1, <2>2, DirectoryType DEF DropStandard, TypeOK, history
<1>5. ASSUME NEW p \in Procs, ReadLegacy(p) PROVE TypeOK'
  <2>1. op' \in [Procs -> Operation]
    BY <1>0, <1>5, Operations, OpType DEF ReadLegacy, Steps
  <2> QED
    BY <1>0, <1>5, <2>1 DEF ReadLegacy, TypeOK, dirVars, history
<1>6. ASSUME NEW p \in Procs, DropLegacy(p) PROVE TypeOK'
  <2>1. op' \in [Procs -> Operation]
    BY <1>0, <1>6, Operations, OpType DEF DropLegacy
  <2>2. op[p].name \in Names
    BY <1>6, Carries DEF DropLegacy, At
  <2> QED
    BY <1>0, <1>6, <2>1, <2>2, DirectoryType DEF DropLegacy, TypeOK, history
<1>7. ASSUME NEW p \in Procs, StartLoad(p) PROVE TypeOK'
  <2>1. op' \in [Procs -> Operation]
    BY <1>0, <1>7, Operations, OpType DEF StartLoad
  <2> QED
    BY <1>0, <1>7, <2>1 DEF StartLoad, TypeOK, dirVars, history
<1>8. ASSUME NEW p \in Procs, Read(p) PROVE TypeOK'
  <2>1. PICK n \in todo[p], c \in Content :
          /\ todo' = [todo EXCEPT ![p] = @ \ {n}]
          /\ \/ c \notin Record /\ Goto(p, Op("quarantine", Absent, n)) /\ got' = got
             \/ c \in Record /\ path_for[c.id] = n /\ Goto(p, Loading) /\ Push(p, c, n)
             \/ c \in Record /\ path_for[c.id] # n /\ Goto(p, Op("migrate", c, n)) /\ got' = got
    BY <1>8 DEF Read
  <2>2. n \in Names
    BY <1>0, <2>1 DEF TypeOK
  <2>3. op' \in [Procs -> Operation]
    BY <1>0, <2>1, <2>2, Operations, OpType, Contents DEF Steps
  <2>4. got' \in [Procs -> SUBSET Finding]
    BY <1>0, <2>1, <2>2, PushType DEF TypeOK
  <2> QED
    BY <1>0, <1>8, <2>1, <2>3, <2>4 DEF Read, TypeOK, dirVars, history
<1>9. ASSUME NEW p \in Procs, Quarantine(p) PROVE TypeOK'
  <2>1. op' \in [Procs -> Operation]
    BY <1>0, <1>9, Operations, OpType DEF Quarantine
  <2>2. op[p].name \in Names
    BY <1>9, Carries DEF Quarantine, At
  <2> QED
    BY <1>0, <1>9, <2>1, <2>2, DirectoryType DEF Quarantine, TypeOK, history
<1>10. ASSUME NEW p \in Procs, Migrate(p) PROVE TypeOK'
  <2>1. op' \in [Procs -> Operation]
    BY <1>0, <1>10, Operations, OpType DEF Migrate, Steps
  <2> QED
    BY <1>0, <1>10, <2>1 DEF Migrate, TypeOK, dirVars, history
<1>11. ASSUME NEW p \in Procs, Compare(p) PROVE TypeOK'
  <2>1. op[p].entry \in Record /\ op[p].name \in Names
    BY <1>11, Carries DEF Compare, At
  <2>2. op' \in [Procs -> Operation]
    BY <1>0, <1>11, Operations, OpType DEF Compare, Steps
  <2>3. got' \in [Procs -> SUBSET Finding]
    BY <1>0, <1>11, <2>1, PushType DEF TypeOK, Compare
  <2> QED
    BY <1>0, <1>11, <2>2, <2>3 DEF Compare, TypeOK, dirVars, history
<1>12. ASSUME NEW p \in Procs, Dedupe(p) PROVE TypeOK'
  <2>1. op[p].entry \in Record /\ op[p].name \in Names
    BY <1>12, Carries DEF Dedupe, At
  <2>2. op' \in [Procs -> Operation]
    BY <1>0, <1>12, Operations, OpType DEF Dedupe
  <2>3. got' \in [Procs -> SUBSET Finding]
    BY <1>0, <1>12, <2>1, PushType DEF TypeOK, Dedupe
  <2> QED
    BY <1>0, <1>12, <2>1, <2>2, <2>3, DirectoryType DEF Dedupe, TypeOK, history
<1>13. ASSUME NEW p \in Procs, Move(p) PROVE TypeOK'
  <2>1. op[p].entry \in Record /\ op[p].name \in Names /\ path_for[op[p].entry.id] \in Names
    BY <1>13, Carries, Paths DEF Move, At
  <2>2. op' \in [Procs -> Operation]
    BY <1>0, <1>13, Operations, OpType DEF Move
  <2>3. got' \in [Procs -> SUBSET Finding]
    BY <1>0, <1>13, <2>1, PushType DEF Move
  <2> QED
    BY <1>0, <1>13, <2>1, <2>2, <2>3, DirectoryType DEF Move, TypeOK, history
<1>14. ASSUME NEW p \in Procs, EndLoad(p) PROVE TypeOK'
  <2>1. op' \in [Procs -> Operation]
    BY <1>0, <1>14, Operations, OpType DEF EndLoad
  <2>2. \A f \in got[p] : f.record \in Record
    BY <1>0 DEF TypeOK, Finding
  <2>3. held' \in [Procs -> SUBSET Record]
    BY <1>0, <1>14, <2>2 DEF EndLoad, TypeOK
  <2>4. got' \in [Procs -> SUBSET Finding]
    BY <1>0, <1>14 DEF EndLoad, TypeOK
  <2> QED
    BY <1>0, <1>14, <2>1, <2>3, <2>4 DEF EndLoad, TypeOK, dirVars, history
<1>15. ASSUME NEW i \in Ids, Conclude(i) PROVE TypeOK'
  BY <1>0, <1>15 DEF Conclude, TypeOK, dirVars, history
<1>16. ASSUME NEW who \in SUBSET Procs, Die(who)
       PROVE  /\ op' \in [Procs -> Operation] /\ todo' \in [Procs -> SUBSET Names]
              /\ got' \in [Procs -> SUBSET Finding] /\ held' \in [Procs -> SUBSET Record]
  BY <1>0, <1>16, Operations DEF Die, TypeOK
<1>17. ASSUME NEW p \in Procs, Crash(p) PROVE TypeOK'
  BY <1>0, <1>16, <1>17 DEF Crash, TypeOK, dirVars, history
<1>18. ASSUME PowerFailure PROVE TypeOK'
  <2>1. files' \in [Names -> Content]
    BY <1>0, <1>18 DEF PowerFailure, TypeOK
  <2>2. undone' \subseteq Ids
    BY <1>0, <1>18 DEF PowerFailure, TypeOK, Lost
  <2>3. past' = {} /\ failed' \subseteq {"remove", "rename", "power"}
        /\ UNCHANGED <<terminal, latest, fresh>>
    BY <1>0, <1>18 DEF PowerFailure, TypeOK
  <2> QED
    BY <1>0, <1>16, <1>18, <2>1, <2>2, <2>3 DEF PowerFailure, TypeOK
<1>19. CASE UNCHANGED vars
  BY <1>0, <1>19 DEF TypeOK, vars, dirVars, history
<1> QED
  BY <1>1, <1>2, <1>3, <1>4, <1>5, <1>6, <1>7, <1>8, <1>9, <1>10, <1>11, <1>12, <1>13,
     <1>14, <1>15, <1>17, <1>18, <1>19 DEF Next, Recording, Discarding, Flushing

-----------------------------------------------------------------------------
(* The invariant.  Every step but a power failure is legal in the sense    *)
(* below, and a legal step keeps the invariant of the directory and of the *)
(* processes that do not move.                                             *)

Entitled(i) == InHand(i) \/ latest[i] # {} \/ i \in fresh \ fresh'

Legal ==
    /\ TypeOK'
    /\ \A n \in Names :
          \/ files'[n] \in {files[n], Absent}
          \/ \E i \in Ids : n = path_for[i] /\ files'[n].id = i
    /\ \A i \in Ids :
          /\ files[path_for[i]].id = i => files'[path_for[i]].id = i \/ GoneForGood(i)
          /\ files[legacy_path_for[i]].id = i =>
                \/ files'[legacy_path_for[i]].id = i
                \/ files'[path_for[i]].id = i
                \/ GoneForGood(i)
          /\ files'[path_for[i]].id = i => latest'[i] # {}
          /\ latest[i] # {} => latest'[i] # {}
          /\ latest'[i] # {} => latest[i] # {} \/ (InHand(i) /\ files'[path_for[i]].id = i)
          /\ InHand(i)' => Entitled(i)
    /\ fresh' \subseteq fresh
    /\ terminal \subseteq terminal'
    /\ undone' \subseteq undone
    /\ \A i \in Ids :
          /\ i \in undone \ undone' => files'[path_for[i]].id = i
          /\ files'[path_for[i]].id = i =>
                \/ files[path_for[i]].id = i \/ files[legacy_path_for[i]].id = i
                \/ \A n \in Names \ {path_for[i]} : files'[n] = files[n]
    /\ past' \subseteq {files, files'} \/ (files' = files /\ past' = past)

LEMMA InitInv == Init => FilesInv
<1> SUFFICES ASSUME Init PROVE FilesInv
  OBVIOUS
<1>1. TypeOK
  BY InitType
<1>2. \A i \in Ids : /\ ~InHand(i)
                     /\ files[path_for[i]].id = i \/ files[legacy_path_for[i]].id = i
                           <=> latest[i] # {}
  BY Contents DEF Init, InHand, Idle, Op, Stored, StoredIn
<1>3. OwnName(files)
  BY DEF Init, LeftBehind, OwnName
<1>4. DirectoryInv
  <2>1. ASSUME NEW i \in Ids
        PROVE  /\ Holds(path_for[i], i) \/ Holds(legacy_path_for[i], i) => latest[i] # {}
               /\ files[path_for[i]] = Unreadable => files[legacy_path_for[i]].id # i
               /\ i \in fresh => latest[i] = {} /\ files[path_for[i]] = Absent
    <3>1. Holds(path_for[i], i) \/ Holds(legacy_path_for[i], i) => latest[i] # {}
      BY <1>2 DEF Holds
    <3>2. files[path_for[i]] = Unreadable => files[legacy_path_for[i]].id # i
      BY DEF Init, LeftBehind
    <3>3. i \in fresh => ~HasCopy(i) /\ files[path_for[i]] = Absent
      BY DEF Init
    <3>4. ~HasCopy(i) => latest[i] = {}
      BY <1>2, Paths DEF HasCopy, Holds
    <3> QED
      BY <3>1, <3>2, <3>3, <3>4
  <2>2. \A i \in Ids : files[path_for[i]] = Unreadable => Hopeless(i)
    BY <1>2, <2>1, Contents DEF Hopeless
  <2> QED
    BY <1>2, <1>3, <2>1, <2>2 DEF DirectoryInv
<1>5. PastInv
  <2> SUFFICES ASSUME NEW i \in Ids
               PROVE  /\ files[path_for[i]].id = i \/ files[legacy_path_for[i]].id = i =>
                            latest[i] # {}
                      /\ files[path_for[i]] = Unreadable => Hopeless(i)
                      /\ i \in fresh => files[path_for[i]] = Absent
                      /\ HasCopy(i) =>
                            files[path_for[i]].id = i \/ files[legacy_path_for[i]].id = i
    BY <1>3 DEF PastInv, Init
  <2>1. HasCopy(i) => files[path_for[i]].id = i \/ files[legacy_path_for[i]].id = i
    <3>1. ASSUME NEW n \in Names, files[n].id = i
          PROVE  n \in {path_for[i], legacy_path_for[i]}
      BY <1>1, <1>3, <3>1, Contents DEF OwnName, TypeOK
    <3> QED
      BY <3>1 DEF HasCopy, Holds
  <2> QED
    BY <1>4, <2>1 DEF DirectoryInv, Holds
<1>6. KeptUntilTerminal
  BY <1>2, Paths DEF KeptUntilTerminal, HasCopy, Holds
<1>7. \A p \in Procs : ListedInv(p) /\ OperationInv(p)
  BY DEF ListedInv, OperationInv, Init, Idle, Op
<1> QED
  BY <1>1, <1>4, <1>5, <1>6, <1>7 DEF FilesInv

LEMMA GoneIsStable ==
    ASSUME FilesInv, Legal, NEW i \in Ids
    PROVE  /\ Hopeless(i) => Hopeless(i)'
           /\ GoneForGood(i) => GoneForGood(i)'
           /\ GoneForGood(i) => i \in terminal \/ latest'[i] = {}
BY DEF Legal, GoneForGood, Hopeless, Entitled

LEMMA LegalDirectory == FilesInv /\ Legal => DirectoryInv'
<1> SUFFICES ASSUME FilesInv, Legal PROVE DirectoryInv'
  OBVIOUS
<1>0. DirectoryInv /\ files \in [Names -> Content] /\ files' \in [Names -> Content]
  BY DEF FilesInv, Legal, TypeOK
<1>1. OwnName(files')
  BY <1>0, Contents DEF Legal, DirectoryInv, OwnName
<1> SUFFICES ASSUME NEW i \in Ids
             PROVE  /\ (Holds(path_for[i], i) \/ Holds(legacy_path_for[i], i) => latest[i] # {})'
                    /\ (files[path_for[i]] = Unreadable => Hopeless(i))'
                    /\ (i \in fresh => latest[i] = {} /\ files[path_for[i]] = Absent /\ ~InHand(i))'
  BY <1>1 DEF DirectoryInv
<1>2. files'[legacy_path_for[i]].id = i => files[legacy_path_for[i]].id = i
  BY Paths, Contents DEF Legal
<1>3. (Holds(path_for[i], i) \/ Holds(legacy_path_for[i], i) => latest[i] # {})'
  BY <1>0, <1>2 DEF Legal, DirectoryInv, Holds
<1>4. files'[path_for[i]] \in {files[path_for[i]], Absent} \/ files'[path_for[i]].id = i
  BY Paths DEF Legal
<1>5. (files[path_for[i]] = Unreadable => Hopeless(i))'
  BY <1>0, <1>4, GoneIsStable, Contents DEF DirectoryInv
<1>6. ASSUME i \in fresh' PROVE latest'[i] = {} /\ files'[path_for[i]] = Absent /\ ~InHand(i)'
  <2>1. i \in fresh /\ latest[i] = {} /\ files[path_for[i]] = Absent /\ ~InHand(i)
    BY <1>0, <1>6 DEF Legal, DirectoryInv
  <2>2. latest'[i] = {}
    BY <2>1 DEF Legal
  <2>3. ~InHand(i)'
    BY <1>6, <2>1 DEF Legal, Entitled
  <2> QED
    BY <1>4, <2>1, <2>2, <2>3 DEF Legal
<1> QED
  BY <1>3, <1>5, <1>6

(* The two names of an id are all there are for it.                        *)
LEMMA CopyIsNamed ==
    ASSUME OwnName(files), files \in [Names -> Content], NEW i \in Ids
    PROVE  HasCopy(i) <=> files[path_for[i]].id = i \/ files[legacy_path_for[i]].id = i
<1>1. ASSUME NEW n \in Names, files[n].id = i PROVE n \in {path_for[i], legacy_path_for[i]}
  BY <1>1, Contents DEF OwnName
<1> QED
  BY <1>1, Paths DEF HasCopy, Holds

LEMMA LegalPast == FilesInv /\ Legal => PastInv'
<1> SUFFICES ASSUME FilesInv, Legal PROVE PastInv'
  OBVIOUS
<1>0. /\ DirectoryInv /\ DirectoryInv' /\ PastInv /\ fresh' \subseteq fresh
      /\ files \in [Names -> Content] /\ files' \in [Names -> Content]
      /\ terminal \subseteq terminal'
      /\ \A i \in Ids : latest[i] # {} => latest'[i] # {}
  BY LegalDirectory DEF FilesInv, Legal, TypeOK
<1> SUFFICES ASSUME NEW dir \in past'
             PROVE  /\ OwnName(dir)
                    /\ \A i \in Ids :
                          /\ dir[path_for[i]].id = i \/ dir[legacy_path_for[i]].id = i =>
                                latest'[i] # {}
                          /\ dir[path_for[i]] = Unreadable => Hopeless(i)'
                          /\ i \in fresh' => dir[path_for[i]] = Absent
                          /\ i \notin terminal' \cup Lost(dir)' /\ HasCopy(i)' =>
                                dir[path_for[i]].id = i \/ dir[legacy_path_for[i]].id = i
  BY DEF PastInv
<1>1. CASE files' = files /\ past' = past
  <2>1. Lost(dir)' = Lost(dir) /\ \A i \in Ids : HasCopy(i)' = HasCopy(i)
    BY <1>1 DEF Lost, HasCopy, Holds
  <2>2. OwnName(dir)
    BY <1>0, <1>1 DEF PastInv
  <2> SUFFICES ASSUME NEW i \in Ids
               PROVE  /\ dir[path_for[i]].id = i \/ dir[legacy_path_for[i]].id = i =>
                            latest'[i] # {}
                      /\ dir[path_for[i]] = Unreadable => Hopeless(i)'
                      /\ i \in fresh' => dir[path_for[i]] = Absent
                      /\ i \notin terminal' \cup Lost(dir)' /\ HasCopy(i)' =>
                            dir[path_for[i]].id = i \/ dir[legacy_path_for[i]].id = i
    BY <2>2
  <2>3. /\ dir[path_for[i]].id = i \/ dir[legacy_path_for[i]].id = i => latest[i] # {}
        /\ dir[path_for[i]] = Unreadable => Hopeless(i)
        /\ i \in fresh => dir[path_for[i]] = Absent
        /\ i \notin terminal \cup Lost(dir) /\ HasCopy(i) =>
              dir[path_for[i]].id = i \/ dir[legacy_path_for[i]].id = i
    BY <1>0, <1>1 DEF PastInv
  <2>4. Hopeless(i) => Hopeless(i)'
    BY GoneIsStable
  <2> QED
    BY <1>0, <2>1, <2>3, <2>4
<1>2. CASE dir = files'
  <2> SUFFICES ASSUME NEW i \in Ids
               PROVE  /\ files'[path_for[i]].id = i \/ files'[legacy_path_for[i]].id = i =>
                            latest'[i] # {}
                      /\ files'[path_for[i]] = Unreadable => Hopeless(i)'
                      /\ i \in fresh' => files'[path_for[i]] = Absent
                      /\ HasCopy(i)' =>
                            files'[path_for[i]].id = i \/ files'[legacy_path_for[i]].id = i
    BY <1>0, <1>2 DEF DirectoryInv
  <2>1. HasCopy(i)' => files'[path_for[i]].id = i \/ files'[legacy_path_for[i]].id = i
    <3>1. ASSUME NEW n \in Names, files'[n].id = i
          PROVE  n \in {path_for[i], legacy_path_for[i]}
      BY <1>0, <3>1, Contents DEF DirectoryInv, OwnName
    <3> QED
      BY <3>1 DEF HasCopy, Holds
  <2> QED
    BY <1>0, <2>1 DEF DirectoryInv, Holds
<1>3. CASE dir = files
  <2> SUFFICES ASSUME NEW i \in Ids
               PROVE  /\ files[path_for[i]].id = i \/ files[legacy_path_for[i]].id = i =>
                            latest'[i] # {}
                      /\ files[path_for[i]] = Unreadable => Hopeless(i)'
                      /\ i \in fresh' => files[path_for[i]] = Absent
                      /\ i \notin Lost(dir)' /\ HasCopy(i)' =>
                            files[path_for[i]].id = i \/ files[legacy_path_for[i]].id = i
    <3>1. OwnName(files)
      BY <1>0 DEF DirectoryInv
    <3> QED
      BY <1>0, <1>3, <3>1
  <2>1. files[path_for[i]] = Unreadable => Hopeless(i)'
    BY <1>0, GoneIsStable DEF DirectoryInv
  <2>2. ASSUME i \notin Lost(dir)', HasCopy(i)'
        PROVE  files[path_for[i]].id = i \/ files[legacy_path_for[i]].id = i
    <3>1. PICK n \in Names : files'[n].id = i
      BY <2>2 DEF HasCopy, Holds
    <3>2. n \in {path_for[i], legacy_path_for[i]}
      BY <1>0, <3>1, Contents DEF DirectoryInv, OwnName
    <3>3. files'[legacy_path_for[i]].id = i => files[legacy_path_for[i]].id = i
      BY Paths, Contents DEF Legal
    <3>4. CASE files'[path_for[i]].id = i /\ files[path_for[i]].id # i
      BY <1>3, <2>2, <3>4, Paths DEF Legal, Lost
    <3> QED
      BY <3>1, <3>2, <3>3, <3>4
  <2> QED
    BY <1>0, <2>1, <2>2 DEF DirectoryInv, Holds
<1> QED
  BY <1>1, <1>2, <1>3 DEF Legal

LEMMA LegalKeeps == FilesInv /\ Legal => KeptUntilTerminal'
<1> SUFFICES ASSUME FilesInv, Legal,
                    NEW i \in Ids, i \notin terminal', i \notin undone', latest'[i] # {}
             PROVE  HasCopy(i)'
  BY DEF KeptUntilTerminal
<1>1. ~GoneForGood(i)
  BY GoneIsStable DEF Legal
<1>2. CASE files'[path_for[i]].id = i
  BY <1>2, Paths DEF HasCopy, Holds
<1>3. CASE latest[i] # {} /\ i \notin undone
  <2>1. HasCopy(i)
    BY <1>3 DEF FilesInv, KeptUntilTerminal, Legal
  <2>2. files[path_for[i]].id = i \/ files[legacy_path_for[i]].id = i
    BY <2>1, CopyIsNamed DEF FilesInv, DirectoryInv, TypeOK
  <2> QED
    BY <1>1, <2>2, Paths DEF Legal, HasCopy, Holds
<1> QED
  BY <1>2, <1>3 DEF Legal

LEMMA Unmoved ==
    ASSUME FilesInv, Legal, NEW q \in Procs
    PROVE  /\ todo'[q] \subseteq todo[q] => ListedInv(q)'
           /\ op'[q] = op[q] => OperationInv(q)'
<1>1. ASSUME todo'[q] \subseteq todo[q] PROVE ListedInv(q)'
  <2> SUFFICES ASSUME NEW i \in Ids, path_for[i] \in todo'[q]
               PROVE  (Holds(path_for[i], i) \/ GoneForGood(i))'
    BY DEF ListedInv
  <2>1. files[path_for[i]].id = i \/ GoneForGood(i)
    BY <1>1 DEF FilesInv, ListedInv, Holds
  <2> QED
    BY <2>1, GoneIsStable DEF Legal, Holds
<1>2. ASSUME op'[q] = op[q] PROVE OperationInv(q)'
  <2> DEFINE i == op[q].entry.id
             n == op[q].name
             do == op[q].do
  <2>0. OperationInv(q) /\ files' \in [Names -> Content] /\ terminal \subseteq terminal'
    BY DEF FilesInv, Legal, TypeOK
  <2>1. do \notin {"idle", "load", "quarantine"} => op[q].entry \in Record /\ i \in Ids
    BY <2>0, Contents DEF OperationInv
  <2>2. \A j \in Ids : files'[legacy_path_for[j]] \in {files[legacy_path_for[j]], Absent}
    BY Paths DEF Legal
  <2>3. do = "drop_legacy" => files'[n] = Absent \/ files'[n].id = i
    BY <2>0, <2>1, <2>2 DEF OperationInv
  <2>4. do \in {"migrate", "compare", "move", "dedupe"} => files'[n] \in {Absent, op[q].entry}
    BY <2>0, <2>1, <2>2 DEF OperationInv
  <2>5. do \in {"compare", "dedupe"} => i \in terminal' \/ files'[path_for[i]].id = i
    <3> SUFFICES ASSUME do \in {"compare", "dedupe"}, i \notin terminal
                 PROVE  files'[path_for[i]].id = i
      BY <2>0
    <3>1. i \in Ids /\ InHand(i) /\ files[path_for[i]].id = i
      BY <2>0, <2>1 DEF OperationInv, InHand, Holds
    <3> QED
      BY <3>1 DEF Legal, GoneForGood, Hopeless
  <2>6. ASSUME do = "quarantine"
        PROVE  /\ n \in Names
               /\ files'[n] \in Record => n = path_for[files'[n].id]
               /\ \A j \in Ids : n = path_for[j] => GoneForGood(j)'
    <3>1. n \in Names /\ (files[n] \in Record => n = path_for[files[n].id])
      BY <2>0, <2>6 DEF OperationInv
    <3>2. \A j \in Ids : n = path_for[j] => GoneForGood(j)'
      BY <2>0, <2>6, GoneIsStable DEF OperationInv
    <3> QED
      BY <3>1, <3>2, Contents DEF Legal
  <2> QED
    BY <1>2, <2>0, <2>3, <2>4, <2>5, <2>6 DEF OperationInv, Holds
<1> QED
  BY <1>1, <1>2

LEMMA LegalStep ==
    ASSUME FilesInv, Legal, NEW p \in Procs,
           \A q \in Procs : q # p => op'[q] = op[q] /\ todo'[q] = todo[q],
           todo'[p] \subseteq todo[p] \/ ListedInv(p)',
           op'[p] = op[p] \/ OperationInv(p)'
    PROVE  FilesInv'
<1>1. \A q \in Procs : ListedInv(q)' /\ OperationInv(q)'
  BY Unmoved
<1> QED
  BY <1>1, LegalDirectory, LegalPast, LegalKeeps DEF FilesInv, Legal

(* What one process comes to hold it was entitled to.                      *)
LEMMA Hands ==
    ASSUME NEW p \in Procs, NEW i \in Ids,
           \A q \in Procs : q # p =>
               held'[q] = held[q] /\ got'[q] = got[q] /\ op'[q] = op[q],
           (\E r \in held'[p] : r.id = i) => Entitled(i),
           (\E f \in got'[p] : f.record.id = i) => Entitled(i),
           op'[p].entry.id = i => Entitled(i)
    PROVE  InHand(i)' => Entitled(i)
<1> SUFFICES ASSUME InHand(i)' PROVE Entitled(i)
  OBVIOUS
<1>1. PICK q \in Procs : \/ \E r \in held'[q] : r.id = i
                         \/ \E f \in got'[q] : f.record.id = i
                         \/ op'[q].entry.id = i
  BY DEF InHand
<1>2. CASE q # p
  BY <1>1, <1>2 DEF Entitled, InHand
<1> QED
  BY <1>1, <1>2

(* A step that leaves the directory alone.                                 *)
LEMMA QuietLegal ==
    ASSUME FilesInv, TypeOK', files' = files, past' = past, latest' = latest,
           fresh' \subseteq fresh, terminal \subseteq terminal', undone' = undone,
           \A i \in Ids : InHand(i)' => Entitled(i)
    PROVE  Legal
BY DEF Legal, FilesInv, DirectoryInv, Holds

(* A step that removes a file which is nobody's only copy.                 *)
LEMMA RemovalLegal ==
    ASSUME FilesInv, TypeOK', NEW n \in Names, remove_if_exists(n),
           \A i \in Ids : files[n].id = i => GoneForGood(i)
                              \/ (n = legacy_path_for[i] /\ files[path_for[i]].id = i),
           latest' = latest, fresh' = fresh, terminal' = terminal, undone' = undone,
           \A i \in Ids : InHand(i)' => Entitled(i)
    PROVE  Legal
<1>1. files' = [files EXCEPT ![n] = Absent] /\ past' \subseteq {files, files'}
  BY DEF remove_if_exists, Change
<1>2. files \in [Names -> Content] /\ DirectoryInv
  BY DEF FilesInv, TypeOK
<1>3. \A m \in Names : files'[m] = IF m = n THEN Absent ELSE files[m]
  BY <1>1, <1>2
<1>4. \A i \in Ids :
         /\ files[path_for[i]].id = i => files'[path_for[i]].id = i \/ GoneForGood(i)
         /\ files[legacy_path_for[i]].id = i =>
               \/ files'[legacy_path_for[i]].id = i
               \/ files'[path_for[i]].id = i
               \/ GoneForGood(i)
         /\ files'[path_for[i]].id = i => latest[i] # {} /\ files[path_for[i]].id = i
  BY <1>2, <1>3, Paths, Contents DEF DirectoryInv, Holds
<1> QED
  BY <1>1, <1>3, <1>4 DEF Legal

(* What the reads of a process see.                                        *)
LEMMA ReadEntitles ==
    ASSUME FilesInv, NEW n \in Names, files[n] \in Record
    PROVE  Entitled(files[n].id) /\ n \in {path_for[files[n].id], legacy_path_for[files[n].id]}
BY Contents DEF FilesInv, DirectoryInv, OwnName, Holds, Entitled

-----------------------------------------------------------------------------
(* Each action keeps the invariant.                                        *)

LEMMA StartRecordInv ==
    ASSUME FilesInv, TypeOK', NEW p \in Procs, NEW r \in Record, StartRecord(p, r)
    PROVE  FilesInv'
<1>0. TypeOK /\ r.id \in Ids
  BY Contents DEF FilesInv
<1>1. InHand(r.id) \/ r.id \in fresh \ fresh'
  BY <1>0 DEF StartRecord, MayWrite, InHand, Record
<1>2. /\ \A s \in held'[p] : s \in held[p] \/ s = r
      /\ op'[p].entry.id \in {r.id, op[p].entry.id}
      /\ got' = got
      /\ \A q \in Procs : q # p => held'[q] = held[q] /\ op'[q] = op[q]
  BY <1>0 DEF StartRecord, Goto, WrittenAndSynced, Without, TypeOK
<1>3. \A i \in Ids : InHand(i)' => Entitled(i)
  BY <1>1, <1>2, Hands DEF Entitled, InHand
<1>4. Legal
  BY <1>3, QuietLegal DEF StartRecord, dirVars, history
<1>5. op'[p] = op[p] \/ OperationInv(p)'
  <2>1. op' = op \/ op'[p] = WrittenAndSynced(r)
    BY <1>0 DEF StartRecord, Goto, TypeOK
  <2> QED
    BY <2>1 DEF OperationInv, WrittenAndSynced
<1>6. todo' = todo
  BY DEF StartRecord
<1> QED
  BY <1>2, <1>4, <1>5, <1>6, LegalStep

LEMMA PersistInv ==
    ASSUME FilesInv, TypeOK', NEW p \in Procs, Persist(p)
    PROVE  FilesInv'
<1> DEFINE r == op[p].entry
<1>0. TypeOK /\ r \in Record /\ r.id \in Ids /\ op[p].name = path_for[r.id] /\ op[p].synced
  BY Contents DEF FilesInv, Persist, At, OperationInv
<1>1. /\ op'[p] = Idle /\ got' = got /\ held' = held /\ todo' = todo
      /\ \A q \in Procs : q # p => op'[q] = op[q]
  BY <1>0 DEF Persist, Goto, TypeOK
<1>2. \A i \in Ids : InHand(i)' => Entitled(i)
  <2>1. op'[p].entry.id \notin Ids
    BY <1>1, Contents DEF Idle, Op
  <2> QED
    BY <1>1, <2>1, Hands DEF Entitled, InHand
<1>3. Legal
  <2>1. CASE Fails("write") /\ UNCHANGED <<latest, undone>>
    BY <1>2, <2>1, QuietLegal DEF Persist, Fails
  <2>2. CASE ~(Fails("write") /\ UNCHANGED <<latest, undone>>)
    <3>1. /\ files' = [files EXCEPT ![path_for[r.id]] = r]
          /\ past' \subseteq {files, files'}
          /\ latest' = [latest EXCEPT ![r.id] = {r.mode}]
          /\ undone' = undone \ {r.id} /\ UNCHANGED <<terminal, fresh>>
      BY <1>0, <2>2 DEF Persist, Change
    <3>2. \A n \in Names : files'[n] = IF n = path_for[r.id] THEN r ELSE files[n]
      BY <1>0, <3>1 DEF TypeOK
    <3>3. \A i \in Ids : latest'[i] = IF i = r.id THEN {r.mode} ELSE latest[i]
      BY <1>0, <3>1 DEF TypeOK
    <3>4. \A n \in Names :
             \/ files'[n] \in {files[n], Absent}
             \/ \E i \in Ids : n = path_for[i] /\ files'[n].id = i
      BY <1>0, <3>2
    <3>5. ASSUME NEW i \in Ids
          PROVE  /\ files[path_for[i]].id = i => files'[path_for[i]].id = i
                 /\ files[legacy_path_for[i]].id = i => files'[legacy_path_for[i]].id = i
                 /\ files'[path_for[i]].id = i => latest'[i] # {}
                 /\ latest[i] # {} => latest'[i] # {}
                 /\ latest'[i] # {} => latest[i] # {} \/ (InHand(i) /\ files'[path_for[i]].id = i)
      <4>1. CASE i = r.id
        BY <1>0, <4>1, <3>2, <3>3, Paths DEF InHand
      <4>2. CASE i # r.id
        BY <1>0, <4>2, <3>2, <3>3, Paths DEF FilesInv, DirectoryInv, Holds
      <4> QED
        BY <4>1, <4>2
    <3>6. ASSUME NEW i \in Ids
          PROVE  /\ i \in undone \ undone' => files'[path_for[i]].id = i
                 /\ files'[path_for[i]].id = i =>
                       \/ files[path_for[i]].id = i
                       \/ \A n \in Names \ {path_for[i]} : files'[n] = files[n]
      <4>1. CASE i = r.id
        BY <1>0, <3>2, <4>1, Paths
      <4>2. CASE i # r.id
        BY <1>0, <3>1, <3>2, <4>2, Paths
      <4> QED
        BY <4>1, <4>2
    <3> QED
      BY <1>2, <3>1, <3>4, <3>5, <3>6 DEF Legal
  <2> QED
    BY <2>1, <2>2
<1>4. OperationInv(p)'
  BY <1>1 DEF OperationInv, Idle, Op
<1> QED
  BY <1>1, <1>3, <1>4, LegalStep

LEMMA StartDiscardInv ==
    ASSUME FilesInv, TypeOK', NEW p \in Procs, NEW r \in Record, StartDiscard(p, r)
    PROVE  FilesInv'
<1>0. TypeOK /\ r.id \in Ids
  BY Contents DEF FilesInv
<1>1. /\ held'[p] \subseteq held[p]
      /\ op'[p] = Op("drop_standard", r, legacy_path_for[r.id])
      /\ got' = got /\ todo' = todo
      /\ \A q \in Procs : q # p => held'[q] = held[q] /\ op'[q] = op[q]
  BY <1>0 DEF StartDiscard, Goto, Without, TypeOK
<1>2. InHand(r.id)
  BY DEF StartDiscard, InHand
<1>3. \A i \in Ids : InHand(i)' => Entitled(i)
  BY <1>1, <1>2, Hands DEF Entitled, InHand, Op
<1>4. Legal
  BY <1>3, QuietLegal DEF StartDiscard, dirVars, history
<1>5. OperationInv(p)'
  BY <1>1 DEF OperationInv, Op, StartDiscard, history
<1> QED
  BY <1>1, <1>4, <1>5, LegalStep

LEMMA DropStandardInv ==
    ASSUME FilesInv, TypeOK', NEW p \in Procs, DropStandard(p)
    PROVE  FilesInv'
<1> DEFINE i == op[p].entry.id
<1>0. TypeOK /\ op[p].entry \in Record /\ i \in Ids /\ i \in terminal /\ op[p].name = legacy_path_for[i]
  BY Contents DEF FilesInv, DropStandard, At, OperationInv
<1>1. /\ op'[p] \in {Idle, [op[p] EXCEPT !.do = "read_legacy"]}
      /\ got' = got /\ todo' = todo /\ held' = held
      /\ \A q \in Procs : q # p => op'[q] = op[q]
  BY <1>0 DEF DropStandard, Goto, Then, TypeOK
<1>2. op'[p].entry \in {Absent, op[p].entry}
  BY <1>0, <1>1 DEF Idle, Op, TypeOK, Operation
<1>3. \A j \in Ids : InHand(j)' => Entitled(j)
  BY <1>1, <1>2, Contents, Hands DEF Entitled, InHand
<1>4. Legal
  <2>1. CASE remove_if_exists(path_for[i])
    <3>1. \A j \in Ids : files[path_for[i]].id = j => GoneForGood(j)
      BY <1>0, ReadEntitles, Paths, Contents DEF FilesInv, TypeOK, GoneForGood
    <3> QED
      BY <1>0, <1>3, <2>1, <3>1, Paths, RemovalLegal DEF DropStandard, history
  <2>2. CASE Fails("remove")
    BY <1>3, <2>2, QuietLegal DEF DropStandard, Fails, history
  <2> QED
    BY <2>1, <2>2 DEF DropStandard
<1>5. OperationInv(p)'
  <2>1. CASE op'[p] = Idle
    BY <2>1 DEF OperationInv, Idle, Op
  <2>2. CASE op'[p] = [op[p] EXCEPT !.do = "read_legacy"]
    <3>1. /\ op'[p].do = "read_legacy" /\ op'[p].entry = op[p].entry /\ op'[p].name = op[p].name
      BY <1>0, <2>2 DEF TypeOK, Operation
    <3> QED
      BY <1>0, <3>1 DEF OperationInv, DropStandard, history
  <2> QED
    BY <1>1, <2>1, <2>2
<1> QED
  BY <1>1, <1>4, <1>5, LegalStep

LEMMA Pushes ==
    ASSUME TypeOK, NEW p \in Procs, NEW r, NEW n, Push(p, r, n)
    PROVE  /\ \A f \in got'[p] : f \in got[p] \/ f.record = r
           /\ \A q \in Procs : q # p => got'[q] = got[q]
BY DEF Push, TypeOK

LEMMA ReadLegacyInv ==
    ASSUME FilesInv, TypeOK', "read" \notin Faults, NEW p \in Procs, ReadLegacy(p)
    PROVE  FilesInv'
<1> DEFINE i == op[p].entry.id
<1>0. /\ TypeOK /\ op[p].entry \in Record /\ i \in Ids /\ i \in terminal
      /\ op[p].name = legacy_path_for[i]
  BY Contents DEF FilesInv, ReadLegacy, At, OperationInv
<1>1. PICK next \in {Idle, [op[p] EXCEPT !.do = "drop_legacy"]} :
         /\ op' = [op EXCEPT ![p] = next]
         /\ next = Idle \/ files[op[p].name].id = i
  BY DEF ReadLegacy, Goto, Then, ReadAs, belongs_to
<1>2. /\ op'[p] = next /\ got' = got /\ todo' = todo /\ held' = held
      /\ \A q \in Procs : q # p => op'[q] = op[q]
  BY <1>0, <1>1 DEF ReadLegacy, TypeOK
<1>3. next = Idle \/ /\ next.do = "drop_legacy" /\ next.entry = op[p].entry
                     /\ next.name = op[p].name
  BY <1>0, <1>1 DEF TypeOK, Operation
<1>4. \A j \in Ids : InHand(j)' => Entitled(j)
  BY <1>2, <1>3, Contents, Hands DEF Entitled, InHand, Idle, Op
<1>5. Legal
  BY <1>4, QuietLegal DEF ReadLegacy, dirVars, history
<1>6. OperationInv(p)'
  <2>1. files' = files /\ terminal' = terminal
    BY DEF ReadLegacy, dirVars, history
  <2>2. CASE next = Idle
    BY <1>2, <2>2 DEF OperationInv, Idle, Op
  <2>3. CASE next # Idle
    BY <1>0, <1>1, <1>2, <1>3, <2>1, <2>3 DEF OperationInv
  <2> QED
    BY <2>2, <2>3
<1> QED
  BY <1>2, <1>5, <1>6, LegalStep

LEMMA DropLegacyInv ==
    ASSUME FilesInv, TypeOK', NEW p \in Procs, DropLegacy(p)
    PROVE  FilesInv'
<1> DEFINE i == op[p].entry.id
<1>0. /\ TypeOK /\ op[p].entry \in Record /\ i \in Ids /\ i \in terminal
      /\ op[p].name = legacy_path_for[i]
      /\ files[op[p].name] = Absent \/ files[op[p].name].id = i
  BY Contents DEF FilesInv, DropLegacy, At, OperationInv
<1>1. /\ op'[p] = Idle /\ got' = got /\ todo' = todo /\ held' = held
      /\ \A q \in Procs : q # p => op'[q] = op[q]
  BY <1>0 DEF DropLegacy, Goto, TypeOK
<1>2. \A j \in Ids : InHand(j)' => Entitled(j)
  BY <1>1, Contents, Hands DEF Entitled, InHand, Idle, Op
<1>3. Legal
  <2>1. CASE remove_if_exists(op[p].name)
    BY <1>0, <1>2, <2>1, Paths, Contents, RemovalLegal DEF DropLegacy, GoneForGood, history
  <2>2. CASE Fails("remove")
    BY <1>2, <2>2, QuietLegal DEF DropLegacy, Fails, history
  <2> QED
    BY <2>1, <2>2 DEF DropLegacy
<1>4. OperationInv(p)'
  BY <1>1 DEF OperationInv, Idle, Op
<1> QED
  BY <1>1, <1>3, <1>4, LegalStep

LEMMA StartLoadInv ==
    ASSUME FilesInv, TypeOK', NEW p \in Procs, StartLoad(p)
    PROVE  FilesInv'
<1>0. TypeOK /\ DirectoryInv
  BY DEF FilesInv
<1>1. /\ op'[p] = Loading /\ got' = got /\ held' = held
      /\ todo'[p] = {n \in Names : files[n] # Absent}
      /\ \A q \in Procs : q # p => op'[q] = op[q] /\ todo'[q] = todo[q]
  BY <1>0 DEF StartLoad, Goto, TypeOK
<1>2. \A j \in Ids : InHand(j)' => Entitled(j)
  BY <1>1, Contents, Hands DEF Entitled, InHand, Loading, Op
<1>3. Legal
  BY <1>2, QuietLegal DEF StartLoad, dirVars, history
<1>4. ListedInv(p)'
  <2> SUFFICES ASSUME NEW i \in Ids, files[path_for[i]] # Absent
               PROVE  (Holds(path_for[i], i) \/ GoneForGood(i))'
    BY <1>1 DEF ListedInv
  <2>1. CASE files[path_for[i]] \in Record
    <3>1. files[path_for[i]].id = i
      BY <2>1, ReadEntitles, Paths, Contents
    <3> QED
      BY <3>1 DEF Holds, StartLoad, dirVars
  <2>2. CASE files[path_for[i]] = Unreadable
    BY <1>0, <1>3, <2>2, GoneIsStable DEF DirectoryInv, GoneForGood
  <2> QED
    BY <1>0, <2>1, <2>2, Paths DEF TypeOK, Content
<1>5. OperationInv(p)'
  BY <1>1 DEF OperationInv, Loading, Op
<1> QED
  BY <1>1, <1>3, <1>4, <1>5, LegalStep

LEMMA ReadInv ==
    ASSUME FilesInv, TypeOK', "read" \notin Faults, NEW p \in Procs, Read(p)
    PROVE  FilesInv'
<1>0. TypeOK
  BY DEF FilesInv
<1>1. PICK n \in todo[p], c \in Content :
          /\ ReadAs(n, c)
          /\ todo' = [todo EXCEPT ![p] = @ \ {n}]
          /\ \/ c \notin Record /\ Goto(p, Op("quarantine", Absent, n)) /\ got' = got
             \/ c \in Record /\ path_for[c.id] = n /\ Goto(p, Loading) /\ Push(p, c, n)
             \/ c \in Record /\ path_for[c.id] # n /\ Goto(p, Op("migrate", c, n)) /\ got' = got
  BY DEF Read
<1>2. n \in Names /\ c = files[n]
  BY <1>0, <1>1 DEF TypeOK, ReadAs
<1>3. c \in Record => /\ Entitled(c.id) /\ c.id \in Ids
                      /\ n \in {path_for[c.id], legacy_path_for[c.id]}
  BY <1>2, ReadEntitles, Contents
<1>4. /\ todo'[p] \subseteq todo[p] /\ held' = held
      /\ \A q \in Procs : q # p => op'[q] = op[q] /\ todo'[q] = todo[q]
      /\ \/ op'[p] = Op("quarantine", Absent, n) /\ c \notin Record
         \/ op'[p] = Loading
         \/ op'[p] = Op("migrate", c, n) /\ c \in Record /\ path_for[c.id] # n
  BY <1>0, <1>1 DEF Read, Goto, TypeOK
<1>5. /\ \A f \in got'[p] : f \in got[p] \/ (f.record = c /\ c \in Record)
      /\ \A q \in Procs : q # p => got'[q] = got[q]
  BY <1>0, <1>1, Pushes
<1>6. op'[p].entry \in {Absent, c}
  BY <1>4 DEF Op, Loading
<1>7. ASSUME NEW j \in Ids PROVE InHand(j)' => Entitled(j)
  <2>1. (\E r \in held'[p] : r.id = j) => Entitled(j)
    BY <1>4 DEF Entitled, InHand
  <2>2. (\E f \in got'[p] : f.record.id = j) => Entitled(j)
    BY <1>3, <1>5 DEF Entitled, InHand
  <2>3. op'[p].entry.id = j => Entitled(j)
    BY <1>3, <1>6, Contents
  <2> QED
    BY <1>4, <1>5, <2>1, <2>2, <2>3, Hands
<1>8. Legal
  BY <1>7, QuietLegal DEF Read, dirVars, history
<1>9. OperationInv(p)'
  <2>1. files' = files
    BY DEF Read, dirVars, history
  <2>2. CASE op'[p] = Op("quarantine", Absent, n) /\ c \notin Record
    <3>1. \A j \in Ids : n = path_for[j] => GoneForGood(j)'
      BY <1>1, <1>2, <1>8, <2>2, GoneIsStable, Contents DEF FilesInv, ListedInv, Holds
    <3> QED
      BY <1>2, <2>1, <2>2, <3>1 DEF OperationInv, Op
  <2>3. CASE op'[p] = Loading
    BY <2>3 DEF OperationInv, Loading, Op
  <2>4. CASE op'[p] = Op("migrate", c, n) /\ c \in Record /\ path_for[c.id] # n
    BY <1>2, <1>3, <2>1, <2>4 DEF OperationInv, Op
  <2> QED
    BY <1>4, <2>2, <2>3, <2>4
<1> QED
  BY <1>4, <1>8, <1>9, LegalStep

LEMMA QuarantineInv ==
    ASSUME FilesInv, TypeOK', NEW p \in Procs, Quarantine(p)
    PROVE  FilesInv'
<1> DEFINE n == op[p].name
<1>0. /\ TypeOK /\ n \in Names
      /\ files[n] \in Record => n = path_for[files[n].id]
      /\ \A j \in Ids : n = path_for[j] => GoneForGood(j)
  BY DEF FilesInv, Quarantine, At, OperationInv
<1>1. /\ op'[p] = Loading /\ got' = got /\ todo' = todo /\ held' = held
      /\ \A q \in Procs : q # p => op'[q] = op[q]
  BY <1>0 DEF Quarantine, Goto, TypeOK
<1>2. \A j \in Ids : InHand(j)' => Entitled(j)
  BY <1>1, Contents, Hands DEF Entitled, InHand, Loading, Op
<1>3. Legal
  <2>1. CASE remove_if_exists(n)
    <3>1. \A j \in Ids : files[n].id = j => GoneForGood(j)
      BY <1>0, Contents DEF TypeOK
    <3> QED
      BY <1>0, <1>2, <2>1, <3>1, RemovalLegal DEF Quarantine, history
  <2>2. CASE Fails("rename")
    BY <1>2, <2>2, QuietLegal DEF Quarantine, Fails, history
  <2> QED
    BY <2>1, <2>2 DEF Quarantine
<1>4. OperationInv(p)'
  BY <1>1 DEF OperationInv, Loading, Op
<1> QED
  BY <1>1, <1>3, <1>4, LegalStep

LEMMA MigrateInv ==
    ASSUME FilesInv, TypeOK', NEW p \in Procs, Migrate(p)
    PROVE  FilesInv'
<1> DEFINE i == op[p].entry.id
           n == op[p].name
<1>0. /\ TypeOK /\ op[p].entry \in Record /\ i \in Ids
      /\ n = legacy_path_for[i] /\ files[n] \in {Absent, op[p].entry}
  BY Contents DEF FilesInv, Migrate, At, OperationInv
<1>1. PICK step \in {"compare", "move"} :
         /\ op' = [op EXCEPT ![p].do = step]
         /\ step = "compare" => files[path_for[i]] # Absent
  BY DEF Migrate, Then, exists
<1>2. /\ op'[p].do = step /\ op'[p].entry = op[p].entry /\ op'[p].name = n
      /\ got' = got /\ todo' = todo /\ held' = held /\ files' = files /\ terminal' = terminal
      /\ \A q \in Procs : q # p => op'[q] = op[q]
  BY <1>0, <1>1 DEF Migrate, TypeOK, Operation, dirVars, history
<1>3. \A j \in Ids : InHand(j)' => Entitled(j)
  BY <1>2, Hands DEF Entitled, InHand
<1>4. Legal
  BY <1>3, QuietLegal DEF Migrate, dirVars, history
<1>5. step = "compare" => files[path_for[i]].id = i
  <2>1. files[path_for[i]] # Unreadable
    BY <1>0 DEF FilesInv, DirectoryInv, Hopeless, InHand
  <2> QED
    BY <1>0, <1>1, <2>1, ReadEntitles, Paths, Contents DEF TypeOK, Content
<1>6. OperationInv(p)'
  BY <1>0, <1>2, <1>5 DEF OperationInv, Holds
<1> QED
  BY <1>2, <1>4, <1>6, LegalStep

LEMMA CompareInv ==
    ASSUME FilesInv, TypeOK', "read" \notin Faults, NEW p \in Procs, Compare(p)
    PROVE  FilesInv'
<1> DEFINE i == op[p].entry.id
           n == op[p].name
<1>0. /\ TypeOK /\ op[p].entry \in Record /\ i \in Ids
      /\ n = legacy_path_for[i] /\ files[n] \in {Absent, op[p].entry}
      /\ i \in terminal \/ files[path_for[i]].id = i
  BY Contents DEF FilesInv, Compare, At, OperationInv, Holds
<1>1. \/ Then(p, "dedupe") /\ got' = got /\ files[path_for[i]].id = i
      \/ Goto(p, Loading) /\ Push(p, op[p].entry, n)
  BY DEF Compare, ReadAs, same_reservation
<1>2. /\ todo' = todo /\ held' = held /\ files' = files /\ terminal' = terminal
      /\ \A q \in Procs : q # p => op'[q] = op[q] /\ got'[q] = got[q]
      /\ \A f \in got'[p] : f \in got[p] \/ f.record = op[p].entry
  BY <1>0, <1>1, Pushes DEF Compare, Goto, Then, TypeOK, dirVars, history
<1>3. \/ op'[p].do = "dedupe" /\ op'[p].entry = op[p].entry /\ op'[p].name = n
      \/ op'[p] = Loading
  BY <1>0, <1>1 DEF Goto, Then, TypeOK, Operation
<1>4. ASSUME NEW j \in Ids PROVE InHand(j)' => Entitled(j)
  <2>1. (\E r \in held'[p] : r.id = j) => Entitled(j)
    BY <1>2 DEF Entitled, InHand
  <2>2. (\E f \in got'[p] : f.record.id = j) => Entitled(j)
    BY <1>2 DEF Entitled, InHand
  <2>3. op'[p].entry.id = j => Entitled(j)
    BY <1>3, Contents DEF Entitled, InHand, Loading, Op
  <2> QED
    BY <1>2, <2>1, <2>2, <2>3, Hands
<1>5. Legal
  BY <1>4, QuietLegal DEF Compare, dirVars, history
<1>6. OperationInv(p)'
  BY <1>0, <1>2, <1>3 DEF OperationInv, Holds, Loading, Op
<1> QED
  BY <1>2, <1>5, <1>6, LegalStep

LEMMA DedupeInv ==
    ASSUME FilesInv, TypeOK', NEW p \in Procs, Dedupe(p)
    PROVE  FilesInv'
<1> DEFINE i == op[p].entry.id
           n == op[p].name
<1>0. /\ TypeOK /\ op[p].entry \in Record /\ i \in Ids
      /\ n = legacy_path_for[i] /\ files[n] \in {Absent, op[p].entry}
      /\ i \in terminal \/ files[path_for[i]].id = i
  BY Contents DEF FilesInv, Dedupe, At, OperationInv, Holds
<1>1. /\ op'[p] = Loading /\ todo' = todo /\ held' = held
      /\ \A q \in Procs : q # p => op'[q] = op[q] /\ got'[q] = got[q]
      /\ \A f \in got'[p] : f \in got[p] \/ f.record = op[p].entry
  BY <1>0, Pushes DEF Dedupe, Goto, TypeOK
<1>2. ASSUME NEW j \in Ids PROVE InHand(j)' => Entitled(j)
  <2>1. (\E r \in held'[p] : r.id = j) => Entitled(j)
    BY <1>1 DEF Entitled, InHand
  <2>2. (\E f \in got'[p] : f.record.id = j) => Entitled(j)
    BY <1>1 DEF Entitled, InHand
  <2>3. op'[p].entry.id = j => Entitled(j)
    BY <1>1, Contents DEF Loading, Op
  <2> QED
    BY <1>1, <2>1, <2>2, <2>3, Hands
<1>3. Legal
  <2>1. CASE remove_if_exists(n)
    <3>1. \A j \in Ids : files[n].id = j =>
             GoneForGood(j) \/ (n = legacy_path_for[j] /\ files[path_for[j]].id = j)
      BY <1>0, Contents DEF GoneForGood
    <3> QED
      BY <1>0, <1>2, <2>1, <3>1, Paths, RemovalLegal DEF Dedupe, history
  <2>2. CASE Fails("remove")
    BY <1>2, <2>2, QuietLegal DEF Dedupe, Fails, history
  <2> QED
    BY <2>1, <2>2 DEF Dedupe
<1>4. OperationInv(p)'
  BY <1>1 DEF OperationInv, Loading, Op
<1> QED
  BY <1>1, <1>3, <1>4, LegalStep

LEMMA MoveInv ==
    ASSUME FilesInv, TypeOK', NEW p \in Procs, Move(p)
    PROVE  FilesInv'
<1> DEFINE i == op[p].entry.id
           n == op[p].name
<1>0. /\ TypeOK /\ op[p].entry \in Record /\ i \in Ids /\ n \in Names
      /\ n = legacy_path_for[i] /\ files[n] \in {Absent, op[p].entry}
  BY Contents, Paths DEF FilesInv, Move, At, OperationInv
<1>1. /\ op'[p] = Loading /\ todo' = todo /\ held' = held
      /\ \A q \in Procs : q # p => op'[q] = op[q] /\ got'[q] = got[q]
      /\ \A f \in got'[p] : f \in got[p] \/ f.record = op[p].entry
  BY <1>0, Pushes DEF Move, Goto, TypeOK
<1>2. ASSUME NEW j \in Ids PROVE InHand(j)' => Entitled(j)
  <2>1. (\E r \in held'[p] : r.id = j) => Entitled(j)
    BY <1>1 DEF Entitled, InHand
  <2>2. (\E f \in got'[p] : f.record.id = j) => Entitled(j)
    BY <1>1 DEF Entitled, InHand
  <2>3. op'[p].entry.id = j => Entitled(j)
    BY <1>1, Contents DEF Loading, Op
  <2> QED
    BY <1>1, <2>1, <2>2, <2>3, Hands
<1>3. Legal
  <2>1. CASE Rename(n, path_for[i])
    <3>1. /\ files' = [files EXCEPT ![path_for[i]] = files[n], ![n] = Absent]
          /\ past' \subseteq {files, files'} /\ files[n] = op[p].entry
      BY <1>0, <2>1 DEF Rename, Change
    <3>2. \A m \in Names : files'[m] = IF m = n THEN Absent
                                       ELSE IF m = path_for[i] THEN op[p].entry
                                       ELSE files[m]
      BY <1>0, <3>1, Paths DEF TypeOK
    <3>3. \A m \in Names : \/ files'[m] \in {files[m], Absent}
                           \/ \E j \in Ids : m = path_for[j] /\ files'[m].id = j
      BY <1>0, <3>2
    <3>4. ASSUME NEW j \in Ids
          PROVE  /\ files[path_for[j]].id = j => files'[path_for[j]].id = j
                 /\ files[legacy_path_for[j]].id = j =>
                       \/ files'[legacy_path_for[j]].id = j
                       \/ files'[path_for[j]].id = j
                 /\ files'[path_for[j]].id = j =>
                       /\ latest[j] # {}
                       /\ files[path_for[j]].id = j \/ files[legacy_path_for[j]].id = j
      <4>1. latest[i] # {}
        BY <1>0, <3>1 DEF FilesInv, DirectoryInv, Holds
      <4>2. CASE j = i
        BY <1>0, <3>1, <3>2, <4>1, <4>2, Paths
      <4>3. CASE j # i
        <5>1. files'[path_for[j]] = files[path_for[j]]
          BY <1>0, <3>2, <4>3, Paths
        <5>2. files[legacy_path_for[j]].id = j =>
                 files'[legacy_path_for[j]] = files[legacy_path_for[j]]
          BY <1>0, <3>1, <3>2, <4>3, Paths
        <5> QED
          BY <5>1, <5>2 DEF FilesInv, DirectoryInv, Holds
      <4> QED
        BY <4>2, <4>3
    <3> QED
      BY <1>2, <3>1, <3>3, <3>4 DEF Legal, Move, history
  <2>2. CASE Fails("rename") \/ UNCHANGED dirVars
    BY <1>2, <2>2, QuietLegal DEF Move, Fails, dirVars, history
  <2> QED
    BY <2>1, <2>2 DEF Move
<1>4. OperationInv(p)'
  BY <1>1 DEF OperationInv, Loading, Op
<1> QED
  BY <1>1, <1>3, <1>4, LegalStep

LEMMA EndLoadInv ==
    ASSUME FilesInv, TypeOK', NEW p \in Procs, EndLoad(p)
    PROVE  FilesInv'
<1>0. TypeOK
  BY DEF FilesInv
<1>1. /\ op'[p] = Idle /\ todo' = todo /\ got'[p] = {}
      /\ \A r \in held'[p] : r \in held[p] \/ \E f \in got[p] : r = f.record
      /\ \A q \in Procs : q # p => op'[q] = op[q] /\ got'[q] = got[q] /\ held'[q] = held[q]
  BY <1>0 DEF EndLoad, Goto, TypeOK
<1>2. ASSUME NEW j \in Ids PROVE InHand(j)' => Entitled(j)
  <2>1. (\E r \in held'[p] : r.id = j) => Entitled(j)
    BY <1>1 DEF Entitled, InHand
  <2>2. op'[p].entry.id = j => Entitled(j)
    BY <1>1, Contents DEF Idle, Op
  <2> QED
    BY <1>1, <2>1, <2>2, Hands
<1>3. Legal
  BY <1>2, QuietLegal DEF EndLoad, dirVars, history
<1>4. OperationInv(p)'
  BY <1>1 DEF OperationInv, Idle, Op
<1> QED
  BY <1>1, <1>3, <1>4, LegalStep

LEMMA ConcludeInv ==
    ASSUME FilesInv, TypeOK', NEW i \in Ids, Conclude(i)
    PROVE  FilesInv'
<1>1. /\ op' = op /\ todo' = todo /\ got' = got /\ held' = held
      /\ \E p \in Procs : p = p
  BY DEF Conclude
<1>2. \A j \in Ids : InHand(j)' => Entitled(j)
  BY <1>1 DEF InHand, Entitled
<1>3. Legal
  BY <1>2, QuietLegal DEF Conclude, dirVars
<1> QED
  BY <1>1, <1>3, LegalStep

LEMMA CrashInv ==
    ASSUME FilesInv, TypeOK', NEW p \in Procs, Crash(p)
    PROVE  FilesInv'
<1>0. TypeOK
  BY DEF FilesInv
<1>1. /\ op'[p] = Idle /\ todo'[p] = {} /\ got'[p] = {} /\ held'[p] = {}
      /\ \A q \in Procs : q # p =>
            op'[q] = op[q] /\ todo'[q] = todo[q] /\ got'[q] = got[q] /\ held'[q] = held[q]
  BY <1>0 DEF Crash, Die, TypeOK
<1>2. \A j \in Ids : InHand(j)' => Entitled(j)
  BY <1>1, Contents, Hands DEF Idle, Op
<1>3. Legal
  BY <1>2, QuietLegal DEF Crash, dirVars, history
<1>4. OperationInv(p)'
  BY <1>1 DEF OperationInv, Idle, Op
<1> QED
  BY <1>1, <1>3, <1>4, LegalStep

(* What comes back after a power failure is a directory there has been,    *)
(* but for the last change, and nobody is left who had anything in hand.   *)
LEMMA PowerFailureInv ==
    ASSUME FilesInv, TypeOK', PowerFailure
    PROVE  FilesInv'
<1>0. /\ PastInv /\ files' \in past /\ past' = {} /\ fresh' = fresh /\ latest' = latest
      /\ terminal' = terminal /\ undone' = undone \cup Lost(files')
      /\ files \in [Names -> Content] /\ DirectoryInv
  BY DEF FilesInv, PowerFailure, TypeOK
<1>1. \A p \in Procs : op'[p] = Idle /\ todo'[p] = {} /\ got'[p] = {} /\ held'[p] = {}
  BY DEF PowerFailure, Die
<1>2. \A i \in Ids : ~InHand(i)'
  BY <1>1, Contents DEF InHand, Idle, Op
<1>3. OwnName(files')
  BY <1>0 DEF PastInv
<1>4. DirectoryInv'
  <2> SUFFICES ASSUME NEW i \in Ids
               PROVE  /\ files'[path_for[i]].id = i \/ files'[legacy_path_for[i]].id = i =>
                            latest[i] # {}
                      /\ files'[path_for[i]] = Unreadable => Hopeless(i)'
                      /\ i \in fresh => latest[i] = {} /\ files'[path_for[i]] = Absent
    BY <1>0, <1>2, <1>3 DEF DirectoryInv, Holds
  <2>1. /\ files'[path_for[i]].id = i \/ files'[legacy_path_for[i]].id = i => latest[i] # {}
        /\ files'[path_for[i]] = Unreadable => Hopeless(i)
        /\ i \in fresh => files'[path_for[i]] = Absent
    BY <1>0 DEF PastInv
  <2>2. Hopeless(i) => Hopeless(i)'
    BY <1>0, <1>2 DEF Hopeless
  <2>3. i \in fresh => latest[i] = {}
    BY <1>0 DEF DirectoryInv
  <2> QED
    BY <2>1, <2>2, <2>3
<1>5. KeptUntilTerminal'
  <2> SUFFICES ASSUME NEW i \in Ids, i \notin terminal, i \notin undone \cup Lost(files'),
                      latest[i] # {}
               PROVE  \E n \in Names : files'[n].id = i
    BY <1>0 DEF KeptUntilTerminal, HasCopy, Holds
  <2>1. HasCopy(i)
    BY DEF FilesInv, KeptUntilTerminal
  <2>2. files'[path_for[i]].id = i \/ files'[legacy_path_for[i]].id = i
    BY <1>0, <2>1 DEF PastInv
  <2> QED
    BY <2>2, Paths
<1>6. \A p \in Procs : ListedInv(p)' /\ OperationInv(p)'
  BY <1>1 DEF ListedInv, OperationInv, Idle, Op
<1> QED
  BY <1>0, <1>4, <1>5, <1>6 DEF FilesInv, PastInv

LEMMA StutterInv ==
    ASSUME FilesInv, TypeOK', UNCHANGED vars
    PROVE  FilesInv'
BY DEF FilesInv, vars, dirVars, history, Lost, DirectoryInv, PastInv, KeptUntilTerminal, ListedInv, OperationInv,
   HasCopy, Holds, Hopeless, InHand, GoneForGood, OwnName

LEMMA StepInv == "read" \notin Faults /\ FilesInv /\ [Next]_vars => FilesInv'
<1> SUFFICES ASSUME "read" \notin Faults, FilesInv, [Next]_vars PROVE FilesInv'
  OBVIOUS
<1>1. TypeOK'
  BY TypeStep
<1>2. ASSUME NEW p \in Procs, Recording(p) PROVE FilesInv'
  BY <1>1, <1>2, StartRecordInv, PersistInv DEF Recording
<1>3. ASSUME NEW p \in Procs, Discarding(p) PROVE FilesInv'
  BY <1>1, <1>3, StartDiscardInv, DropStandardInv, ReadLegacyInv, DropLegacyInv DEF Discarding
<1>4. ASSUME NEW p \in Procs, Flushing(p) PROVE FilesInv'
  BY <1>1, <1>4, StartLoadInv, ReadInv, QuarantineInv, MigrateInv, CompareInv, DedupeInv,
     MoveInv, EndLoadInv DEF Flushing
<1> QED
  BY <1>1, <1>2, <1>3, <1>4, CrashInv, ConcludeInv, PowerFailureInv, StutterInv DEF Next

-----------------------------------------------------------------------------
(* While no rename has failed, a load finds the last write.                *)

Migrated(i) ==
    /\ Writable(i) /\ Holds(legacy_path_for[i], i) => Holds(path_for[i], i)
    /\ \A p \in Procs :
          op[p].do = "move" /\ op[p].entry.id = i /\ Holds(op[p].name, i)
             => files[path_for[i]] = Absent

(* What the power may bring back is the last write as well, but for the    *)
(* record just renamed; and it fails once.                                 *)
PastLast ==
    "rename" \notin failed =>
        \A dir \in past : \A i \in Ids \ (terminal \cup Lost(dir)) :
            StoredIn(dir, i) = latest[i]

Powered ==
    /\ past # {} => "power" \notin failed
    /\ "power" \notin failed => undone = {}

LastInv == MigrationInv /\ LastWriteWins /\ PastLast /\ Powered

Kept(i) == Migrated(i) /\ (i \notin undone => Stored(i) = latest[i])

(* A step that takes no copy that counts, and lets nobody write or move    *)
(* who could not before.                                                   *)
LEMMA Undisturbed ==
    ASSUME FilesInv, FilesInv', NEW i \in Ids, Kept(i),
           latest'[i] = latest[i], i \in undone => i \in undone',
           \/ files'[path_for[i]] = files[path_for[i]]
           \/ files'[path_for[i]] = Absent /\ files[path_for[i]].id # i,
           \/ files'[legacy_path_for[i]] = files[legacy_path_for[i]]
           \/ /\ files'[legacy_path_for[i]] = Absent
              /\ files[legacy_path_for[i]].id # i \/ files[path_for[i]].id = i,
           Writable(i)' => \/ Writable(i)
                           \/ files[path_for[i]].id = i
                           \/ files[legacy_path_for[i]].id # i,
           \A p \in Procs : op'[p].do = "move" /\ op'[p].entry.id = i =>
               op'[p] = op[p] \/ files[path_for[i]] = Absent
    PROVE  Kept(i)'
<1> DEFINE s == path_for[i]
           l == legacy_path_for[i]
<1>1. files'[s].id = i => files'[s] = files[s]
  BY Contents
<1>2. files'[l].id = i => files'[l] = files[l]
  BY Contents
<1>3. files[s].id = i => files'[s] = files[s]
  OBVIOUS
<1>4. files[s] = Absent => files'[s] = Absent
  OBVIOUS
<1>5. (i \notin undone => Stored(i) = latest[i])'
  BY <1>1, <1>2, <1>3 DEF Kept, Stored, StoredIn
<1>6. (Writable(i) /\ Holds(l, i) => Holds(s, i))'
  BY <1>2, <1>3 DEF Kept, Migrated, Holds
<1>7. ASSUME NEW p \in Procs, op'[p].do = "move", op'[p].entry.id = i, Holds(op[p].name, i)'
      PROVE  files'[s] = Absent
  <2>1. op'[p].name = l
    BY <1>7 DEF FilesInv, OperationInv
  <2>2. CASE op'[p] = op[p]
    BY <1>2, <1>4, <1>7, <2>1, <2>2 DEF Kept, Migrated, Holds
  <2>3. CASE files[s] = Absent
    BY <1>4, <2>3
  <2> QED
    BY <1>7, <2>2, <2>3
<1> QED
  BY <1>5, <1>6, <1>7 DEF Kept, Migrated

MayOverwrite(i) ==
    Writable(i) \/ files[path_for[i]].id = i \/ files[legacy_path_for[i]].id # i

LEMMA ProcessKeeps ==
    ASSUME FilesInv, FilesInv', NEW p \in Procs, NEW i \in Ids, Kept(i),
           \A q \in Procs : q # p =>
               held'[q] = held[q] /\ got'[q] = got[q] /\ op'[q] = op[q],
           latest'[i] = latest[i], i \in undone => i \in undone',
           \/ files'[path_for[i]] = files[path_for[i]]
           \/ files'[path_for[i]] = Absent /\ files[path_for[i]].id # i,
           \/ files'[legacy_path_for[i]] = files[legacy_path_for[i]]
           \/ /\ files'[legacy_path_for[i]] = Absent
              /\ files[legacy_path_for[i]].id # i \/ files[path_for[i]].id = i,
           (\E r \in held'[p] : r.id = i) => MayOverwrite(i),
           (\E f \in got'[p] : f.record.id = i) => MayOverwrite(i),
           op'[p].do = "persist" /\ op'[p].entry.id = i => MayOverwrite(i),
           op'[p].do = "move" /\ op'[p].entry.id = i => files[path_for[i]] = Absent
    PROVE  Kept(i)'
<1>1. Writable(i)' => MayOverwrite(i)
  BY DEF Writable, MayOverwrite
<1>2. \A q \in Procs : op'[q].do = "move" /\ op'[q].entry.id = i =>
          op'[q] = op[q] \/ files[path_for[i]] = Absent
  OBVIOUS
<1> QED
  BY <1>1, <1>2, Undisturbed DEF MayOverwrite

LEMMA RecordingKeeps ==
    ASSUME FilesInv, FilesInv', NEW p \in Procs, Recording(p), NEW i \in Ids, Kept(i)
    PROVE  Kept(i)'
<1>0. TypeOK
  BY DEF FilesInv
<1>1. ASSUME NEW r \in Record, StartRecord(p, r) PROVE Kept(i)'
  <2>1. /\ \A s \in held'[p] : s \in held[p] \/ s = r
        /\ op' = op \/ op'[p] = WrittenAndSynced(r)
        /\ got' = got
        /\ \A q \in Procs : q # p => held'[q] = held[q] /\ op'[q] = op[q]
    BY <1>0, <1>1 DEF StartRecord, Goto, Without, TypeOK
  <2>2. r.id = i => MayOverwrite(i)
    <3>1. ASSUME r.id = i, r.id \in fresh PROVE MayOverwrite(i)
      BY <3>1 DEF FilesInv, DirectoryInv, Holds, MayOverwrite
    <3> QED
      BY <1>1, <3>1 DEF StartRecord, MayWrite, Writable, MayOverwrite, Record
  <2>3. (\E s \in held'[p] : s.id = i) => MayOverwrite(i)
    BY <2>1, <2>2 DEF Writable, MayOverwrite
  <2>4. op'[p].do = "persist" /\ op'[p].entry.id = i => MayOverwrite(i)
    BY <2>1, <2>2 DEF Writable, MayOverwrite, WrittenAndSynced
  <2>5. op'[p].do # "move"
    BY <1>1, <2>1 DEF StartRecord, At, WrittenAndSynced
  <2> QED
    BY <1>1, <2>1, <2>3, <2>4, <2>5, ProcessKeeps DEF StartRecord, dirVars, history, Writable, MayOverwrite
<1>2. ASSUME Persist(p) PROVE Kept(i)'
  <2> DEFINE r == op[p].entry
  <2>0. r \in Record /\ r.id \in Ids /\ op[p].name = path_for[r.id] /\ op[p].do = "persist"
    BY <1>2, Contents DEF FilesInv, Persist, At, OperationInv
  <2>1. /\ op'[p] = Idle /\ got' = got /\ held' = held
        /\ \A q \in Procs : q # p => op'[q] = op[q]
    BY <1>0, <1>2 DEF Persist, Goto, TypeOK
  <2>2. CASE Fails("write") /\ UNCHANGED <<latest, undone>>
    BY <2>1, <2>2, ProcessKeeps DEF Fails, Idle, Op, Writable, MayOverwrite
  <2>3. CASE ~(Fails("write") /\ UNCHANGED <<latest, undone>>)
    <3>1. /\ files' = [files EXCEPT ![path_for[r.id]] = r]
          /\ latest' = [latest EXCEPT ![r.id] = {r.mode}]
          /\ undone' = undone \ {r.id}
      BY <1>2, <2>0, <2>3 DEF Persist, Change
    <3>2. \A n \in Names : files'[n] = IF n = path_for[r.id] THEN r ELSE files[n]
      BY <1>0, <2>0, <3>1 DEF TypeOK
    <3>3. CASE r.id = i
      <4>1. files'[path_for[i]] = r /\ latest'[i] = {r.mode}
        BY <1>0, <2>0, <3>1, <3>2, <3>3, Paths DEF TypeOK
      <4>2. (Stored(i) = latest[i])'
        BY <3>3, <4>1 DEF Stored, StoredIn
      <4>3. files'[legacy_path_for[i]] = files[legacy_path_for[i]]
        BY <3>2, <3>3, Paths
      <4>4. Writable(i)
        BY <2>0, <3>3 DEF Writable
      <4>5. ASSUME NEW q \in Procs, op'[q].do = "move", op'[q].entry.id = i, Holds(op[q].name, i)'
            PROVE  FALSE
        <5>1. op'[q] = op[q] /\ op[q].name = legacy_path_for[i]
          BY <2>1, <4>5 DEF Idle, Op, FilesInv, OperationInv
        <5> QED
          BY <4>3, <4>4, <4>5, <5>1, Contents DEF Kept, Migrated, Holds
      <4> QED
        BY <3>3, <4>1, <4>2, <4>5 DEF Kept, Migrated, Holds
    <3>4. CASE r.id # i
      <4>1. /\ files'[path_for[i]] = files[path_for[i]]
            /\ files'[legacy_path_for[i]] = files[legacy_path_for[i]]
            /\ latest'[i] = latest[i] /\ (i \in undone => i \in undone')
        BY <1>0, <2>0, <3>1, <3>2, <3>4, Paths DEF TypeOK
      <4> QED
        BY <2>1, <4>1, ProcessKeeps DEF Idle, Op, Writable, MayOverwrite
    <3> QED
      BY <3>3, <3>4
  <2> QED
    BY <2>2, <2>3
<1> QED
  BY <1>1, <1>2 DEF Recording

LEMMA DiscardingKeeps ==
    ASSUME FilesInv, FilesInv', NEW p \in Procs, Discarding(p),
           NEW i \in Ids, i \notin terminal', Kept(i)
    PROVE  Kept(i)'
<1>0. TypeOK
  BY DEF FilesInv
<1>1. ASSUME NEW r \in Record, StartDiscard(p, r) PROVE Kept(i)'
  <2>1. /\ held'[p] \subseteq held[p] /\ got' = got
        /\ op'[p].do = "drop_standard"
        /\ \A q \in Procs : q # p => held'[q] = held[q] /\ op'[q] = op[q]
    BY <1>0, <1>1 DEF StartDiscard, Goto, Without, TypeOK, Op
  <2> QED
    BY <1>1, <2>1, ProcessKeeps DEF StartDiscard, dirVars, history, Writable, MayOverwrite
<1>2. ASSUME DropStandard(p) PROVE Kept(i)'
  <2>0. op[p].entry.id \in Ids /\ op[p].entry.id \in terminal /\ terminal' = terminal
    BY <1>2, Contents DEF FilesInv, DropStandard, At, OperationInv, history
  <2>1. /\ op'[p].do \in {"idle", "read_legacy"}
        /\ got' = got /\ held' = held /\ latest' = latest /\ undone' = undone
        /\ \A q \in Procs : q # p => op'[q] = op[q]
    BY <1>0, <1>2 DEF DropStandard, Goto, Then, TypeOK, Operation, Idle, Op, history
  <2>2. /\ files'[path_for[i]] = files[path_for[i]]
        /\ files'[legacy_path_for[i]] = files[legacy_path_for[i]]
    <3>1. CASE remove_if_exists(path_for[op[p].entry.id])
      BY <1>0, <2>0, <3>1, Paths DEF remove_if_exists, Change, TypeOK
    <3>2. CASE Fails("remove")
      BY <3>2 DEF Fails
    <3> QED
      BY <1>2, <3>1, <3>2 DEF DropStandard
  <2> QED
    BY <2>1, <2>2, ProcessKeeps DEF Writable, MayOverwrite
<1>3. ASSUME ReadLegacy(p) PROVE Kept(i)'
  <2>1. /\ op'[p].do \in {"idle", "drop_legacy"}
        /\ got' = got /\ held' = held
        /\ \A q \in Procs : q # p => op'[q] = op[q]
    BY <1>0, <1>3 DEF ReadLegacy, Goto, Then, TypeOK, Operation, Idle, Op
  <2> QED
    BY <1>3, <2>1, ProcessKeeps DEF ReadLegacy, dirVars, history, Writable, MayOverwrite
<1>4. ASSUME DropLegacy(p) PROVE Kept(i)'
  <2>0. /\ op[p].entry.id \in Ids /\ op[p].entry.id \in terminal /\ terminal' = terminal
        /\ op[p].name = legacy_path_for[op[p].entry.id]
        /\ files[op[p].name] = Absent \/ files[op[p].name].id = op[p].entry.id
    BY <1>4, Contents DEF FilesInv, DropLegacy, At, OperationInv, history
  <2>1. /\ op'[p].do = "idle"
        /\ got' = got /\ held' = held /\ latest' = latest /\ undone' = undone
        /\ \A q \in Procs : q # p => op'[q] = op[q]
    BY <1>0, <1>4 DEF DropLegacy, Goto, TypeOK, Idle, Op, history
  <2>2. /\ files'[path_for[i]] = files[path_for[i]]
        /\ \/ files'[legacy_path_for[i]] = files[legacy_path_for[i]]
           \/ files'[legacy_path_for[i]] = Absent /\ files[legacy_path_for[i]].id # i
    <3>1. CASE remove_if_exists(op[p].name)
      BY <1>0, <2>0, <3>1, Paths, Contents DEF remove_if_exists, Change, TypeOK
    <3>2. CASE Fails("remove")
      BY <3>2 DEF Fails
    <3> QED
      BY <1>4, <3>1, <3>2 DEF DropLegacy
  <2> QED
    BY <2>1, <2>2, ProcessKeeps DEF Writable, MayOverwrite
<1> QED
  BY <1>1, <1>2, <1>3, <1>4 DEF Discarding

LEMMA ScanningKeeps ==
    ASSUME FilesInv, FilesInv', "read" \notin Faults, "rename" \notin failed',
           NEW p \in Procs,
           StartLoad(p) \/ Read(p) \/ Quarantine(p) \/ EndLoad(p) \/ Crash(p),
           NEW i \in Ids, i \notin terminal', Kept(i)
    PROVE  Kept(i)'
<1>0. TypeOK
  BY DEF FilesInv
<1>1. ASSUME StartLoad(p) PROVE Kept(i)'
  <2>1. /\ op'[p].do = "load" /\ got' = got
        /\ \A q \in Procs : q # p => op'[q] = op[q]
    BY <1>0, <1>1 DEF StartLoad, Goto, TypeOK, Loading, Op
  <2> QED
    BY <1>1, <2>1, ProcessKeeps DEF StartLoad, dirVars, history, Writable, MayOverwrite
<1>2. ASSUME Read(p) PROVE Kept(i)'
  <2>1. PICK n \in todo[p], c \in Content :
          /\ ReadAs(n, c)
          /\ \/ c \notin Record /\ Goto(p, Op("quarantine", Absent, n)) /\ got' = got
             \/ c \in Record /\ path_for[c.id] = n /\ Goto(p, Loading) /\ Push(p, c, n)
             \/ c \in Record /\ path_for[c.id] # n /\ Goto(p, Op("migrate", c, n)) /\ got' = got
    BY <1>2 DEF Read
  <2>2. n \in Names /\ c = files[n]
    BY <1>0, <2>1 DEF TypeOK, ReadAs
  <2>3. /\ op'[p].do \in {"quarantine", "load", "migrate"} /\ held' = held
        /\ \A q \in Procs : q # p => op'[q] = op[q] /\ got'[q] = got[q]
    BY <1>0, <1>2, <2>1, Pushes DEF Read, Goto, TypeOK, Loading, Op
  <2>4. \A f \in got'[p] : f \in got[p] \/ (f.record = c /\ files[path_for[c.id]] = c)
    BY <1>0, <2>1, <2>2, Pushes
  <2>5. (\E f \in got'[p] : f.record.id = i) => MayOverwrite(i)
    BY <2>4 DEF Writable, MayOverwrite
  <2> QED
    BY <1>2, <2>3, <2>5, ProcessKeeps DEF Read, dirVars, history, Writable, MayOverwrite
<1>3. ASSUME Quarantine(p) PROVE Kept(i)'
  <2> DEFINE n == op[p].name
  <2>0. /\ n \in Names /\ terminal' = terminal /\ latest' = latest /\ undone' = undone
        /\ files[n] \in Record => n = path_for[files[n].id]
        /\ n = path_for[i] => Hopeless(i)
    BY <1>3 DEF FilesInv, Quarantine, At, OperationInv, GoneForGood, history
  <2>1. /\ op'[p].do = "load" /\ got' = got /\ held' = held
        /\ \A q \in Procs : q # p => op'[q] = op[q]
    BY <1>0, <1>3 DEF Quarantine, Goto, TypeOK, Loading, Op
  <2>2. files' = [files EXCEPT ![n] = Absent]
    <3>1. remove_if_exists(n)
      BY <1>3 DEF Quarantine, Fails
    <3> QED
      BY <3>1 DEF remove_if_exists, Change
  <2>3. Hopeless(i) => files[path_for[i]].id # i
    BY DEF FilesInv, DirectoryInv, Hopeless, Holds
  <2>4. n = legacy_path_for[i] => files[n].id # i
    BY <1>0, <2>0, Paths, Contents DEF TypeOK
  <2>5. /\ \/ files'[path_for[i]] = files[path_for[i]]
           \/ files'[path_for[i]] = Absent /\ files[path_for[i]].id # i
        /\ \/ files'[legacy_path_for[i]] = files[legacy_path_for[i]]
           \/ files'[legacy_path_for[i]] = Absent /\ files[legacy_path_for[i]].id # i
    BY <1>0, <2>0, <2>2, <2>3, <2>4, Paths DEF TypeOK
  <2> QED
    BY <2>0, <2>1, <2>5, ProcessKeeps DEF Writable, MayOverwrite
<1>4. ASSUME EndLoad(p) PROVE Kept(i)'
  <2>1. /\ op'[p].do = "idle" /\ got'[p] = {}
        /\ \A r \in held'[p] : r \in held[p] \/ \E f \in got[p] : r = f.record
        /\ \A q \in Procs : q # p => op'[q] = op[q] /\ got'[q] = got[q] /\ held'[q] = held[q]
    BY <1>0, <1>4 DEF EndLoad, Goto, TypeOK, Idle, Op
  <2> QED
    BY <1>4, <2>1, ProcessKeeps DEF EndLoad, dirVars, history, Writable, MayOverwrite
<1>5. ASSUME Crash(p) PROVE Kept(i)'
  <2>1. /\ op'[p].do = "idle" /\ got'[p] = {} /\ held'[p] = {}
        /\ \A q \in Procs : q # p => op'[q] = op[q] /\ got'[q] = got[q] /\ held'[q] = held[q]
    BY <1>0, <1>5 DEF Crash, Die, TypeOK, Idle, Op
  <2> QED
    BY <1>5, <2>1, ProcessKeeps DEF Crash, dirVars, history
<1> QED
  BY <1>1, <1>2, <1>3, <1>4, <1>5

LEMMA MigratingKeeps ==
    ASSUME FilesInv, FilesInv', "read" \notin Faults, "rename" \notin failed',
           NEW p \in Procs, Migrate(p) \/ Compare(p) \/ Dedupe(p) \/ Move(p),
           NEW i \in Ids, i \notin terminal', Kept(i)
    PROVE  Kept(i)'
<1> DEFINE r == op[p].entry
           n == op[p].name
<1>0. /\ TypeOK /\ r \in Record /\ r.id \in Ids /\ terminal' = terminal /\ latest' = latest
      /\ undone' = undone /\ held' = held /\ n = legacy_path_for[r.id] /\ files[n] \in {Absent, r}
  BY Contents DEF FilesInv, Migrate, Compare, Dedupe, Move, At, OperationInv, history
<1>1. ASSUME Migrate(p) PROVE Kept(i)'
  <2>1. /\ op'[p].do \in {"compare", "move"} /\ op'[p].entry = r /\ got' = got
        /\ op'[p].do = "move" => files[path_for[r.id]] = Absent
        /\ \A q \in Procs : q # p => op'[q] = op[q]
    BY <1>0, <1>1 DEF Migrate, Then, TypeOK, Operation, exists
  <2> QED
    BY <1>0, <1>1, <2>1, ProcessKeeps DEF Migrate, dirVars, history, Writable, MayOverwrite
<1>2. ASSUME Compare(p) PROVE Kept(i)'
  <2>1. r.id = i => files[path_for[i]].id = i
    BY <1>0, <1>2 DEF FilesInv, Compare, At, OperationInv, Holds
  <2>2. \/ Then(p, "dedupe") /\ got' = got
        \/ Goto(p, Loading) /\ Push(p, r, n)
    BY <1>2 DEF Compare
  <2>3. /\ op'[p].do \in {"dedupe", "load"}
        /\ \A q \in Procs : q # p => op'[q] = op[q] /\ got'[q] = got[q]
        /\ \A f \in got'[p] : f \in got[p] \/ f.record = r
    BY <1>0, <2>2, Pushes DEF Goto, Then, TypeOK, Operation, Loading, Op
  <2>4. (\E f \in got'[p] : f.record.id = i) => MayOverwrite(i)
    BY <2>1, <2>3 DEF Writable, MayOverwrite
  <2> QED
    BY <1>0, <1>2, <2>3, <2>4, ProcessKeeps DEF Compare, dirVars, history, Writable, MayOverwrite
<1>3. ASSUME Dedupe(p) PROVE Kept(i)'
  <2>1. r.id = i => files[path_for[i]].id = i
    BY <1>0, <1>3 DEF FilesInv, Dedupe, At, OperationInv, Holds
  <2>2. /\ op'[p].do = "load"
        /\ \A q \in Procs : q # p => op'[q] = op[q] /\ got'[q] = got[q]
        /\ \A f \in got'[p] : f \in got[p] \/ f.record = r
    BY <1>0, <1>3, Pushes DEF Dedupe, Goto, TypeOK, Loading, Op
  <2>3. (\E f \in got'[p] : f.record.id = i) => MayOverwrite(i)
    BY <2>1, <2>2 DEF Writable, MayOverwrite
  <2>4. /\ files'[path_for[i]] = files[path_for[i]]
        /\ \/ files'[legacy_path_for[i]] = files[legacy_path_for[i]]
           \/ /\ files'[legacy_path_for[i]] = Absent
              /\ files[legacy_path_for[i]].id # i \/ files[path_for[i]].id = i
    <3>1. CASE remove_if_exists(n)
      <4>1. files' = [files EXCEPT ![n] = Absent]
        BY <3>1 DEF remove_if_exists, Change
      <4>2. n = legacy_path_for[i] => files[n].id # i \/ files[path_for[i]].id = i
        BY <1>0, <2>1, Contents
      <4> QED
        BY <1>0, <4>1, <4>2, Paths DEF TypeOK
    <3>2. CASE Fails("remove")
      BY <3>2 DEF Fails
    <3> QED
      BY <1>3, <3>1, <3>2 DEF Dedupe
  <2> QED
    BY <1>0, <2>2, <2>3, <2>4, ProcessKeeps DEF Writable, MayOverwrite
<1>4. ASSUME Move(p) PROVE Kept(i)'
  <2>1. /\ op'[p].do = "load"
        /\ \A q \in Procs : q # p => op'[q] = op[q] /\ got'[q] = got[q]
        /\ \A f \in got'[p] : f \in got[p] \/ f.record = r
    BY <1>0, <1>4, Pushes DEF Move, Goto, TypeOK, Loading, Op
  <2>2. CASE ~exists(n) /\ UNCHANGED dirVars
    <3>1. r.id = i => files[legacy_path_for[i]].id # i
      BY <1>0, <2>2, Contents DEF exists
    <3>2. (\E f \in got'[p] : f.record.id = i) => MayOverwrite(i)
      BY <2>1, <3>1 DEF Writable, MayOverwrite
    <3> QED
      BY <1>0, <2>1, <2>2, <3>2, ProcessKeeps DEF dirVars, Writable, MayOverwrite
  <2>3. CASE Rename(n, path_for[r.id])
    <3>1. files' = [files EXCEPT ![path_for[r.id]] = files[n], ![n] = Absent] /\ files[n] = r
      BY <1>0, <2>3 DEF Rename, Change
    <3>2. \A m \in Names : files'[m] = IF m = n THEN Absent
                                       ELSE IF m = path_for[r.id] THEN r
                                       ELSE files[m]
      BY <1>0, <3>1, Paths DEF TypeOK
    <3>3. CASE r.id # i
      <4>1. files'[path_for[i]] = files[path_for[i]]
        BY <1>0, <3>2, <3>3, Paths
      <4>2. \/ files'[legacy_path_for[i]] = files[legacy_path_for[i]]
            \/ files'[legacy_path_for[i]] = Absent /\ files[legacy_path_for[i]].id # i
        BY <1>0, <3>1, <3>2, <3>3, Paths
      <4>3. (\E f \in got'[p] : f.record.id = i) => MayOverwrite(i)
        BY <2>1, <3>3 DEF Writable, MayOverwrite
      <4> QED
        BY <1>0, <2>1, <4>1, <4>2, <4>3, ProcessKeeps DEF Writable, MayOverwrite
    <3>4. CASE r.id = i
      <4>1. files[path_for[i]] = Absent
        BY <1>4, <3>1, <3>4 DEF Kept, Migrated, Move, At, Holds
      <4>2. files'[path_for[i]] = r /\ files'[legacy_path_for[i]] = Absent
        BY <1>0, <3>2, <3>4, Paths
      <4>3. Stored(i) = {r.mode}
        BY <1>0, <3>1, <3>4, <4>1, Contents DEF Stored, StoredIn
      <4>4. (i \notin undone => Stored(i) = latest[i])'
        BY <1>0, <3>4, <4>2, <4>3 DEF Stored, StoredIn, Kept
      <4>5. ASSUME NEW q \in Procs, op'[q].do = "move", op'[q].entry.id = i, Holds(op[q].name, i)'
            PROVE  FALSE
        BY <4>2, <4>5, Contents DEF FilesInv, OperationInv, Holds
      <4> QED
        BY <3>4, <4>2, <4>4, <4>5 DEF Kept, Migrated, Holds
    <3> QED
      BY <3>3, <3>4
  <2> QED
    BY <1>4, <2>2, <2>3 DEF Move, Fails
<1> QED
  BY <1>1, <1>2, <1>3, <1>4

LEMMA PowerFailureKeeps ==
    ASSUME FilesInv', LastInv, PowerFailure, "rename" \notin failed, NEW i \in Ids \ terminal
    PROVE  Kept(i)'
<1>1. \A p \in Procs : op'[p] = Idle /\ got'[p] = {} /\ held'[p] = {}
  BY DEF PowerFailure, Die
<1>2. ~Writable(i)'
  BY <1>1 DEF Writable, Idle, Op
<1>3. (i \notin undone => Stored(i) = latest[i])'
  BY DEF PowerFailure, LastInv, PastLast, Stored
<1> QED
  BY <1>1, <1>2, <1>3 DEF Kept, Migrated, Idle, Op

LEMMA KeptIsLast ==
    MigrationInv /\ LastWriteWins
       <=> ("rename" \notin failed => \A i \in Ids \ terminal : Kept(i))
BY DEF MigrationInv, LastWriteWins, Kept, Migrated

(* What every step but a power failure does to the directory.              *)
Grows ==
    /\ past' \subseteq {files, files'} \/ (files' = files /\ past' = past)
    /\ past' # {} => "power" \notin failed \/ past # {}
    /\ "power" \in failed' => "power" \in failed
    /\ undone' \subseteq undone
    /\ \A i \in Ids : \/ latest'[i] = latest[i]
                      \/ /\ files'[path_for[i]].id = i
                         /\ \A n \in Names \ {path_for[i]} : files'[n] = files[n]

LEMMA StepGrows ==
    ASSUME FilesInv, TypeOK', [Next]_vars, ~PowerFailure
    PROVE  Grows
<1>0. TypeOK
  BY DEF FilesInv
<1>1. ASSUME NEW p \in Procs, Persist(p) PROVE Grows
  <2>1. PICK r \in Record : r = op[p].entry /\ r.id \in Ids /\ op[p].name = path_for[r.id]
                            /\ op[p].synced
    BY <1>1, Contents DEF FilesInv, Persist, At, OperationInv
  <2>2. CASE Fails("write") /\ UNCHANGED <<latest, undone>>
    BY <2>2 DEF Grows, Fails
  <2>3. CASE ~(Fails("write") /\ UNCHANGED <<latest, undone>>)
    <3>1. /\ files' = [files EXCEPT ![path_for[r.id]] = r]
          /\ latest' = [latest EXCEPT ![r.id] = {r.mode}]
          /\ undone' = undone \ {r.id} /\ failed' = failed
          /\ past' \subseteq {files, files'} /\ (past' # {} => "power" \notin failed)
      BY <1>1, <2>1, <2>3 DEF Persist, Change
    <3>2. files' = [n \in Names |-> IF n = path_for[r.id] THEN r ELSE files[n]]
      BY <1>0, <3>1 DEF TypeOK
    <3>3. \A i \in Ids : i # r.id => latest'[i] = latest[i]
      BY <1>0, <3>1 DEF TypeOK
    <3> QED
      BY <2>1, <3>1, <3>2, <3>3, Paths DEF Grows
  <2> QED
    BY <2>2, <2>3
<1>2. ASSUME UNCHANGED latest, UNCHANGED undone,
             \/ UNCHANGED dirVars
             \/ \E n \in Names : remove_if_exists(n)
             \/ \E from, to \in Names : Rename(from, to)
             \/ \E operation \in {"remove", "rename"} : Fails(operation)
      PROVE  Grows
  <2>1. CASE UNCHANGED dirVars
    BY <1>2, <2>1 DEF Grows, dirVars
  <2>2. CASE \E n \in Names : remove_if_exists(n)
    BY <1>2, <2>2 DEF Grows, remove_if_exists, Change
  <2>3. CASE \E from, to \in Names : Rename(from, to)
    BY <1>2, <2>3 DEF Grows, Rename, Change
  <2>4. CASE \E operation \in {"remove", "rename"} : Fails(operation)
    BY <1>2, <2>4 DEF Grows, Fails
  <2> QED
    BY <1>2, <2>1, <2>2, <2>3, <2>4
<1>3. ASSUME NEW p \in Procs, Discarding(p) PROVE Grows
  <2>1. CASE DropStandard(p)
    BY <1>2, <2>1, Carries, Paths DEF DropStandard, At, history
  <2>2. CASE DropLegacy(p)
    BY <1>2, <2>2, Carries DEF DropLegacy, At, history
  <2> QED
    BY <1>2, <1>3, <2>1, <2>2 DEF Discarding, StartDiscard, ReadLegacy, history
<1>4. ASSUME NEW p \in Procs, Flushing(p) PROVE Grows
  <2>1. CASE Quarantine(p) \/ Dedupe(p)
    BY <1>2, <2>1, Carries DEF Quarantine, Dedupe, At, history
  <2>2. CASE Move(p)
    BY <1>2, <2>2, Carries, Paths DEF Move, At, history
  <2> QED
    BY <1>2, <1>4, <2>1, <2>2
       DEF Flushing, StartLoad, Read, Migrate, Compare, EndLoad, history
<1>5. ASSUME NEW p \in Procs, Recording(p) PROVE Grows
  BY <1>1, <1>2, <1>5 DEF Recording, StartRecord, history
<1>6. CASE UNCHANGED vars
  BY <1>2, <1>6 DEF vars, history
<1>7. ASSUME NEW i \in Ids, Conclude(i) PROVE Grows
  BY <1>2, <1>7 DEF Conclude
<1>8. ASSUME NEW p \in Procs, Crash(p) PROVE Grows
  BY <1>2, <1>8 DEF Crash, history
<1> QED
  BY <1>3, <1>4, <1>5, <1>6, <1>7, <1>8 DEF Next

LEMMA FailuresStay == FilesInv /\ [Next]_vars => failed \subseteq failed'
<1> SUFFICES ASSUME [Next]_vars PROVE failed \subseteq failed'
  OBVIOUS
<1>1. ASSUME NEW p \in Procs, Recording(p) \/ Discarding(p) \/ Flushing(p) \/ Crash(p)
      PROVE  failed \subseteq failed'
  BY <1>1 DEF Recording, StartRecord, Persist, Discarding, StartDiscard, DropStandard,
     ReadLegacy, DropLegacy, Flushing, StartLoad, Read, Quarantine, Migrate, Compare, Dedupe,
     Move, EndLoad, Crash, dirVars, Change, Fails, remove_if_exists, Rename
<1> QED
  BY <1>1 DEF Next, Conclude, PowerFailure, dirVars, vars

LEMMA TerminalStays == [Next]_vars => terminal \subseteq terminal'
BY DEF Next, Recording, StartRecord, Persist, Discarding, StartDiscard, DropStandard,
   ReadLegacy, DropLegacy, Flushing, StartLoad, Read, Quarantine, Migrate, Compare, Dedupe,
   Move, EndLoad, Crash, Conclude, PowerFailure, vars, history

LEMMA StepKept ==
    ASSUME "read" \notin Faults, FilesInv, FilesInv', LastInv, [Next]_vars,
           "rename" \notin failed', NEW i \in Ids, i \notin terminal'
    PROVE  Kept(i) /\ Kept(i)'
<1>1. "rename" \notin failed /\ i \notin terminal
  BY TerminalStays, FailuresStay
<1>2. Kept(i)
  BY <1>1, KeptIsLast DEF LastInv
<1>3. ASSUME NEW j \in Ids, Conclude(j) PROVE Kept(i)'
  BY <1>2, <1>3 DEF Conclude, dirVars, Kept, Migrated, Writable, Holds, Stored, StoredIn
<1>4. CASE UNCHANGED vars
  BY <1>2, <1>4 DEF vars, dirVars, history, Kept, Migrated, Writable, Holds, Stored, StoredIn
<1>5. ASSUME NEW p \in Procs, Flushing(p) PROVE Kept(i)'
  BY <1>2, <1>5, ScanningKeeps, MigratingKeeps DEF Flushing
<1> QED
  BY <1>1, <1>2, <1>3, <1>4, <1>5, RecordingKeeps, DiscardingKeeps, ScanningKeeps,
     PowerFailureKeeps DEF Next

LEMMA StepPastLast ==
    ASSUME "read" \notin Faults, FilesInv, FilesInv', LastInv, [Next]_vars
    PROVE  PastLast' /\ Powered'
<1>1. CASE PowerFailure
  BY <1>1 DEF PowerFailure, PastLast, Powered
<1>2. CASE ~PowerFailure
  <2>1. Grows
    BY <1>2, StepGrows DEF FilesInv
  <2>2. Powered'
    BY <2>1, FailuresStay DEF Grows, Powered, LastInv
  <2> SUFFICES ASSUME "rename" \notin failed', NEW dir \in past',
                      NEW i \in Ids, i \notin terminal', i \notin Lost(dir)'
               PROVE  StoredIn(dir, i) = latest'[i]
    BY <2>2 DEF PastLast
  <2>3. i \notin undone /\ i \notin undone'
    BY <2>1, <2>2, FailuresStay DEF Grows, Powered, LastInv
  <2>4. Stored(i) = latest[i] /\ Stored(i)' = latest'[i]
    BY <2>3, StepKept DEF Kept
  <2>5. CASE files' = files /\ past' = past
    <3>1. i \notin terminal \cup Lost(dir) /\ "rename" \notin failed
      BY <2>5, TerminalStays, FailuresStay DEF Lost
    <3>2. StoredIn(dir, i) = latest[i]
      BY <2>5, <3>1 DEF LastInv, PastLast
    <3>3. Stored(i)' = Stored(i)
      BY <2>5 DEF Stored, StoredIn
    <3> QED
      BY <2>4, <3>2, <3>3
  <2>6. CASE dir = files'
    BY <2>4, <2>6 DEF Stored
  <2>7. CASE dir = files /\ files # files'
    <3>1. latest'[i] = latest[i]
      BY <2>1, <2>7 DEF Grows, Lost
    <3> QED
      BY <2>4, <2>7, <3>1 DEF Stored
  <2> QED
    BY <2>1, <2>5, <2>6, <2>7 DEF Grows
<1> QED
  BY <1>1, <1>2

LEMMA StepLast ==
    "read" \notin Faults /\ FilesInv /\ FilesInv' /\ LastInv /\ [Next]_vars => LastInv'
<1> SUFFICES ASSUME "read" \notin Faults, FilesInv, FilesInv', LastInv, [Next]_vars
             PROVE  LastInv'
  OBVIOUS
<1>1. "rename" \notin failed' => \A i \in Ids \ terminal' : Kept(i)'
  BY StepKept
<1>2. (MigrationInv /\ LastWriteWins)'
  BY <1>1 DEF MigrationInv, LastWriteWins, Kept, Migrated
<1> QED
  BY <1>2, StepPastLast DEF LastInv

-----------------------------------------------------------------------------
(* The directory implements the abstract store: every file operation is a  *)
(* change of the store or invisible.                                       *)

StoreVars == <<files, latest, terminal, undone, failed>>

StoreStep == Store!Next \/ UNCHANGED Store!vars

LEMMA StoreQuiet ==
    ASSUME UNCHANGED StoreVars
    PROVE  StoreStep
BY DEF StoreVars, StoreStep, Store!vars, Stored, StoredIn

LEMMA StoreFails ==
    ASSUME NEW operation \in {"write", "remove", "rename"}, Fails(operation),
           UNCHANGED history
    PROVE  StoreStep
<1>1. UNCHANGED <<files, latest, terminal, undone>>
  BY DEF Fails, history
<1>2. CASE operation = "write"
  BY <1>1, <1>2, StoreQuiet DEF Fails, StoreVars
<1>3. CASE operation # "write"
  <2>1. failed' = failed \cup {operation}
    BY <1>3 DEF Fails
  <2>2. Store!Fail
    BY <1>1, <1>3, <2>1 DEF Store!Fail, Stored, StoredIn
  <2> QED
    BY <2>2 DEF StoreStep, Store!Next
<1> QED
  BY <1>2, <1>3

LEMMA StoreSame ==
    ASSUME UNCHANGED <<latest, terminal, undone, failed>>, \A j \in Ids : Stored(j)' = Stored(j)
    PROVE  StoreStep
BY DEF StoreStep, Store!vars

(* What the directory says of a reservation has a mode.                    *)
LEMMA StoredSlot ==
    ASSUME TypeOK
    PROVE  /\ \A j \in Ids : Stored(j) \in Slot
           /\ Slot = Store!Slot
BY StoredType DEF TypeOK, Stored, Slot, Store!Slot

LEMMA StoreOne ==
    ASSUME NEW i \in Ids, \A j \in Ids \ {i} : Stored(j)' = Stored(j)
    PROVE  [j \in Ids |-> Stored(j)]' = [[j \in Ids |-> Stored(j)] EXCEPT ![i] = Stored(i)']
OBVIOUS

LEMMA StoreClean ==
    ASSUME TypeOK', UNCHANGED <<latest, terminal, undone, failed>>,
           NEW i \in terminal, i \in Ids, \A j \in Ids \ {i} : Stored(j)' = Stored(j)
    PROVE  StoreStep
<1>1. Stored(i)' \in Store!Slot
  BY StoredType DEF TypeOK, Stored, Slot, Store!Slot
<1>2. Store!Clean(i)
  BY <1>1, StoreOne DEF Store!Clean
<1> QED
  BY <1>2 DEF StoreStep, Store!Next

LEMMA StoreRegress ==
    ASSUME UNCHANGED <<latest, terminal, undone, failed>>,
           "rename" \in failed, NEW i \in Ids, Stored(i) # {},
           NEW m \in JournalMode, Stored(i)' = {m},
           \A j \in Ids \ {i} : Stored(j)' = Stored(j)
    PROVE  StoreStep
<1>1. Store!Regress(i)
  BY StoreOne DEF Store!Regress
<1> QED
  BY <1>1 DEF StoreStep, Store!Next

(* A removal changes what is stored of the record's owner only.            *)
LEMMA RemovalStored ==
    ASSUME TypeOK, NEW n \in Names, remove_if_exists(n)
    PROVE  /\ failed' = failed
           /\ \A j \in Ids : files[n].id # j => Stored(j)' = Stored(j)
           /\ \A j \in Ids : n # path_for[j] /\ files[path_for[j]].id = j =>
                  Stored(j)' = Stored(j)
<1>1. files' = [files EXCEPT ![n] = Absent] /\ failed' = failed
  BY DEF remove_if_exists, Change
<1>2. \A m \in Names : files'[m] = IF m = n THEN Absent ELSE files[m]
  BY <1>1 DEF TypeOK
<1>3. ASSUME NEW j \in Ids, files[n].id # j PROVE Stored(j)' = Stored(j)
  <2>1. path_for[j] \in Names /\ legacy_path_for[j] \in Names /\ Absent.id # j
    BY Paths, Contents
  <2>2. /\ files'[path_for[j]] = files[path_for[j]]
           \/ (files'[path_for[j]].id # j /\ files[path_for[j]].id # j)
        /\ files'[legacy_path_for[j]] = files[legacy_path_for[j]]
           \/ (files'[legacy_path_for[j]].id # j /\ files[legacy_path_for[j]].id # j)
    BY <1>2, <1>3, <2>1
  <2> QED
    BY <2>2 DEF Stored, StoredIn
<1>4. \A j \in Ids : n # path_for[j] /\ files[path_for[j]].id = j => Stored(j)' = Stored(j)
  BY <1>2, Paths DEF Stored, StoredIn
<1> QED
  BY <1>1, <1>3, <1>4

LEMMA StorePersist ==
    ASSUME FilesInv, TypeOK', NEW p \in Procs, Persist(p)
    PROVE  StoreStep
<1>a. PICK r \in Record : r = op[p].entry
  BY DEF FilesInv, Persist, At, OperationInv
<1>0. /\ TypeOK /\ r.id \in Ids /\ r.mode \in JournalMode
      /\ op[p].name = path_for[r.id] /\ op[p].synced
  BY <1>a, Contents DEF FilesInv, Persist, At, OperationInv
<1>1. CASE Fails("write") /\ UNCHANGED <<latest, undone>>
  BY <1>1, StoreFails DEF Persist, history
<1>2. CASE ~(Fails("write") /\ UNCHANGED <<latest, undone>>)
  <2>1. /\ files' = [files EXCEPT ![path_for[r.id]] = r]
        /\ failed' = failed /\ terminal' = terminal /\ undone' = undone \ {r.id}
        /\ latest' = [latest EXCEPT ![r.id] = {r.mode}]
    BY <1>a, <1>0, <1>2 DEF Persist, Change
  <2>2. \A n \in Names : files'[n] = IF n = path_for[r.id] THEN r ELSE files[n]
    BY <1>0, <2>1 DEF TypeOK
  <2>3. Stored(r.id)' = {r.mode}
    BY <1>0, <2>2, Paths DEF Stored, StoredIn
  <2>4. \A j \in Ids \ {r.id} : Stored(j)' = Stored(j)
    BY <1>0, <2>2, Paths DEF Stored, StoredIn
  <2>5. [j \in Ids |-> Stored(j)]' = [[j \in Ids |-> Stored(j)] EXCEPT ![r.id] = {r.mode}]
    BY <1>0, <2>3, <2>4, StoreOne
  <2>6. Store!Put(r.id, r.mode)
    BY <2>1, <2>5 DEF Store!Put
  <2> QED
    BY <1>0, <2>6 DEF StoreStep, Store!Next
<1> QED
  BY <1>1, <1>2

LEMMA StoreDiscarding ==
    ASSUME FilesInv, TypeOK', NEW p \in Procs, DropStandard(p) \/ DropLegacy(p)
    PROVE  StoreStep
<1> DEFINE i == op[p].entry.id
<1>0. /\ TypeOK /\ i \in Ids /\ i \in terminal /\ op[p].name = legacy_path_for[i]
      /\ UNCHANGED <<latest, terminal, undone>>
  BY Contents DEF FilesInv, DropStandard, DropLegacy, At, OperationInv, history
<1>1. CASE Fails("remove")
  BY <1>0, <1>1, StoreFails DEF history
<1>2. CASE remove_if_exists(path_for[i])
  <2>1. \A j \in Ids \ {i} : files[path_for[i]].id # j
    <3>1. files[path_for[i]] \in Content /\ path_for[i] \in Names
      BY <1>0, Paths DEF TypeOK
    <3>2. ASSUME NEW j \in Ids, files[path_for[i]].id = j PROVE j = i
      <4>1. path_for[i] \in {path_for[j], legacy_path_for[j]}
        BY <3>1, <3>2, ReadEntitles, Contents
      <4> QED
        BY <1>0, <4>1, Paths
    <3> QED
      BY <3>2
  <2> QED
    BY <1>0, <1>2, <2>1, RemovalStored, StoreClean, Paths
<1>3. CASE DropLegacy(p) /\ remove_if_exists(op[p].name)
  <2>1. \A j \in Ids \ {i} : files[op[p].name].id # j
    BY <1>0, <1>3, Contents DEF FilesInv, DropLegacy, At, OperationInv
  <2> QED
    BY <1>0, <1>3, <2>1, RemovalStored, StoreClean, Paths
<1> QED
  BY <1>1, <1>2, <1>3 DEF DropStandard, DropLegacy

LEMMA StoreQuarantine ==
    ASSUME FilesInv, TypeOK', NEW p \in Procs, Quarantine(p)
    PROVE  StoreStep
<1> DEFINE n == op[p].name
<1>0. /\ TypeOK /\ n \in Names /\ UNCHANGED <<latest, terminal, undone>>
      /\ files[n] \in Record => n = path_for[files[n].id]
      /\ \A j \in Ids : n = path_for[j] => GoneForGood(j)
  BY DEF FilesInv, Quarantine, At, OperationInv, history
<1>1. CASE Fails("rename")
  BY <1>0, <1>1, StoreFails DEF history
<1>2. CASE remove_if_exists(n) /\ files[n] \in Record
  <2> DEFINE j == files[n].id
  <2>1. j \in Ids /\ GoneForGood(j) /\ latest[j] # {}
    BY <1>0, <1>2, Contents DEF FilesInv, DirectoryInv, Holds
  <2>2. j \in terminal
    BY <2>1 DEF GoneForGood, Hopeless
  <2> QED
    BY <1>0, <1>2, <2>1, <2>2, RemovalStored, StoreClean
<1>3. CASE remove_if_exists(n) /\ files[n] \notin Record
  <2>1. \A j \in Ids : files[n].id # j
    BY <1>0, <1>3, Contents DEF TypeOK
  <2> QED
    BY <1>0, <1>3, <2>1, RemovalStored, StoreSame
<1> QED
  BY <1>1, <1>2, <1>3 DEF Quarantine

LEMMA StoreDedupe ==
    ASSUME FilesInv, TypeOK', NEW p \in Procs, Dedupe(p)
    PROVE  StoreStep
<1>a. PICK r \in Record, n \in Names : r = op[p].entry /\ n = op[p].name
  BY Carries DEF Dedupe, At
<1>b. PICK i \in Ids : i = r.id
  BY Contents
<1>0. /\ TypeOK /\ n = legacy_path_for[i]
      /\ files[n] \in {Absent, r}
      /\ i \in terminal \/ files[path_for[i]].id = i
      /\ UNCHANGED <<latest, terminal, undone>>
  BY <1>a, <1>b, Contents, Paths DEF FilesInv, Dedupe, At, OperationInv, Holds, history
<1>1. CASE Fails("remove")
  BY <1>0, <1>1, StoreFails DEF history
<1>2. CASE remove_if_exists(n)
  <2>1. \A j \in Ids \ {i} : files[n].id # j
    BY <1>0, <1>b, Contents
  <2>2. \A j \in Ids \ {i} : Stored(j)' = Stored(j)
    BY <1>0, <1>2, <2>1, RemovalStored
  <2>3. CASE i \in terminal
    BY <1>0, <1>2, <2>2, <2>3, RemovalStored, StoreClean
  <2>4. CASE files[path_for[i]].id = i
    <3>1. Stored(i)' = Stored(i)
      BY <1>0, <1>2, <2>4, RemovalStored, Paths
    <3> QED
      BY <1>0, <1>2, <2>2, <3>1, RemovalStored, StoreSame
  <2> QED
    BY <1>0, <2>3, <2>4
<1> QED
  BY <1>a, <1>1, <1>2 DEF Dedupe

LEMMA StoreMove ==
    ASSUME FilesInv, TypeOK', LastInv, NEW p \in Procs, Move(p)
    PROVE  StoreStep
<1>a. PICK r \in Record, n \in Names : r = op[p].entry /\ n = op[p].name
  BY Carries DEF Move, At
<1>b. PICK i \in Ids : i = r.id
  BY Contents
<1>0. /\ TypeOK /\ r.mode \in JournalMode
      /\ n = legacy_path_for[i] /\ files[n] \in {Absent, r}
      /\ UNCHANGED <<latest, terminal, undone>>
  BY <1>a, <1>b, Contents, Paths DEF FilesInv, Move, At, OperationInv, history
<1>1. CASE Fails("rename")
  BY <1>0, <1>1, StoreFails DEF history
<1>2. CASE UNCHANGED dirVars
  BY <1>0, <1>2, StoreQuiet DEF dirVars, history, StoreVars
<1>3. CASE Rename(n, path_for[i])
  <2>1. /\ files' = [files EXCEPT ![path_for[i]] = files[n], ![n] = Absent] /\ files[n] = r
        /\ failed' = failed
    BY <1>0, <1>3 DEF Rename, Change
  <2>2. \A m \in Names : files'[m] = IF m = n THEN Absent
                                     ELSE IF m = path_for[i] THEN r ELSE files[m]
    BY <1>0, <2>1, Paths DEF TypeOK
  <2>3. Stored(i)' = {r.mode}
    BY <1>0, <1>b, <2>2, Paths DEF Stored, StoredIn
  <2>4. ASSUME NEW j \in Ids \ {i} PROVE Stored(j)' = Stored(j)
    <3>1. files'[path_for[j]] = files[path_for[j]]
      BY <1>0, <2>2, Paths
    <3>2. \/ files'[legacy_path_for[j]] = files[legacy_path_for[j]]
          \/ files'[legacy_path_for[j]].id # j /\ files[legacy_path_for[j]].id # j
      <4>1. legacy_path_for[j] \in Names /\ legacy_path_for[j] # path_for[i] /\ Absent.id # j
        BY Paths, Contents
      <4>2. CASE legacy_path_for[j] = n
        BY <1>b, <2>1, <2>2, <4>1, <4>2
      <4>3. CASE legacy_path_for[j] # n
        BY <2>2, <4>1, <4>3
      <4> QED
        BY <4>2, <4>3
    <3> QED
      BY <3>1, <3>2 DEF Stored, StoredIn
  <2>5. CASE i \in terminal
    BY <1>0, <2>1, <2>4, <2>5, StoreClean
  <2>6. CASE i \notin terminal /\ "rename" \notin failed
    <3>1. files[path_for[i]] = Absent
      <4>1. op[p].do = "move" /\ op[p].entry.id = i /\ Holds(op[p].name, i)
        BY <1>a, <1>b, <1>3, <2>1 DEF Move, At, Holds
      <4> QED
        BY <1>0, <2>6, <4>1 DEF LastInv, MigrationInv
    <3>2. Stored(i) = {r.mode}
      BY <1>0, <1>b, <2>1, <3>1, Contents DEF Stored, StoredIn
    <3> QED
      BY <1>0, <2>1, <2>3, <2>4, <3>2, StoreSame
  <2>7. CASE "rename" \in failed
    <3>1. Stored(i) # {}
      BY <1>0, <1>b, <2>1 DEF Stored, StoredIn
    <3> QED
      BY <1>0, <2>1, <2>3, <2>4, <2>7, <3>1, StoreRegress
  <2> QED
    BY <2>5, <2>6, <2>7
<1> QED
  BY <1>a, <1>b, <1>1, <1>2, <1>3 DEF Move

LEMMA StorePower ==
    ASSUME FilesInv, TypeOK', LastInv, PowerFailure
    PROVE  StoreStep
<1>0. /\ "power" \notin failed /\ failed' = failed \cup {"power"} /\ files' \in past
      /\ undone' = undone \cup Lost(files') /\ UNCHANGED <<terminal, latest>>
      /\ PastInv /\ KeptUntilTerminal
      /\ files \in [Names -> Content] /\ files' \in [Names -> Content]
  BY DEF PowerFailure, FilesInv, TypeOK
<1>1. undone' \in {undone} \cup {undone \cup {i} : i \in Ids}
  <2>1. CASE Lost(files') = {}
    BY <1>0, <2>1
  <2>2. CASE Lost(files') # {}
    <3>1. PICK i \in Ids : i \in Lost(files')
      BY <2>2 DEF Lost
    <3>2. ASSUME NEW j \in Lost(files'), j # i PROVE FALSE
      <4>1. j \in Ids /\ path_for[j] # path_for[i] /\ files' # files
        BY <3>2, Paths DEF Lost
      <4>2. \A n \in Names : files'[n] = files[n]
        BY <3>1, <3>2, <4>1 DEF Lost
      <4> QED
        BY <1>0, <4>1, <4>2
    <3>3. Lost(files') = {i}
      BY <3>1, <3>2
    <3> QED
      BY <1>0, <3>3
  <2> QED
    BY <2>1, <2>2
<1>2. [i \in Ids |-> Stored(i)]' \in [Ids -> Store!Slot]
  BY <1>0, StoredType DEF Stored, Slot, Store!Slot
<1>3. ASSUME NEW i \in Ids, i \notin terminal \cup undone'
      PROVE  \/ Stored(i)' = Stored(i)
             \/ "rename" \in failed /\ Stored(i)' # {} /\ Stored(i) # {}
  <2>1. i \notin terminal \cup Lost(files') /\ i \notin undone
    BY <1>0, <1>3
  <2>2. CASE "rename" \notin failed
    BY <1>0, <2>1, <2>2 DEF LastInv, LastWriteWins, PastLast, Stored
  <2>3. CASE "rename" \in failed /\ HasCopy(i)
    <3>1. files[path_for[i]].id = i \/ files[legacy_path_for[i]].id = i
      BY <1>0, <2>3, CopyIsNamed DEF FilesInv, DirectoryInv
    <3>2. files'[path_for[i]].id = i \/ files'[legacy_path_for[i]].id = i
      BY <1>0, <2>1, <2>3 DEF PastInv
    <3> QED
      BY <2>3, <3>1, <3>2 DEF Stored, StoredIn
  <2>4. CASE ~HasCopy(i)
    <3>1. latest[i] = {}
      BY <2>1, <2>4, <1>0 DEF KeptUntilTerminal
    <3>2. files'[path_for[i]].id # i /\ files'[legacy_path_for[i]].id # i
      BY <1>0, <3>1 DEF PastInv
    <3> QED
      BY <2>4, <3>2, Paths DEF Stored, StoredIn, HasCopy, Holds
  <2> QED
    BY <2>2, <2>3, <2>4
<1>4. Store!LosePower
  BY <1>0, <1>1, <1>2, <1>3 DEF Store!LosePower
<1> QED
  BY <1>4 DEF StoreStep, Store!Next

LEMMA StoreInit == Init => Store!Init
<1> SUFFICES ASSUME Init PROVE Store!Init
  OBVIOUS
<1>1. TypeOK
  BY InitType
<1> QED
  BY <1>1, StoredSlot DEF Init, Store!Init, Stored, StoredIn

LEMMA StepStore ==
    FilesInv /\ FilesInv' /\ LastInv /\ [Next]_vars => [Store!Next]_(Store!vars)
<1> SUFFICES ASSUME FilesInv, TypeOK', LastInv, [Next]_vars PROVE StoreStep
  BY DEF StoreStep, FilesInv
<1>1. ASSUME NEW p \in Procs, Recording(p) PROVE StoreStep
  BY <1>1, StorePersist, StoreQuiet DEF Recording, StartRecord, StoreVars, dirVars, history
<1>2. ASSUME NEW p \in Procs, Discarding(p) PROVE StoreStep
  BY <1>2, StoreDiscarding, StoreQuiet
     DEF Discarding, StartDiscard, ReadLegacy, StoreVars, dirVars, history
<1>3. ASSUME NEW p \in Procs, Flushing(p) PROVE StoreStep
  BY <1>3, StoreQuarantine, StoreDedupe, StoreMove, StoreQuiet
     DEF Flushing, StartLoad, Read, Migrate, Compare, EndLoad, StoreVars, dirVars, history
<1>4. ASSUME NEW p \in Procs, Crash(p) PROVE StoreStep
  BY <1>4, StoreQuiet DEF Crash, StoreVars, dirVars, history
<1>5. ASSUME NEW i \in Ids, Conclude(i) PROVE StoreStep
  <2>1. Store!Conclude(i)
    BY <1>5 DEF Conclude, Store!Conclude, dirVars, Stored, StoredIn
  <2> QED
    BY <2>1 DEF StoreStep, Store!Next
<1>6. CASE UNCHANGED vars
  BY <1>6, StoreQuiet DEF vars, dirVars, history, StoreVars
<1> QED
  BY <1>1, <1>2, <1>3, <1>4, <1>5, <1>6, StorePower DEF Next

-----------------------------------------------------------------------------
(* The theorems.  Reads do not fail in any of them.                        *)

THEOREM FilesInvariant == "read" \notin Faults /\ Spec => []FilesInv
<1>1. CASE "read" \notin Faults
  <2>1. FilesInv /\ [Next]_vars => FilesInv'
    BY <1>1, StepInv
  <2> QED
    BY <2>1, InitInv, PTL DEF Spec
<1>2. CASE "read" \in Faults
  BY <1>2
<1> QED
  BY <1>1, <1>2

(* The variables keep their types.                                         *)
THEOREM TypeCorrect == "read" \notin Faults /\ Spec => []TypeOK
<1>1. FilesInv => TypeOK
  BY DEF FilesInv
<1> QED
  BY <1>1, FilesInvariant, PTL

(* No record leaves the directory before an attempt on it ends Terminal,   *)
(* whatever the processes do at the same time and wherever they stop; when *)
(* the power fails, none but the one whose publishing rename was the last  *)
(* change, which record() does not make durable (journal.rs: record,       *)
(* discard, load_pending, migrate_legacy_path).                            *)
THEOREM RecordsAreKept == "read" \notin Faults /\ Spec => []KeptUntilTerminal
<1>1. FilesInv => KeptUntilTerminal
  BY DEF FilesInv
<1> QED
  BY <1>1, FilesInvariant, PTL

(* Of a record that was published a power failure leaves the whole, an     *)
(* earlier copy or none at its standard name, but no file that does not    *)
(* parse (record: sync_all before persist).  The history says it was       *)
(* published also when the rename is lost, so this excludes a torn file    *)
(* whether or not an older copy exists.                                    *)
THEOREM NoTornRecord == "read" \notin Faults /\ Spec => []NeverTorn
<1>1. FilesInv => NeverTorn
  BY DEF FilesInv, DirectoryInv, Hopeless, NeverTorn
<1> QED
  BY <1>1, FilesInvariant, PTL

LEMMA InitLast == Init => LastInv
<1> SUFFICES ASSUME Init PROVE LastInv
  OBVIOUS
<1>1. ASSUME NEW i \in Ids PROVE Kept(i)
  BY DEF Init, Kept, Migrated, Writable, Idle, Op
<1>2. PastLast /\ Powered
  BY DEF Init, PastLast, Powered, Stored
<1> QED
  BY <1>1, <1>2, KeptIsLast DEF LastInv

THEOREM LastInvariant == "read" \notin Faults /\ Spec => [](FilesInv /\ LastInv)
<1>1. CASE "read" \notin Faults
  <2>1. FilesInv /\ FilesInv' /\ LastInv /\ [Next]_vars => LastInv'
    BY <1>1, StepLast
  <2> QED
    BY <2>1, InitLast, FilesInvariant, <1>1, PTL DEF Spec
<1>2. CASE "read" \in Faults
  BY <1>2
<1> QED
  BY <1>1, <1>2

(* Until a rename fails, no migration puts an older copy in the place of a *)
(* newer one (migrate_legacy_path: exists, then rename).                   *)
THEOREM LastWriteIsFound == "read" \notin Faults /\ Spec => []LastWriteWins
<1>1. LastInv => LastWriteWins
  BY DEF LastInv
<1> QED
  BY <1>1, LastInvariant, PTL

(* The directory implements one register per reservation.                  *)
THEOREM DirectoryImplementsStore == "read" \notin Faults /\ Spec => ImplementsStore
<1>1. FilesInv /\ FilesInv' /\ LastInv /\ [Next]_vars => [Store!Next]_(Store!vars)
  BY StepStore
<1> QED
  BY <1>1, StoreInit, LastInvariant, PTL DEF Spec, ImplementsStore, Store!Spec

-----------------------------------------------------------------------------
(* One task per spend.  A load looks at each name once, and what it has    *)
(* found of a spend keeps it from finding the other file: while the        *)
(* standard file has yet to be read, or has been, no legacy file of the    *)
(* same reservation is moved.                                              *)

Migrating == {"migrate", "compare", "move", "dedupe"}

OnceInv(p) ==
    /\ op[p].do \notin Migrating \cup {"load", "quarantine"} => got[p] = {}
    /\ op[p].do \in Migrating =>
          op[p].name \notin todo[p] /\ \A f \in got[p] : f.name # op[p].name
    /\ op[p].do = "move" /\ op[p].entry.id \notin terminal =>
          /\ path_for[op[p].entry.id] \notin todo[p]
          /\ \A f \in got[p] : f.record.id # op[p].entry.id
    /\ \A f \in got[p] :
          /\ f.name \notin todo[p]
          /\ f.record.id \notin terminal =>
                /\ path_for[f.record.id] \notin todo[p]
                /\ \/ f.name = legacy_path_for[f.record.id]
                   \/ Holds(path_for[f.record.id], f.record.id)
    /\ \A f, g \in got[p] :
          f.record.id = g.record.id /\ f.record.id \notin terminal => f = g

FlushInv == "remove" \notin failed => \A p \in Procs : OnceInv(p)

(* Nobody takes away the standard file of a spend somebody has in hand.    *)
LEMMA StandardStays ==
    ASSUME FilesInv, NEW p \in Procs, Recording(p) \/ Discarding(p) \/ Flushing(p),
           NEW i \in Ids \ terminal, InHand(i), Holds(path_for[i], i)
    PROVE  Holds(path_for[i], i)'
<1>0. TypeOK /\ OperationInv(p) /\ files \in [Names -> Content] /\ path_for[i] \in Names
      BY Paths DEF FilesInv, TypeOK
<1>1. ASSUME NEW n \in Names, remove_if_exists(n), n # path_for[i]
      PROVE  Holds(path_for[i], i)'
      BY <1>0, <1>1 DEF remove_if_exists, Change, Holds
<1>2. ASSUME files' = files PROVE Holds(path_for[i], i)'
      BY <1>2 DEF Holds
<1>3. CASE Persist(p)
  <2>1. op[p].entry \in Record /\ op[p].name = path_for[op[p].entry.id]
        BY <1>0, <1>3 DEF Persist, At, OperationInv
  <2>2. op[p].entry.id \in Ids
        BY <2>1, Contents
  <2>3. CASE Fails("write")
        BY <1>2, <2>3 DEF Fails
  <2>4. CASE files' = [files EXCEPT ![op[p].name] = op[p].entry]
        BY <1>0, <2>1, <2>2, <2>4, Paths DEF Holds
  <2> QED BY <1>3, <2>3, <2>4 DEF Persist, Change
<1>4. CASE DropStandard(p)
  <2>1. op[p].entry.id \in terminal /\ op[p].entry.id \in Ids
        BY <1>0, <1>4, Contents DEF DropStandard, At, OperationInv
  <2>2. path_for[op[p].entry.id] # path_for[i] /\ path_for[op[p].entry.id] \in Names
        BY <2>1, Paths
  <2> QED BY <1>1, <1>2, <1>4, <2>2 DEF DropStandard, Fails
<1>5. CASE DropLegacy(p) \/ Dedupe(p)
  <2>1. op[p].entry.id \in Ids /\ op[p].name = legacy_path_for[op[p].entry.id]
        BY <1>0, <1>5, Contents DEF DropLegacy, Dedupe, At, OperationInv
  <2>2. op[p].name # path_for[i] /\ op[p].name \in Names
        BY <2>1, Paths
  <2> QED BY <1>1, <1>2, <1>5, <2>2 DEF DropLegacy, Dedupe, Fails
<1>6. CASE Quarantine(p)
  <2>1. op[p].name \in Names /\ (op[p].name = path_for[i] => GoneForGood(i))
        BY <1>0, <1>6 DEF Quarantine, At, OperationInv
  <2>2. op[p].name # path_for[i]
        BY <2>1 DEF GoneForGood, Hopeless
  <2> QED BY <1>1, <1>2, <1>6, <2>1, <2>2 DEF Quarantine, Fails
<1>7. CASE Move(p)
  <2> DEFINE r == op[p].entry
             s == path_for[op[p].entry.id]
             l == op[p].name
  <2>1. r \in Record /\ l = legacy_path_for[r.id] /\ files[l] \in {Absent, r}
        BY <1>0, <1>7 DEF Move, At, OperationInv
  <2>2. r.id \in Ids /\ s \in Names /\ l \in Names /\ l # path_for[i] /\ l # s
        /\ (s = path_for[i] => r.id = i)
        BY <2>1, Paths, Contents
  <2>3. CASE Rename(l, s)
    <3>1. files' = [files EXCEPT ![s] = files[l], ![l] = Absent] /\ files[l] = r
          BY <2>1, <2>3 DEF Rename, Change
    <3> HIDE DEF r, s, l
    <3> QED BY <1>0, <2>2, <3>1 DEF Holds
  <2> QED BY <1>2, <1>7, <2>3 DEF Move, Fails, dirVars
<1> QED
    BY <1>2, <1>3, <1>4, <1>5, <1>6, <1>7
       DEF Recording, Discarding, Flushing, StartRecord, StartDiscard, ReadLegacy,
           StartLoad, Read, Migrate, Compare, EndLoad, dirVars

(* A process that does not move, whatever the others do.                   *)
LEMMA BystanderOnce ==
    ASSUME TypeOK, NEW q \in Procs, OnceInv(q),
           op'[q] = op[q], todo'[q] = todo[q], got'[q] = got[q], terminal \subseteq terminal',
           \A i \in Ids \ terminal :
               InHand(i) /\ Holds(path_for[i], i) => Holds(path_for[i], i)'
    PROVE  OnceInv(q)'
<1>1. ASSUME NEW f \in got[q], f.record.id \notin terminal,
             Holds(path_for[f.record.id], f.record.id)
      PROVE  Holds(path_for[f.record.id], f.record.id)'
  <2>1. f.record.id \in Ids /\ InHand(f.record.id)
        BY DEF TypeOK, Finding, Record, InHand
  <2> QED BY <1>1, <2>1
<1> QED BY <1>1 DEF OnceInv

(* Outside a load nothing has been found.                                  *)
LEMMA OutsideOnce ==
    ASSUME NEW p \in Procs, got'[p] = {}, op'[p].do \notin Migrating
    PROVE  OnceInv(p)'
BY DEF OnceInv, Migrating

LEMMA ReadOnce ==
    ASSUME FilesInv, "read" \notin Faults, NEW p \in Procs, OnceInv(p), Read(p)
    PROVE  OnceInv(p)'
<1>0. TypeOK
      BY DEF FilesInv
<1>1. PICK n \in todo[p], c \in Content :
          /\ c = files[n]
          /\ todo' = [todo EXCEPT ![p] = @ \ {n}]
          /\ \/ c \notin Record /\ Goto(p, Op("quarantine", Absent, n)) /\ got' = got
             \/ c \in Record /\ path_for[c.id] = n /\ Goto(p, Loading) /\ Push(p, c, n)
             \/ c \in Record /\ path_for[c.id] # n /\ Goto(p, Op("migrate", c, n)) /\ got' = got
      BY DEF Read, ReadAs
<1>2. todo'[p] = todo[p] \ {n} /\ terminal' = terminal /\ files' = files /\ n \in Names
      BY <1>0, <1>1 DEF Read, dirVars, history, TypeOK
<1>3. CASE /\ got' = got
           /\ Goto(p, Op("quarantine", Absent, n)) \/ Goto(p, Op("migrate", c, n))
  <2>1. op'[p].do \in {"quarantine", "migrate"} /\ op'[p].name = n
        BY <1>0, <1>3 DEF Goto, TypeOK, Op
  <2>2. \A f \in got[p] : f.name # n
        BY <1>1 DEF OnceInv
  <2> QED BY <1>2, <1>3, <2>1, <2>2 DEF OnceInv, Migrating, Holds
<1>4. CASE c \in Record /\ path_for[c.id] = n /\ Goto(p, Loading) /\ Push(p, c, n)
  <2>1. op'[p].do = "load"
        BY <1>0, <1>4 DEF Goto, TypeOK, Loading, Op
  <2>2. \A f \in got'[p] : f \in got[p] \/ f = [record |-> c, name |-> n]
        BY <1>0, <1>4 DEF Push, TypeOK
  <2>3. \A f \in got[p] : f.record.id = c.id => c.id \in terminal
        BY <1>1, <1>4 DEF OnceInv
  <2>4. Holds(path_for[c.id], c.id)
        BY <1>1, <1>4 DEF Holds
  <2>5. \A f \in got'[p] :
           /\ f.name \notin todo'[p]
           /\ f.record.id \notin terminal =>
                 /\ path_for[f.record.id] \notin todo'[p]
                 /\ \/ f.name = legacy_path_for[f.record.id]
                    \/ Holds(path_for[f.record.id], f.record.id)
        BY <1>2, <1>4, <2>2, <2>4 DEF OnceInv
  <2>6. \A f, g \in got'[p] :
           f.record.id = g.record.id /\ f.record.id \notin terminal => f = g
        BY <2>2, <2>3 DEF OnceInv
  <2> QED BY <1>2, <2>1, <2>5, <2>6 DEF OnceInv, Migrating, Holds
<1> QED BY <1>1, <1>3, <1>4

(* A legacy file is moved only when there is no standard file: it has not  *)
(* been read, and is not about to be.                                      *)
LEMMA MigrateOnce ==
    ASSUME FilesInv, NEW p \in Procs, OnceInv(p), Migrate(p)
    PROVE  OnceInv(p)'
<1> DEFINE i == op[p].entry.id
<1>1. /\ op'[p].entry = op[p].entry /\ op'[p].name = op[p].name
      /\ op'[p].do = IF exists(path_for[i]) THEN "compare" ELSE "move"
      /\ UNCHANGED <<files, todo, got, terminal>>
      /\ op[p].do = "migrate"
      BY DEF Migrate, Then, At, FilesInv, TypeOK, dirVars, history
<1>2. i \in Ids /\ InHand(i) /\ op[p].name = legacy_path_for[i]
      BY <1>1, Contents DEF FilesInv, OperationInv, InHand
<1>3. ASSUME ~exists(path_for[i]), i \notin terminal
      PROVE  path_for[i] \notin todo[p] /\ \A f \in got[p] : f.record.id # i
  <2>1. ~Holds(path_for[i], i) /\ ~GoneForGood(i)
        BY <1>2, <1>3, Contents DEF exists, Holds, GoneForGood, Hopeless
  <2>2. path_for[i] \notin todo[p]
        BY <1>2, <2>1 DEF FilesInv, ListedInv
  <2>3. \A f \in got[p] : f.name # legacy_path_for[i]
        BY <1>1, <1>2 DEF OnceInv, Migrating
  <2>4. \A f \in got[p] : f.record.id # i
        BY <1>3, <2>1, <2>3 DEF OnceInv
  <2> QED BY <2>2, <2>4
<1> QED BY <1>1, <1>3 DEF OnceInv, Migrating, Holds

(* A second standard file keeps the legacy record from being returned, but *)
(* for one that is terminal.                                                *)
LEMMA CompareOnce ==
    ASSUME FilesInv, "read" \notin Faults, NEW p \in Procs, OnceInv(p), Compare(p)
    PROVE  OnceInv(p)'
<1> DEFINE i == op[p].entry.id
<1>0. TypeOK
      BY DEF FilesInv
<1>1. UNCHANGED <<files, todo, terminal>> /\ op[p].do = "compare"
      BY DEF Compare, dirVars, history, At
<1>2. CASE Then(p, "dedupe") /\ got' = got
  <2>1. op'[p].do = "dedupe" /\ op'[p].name = op[p].name
        BY <1>0, <1>2 DEF Then, TypeOK
  <2> QED BY <1>1, <1>2, <2>1 DEF OnceInv, Migrating, Holds
<1>3. CASE /\ ~same_reservation(files[path_for[i]], i)
           /\ Goto(p, Loading) /\ Push(p, op[p].entry, op[p].name)
  <2>1. i \in terminal
        BY <1>0, <1>1, <1>3 DEF FilesInv, OperationInv, same_reservation, Holds
  <2>2. op'[p].do = "load"
        BY <1>0, <1>3 DEF Goto, TypeOK, Loading, Op
  <2>3. \A f \in got'[p] : f \in got[p] \/ (f.record.id = i /\ f.name = op[p].name)
        BY <1>0, <1>3 DEF Push, TypeOK
  <2>4. op[p].name \notin todo[p]
        BY <1>1 DEF OnceInv, Migrating
  <2> QED BY <1>1, <2>1, <2>2, <2>3, <2>4 DEF OnceInv, Migrating, Holds
<1> QED BY <1>2, <1>3 DEF Compare, ReadAs

LEMMA DedupeOnce ==
    ASSUME FilesInv, NEW p \in Procs, OnceInv(p), Dedupe(p), "remove" \notin failed',
           \A i \in Ids \ terminal :
               InHand(i) /\ Holds(path_for[i], i) => Holds(path_for[i], i)'
    PROVE  OnceInv(p)'
<1>1. got' = got /\ todo' = todo /\ terminal' = terminal /\ op'[p].do = "load"
      BY DEF Dedupe, Fails, Goto, FilesInv, TypeOK, Loading, Op, history
<1>2. ASSUME NEW f \in got[p], f.record.id \notin terminal,
             Holds(path_for[f.record.id], f.record.id)
      PROVE  Holds(path_for[f.record.id], f.record.id)'
  <2>1. f.record.id \in Ids /\ InHand(f.record.id)
        BY DEF FilesInv, TypeOK, Finding, Record, InHand
  <2> QED BY <1>2, <2>1
<1> QED BY <1>1, <1>2 DEF OnceInv, Migrating

LEMMA MoveOnce ==
    ASSUME FilesInv, NEW p \in Procs, OnceInv(p), Move(p),
           \A i \in Ids \ terminal :
               InHand(i) /\ Holds(path_for[i], i) => Holds(path_for[i], i)'
    PROVE  OnceInv(p)'
<1> DEFINE i == op[p].entry.id
<1>0. TypeOK
      BY DEF FilesInv
<1>1. /\ todo' = todo /\ terminal' = terminal /\ op'[p].do = "load" /\ op[p].do = "move"
      /\ \A f \in got'[p] : f \in got[p] \/ f = [record |-> op[p].entry, name |-> op[p].name]
      BY <1>0 DEF Move, Goto, At, Push, TypeOK, Loading, Op, history
<1>2. op[p].name = legacy_path_for[i] /\ op[p].name \notin todo[p]
      BY <1>1 DEF FilesInv, OperationInv, OnceInv, Migrating
<1>3. i \notin terminal => path_for[i] \notin todo[p] /\ \A f \in got[p] : f.record.id # i
      BY <1>1 DEF OnceInv
<1>4. ASSUME NEW f \in got[p], f.record.id \notin terminal,
             Holds(path_for[f.record.id], f.record.id)
      PROVE  Holds(path_for[f.record.id], f.record.id)'
  <2>1. f.record.id \in Ids /\ InHand(f.record.id)
        BY <1>0 DEF TypeOK, Finding, Record, InHand
  <2> QED BY <1>4, <2>1
<1>5. \A f \in got'[p] :
          /\ f.name \notin todo[p]
          /\ f.record.id \notin terminal =>
                /\ path_for[f.record.id] \notin todo[p]
                /\ \/ f.name = legacy_path_for[f.record.id]
                   \/ Holds(path_for[f.record.id], f.record.id)'
      BY <1>1, <1>2, <1>3, <1>4 DEF OnceInv
<1>6. \A f, g \in got'[p] :
          f.record.id = g.record.id /\ f.record.id \notin terminal => f = g
      BY <1>1, <1>3 DEF OnceInv
<1> QED BY <1>1, <1>5, <1>6 DEF OnceInv, Migrating
LEMMA ProcessOnce ==
    ASSUME FilesInv, "read" \notin Faults, "remove" \notin failed',
           NEW p \in Procs, Recording(p) \/ Discarding(p) \/ Flushing(p),
           \A q \in Procs : OnceInv(q)
    PROVE  \A q \in Procs : OnceInv(q)'
<1>0. TypeOK
      BY DEF FilesInv
<1>1. \A i \in Ids \ terminal : InHand(i) /\ Holds(path_for[i], i) => Holds(path_for[i], i)'
      BY StandardStays
<1>2. terminal' = terminal
      BY DEF history, Recording, Discarding, Flushing, StartRecord, Persist, StartDiscard, DropStandard,
         ReadLegacy, DropLegacy, StartLoad, Read, Quarantine, Migrate, Compare, Dedupe, Move,
         EndLoad
<1>3. ASSUME NEW q \in Procs, q # p PROVE OnceInv(q)'
  <2>1. op'[q] = op[q] /\ todo'[q] = todo[q] /\ got'[q] = got[q]
        BY <1>0, <1>3 DEF Recording, Discarding, Flushing, StartRecord, Persist, StartDiscard,
           DropStandard, ReadLegacy, DropLegacy, StartLoad, Read, Quarantine, Migrate, Compare,
           Dedupe, Move, EndLoad, Goto, Then, Push, TypeOK
  <2> QED BY <1>0, <1>1, <1>2, <2>1, BystanderOnce
<1>4. CASE Recording(p) \/ Discarding(p)
  <2>1. op[p].do \in {"idle", "persist", "drop_standard", "read_legacy", "drop_legacy"}
        /\ got' = got
        BY <1>4 DEF Recording, Discarding, StartRecord, Persist, StartDiscard, DropStandard,
           ReadLegacy, DropLegacy, At
  <2> DEFINE outside == {"idle", "persist", "drop_standard", "read_legacy", "drop_legacy"}
  <2>2. op'[p].do \in outside
    <3>6. ASSUME NEW step \in Steps, Then(p, step) PROVE op'[p].do = step
          BY <1>0, <3>6 DEF Then, TypeOK, Operation
    <3>7. Goto(p, Idle) => op'[p].do = "idle"
          BY <1>0 DEF Goto, Idle, Op, TypeOK
    <3>1. CASE \E r \in Record : StartRecord(p, r)
          BY <1>0, <2>1, <3>1 DEF StartRecord, Goto, WrittenAndSynced, Op, TypeOK
    <3>2. CASE Persist(p) \/ DropLegacy(p)
          BY <1>0, <3>2 DEF Persist, DropLegacy, Goto, Idle, Op, TypeOK
    <3>3. CASE \E r \in Record : StartDiscard(p, r)
          BY <1>0, <3>3 DEF StartDiscard, Goto, Op, TypeOK
    <3>4. CASE DropStandard(p)
          BY <3>4, <3>6, <3>7 DEF DropStandard, Steps
    <3>5. CASE ReadLegacy(p)
          BY <3>5, <3>6, <3>7 DEF ReadLegacy, Steps
    <3> QED BY <1>4, <3>1, <3>2, <3>3, <3>4, <3>5 DEF Recording, Discarding
  <2>3. got'[p] = {}
        BY <2>1 DEF OnceInv, Migrating
  <2> QED BY <1>3, <2>2, <2>3, OutsideOnce DEF Migrating
<1>5. CASE StartLoad(p)
  <2>1. got'[p] = {} /\ op'[p].do = "load"
        BY <1>0, <1>5 DEF StartLoad, At, Goto, Loading, Op, OnceInv, Migrating, TypeOK
  <2> QED BY <1>3, <2>1, OutsideOnce DEF Migrating
<1>6. CASE EndLoad(p)
  <2>1. got'[p] = {} /\ op'[p].do = "idle"
        BY <1>0, <1>6 DEF EndLoad, Goto, Idle, Op, TypeOK
  <2> QED BY <1>3, <2>1, OutsideOnce DEF Migrating
<1>7. CASE Quarantine(p)
  <2>1. got' = got /\ todo' = todo /\ op'[p].do = "load"
        BY <1>0, <1>7 DEF Quarantine, Goto, Loading, Op, TypeOK
  <2>2. ASSUME NEW f \in got[p], f.record.id \notin terminal,
               Holds(path_for[f.record.id], f.record.id)
        PROVE  Holds(path_for[f.record.id], f.record.id)'
    <3>1. f.record.id \in Ids /\ InHand(f.record.id)
          BY <1>0 DEF TypeOK, Finding, Record, InHand
    <3> QED BY <1>1, <2>2, <3>1
  <2>3. OnceInv(p)
        OBVIOUS
  <2>4. OnceInv(p)'
        BY <1>2, <2>1, <2>2, <2>3 DEF OnceInv, Migrating
  <2> QED BY <1>3, <2>4
<1> QED
    BY <1>1, <1>3, <1>4, <1>5, <1>6, <1>7, ReadOnce, MigrateOnce, CompareOnce, DedupeOnce,
       MoveOnce DEF Flushing

(* Whoever dies forgets what it has found; the others lose nothing.        *)
LEMMA DeathOnce ==
    ASSUME FilesInv, NEW who \in SUBSET Procs, Die(who), terminal' = terminal,
           files' = files \/ who = Procs, \A q \in Procs : OnceInv(q)
    PROVE  \A q \in Procs : OnceInv(q)'
<1>1. ASSUME NEW q \in who PROVE OnceInv(q)'
  <2>1. got'[q] = {} /\ op'[q].do = "idle"
        BY DEF Die, Idle, Op
  <2> QED BY <2>1, OutsideOnce DEF Migrating
<1>2. ASSUME NEW q \in Procs \ who PROVE OnceInv(q)'
  <2>1. op'[q] = op[q] /\ todo'[q] = todo[q] /\ got'[q] = got[q] /\ files' = files
        BY DEF Die
  <2> QED BY <2>1, BystanderOnce DEF FilesInv, Holds
<1> QED BY <1>1, <1>2

LEMMA StepOnce ==
    "read" \notin Faults /\ FilesInv /\ FlushInv /\ [Next]_vars => FlushInv'
<1> SUFFICES ASSUME "read" \notin Faults, FilesInv, FlushInv, [Next]_vars,
                    "remove" \notin failed'
             PROVE  \A q \in Procs : OnceInv(q)'
    BY DEF FlushInv
<1>1. \A q \in Procs : OnceInv(q)
      BY FailuresStay DEF FlushInv
<1>2. ASSUME NEW p \in Procs, Recording(p) \/ Discarding(p) \/ Flushing(p)
      PROVE  \A q \in Procs : OnceInv(q)'
      BY <1>1, <1>2, ProcessOnce
<1>3. ASSUME NEW p \in Procs, Crash(p) PROVE \A q \in Procs : OnceInv(q)'
      BY <1>1, <1>3, DeathOnce DEF Crash, dirVars, history
<1>4. CASE PowerFailure
      BY <1>1, <1>4, DeathOnce DEF PowerFailure
<1>5. CASE (\E i \in Ids : Conclude(i)) \/ UNCHANGED vars
  <2>1. UNCHANGED <<files, op, todo, got>> /\ terminal \subseteq terminal'
        BY <1>5 DEF Conclude, vars, dirVars, history
  <2> QED BY <1>1, <2>1, BystanderOnce DEF FilesInv, Holds
<1> QED BY <1>2, <1>3, <1>4, <1>5 DEF Next

(* client.rs, flush_pending_commits_with_timeout; journal.rs, load_pending *)
(* and migrate_legacy_path: however many files a spend has, and whoever    *)
(* moves or removes them while the directory is read, one flush starts at  *)
(* most one task for it, until a removal fails.                            *)
THEOREM OneTaskPerSpend == "read" \notin Faults /\ Spec => []OncePerFlush
<1>1. FlushInv => OncePerFlush
      BY DEF FlushInv, OnceInv, OncePerFlush
<1>2. CASE "read" \notin Faults
  <2>1. Init => FlushInv
        BY DEF Init, FlushInv, OnceInv, Migrating, Idle, Op
  <2>2. FilesInv /\ FlushInv /\ [Next]_vars => FlushInv'
        BY <1>2, StepOnce
  <2> QED BY <1>1, <2>1, <2>2, FilesInvariant, <1>2, PTL DEF Spec
<1>3. CASE "read" \in Faults
      BY <1>3
<1> QED BY <1>2, <1>3

=============================================================================

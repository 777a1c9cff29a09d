---------------------------- MODULE JournalFiles ----------------------------
(***************************************************************************)
(* CommitJournal: one directory, one file per pending settlement, shared   *)
(* by every client, and every process, of one server and principal.        *)
(*                                                                         *)
(* There is no lock.  record, discard and load_pending are sequences of    *)
(* file operations, and each operation that reads or changes a name is a   *)
(* step here, so that the steps of several processes interleave.  A        *)
(* process may die between any two of them; a power failure may also take  *)
(* back what the disk has not yet got.                                     *)
(*                                                                         *)
(* A record is its reservation id and its mode.  Older releases named a    *)
(* file after the id with every odd character replaced, so two ids may     *)
(* share a legacy name; load_pending moves such files to their standard    *)
(* names.  What a process has loaded, or has written for a guard of its    *)
(* own, it holds in memory until it is done with it.                       *)
(***************************************************************************)
EXTENDS FiniteSets

CONSTANTS
    Procs,          \* clients that share the directory
    Ids,            \* reservation ids
    Nobody,         \* not an id
    Names,          \* file names that end in .json
    NoName,         \* not one of them
    path_for,       \* the standard name of an id
    legacy_path_for,\* the name an older release gave it
    OtherServer,    \* ids whose records carry another base_url
    Faults,         \* which file operations may fail
    PowerLoss       \* may the power fail?

StandardNames == {path_for[i] : i \in Ids}
LegacyNames == {legacy_path_for[i] : i \in Ids}

ASSUME IdAssumption == Nobody \notin Ids /\ OtherServer \subseteq Ids
ASSUME NameAssumption ==
    /\ path_for \in [Ids -> Names]
    /\ legacy_path_for \in [Ids -> Names]
    /\ \A i, j \in Ids : path_for[i] = path_for[j] => i = j
    /\ StandardNames \cap LegacyNames = {}
    /\ NoName \notin Names
ASSUME FaultAssumption ==
    /\ Faults \subseteq {"read", "write", "remove", "rename"}
    /\ PowerLoss \in BOOLEAN

JournalMode == {"Commit", "Event"}
Record == [id : Ids, mode : JournalMode]

(* A file that is not there, and one that does not parse or validate.      *)
Absent == [id |-> Nobody, mode |-> "absent"]
Unreadable == [id |-> Nobody, mode |-> "unreadable"]
Content == Record \cup {Absent, Unreadable}

VARIABLES
    files,     \* the directory
    past,      \* the directories a power failure may bring back
    failed,    \* history: a removal, a rename, or the power has failed
    terminal,  \* history: the ids an attempt has ended Terminal for
    latest,    \* history: per id, what record() last published of it
    undone,    \* history: the ids whose last record() the power took back
    fresh,     \* the ids no commit has been made for yet
    op,        \* per process: the file operation it does next
    todo,      \* per process: the files its load has yet to look at
    got,       \* per process: what its load has found, and where
    held       \* per process: the records it has in memory to settle

dirVars == <<files, past, failed>>
history == <<terminal, latest, undone>>
vars == <<dirVars, history, fresh, op, todo, got, held>>

Finding == [record : Record, name : Names]
Slot == {{}} \cup {{m} : m \in JournalMode}

(* An operation, the record and the file name it is about, and, for the    *)
(* rename that ends a record(), whether the temporary file was synced.     *)
Steps == {"idle", "persist", "drop_standard", "read_legacy", "drop_legacy",
          "load", "migrate", "compare", "move", "dedupe", "quarantine"}
Operation == [do : Steps, entry : Content, name : Names \cup {NoName}, synced : BOOLEAN]
Op(step, r, n) == [do |-> step, entry |-> r, name |-> n, synced |-> FALSE]
Idle == Op("idle", Absent, NoName)
Loading == Op("load", Absent, NoName)

TypeOK ==
    /\ files \in [Names -> Content]
    /\ past \subseteq [Names -> Content]
    /\ failed \subseteq {"remove", "rename", "power"}
    /\ terminal \subseteq Ids
    /\ latest \in [Ids -> Slot]
    /\ undone \subseteq Ids
    /\ fresh \subseteq Ids
    /\ op \in [Procs -> Operation]
    /\ todo \in [Procs -> SUBSET Names]
    /\ got \in [Procs -> SUBSET Finding]
    /\ held \in [Procs -> SUBSET Record]

-----------------------------------------------------------------------------
(* What the directory says of an id.                                       *)

Holds(n, i) == files[n].id = i

HasCopy(i) == \E n \in Names : Holds(n, i)

StoredIn(dir, i) ==
    IF dir[path_for[i]].id = i THEN {dir[path_for[i]].mode}
    ELSE IF dir[legacy_path_for[i]].id = i THEN {dir[legacy_path_for[i]].mode}
    ELSE {}

Stored(i) == StoredIn(files, i)

(* A directory earlier processes may have left: an id has its standard     *)
(* file, its legacy file, or both, the legacy one being the older.  A file *)
(* of which nothing can be read is the only trace of its record.           *)
LeftBehind(dir) ==
    /\ \A n \in Names : dir[n] \in Record =>
          n \in {path_for[dir[n].id], legacy_path_for[dir[n].id]}
    /\ \A i \in Ids :
          /\ dir[path_for[i]] = Unreadable => dir[legacy_path_for[i]].id # i
          /\ dir[path_for[i]] = [id |-> i, mode |-> "Commit"] =>
                dir[legacy_path_for[i]] # [id |-> i, mode |-> "Event"]

Init ==
    /\ files \in {dir \in [Names -> Content] : LeftBehind(dir)}
    /\ past = IF PowerLoss THEN {files} ELSE {}
    /\ failed = {}
    /\ terminal = {}
    /\ latest = [i \in Ids |-> Stored(i)]
    /\ undone = {}
    /\ fresh = {i \in Ids \ OtherServer : ~HasCopy(i) /\ files[path_for[i]] = Absent}
    /\ op = [p \in Procs |-> Idle]
    /\ todo = [p \in Procs |-> {}]
    /\ got = [p \in Procs |-> {}]
    /\ held = [p \in Procs |-> {}]

-----------------------------------------------------------------------------
(* File operations.                                                        *)

At(p, step) == op[p].do = step

Goto(p, next) == op' = [op EXCEPT ![p] = next]

(* The same entry and name, another operation.                             *)
Then(p, step) == op' = [op EXCEPT ![p].do = step]

(* The directory changes; whether the disk has it yet is another matter.   *)
(* Bound: the disk is at most one change behind.                           *)
Change(dir, image) ==
    /\ files' = dir
    /\ past' = IF PowerLoss /\ "power" \notin failed THEN {files, image} ELSE {}
    /\ failed' = failed

Rename(from, to) ==
    LET dir == [files EXCEPT ![to] = files[from], ![from] = Absent]
    IN files[from] # Absent /\ Change(dir, dir)

Fails(operation) ==
    /\ operation \in Faults
    /\ failed' = failed \cup ({operation} \ {"write"})
    /\ UNCHANGED <<files, past>>

(* Ok whether or not the file was there.                                   *)
remove_if_exists(n) ==
    LET dir == [files EXCEPT ![n] = Absent] IN Change(dir, dir)

(* What read_to_string, the parser and validate make of a file.            *)
ReadAs(n, c) == c = files[n] \/ (c = Unreadable /\ "read" \in Faults)

-----------------------------------------------------------------------------
(* CommitJournal::record: a temporary file is written and synced, and      *)
(* renamed over the standard name.                                         *)

(* A guard journals the spend it is about to commit; whoever holds a       *)
(* record writes it again with a new deadline, or in event mode once the   *)
(* reservation has expired.                                                *)
MayWrite(p, r) ==
    \/ r.id \in fresh /\ r.mode = "Commit"
    \/ r \in held[p]
    \/ r.mode = "Event" /\ [r EXCEPT !.mode = "Commit"] \in held[p]

Without(records, i) == {r \in records : r.id # i}

(* Mutant: the temporary file is not synced before the rename.             *)
flushed_only(r) == Op("persist", r, path_for[r.id])

WrittenAndSynced(r) ==
    [do |-> "persist", entry |-> r, name |-> path_for[r.id], synced |-> TRUE]

StartRecord(p, r) ==
    /\ At(p, "idle")
    /\ MayWrite(p, r)
    /\ held' = [held EXCEPT ![p] = Without(@, r.id) \cup {r}]
    /\ fresh' = fresh \ {r.id}
    /\ Goto(p, WrittenAndSynced(r)) \/ ("write" \in Faults /\ op' = op)
    /\ UNCHANGED <<dirVars, history, todo, got>>

(* The rename that publishes the record, or its failure.                   *)
Persist(p) ==
    /\ At(p, "persist")
    /\ LET r == op[p].entry
           n == op[p].name
       IN \/ /\ Change([files EXCEPT ![n] = r],
                       [files EXCEPT ![n] = IF op[p].synced THEN r ELSE Unreadable])
             /\ latest' = [latest EXCEPT ![r.id] = {r.mode}]
             /\ undone' = undone \ {r.id}
          \/ Fails("write") /\ UNCHANGED <<latest, undone>>
    /\ Goto(p, Idle)
    /\ UNCHANGED <<terminal, fresh, todo, got, held>>

-----------------------------------------------------------------------------
(* CommitJournal::discard, called once an attempt has ended Terminal.      *)

StartDiscard(p, r) ==
    /\ At(p, "idle")
    /\ r \in held[p]
    /\ r.id \in terminal
    /\ held' = [held EXCEPT ![p] = Without(@, r.id)]
    /\ Goto(p, Op("drop_standard", r, legacy_path_for[r.id]))
    /\ UNCHANGED <<dirVars, history, fresh, todo, got>>

DropStandard(p) ==
    /\ At(p, "drop_standard")
    /\ \/ remove_if_exists(path_for[op[p].entry.id]) /\ Then(p, "read_legacy")
       \/ Fails("remove") /\ Goto(p, Idle)
    /\ UNCHANGED <<history, fresh, todo, got, held>>

(* Mutant: the legacy file is taken for the id's own because of its name.  *)
has_that_name(c, i) == c # Absent

(* Legacy names collide: only the record itself proves whose it is.        *)
belongs_to(c, i) == c.id = i

(* exists and read_to_string: a file that is gone by now is not read.      *)
ReadLegacy(p) ==
    /\ At(p, "read_legacy")
    /\ \E c \in Content :
          /\ ReadAs(op[p].name, c)
          /\ IF belongs_to(c, op[p].entry.id) THEN Then(p, "drop_legacy") ELSE Goto(p, Idle)
    /\ UNCHANGED <<dirVars, history, fresh, todo, got, held>>

DropLegacy(p) ==
    /\ At(p, "drop_legacy")
    /\ remove_if_exists(op[p].name) \/ Fails("remove")
    /\ Goto(p, Idle)
    /\ UNCHANGED <<history, fresh, todo, got, held>>

-----------------------------------------------------------------------------
(* CommitJournal::load_pending.                                            *)

(* read_dir: the names there are now.                                      *)
StartLoad(p) ==
    /\ At(p, "idle")
    /\ todo' = [todo EXCEPT ![p] = {n \in Names : files[n] # Absent}]
    /\ Goto(p, Loading)
    /\ UNCHANGED <<dirVars, history, fresh, got, held>>

(* The record goes to the caller if it is one of this server's.            *)
Push(p, r, n) ==
    got' = IF r.id \in OtherServer THEN got
           ELSE [got EXCEPT ![p] = @ \cup {[record |-> r, name |-> n]}]

(* Mutant: a file that does not validate is returned all the same.         *)
ReadUnchecked(p) ==
    /\ At(p, "load")
    /\ \E n \in todo[p] :
          /\ todo' = [todo EXCEPT ![p] = @ \ {n}]
          /\ Goto(p, Loading)
          /\ Push(p, files[n], n)
    /\ UNCHANGED <<dirVars, history, fresh, held>>

(* The paths are sorted, which orders names and tells nothing of what they *)
(* hold; any order is taken here.                                          *)
Read(p) ==
    /\ At(p, "load")
    /\ \E n \in todo[p], c \in Content :
          /\ ReadAs(n, c)
          /\ todo' = [todo EXCEPT ![p] = @ \ {n}]
          /\ \/ c \notin Record /\ Goto(p, Op("quarantine", Absent, n)) /\ got' = got
             \/ c \in Record /\ path_for[c.id] = n /\ Goto(p, Loading) /\ Push(p, c, n)
             \/ c \in Record /\ path_for[c.id] # n /\ Goto(p, Op("migrate", c, n)) /\ got' = got
    /\ UNCHANGED <<dirVars, history, fresh, held>>

(* The file could not be read or is no record: it is renamed to .corrupt,  *)
(* which no load looks at again.                                           *)
Quarantine(p) ==
    /\ At(p, "quarantine")
    /\ remove_if_exists(op[p].name) \/ Fails("rename")
    /\ Goto(p, Loading)
    /\ UNCHANGED <<history, fresh, todo, got, held>>

(* Mutant: the legacy file is renamed whatever is at its standard name.    *)
never_exists(n) == FALSE

exists(n) == files[n] # Absent

(* migrate_legacy_path: is there a standard file already?                  *)
Migrate(p) ==
    /\ At(p, "migrate")
    /\ Then(p, IF exists(path_for[op[p].entry.id]) THEN "compare" ELSE "move")
    /\ UNCHANGED <<dirVars, history, fresh, todo, got, held>>

(* The standard file must be a record of the same reservation.             *)
same_reservation(c, i) == c.id = i

(* If it is, the legacy file is a duplicate; if not, both stay and the     *)
(* legacy record is returned.                                              *)
Compare(p) ==
    /\ At(p, "compare")
    /\ \E c \in Content :
          /\ ReadAs(path_for[op[p].entry.id], c)
          /\ IF same_reservation(c, op[p].entry.id)
             THEN Then(p, "dedupe") /\ got' = got
             ELSE Goto(p, Loading) /\ Push(p, op[p].entry, op[p].name)
    /\ UNCHANGED <<dirVars, history, fresh, todo, held>>

(* Mutant: the duplicate goes and is returned as well.                     *)
DedupeAndReturn(p) ==
    /\ At(p, "dedupe")
    /\ remove_if_exists(op[p].name)
    /\ Push(p, op[p].entry, op[p].name)
    /\ Goto(p, Loading)
    /\ UNCHANGED <<history, fresh, todo, held>>

(* The duplicate goes and is not returned, unless it cannot be removed.    *)
Dedupe(p) ==
    /\ At(p, "dedupe")
    /\ \/ remove_if_exists(op[p].name) /\ got' = got
       \/ Fails("remove") /\ Push(p, op[p].entry, op[p].name)
    /\ Goto(p, Loading)
    /\ UNCHANGED <<history, fresh, todo, held>>

(* The legacy file takes its standard name; it may have gone meanwhile.    *)
(* The record is returned in any case.                                     *)
Move(p) ==
    /\ At(p, "move")
    /\ \/ Rename(op[p].name, path_for[op[p].entry.id])
       \/ ~exists(op[p].name) /\ UNCHANGED dirVars
       \/ Fails("rename")
    /\ Push(p, op[p].entry, op[p].name)
    /\ Goto(p, Loading)
    /\ UNCHANGED <<history, fresh, todo, held>>

(* A task per record takes over what was found.                            *)
EndLoad(p) ==
    /\ At(p, "load")
    /\ todo[p] = {}
    /\ held' = [held EXCEPT ![p] = @ \cup {f.record : f \in got[p]}]
    /\ got' = [got EXCEPT ![p] = {}]
    /\ Goto(p, Idle)
    /\ UNCHANGED <<dirVars, history, fresh, todo>>

-----------------------------------------------------------------------------
(* What happens around the journal.                                        *)

(* An attempt on a record somebody has in hand ends Terminal: the server   *)
(* has recorded or refused the spend, or the client's API key cannot be    *)
(* sent.  Whether the outcome justifies removing the record is Settlement's*)
(* matter; here every outcome that removes it counts.                      *)
Conclude(i) ==
    /\ \E p \in Procs : \E r \in held[p] : r.id = i
    /\ terminal' = terminal \cup {i}
    /\ UNCHANGED <<dirVars, latest, undone, fresh, op, todo, got, held>>

(* The processes in who die: their files stay, and a temporary file is     *)
(* never looked at again.                                                  *)
Die(who) ==
    /\ op' = [p \in Procs |-> IF p \in who THEN Idle ELSE op[p]]
    /\ todo' = [p \in Procs |-> IF p \in who THEN {} ELSE todo[p]]
    /\ got' = [p \in Procs |-> IF p \in who THEN {} ELSE got[p]]
    /\ held' = [p \in Procs |-> IF p \in who THEN {} ELSE held[p]]

Crash(p) == Die({p}) /\ UNCHANGED <<dirVars, history, fresh>>

(* The ids whose record is not in dir because dir lacks just the rename    *)
(* that published it, the last change of the directory.                    *)
Lost(dir) ==
    {i \in Ids : /\ dir # files
                 /\ files[path_for[i]].id = i
                 /\ \A n \in Names \ {path_for[i]} : dir[n] = files[n]}

(* Nothing syncs the directory, so the last rename or removal may be gone  *)
(* when the power comes back.  What was recorded stays in the history, as  *)
(* the caller was told so.  Bound: the power fails once.                   *)
PowerFailure ==
    /\ PowerLoss
    /\ "power" \notin failed
    /\ failed' = failed \cup {"power"}
    /\ files' \in past
    /\ past' = {}
    /\ undone' = undone \cup Lost(files')
    /\ Die(Procs)
    /\ UNCHANGED <<terminal, latest, fresh>>

-----------------------------------------------------------------------------
Recording(p) == (\E r \in Record : StartRecord(p, r)) \/ Persist(p)
Discarding(p) ==
    \/ \E r \in Record : StartDiscard(p, r)
    \/ DropStandard(p)
    \/ ReadLegacy(p)
    \/ DropLegacy(p)
Flushing(p) ==
    \/ StartLoad(p)
    \/ Read(p)
    \/ Quarantine(p)
    \/ Migrate(p)
    \/ Compare(p)
    \/ Dedupe(p)
    \/ Move(p)
    \/ EndLoad(p)

Next ==
    \/ \E p \in Procs : Recording(p) \/ Discarding(p) \/ Flushing(p) \/ Crash(p)
    \/ \E i \in Ids : Conclude(i)
    \/ PowerFailure

Spec == Init /\ [][Next]_vars

-----------------------------------------------------------------------------
(* A record the journal has published is found by the next load until an   *)
(* attempt on it ends Terminal, whatever the processes do at the same time,*)
(* wherever they die, and whichever writes, removals and renames fail      *)
(* (client.rs, flush_pending_commits_with_timeout: every unresolved record *)
(* remains on disk).  Legacy names that collide, and a discard or a        *)
(* migration half done, must not take it away.  Of what the power takes,   *)
(* only the record whose rename was the very last change is excepted:      *)
(* record() does not sync the directory.                                   *)
KeptUntilTerminal ==
    \A i \in Ids \ (terminal \cup undone) : latest[i] # {} => HasCopy(i)

(* One flush starts at most one task for a spend that is not terminal,     *)
(* although the spend may have two files, which move and disappear while it*)
(* reads; only a duplicate that cannot be removed is taken up beside the   *)
(* original (journal.rs, load_pending and migrate_legacy_path).            *)
OncePerFlush ==
    "remove" \notin failed =>
        \A p \in Procs : \A f, g \in got[p] :
            f.record.id = g.record.id /\ f.record.id \notin terminal => f = g

(* A load finds the last write: no migration, of whichever process, puts   *)
(* an older copy in the place of a newer one (journal.rs,                  *)
(* migrate_legacy_path: exists, then rename), unless a rename has failed   *)
(* before and left the older copy behind, or the power took the write.     *)
LastWriteWins ==
    "rename" \notin failed =>
        \A i \in Ids \ (terminal \cup undone) : Stored(i) = latest[i]

(* The directory behaves like a register per reservation: a load finds the *)
(* last write, only a terminal record goes, and a power failure takes one  *)
(* write at most.  The steps of record, discard, load_pending and the      *)
(* migration are invisible but for the one that takes effect.              *)
Store == INSTANCE JournalStore WITH
    Modes <- JournalMode,
    stored <- [i \in Ids |-> Stored(i)]

ImplementsStore == Store!Spec

(* Half a record is never seen: a file is renamed to its final name only   *)
(* once its content is on the disk, so of a record that was published a    *)
(* power failure leaves the whole, an earlier copy or none, but never a    *)
(* file that does not parse (journal.rs, record: sync_all before persist). *)
NeverTorn == \A i \in Ids : latest[i] # {} => files[path_for[i]] # Unreadable

(* Why: the invariants of the proofs.  No name ever holds another id's     *)
(* record but a legacy one, and a legacy name never gains a record.        *)
OwnName(dir) ==
    \A n \in Names : dir[n] \in Record =>
        n \in {path_for[dir[n].id], legacy_path_for[dir[n].id]}

(* Somebody has the record of i in hand.                                   *)
InHand(i) ==
    \E p \in Procs :
       \/ \E r \in held[p] : r.id = i
       \/ \E f \in got[p] : f.record.id = i
       \/ op[p].entry.id = i

(* The record of i is beyond repair: there is none, and none will come.    *)
Hopeless(i) == latest[i] = {} /\ i \notin fresh /\ ~InHand(i)

DirectoryInv ==
    /\ OwnName(files)
    /\ \A i \in Ids :
          /\ Holds(path_for[i], i) \/ Holds(legacy_path_for[i], i) => latest[i] # {}
          /\ files[path_for[i]] = Unreadable => Hopeless(i)
          /\ i \in fresh => latest[i] = {} /\ files[path_for[i]] = Absent /\ ~InHand(i)

(* What the power may bring back lacks no record but the one just renamed. *)
PastInv ==
    \A dir \in past :
       /\ OwnName(dir)
       /\ \A i \in Ids :
             /\ dir[path_for[i]].id = i \/ dir[legacy_path_for[i]].id = i => latest[i] # {}
             /\ dir[path_for[i]] = Unreadable => Hopeless(i)
             /\ i \in fresh => dir[path_for[i]] = Absent
             /\ i \notin terminal \cup Lost(dir) /\ HasCopy(i) =>
                   dir[path_for[i]].id = i \/ dir[legacy_path_for[i]].id = i

(* What a process may rely on between two file operations.                 *)
GoneForGood(i) == i \in terminal \/ Hopeless(i)

ListedInv(p) ==
    \A i \in Ids : path_for[i] \in todo[p] => Holds(path_for[i], i) \/ GoneForGood(i)

OperationInv(p) ==
    LET do == op[p].do
        i == op[p].entry.id
        n == op[p].name
    IN /\ do \notin {"idle", "load", "quarantine"} => op[p].entry \in Record
       /\ do = "persist" => n = path_for[i] /\ op[p].synced
       /\ do \in {"drop_standard", "read_legacy", "drop_legacy"} =>
             i \in terminal /\ n = legacy_path_for[i]
       /\ do = "drop_legacy" => files[n] = Absent \/ files[n].id = i
       /\ do \in {"migrate", "compare", "move", "dedupe"} =>
             n = legacy_path_for[i] /\ files[n] \in {Absent, op[p].entry}
       /\ do \in {"compare", "dedupe"} => i \in terminal \/ Holds(path_for[i], i)
       /\ do = "quarantine" =>
             /\ n \in Names
             /\ files[n] \in Record => n = path_for[files[n].id]
             /\ \A j \in Ids : n = path_for[j] => GoneForGood(j)

FilesInv ==
    /\ TypeOK /\ DirectoryInv /\ PastInv /\ KeptUntilTerminal
    /\ \A p \in Procs : ListedInv(p) /\ OperationInv(p)

(* While no rename has failed: whoever may write a record has it under its *)
(* standard name, so a legacy file can only be moved to a free name.       *)
Writable(i) ==
    \E p \in Procs :
       \/ \E r \in held[p] : r.id = i
       \/ \E f \in got[p] : f.record.id = i
       \/ op[p].do = "persist" /\ op[p].entry.id = i

MigrationInv ==
    "rename" \notin failed => \A i \in Ids \ terminal :
        /\ Writable(i) /\ Holds(legacy_path_for[i], i) => Holds(path_for[i], i)
        /\ \A p \in Procs :
              op[p].do = "move" /\ op[p].entry.id = i /\ Holds(op[p].name, i)
                 => files[path_for[i]] = Absent
=============================================================================

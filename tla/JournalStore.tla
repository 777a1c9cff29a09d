---------------------------- MODULE JournalStore ----------------------------
(***************************************************************************)
(* What the commit journal promises, with nothing of its files: one record *)
(* per reservation, replaced as a whole by the next write, and gone only   *)
(* after an attempt on it has ended Terminal.  A power failure may undo    *)
(* the last write, of one reservation.  Settlement relies on a journal     *)
(* like this one, on a machine whose power stays.                          *)
(***************************************************************************)
CONSTANTS
    Ids,      \* reservation ids
    Modes     \* the modes a record can have

VARIABLES
    stored,   \* per reservation: what a load would find, {} or {mode}
    latest,   \* per reservation: what was last written, {} or {mode}
    terminal, \* the reservations an attempt has ended Terminal for
    undone,   \* the reservations whose last write a power failure undid
    failed    \* the kinds of failure there have been

vars == <<stored, latest, terminal, undone, failed>>

Slot == {{}} \cup {{m} : m \in Modes}

Init ==
    /\ stored \in [Ids -> Slot]
    /\ latest = stored
    /\ terminal = {}
    /\ undone = {}
    /\ failed = {}

Put(i, m) ==
    /\ stored' = [stored EXCEPT ![i] = {m}]
    /\ latest' = [latest EXCEPT ![i] = {m}]
    /\ undone' = undone \ {i}
    /\ UNCHANGED <<terminal, failed>>

Conclude(i) ==
    /\ terminal' = terminal \cup {i}
    /\ UNCHANGED <<stored, latest, undone, failed>>

(* Only a terminal record goes; while it goes, an older copy of it may     *)
(* show.                                                                   *)
Clean(i) ==
    /\ i \in terminal
    /\ \E slot \in Slot : stored' = [stored EXCEPT ![i] = slot]
    /\ UNCHANGED <<latest, terminal, undone, failed>>

(* A file operation fails.                                                 *)
Fail ==
    /\ \E kind \in {"remove", "rename"} : failed' = failed \cup {kind}
    /\ UNCHANGED <<stored, latest, terminal, undone>>

(* After a rename has failed, an older copy may replace the record.        *)
Regress(i) ==
    /\ "rename" \in failed
    /\ stored[i] # {}
    /\ \E m \in Modes : stored' = [stored EXCEPT ![i] = {m}]
    /\ UNCHANGED <<latest, terminal, undone, failed>>

(* The power fails, once, and may take back the last change: a write, of   *)
(* one reservation; a removal; or a move, after a failed rename the one    *)
(* that put an older copy in the place of the record.                      *)
LosePower ==
    /\ "power" \notin failed
    /\ failed' = failed \cup {"power"}
    /\ undone' \in {undone} \cup {undone \cup {i} : i \in Ids}
    /\ stored' \in [Ids -> Slot]
    /\ \A i \in Ids \ (terminal \cup undone') :
          \/ stored'[i] = stored[i]
          \/ "rename" \in failed /\ stored'[i] # {} /\ stored[i] # {}
    /\ UNCHANGED <<latest, terminal>>

Next ==
    \/ Fail \/ LosePower
    \/ \E i \in Ids :
          \/ Conclude(i) \/ Clean(i) \/ Regress(i)
          \/ \E m \in Modes : Put(i, m)

Spec == Init /\ [][Next]_vars

(* Until a rename fails, the last write of a record that is not terminal   *)
(* is what a load finds, unless the power took it back.                    *)
LastWriteWins ==
    "rename" \notin failed =>
        \A i \in Ids \ (terminal \cup undone) : stored[i] = latest[i]
=============================================================================

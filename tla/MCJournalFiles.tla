--------------------------- MODULE MCJournalFiles ---------------------------
(* JournalFiles on small instances: two ids whose legacy names collide     *)
(* (journal.rs, tests: "rsv/a" and "rsv_a").                               *)
EXTENDS JournalFiles, TLC

CONSTANTS p1, p2, a, b, std_a, std_b, legacy

ProcSymmetry == Permutations(Procs)

TwoIds == {a, b}
TwoIdNames == {std_a, std_b, legacy}
TwoIdPath == [i \in TwoIds |-> IF i = a THEN std_a ELSE std_b]
TwoIdLegacyPath == [i \in TwoIds |-> legacy]
(* The second id is another server's: nothing is written of it here, it    *)
(* only has, or has not, the file with the shared name.                    *)
SharedName == Init /\ files[std_b] = Absent
MCSpec == SharedName /\ [][Next]_vars
=============================================================================

SPECIFICATION MCSpec
CONSTANTS
    p1 = p1
    p2 = p2
    a = a
    b = b
    std_a = std_a
    std_b = std_b
    legacy = legacy
    Nobody = Nobody
    NoName = NoName
    Procs = {p1, p2}
    Ids <- TwoIds
    Names <- TwoIdNames
    path_for <- TwoIdPath
    legacy_path_for <- TwoIdLegacyPath
    OtherServer = {b}
    Faults = {"write", "remove", "rename"}
    PowerLoss = TRUE
SYMMETRY ProcSymmetry
INVARIANTS
    TypeOK
    KeptUntilTerminal
    OncePerFlush
    NeverTorn
PROPERTY ImplementsStore
\* Everything may be terminal and gone.
CHECK_DEADLOCK FALSE

SPECIFICATION Spec
CONSTANTS
    HELD_CADENCE_CAP_MS = 60
    MIN_BEAT_DELAY_MS = 1
    RECOVERY_CAP_MS = 60
    SECOND = 2
    U64_MAX = 100
    RequestedTtl = 40
    RequestTimeout = 1
    Creates <- SmallLease
    Fields = {FALSE}
    Grants = {4}
    Leads = {}
    Failures = {}
    Losses = FALSE
    Cancels = FALSE
    Slip = 0
    MaxTime = 40
INVARIANTS
    RealGrantSetsThePace
CHECK_DEADLOCK FALSE

SPECIFICATION FairSpec
CONSTANTS
    HELD_CADENCE_CAP_MS = 4
    MIN_BEAT_DELAY_MS = 1
    RECOVERY_CAP_MS = 4
    SECOND = 1
    U64_MAX = 100
    RequestedTtl = 4
    RequestTimeout = 1
    Creates <- FullLease
    Fields = {FALSE}
    Grants = {4}
    Leads = {}
    Failures <- FewFailures
    Losses = TRUE
    Cancels = TRUE
    Slip = 1
    MaxTime = 16
INVARIANTS
    BoundedDrift
    LeaseNeverLapses
PROPERTIES
    CancelStops
CHECK_DEADLOCK FALSE

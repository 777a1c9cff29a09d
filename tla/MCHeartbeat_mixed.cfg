SPECIFICATION Spec
CONSTANTS
    HELD_CADENCE_CAP_MS = 4
    MIN_BEAT_DELAY_MS = 1
    RECOVERY_CAP_MS = 4
    SECOND = 2
    U64_MAX = 100
    RequestedTtl = 8
    RequestTimeout = 1
    Creates <- AllCreates
    Fields = {TRUE, FALSE}
    Grants = {0, 8}
    Leads = {6}
    Failures <- AllFailures
    Losses = TRUE
    Cancels = FALSE
    Slip = 2
    MaxTime = 5
INVARIANTS
    TypeOK
    SampleIsALowerBound
    LeaseCoversAttempt
    NeverExtendsTwice
    NoBusyLoop
    LedgerIsALowerBound
CHECK_DEADLOCK FALSE

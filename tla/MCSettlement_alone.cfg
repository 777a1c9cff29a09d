SPECIFICATION FairSpec
CONSTANTS
    Guard = guard
    Replays = {r1, r2}
    BadKey = {r2}
    IdemKey = key
    Responses <- AllResponses
    MaxAttempts = 2
    RetryEnabled = TRUE
    Backoff <- MCBackoff
    RetryAfterCap = 2
    JournalEnabled = TRUE
    WriteFaults = FALSE
    DiscardFaults = FALSE
    Overlap = FALSE
INVARIANTS
    SettledLeavesNoRecord
PROPERTIES
    HonoursRetryAfter
    NeverBackToCommit
    EventuallySettled
    JournalDrains
\* Once the spend is settled and the record gone, nothing is left to do.
CHECK_DEADLOCK FALSE

SPECIFICATION Spec
CONSTANTS
    Guard = guard
    Replays = {r1}
    BadKey = {}
    IdemKey = key
    Responses <- FewResponses
    MaxAttempts = 1
    RetryEnabled = TRUE
    Backoff <- MCBackoff
    RetryAfterCap = 1
    JournalEnabled = TRUE
    WriteFaults = FALSE
    DiscardFaults = FALSE
    Overlap = TRUE
PROPERTY
    NeverBackToCommit
\* Once the spend is settled and the record gone, nothing is left to do.
CHECK_DEADLOCK FALSE

SPECIFICATION Spec
CONSTANTS
    Guard = guard
    Replays = {r1, r2}
    BadKey = {r2}
    IdemKey = key
    Responses <- FewResponses
    MaxAttempts = 1
    RetryEnabled = TRUE
    Backoff <- MCBackoff
    RetryAfterCap = 1
    JournalEnabled = TRUE
    WriteFaults = TRUE
    DiscardFaults = TRUE
    Overlap = TRUE
INVARIANTS
    TypeOK
    AtMostOnce
    EventNeedsExpiry
    NeverForgotten
    OutcomeIsTruthful
PROPERTY
    KeepsObligation
\* Once the spend is settled and the record gone, nothing is left to do.
CHECK_DEADLOCK FALSE

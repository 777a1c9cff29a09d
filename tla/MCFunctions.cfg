SPECIFICATION Spec
CONSTANTS
    Statuses = {200, 201, 204, 302, 400, 401, 403, 404, 409, 410, 422, 429, 500, 503}
    HELD_CADENCE_CAP_MS = 4
    MIN_BEAT_DELAY_MS = 1
    RECOVERY_CAP_MS = 4
    SECOND = 2
    U64_MAX = 12
    RETRY_AFTER_CAP = 4
INVARIANTS
    VerdictIsRead
    RetriesStayDurable
    ReserveSuffices
    RetryAfterIsHonoured
    AcceptedLosesNothing
    RecoveryIsClientSide
    EnvironmentActsAsBuilder
CHECK_DEADLOCK FALSE

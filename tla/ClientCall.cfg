SPECIFICATION Spec
CONSTANTS
    MaxAttempts = 4
    BaseBackoff = 1
    RetryAfters = {0, 2, 30}
CHECK_DEADLOCK FALSE
INVARIANTS
    HttpTypeOK
    WishesRespected
    WaitLimited
    HonoursContract
PROPERTIES
    CallEnds
    CallRunsDown

SPECIFICATION FairSpec
CONSTANTS
    Cap = 2
    WIDEN_AFTER = 1
    Keys = {k}
    NoKey = NoKey
    HOLD_MAX = 1
    CACHE_LIFETIME = 1
    Calls = {a, b}
    QUEUE_WAIT_MAX = 2
    RetryAfters = {1, 2}
    MaxNow = 2
    MaxStarts = 3
INVARIANT PermitsAreHeld
INVARIANT NoLostWakeup
INVARIANT QueueIsWaiting
PROPERTY RetryAfterIsKept
PROPERTY HoldsToTheEnd
PROPERTY EveryCallEnds
CHECK_DEADLOCK FALSE

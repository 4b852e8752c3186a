SPECIFICATION FairSpec
CONSTANTS
    RetryCount = 3
    Timeout = 30
    Backoff <- MCBackoff
    Faults = {"transient", "brokenBody", "cancel"}
INVARIANTS TypeOK BackoffKept TimedOutWasHeld
PROPERTIES KeepsHttpCall CallEnds
CHECK_DEADLOCK FALSE

CONSTANTS
    Retries <- MCRetries
    Timeout = 2
    Horizon = 7
SPECIFICATION Spec
INVARIANT ProbesNeverPanic

\* A removed backend without a run is at rest.
CHECK_DEADLOCK FALSE
CONSTANTS
    c1 = c1
    c2 = c2
    Checks = {c1, c2}
    Lists <- OneOrTwo
    MaxChecks = 2
    Conditions = {"slow"}
    NoUpdate = NoUpdate
SPECIFICATION Spec
INVARIANT UpdateNeverCrashes

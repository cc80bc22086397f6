CONSTANTS
    z1 = z1
    z2 = z2
    b1 = b1
    b2 = b2
    r1 = r1
    r2 = r2
    Operator = Operator
    Nothing = Nothing
    Unreadable = Unreadable
    Zones = {z1}
    Backends = {b1, b2}
    Requests = {r1, r2}
    Targets <- TwoTargets
    Enables <- TwoDisable
    UsesProfiles = {}
    MaxSaves = 0
    MaxProfileSaves = 0
    MaxJobs = 1
    MaxEdits = 2
SPECIFICATION Spec
INVARIANTS
    SuccessIsWritten
\* Nobody writes any more: the bounds are reached.
CHECK_DEADLOCK FALSE

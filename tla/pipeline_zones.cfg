CONSTANTS
    z1 = z1
    z2 = z2
    b1 = b1
    b2 = b2
    r1 = r1
    r2 = r2
    Operator = Operator
    Nothing = Nothing
    Unreadable = Unreadable
    Zones = {z1, z2}
    Backends = {b1}
    Requests = {r1}
    Targets <- OneTarget
    Enables <- OneDisables
    UsesProfiles = {}
    MaxSaves = 0
    MaxProfileSaves = 0
    MaxJobs = 2
    MaxEdits = 1
SPECIFICATION FairSpec
INVARIANT TypeOK
PROPERTIES
    LoadsLikeOne
    Converges
    LoneRequestTakesEffect
\* Nobody writes any more: the bounds are reached.
CHECK_DEADLOCK FALSE

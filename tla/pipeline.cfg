CONSTANTS
    z1 = z1
    z2 = z2
    b1 = b1
    b2 = b2
    r1 = r1
    r2 = r2
    Operator = Operator
    Nothing = Nothing
    Unreadable = Unreadable
    Zones = {z1}
    Backends = {b1}
    Requests = {r1}
    Targets <- OneTarget
    Enables <- OneDisables
    UsesProfiles = {z1}
    MaxSaves = 2
    MaxProfileSaves = 2
    MaxJobs = 2
    MaxEdits = 2
SPECIFICATION FairSpec
INVARIANT TypeOK
PROPERTIES
    LoadsLikeOne
    Converges
    LoneRequestTakesEffect
\* Nobody writes any more: the bounds are reached.
CHECK_DEADLOCK FALSE

CONSTANTS
    c1 = c1
    c2 = c2
    Checks = {c1}
    Lists <- UpToOne
    MaxChecks = 1
    Conditions = {"up", "down", "slow"}
    NoUpdate = NoUpdate
SPECIFICATION FairSpec
INVARIANT TypeOK
PROPERTIES
    AliveIsEarned
    RunEnds
    ChangesAreDetected

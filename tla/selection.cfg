CONSTANTS
    a1 = a1
    a2 = a2
    a3 = a3
    b1 = b1
    eu = eu
    us = us
    none = none
    Order <- ThreeBackends
    Family <- FamilyOf3
    Labels = {eu, us, none}
    Unknown = Unknown
    Modes = {"failover", "roundrobin", "random", "weighted", "nearest", "fastest", "geoip",
             "unsupported"}
    Ranges <- MCRanges
    Infinity = 3
    MaxChanges = 2
SPECIFICATION Spec
INVARIANTS
    TypeOK
    NeverServedDown
    SteadyIsEnough
    NoBetterSteady
    LevelsInOrder
    NoneForgotten
    WheelIsProportional

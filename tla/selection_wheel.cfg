CONSTANTS
    a1 = a1
    a2 = a2
    a3 = a3
    b1 = b1
    eu = eu
    us = us
    none = none
    Order <- FourBackends
    Family <- FamilyOf4
    Labels = {eu, us, none}
    Unknown = Unknown
    Modes = {"weighted"}
    Ranges <- MCRanges
    Infinity = 3
    MaxChanges = 2
SPECIFICATION Spec
INVARIANTS
    WheelStops

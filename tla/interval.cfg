CONSTANTS
    Intervals = {1, 2, 3}
    Multiplier = 2
    IdleTimeout = 3
    MaxCheck = 4
    Never = Never
    Horizon = 9
SPECIFICATION Spec
INVARIANTS
    TypeOK
    GapBounded
    ActiveBecomesFast

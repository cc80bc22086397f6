CONSTANTS
    Addresses = {a, b, c}
    MaxUpdates = 1
    Nil = Nil
SPECIFICATION Spec
INVARIANTS
    ScansNeverPanic

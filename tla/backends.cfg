CONSTANTS
    Addresses = {a, b, c}
    MaxUpdates = 3
    Nil = Nil
SPECIFICATION Spec
INVARIANTS
    TypeOK
    ListMatchesFile
    NoneMissed
    QuietScansAreExact
PROPERTIES
    KnownAreKept
SYMMETRY Symmetry

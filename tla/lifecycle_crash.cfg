CONSTANTS
    i1 = i1
    i2 = i2
    z1 = z1
    z2 = z2
    a = a
    b = b
    c = c
    Zones = {z1, z2}
    Names = {a, c}
    ZoneOf <- MCZoneOf
    Intervals = {i1, i2}
    MaxRecords = 2
    BatchSize = 1
    NoRecord = NoRecord
    Absent = Absent
    Idle = Idle
SPECIFICATION Spec
INVARIANT ReloadNeverCrashes

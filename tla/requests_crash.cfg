CONSTANTS
    inner = inner
    outer = outer
    www = www
    api = api
    WWW = WWW
    elsewhere = elsewhere
    Names = {www, WWW, api, elsewhere}
    Zones = {inner, outer}
    Under <- MCUnder
    Lower <- MCLower
    DisableTXT = FALSE
    MaxReloads = 3
    NoRecord = NoRecord
SPECIFICATION Spec
INVARIANTS
    QueriesNeverCrash

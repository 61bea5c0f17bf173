SPECIFICATION Spec
CONSTANTS
    Devices = {d1}
    Requests = {r1, r2, r3}
    Sectors = 4
    NoRequest = NoRequest
INVARIANTS
    TypeOK
    NothingLost
PROPERTIES
    SweepKept
    EveryRequestServed

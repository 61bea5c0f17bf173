SPECIFICATION Spec
CONSTANTS
    Devices = {d1, d2}
    Requests = {r1, r2, r3}
    Sectors = 4
    NoRequest = NoRequest
PROPERTY EveryRequestServed

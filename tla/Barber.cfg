SPECIFICATION Spec
CONSTANTS
    Customers = {c1, c2, c3}
    Seats = 1
    Times = {short, long}
    Arrivals = 3
INVARIANTS
    TypeOK
    OneChair
    SleepSeen
PROPERTY
    SameDuration

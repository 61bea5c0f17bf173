SPECIFICATION Spec
CONSTANTS
    Customers = {c1, c2, c3, c4, c5}
    Seats = 3
    Barber = Barber
    Nobody = Nobody
INVARIANTS
    TypeOK
    SeatsExact
    HaircutsExact
PROPERTIES
    TurnedAwayOnlyWhenFull
    WaitingIsServed

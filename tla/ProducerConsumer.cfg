SPECIFICATION Spec
CONSTANTS
    Producers = {p1, p2}
    Consumers = {c1}
    Nobody = Nobody
    Slots = 3
    Leftover = {0, 1}
    Turns = 5
INVARIANTS
    TypeOK
    ItemsAnnounced
PROPERTIES
    TakesWhole
    NobodySleepsOn

SPECIFICATION Spec
CONSTANTS
    Producers = {p1}
    Consumers = {c1, c2}
    Nobody = Nobody
    Slots = 3
    Leftover = {0, 1}
    Turns = 5
PROPERTY
    TakesAnItem

SPECIFICATION TableSpec
CONSTANTS
    N = 5
    Nobody = Nobody
INVARIANTS
    TableTypeOK
    ForksReturned
PROPERTY
    SomebodyEats

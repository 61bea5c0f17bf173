SPECIFICATION TableSpec
CONSTANTS
    N = 5
    Nobody = Nobody
INVARIANT NeighboursApart

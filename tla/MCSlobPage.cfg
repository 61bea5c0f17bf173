SPECIFICATION Spec
CONSTANTS
    PageUnits = 6
    Requests <- MCRequests
    UserWords <- MCUserWords
INVARIANTS
    TypeOK
    FreeListExact
    UnitsExact
PROPERTIES
    LoopsEnd
    HeapSpec

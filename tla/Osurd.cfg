SPECIFICATION Spec
CONSTANTS
    Threads = {t1, t2}
    Nobody = Nobody
    Driver = Driver
    Sectors = 3
    Extents <- MCExtents
    Modes = {"RM_SIMPLE", "RM_NOQUEUE"}
    Kinds = {"fs"}
    Blank = Blank
    Gibberish = Gibberish
    Stray = Stray
INVARIANTS
    TypeOK
    TimerStopped
    ReadsAsWritten
PROPERTIES
    CallsReturn

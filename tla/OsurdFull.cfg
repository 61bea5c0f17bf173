SPECIFICATION Spec
CONSTANTS
    Threads = {t1, t2}
    Nobody = Nobody
    Driver = Driver
    Sectors = 2
    Extents <- MCExtents
    Modes = {"RM_FULL"}
    Kinds = {"fs"}
    Blank = Blank
    Gibberish = Gibberish
    Stray = Stray
INVARIANT WorksOnItsRequest

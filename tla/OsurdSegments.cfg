SPECIFICATION Spec
CONSTANTS
    Threads = {t1, t2}
    Nobody = Nobody
    Driver = Driver
    Sectors = 4
    Extents <- MCExtents
    Modes = {"RM_NOQUEUE"}
    Kinds = {"fs"}
    Blank = Blank
    Gibberish = Gibberish
    Stray = Stray
INVARIANT SegmentsInPlace

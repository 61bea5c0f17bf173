SPECIFICATION ModuleSpec
CONSTANTS
    Threads = {t1, t2}
    Nobody = Nobody
    Driver = Driver
    Sectors = 2
    Extents <- MCExtents
    Modes = {"RM_SIMPLE", "RM_NOQUEUE"}
    Kinds = {"fs"}
    Blank = Blank
    Gibberish = Gibberish
    Stray = Stray
    ndevices = 2
INVARIANT
    FreesItsOwn

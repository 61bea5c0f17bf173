SPECIFICATION Spec
CONSTANTS
    Threads = {t1}
    Pages = {p1, p2}
    NoThread = NoThread
    NoPage = NoPage
    PageUnits = 4
    Break1 = 4
    Break2 = 5
    MinAlign = 2
    RcuFooter = 2
    KmallocSizes = {1}
    Caches <- MCCaches
    CounterRange = 4
SYMMETRY Symmetry
INVARIANT GrowsOnlyWithoutRoom

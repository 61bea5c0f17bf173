SPECIFICATION Spec
CONSTANTS
    Threads = {t1, t2}
    Pages = {p1}
    NoThread = NoThread
    NoPage = NoPage
    PageUnits = 3
    Break1 = 3
    Break2 = 5
    MinAlign = 2
    RcuFooter = 2
    KmallocSizes = {1, 4}
    Caches <- MCCaches
    CounterRange = 3
PROPERTIES
    CallsReturn
    FreshUnits

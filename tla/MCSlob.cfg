SPECIFICATION Spec
CONSTANTS
    Threads = {t1, t2}
    Pages = {p1, p2}
    NoThread = NoThread
    NoPage = NoPage
    PageUnits = 4
    Break1 = 3
    Break2 = 5
    MinAlign = 2
    RcuFooter = 2
    KmallocSizes = {1, 6}
    Caches <- MCCaches
    CounterRange = 1
SYMMETRY Symmetry
INVARIANTS
    TypeOK
    PagesExact
    Routable
    OneClassPerPage
PROPERTIES
    PagesKeepPromise
    HeapSpec

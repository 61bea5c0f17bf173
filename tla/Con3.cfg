SPECIFICATION Spec
CONSTANTS
    Searchers = {s1, s2}
    Inserters = {i1, i2}
    Deleter = d
    Inserts = 1
    Searches = 1
SYMMETRY Alike
INVARIANTS
    TypeOK
    LinksLeadOn
    DeleterStaysInList

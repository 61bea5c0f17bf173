SPECIFICATION Spec
CONSTANTS
    Searchers = {s1}
    Inserters = {i1, i2}
    Deleter = d
    Inserts = 2
    Searches = 1
INVARIANT
    WalksInList

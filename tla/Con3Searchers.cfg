SPECIFICATION Spec
CONSTANTS
    Searchers = {s1, s2}
    Inserters = {i1}
    Deleter = d
    Inserts = 1
    Searches = 1
PROPERTY
    NobodyWaitsForGood

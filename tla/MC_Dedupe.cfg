CONSTANTS
    CommandIDs = {c1, c2, c3}
    TTL = 1
    MaxEntries = 2
    MaxTime = 3
SPECIFICATION Spec
SYMMETRY Symmetry
INVARIANTS DedupeInv
PROPERTIES NoEarlyRegrant ActsAsSet

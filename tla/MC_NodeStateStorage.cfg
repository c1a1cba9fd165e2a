CONSTANTS
    w1 = w1
    w2 = w2
    rd1 = rd1
    rd2 = rd2
    k1 = k1
    k2 = k2
    b1 = b1
    b2 = b2
    NONE = NONE
    Keys = {k1, k2}
    BlockIds = {b1, b2}
    Writers = {w1}
    Readers <- MCReader
    MaxCrashes = 1
    MaxJobs = 2
    MaxStoreErrors = 1
SPECIFICATION Spec
INVARIANTS
    TypeOK
    DbMatchesLastWrite
PROPERTIES
    WrittenStateReachesDb

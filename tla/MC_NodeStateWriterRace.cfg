CONSTANTS
    w1 = w1
    w2 = w2
    rd1 = rd1
    rd2 = rd2
    k1 = k1
    k2 = k2
    b1 = b1
    b2 = b2
    NONE = NONE
    Keys = {k1}
    BlockIds = {b1, b2}
    Writers = {w1, w2}
    Readers = {}
    MaxCrashes = 0
    MaxJobs = 2
    MaxStoreErrors = 0
SPECIFICATION Spec
INVARIANT
    CacheAgreesWithDb

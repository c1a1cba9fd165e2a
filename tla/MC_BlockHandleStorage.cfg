CONSTANTS
    t1 = t1
    t2 = t2
    r1 = r1
    fData = fData
    fApplied = fApplied
    NONE = NONE
    Tasks <- MCTasks
    RootHashes = {r1}
    Flags = {fData}
    MaxHandles = 2
    MaxCrashes = 1
    MaxJobs = 2
    MaxDropJobs = 1
SYMMETRY MCSymmetry
SPECIFICATION Spec
INVARIANTS
    TypeOK
    LiveHandleCached

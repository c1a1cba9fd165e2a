CONSTANTS
    t1 = t1
    t2 = t2
    fData = fData
    fArchiving = fArchiving
    Tasks = {t1, t2}
    Flags = {fData, fArchiving}
    Unserialized = {fArchiving}
    RefSeqNos = {1, 2}
    MaxJobs = 2
    MaxCrashes = 1
SPECIFICATION Spec
INVARIANTS
    QuiescentRecordCurrent
PROPERTIES
    SetFlagEventuallyStored

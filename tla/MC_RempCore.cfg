CONSTANTS
    MaxSeqno = 3
    MaxTime = 1
    RpGuarantee = 0
    Ids <- MCIds
    UidOf <- MCUidOf
SPECIFICATION Spec
INVARIANTS
    TypeOK
    PendingHasBody
    GcLeavesNothingExpired

CONSTANTS
    MaxSeqno = 6
    MaxTime = 6
    RpGuarantee = 2
SPECIFICATION SessSpec
INVARIANTS
    SessTypeOK
PROPERTIES
    AliveStartMonotone

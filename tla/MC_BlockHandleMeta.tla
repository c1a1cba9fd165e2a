------------------------- MODULE MC_BlockHandleMeta -------------------------
(* One block handle's meta for TLC: two concurrent callers, a flag that    *)
(* is written and FLAG_ARCHIVING that is not, two masterchain seqnos.      *)
EXTENDS BlockHandleMeta

CONSTANTS t1, t2, fData, fArchiving
=============================================================================

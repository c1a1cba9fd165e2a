----------------------- MODULE MC_BlockHandleStorage -----------------------
(* Block handle storage for TLC: two concurrent tasks, one block.         *)
EXTENDS BlockHandleStorage, TLC

CONSTANTS t1, t2, r1, fData, fApplied

MCTasks == {t1, t2}
MCSymmetry == Permutations(MCTasks)
=============================================================================

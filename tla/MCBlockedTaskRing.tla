--------------------------- MODULE MCBlockedTaskRing ---------------------------
(* A buffer shared by one task more than it has slots: full buffers,         *)
(* evictions, refusals and coalescing all occur within a few game loops, and *)
(* a record may leave from between two others.                               *)
EXTENDS BlockedTaskRing

CONSTANTS t1, t2, t3, t4

MCSignatures == {t1, t2, t3, t4}
MCReasons == {"NoValidPlacement"}
MCDelay == [r \in Reasons |-> 2]
MCSymmetry == Permutations(MCSignatures)
=============================================================================

----------------------------- MODULE MCSrwLock ------------------------------
(* Instances of SrwLock for TLC.                                           *)
EXTENDS SrwLock, TLC

CONSTANTS t1, t2, t3, t4

ThreeThreads == {t1, t2, t3}
FourThreads == {t1, t2, t3, t4}

Symmetry == Permutations(Threads)
=============================================================================

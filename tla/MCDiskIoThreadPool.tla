------------------------- MODULE MCDiskIoThreadPool -------------------------
(* Model-checking instance of DiskIoThreadPool.                            *)
EXTENDS DiskIoThreadPool, TLC

ThreadSymmetry == Permutations(Threads)
=============================================================================

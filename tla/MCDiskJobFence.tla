--------------------------- MODULE MCDiskJobFence ---------------------------
(* Model-checking instance of DiskJobFence.                                *)
EXTENDS DiskJobFence
=============================================================================

------------------------- MODULE MCDiskBackpressure -------------------------
(* Model-checking instances of DiskBackpressure.                           *)
EXTENDS DiskBackpressure, TLC

PeerSymmetry == Permutations(Peers)
=============================================================================

---------------------------- MODULE MCBtDemux ----------------------------
(* Instances of BtDemux for TLC. *)
EXTENDS BtDemux

(* A file that starts inside piece 0 and ends inside piece 2, played while *)
(* it is downloaded and from disk; and from disk, one that ends with piece *)
(* 2 and is too large for an int, and a shorter one that is sought twice.  *)
Inside == [start |-> 1, end |-> 5]
ToTheEnd == [start |-> 1, end |-> 6]
Short == [start |-> 1, end |-> 3]

MCOpenings ==
    {[file |-> Inside, seeder |-> FALSE, seeks |-> 1],
     [file |-> Inside, seeder |-> TRUE, seeks |-> 1],
     [file |-> ToTheEnd, seeder |-> TRUE, seeks |-> 1],
     [file |-> Short, seeder |-> TRUE, seeks |-> 2]}

(* A seek has no stop position, or one inside piece 1.                     *)
MCStops == {-1, 2}
============================================================================

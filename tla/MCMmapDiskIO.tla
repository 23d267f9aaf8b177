---------------------------- MODULE MCMmapDiskIO ----------------------------
(* Model-checking instances of MmapDiskIO: jobs r1 and r2 read one and two *)
(* blocks, w1, w2 and w3 write block 0, block 1 and block 0 again, h1      *)
(* hashes the whole piece and h2 one block.                                *)
EXTENDS MmapDiskIO

CONSTANTS w1, w2, w3, r1, r2, h1, h2, f1

PieceBlocks == {0, 1}

JobBlocks ==
    [j \in WriteJobs \union ReadJobs \union HashJobs |->
        CASE j = w1 -> {0} [] j = w2 -> {1} [] j = w3 -> {0} [] j \in {r1, h2} -> {0} [] OTHER -> PieceBlocks]

(* Two blocks are written and read together; one of them is; one block is  *)
(* written twice; it is written and hashed.                                *)
ReadWorkloads == {{w1, w2, r2}, {w1, r2, f1}, {w1, w3, r1, f1}, {w1, h1, f1}}

(* A write and a fence job; a read and the hash job of a full check.       *)
LiveWorkloads == {{w1, f1}, {r2, h2}}

(* Numbers of generic and hashing threads, and the ways they are changed.  *)
TwoGenericOneHash == {<<2, 1>>}
NoneToTwo == {<<0, 0>>, <<1, 0>>, <<2, 0>>, <<1, 1>>}
BetweenOneAndTwo == {<< <<1, 0>>, <<2, 0>> >>, << <<2, 0>>, <<1, 0>> >>}

ThreadSymmetry == Permutations(GenericThreads)
=============================================================================

-------------------------- MODULE MCPieceDownload --------------------------
(* Model-checking instances of PieceDownload.                              *)
EXTENDS PieceDownload

(* The blocks of a piece are interchangeable; the peers are not, as only   *)
(* some have the fast extension.                                           *)
BlockSymmetry == Permutations(Blocks)

(* Once an entry was forgotten, only what holds regardless is checked: a   *)
(* few jobs are enough for that.                                           *)
FewJobsOnceForgotten == forgotten => Len(jobs) <= 2
=============================================================================

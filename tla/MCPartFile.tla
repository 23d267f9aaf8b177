--------------------------- MODULE MCPartFile ---------------------------
(* Instances of PartFile for TLC. *)
EXTENDS PartFile, TLC

(* A piece of the first file and one that both files share.  *)
TwoFiles == <<0, 1>> :> {1, 2} @@ <<1, 1>> :> {1} @@ <<1, 2>> :> {2}

Unwanted == {<<0, 0>>, <<0, 4>>}
==========================================================================

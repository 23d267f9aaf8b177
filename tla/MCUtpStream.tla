--------------------------- MODULE MCUtpStream ---------------------------
(* Instances of UtpStream for TLC. *)
EXTENDS UtpStream

(* The initiator's numbers wrap after its SYN. *)
WrapSoon == Initiator :> 14 @@ Acceptor :> 6

(* Three full packets; or a full and an undersized one with an answer.     *)
OneOrBothWays ==
    {Initiator :> <<6>> @@ Acceptor :> <<>>, Initiator :> <<3>> @@ Acceptor :> <<1>>}
==========================================================================

----------------------------- MODULE ByteStream -----------------------------
(***************************************************************************)
(* What a connection promises in each direction: the receiver is given     *)
(* what the sender wrote, in order and once, and hears of the end of the   *)
(* stream only when the sender has closed it and all of it has arrived.    *)
(***************************************************************************)
EXTENDS Naturals, Sequences

CONSTANT Ends

VARIABLES
    written,        \* end -> the units it has written
    closed,         \* end -> has it closed its direction?
    received,       \* end -> the units it was given
    eof             \* end -> was it told of the end of the stream?

streamVars == <<written, closed, received, eof>>

Other(e) == CHOOSE f \in Ends : f # e

Init ==
    /\ written = [e \in Ends |-> <<>>] /\ received = [e \in Ends |-> <<>>]
    /\ closed = [e \in Ends |-> FALSE] /\ eof = [e \in Ends |-> FALSE]

Write(e) ==
    /\ ~ closed[e]
    /\ Len(written'[e]) > Len(written[e])
    /\ written' = [written EXCEPT ![e] = @ \o SubSeq(written'[e], Len(@) + 1, Len(written'[e]))]
    /\ UNCHANGED <<closed, received, eof>>

Close(e) ==
    /\ ~ closed[e]
    /\ closed' = [closed EXCEPT ![e] = TRUE]
    /\ UNCHANGED <<written, received, eof>>

Receive(e) ==
    /\ ~ eof[e]
    /\ \E n \in Len(received[e]) + 1 .. Len(written[Other(e)]) :
           received' = [received EXCEPT ![e] = SubSeq(written[Other(e)], 1, n)]
    /\ UNCHANGED <<written, closed, eof>>

(* The last units and the end of the stream may be told together.          *)
End(e) ==
    /\ ~ eof[e] /\ closed[Other(e)]
    /\ received' = [received EXCEPT ![e] = written[Other(e)]]
    /\ eof' = [eof EXCEPT ![e] = TRUE]
    /\ UNCHANGED <<written, closed>>

Next == \E e \in Ends : Write(e) \/ Close(e) \/ Receive(e) \/ End(e)

Spec == Init /\ [][Next]_streamVars
=============================================================================

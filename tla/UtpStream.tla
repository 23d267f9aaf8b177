----------------------------- MODULE UtpStream -----------------------------
(***************************************************************************)
(* A uTP connection (utp_stream.cpp): two utp_socket_impl objects and the  *)
(* UDP packets between them, which may be lost, duplicated and reordered.  *)
(* Each socket numbers its packets modulo Modulus, holds what was sent in   *)
(* m_outbuf until it is acked (cumulatively or by a selective ack), and    *)
(* resends it after duplicate acks or a timeout; the peer puts packets in  *)
(* order in m_inbuf.  A FIN ends a direction of the stream.                *)
(*                                                                         *)
(* The stream is a sequence of units, of which Mss fit in a packet.  Time  *)
(* is left out: a timeout may race any packet.  So are the sizes of the    *)
(* windows (whether there is room is a choice, and there is room when      *)
(* nothing is in flight, since m_cwnd is at least one packet) and MTU      *)
(* discovery.                                                              *)
(*                                                                         *)
(* A handler of the code runs to its end before another one starts.  Its   *)
(* calls of send_pkt, each of which the UDP socket may refuse, are steps   *)
(* of their own: calls holds what the handler of the socket turn has left  *)
(* to do.  The operators named BUG_... are wrong variants of the           *)
(* definition that follows them.                                           *)
(***************************************************************************)
EXTENDS Integers, Sequences, FiniteSets, SequencesExt, FiniteSetsExt, TLC

CONSTANTS
    Initiator, Acceptor,    \* the two ends
    Modulus,         \* ACK_MASK + 1: sequence numbers are modulo this
    FirstSeq,       \* end -> the sequence number it starts from
    MaxReorder,     \* max_packets_reorder
    DupAckLimit,    \* dup_ack_limit
    Mss,            \* units in a full packet
    Resends, SynResends, FinResends,    \* utp_num_resends, utp_syn_resends, utp_fin_resends
    Workloads,      \* bound: what the users write: end -> the sizes of its writes, in order
    HalfClosers,    \* the ends whose user may close the stream before letting go of it
    MaxFaults       \* bound on the packets lost, duplicated, reordered or refused by the
                    \*   UDP socket, and on the timeouts while a packet or an ack is on its way

Ends == {Initiator, Acceptor}
Peer(e) == CHOOSE f \in Ends : f # e

ASSUME UtpAssumption ==
    /\ Initiator # Acceptor
    /\ {Modulus, MaxReorder, DupAckLimit, Mss, Resends} \subseteq Nat \ {0}
    /\ 2 * MaxReorder < Modulus
    /\ FirstSeq \in [Ends -> 0 .. Modulus - 1]
    /\ {SynResends, FinResends, MaxFaults} \subseteq Nat /\ HalfClosers \subseteq Ends
    /\ \A w \in Workloads : \A e \in Ends : w[e] \in Seq(Nat \ {0})

VARIABLES
    sock,           \* end -> its utp_socket_impl
    net,            \* end -> the packets on their way to it, in the order they were sent
    turn, calls,    \* the socket whose handler runs, and what is left of it
    writes,         \* end -> the sizes of its writes to come
    faults          \* counter against MaxFaults

vars == <<sock, net, turn, calls, writes, faults>>
-----------------------------------------------------------------------------
(***************************************************************************)
(* Sequence numbers.                                                       *)
(***************************************************************************)

Plus(q, n) == (q + n) % Modulus
Dist(q, r) == (r - q) % Modulus

(* compare_less_wrap *)
LessWrap(q, r) == Dist(q, r) < Dist(r, q)

(* The numbers after q, up to r.                                           *)
After(q, r) == {Plus(q, n) : n \in 1 .. Dist(q, r)}
-----------------------------------------------------------------------------
(***************************************************************************)
(* Sockets.  An entry of outbuf is a packet with its need_resend and       *)
(* num_transmissions; one of inbuf is a payload.  The write buffer holds   *)
(* the next wbuf units; packed units were put in packets, the last nagle   *)
(* of them in m_nagle_packet.                                              *)
(***************************************************************************)

NewSocket ==
    [state |-> "none", attached |-> TRUE, confirmed |-> FALSE,
     seq_nr |-> 0, acked_seq_nr |-> 0, ack_nr |-> 0, fast_resend_seq_nr |-> 0,
     nagle_seq_nr |-> 0, outbuf |-> <<>>, inbuf |-> <<>>,
     writing |-> "no", wbuf |-> 0, packed |-> 0, nagle |-> 0, nagle_sack |-> FALSE,
     bytes_in_flight |-> 0, duplicate_acks |-> 0, num_timeouts |-> 0,
     in_eof |-> FALSE, in_eof_seq_nr |-> 0, out_eof |-> FALSE,
     deferred_ack |-> FALSE, owes_ack |-> FALSE, stalled |-> FALSE, received |-> <<>>]

Errored(s) == s.state \in {"error_wait", "deleting"}

Without(f, S) == [x \in DOMAIN f \ S |-> f[x]]
Size(p) == p.upto - p.from
Units(p) == [i \in 1 .. Size(p) |-> p.from + i]

InFlight(outbuf, Q) ==
    MapThenSumSet(LAMBDA q : IF outbuf[q].need_resend THEN 0 ELSE Size(outbuf[q]),
                  Q \cap DOMAIN outbuf)

(* An error is set; test_socket_state tells the user if it waits for       *)
(* anything (see Notice).                                                  *)
Fail(s) == [s EXCEPT !.state = "error_wait"]

(* maybe_inc_acked_seq_nr *)
MaybeIncAckedSeqNr(s) ==
    LET last == IF s.state = "fin_sent" THEN s.seq_nr ELSE Plus(s.seq_nr, -1)
        n == CHOOSE n \in 0 .. Dist(s.acked_seq_nr, last) :
                 /\ \A i \in 1 .. n : Plus(s.acked_seq_nr, i) \notin DOMAIN s.outbuf
                 /\ \/ n = Dist(s.acked_seq_nr, last)
                    \/ Plus(s.acked_seq_nr, n + 1) \in DOMAIN s.outbuf
        acked == Plus(s.acked_seq_nr, n)
    IN  IF n = 0 THEN s
        ELSE [s EXCEPT !.acked_seq_nr = acked,
                       !.duplicate_acks = 0,
                       !.fast_resend_seq_nr =
                           IF Dist(s.acked_seq_nr, @) < n THEN acked ELSE @]

(* The packets Q were acked: ack_packet for each of them.                  *)
AckPackets(s, Q) ==
    MaybeIncAckedSeqNr([s EXCEPT
        !.bytes_in_flight = @ - InFlight(s.outbuf, Q),
        !.outbuf = Without(@, Q)])

NoDuplicates(s) == IF s.outbuf = <<>> THEN [s EXCEPT !.duplicate_acks = 0] ELSE s

(* All packets up to ack were acked.                                       *)
BUG_AcksOneTooMany(s, ack) == NoDuplicates(AckPackets(s, After(s.acked_seq_nr, Plus(ack, 1))))
CumulativeAck(s, ack) ==
    LET Q == After(s.acked_seq_nr, ack)
    IN  NoDuplicates(AckPackets(
            [s EXCEPT !.fast_resend_seq_nr = IF @ \in Q THEN Plus(ack, 1) ELSE @], Q))

(* parse_sack: the packets to resend at once are those with more than      *)
(* dup_ack_limit packets after them that were received.                    *)
SelectiveAck(s, p) == NoDuplicates(AckPackets(s, p.sack))

FastResends(s, p) ==
    {q \in After(p.ack, Plus(s.seq_nr, -1)) \ p.sack :
        /\ ~ LessWrap(q, s.fast_resend_seq_nr)
        /\ Cardinality({r \in p.sack : LessWrap(q, r)}) > DupAckLimit}

InOrder(Q, from) ==
    SetToSortSeq(Q, LAMBDA q, r : Dist(from, q) < Dist(from, r))
-----------------------------------------------------------------------------
(***************************************************************************)
(* Sending.  Every operator gives the socket after the step; ok is whether *)
(* the UDP socket took the packet.  A packet that it did not take waits in *)
(* outbuf, with need_resend set, until writable() is called.               *)
(***************************************************************************)

Send == [op |-> "send"]         \* while (send_pkt());
SendOnce == [op |-> "once"]     \* send_pkt();
SendAck == [op |-> "ack"]       \* send_pkt(pkt_ack);
SendAckLoop == [op |-> "ackloop"]   \* if (send_pkt(pkt_ack)) while (send_pkt());
SendFin == [op |-> "fin"]       \* send_fin();

Packet(e, type, seq, from, upto, sack) ==
    [to |-> Peer(e), type |-> type, seq |-> seq, ack |-> sock[e].ack_nr, sack |-> sack,
     from |-> from, upto |-> upto]

Entry(p, ok) == p @@ [need_resend |-> ~ ok, num_transmissions |-> IF ok THEN 1 ELSE 0]
OnWire(p) == [f \in {"to", "type", "seq", "ack", "sack", "from", "upto"} |-> p[f]]

Wire(ok, p, others) ==
    LET n == others + (IF ok THEN 0 ELSE 1) IN
    /\ n <= MaxFaults
    /\ net' = IF ok THEN [net EXCEPT ![p.to] = Append(@, p)] ELSE net
    /\ faults' = n

SendPacket(ok, p) == Wire(ok, p, faults) /\ UNCHANGED writes

(* The header of packet q as it is resent.                                 *)
Refreshed(s, q) ==
    LET p == s.outbuf[q]
    IN  [p EXCEPT !.ack = s.ack_nr,
                  !.sack = IF @ # {} /\ p.ack # s.ack_nr THEN DOMAIN s.inbuf ELSE @]

(* resend_packet, of a socket that is not stalled.                         *)
BUG_ResendOffTheBooks(s, q, ok) ==
    [s EXCEPT !.outbuf[q] = [Refreshed(s, q) EXCEPT !.need_resend = ~ ok], !.stalled = ~ ok]
ResendPacket(s, q, ok) ==
    LET p == s.outbuf[q]
        before == IF p.need_resend THEN Size(p) ELSE 0
    IN  [s EXCEPT
            !.outbuf[q] = [Refreshed(s, q) EXCEPT
                !.need_resend = ~ ok,
                !.num_transmissions = IF ok THEN Min({@ + 1, Resends}) ELSE @],
            !.bytes_in_flight = @ + before - (IF ok THEN 0 ELSE Size(p)),
            !.stalled = ~ ok,
            !.owes_ack = @ /\ ~ ok]

NeedResend(s) ==
    {q \in After(s.acked_seq_nr, Plus(s.seq_nr, -1)) \cap DOMAIN s.outbuf : s.outbuf[q].need_resend}

Passed(s, q) == IF s.fast_resend_seq_nr = q THEN [s EXCEPT !.fast_resend_seq_nr = Plus(q, 1)] ELSE s

(* The current call of send_pkt.                                           *)
Op == Head(calls).op
IsSendPkt == calls # <<>> /\ Op \in {"send", "once", "ack", "ackloop", "fin"}
IsAck == Op \in {"ack", "ackloop"}
Force == IsAck \/ Op = "fin" \/ sock[turn].out_eof

(* It returns more.                                                        *)
Returned(s, more) ==
    /\ sock' = [sock EXCEPT ![turn] = IF Op = "fin" THEN [s EXCEPT !.state = "fin_sent"] ELSE s]
    /\ calls' = CASE more /\ Op = "send" -> calls
                  [] more /\ Op = "ackloop" -> <<Send>> \o Tail(calls)
                  [] OTHER -> Tail(calls)
    /\ UNCHANGED turn

Nothing(s) == Returned(s, FALSE) /\ UNCHANGED <<net, writes, faults>>

SendStalled ==
    /\ IsSendPkt /\ sock[turn].stalled
    /\ Nothing([sock[turn] EXCEPT !.deferred_ack = @ \/ IsAck])

(* Before anything new is sent, the packets that need it are resent.       *)
SendResend ==
    LET s == sock[turn]
        q == CHOOSE q \in NeedResend(s) : \A r \in NeedResend(s) :
                 Dist(s.acked_seq_nr, q) <= Dist(s.acked_seq_nr, r)
    IN  /\ IsSendPkt /\ ~ s.stalled /\ NeedResend(s) # {} /\ ~ Errored(s)
        /\ \E ok \in BOOLEAN :
               /\ SendPacket(ok, OnWire(Refreshed(s, q)))
               /\ IF ok THEN /\ sock' = [sock EXCEPT ![turn] = Passed(ResendPacket(s, q, ok), q)]
                             /\ UNCHANGED <<turn, calls>>
                        ELSE Returned(ResendPacket(s, q, ok), FALSE)

(* They do not fit in the window.                                          *)
SendNoRoom ==
    LET s == sock[turn]
    IN  /\ IsSendPkt /\ ~ s.stalled /\ NeedResend(s) # {}
        /\ Errored(s) \/ (s.bytes_in_flight > 0 /\ ~ Force)
        /\ Nothing(s)

(* A new packet.  Its payload is what the nagle packet and the write       *)
(* buffer have; room is whether that fits in the window.                   *)
Pending(s) == s.nagle + s.wbuf

Filled(s) ==
    LET take == Min({s.wbuf, Mss - s.nagle})
    IN  [s EXCEPT !.wbuf = @ - take, !.packed = @ + take, !.nagle = @ + take,
                  !.writing = IF @ # "no" /\ take > 0 THEN "some" ELSE @,
                  !.nagle_sack = IF s.nagle > 0 THEN @ ELSE s.inbuf # <<>>]

MaySendNew(s) ==
    /\ IsSendPkt /\ ~ s.stalled
    /\ NeedResend(s) = {} \/ (s.bytes_in_flight > 0 /\ Force /\ ~ Errored(s))

(* An undersized packet waits for the ack of an earlier one.               *)
Nagle(s) ==
    /\ s.bytes_in_flight > 0 /\ Pending(s) < Mss /\ ~ Force
    /\ LessWrap(s.acked_seq_nr, s.nagle_seq_nr)

(* The socket after its packet, which has payload unless bare, was handed  *)
(* to the UDP socket.                                                      *)
Handed(s, ok, bare) ==
    [s EXCEPT !.stalled = ~ ok,
              !.deferred_ack = ~ ok /\ (@ \/ (bare /\ IsAck)),
              !.owes_ack = @ /\ ~ ok]

SendNothing ==
    LET s == sock[turn]
    IN  /\ MaySendNew(s) /\ ~ Force
        /\ Pending(s) = 0 \/ s.bytes_in_flight > 0
        /\ Nothing(s)

SendHold ==
    LET s == sock[turn]
    IN  /\ MaySendNew(s) /\ Pending(s) > 0 /\ Nagle(s)
        /\ Nothing(Filled(s))

SendData ==
    LET s == sock[turn]
        f == Filled(s)
        p == Packet(turn, "DATA", s.seq_nr, f.packed - f.nagle, f.packed,
                    IF f.nagle_sack THEN DOMAIN s.inbuf ELSE {})
    IN  /\ MaySendNew(s) /\ Pending(s) > 0 /\ ~ Nagle(s)
        /\ \E ok \in BOOLEAN :
               /\ SendPacket(ok, p)
               /\ Returned(Handed([f EXCEPT
                               !.nagle = 0,
                               !.outbuf = (s.seq_nr :> Entry(p, ok)) @@ @,
                               !.nagle_seq_nr = IF f.nagle < Mss THEN s.seq_nr ELSE @,
                               !.seq_nr = Plus(@, 1),
                               !.bytes_in_flight = @ + (IF ok THEN Size(p) ELSE 0)], ok, FALSE),
                           f.wbuf > 0 /\ ok)

(* An ack or a FIN.  m_seq_nr is the number of the next packet with        *)
(* payload, or of the FIN.                                                 *)
SendBare ==
    LET s == sock[turn]
        p == Packet(turn, IF Op = "fin" THEN "FIN" ELSE "STATE", s.seq_nr, 0, 0, DOMAIN s.inbuf)
    IN  /\ MaySendNew(s) /\ Force
        /\ Pending(s) = 0 \/ (s.bytes_in_flight > 0 /\ IsAck)
        /\ \E ok \in BOOLEAN :
               /\ SendPacket(ok, p)
               /\ IF Op = "fin"
                  THEN Returned(Handed([s EXCEPT !.outbuf = (s.seq_nr :> Entry(p, ok)) @@ @], ok, TRUE),
                                FALSE)
                  ELSE /\ sock' = [sock EXCEPT ![turn] = Handed(s, ok, TRUE)]
                       /\ calls' = (IF s.out_eof /\ Pending(s) = 0 /\ s.state = "connected"
                                    THEN <<SendFin>> ELSE <<>>) \o Tail(calls)
                       /\ UNCHANGED turn

SendPkt ==
    SendStalled \/ SendResend \/ SendNoRoom \/ SendNothing \/ SendHold \/ SendData \/ SendBare
-----------------------------------------------------------------------------
(***************************************************************************)
(* The other calls of a handler.                                           *)
(***************************************************************************)

MaySendFin(s) == s.out_eof /\ Pending(s) = 0 /\ s.state = "connected"
FinIf(b) == IF b THEN <<SendFin>> ELSE <<>>

Step(s, more) ==
    /\ sock' = [sock EXCEPT ![turn] = s]
    /\ calls' = more \o Tail(calls)
    /\ UNCHANGED <<turn, net, writes, faults>>

IsCall(op) == calls # <<>> /\ Op = op

(* maybe_trigger_send_callback: the user hears how much was written; the   *)
(* rest of the write buffer is the user's again.                           *)
SendCallback ==
    LET s == sock[turn]
        told == [s EXCEPT !.writing = "no", !.wbuf = 0]
    IN  /\ IsCall("callback")
        /\ IF s.writing = "some" THEN Step(told, FinIf(MaySendFin(told))) ELSE Step(s, <<>>)

(* The end of writable(): the nagle packet, then the FIN.                  *)
Flush ==
    /\ IsCall("flush")
    /\ Step(sock[turn], IF sock[turn].out_eof /\ sock[turn].nagle > 0 THEN <<SendOnce>> ELSE <<>>)

FinAfterFlush ==
    LET s == sock[turn]
    IN  /\ IsCall("finish")
        /\ Step(s, FinIf(MaySendFin(s) /\ s.seq_nr \notin DOMAIN s.outbuf))

(* Nothing was sent that acks what came in.                                *)
OweAck ==
    LET s == sock[turn]
    IN  /\ IsCall("owe")
        /\ Step([s EXCEPT !.owes_ack = FALSE, !.deferred_ack = @ \/ s.owes_ack], <<>>)

(* A fast resend: of a packet that parse_sack found lost, or of the first  *)
(* packet after dup_ack_limit duplicate acks.                              *)
FastResend ==
    LET s == sock[turn]
        q == Head(calls).seq
    IN  /\ IsCall("fast")
        /\ IF q \in DOMAIN s.outbuf /\ ~ s.stalled /\ ~ Errored(s)
           THEN \E ok \in BOOLEAN :
                    LET t == ResendPacket(s, q, ok)
                    IN  /\ SendPacket(ok, OnWire(Refreshed(s, q)))
                        /\ sock' = [sock EXCEPT ![turn] =
                               IF ok THEN [t EXCEPT !.duplicate_acks = 0, !.fast_resend_seq_nr = Plus(q, 1)]
                                     ELSE t]
                        /\ calls' = Tail(calls) /\ UNCHANGED turn
           ELSE Step(s, <<>>)

DupAckResend ==
    LET s == sock[turn]
        q == s.fast_resend_seq_nr
        t == [s EXCEPT !.fast_resend_seq_nr = Plus(q, 1)]
    IN  /\ IsCall("dup")
        /\ IF s.duplicate_acks >= DupAckLimit /\ Plus(s.acked_seq_nr, 1) = q
           THEN IF q \in DOMAIN s.outbuf /\ ~ s.stalled /\ ~ Errored(s)
                THEN \E ok \in BOOLEAN :
                         /\ SendPacket(ok, OnWire(Refreshed(s, q)))
                         /\ sock' = [sock EXCEPT ![turn] = ResendPacket(t, q, ok)]
                         /\ calls' = Tail(calls) /\ UNCHANGED turn
                ELSE Step(t, <<>>)
           ELSE Step(s, <<>>)
-----------------------------------------------------------------------------
(***************************************************************************)
(* incoming_packet.  A packet is first taken for what it acks, then for    *)
(* what it carries (the call "consume").                                   *)
(***************************************************************************)

Idle == calls = <<>>

Handler(e, s, todo) ==
    /\ turn' = e /\ calls' = todo
    /\ sock' = [sock EXCEPT ![e] = s]

(* Is p of no use?  Its ack may be out of range, it may be past the FIN or *)
(* too far out for the reorder buffer.                                     *)
Ignored(s, p) ==
    LET last == IF s.state \in {"syn_sent", "fin_sent", "deleting"} /\ p.type \in {"STATE", "FIN"}
                THEN s.seq_nr ELSE Plus(s.seq_nr, -1)
    IN  \/ LessWrap(last, p.ack)
        \/ LessWrap(p.ack, Plus(s.acked_seq_nr, - DupAckLimit))
        \/ s.in_eof /\ LessWrap(s.in_eof_seq_nr, p.seq)
        \/ s.state # "syn_sent" /\ LessWrap(Plus(s.ack_nr, MaxReorder), p.seq)

AckedInOrder(s, p) ==
    LET dup == IF p.ack = s.acked_seq_nr /\ s.outbuf # <<>> /\ p.type = "STATE"
               THEN [s EXCEPT !.duplicate_acks = Min({@ + 1, DupAckLimit})] ELSE s
    IN  IF LessWrap(s.acked_seq_nr, p.ack) THEN CumulativeAck(dup, p.ack) ELSE dup

Acked(s, p) ==
    LET t == AckedInOrder(s, p)
    IN  [(IF p.sack = {} THEN t ELSE SelectiveAck(t, p)) EXCEPT !.num_timeouts = 0]

(* A SYN makes the acceptor's socket.                                      *)
Accepted(e, p) ==
    [NewSocket EXCEPT !.state = "connected", !.ack_nr = p.seq,
                      !.seq_nr = FirstSeq[e], !.acked_seq_nr = Plus(FirstSeq[e], -1),
                      !.fast_resend_seq_nr = FirstSeq[e], !.deferred_ack = TRUE]

Incoming(e, p) ==
    LET s == sock[e]
        live == s.state \notin {"none", "gone"}
        fast == InOrder(FastResends(AckedInOrder(s, p), p), p.ack)
    IN  \/ /\ p.type = "SYN" /\ s.state = "none"
           /\ Handler(e, Accepted(e, p), <<>>)
        \/ /\ s.state # "none" \/ p.type # "SYN"
           /\ live /\ p.type # "SYN" => Ignored(s, p)
           /\ UNCHANGED <<sock, turn, calls>>
        \/ /\ live /\ p.type # "SYN" /\ ~ Ignored(s, p)
           /\ Handler(e, Acked(s, p), [i \in 1 .. Len(fast) |-> [op |-> "fast", seq |-> fast[i]]]
                                      \o <<[op |-> "dup"], [op |-> "consume", pkt |-> p]>>)

(* The i-th packet on its way to e arrives.                                *)
Arrive(e, i) ==
    /\ i \in DOMAIN net[e]
    /\ Incoming(e, net[e][i])
    /\ net' = [net EXCEPT ![e] = RemoveAt(@, i)]

Deliver(e) == Idle /\ Arrive(e, 1) /\ UNCHANGED <<writes, faults>>

(* consume_incoming_data: what the reorder buffer has next follows.        *)
Consumed(s, p) ==
    LET buf == (p.seq :> [from |-> p.from, upto |-> p.upto]) @@ s.inbuf
        n == CHOOSE n \in 1 .. Cardinality(DOMAIN buf) :
                 /\ \A i \in 1 .. n : Plus(s.ack_nr, i) \in DOMAIN buf
                 /\ Plus(s.ack_nr, n + 1) \notin DOMAIN buf
    IN  IF p.seq = Plus(s.ack_nr, 1)
        THEN [s EXCEPT !.ack_nr = Plus(@, n),
                       !.inbuf = Without(@, After(s.ack_nr, Plus(s.ack_nr, n))),
                       !.received = @ \o FlattenSeq([i \in 1 .. n |-> Units(buf[Plus(s.ack_nr, i)])])]
        ELSE [s EXCEPT !.inbuf = buf]

(* ... unless it was received before.                                      *)
Redundant(s, p) ==
    \/ s.in_eof /\ s.ack_nr = s.in_eof_seq_nr
    \/ ~ LessWrap(s.ack_nr, p.seq)
    \/ p.seq \in DOMAIN s.inbuf

ConsumeIncomingData(s, p) == IF p.type # "DATA" \/ Redundant(s, p) THEN s ELSE Consumed(s, p)

(* A FIN that is out of order is remembered, and acked when it comes again. *)
BUG_AckAnyFin(s, p) ==
    [s EXCEPT !.ack_nr = p.seq, !.in_eof = TRUE, !.in_eof_seq_nr = p.seq, !.deferred_ack = TRUE]
GotFin(s, p) ==
    [s EXCEPT !.ack_nr = IF p.seq = Plus(@, 1) THEN p.seq ELSE @,
              !.in_eof = TRUE,
              !.in_eof_seq_nr = IF s.in_eof THEN @ ELSE p.seq,
              !.deferred_ack = TRUE]

ConsumeFin ==
    /\ IsCall("consume") /\ Head(calls).pkt.type = "FIN"
    /\ Step(GotFin(sock[turn], Head(calls).pkt), <<>>)

(* In syn_sent only an ack of the SYN counts.                              *)
ConsumeNothing ==
    LET s == sock[turn]
        p == Head(calls).pkt
    IN  /\ IsCall("consume") /\ p.type # "FIN"
        /\ Errored(s) \/ (s.state = "syn_sent" /\ p.ack # Plus(s.seq_nr, -1))
        /\ Step(s, <<>>)

ConsumeConnected ==
    LET s == sock[turn]
        p == Head(calls).pkt
        t == IF s.state = "connected" THEN s
             ELSE [s EXCEPT !.state = "connected",
                            !.ack_nr = IF p.type = "DATA" THEN p.seq ELSE Plus(p.seq, -1)]
    IN  /\ IsCall("consume") /\ p.type # "FIN"
        /\ s.state = "connected" \/ (s.state = "syn_sent" /\ p.ack = Plus(s.seq_nr, -1))
        /\ Step([ConsumeIncomingData(t, p) EXCEPT !.confirmed = TRUE, !.owes_ack = p.type = "DATA"],
                <<Send, [op |-> "owe"]>>)

(* The FIN was acked when m_acked_seq_nr reaches m_seq_nr.                 *)
ConsumeFinSent ==
    LET s == sock[turn]
        p == Head(calls).pkt
        t == [ConsumeIncomingData(s, p) EXCEPT !.deferred_ack = @ \/ p.type = "DATA"]
    IN  /\ IsCall("consume") /\ p.type # "FIN" /\ s.state = "fin_sent"
        /\ Step(IF (p.type = "DATA" => ~ Redundant(s, p)) /\ s.acked_seq_nr = s.seq_nr
                THEN [t EXCEPT !.state = IF s.attached THEN "error_wait" ELSE "deleting"]
                ELSE t, <<>>)

Consume == ConsumeFin \/ ConsumeNothing \/ ConsumeConnected \/ ConsumeFinSent
-----------------------------------------------------------------------------
(***************************************************************************)
(* The user, the timer and the UDP socket.                                 *)
(***************************************************************************)

Other == UNCHANGED <<net, writes, faults>>

(* do_connect and send_syn *)
Connect ==
    LET e == Initiator
        q == FirstSeq[e]
        p == [to |-> Acceptor, type |-> "SYN", seq |-> q, ack |-> 0, sack |-> {}, from |-> 0, upto |-> 0]
    IN  /\ Idle /\ sock[e].state = "none"
        /\ \E ok \in BOOLEAN :
               /\ SendPacket(ok, p)
               /\ Handler(e, [NewSocket EXCEPT
                      !.state = "syn_sent", !.seq_nr = Plus(q, 1), !.acked_seq_nr = Plus(q, -1),
                      !.fast_resend_seq_nr = q, !.outbuf = q :> Entry(p, ok), !.stalled = ~ ok], <<>>)

(* issue_write.  The acceptor's user has nothing to say before it has heard *)
(* from the initiator's: the handshake of BitTorrent.                      *)
Write(e) ==
    LET s == sock[e]
    IN  /\ Idle /\ s.state = "connected" /\ s.attached /\ ~ s.out_eof /\ s.writing = "no"
        /\ writes[e] # <<>>
        /\ e = Acceptor => s.received # <<>>
        /\ writes' = [writes EXCEPT ![e] = Tail(@)]
        /\ Handler(e, [s EXCEPT !.writing = "waiting", !.wbuf = Head(writes[e])],
                   <<Send, [op |-> "callback"]>>)
        /\ UNCHANGED <<net, faults>>

(* close: a write that waits is over.                                      *)
Closed(s) == [s EXCEPT !.out_eof = TRUE, !.writing = "no",
                       !.wbuf = IF s.writing = "no" THEN @ ELSE 0]

Close(e) ==
    LET s == Closed(sock[e])
    IN  /\ Idle /\ sock[e].state \notin {"none", "gone"} /\ sock[e].attached /\ ~ sock[e].out_eof
        /\ e \in HalfClosers
        /\ Handler(e, s, FinIf(MaySendFin(s)))
        /\ Other

(* ~utp_stream: destroy and detach.  A connect that waits is cancelled; in *)
(* error_wait nothing waits (see Notice).                                  *)
Destroy(e) ==
    LET s == Closed(sock[e])
    IN  /\ Idle /\ s.state \notin {"none", "gone"} /\ s.attached
        /\ Handler(e, [s EXCEPT !.attached = FALSE,
                                !.state = IF @ = "syn_sent" THEN "deleting" ELSE @],
                   FinIf(MaySendFin(s)))
        /\ Other

(* test_socket_state: the user's next operation, or one that waits, fails. *)
Notice(e) ==
    /\ Idle /\ sock[e].state = "error_wait" /\ sock[e].attached
    /\ Handler(e, [sock[e] EXCEPT !.state = "deleting", !.attached = FALSE], <<>>)
    /\ Other

(* send_deferred_ack and socket_drained.  An ack of a stalled socket stays *)
(* deferred.                                                               *)
Drained(e) ==
    LET s == sock[e]
    IN  /\ Idle /\ s.state # "gone" /\ ((s.deferred_ack /\ ~ s.stalled) \/ s.writing = "some")
        /\ Handler(e, [s EXCEPT !.deferred_ack = FALSE],
                   (IF s.deferred_ack THEN <<SendAck>> ELSE <<>>) \o <<[op |-> "callback"]>>)
        /\ Other

(* should_delete *)
ShouldDelete(s) == Errored(s) /\ ~ s.attached /\ ~ s.stalled

(* writable *)
Writable(e) ==
    LET s == [sock[e] EXCEPT !.stalled = FALSE]
    IN  /\ Idle /\ sock[e].stalled
        /\ Handler(e, s,
               IF ShouldDelete(s) THEN <<>>
               ELSE <<IF s.deferred_ack THEN SendAckLoop ELSE Send,
                      [op |-> "flush"], [op |-> "finish"], [op |-> "callback"]>>)
        /\ Other

(* utp_socket_manager::tick erases the socket.                             *)
Erase(e) ==
    /\ Idle /\ ShouldDelete(sock[e])
    /\ Handler(e, [sock[e] EXCEPT !.state = "gone", !.deferred_ack = FALSE], <<>>)
    /\ Other

(* tick, after the timeout.  Every packet is marked to be resent, and the  *)
(* first is.                                                               *)
TimedOut(s) ==
    [s EXCEPT !.num_timeouts = IF s.outbuf # <<>> THEN @ + 1 ELSE @,
              !.bytes_in_flight = @ - InFlight(s.outbuf, DOMAIN s.outbuf),
              !.outbuf = [q \in DOMAIN @ |-> [@[q] EXCEPT !.need_resend = TRUE]]]

TooManyResends(s, p) ==
    \/ p.num_transmissions >= Resends
    \/ s.state = "syn_sent" /\ p.num_transmissions >= SynResends
    \/ s.state = "fin_sent" /\ p.num_transmissions >= FinResends

Pursued == (\E e \in Ends : net[e] # <<>>) \/ \E e \in Ends : sock[e].deferred_ack
FaultsSoFar == IF Pursued THEN faults + 1 ELSE faults

Timeout(e) ==
    /\ Idle /\ sock[e].state \in {"syn_sent", "connected", "fin_sent"}
    /\ Pursued => faults < MaxFaults
    /\ UNCHANGED writes

First(s) == Plus(s.acked_seq_nr, 1)
NoAnswer(s) ==
    LET n == TimedOut(s).num_timeouts IN n > Resends \/ (n > 0 /\ ~ s.confirmed)

TickFail(e) ==
    LET s == sock[e]
        t == TimedOut(s)
    IN  /\ Timeout(e)
        /\ \/ /\ NoAnswer(s)
              /\ Handler(e, Fail([s EXCEPT !.num_timeouts = t.num_timeouts]), <<>>)
           \/ /\ ~ NoAnswer(s)
              /\ IF First(s) \in DOMAIN s.outbuf THEN TooManyResends(s, s.outbuf[First(s)])
                                                 ELSE s.state = "fin_sent"
              /\ Handler(e, Fail(t), <<>>)
        /\ faults' = FaultsSoFar /\ UNCHANGED net

TickResend(e) ==
    LET s == sock[e]
        t == Passed(TimedOut(s), First(s))
    IN  /\ Timeout(e) /\ ~ NoAnswer(s)
        /\ First(s) \in DOMAIN s.outbuf /\ ~ TooManyResends(s, s.outbuf[First(s)])
        /\ \/ /\ s.stalled
              /\ Handler(e, t, <<>>)
              /\ faults' = FaultsSoFar /\ UNCHANGED net
           \/ /\ ~ s.stalled
              /\ \E ok \in BOOLEAN :
                     /\ Wire(ok, OnWire(Refreshed(t, First(s))), FaultsSoFar)
                     /\ Handler(e, ResendPacket(t, First(s), ok), <<>>)

(* send_pkt does nothing for a socket that is stalled or has nothing to send. *)
TickSend(e) ==
    /\ Timeout(e) /\ ~ NoAnswer(sock[e])
    /\ First(sock[e]) \notin DOMAIN sock[e].outbuf /\ sock[e].state # "fin_sent"
    /\ ~ sock[e].stalled /\ (Pending(sock[e]) > 0 \/ sock[e].out_eof)
    /\ Handler(e, TimedOut(sock[e]), <<SendOnce>>)
    /\ faults' = FaultsSoFar /\ UNCHANGED net

Tick(e) == TickFail(e) \/ TickResend(e) \/ TickSend(e)

(* The network.  A duplicated SYN is left out: it makes a second socket.   *)
Fault == Idle /\ faults < MaxFaults /\ faults' = faults + 1 /\ UNCHANGED writes

Lose(e) ==
    /\ Fault /\ UNCHANGED <<sock, turn, calls>>
    /\ \E i \in DOMAIN net[e] : net' = [net EXCEPT ![e] = RemoveAt(@, i)]

Duplicate(e) ==
    /\ Fault /\ UNCHANGED <<sock, turn, calls>>
    /\ \E i \in DOMAIN net[e] : /\ net[e][i].type # "SYN"
                                /\ net' = [net EXCEPT ![e] = Append(@, @[i])]

Overtake(e) == Fault /\ \E i \in DOMAIN net[e] \ {1} : Arrive(e, i)
-----------------------------------------------------------------------------
Init ==
    /\ sock = [e \in Ends |-> NewSocket]
    /\ net = [e \in Ends |-> <<>>] /\ turn = Initiator /\ calls = <<>>
    /\ writes \in Workloads /\ faults = 0

HandlerStep ==
    \/ SendPkt \/ SendCallback \/ Flush \/ FinAfterFlush \/ OweAck
    \/ FastResend \/ DupAckResend \/ Consume

User(e) == Write(e) \/ Close(e) \/ Destroy(e) \/ Notice(e)
Manager(e) == Drained(e) \/ Writable(e) \/ Erase(e) \/ Tick(e)
Network(e) == Deliver(e) \/ Lose(e) \/ Duplicate(e) \/ Overtake(e)

Next ==
    \/ HandlerStep \/ Connect
    \/ \E e \in Ends : User(e) \/ Manager(e) \/ Network(e)

Spec == Init /\ [][Next]_vars
-----------------------------------------------------------------------------
PacketType ==
    [to : Ends, type : {"SYN", "DATA", "STATE", "FIN"}, seq : 0 .. Modulus - 1,
     ack : 0 .. Modulus - 1, sack : SUBSET (0 .. Modulus - 1), from : Nat, upto : Nat]

(* Packets on the wire are packets; numbers stay in their ranges; a socket *)
(* in fin_sent has nothing left to pack, and a nagle packet is not full    *)
(* (the assertions of send_pkt and check_invariant).                       *)
TypeOK ==
    /\ \A e \in Ends : \A i \in DOMAIN net[e] : net[e][i] \in PacketType
    /\ turn \in Ends /\ faults \in 0 .. MaxFaults
    /\ \A e \in Ends : LET s == sock[e] IN
           /\ {s.seq_nr, s.acked_seq_nr, s.ack_nr, s.fast_resend_seq_nr} \subseteq 0 .. Modulus - 1
           /\ s.wbuf \in Nat /\ s.packed \in Nat /\ s.nagle \in 0 .. Mss - 1
           /\ s.state = "fin_sent" => Pending(s) = 0
           /\ s.num_timeouts \in 0 .. Resends + 1

(* What check_invariant and the assertions of incoming_packet, parse_sack   *)
(* and tick say of m_outbuf: m_bytes_in_flight is the payload of the       *)
(* packets that were sent and not acked and do not wait to be resent, and  *)
(* the packet after m_acked_seq_nr is held, unless all were acked.  No     *)
(* order of acks, resends, timeouts and refused sends counts a packet      *)
(* twice or leaves the oldest one unheld.                                  *)
OutbufExact ==
    /\ TypeOK
    /\ \A e \in Ends : LET s == sock[e] IN
           /\ s.bytes_in_flight = InFlight(s.outbuf, DOMAIN s.outbuf)
           /\ Idle /\ s.state \in {"syn_sent", "connected", "fin_sent"} =>
                  \/ Plus(s.acked_seq_nr, 1) \in DOMAIN s.outbuf
                  \/ Dist(s.acked_seq_nr, s.seq_nr) <= 1

(* What a socket no longer holds its peer has, in order or in its reorder  *)
(* buffer: nothing is acked, selectively or not, that was not received.    *)
Held(s) ==
    UNION {s.outbuf[q].from + 1 .. s.outbuf[q].upto : q \in DOMAIN s.outbuf}
    \union s.packed - s.nagle + 1 .. s.packed
Has(s) ==
    1 .. Len(s.received)
    \union UNION {s.inbuf[q].from + 1 .. s.inbuf[q].upto : q \in DOMAIN s.inbuf}
AckedIsReceived ==
    \A e \in Ends : 1 .. sock[e].packed \subseteq Held(sock[e]) \union Has(sock[Peer(e)])

(* Each direction is a stream: the user is given what the peer's user      *)
(* wrote, in order, and end of file only after all of it.                  *)
Eof(s) == s.in_eof /\ s.ack_nr = s.in_eof_seq_nr /\ s.state # "syn_sent"
Stream == INSTANCE ByteStream WITH
    written <- [e \in Ends |-> [i \in 1 .. sock[e].packed |-> i]],
    closed <- [e \in Ends |-> sock[e].out_eof],
    received <- [e \in Ends |-> sock[e].received],
    eof <- [e \in Ends |-> Eof(sock[e])]
ImplementsStream == Stream!Spec

=============================================================================

--------------------------- MODULE BtDemuxProofs ---------------------------
(***************************************************************************)
(* Proofs about BtDemux, for any piece length, torrent size, files, number *)
(* of pieces to buffer, range of an int, number of seeks and positions     *)
(* where they stop.                                                        *)
(*                                                                         *)
(* Where a segment ends is not known: a seek may stop anywhere, and the    *)
(* product that computes the end of the file may overflow.  It is never    *)
(* behind the end of the file (FileStopIs).  In a segment that ends there  *)
(* what downstream has received ends where the next piece begins, unless a *)
(* segment event is due or downstream is flushing (InPlace).  That is kept *)
(* because the push loop and a seek agree on the current piece (Current),  *)
(* because a flush is not over before a seek has started the stream over   *)
(* (FlushEnds), and because late alerts stay within the file (InFile).     *)
(***************************************************************************)
EXTENDS BtDemux, FiniteSetTheorems, SequenceTheorems, TLAPS

-----------------------------------------------------------------------------
(***************************************************************************)
(* Arithmetic.                                                             *)
(***************************************************************************)

(* What the quotient of a division is.                                     *)
LEMMA DivIs ==
    ASSUME NEW n \in Nat \ {0}, NEW x \in Nat
    PROVE  /\ x \div n \in Nat
           /\ n * (x \div n) <= x
           /\ x < n * (x \div n) + n
  OBVIOUS

(* What the rest is.                                                       *)
LEMMA ModIs ==
    ASSUME NEW n \in Nat \ {0}, NEW x \in Nat
    PROVE  x % n = x - n * (x \div n)
  OBVIOUS

(* A product with a greater factor is not smaller.                         *)
LEMMA TimesMonotone ==
    ASSUME NEW n \in Nat, NEW a \in Int, NEW b \in Int, a <= b
    PROVE  n * a <= n * b
  OBVIOUS

(* A product with a sum.                                                   *)
LEMMA Distribute ==
    ASSUME NEW n \in Nat, NEW a \in Int
    PROVE  /\ n * a \in Int /\ a * n = n * a
           /\ (a + 1) * n = n * a + n /\ n * (a + 1) = n * a + n
  OBVIOUS

(* A level of buffering is a percentage.                                   *)
LEMMA Percent ==
    ASSUME NEW c \in Nat \ {0}, NEW b \in Nat, b <= c
    PROVE  (b * 100) \div c \in 0 .. 100
  OBVIOUS

-----------------------------------------------------------------------------
(***************************************************************************)
(* Pieces and buffers.                                                     *)
(***************************************************************************)

LastPiece == PieceAt(TorrentSize - 1)

(* Where a byte is.                                                        *)
LEMMA PieceAtIs ==
    ASSUME NEW x \in Nat
    PROVE  /\ PieceAt(x) \in Nat
           /\ PieceLength * PieceAt(x) \in Nat
           /\ PieceLength * PieceAt(x) <= x
           /\ x < PieceLength * PieceAt(x) + PieceLength
<1>1. PieceLength \in Nat \ {0}
  BY DemuxAssumption
<1> QED
  BY <1>1, DivIs DEF PieceAt

(* A later byte is not in an earlier piece.                                *)
LEMMA PieceAtMonotone ==
    ASSUME NEW x \in Nat, NEW y \in Nat, x <= y
    PROVE  PieceAt(x) <= PieceAt(y)
<1> DEFINE a == PieceAt(x)
           b == PieceAt(y)
<1>1. PieceLength \in Nat \ {0}
  BY DemuxAssumption
<1>2. a \in Nat /\ PieceLength * a \in Nat /\ PieceLength * a <= x
  BY PieceAtIs
<1>3. b \in Nat /\ PieceLength * b \in Nat /\ y < PieceLength * b + PieceLength
  BY PieceAtIs
<1> HIDE DEF a, b
<1> SUFFICES ASSUME ~ (a <= b) PROVE FALSE
  BY DEF a, b
<1>4. PieceLength * (b + 1) <= PieceLength * a
  BY <1>1, <1>2, <1>3, TimesMonotone
<1>5. PieceLength * (b + 1) = PieceLength * b + PieceLength
  BY <1>1, <1>3, Distribute
<1> QED
  BY <1>1, <1>2, <1>3, <1>4, <1>5

(* The byte behind the torrent is in its last piece or begins another one. *)
LEMMA LastPieceIs ==
    /\ LastPiece \in Nat /\ Pieces = 0 .. LastPiece /\ 0 \in Pieces
    /\ PieceAt(TorrentSize) \in Nat /\ LastPiece <= PieceAt(TorrentSize)
    /\ PieceLength * (PieceAt(TorrentSize) - 1) < TorrentSize
    /\ PieceAt(TorrentSize) <= LastPiece + 1
    /\ PieceAt(TorrentSize) = LastPiece + 1 => TorrentSize = PieceLength * (LastPiece + 1)
<1> DEFINE e == PieceAt(TorrentSize)
<1>1. PieceLength \in Nat \ {0} /\ TorrentSize \in Nat \ {0} /\ TorrentSize - 1 \in Nat
  BY DemuxAssumption
<1>2. /\ LastPiece \in Nat /\ PieceLength * LastPiece \in Nat /\ PieceLength * LastPiece <= TorrentSize - 1
      /\ TorrentSize - 1 < PieceLength * LastPiece + PieceLength
  BY <1>1, PieceAtIs DEF LastPiece
<1>3. /\ e \in Nat /\ PieceLength * e \in Nat /\ PieceLength * e <= TorrentSize
      /\ TorrentSize < PieceLength * e + PieceLength
  BY <1>1, PieceAtIs
<1>4. LastPiece <= e
  BY <1>1, PieceAtMonotone DEF LastPiece
<1>5. Pieces = 0 .. LastPiece /\ 0 \in Pieces
  BY <1>2 DEF Pieces, LastPiece
<1> HIDE DEF e
<1>6. /\ PieceLength * (LastPiece + 1) = PieceLength * LastPiece + PieceLength
      /\ PieceLength * ((e - 1) + 1) = PieceLength * (e - 1) + PieceLength
      /\ PieceLength * (e - 1) \in Int
  BY <1>1, <1>2, <1>3, Distribute
<1>7. PieceLength * (e - 1) < TorrentSize
  BY <1>1, <1>3, <1>6
<1>8. e <= LastPiece + 1
  <2> SUFFICES ASSUME ~ (e <= LastPiece + 1) PROVE FALSE
    OBVIOUS
  <2>1. PieceLength * (LastPiece + 1) <= PieceLength * (e - 1)
    BY <1>1, <1>2, <1>3, TimesMonotone
  <2> QED
    BY <1>1, <1>2, <1>3, <1>6, <1>7, <2>1
<1>9. e = LastPiece + 1 => TorrentSize = PieceLength * (LastPiece + 1)
  BY <1>1, <1>2, <1>3, <1>6
<1> QED
  BY <1>2, <1>3, <1>4, <1>5, <1>7, <1>8, <1>9 DEF e

(* The types of the stream and of what is behind its pad.                  *)
Ends(f) == {e \in Int : e <= f.end}

StreamType(f) ==
    [start_byte : f.start .. f.end - 1, end_byte : Ends(f),
     current_piece : Pieces \union {-1, PieceAt(TorrentSize)}, requested : BOOLEAN,
     pending : BOOLEAN, flush_start_sent : BOOLEAN, moov : BOOLEAN,
     buffering : BOOLEAN, level : 0 .. 100, count : 0 .. BufferPieces,
     flags : Seq(BOOLEAN)]

DownType(f) ==
    [flushing : BOOLEAN, typed : BOOLEAN, start : f.start .. f.end - 1, stop : Int,
     buffers : Seq(Segment), eos : BOOLEAN]

PcType ==
    [main : {"idle", "flushed", "seek", "update", "send", "crashed"},
     alerts : {"idle", "update", "send", "crashed"},
     push : {"out", "pop", "lock", "push", "pushed", "sought", "level", "refused", "buffer", "send",
             "crashed"}]

(* The bytes of a file.                                                    *)
LEMMA FileIs ==
    ASSUME file \in Files
    PROVE  /\ file.start \in Nat /\ file.end \in Nat /\ file.start < file.end
           /\ file.end <= TorrentSize /\ TorrentSize \in Nat \ {0}
<1>1. PICK o \in Openings : file = o.file
  BY DEF Files
<1>2. /\ file \in [start : 0 .. TorrentSize, end : 0 .. TorrentSize] /\ file.start < file.end
      /\ TorrentSize \in Nat \ {0}
  BY <1>1, DemuxAssumption
<1> QED
  BY <1>2

(* Where a segment begins and ends.                                        *)
LEMMA SegmentIs ==
    ASSUME file \in Files, NEW s \in StreamType(file)
    PROVE  /\ s.start_byte \in Nat /\ s.start_byte < file.end
           /\ s.end_byte \in Int /\ s.end_byte <= file.end
           /\ StartPiece(s) \in Pieces /\ StartPiece(s) \in Nat
           /\ PieceAt(file.end) \in Nat /\ PieceAt(file.end) <= PieceAt(TorrentSize)
           /\ EndPiece(s) \in Int /\ EndPiece(s) <= PieceAt(file.end)
           /\ s.end_byte = file.end => EndPiece(s) = PieceAt(file.end)
           /\ StartPiece(s) <= PieceAt(file.end)
           /\ StartPiece(s) - 1 \in Pieces \union {-1}
<1>1. /\ s.start_byte \in Nat /\ s.start_byte < file.end
      /\ s.end_byte \in Int /\ s.end_byte <= file.end
  BY FileIs DEF StreamType, Ends
<1>2. StartPiece(s) \in Nat /\ PieceAt(file.end) \in Nat
  BY <1>1, FileIs, PieceAtIs DEF StartPiece
<1>3. StartPiece(s) <= PieceAt(file.end) /\ PieceAt(file.end) <= PieceAt(TorrentSize)
  BY <1>1, FileIs, PieceAtMonotone DEF StartPiece
<1>4. StartPiece(s) <= LastPiece
  <2>1. TorrentSize - 1 \in Nat /\ s.start_byte <= TorrentSize - 1
    BY <1>1, FileIs
  <2> QED
    BY <1>1, <2>1, PieceAtMonotone DEF StartPiece, LastPiece
<1>5. EndPiece(s) \in Int /\ EndPiece(s) <= PieceAt(file.end)
  <2>1. CASE s.end_byte >= 0
    <3>1. s.end_byte \in Nat
      BY <1>1, <2>1
    <3>2. EndPiece(s) = PieceAt(s.end_byte) /\ PieceAt(s.end_byte) \in Nat
      BY <2>1, <3>1, PieceAtIs DEF EndPiece
    <3> QED
      BY <1>1, <3>1, <3>2, FileIs, PieceAtMonotone
  <2>2. CASE ~ (s.end_byte >= 0)
    <3>1. - s.end_byte \in Nat
      BY <1>1, <2>2
    <3>2. PICK q \in Nat : q = PieceAt(- s.end_byte)
      BY <3>1, PieceAtIs
    <3>3. EndPiece(s) = - q
      BY <2>2, <3>2 DEF EndPiece
    <3> QED
      BY <1>2, <3>2, <3>3
  <2> QED
    BY <2>1, <2>2
<1>6. s.end_byte = file.end => EndPiece(s) = PieceAt(file.end)
  BY <1>1, FileIs DEF EndPiece
<1> QED
  BY <1>1, <1>2, <1>3, <1>4, <1>5, <1>6, LastPieceIs

(* What is cut from a piece begins and ends at some byte.                  *)
LEMMA BufferType ==
    ASSUME file \in Files, NEW s \in StreamType(file), NEW p \in Pieces
    PROVE  BufferNew(s, p) \in Segment
<1>1. /\ PieceLength \in Nat /\ TorrentSize \in Nat /\ p \in Nat
      /\ s.start_byte \in Int /\ s.end_byte \in Int /\ StartPiece(s) \in Int
  BY DemuxAssumption, LastPieceIs, SegmentIs
<1>2. PICK shift \in Int : shift = (p - StartPiece(s)) * PieceLength
  <2>1. p - StartPiece(s) \in Int
    BY <1>1
  <2> QED
    BY <1>1, <2>1, Distribute
<1>3. p * PieceLength \in Int /\ (p + 1) * PieceLength \in Int
  BY <1>1, Distribute
<1>4. PieceEnd(p) \in Int
  BY <1>1, <1>3 DEF PieceEnd
<1>5. \/ BufferNew(s, p) = [from |-> s.start_byte + shift, to |-> s.end_byte + shift]
      \/ BufferNew(s, p) = [from |-> IF p = StartPiece(s) THEN s.start_byte ELSE p * PieceLength,
                            to   |-> IF p = EndPiece(s) THEN s.end_byte ELSE PieceEnd(p)]
  BY <1>2 DEF BufferNew
<1> QED
  BY <1>1, <1>2, <1>3, <1>4, <1>5 DEF Segment

(* From the first piece it is cut at the start of the segment.             *)
LEMMA BufferBegins ==
    ASSUME file \in Files, NEW s \in StreamType(file), NEW p, p = StartPiece(s)
    PROVE  /\ BufferNew(s, p).from = s.start_byte
           /\ StartPiece(s) = EndPiece(s) => BufferNew(s, p).to = s.end_byte
<1>1. /\ PieceLength \in Nat /\ s.start_byte \in Int /\ s.end_byte \in Int /\ StartPiece(s) \in Int
  BY DemuxAssumption, SegmentIs
<1>2. (p - StartPiece(s)) * PieceLength = 0
  BY <1>1
<1> QED
  BY <1>1, <1>2 DEF BufferNew

(* In a segment that ends with the file: where the bytes of a piece begin, *)
(* and where they end.                                                     *)
LEMMA BufferIs ==
    ASSUME file \in Files, NEW s \in StreamType(file), s.end_byte = file.end, NEW p \in Pieces,
           StartPiece(s) <= p, p <= EndPiece(s)
    PROVE  /\ BufferNew(s, p).from <= BufferNew(s, p).to
           /\ BufferNew(s, p).to <= file.end
           /\ p = EndPiece(s) => BufferNew(s, p).to = file.end
           /\ p + 1 <= EndPiece(s) => BufferNew(s, p + 1).from = BufferNew(s, p).to
<1> DEFINE a == StartPiece(s)
           e == EndPiece(s)
<1>1. /\ PieceLength \in Nat \ {0} /\ p \in Nat /\ p <= LastPiece /\ LastPiece \in Nat
      /\ file.end \in Nat /\ TorrentSize \in Nat /\ file.end <= TorrentSize
  BY DemuxAssumption, FileIs, LastPieceIs
<1>2. /\ a \in Nat /\ e \in Nat /\ e = PieceAt(file.end) /\ a <= p /\ p <= e
      /\ e <= PieceAt(TorrentSize)
      /\ s.start_byte \in Nat /\ s.start_byte < file.end /\ s.end_byte = file.end
  BY SegmentIs
<1>3. /\ PieceLength * a \in Nat /\ PieceLength * a <= s.start_byte
      /\ s.start_byte < PieceLength * a + PieceLength
  BY <1>2, PieceAtIs DEF StartPiece
<1>4. PieceLength * e \in Nat /\ PieceLength * e <= file.end
  BY <1>1, <1>2, PieceAtIs
<1>5. /\ p * PieceLength = PieceLength * p /\ PieceLength * p \in Nat
      /\ (p + 1) * PieceLength = PieceLength * p + PieceLength
      /\ PieceLength * (p + 1) = PieceLength * p + PieceLength
  BY <1>1, Distribute
<1>6. /\ PieceLength * a <= PieceLength * p /\ PieceLength * p <= PieceLength * e
      /\ p + 1 <= e => PieceLength * (p + 1) <= PieceLength * e
  BY <1>1, <1>2, TimesMonotone
<1>7. p + 1 <= e /\ p = LastPiece => TorrentSize = PieceLength * p + PieceLength
  BY <1>1, <1>2, <1>5, LastPieceIs
<1>8. p < LastPiece => PieceEnd(p) = PieceLength * p + PieceLength
  BY <1>1, <1>5 DEF PieceEnd, LastPiece
<1>9. p = LastPiece => PieceEnd(p) = TorrentSize
  BY DEF PieceEnd, LastPiece
<1>10. p + 1 <= e => PieceEnd(p) = PieceLength * p + PieceLength /\ PieceEnd(p) <= file.end
  BY <1>1, <1>2, <1>4, <1>5, <1>6, <1>7, <1>8, <1>9
<1>11. CASE a = e
  <2>1. p = a
    BY <1>1, <1>2, <1>11
  <2>2. BufferNew(s, p).from = s.start_byte /\ BufferNew(s, p).to = s.end_byte
    BY <1>11, <2>1, BufferBegins
  <2>3. ~ (p + 1 <= e)
    BY <1>1, <1>11, <2>1
  <2> QED
    BY <1>1, <1>2, <2>2, <2>3
<1>12. CASE a # e
  <2>1. /\ BufferNew(s, p).from = IF p = a THEN s.start_byte ELSE PieceLength * p
        /\ BufferNew(s, p).to = IF p = e THEN file.end ELSE PieceEnd(p)
        /\ BufferNew(s, p + 1).from = PieceLength * p + PieceLength
    BY <1>1, <1>2, <1>5, <1>12 DEF BufferNew
  <2> HIDE DEF a, e
  <2>2. /\ p = e => BufferNew(s, p).to = file.end
        /\ p # e => BufferNew(s, p).to = PieceLength * p + PieceLength
        /\ BufferNew(s, p).to <= file.end
        /\ BufferNew(s, p).to \in Nat
    <3> DEFINE to == BufferNew(s, p).to
    <3>1. to = IF p = e THEN file.end ELSE PieceEnd(p)
      BY <2>1
    <3> HIDE DEF to
    <3>2. CASE p = e
      BY <1>1, <3>1, <3>2 DEF to
    <3>3. CASE p # e
      <4>1. p + 1 <= e
        BY <1>1, <1>2, <3>3
      <4> QED
        BY <1>1, <1>5, <1>10, <3>1, <3>3, <4>1 DEF to
    <3> QED
      BY <3>2, <3>3
  <2>3. BufferNew(s, p).from <= BufferNew(s, p).to
    <3>1. CASE p = a
      BY <1>1, <1>2, <1>3, <1>5, <2>1, <2>2, <3>1
    <3>2. CASE p # a
      BY <1>1, <1>2, <1>4, <1>5, <1>6, <2>1, <2>2, <3>2
    <3> QED
      BY <3>1, <3>2
  <2>4. p + 1 <= e => BufferNew(s, p + 1).from = BufferNew(s, p).to
    BY <1>1, <1>2, <2>1, <2>2
  <2> QED
    BY <2>2, <2>3, <2>4 DEF a, e
<1> QED
  BY <1>11, <1>12

(* An int is not above the number it is for.                               *)
LEMMA IntOfIs ==
    ASSUME NEW n \in Nat
    PROVE  IntOf(n) \in Int /\ IntOf(n) <= n
<1>1. IntRange \in Nat \ {0}
  BY DemuxAssumption
<1>2. ASSUME NEW x \in Nat, NEW m \in Nat \ {0} PROVE x % m \in Nat /\ x % m <= x
  BY <1>2
<1>3. PICK x \in Nat : x = n + IntRange
  BY <1>1
<1>4. PICK m \in Nat \ {0} : m = 2 * IntRange
  BY <1>1
<1>5. PICK r \in Nat : r = x % m /\ r <= x
  BY <1>2
<1>6. IntOf(n) = r - IntRange
  BY <1>3, <1>4, <1>5 DEF IntOf
<1> QED
  BY <1>1, <1>3, <1>5, <1>6

(* A segment without a stop position does not end behind the file.         *)
LEMMA FileStopIs ==
    ASSUME file \in Files
    PROVE  FileStop(file) \in Int /\ file.start + FileStop(file) <= file.end
<1> DEFINE s == PieceAt(file.start)
           e == PieceAt(file.end)
           so == file.start % PieceLength
           eo == file.end % PieceLength
<1>1. /\ PieceLength \in Nat \ {0} /\ file.start \in Nat /\ file.end \in Nat /\ file.start < file.end
  BY DemuxAssumption, FileIs
<1>2. s \in Nat /\ e \in Nat /\ s <= e /\ PieceLength * s \in Nat /\ PieceLength * e \in Nat
  <2>1. s \in Nat /\ e \in Nat /\ PieceLength * s \in Nat /\ PieceLength * e \in Nat
    BY <1>1, PieceAtIs
  <2>2. file.start <= file.end
    BY <1>1
  <2>3. s <= e
    BY <1>1, <2>2, PieceAtMonotone
  <2> QED
    BY <2>1, <2>3
<1>3. ASSUME NEW x \in Nat PROVE x % PieceLength = x - PieceLength * PieceAt(x)
  BY <1>1, ModIs DEF PieceAt
<1>4. so = file.start - PieceLength * s /\ eo = file.end - PieceLength * e /\ so \in Int /\ eo \in Int
  BY <1>1, <1>2, <1>3
<1>5. FileStop(file) = IF e - s + 1 = 1 THEN eo - so
                       ELSE IntOf(((e - s + 1) - 2) * PieceLength) + (PieceLength - so) + eo
  BY DEF FileStop
<1> HIDE DEF s, e, so, eo
<1>6. CASE e = s
  BY <1>1, <1>2, <1>4, <1>5, <1>6
<1>7. CASE e # s
  <2>1. PICK k \in Nat : k = (e - s + 1) - 2 /\ e = (s + k) + 1
    BY <1>2, <1>7
  <2>2. /\ k * PieceLength = PieceLength * k /\ PieceLength * k \in Nat
        /\ PieceLength * e = PieceLength * (s + k) + PieceLength
        /\ PieceLength * (s + k) = PieceLength * s + PieceLength * k
    BY <1>1, <1>2, <2>1
  <2>3. PICK i \in Int : i = IntOf(k * PieceLength) /\ i <= PieceLength * k
    BY <2>2, IntOfIs
  <2>4. FileStop(file) = i + (PieceLength - so) + eo
    BY <1>2, <1>5, <1>7, <2>1, <2>3
  <2>5. FileStop(file) \in Int
    BY <1>1, <1>4, <2>3, <2>4
  <2>6. file.start + FileStop(file) = i + PieceLength + PieceLength * s + file.end - PieceLength * e
    BY <1>1, <1>2, <1>4, <2>3, <2>4
  <2> QED
    BY <1>1, <1>2, <2>2, <2>3, <2>5, <2>6
<1> QED
  BY <1>6, <1>7

-----------------------------------------------------------------------------
(***************************************************************************)
(* Areas, and what a stream becomes.                                       *)
(***************************************************************************)

(* A function on 1 .. n is a sequence.                                     *)
LEMMA SeqOf ==
    ASSUME NEW n \in Nat, NEW S, NEW f \in [1 .. n -> S]
    PROVE  f \in Seq(S)
  BY SeqDef

(* A sequence of one element.                                              *)
LEMMA OneElement ==
    ASSUME NEW S, NEW x \in S
    PROVE  <<x>> \in Seq(S) /\ Len(<<x>>) = 1 /\ <<x>>[1] = x
  OBVIOUS

(* An area has at most BufferPieces pieces.                                *)
LEMMA AreaIs ==
    ASSUME file \in Files, NEW s \in StreamType(file), NEW first \in Int, NEW S \in SUBSET Area(s, first)
    PROVE  IsFiniteSet(S) /\ Cardinality(S) \in 0 .. BufferPieces
<1>1. BufferPieces \in Nat \ {0} /\ EndPiece(s) \in Int
  BY DemuxAssumption, SegmentIs
<1>2. /\ AreaStart(s, first) \in Int /\ AreaEnd(s, first) \in Int
      /\ AreaEnd(s, first) - AreaStart(s, first) + 1 <= BufferPieces
  BY <1>1 DEF AreaStart, AreaEnd
<1>3. PICK lo \in Int, hi \in Int :
          hi - lo + 1 <= BufferPieces /\ lo = AreaStart(s, first) /\ hi = AreaEnd(s, first)
  BY <1>2
<1>4. IsFiniteSet(Area(s, first)) /\ Cardinality(Area(s, first)) <= BufferPieces
  <2>1. IsFiniteSet(lo .. hi) /\ Cardinality(lo .. hi) = IF lo > hi THEN 0 ELSE hi - lo + 1
    BY FS_Interval
  <2>2. Cardinality(lo .. hi) <= BufferPieces
    BY <1>1, <1>3, <2>1
  <2> QED
    BY <1>3, <2>1, <2>2 DEF Area
<1>5. IsFiniteSet(S) /\ Cardinality(S) <= Cardinality(Area(s, first))
  BY <1>4, FS_Subset
<1>6. Cardinality(S) \in Nat /\ Cardinality(Area(s, first)) \in Nat
  BY <1>4, <1>5, FS_CardinalityType
<1> QED
  BY <1>1, <1>4, <1>5, <1>6

(* The flags of an area.                                                   *)
LEMMA FlagsIs ==
    ASSUME file \in Files, NEW s \in StreamType(file)
    PROVE  Flags(s) \in Seq(BOOLEAN)
<1>1. StartPiece(s) \in Int
  BY SegmentIs
<1>2. Cardinality(Area(s, StartPiece(s))) \in Nat
  BY <1>1, AreaIs
<1>3. Flags(s) \in [1 .. Cardinality(Area(s, StartPiece(s))) -> BOOLEAN]
  BY DEF Flags
<1> QED
  BY <1>2, <1>3, SeqOf

(* Two streams that play the same segment and are equally far.             *)
SameSegment(s, t) ==
    /\ t.start_byte = s.start_byte /\ t.end_byte = s.end_byte
    /\ t.current_piece = s.current_piece /\ t.requested = s.requested
    /\ t.pending = s.pending /\ t.flush_start_sent = s.flush_start_sent

(* A stream t that starts over with the segment of s.                      *)
Restarted(s, t) ==
    /\ t \in StreamType(file)
    /\ t.start_byte = s.start_byte /\ t.end_byte = s.end_byte
    /\ t.current_piece = StartPiece(t) - 1
    /\ t.requested /\ t.pending /\ t.flush_start_sent = s.flush_start_sent

(* gst_bt_demux_stream_activate.                                           *)
LEMMA StreamActivateIs ==
    ASSUME file \in Files, NEW s \in StreamType(file), NEW tops
    PROVE  Restarted(s, StreamActivate(s, tops))
<1> DEFINE n == Cardinality(Missing(s, tops))
           f == Flags(s)
           t == StreamActivate(s, tops)
           b == Missing(s, tops) # {}
           c == StartPiece(s) - 1
<1>1. c \in Pieces \union {-1} /\ StartPiece(s) \in Int
  BY SegmentIs
<1>2. Missing(s, tops) \in SUBSET Area(s, StartPiece(s))
  BY DEF Missing
<1>3. n \in 0 .. BufferPieces
  BY <1>1, <1>2, AreaIs
<1>4. f \in Seq(BOOLEAN)
  BY FlagsIs
<1>5. b \in BOOLEAN
  OBVIOUS
<1>6. t = [s EXCEPT !.requested = TRUE, !.current_piece = c, !.pending = TRUE,
                    !.level = 0, !.flags = f, !.count = n, !.buffering = b]
  BY DEF StreamActivate
<1> HIDE DEF n, f, t, b, c
<1>7. t \in StreamType(file)
  <2>1. 0 \in 0 .. 100 /\ c \in Pieces \union {-1, PieceAt(TorrentSize)}
    BY <1>1
  <2> QED
    BY <1>3, <1>4, <1>5, <1>6, <2>1 DEF StreamType
<1>8. /\ t.start_byte = s.start_byte /\ t.end_byte = s.end_byte /\ t.current_piece = c
      /\ t.requested /\ t.pending /\ t.flush_start_sent = s.flush_start_sent
  BY <1>6 DEF StreamType
<1>9. StartPiece(t) = StartPiece(s)
  BY <1>8 DEF StartPiece
<1> QED
  BY <1>7, <1>8, <1>9 DEF Restarted, t, c

ReadingType == [0 .. PieceAt(TorrentSize) + 1 -> Nat]

(* Asking for a piece.                                                     *)
LEMMA ReadPieceIs ==
    ASSUME reading \in ReadingType, NEW p
    PROVE  ReadPiece(p) \in ReadingType
<1>1. CASE p \in 0 .. PieceAt(TorrentSize) + 1
  BY <1>1 DEF ReadPiece, ReadingType
<1>2. CASE p \notin 0 .. PieceAt(TorrentSize) + 1
  BY <1>2 DEF ReadPiece, ReadingType
<1> QED
  BY <1>1, <1>2

(* Starting over.                                                          *)
LEMMA StartOverIs ==
    ASSUME file \in Files, reading \in ReadingType, NEW s \in StreamType(file), NEW tops,
           tops \subseteq Pieces, StartOver(s, tops)
    PROVE  /\ Restarted(s, stream') /\ top' \subseteq Pieces /\ reading' \in ReadingType
           /\ stream'.buffering \in BOOLEAN
<1>1. Restarted(s, stream')
  BY StreamActivateIs DEF StartOver
<1>2. top' \subseteq Pieces
  BY DEF StartOver
<1>3. reading' \in ReadingType
  BY ReadPieceIs DEF StartOver
<1>4. stream'.buffering \in BOOLEAN
  BY <1>1 DEF Restarted, StreamType
<1> QED
  BY <1>1, <1>2, <1>3, <1>4

(* Telling the player.                                                     *)
LEMMA SendBufferingIs ==
    ASSUME file \in Files, reading \in ReadingType, stream \in StreamType(file), waiting \in BOOLEAN,
           SendBuffering(stream)
    PROVE  /\ stream' \in StreamType(file) /\ SameSegment(stream, stream')
           /\ reading' \in ReadingType /\ waiting' \in BOOLEAN
<1>1. stream' \in StreamType(file) /\ SameSegment(stream, stream')
  <2>1. CASE stream' = stream
    BY <2>1 DEF SameSegment
  <2>2. CASE stream' = [stream EXCEPT !.buffering = FALSE, !.level = 0]
    <3>1. 0 \in 0 .. 100
      OBVIOUS
    <3> QED
      BY <2>2, <3>1 DEF SameSegment, StreamType
  <2> QED
    BY <2>1, <2>2 DEF SendBuffering
<1>2. reading' \in ReadingType
  BY ReadPieceIs DEF SendBuffering
<1>3. waiting' \in BOOLEAN
  <2>1. (stream.level < 100) \in BOOLEAN
    OBVIOUS
  <2>2. waiting' = (stream.level < 100) \/ waiting' = waiting
    BY DEF SendBuffering
  <2> QED
    BY <2>1, <2>2
<1> QED
  BY <1>1, <1>2, <1>3

(* The level of buffering.                                                 *)
LEMMA BufferingLevelIs ==
    ASSUME file \in Files, NEW s \in StreamType(file), s.count # 0, NEW garbage
    PROVE  BufferingLevel(s, garbage) \in 0 .. 100
<1> DEFINE first == s.current_piece + 1
           n == Buffered(s, garbage)
<1>1. first \in Int
  BY LastPieceIs DEF StreamType
<1>2. PICK S \in SUBSET Area(s, first) : n = Cardinality(S)
  BY DEF Buffered
<1>3. n \in Nat
  <2> HIDE DEF first
  <2>1. Cardinality(S) \in 0 .. BufferPieces
    BY <1>1, AreaIs
  <2>2. BufferPieces \in Nat
    BY DemuxAssumption
  <2> QED
    BY <1>2, <2>1, <2>2
<1>4. s.count \in Nat \ {0}
  BY DemuxAssumption DEF StreamType
<1> DEFINE b == IF n > s.count THEN s.count ELSE n
<1>5. b \in Nat /\ b <= s.count
  BY <1>3, <1>4
<1>6. BufferingLevel(s, garbage) = (b * 100) \div s.count
  BY DEF BufferingLevel
<1> HIDE DEF b
<1> QED
  BY <1>4, <1>5, <1>6, Percent

-----------------------------------------------------------------------------
(***************************************************************************)
(* The types of the variables, and the invariants.                         *)
(***************************************************************************)

PieceType == [Pieces -> {"none", "passed", "have"}]
AnyAlert == [type : {"read_piece", "piece_finished"}, piece : 0 .. PieceAt(TorrentSize) + 1, data : BOOLEAN]
Alerts == {a \in AnyAlert : a.data => a.piece \in Pieces}      \* data are of a piece that exists
TaskType == {"stopped", "started", "paused"}
ItemType == {NoItem} \union [piece : Pieces, buffer : Segment]

Types ==
    /\ file \in Files /\ seeder \in BOOLEAN
    /\ piece \in PieceType /\ top \subseteq Pieces /\ reading \in ReadingType
    /\ posted \in Seq(Alerts) /\ batch \in Seq(Alerts)
    /\ stream \in StreamType(file)
    /\ ipc \in Seq(Pieces) /\ task \in TaskType /\ pc \in PcType /\ item \in ItemType
    /\ down \in DownType(file)
    /\ waiting \in BOOLEAN /\ seeks \in Nat

(* Pieces, pieces waiting to be pushed and the piece being pushed are      *)
(* pieces of the file; the stream is at most one piece before its segment. *)
HasItem == {"lock", "push", "pushed", "sought", "level", "refused", "buffer"}

InFile ==
    /\ \A i \in DOMAIN ipc : ipc[i] <= PieceAt(file.end)
    /\ pc.push \in HasItem =>
           item.piece \in Pieces /\ item.piece <= PieceAt(file.end)
    /\ stream.requested =>
           StartPiece(stream) - 1 <= stream.current_piece /\ stream.current_piece <= PieceAt(file.end)
    /\ PushHasLock => stream.requested

(* A flush is noted before the seek that began it starts the stream over,  *)
(* so the segment event that is due then ends it.                          *)
FlushEnds ==
    /\ down.flushing /\ pc.main # "flushed" => stream.flush_start_sent
    /\ down.flushing => pc.main \in {"flushed", "seek"} \/ stream.pending
    /\ pc.push = "refused" => down.flushing

(* A stream that starts over has not begun.  The push loop works on the    *)
(* current piece, unless a seek made in its own push has started the       *)
(* stream over.                                                            *)
InPush == {"push", "pushed", "sought", "level", "refused"}

Current ==
    /\ stream.pending => stream.current_piece = StartPiece(stream) - 1
    /\ pc.push \in {"push", "refused"} => ~ stream.pending
    /\ pc.push \in InPush /\ ~ stream.pending =>
           /\ stream.current_piece = item.piece /\ StartPiece(stream) <= item.piece
           /\ item.buffer = BufferNew(stream, item.piece)
    /\ pc.push \in {"pushed", "sought", "level"} =>
           down.buffers # <<>> /\ down.buffers[Len(down.buffers)] = item.buffer

(* Where the bytes that downstream has received end.                       *)
Position(d) == IF d.buffers = <<>> THEN d.start ELSE d.buffers[Len(d.buffers)].to

(* In a segment that ends with the file they end where the next piece      *)
(* begins.                                                                 *)
Whole == stream.end_byte = file.end

Ongoing == stream.requested /\ ~ stream.pending /\ ~ down.flushing

InPlace ==
    Ongoing =>
    /\ down.stop = stream.end_byte
    /\ Whole =>
        IF pc.push = "push" THEN Position(down) = item.buffer.from
        ELSE stream.current_piece + 1 <= PieceAt(file.end) =>
                 Position(down) = BufferNew(stream, stream.current_piece + 1).from

(* The buffers follow each other.                                          *)
Chained(d, end) ==
    d.stop = end => \A i \in DOMAIN d.buffers :
        /\ d.buffers[i].from = IF i = 1 THEN d.start ELSE d.buffers[i - 1].to
        /\ d.buffers[i].from <= d.buffers[i].to
        /\ d.buffers[i].to <= end

Playing == InFile /\ FlushEnds /\ Current /\ InPlace /\ Chained(down, file.end)
IInv == Types /\ Playing

(* An item has no buffer, or the bytes of a piece.                         *)
LEMMA ItemTypeIs ==
    ItemType = {NoItem} \union [piece : Pieces, buffer : Segment \union {NoBuffer}]
<1>2. NoBuffer \in Segment
  BY DEF NoBuffer, Segment
<1>3. Segment \union {NoBuffer} = Segment
  BY <1>2
<1> QED
  BY <1>3 DEF ItemType

(* The types are those of TypeOK.                                          *)
LEMMA TypesAreTypeOK == Types => TypeOK
<1> SUFFICES ASSUME Types PROVE TypeOK
  OBVIOUS
<1>1. AlertType = AnyAlert
  BY DEF AlertType, AnyAlert, ReadingType, Types
<1>2. Alerts \subseteq AnyAlert
  BY DEF Alerts
<1>3. posted \in Seq(AlertType) /\ batch \in Seq(AlertType)
  BY <1>1, <1>2, SeqMonotonic DEF Types
<1> QED
  BY <1>3, ItemTypeIs DEF TypeOK, Types, PieceType, ReadingType, TaskType, PcType, StreamType, DownType, Ends

(* Moving a thread.                                                        *)
LEMMA GotoPush ==
    ASSUME pc \in PcType, NEW place, Goto("push", place),
           place \in {"out", "pop", "lock", "push", "pushed", "sought", "level", "refused", "buffer", "send",
                      "crashed"}
    PROVE  pc' \in PcType /\ pc'.push = place /\ pc'.main = pc.main /\ pc'.alerts = pc.alerts
  BY DEF Goto, PcType

(* The main thread moves.                                                  *)
LEMMA GotoMain ==
    ASSUME pc \in PcType, NEW place, Goto("main", place), place \in {"idle", "flushed", "seek", "update", "send", "crashed"}
    PROVE  pc' \in PcType /\ pc'.main = place /\ pc'.push = pc.push /\ pc'.alerts = pc.alerts
  BY DEF Goto, PcType

(* The thread that pops alerts moves.                                      *)
LEMMA GotoAlerts ==
    ASSUME pc \in PcType, NEW place, Goto("alerts", place), place \in {"idle", "update", "send", "crashed"}
    PROVE  pc' \in PcType /\ pc'.alerts = place /\ pc'.push = pc.push /\ pc'.main = pc.main
  BY DEF Goto, PcType

-----------------------------------------------------------------------------
(***************************************************************************)
(* Steps that leave the segment and what downstream has received alone.    *)
(***************************************************************************)

Bounded(q, end) == \A i \in DOMAIN q : q[i] <= PieceAt(end)

(* The push loop goes on outside of the lock, with or without an item.     *)
PushElsewhere ==
    \/ pc'.push = pc.push /\ item' = item
    \/ pc.push \in {"sought", "level"} /\ pc'.push \in {"level", "pushed"} /\ item' = item
    \/ /\ pc.push \notin {"push", "pushed", "refused"}
       /\ pc'.push \in {"out", "pop", "lock", "send", "crashed"}
       /\ pc'.push = "lock" => item'.piece \in Pieces /\ item'.piece <= PieceAt(file.end)

(* The same segment has the same pieces and buffers.                       *)
LEMMA SameSegmentIs ==
    ASSUME NEW s, NEW t, SameSegment(s, t)
    PROVE  /\ StartPiece(t) = StartPiece(s) /\ EndPiece(t) = EndPiece(s)
           /\ \A p : BufferNew(t, p) = BufferNew(s, p)
<1>1. StartPiece(t) = StartPiece(s) /\ EndPiece(t) = EndPiece(s)
  BY DEF SameSegment, StartPiece, EndPiece
<1> QED
  BY <1>1 DEF SameSegment, BufferNew

(* A step that leaves the segment and downstream alone keeps the rest.     *)
LEMMA CalmStep ==
    ASSUME IInv, file' = file, down' = down, SameSegment(stream, stream'),
           Bounded(ipc', file.end), PushElsewhere,
           pc'.main = pc.main \/ (pc.main \in {"update", "send"} /\ pc'.main \in {"idle", "send", "crashed"})
    PROVE  Playing'
<1>1. /\ StartPiece(stream') = StartPiece(stream)
      /\ \A p : BufferNew(stream', p) = BufferNew(stream, p)
  BY SameSegmentIs
<1>2. InFile'
  <2>1. \A i \in DOMAIN ipc' : ipc'[i] <= PieceAt(file'.end)
    BY DEF Bounded
  <2>2. pc'.push \in HasItem =>
            item'.piece \in Pieces /\ item'.piece <= PieceAt(file'.end)
    BY DEF IInv, Playing, InFile, PushElsewhere, HasItem
  <2>3. stream'.requested =>
            StartPiece(stream') - 1 <= stream'.current_piece /\ stream'.current_piece <= PieceAt(file'.end)
    BY <1>1 DEF IInv, Playing, InFile, SameSegment
  <2>4. PushHasLock' => stream'.requested
    BY DEF IInv, Playing, InFile, SameSegment, PushHasLock, PushElsewhere
  <2> QED
    BY <2>1, <2>2, <2>3, <2>4 DEF InFile
<1>3. FlushEnds'
  BY DEF IInv, Playing, FlushEnds, SameSegment, PushElsewhere
<1>4. Current'
  BY <1>1 DEF IInv, Playing, Current, InPush, SameSegment, PushElsewhere
<1>5. InPlace'
  BY <1>1 DEF IInv, Playing, InPlace, Ongoing, Whole, SameSegment, PushElsewhere
<1>6. Chained(down', file'.end)
  BY DEF IInv, Playing
<1> QED
  BY <1>2, <1>3, <1>4, <1>5, <1>6 DEF Playing

(* The stream starts over, outside of gst_pad_push or in it.               *)
LEMMA RestartStep ==
    ASSUME IInv, NEW s, Restarted(s, stream'), s.flush_start_sent = stream.flush_start_sent,
           file' = file, down'.flushing = down.flushing, down'.start = down.start,
           down'.stop = down.stop, down'.buffers = down.buffers, Bounded(ipc', file.end),
           \/ pc'.main = pc.main
           \/ pc.main = "seek" /\ pc'.main \in {"idle", "update"},
           \/ pc'.push = pc.push /\ item' = item /\ pc.push \notin {"push", "refused"}
           \/ pc.push = "pushed" /\ pc'.push = "sought" /\ item' = item
           \/ pc'.push = "out"
    PROVE  Playing'
<1>1. InFile'
  <2>1. \A i \in DOMAIN ipc' : ipc'[i] <= PieceAt(file'.end)
    BY DEF Bounded
  <2>2. pc'.push \in HasItem =>
            item'.piece \in Pieces /\ item'.piece <= PieceAt(file'.end)
    BY DEF IInv, Playing, InFile, HasItem
  <2>3. StartPiece(stream') - 1 <= stream'.current_piece /\ stream'.current_piece <= PieceAt(file'.end)
    <3>1. /\ StartPiece(stream') \in Nat /\ PieceAt(file.end) \in Nat
          /\ StartPiece(stream') <= PieceAt(file.end)
      BY SegmentIs DEF Restarted, IInv, Types
    <3> QED
      BY <3>1 DEF Restarted
  <2>4. stream'.requested
    BY DEF Restarted
  <2> QED
    BY <2>1, <2>2, <2>3, <2>4 DEF InFile
<1>2. /\ stream'.pending /\ stream'.flush_start_sent = stream.flush_start_sent
      /\ stream'.current_piece = StartPiece(stream') - 1
  BY DEF Restarted
<1>3. FlushEnds'
  BY <1>2 DEF IInv, Playing, FlushEnds
<1>4. Current'
  BY <1>2 DEF IInv, Playing, Current, InPush
<1>5. InPlace'
  BY <1>2 DEF InPlace, Ongoing
<1>6. Chained(down', file'.end)
  BY DEF IInv, Playing, Chained
<1> QED
  BY <1>1, <1>3, <1>4, <1>5, <1>6 DEF Playing

-----------------------------------------------------------------------------
(***************************************************************************)
(* libtorrent and the thread that pops alerts.                             *)
(***************************************************************************)

(* Nothing that the invariants speak of changes.                           *)
LEMMA QuietStep ==
    ASSUME IInv, UNCHANGED <<file, stream, ipc, pc, item, down>>
    PROVE  Playing'
<1>1. SameSegment(stream, stream')
  BY DEF SameSegment
<1>2. Bounded(ipc', file.end)
  BY DEF IInv, Playing, InFile, Bounded
<1>3. PushElsewhere
  BY DEF PushElsewhere
<1> QED
  BY <1>1, <1>2, <1>3, CalmStep

(* A piece passes its hash check.                                          *)
LEMMA PiecePassedStep ==
    ASSUME IInv, NEW p \in Pieces, PiecePassed(p) PROVE IInv'
<1>1. piece' \in PieceType
  BY DEF IInv, Types, PiecePassed, PieceType
<1>2. posted' \in Seq(Alerts)
  <2>1. p \in 0 .. PieceAt(TorrentSize) + 1
    BY LastPieceIs
  <2>2. Alert("piece_finished", p, FALSE) \in Alerts
    BY <2>1 DEF Alert, Alerts, AnyAlert
  <2> QED
    BY <2>2, AppendProperties DEF PiecePassed, IInv, Types
<1>3. Playing'
  BY QuietStep DEF PiecePassed
<1> QED
  BY <1>1, <1>2, <1>3 DEF IInv, Types, PiecePassed

(* Its blocks reach the disk.                                              *)
LEMMA PieceFlushedStep ==
    ASSUME IInv, NEW p \in Pieces, PieceFlushed(p) PROVE IInv'
<1>1. piece' \in PieceType
  BY DEF IInv, Types, PieceFlushed, PieceType
<1>2. Playing'
  BY QuietStep DEF PieceFlushed
<1> QED
  BY <1>1, <1>2 DEF IInv, Types, PieceFlushed

(* A read is answered.                                                     *)
LEMMA ReadAnsweredStep ==
    ASSUME IInv, NEW p \in DOMAIN reading, ReadAnswered(p) PROVE IInv'
<1>1. p \in 0 .. PieceAt(TorrentSize) + 1
  BY DEF IInv, Types, ReadingType
<1>2. reading' \in ReadingType
  <2>1. reading[p] \in Nat /\ reading[p] > 0
    BY <1>1 DEF IInv, Types, ReadAnswered, ReadingType
  <2>2. reading[p] - 1 \in Nat
    BY <2>1
  <2>3. reading' = [reading EXCEPT ![p] = reading[p] - 1]
    BY DEF ReadAnswered
  <2> QED
    BY <1>1, <2>2, <2>3 DEF IInv, Types, ReadingType
<1>3. posted' \in Seq(Alerts)
  <2>1. Passed(p) \in BOOLEAN
    BY DEF Passed
  <2>2. Alert("read_piece", p, Passed(p)) \in Alerts
    BY <1>1, <2>1 DEF Alert, Alerts, AnyAlert, Passed
  <2> QED
    BY <2>2, AppendProperties DEF ReadAnswered, IInv, Types
<1>4. Playing'
  BY QuietStep DEF ReadAnswered
<1> QED
  BY <1>2, <1>3, <1>4 DEF IInv, Types, ReadAnswered

(* alert_manager::get_all.                                                 *)
LEMMA PopAlertsStep ==
    ASSUME IInv, PopAlerts PROVE IInv'
<1>1. Playing'
  BY QuietStep DEF PopAlerts
<1>2. posted' \in Seq(Alerts) /\ batch' \in Seq(Alerts)
  BY EmptySeq DEF PopAlerts, IInv, Types
<1> QED
  BY <1>1, <1>2 DEF IInv, Types, PopAlerts

(* btdemux_feed_read_piece_alert.                                          *)
LEMMA FeedReadPieceAlertStep ==
    ASSUME IInv, FeedReadPieceAlert PROVE IInv'
<1> DEFINE p == Head(batch).piece
<1>1. batch \in Seq(Alerts) /\ batch # <<>> /\ ipc \in Seq(Pieces) /\ stream \in StreamType(file)
  BY DEF IInv, Types, FeedReadPieceAlert
<1>2. Head(batch) \in Alerts /\ Tail(batch) \in Seq(Alerts)
  BY <1>1, HeadTailProperties
<1>3. /\ EndPiece(stream) <= PieceAt(file.end) /\ PieceAt(file.end) \in Nat
      /\ EndPiece(stream) \in Int /\ StartPiece(stream) \in Nat
  BY <1>1, SegmentIs DEF IInv, Types
<1>4. Bounded(ipc, file.end)
  BY DEF IInv, Playing, InFile, Bounded
<1>5. ipc' \in Seq(Pieces) /\ Bounded(ipc', file.end) /\ task' \in TaskType
  <2>1. CASE UNCHANGED <<ipc, task>>
    BY <1>1, <1>4, <2>1 DEF IInv, Types
  <2>2. CASE /\ p \in StartPiece(stream) .. EndPiece(stream) /\ p \in Pieces
             /\ ipc' = Append(ipc, p) /\ task' = "started"
    <3>1. /\ ipc' \in Seq(Pieces) /\ Len(ipc') = Len(ipc) + 1
          /\ \A i \in 1 .. Len(ipc) : ipc'[i] = ipc[i]
          /\ ipc'[Len(ipc) + 1] = p
      BY <1>1, <2>2, AppendProperties
    <3>2. Len(ipc) \in Nat /\ DOMAIN ipc = 1 .. Len(ipc) /\ DOMAIN ipc' = 1 .. Len(ipc')
      BY <1>1, <3>1, LenProperties
    <3>3. p <= PieceAt(file.end)
      BY <1>3, <2>2
    <3>4. ASSUME NEW i \in DOMAIN ipc' PROVE ipc'[i] <= PieceAt(file.end)
      <4>1. CASE i \in 1 .. Len(ipc)
        BY <1>4, <3>1, <3>2, <4>1 DEF Bounded
      <4>2. CASE i = Len(ipc) + 1
        BY <3>1, <3>3, <4>2
      <4> QED
        BY <3>1, <3>2, <4>1, <4>2
    <3> QED
      BY <2>2, <3>1, <3>4 DEF Bounded, TaskType
  <2>3. Head(batch).data => p \in Pieces
    BY <1>2 DEF Alerts
  <2> QED
    BY <2>1, <2>2, <2>3 DEF FeedReadPieceAlert
<1>6. Playing'
  <2>1. SameSegment(stream, stream')
    BY DEF SameSegment, FeedReadPieceAlert
  <2>2. PushElsewhere
    BY DEF PushElsewhere, FeedReadPieceAlert
  <2> QED
    BY <1>5, <2>1, <2>2, CalmStep DEF FeedReadPieceAlert
<1> QED
  BY <1>2, <1>5, <1>6 DEF IInv, Types, FeedReadPieceAlert, libtorrent

(* btdemux_feed_piece_finished_alert.                                      *)
LEMMA FeedPieceFinishedAlertStep ==
    ASSUME IInv, FeedPieceFinishedAlert PROVE IInv'
<1>1. batch' \in Seq(Alerts)
  BY HeadTailProperties DEF IInv, Types, FeedPieceFinishedAlert
<1>2. top' \subseteq Pieces
  BY DEF IInv, Types, FeedPieceFinishedAlert
<1>3. pc' \in PcType /\ pc'.push = pc.push /\ pc'.main = pc.main
  BY GotoAlerts DEF IInv, Types, FeedPieceFinishedAlert
<1>4. Playing'
  <2>1. SameSegment(stream, stream')
    BY DEF SameSegment, FeedPieceFinishedAlert
  <2>2. PushElsewhere
    BY <1>3 DEF PushElsewhere, FeedPieceFinishedAlert
  <2>3. Bounded(ipc', file.end)
    BY DEF IInv, Playing, InFile, Bounded, FeedPieceFinishedAlert
  <2> QED
    BY <1>3, <2>1, <2>2, <2>3, CalmStep DEF FeedPieceFinishedAlert
<1> QED
  BY <1>1, <1>2, <1>3, <1>4 DEF IInv, Types, FeedPieceFinishedAlert

(* gst_bt_demux_stream_update_buffering leaves the segment alone.          *)
LEMMA UpdateLevelIs ==
    ASSUME IInv, NEW thread, NEW next, UpdateLevel(thread, next)
    PROVE  /\ stream' \in StreamType(file) /\ SameSegment(stream, stream')
           /\ Goto(thread, next) \/ Goto(thread, "crashed")
<1>1. CASE stream' = stream
  BY <1>1 DEF SameSegment, IInv, Types, UpdateLevel
<1>2. CASE /\ stream.count # 0 /\ Goto(thread, next)
           /\ \E garbage \in BOOLEAN :
                  stream' = [stream EXCEPT !.level = BufferingLevel(stream, garbage)]
  <2>1. PICK garbage \in BOOLEAN :
            stream' = [stream EXCEPT !.level = BufferingLevel(stream, garbage)]
    BY <1>2
  <2>2. PICK n \in 0 .. 100 : n = BufferingLevel(stream, garbage)
    BY <1>2, BufferingLevelIs DEF IInv, Types
  <2>3. stream' = [stream EXCEPT !.level = n] /\ stream \in StreamType(file)
    BY <2>1, <2>2 DEF IInv, Types
  <2>4. stream' \in StreamType(file) /\ SameSegment(stream, stream')
    BY <2>3 DEF StreamType, SameSegment
  <2> QED
    BY <1>2, <2>4
<1> QED
  BY <1>1, <1>2 DEF UpdateLevel

(* It is called for an alert.                                              *)
LEMMA UpdateBufferingStep ==
    ASSUME IInv, UpdateBuffering PROVE IInv'
<1>1. /\ stream' \in StreamType(file) /\ SameSegment(stream, stream')
      /\ Goto("alerts", "send") \/ Goto("alerts", "crashed")
  BY UpdateLevelIs DEF UpdateBuffering
<1>2. pc' \in PcType /\ pc'.push = pc.push /\ pc'.main = pc.main
  BY <1>1, GotoAlerts DEF IInv, Types
<1>3. Playing'
  <2>1. PushElsewhere
    BY <1>2 DEF PushElsewhere, UpdateBuffering
  <2>2. Bounded(ipc', file.end)
    BY DEF IInv, Playing, InFile, Bounded, UpdateBuffering
  <2> QED
    BY <1>1, <1>2, <2>1, <2>2, CalmStep DEF UpdateBuffering
<1> QED
  BY <1>1, <1>2, <1>3 DEF IInv, Types, UpdateBuffering, libtorrent

(* gst_bt_demux_send_buffering, after an alert.                            *)
LEMMA AlertsSendBufferingStep ==
    ASSUME IInv, AlertsSendBuffering PROVE IInv'
<1>1. pc' \in PcType /\ pc'.push = pc.push /\ pc'.main = pc.main
  BY GotoAlerts DEF IInv, Types, AlertsSendBuffering
<1>2. /\ stream' \in StreamType(file) /\ SameSegment(stream, stream')
      /\ reading' \in ReadingType /\ waiting' \in BOOLEAN
  BY SendBufferingIs DEF IInv, Types, AlertsSendBuffering
<1>3. Playing'
  <2>1. PushElsewhere
    BY <1>1 DEF PushElsewhere, AlertsSendBuffering
  <2>2. Bounded(ipc', file.end)
    BY DEF IInv, Playing, InFile, Bounded, AlertsSendBuffering
  <2> QED
    BY <1>1, <1>2, <2>1, <2>2, CalmStep DEF AlertsSendBuffering
<1> QED
  BY <1>1, <1>2, <1>3 DEF IInv, Types, AlertsSendBuffering

-----------------------------------------------------------------------------
(***************************************************************************)
(* The main thread.                                                        *)
(***************************************************************************)

(* A file is chosen.                                                       *)
LEMMA OpenStep ==
    ASSUME IInv, Open PROVE IInv'
<1>1. /\ Restarted(stream, stream') /\ top' \subseteq Pieces /\ reading' \in ReadingType
  BY StartOverIs DEF IInv, Types, Open
<1>2. waiting' \in BOOLEAN
  BY DEF Open
<1>3. pc.push \notin {"push", "refused"}
  BY DEF IInv, Playing, InFile, PushHasLock, Open
<1>4. Playing'
  <2>1. Bounded(ipc', file.end)
    BY DEF IInv, Playing, InFile, Bounded, Open
  <2> QED
    BY <1>1, <1>3, <2>1, RestartStep DEF Open
<1>5. stream' \in StreamType(file)
  BY <1>1 DEF Restarted
<1> QED
  BY <1>1, <1>2, <1>4, <1>5 DEF IInv, Types, Open

(* A seek makes downstream flush.                                          *)
LEMMA SeekFlushStartStep ==
    ASSUME IInv, SeekFlushStart PROVE IInv'
<1>1. pc' \in PcType /\ pc'.push = pc.push /\ pc'.main = "flushed"
  BY GotoMain DEF IInv, Types, SeekFlushStart
<1>2. PICK m \in BOOLEAN : stream' = [stream EXCEPT !.moov = m]
  BY DEF SeekFlushStart, IInv, Types, StreamType
<1>3. stream' \in StreamType(file) /\ SameSegment(stream, stream')
  BY <1>2 DEF StreamType, SameSegment, IInv, Types
<1>4. /\ down' \in DownType(file) /\ down'.flushing
      /\ down'.start = down.start /\ down'.stop = down.stop /\ down'.buffers = down.buffers
  BY DEF SeekFlushStart, IInv, Types, DownType
<1>5. seeks' \in Nat
  <2>1. seeks \in Nat /\ seeks > 0 /\ seeks' = seeks - 1
    BY DEF SeekFlushStart, IInv, Types
  <2> QED
    BY <2>1
<1>6. /\ StartPiece(stream') = StartPiece(stream)
      /\ \A p : BufferNew(stream', p) = BufferNew(stream, p)
  BY <1>3, SameSegmentIs
<1>7. file' = file /\ ipc' = ipc /\ item' = item
  BY DEF SeekFlushStart
<1>8. InFile'
  BY <1>1, <1>3, <1>6, <1>7 DEF IInv, Playing, InFile, SameSegment, PushHasLock
<1>9. FlushEnds' /\ InPlace'
  BY <1>1, <1>4 DEF IInv, Playing, FlushEnds, InPlace, Ongoing
<1>10. Current'
  BY <1>1, <1>3, <1>4, <1>6, <1>7 DEF IInv, Playing, Current, SameSegment
<1>11. Chained(down', file'.end)
  BY <1>4, <1>7 DEF IInv, Playing, Chained
<1> QED
  BY <1>1, <1>3, <1>4, <1>5, <1>8, <1>9, <1>10, <1>11
     DEF IInv, Types, Playing, SeekFlushStart, libtorrent

(* The seek notes that it did.                                             *)
LEMMA SeekFlushSentStep ==
    ASSUME IInv, SeekFlushSent PROVE IInv'
<1>1. pc' \in PcType /\ pc'.push = pc.push /\ pc'.main = "seek" /\ pc.main = "flushed"
  BY GotoMain DEF IInv, Types, SeekFlushSent
<1>2. /\ stream' \in StreamType(file) /\ stream'.flush_start_sent
      /\ stream'.start_byte = stream.start_byte /\ stream'.end_byte = stream.end_byte
      /\ stream'.current_piece = stream.current_piece /\ stream'.requested = stream.requested
      /\ stream'.pending = stream.pending
  BY DEF SeekFlushSent, IInv, Types, StreamType
<1>3. StartPiece(stream') = StartPiece(stream) /\ EndPiece(stream') = EndPiece(stream)
  BY <1>2 DEF StartPiece, EndPiece
<1>4. \A p : BufferNew(stream', p) = BufferNew(stream, p)
  BY <1>2, <1>3 DEF BufferNew
<1>5. file' = file /\ ipc' = ipc /\ item' = item /\ down' = down
  BY DEF SeekFlushSent
<1>6. InFile'
  BY <1>1, <1>2, <1>3, <1>5 DEF IInv, Playing, InFile, PushHasLock
<1>7. FlushEnds'
  BY <1>1, <1>2, <1>5 DEF IInv, Playing, FlushEnds
<1>8. Current'
  BY <1>1, <1>2, <1>3, <1>4, <1>5 DEF IInv, Playing, Current
<1>9. InPlace'
  BY <1>1, <1>2, <1>4, <1>5 DEF IInv, Playing, InPlace, Ongoing, Whole
<1>10. Chained(down', file'.end)
  BY <1>5 DEF IInv, Playing
<1> QED
  BY <1>1, <1>2, <1>6, <1>7, <1>8, <1>9, <1>10
     DEF IInv, Types, Playing, SeekFlushSent, libtorrent

(* The rest of a seek.                                                     *)
LEMMA SeekToIs ==
    ASSUME Types, NEW byte \in file.start .. file.end - 1, NEW stop \in Int,
           stop < 0 \/ file.start + stop <= file.end, NEW moov \in BOOLEAN, SeekTo(byte, stop, moov)
    PROVE  /\ \E s : Restarted(s, stream') /\ s.flush_start_sent = stream.flush_start_sent
           /\ top' \subseteq Pieces /\ reading' \in ReadingType /\ stream'.buffering \in BOOLEAN
<1> DEFINE end == file.start + (IF stop < 0 THEN FileStop(file) ELSE stop)
           moved == [stream EXCEPT !.start_byte = byte, !.end_byte = end, !.moov = moov]
<1>1. end \in Ends(file)
  <2>1. file.start \in Nat /\ file.end \in Nat
    BY FileIs DEF Types
  <2>2. FileStop(file) \in Int /\ file.start + FileStop(file) <= file.end
    BY FileStopIs DEF Types
  <2>3. CASE stop < 0
    BY <2>1, <2>2, <2>3 DEF Ends
  <2>4. CASE ~ (stop < 0)
    BY <2>1, <2>4 DEF Ends
  <2> QED
    BY <2>3, <2>4
<1>2. PICK tops : tops \subseteq Pieces /\ StartOver(moved, tops)
  BY DEF SeekTo, Types
<1> HIDE DEF end
<1>3. moved \in StreamType(file) /\ moved.flush_start_sent = stream.flush_start_sent
  BY <1>1 DEF Types, StreamType
<1> HIDE DEF moved
<1>4. /\ Restarted(moved, stream') /\ top' \subseteq Pieces /\ reading' \in ReadingType
      /\ stream'.buffering \in BOOLEAN
  BY <1>2, <1>3, StartOverIs DEF Types
<1> QED
  BY <1>3, <1>4

(* The seek starts the stream over.                                        *)
LEMMA SeekActivateStep ==
    ASSUME IInv, NEW byte \in file.start .. file.end - 1, NEW stop \in Int,
           stop < 0 \/ file.start + stop <= file.end, SeekActivate(byte, stop)
    PROVE  IInv'
<1>1. pc' \in PcType /\ pc'.push = pc.push /\ pc.main = "seek" /\ pc'.main \in {"idle", "update"}
  <2>1. Goto("main", "update") \/ Goto("main", "idle")
    BY DEF SeekActivate
  <2> QED
    BY <2>1, GotoMain DEF IInv, Types, SeekActivate
<1>2. stream.moov \in BOOLEAN
  BY DEF IInv, Types, StreamType
<1>3. /\ \E s : Restarted(s, stream') /\ s.flush_start_sent = stream.flush_start_sent
      /\ top' \subseteq Pieces /\ reading' \in ReadingType
  BY <1>2, SeekToIs DEF IInv, SeekActivate
<1>4. PICK s : Restarted(s, stream') /\ s.flush_start_sent = stream.flush_start_sent
  BY <1>3
<1>5. stream' \in StreamType(file)
  BY <1>4 DEF Restarted
<1>6. Playing'
  <2>1. Bounded(ipc', file.end)
    BY DEF IInv, Playing, InFile, Bounded, SeekActivate
  <2>2. pc.push \notin {"push", "refused"}
    BY DEF SeekActivate, LockFree, PushHasLock
  <2> QED
    BY <1>1, <1>4, <2>1, <2>2, RestartStep DEF SeekActivate
<1> QED
  BY <1>1, <1>3, <1>5, <1>6 DEF IInv, Types, SeekActivate

(* The positions of a seek are in the file.                                *)
LEMMA SeekPositionsAre ==
    ASSUME NEW p \in SeekPositions
    PROVE  /\ p[1] \in file.start .. file.end - 1 /\ p[2] \in Int
           /\ p[2] < 0 \/ file.start + p[2] <= file.end
<1>1. p \in (file.start .. file.end - 1) \X Stops /\ (p[2] < 0 \/ file.start + p[2] <= file.end)
  BY DEF SeekPositions
<1> QED
  BY <1>1, DemuxAssumption

(* A seek to some position.                                                *)
LEMMA SeekStep ==
    ASSUME IInv, Seek PROVE IInv'
  BY SeekPositionsAre, SeekActivateStep DEF Seek

(* The level of buffering is updated under the lock of the seek.           *)
LEMMA SeekUpdateBufferingStep ==
    ASSUME IInv, SeekUpdateBuffering PROVE IInv'
<1>1. /\ stream' \in StreamType(file) /\ SameSegment(stream, stream')
      /\ Goto("main", "send") \/ Goto("main", "crashed")
  BY UpdateLevelIs DEF SeekUpdateBuffering
<1>2. /\ pc' \in PcType /\ pc'.push = pc.push /\ pc.main = "update"
      /\ pc'.main \in {"idle", "send", "crashed"}
  BY <1>1, GotoMain DEF IInv, Types, SeekUpdateBuffering
<1>3. Playing'
  <2>1. PushElsewhere
    BY <1>2 DEF PushElsewhere, SeekUpdateBuffering
  <2>2. Bounded(ipc', file.end)
    BY DEF IInv, Playing, InFile, Bounded, SeekUpdateBuffering
  <2> QED
    BY <1>1, <1>2, <2>1, <2>2, CalmStep DEF SeekUpdateBuffering
<1> QED
  BY <1>1, <1>2, <1>3 DEF IInv, Types, SeekUpdateBuffering, libtorrent

(* gst_bt_demux_send_buffering, after a seek.                              *)
LEMMA SeekSendBufferingStep ==
    ASSUME IInv, SeekSendBuffering PROVE IInv'
<1>1. pc' \in PcType /\ pc'.push = pc.push /\ pc.main = "send" /\ pc'.main = "idle"
  BY GotoMain DEF IInv, Types, SeekSendBuffering
<1>2. /\ stream' \in StreamType(file) /\ SameSegment(stream, stream')
      /\ reading' \in ReadingType /\ waiting' \in BOOLEAN
  BY SendBufferingIs DEF IInv, Types, SeekSendBuffering
<1>3. Playing'
  <2>1. PushElsewhere
    BY <1>1 DEF PushElsewhere, SeekSendBuffering
  <2>2. Bounded(ipc', file.end)
    BY DEF IInv, Playing, InFile, Bounded, SeekSendBuffering
  <2> QED
    BY <1>1, <1>2, <2>1, <2>2, CalmStep DEF SeekSendBuffering
<1> QED
  BY <1>1, <1>2, <1>3 DEF IInv, Types, SeekSendBuffering

(* A seek made in gst_pad_push.                                            *)
LEMMA SeekInPushStep ==
    ASSUME IInv, NEW p \in SeekPositions, SeekInPush(p[1], p[2]) PROVE IInv'
<1> DEFINE byte == p[1]
           stop == p[2]
<1>1. /\ byte \in file.start .. file.end - 1 /\ stop \in Int
      /\ stop < 0 \/ file.start + stop <= file.end
  BY SeekPositionsAre
<1>2. PICK moov \in BOOLEAN : SeekTo(byte, stop, moov)
  BY DEF IInv, Types, StreamType, SeekInPush
<1> HIDE DEF byte, stop
<1>3. /\ \E s : Restarted(s, stream') /\ s.flush_start_sent = stream.flush_start_sent
      /\ top' \subseteq Pieces /\ reading' \in ReadingType /\ stream'.buffering \in BOOLEAN
  BY <1>1, <1>2, SeekToIs DEF IInv
<1>4. PICK s : Restarted(s, stream') /\ s.flush_start_sent = stream.flush_start_sent
  BY <1>3
<1>5. stream' \in StreamType(file)
  BY <1>4 DEF Restarted
<1>6. /\ pc' \in PcType /\ pc.push = "pushed" /\ pc'.push \in {"pushed", "sought"}
      /\ pc'.main = pc.main
  <2>1. Goto("push", "sought") \/ Goto("push", "pushed")
    BY DEF SeekInPush
  <2> QED
    BY <2>1, GotoPush DEF IInv, Types, SeekInPush
<1>7. seeks' \in Nat
  <2>1. seeks \in Nat /\ seeks > 0 /\ seeks' = seeks - 1
    BY DEF SeekInPush, IInv, Types
  <2> QED
    BY <2>1
<1>8. Playing'
  <2>1. Bounded(ipc', file.end)
    BY DEF IInv, Playing, InFile, Bounded, SeekInPush
  <2> QED
    BY <1>4, <1>6, <2>1, RestartStep DEF SeekInPush
<1> QED
  BY <1>3, <1>5, <1>6, <1>7, <1>8 DEF IInv, Types, SeekInPush

(* Its level of buffering.                                                 *)
LEMMA SeekInPushBufferingStep ==
    ASSUME IInv, SeekInPushBuffering PROVE IInv'
<1>1. /\ stream' \in StreamType(file) /\ SameSegment(stream, stream')
      /\ reading' \in ReadingType /\ waiting' \in BOOLEAN
      /\ pc.push \in {"sought", "level"}
      /\ Goto("push", "level") \/ Goto("push", "pushed") \/ Goto("push", "crashed")
  <2>1. CASE pc.push = "sought" /\ UpdateLevel("push", "level") /\ UNCHANGED <<reading, waiting>>
    <3>1. /\ stream' \in StreamType(file) /\ SameSegment(stream, stream')
          /\ Goto("push", "level") \/ Goto("push", "crashed")
      BY <2>1, UpdateLevelIs
    <3> QED
      BY <2>1, <3>1 DEF IInv, Types
  <2>2. CASE pc.push = "level" /\ SendBuffering(stream) /\ Goto("push", "pushed")
    BY <2>2, SendBufferingIs DEF IInv, Types
  <2> QED
    BY <2>1, <2>2 DEF SeekInPushBuffering
<1>2. pc' \in PcType /\ pc'.push \in {"level", "pushed", "crashed"} /\ pc'.main = pc.main
  BY <1>1, GotoPush DEF IInv, Types
<1>3. UNCHANGED <<file, seeder, piece, top, posted, batch, ipc, task, item, down, seeks>>
  BY DEF SeekInPushBuffering
<1>4. Playing'
  <2>1. PushElsewhere
    BY <1>1, <1>2, <1>3 DEF PushElsewhere
  <2>2. Bounded(ipc', file.end)
    BY <1>3 DEF IInv, Playing, InFile, Bounded
  <2> QED
    BY <1>1, <1>2, <1>3, <2>1, <2>2, CalmStep
<1> QED
  BY <1>1, <1>2, <1>3, <1>4 DEF IInv, Types

-----------------------------------------------------------------------------
(***************************************************************************)
(* The push loop.                                                          *)
(***************************************************************************)

(* The loop is entered.                                                    *)
LEMMA PushBeginStep ==
    ASSUME IInv, PushBegin PROVE IInv'
<1>1. pc' \in PcType /\ pc.push = "out" /\ pc'.push = "pop" /\ pc'.main = pc.main
  BY GotoPush DEF IInv, Types, PushBegin
<1>2. Playing'
  <2>1. SameSegment(stream, stream')
    BY DEF SameSegment, PushBegin
  <2>2. PushElsewhere
    BY <1>1 DEF PushElsewhere
  <2>3. Bounded(ipc', file.end)
    BY DEF IInv, Playing, InFile, Bounded, PushBegin
  <2> QED
    BY <1>1, <2>1, <2>2, <2>3, CalmStep DEF PushBegin
<1> QED
  BY <1>1, <1>2 DEF IInv, Types, PushBegin, libtorrent

(* A piece is taken off the queue.                                         *)
LEMMA PushPopStep ==
    ASSUME IInv, PushPop PROVE IInv'
<1>1. pc' \in PcType /\ pc.push = "pop" /\ pc'.push = "lock" /\ pc'.main = pc.main
  BY GotoPush DEF IInv, Types, PushPop
<1>2. ipc \in Seq(Pieces) /\ ipc # <<>> /\ ipc' = Tail(ipc)
  BY DEF IInv, Types, PushPop
<1>3. /\ Head(ipc) \in Pieces /\ Head(ipc) = ipc[1]
      /\ Tail(ipc) \in Seq(Pieces) /\ Len(Tail(ipc)) = Len(ipc) - 1
      /\ \A i \in 1 .. Len(Tail(ipc)) : Tail(ipc)[i] = ipc[i + 1]
  BY <1>2, HeadTailProperties
<1>4. /\ Len(ipc) \in Nat \ {0} /\ DOMAIN ipc = 1 .. Len(ipc)
      /\ DOMAIN Tail(ipc) = 1 .. Len(Tail(ipc))
  BY <1>2, <1>3, LenProperties, EmptySeq
<1>5. \A i \in DOMAIN ipc : ipc[i] <= PieceAt(file.end)
  BY DEF IInv, Playing, InFile
<1>6. Bounded(ipc', file.end) /\ Head(ipc) <= PieceAt(file.end)
  <2>1. ASSUME NEW i \in DOMAIN Tail(ipc) PROVE Tail(ipc)[i] <= PieceAt(file.end)
    <3>1. i \in 1 .. Len(Tail(ipc)) /\ i + 1 \in DOMAIN ipc
      BY <1>3, <1>4
    <3> QED
      BY <1>3, <1>5, <3>1
  <2>2. 1 \in DOMAIN ipc
    BY <1>4
  <2> QED
    BY <1>2, <1>3, <1>5, <2>1, <2>2 DEF Bounded
<1>7. item' \in ItemType /\ item'.piece = Head(ipc)
  <2>1. NoBuffer \in Segment
    BY DEF NoBuffer, Segment
  <2>2. item' = [piece |-> Head(ipc), buffer |-> NoBuffer]
    BY DEF PushPop
  <2> QED
    BY <1>3, <2>1, <2>2 DEF ItemType
<1>8. Playing'
  <2>1. SameSegment(stream, stream')
    BY DEF SameSegment, PushPop
  <2>2. PushElsewhere
    BY <1>1, <1>3, <1>6, <1>7 DEF PushElsewhere
  <2> QED
    BY <1>1, <1>6, <2>1, <2>2, CalmStep DEF PushPop
<1> QED
  BY <1>1, <1>2, <1>3, <1>7, <1>8 DEF IInv, Types, PushPop, libtorrent

(* Anything but the next piece is dropped.                                 *)
PushDrop ==
    /\ pc.push = "lock" /\ item' = NoItem /\ Goto("push", "out")
    /\ UNCHANGED <<file, seeder, libtorrent, batch, stream, ipc, task, down, waiting, seeks>>

(* A piece that is not the next one is dropped.                            *)
LEMMA PushDropStep ==
    ASSUME IInv, PushDrop PROVE IInv'
<1>1. pc' \in PcType /\ pc.push = "lock" /\ pc'.push = "out" /\ pc'.main = pc.main
  BY GotoPush DEF IInv, Types, PushDrop
<1>2. item' \in ItemType
  BY DEF ItemType, PushDrop
<1>3. Playing'
  <2>1. SameSegment(stream, stream')
    BY DEF SameSegment, PushDrop
  <2>2. PushElsewhere
    BY <1>1 DEF PushElsewhere
  <2>3. Bounded(ipc', file.end)
    BY DEF IInv, Playing, InFile, Bounded, PushDrop
  <2> QED
    BY <1>1, <2>1, <2>2, <2>3, CalmStep DEF PushDrop
<1> QED
  BY <1>1, <1>2, <1>3 DEF IInv, Types, PushDrop, libtorrent

(* The next piece is taken, behind a segment event if one is due.          *)
PushTake ==
    /\ pc.push = "lock" /\ stream.requested /\ item.piece = stream.current_piece + 1
    /\ item' = [item EXCEPT !.buffer = BufferNew(stream, item.piece)]
    /\ stream' = [stream EXCEPT !.current_piece = item.piece, !.pending = FALSE,
                                !.flush_start_sent = @ /\ ~ stream.pending]
    /\ down' = AfterSegment(stream, down)
    /\ Goto("push", "push")
    /\ UNCHANGED <<file, seeder, libtorrent, batch, ipc, task, waiting, seeks>>

(* The next piece is taken.                                                *)
LEMMA PushTakeStep ==
    ASSUME IInv, PushTake PROVE IInv'
<1> DEFINE p == item.piece
<1>1. pc' \in PcType /\ pc.push = "lock" /\ pc'.push = "push" /\ pc'.main = pc.main
  BY GotoPush DEF IInv, Types, PushTake
<1>2. /\ file \in Files /\ stream \in StreamType(file) /\ down \in DownType(file)
      /\ item \in ItemType /\ file' = file /\ ipc' = ipc
  BY DEF IInv, Types, PushTake
<1>3. /\ p \in Pieces /\ p <= PieceAt(file.end) /\ stream.requested
      /\ p = stream.current_piece + 1 /\ StartPiece(stream) - 1 <= stream.current_piece
  BY <1>1 DEF IInv, Playing, InFile, HasItem, PushTake
<1>4. /\ StartPiece(stream) \in Nat /\ StartPiece(stream) \in Pieces
      /\ stream.start_byte \in Nat /\ stream.end_byte \in Int /\ PieceLength \in Nat
  BY <1>2, SegmentIs, DemuxAssumption
<1>5. p \in Nat /\ stream.current_piece \in Int
  BY <1>2, <1>3, LastPieceIs DEF StreamType
<1>6. StartPiece(stream) <= p
  BY <1>3, <1>4, <1>5
<1>7. PICK b \in Segment : b = BufferNew(stream, p)
  BY <1>2, <1>3, BufferType
<1>8. item' = [item EXCEPT !.buffer = b] /\ item \in [piece : Pieces, buffer : Segment]
  <2>1. item # NoItem
    <3>1. -1 \notin Pieces
      BY LastPieceIs
    <3> QED
      BY <1>3, <3>1 DEF NoItem
  <2> QED
    BY <1>2, <1>7, <2>1 DEF PushTake, ItemType
<1>9. item' \in ItemType /\ item'.piece = p /\ item'.buffer = b
  BY <1>8 DEF ItemType
<1>10. PICK f \in BOOLEAN : f = (stream.flush_start_sent /\ ~ stream.pending)
  OBVIOUS
<1>11. stream' = [stream EXCEPT !.current_piece = p, !.pending = FALSE, !.flush_start_sent = f]
  BY <1>10 DEF PushTake
<1> HIDE DEF p
<1>12. stream' \in StreamType(file)
  BY <1>2, <1>3, <1>10, <1>11 DEF StreamType
<1>13. /\ stream'.current_piece = p /\ ~ stream'.pending /\ stream'.requested = stream.requested
       /\ stream'.start_byte = stream.start_byte /\ stream'.end_byte = stream.end_byte
       /\ stream'.flush_start_sent = f
  BY <1>2, <1>11 DEF StreamType
<1>14. StartPiece(stream') = StartPiece(stream) /\ EndPiece(stream') = EndPiece(stream)
  BY <1>13 DEF StartPiece, EndPiece
<1>15. \A q : BufferNew(stream', q) = BufferNew(stream, q)
  BY <1>13, <1>14 DEF BufferNew
<1>16. \/ ~ stream.pending /\ down' = down
       \/ stream.pending /\ down.flushing /\ ~ stream.flush_start_sent /\ down' = down
       \/ /\ stream.pending
          /\ down' = [down EXCEPT !.flushing = FALSE, !.start = stream.start_byte,
                                  !.stop = stream.end_byte, !.buffers = <<>>, !.eos = FALSE]
  BY DEF AfterSegment, PushTake
<1>17. InFile'
  <2>1. \A i \in DOMAIN ipc' : ipc'[i] <= PieceAt(file'.end)
    BY <1>2 DEF IInv, Playing, InFile
  <2>2. item'.piece \in Pieces /\ item'.piece <= PieceAt(file'.end)
    BY <1>2, <1>3, <1>9 DEF p
  <2>3. StartPiece(stream') - 1 <= stream'.current_piece /\ stream'.current_piece <= PieceAt(file'.end)
    BY <1>2, <1>3, <1>4, <1>5, <1>6, <1>13, <1>14 DEF p
  <2>4. stream'.requested
    BY <1>3, <1>13
  <2> QED
    BY <2>1, <2>2, <2>3, <2>4 DEF InFile
<1>18. ASSUME down' = down, ~ stream.pending \/ (down.flushing /\ ~ stream.flush_start_sent)
       PROVE  down' \in DownType(file) /\ FlushEnds' /\ InPlace' /\ Chained(down', file'.end)
  <2>1. down' \in DownType(file) /\ Chained(down', file'.end)
    BY <1>2, <1>18 DEF IInv, Playing
  <2>2. FlushEnds'
    BY <1>1, <1>10, <1>13, <1>18 DEF IInv, Playing, FlushEnds
  <2>3. InPlace'
    <3> SUFFICES ASSUME ~ down'.flushing
                 PROVE  /\ down'.stop = stream'.end_byte
                        /\ Whole => Position(down') = item'.buffer.from
      BY <1>1, <1>2, <1>13 DEF InPlace, Ongoing, Whole
    <3>1. Ongoing
      BY <1>3, <1>18 DEF Ongoing
    <3>2. stream.current_piece + 1 <= PieceAt(file.end)
      BY <1>3 DEF p
    <3>3. /\ down.stop = stream.end_byte
          /\ Whole => Position(down) = BufferNew(stream, stream.current_piece + 1).from
      BY <1>1, <3>1, <3>2 DEF IInv, Playing, InPlace
    <3> QED
      BY <1>3, <1>7, <1>9, <1>13, <1>18, <3>3 DEF p
  <2> QED
    BY <2>1, <2>2, <2>3
<1>19. ASSUME stream.pending,
              down' = [down EXCEPT !.flushing = FALSE, !.start = stream.start_byte,
                                   !.stop = stream.end_byte, !.buffers = <<>>, !.eos = FALSE]
       PROVE  down' \in DownType(file) /\ FlushEnds' /\ InPlace' /\ Chained(down', file'.end)
  <2>1. down' \in DownType(file)
    <3>1. <<>> \in Seq(Segment) /\ stream.start_byte \in file.start .. file.end - 1
      BY <1>2, EmptySeq DEF StreamType
    <3> QED
      BY <1>2, <1>4, <1>19, <3>1 DEF DownType
  <2>2. /\ ~ down'.flushing /\ down'.start = stream.start_byte /\ down'.stop = stream.end_byte
        /\ down'.buffers = <<>>
    BY <1>2, <1>19 DEF DownType
  <2>3. FlushEnds'
    BY <1>1, <2>2 DEF FlushEnds
  <2>4. InPlace'
    <3>1. stream.current_piece = StartPiece(stream) - 1
      BY <1>19 DEF IInv, Playing, Current
    <3>2. p = StartPiece(stream)
      BY <1>3, <1>4, <3>1 DEF p
    <3>3. b.from = stream.start_byte
      BY <1>2, <1>7, <3>2, BufferBegins
    <3> QED
      BY <1>1, <1>9, <1>13, <2>2, <3>3 DEF InPlace, Position
  <2>5. Chained(down', file'.end)
    BY <2>2 DEF Chained
  <2> QED
    BY <2>1, <2>3, <2>4, <2>5
<1>20. down' \in DownType(file) /\ FlushEnds' /\ InPlace' /\ Chained(down', file'.end)
  BY <1>16, <1>18, <1>19
<1>21. Current'
  BY <1>1, <1>6, <1>7, <1>9, <1>13, <1>14, <1>15 DEF Current, InPush, p
<1> QED
  BY <1>1, <1>9, <1>12, <1>17, <1>20, <1>21 DEF IInv, Types, Playing, PushTake, libtorrent

(* The piece is looked at under the lock.                                  *)
LEMMA PushLockStep ==
    ASSUME IInv, PushLock PROVE IInv'
<1>1. PushDrop \/ PushTake
  BY DEF PushLock, PushDrop, PushTake
<1> QED
  BY <1>1, PushDropStep, PushTakeStep

(* Downstream takes the buffer.                                            *)
LEMMA PushedStep ==
    ASSUME IInv, PushBuffer, ~ down.flushing PROVE IInv'
<1>1. pc' \in PcType /\ pc.push = "push" /\ pc'.push = "pushed" /\ pc'.main = pc.main
  BY GotoPush DEF IInv, Types, PushBuffer
<1>2. /\ file \in Files /\ stream \in StreamType(file) /\ down \in DownType(file)
      /\ file' = file /\ ipc' = ipc /\ stream' = stream /\ item' = item
  BY DEF IInv, Types, PushBuffer
<1>3. /\ ~ stream.pending /\ stream.current_piece = item.piece
      /\ StartPiece(stream) <= item.piece /\ item.buffer = BufferNew(stream, item.piece)
  BY <1>1 DEF IInv, Playing, Current, InPush
<1>4. /\ item.piece \in Pieces /\ item.piece <= PieceAt(file.end) /\ stream.requested
  BY <1>1 DEF IInv, Playing, InFile, HasItem, PushHasLock
<1>5. Whole => EndPiece(stream) = PieceAt(file.end)
  BY <1>2, SegmentIs DEF Whole
<1>6. PICK b \in Segment :
          /\ b = item.buffer
          /\ Whole =>
                /\ b.from <= b.to /\ b.to <= file.end
                /\ item.piece + 1 <= PieceAt(file.end) => BufferNew(stream, item.piece + 1).from = b.to
  <2>1. item.buffer \in Segment
    BY <1>2, <1>3, <1>4, BufferType
  <2>2. Whole =>
            /\ item.buffer.from <= item.buffer.to /\ item.buffer.to <= file.end
            /\ item.piece + 1 <= PieceAt(file.end) =>
                   BufferNew(stream, item.piece + 1).from = item.buffer.to
    BY <1>2, <1>3, <1>4, <1>5, BufferIs DEF Whole
  <2> QED
    BY <2>1, <2>2
<1>7. down.stop = stream.end_byte /\ (Whole => Position(down) = b.from)
  <2>1. Ongoing
    BY <1>3, <1>4 DEF Ongoing
  <2> QED
    BY <1>1, <1>6, <2>1 DEF IInv, Playing, InPlace
<1>8. PICK q : q = down.buffers /\ q \in Seq(Segment)
  BY <1>2 DEF DownType
<1>9. /\ Append(q, b) \in Seq(Segment) /\ Len(Append(q, b)) = Len(q) + 1
      /\ \A i \in 1 .. Len(q) : Append(q, b)[i] = q[i]
      /\ Append(q, b)[Len(q) + 1] = b
  BY <1>8, AppendProperties
<1>10. /\ Len(q) \in Nat /\ DOMAIN q = 1 .. Len(q) /\ q # <<>> => Len(q) # 0
       /\ DOMAIN Append(q, b) = 1 .. Len(q) + 1
       /\ q = <<>> => Len(q) = 0
  BY <1>8, <1>9, LenProperties, EmptySeq
<1>11. PICK r : r = Append(q, b)
  OBVIOUS
<1>12. down' = [down EXCEPT !.typed = TRUE, !.buffers = r]
  BY <1>6, <1>8, <1>11 DEF PushBuffer
<1>13. down' \in DownType(file)
  BY <1>2, <1>9, <1>11, <1>12 DEF DownType
<1>14. /\ down'.flushing = down.flushing /\ down'.start = down.start /\ down'.stop = down.stop
       /\ down'.buffers = r
  BY <1>2, <1>12 DEF DownType
<1>15. r # <<>> /\ Len(r) = Len(q) + 1 /\ r[Len(r)] = b
  <2>1. Len(r) = Len(q) + 1 /\ Len(q) \in Nat /\ r[Len(q) + 1] = b
    BY <1>9, <1>10, <1>11
  <2>2. r # <<>>
    BY <2>1, EmptySeq
  <2> QED
    BY <2>1, <2>2
<1>16. Chained(down', file'.end)
  <2> SUFFICES ASSUME Whole, NEW i \in DOMAIN r
               PROVE  /\ r[i].from = IF i = 1 THEN down.start ELSE r[i - 1].to
                      /\ r[i].from <= r[i].to
                      /\ r[i].to <= file.end
    BY <1>2, <1>7, <1>14 DEF Chained, Whole
  <2>1. i \in 1 .. Len(q) + 1
    BY <1>10, <1>11
  <2>2. CASE i \in 1 .. Len(q)
    <3>1. /\ q[i].from = IF i = 1 THEN down.start ELSE q[i - 1].to
          /\ q[i].from <= q[i].to
          /\ q[i].to <= file.end
      BY <1>7, <1>8, <1>10, <2>2 DEF IInv, Playing, Chained, Whole
    <3>2. r[i] = q[i] /\ (i # 1 => r[i - 1] = q[i - 1])
      <4>1. i # 1 => i - 1 \in 1 .. Len(q)
        BY <1>10, <2>2
      <4> QED
        BY <1>9, <1>11, <2>2, <4>1
    <3> QED
      BY <3>1, <3>2
  <2>3. CASE i = Len(q) + 1
    <3>1. r[i] = b
      BY <1>9, <1>11, <2>3
    <3>2. CASE q = <<>>
      <4>1. i = 1 /\ Position(down) = down.start
        BY <1>8, <1>10, <2>3, <3>2 DEF Position
      <4> QED
        BY <1>6, <1>7, <3>1, <4>1
    <3>3. CASE q # <<>>
      <4>1. i # 1 /\ i - 1 = Len(q) /\ i - 1 \in 1 .. Len(q)
        BY <1>10, <2>3, <3>3
      <4>2. r[i - 1] = q[Len(q)]
        BY <1>9, <1>11, <4>1
      <4>3. Position(down) = q[Len(q)].to
        BY <1>8, <3>3 DEF Position
      <4> QED
        BY <1>6, <1>7, <3>1, <4>1, <4>2, <4>3
    <3> QED
      BY <3>2, <3>3
  <2> QED
    BY <1>10, <2>1, <2>2, <2>3
<1>17. InFile'
  BY <1>1, <1>2, <1>4 DEF IInv, Playing, InFile, HasItem, PushHasLock
<1>18. FlushEnds'
  BY <1>1, <1>2, <1>14 DEF IInv, Playing, FlushEnds
<1>19. Current'
  BY <1>1, <1>2, <1>3, <1>6, <1>14, <1>15 DEF Current, InPush
<1>20. InPlace'
  <2>1. Position(down') = b.to
    BY <1>14, <1>15 DEF Position
  <2> QED
    BY <1>1, <1>2, <1>3, <1>6, <1>7, <1>14, <2>1 DEF InPlace, Whole
<1> QED
  BY <1>1, <1>13, <1>16, <1>17, <1>18, <1>19, <1>20 DEF IInv, Types, Playing, PushBuffer, libtorrent

(* Downstream is flushing, and refuses it.                                 *)
LEMMA RefusedStep ==
    ASSUME IInv, PushBuffer, down.flushing PROVE IInv'
<1>1. pc' \in PcType /\ pc.push = "push" /\ pc'.push = "refused" /\ pc'.main = pc.main
  BY GotoPush DEF IInv, Types, PushBuffer
<1>2. file' = file /\ ipc' = ipc /\ stream' = stream /\ item' = item /\ down' = down
  BY DEF PushBuffer
<1>3. InFile'
  BY <1>1, <1>2 DEF IInv, Playing, InFile, HasItem, PushHasLock
<1>4. FlushEnds'
  BY <1>1, <1>2 DEF IInv, Playing, FlushEnds
<1>5. Current'
  BY <1>1, <1>2 DEF IInv, Playing, Current, InPush
<1>6. InPlace' /\ Chained(down', file'.end)
  BY <1>2 DEF IInv, Playing, InPlace, Ongoing
<1> QED
  BY <1>1, <1>2, <1>3, <1>4, <1>5, <1>6 DEF IInv, Types, Playing, PushBuffer, libtorrent

(* gst_pad_push.                                                           *)
LEMMA PushBufferStep ==
    ASSUME IInv, PushBuffer PROVE IInv'
  BY PushedStep, RefusedStep

(* gst_pad_push has returned.                                              *)
LEMMA PushReturnStep ==
    ASSUME IInv, PushReturn PROVE IInv'
<1> DEFINE c == IF RePush THEN item.piece - 1 ELSE stream.current_piece
           s == [stream EXCEPT !.current_piece = c]
           wholeFile == [s EXCEPT !.start_byte = file.start, !.end_byte = file.end, !.moov = FALSE]
<1>1. /\ pc.push \in {"pushed", "refused"} /\ item.piece \in Pieces
      /\ item.piece <= PieceAt(file.end) /\ stream.requested
  BY DEF PushReturn, IInv, Playing, InFile, HasItem, PushHasLock
<1>2. /\ file \in Files /\ stream \in StreamType(file) /\ down \in DownType(file)
      /\ reading \in ReadingType /\ top \subseteq Pieces /\ waiting \in BOOLEAN
      /\ ipc \in Seq(Pieces) /\ item \in ItemType /\ pc \in PcType /\ file' = file
  BY DEF IInv, Types, PushReturn
<1>3. /\ StartPiece(stream) \in Nat /\ PieceAt(file.end) \in Nat
      /\ StartPiece(stream) - 1 <= stream.current_piece
      /\ stream.current_piece <= PieceAt(file.end)
  BY <1>1, <1>2, SegmentIs DEF IInv, Playing, InFile
<1>4. item.piece \in Nat /\ stream.current_piece \in Int
  BY <1>1, <1>2, LastPieceIs DEF StreamType
<1>5. RePush => /\ down.flushing /\ ~ stream.pending /\ stream.current_piece = item.piece
                /\ StartPiece(stream) <= item.piece
  BY DEF RePush, IInv, Playing, FlushEnds, Current, InPush
<1>6. /\ c \in Pieces \union {-1, PieceAt(TorrentSize)}
      /\ StartPiece(stream) - 1 <= c /\ c <= PieceAt(file.end)
  <2>1. CASE RePush
    <3>1. item.piece - 1 \in Pieces \union {-1}
      BY <1>1, <1>4, LastPieceIs
    <3> QED
      BY <1>1, <1>3, <1>4, <1>5, <2>1, <3>1
  <2>2. CASE ~ RePush
    BY <1>2, <1>3, <2>2 DEF StreamType
  <2> QED
    BY <2>1, <2>2
<1>7. stream.pending => c = StartPiece(stream) - 1
  BY <1>5 DEF IInv, Playing, Current
<1>8. ~ RePush => c = stream.current_piece
  OBVIOUS
<1> HIDE DEF c
<1>9. /\ s \in StreamType(file) /\ s.flush_start_sent = stream.flush_start_sent
      /\ s.start_byte = stream.start_byte /\ s.end_byte = stream.end_byte /\ s.current_piece = c
      /\ s.requested = stream.requested /\ s.pending = stream.pending
  BY <1>2, <1>6 DEF StreamType
<1>10. wholeFile \in StreamType(file) /\ wholeFile.flush_start_sent = stream.flush_start_sent
  <2>1. file.start \in file.start .. file.end - 1
    BY <1>2, FileIs
  <2>2. file.end \in Ends(file)
    BY <1>2, FileIs DEF Ends
  <2> QED
    BY <1>9, <2>1, <2>2 DEF StreamType
<1>11. /\ down' \in DownType(file) /\ down'.flushing = down.flushing
       /\ down'.start = down.start /\ down'.stop = down.stop /\ down'.buffers = down.buffers
  <2>1. PICK e \in BOOLEAN : down' = [down EXCEPT !.eos = e]
    BY <1>2 DEF PushReturn, DownType
  <2> QED
    BY <1>2, <2>1 DEF DownType
<1>12. ipc' \in Seq(Pieces) /\ Bounded(ipc', file.end)
  <2>1. \A i \in DOMAIN ipc : ipc[i] <= PieceAt(file.end)
    BY DEF IInv, Playing, InFile
  <2>2. CASE ipc' = ipc
    BY <1>2, <2>1, <2>2 DEF Bounded
  <2>3. CASE ipc' = <<item.piece>> \o ipc
    <3>1. PICK one \in Seq(Pieces) : one = <<item.piece>> /\ Len(one) = 1 /\ one[1] = item.piece
      BY <1>1, OneElement
    <3>2. /\ one \o ipc \in Seq(Pieces) /\ Len(one \o ipc) = Len(one) + Len(ipc)
          /\ \A i \in 1 .. Len(one) + Len(ipc) :
                 (one \o ipc)[i] = IF i <= Len(one) THEN one[i] ELSE ipc[i - Len(one)]
      BY <1>2, <3>1, ConcatProperties
    <3>3. /\ Len(ipc) \in Nat /\ DOMAIN ipc = 1 .. Len(ipc)
          /\ DOMAIN (one \o ipc) = 1 .. Len(one \o ipc)
      BY <1>2, <3>2, LenProperties
    <3>4. ASSUME NEW i \in DOMAIN (one \o ipc) PROVE (one \o ipc)[i] <= PieceAt(file.end)
      <4>1. i \in 1 .. 1 + Len(ipc) /\ (one \o ipc)[i] = IF i <= 1 THEN one[i] ELSE ipc[i - 1]
        BY <3>1, <3>2, <3>3
      <4>2. CASE i = 1
        BY <1>1, <3>1, <4>1, <4>2
      <4>3. CASE i # 1
        <5>1. i - 1 \in DOMAIN ipc /\ ~ (i <= 1)
          BY <3>3, <4>1, <4>3
        <5> QED
          BY <2>1, <4>1, <5>1
      <4> QED
        BY <4>2, <4>3
    <3> QED
      BY <2>3, <3>1, <3>2, <3>4 DEF Bounded
  <2> QED
    BY <2>2, <2>3 DEF PushReturn
<1>13. task' \in TaskType
  BY DEF PushReturn, IInv, Types, TaskType
<1>14. item' = item \/ item' = NoItem
  BY DEF PushReturn
<1>15. item' \in ItemType
  BY <1>2, <1>14 DEF ItemType
<1>16. \/ StartOver(wholeFile, top) /\ waiting' = (waiting \/ stream'.buffering) /\ Goto("push", "out")
       \/ /\ stream' = s /\ (reading' = reading \/ reading' = ReadPiece(item.piece + 1))
          /\ (Goto("push", "buffer") \/ Goto("push", "out"))
          /\ UNCHANGED <<top, waiting>>
  BY DEF PushReturn, c
<1>17. item' = IF pc'.push = "buffer" THEN item ELSE NoItem
  BY DEF PushReturn
<1> HIDE DEF wholeFile, s
<1>18. CASE StartOver(wholeFile, top) /\ waiting' = (waiting \/ stream'.buffering) /\ Goto("push", "out")
  <2>1. pc' \in PcType /\ pc'.push = "out" /\ pc'.main = pc.main
    BY <1>2, <1>18, GotoPush
  <2>2. /\ Restarted(wholeFile, stream') /\ top' \subseteq Pieces /\ reading' \in ReadingType
        /\ stream'.buffering \in BOOLEAN
    BY <1>2, <1>10, <1>18, StartOverIs
  <2>3. waiting' \in BOOLEAN
    BY <1>18
  <2>4. Playing'
    BY <1>2, <1>10, <1>11, <1>12, <2>1, <2>2, RestartStep
  <2>5. stream' \in StreamType(file)
    BY <2>2 DEF Restarted
  <2> QED
    BY <1>11, <1>12, <1>13, <1>15, <2>1, <2>2, <2>3, <2>4, <2>5 DEF IInv, Types, PushReturn
<1>19. CASE /\ stream' = s /\ (reading' = reading \/ reading' = ReadPiece(item.piece + 1))
            /\ (Goto("push", "buffer") \/ Goto("push", "out"))
            /\ UNCHANGED <<top, waiting>>
  <2>1. pc' \in PcType /\ pc'.push \in {"buffer", "out"} /\ pc'.main = pc.main
    BY <1>2, <1>19, GotoPush
  <2>2. reading' \in ReadingType
    BY <1>2, <1>19, ReadPieceIs
  <2>3. StartPiece(stream') = StartPiece(stream) /\ EndPiece(stream') = EndPiece(stream)
    BY <1>9, <1>19 DEF StartPiece, EndPiece
  <2>4. \A p : BufferNew(stream', p) = BufferNew(stream, p)
    BY <1>9, <1>19, <2>3 DEF BufferNew
  <2>5. InFile'
    <3>1. \A i \in DOMAIN ipc' : ipc'[i] <= PieceAt(file'.end)
      BY <1>2, <1>12 DEF Bounded
    <3>2. pc'.push \in HasItem =>
              item'.piece \in Pieces /\ item'.piece <= PieceAt(file'.end)
      BY <1>1, <1>2, <1>17, <2>1 DEF HasItem
    <3>3. StartPiece(stream') - 1 <= stream'.current_piece /\ stream'.current_piece <= PieceAt(file'.end)
      BY <1>2, <1>6, <1>9, <1>19, <2>3
    <3>4. stream'.requested
      BY <1>1, <1>9, <1>19
    <3> QED
      BY <3>1, <3>2, <3>3, <3>4 DEF InFile
  <2>6. FlushEnds'
    BY <1>9, <1>11, <1>19, <2>1 DEF IInv, Playing, FlushEnds
  <2>7. Current'
    BY <1>7, <1>9, <1>19, <2>1, <2>3 DEF Current, InPush
  <2>8. InPlace'
    <3>1. CASE RePush
      BY <1>5, <1>11, <3>1 DEF InPlace, Ongoing
    <3>2. CASE ~ RePush
      <4>1. Position(down') = Position(down)
        BY <1>11 DEF Position
      <4>2. stream'.current_piece = stream.current_piece
        BY <1>8, <1>9, <1>19, <3>2
      <4>3. pc.push # "push" /\ pc'.push # "push"
        BY <1>1, <2>1
      <4> QED
        BY <1>2, <1>9, <1>11, <1>19, <2>4, <4>1, <4>2, <4>3 DEF IInv, Playing, InPlace, Ongoing, Whole
    <3> QED
      BY <3>1, <3>2
  <2>9. Chained(down', file'.end)
    BY <1>2, <1>11 DEF IInv, Playing, Chained
  <2> QED
    BY <1>9, <1>11, <1>12, <1>13, <1>15, <1>19, <2>1, <2>2, <2>5, <2>6, <2>7, <2>8, <2>9
       DEF IInv, Types, Playing, PushReturn
<1> QED
  BY <1>16, <1>18, <1>19

(* The next piece is not there.                                            *)
LEMMA PushBufferingStep ==
    ASSUME IInv, PushBuffering PROVE IInv'
<1>1. pc' \in PcType /\ pc.push = "buffer" /\ pc'.push = "send" /\ pc'.main = pc.main
  BY GotoPush DEF IInv, Types, PushBuffering
<1>2. item' \in ItemType
  BY DEF ItemType, PushBuffering
<1>3. top' \subseteq Pieces
  BY DEF IInv, Types, PushBuffering
<1>4. stream' \in StreamType(file) /\ SameSegment(stream, stream')
  <2>1. PICK n \in 0 .. BufferPieces, f \in Seq(BOOLEAN), b \in BOOLEAN :
            stream' = [stream EXCEPT !.level = 0, !.count = n, !.flags = f, !.buffering = b]
    <3> DEFINE next == item.piece + 1
               counted == ~ Have(next) /\ next \notin top
               f == [i \in 1 .. BufferPieces - 1 |-> ~ Have(next)]
               n == IF counted THEN 1 ELSE 0
               b == stream.buffering \/ counted
    <3>1. BufferPieces \in Nat \ {0} /\ BufferPieces - 1 \in Nat
      BY DemuxAssumption
    <3>2. f \in [1 .. BufferPieces - 1 -> BOOLEAN]
      OBVIOUS
    <3>3. f \in Seq(BOOLEAN)
      BY <3>1, <3>2, SeqOf
    <3>4. n \in 0 .. BufferPieces
      BY <3>1
    <3>5. b \in BOOLEAN
      OBVIOUS
    <3>6. stream' = [stream EXCEPT !.level = 0, !.count = n, !.flags = f, !.buffering = b]
      BY DEF PushBuffering
    <3> HIDE DEF f, n, b
    <3> QED
      BY <3>3, <3>4, <3>5, <3>6
  <2>2. 0 \in 0 .. 100 /\ stream \in StreamType(file)
    BY DEF IInv, Types
  <2> QED
    BY <2>1, <2>2 DEF StreamType, SameSegment
<1>5. Playing'
  <2>1. PushElsewhere
    BY <1>1 DEF PushElsewhere
  <2>2. Bounded(ipc', file.end)
    BY DEF IInv, Playing, InFile, Bounded, PushBuffering
  <2> QED
    BY <1>1, <1>4, <2>1, <2>2, CalmStep DEF PushBuffering
<1> QED
  BY <1>1, <1>2, <1>3, <1>4, <1>5 DEF IInv, Types, PushBuffering

(* gst_bt_demux_send_buffering, in the push loop.                          *)
LEMMA PushSendBufferingStep ==
    ASSUME IInv, PushSendBuffering PROVE IInv'
<1>1. pc' \in PcType /\ pc.push = "send" /\ pc'.push = "out" /\ pc'.main = pc.main
  BY GotoPush DEF IInv, Types, PushSendBuffering
<1>2. /\ stream' \in StreamType(file) /\ SameSegment(stream, stream')
      /\ reading' \in ReadingType /\ waiting' \in BOOLEAN
  BY SendBufferingIs DEF IInv, Types, PushSendBuffering
<1>3. Playing'
  <2>1. PushElsewhere
    BY <1>1 DEF PushElsewhere
  <2>2. Bounded(ipc', file.end)
    BY DEF IInv, Playing, InFile, Bounded, PushSendBuffering
  <2> QED
    BY <1>1, <1>2, <2>1, <2>2, CalmStep DEF PushSendBuffering
<1> QED
  BY <1>1, <1>2, <1>3 DEF IInv, Types, PushSendBuffering

-----------------------------------------------------------------------------
(***************************************************************************)
(* The theorems.                                                           *)
(***************************************************************************)

(* The invariant holds at first.                                           *)
LEMMA InitHolds ==
    ASSUME Init PROVE IInv
<1>1. /\ file \in Files /\ seeder \in BOOLEAN /\ file.start \in Nat /\ file.end \in Nat
      /\ file.start < file.end /\ seeks \in Nat
  <2>1. PICK o \in Openings : file = o.file /\ seeder = o.seeder /\ seeks = o.seeks
    BY DEF Init
  <2>2. file \in Files /\ seeder \in BOOLEAN /\ seeks \in Nat
    BY <2>1, DemuxAssumption DEF Files
  <2> QED
    BY <2>2, FileIs
<1>2. piece \in PieceType /\ top \subseteq Pieces
  BY DEF Init, PieceType
<1>3. reading \in ReadingType
  BY DEF Init, ReadingType
<1>4. posted \in Seq(Alerts) /\ batch \in Seq(Alerts) /\ ipc \in Seq(Pieces)
  BY EmptySeq DEF Init
<1>5. stream \in StreamType(file)
  <2>1. /\ 0 \in Pieces \union {-1, PieceAt(TorrentSize)} /\ 0 \in 0 .. 100
        /\ 0 \in 0 .. BufferPieces /\ <<>> \in Seq(BOOLEAN)
    BY LastPieceIs, EmptySeq, DemuxAssumption
  <2>2. file.start \in file.start .. file.end - 1 /\ file.end \in Ends(file)
    BY <1>1 DEF Ends
  <2> QED
    BY <2>1, <2>2 DEF Init, StreamType
<1>6. task \in TaskType /\ pc \in PcType /\ item \in ItemType
  BY DEF Init, TaskType, PcType, ItemType
<1>7. down \in DownType(file)
  <2>1. <<>> \in Seq(Segment)
    BY EmptySeq
  <2>2. file.start \in file.start .. file.end - 1
    BY <1>1
  <2> QED
    BY <1>1, <2>1, <2>2 DEF Init, DownType
<1>8. waiting \in BOOLEAN
  BY DEF Init
<1>9. /\ pc.push = "out" /\ ~ stream.requested /\ ~ stream.pending /\ ~ down.flushing
      /\ ipc = <<>> /\ down.buffers = <<>>
  BY DEF Init
<1>10. Playing
  BY <1>9 DEF Playing, InFile, FlushEnds, Current, InPlace, Ongoing, Chained, HasItem, InPush, PushHasLock
<1> QED
  BY <1>1, <1>2, <1>3, <1>4, <1>5, <1>6, <1>7, <1>8, <1>10 DEF IInv, Types

(* Every step keeps it.                                                    *)
LEMMA NextHolds ==
    ASSUME IInv, [Next]_vars PROVE IInv'
<1>1. CASE UNCHANGED vars
  <2>1. Playing'
    BY <1>1, QuietStep DEF vars
  <2> QED
    BY <1>1, <2>1 DEF vars, IInv, Types
<1>2. CASE Libtorrent
  BY <1>2, PiecePassedStep, PieceFlushedStep, ReadAnsweredStep DEF Libtorrent
<1>3. CASE AlertsThread
  BY <1>3, PopAlertsStep, FeedReadPieceAlertStep, FeedPieceFinishedAlertStep, UpdateBufferingStep,
     AlertsSendBufferingStep DEF AlertsThread
<1>4. CASE MainThread
  BY <1>4, SeekFlushSentStep, SeekStep, SeekUpdateBufferingStep, SeekSendBufferingStep DEF MainThread
<1>5. CASE PushThread
  BY <1>5, PushBeginStep, PushPopStep, PushLockStep, PushBufferStep, SeekInPushBufferingStep,
     PushReturnStep, PushBufferingStep, PushSendBufferingStep DEF PushThread
<1>6. CASE User
  BY <1>6, OpenStep, SeekFlushStartStep, SeekInPushStep DEF User, SeekPositions
<1> QED
  BY <1>1, <1>2, <1>3, <1>4, <1>5, <1>6 DEF Next

(* The inductive invariant holds in every state of the demuxer.            *)
THEOREM DemuxInvariant == Spec => []IInv
<1>1. Init => IInv
  BY InitHolds
<1>2. IInv /\ [Next]_vars => IInv'
  BY NextHolds
<1> QED
  BY <1>1, <1>2, PTL DEF Spec

(* What gst_bt_demux_stream_push_loop pushes downstream in a segment that  *)
(* goes to the end of the file are the bytes of the file from the start of *)
(* the segment on, without a gap, a repetition or a byte of another file,  *)
(* whatever seeks, flushes and late alerts come in between.                *)
THEOREM PushesAreContiguous == Spec => []Contiguous
<1>1. IInv => Contiguous
  BY TypesAreTypeOK DEF IInv, Playing, Chained, Contiguous
<1> QED
  BY <1>1, DemuxInvariant, PTL

(* Only the return of gst_pad_push may announce the end of the stream.     *)
LEMMA EosIsSent ==
    ASSUME IInv, Next, down'.eos, ~ down.eos
    PROVE  PushReturn
<1>1. down # down'
  OBVIOUS
<1>2. ~ SeekFlushStart
  BY DEF SeekFlushStart, IInv, Types, DownType
<1>3. ~ PushBuffer
  BY DEF PushBuffer, IInv, Types, DownType
<1>4. ~ PushLock
  BY DEF PushLock, AfterSegment, IInv, Types, DownType
<1>5. ~ Libtorrent
  BY <1>1 DEF Libtorrent, PiecePassed, PieceFlushed, ReadAnswered
<1>6. ~ AlertsThread
  BY <1>1 DEF AlertsThread, PopAlerts, FeedReadPieceAlert, FeedPieceFinishedAlert, UpdateBuffering,
              AlertsSendBuffering
<1>7. ~ MainThread
  BY <1>1 DEF MainThread, SeekFlushSent, Seek, SeekActivate, SeekUpdateBuffering, SeekSendBuffering
<1>8. ~ PushBegin /\ ~ PushPop /\ ~ SeekInPushBuffering /\ ~ PushBuffering /\ ~ PushSendBuffering
  BY <1>1 DEF PushBegin, PushPop, SeekInPushBuffering, PushBuffering, PushSendBuffering
<1>9. ~ Open /\ ~ (\E p \in SeekPositions : SeekInPush(p[1], p[2]))
  BY <1>1 DEF Open, SeekInPush
<1> QED
  BY <1>2, <1>3, <1>4, <1>5, <1>6, <1>7, <1>8, <1>9 DEF Next, PushThread, User

(* The end of the stream is announced behind the last byte of the file.    *)
LEMMA EosStep ==
    ASSUME IInv, PushReturn, down'.eos, ~ down.eos
    PROVE  /\ down.buffers # <<>>
           /\ down.stop = file.end => down.buffers[Len(down.buffers)].to = file.end
           /\ ~ stream'.pending
<1>1. SendEos /\ ~ down.flushing
  BY DEF PushReturn, IInv, Types, DownType
<1>2. pc.push = "pushed" /\ ~ stream.moov /\ item.piece = PieceAt(file.end) /\ ~ stream.pending
  BY <1>1 DEF SendEos, PushReturn, IInv, Playing, FlushEnds
<1>3. /\ down.buffers # <<>> /\ down.buffers[Len(down.buffers)] = item.buffer
      /\ item.buffer = BufferNew(stream, item.piece) /\ StartPiece(stream) <= item.piece
  BY <1>2 DEF IInv, Playing, Current, InPush
<1>4. /\ item.piece \in Pieces /\ file \in Files /\ stream \in StreamType(file)
      /\ down.stop = stream.end_byte
  BY <1>1, <1>2 DEF IInv, Types, Playing, InFile, HasItem, InPlace, Ongoing, PushHasLock
<1>5. down.stop = file.end => EndPiece(stream) = PieceAt(file.end) /\ EndPiece(stream) \in Nat
  BY <1>4, SegmentIs
<1>6. down.stop = file.end => BufferNew(stream, item.piece).to = file.end
  <2> SUFFICES ASSUME down.stop = file.end PROVE BufferNew(stream, item.piece).to = file.end
    OBVIOUS
  <2>1. item.piece = EndPiece(stream) /\ item.piece <= EndPiece(stream)
    BY <1>2, <1>5
  <2> QED
    BY <1>3, <1>4, <2>1, BufferIs
<1>7. ~ RePush
  BY <1>2 DEF RePush
<1>8. stream' = [stream EXCEPT !.current_piece = stream.current_piece]
  <2>1. [stream EXCEPT !.current_piece = stream.current_piece].moov = stream.moov
    BY <1>4 DEF StreamType
  <2> QED
    BY <1>2, <1>7, <2>1 DEF PushReturn
<1>9. ~ stream'.pending
  BY <1>2, <1>4, <1>8 DEF StreamType
<1> QED
  BY <1>3, <1>6, <1>9

(* "send the EOS downstream, check that last push didnt trigger a new      *)
(* seek": the end of the stream is announced only behind the last byte of  *)
(* the file, if the segment goes so far, and only if playback is not to go *)
(* on elsewhere in the file.                                               *)
THEOREM EosIsAtEnd == Spec => EosAtEnd
<1> DEFINE AtEnd == down'.eos /\ ~ down.eos
                    => /\ down.buffers # <<>>
                       /\ down.stop = file.end => down.buffers[Len(down.buffers)].to = file.end
                       /\ ~ stream'.pending
<1>1. IInv /\ [Next]_vars => [AtEnd]_vars
  BY EosIsSent, EosStep
<1> QED
  BY <1>1, DemuxInvariant, PTL DEF Spec, EosAtEnd
=============================================================================

------------------------ MODULE PieceDownloadProofs ------------------------
(***************************************************************************)
(* Proofs about the download of a piece, for any number of blocks, peers   *)
(* and failing writes: first what the operations of the piece_picker on    *)
(* one piece preserve, then that the invariant IInv of PieceDownload is    *)
(* inductive.                                                              *)
(***************************************************************************)
EXTENDS PieceDownload, FiniteSetTheorems, SequenceTheorems, TLAPS

-----------------------------------------------------------------------------
(***************************************************************************)
(* The piece_picker.                                                       *)
(***************************************************************************)

BlocksOf(pk, s) == {b \in Blocks : pk.block[b] = s}

(* The entry is well formed: a piece that is not being downloaded has      *)
(* none, and what is written and being written is counted exactly.         *)
Shape(pk) ==
    /\ pk \in Piece
    /\ ~ Downloading(pk) => pk = PieceIn(pk.state)
    /\ pk.writing = Cardinality(BlocksOf(pk, "writing"))
    /\ pk.finished = Cardinality(BlocksOf(pk, "finished"))
    /\ pk.requested >= Cardinality(BlocksOf(pk, "requested"))

(* Requests are counted exactly, per piece and per block.                  *)
Exact(pk) ==
    /\ pk.requested = Cardinality(BlocksOf(pk, "requested"))
    /\ \A b \in Blocks : pk.block[b] = "requested" <=> pk.num_peers[b] > 0

(* What a downloading piece has besides its blocks.                        *)
SameFlags(pk, q) ==
    /\ q.state = pk.state /\ q.hashing = pk.hashing
    /\ q.locked = pk.locked /\ q.passed = pk.passed

(* An entry with other blocks, peers and counts.                           *)
Updated(pk, blk, np, r, w, f) ==
    [pk EXCEPT !.block = blk, !.num_peers = np, !.requested = r, !.writing = w, !.finished = f]

(* Every set of blocks is finite.                                          *)
LEMMA BlocksFinite ==
    ASSUME NEW S \in SUBSET Blocks
    PROVE  /\ IsFiniteSet(S) /\ Cardinality(S) \in Nat /\ Cardinality(S) <= NumBlocks
           /\ Cardinality(S) = 0 <=> S = {}
           /\ Cardinality(S) = NumBlocks <=> S = Blocks
  BY BlocksAssumption, FS_Subset, FS_CardinalityType, FS_EmptySet DEF NumBlocks

(* The number of blocks of a piece is positive.                            *)
LEMMA NumBlocksPositive == NumBlocks \in Nat /\ NumBlocks > 0
  BY BlocksAssumption, FS_CardinalityType, FS_EmptySet DEF NumBlocks

(* The types of the fields of an entry.                                    *)
LEMMA PieceFields ==
    ASSUME NEW pk \in Piece
    PROVE  /\ pk.state \in {"open", "downloading", "have"}
           /\ pk.block \in [Blocks -> BlockStates]
           /\ pk.num_peers \in [Blocks -> Nat]
           /\ pk.requested \in Nat /\ pk.writing \in Nat /\ pk.finished \in Nat
           /\ pk.hashing \in BOOLEAN /\ pk.locked \in BOOLEAN /\ pk.passed \in BOOLEAN
           /\ \A s : IsFiniteSet(BlocksOf(pk, s)) /\ Cardinality(BlocksOf(pk, s)) \in Nat
  BY BlocksFinite DEF Piece, BlocksOf

(* An entry without blocks is well formed.                                 *)
LEMMA PieceInShape ==
    ASSUME NEW s \in {"open", "downloading", "have"}
    PROVE  /\ Shape(PieceIn(s)) /\ Exact(PieceIn(s))
           /\ \A b \in Blocks : PieceIn(s).block[b] = "none" /\ PieceIn(s).num_peers[b] = 0
<1> DEFINE pk == PieceIn(s)
<1>1. pk \in Piece
  BY DEF PieceIn, Piece, BlockStates
<1>2. \A b \in Blocks : pk.block[b] = "none" /\ pk.num_peers[b] = 0
  BY DEF PieceIn
<1>3. pk.requested = 0 /\ pk.writing = 0 /\ pk.finished = 0 /\ pk.state = s
  BY DEF PieceIn
<1> HIDE DEF pk
<1>4. BlocksOf(pk, "writing") = {} /\ BlocksOf(pk, "finished") = {} /\ BlocksOf(pk, "requested") = {}
  BY <1>2 DEF BlocksOf
<1>5. Shape(pk)
  BY <1>1, <1>3, <1>4, FS_EmptySet DEF Shape, pk
<1>6. Exact(pk)
  BY <1>2, <1>3, <1>4, FS_EmptySet DEF Exact
<1> QED
  BY <1>2, <1>5, <1>6 DEF pk

(* When one block changes its state, the two counts that it affects move   *)
(* by one.                                                                 *)
LEMMA CountMoves ==
    ASSUME NEW pk \in Piece, NEW q \in Piece, NEW c \in Blocks, NEW s,
           \A b \in Blocks \ {c} : q.block[b] = pk.block[b]
    PROVE  Cardinality(BlocksOf(q, s)) =
               IF pk.block[c] # s /\ q.block[c] = s THEN Cardinality(BlocksOf(pk, s)) + 1
               ELSE IF pk.block[c] = s /\ q.block[c] # s THEN Cardinality(BlocksOf(pk, s)) - 1
               ELSE Cardinality(BlocksOf(pk, s))
<1>1. IsFiniteSet(BlocksOf(pk, s))
  BY PieceFields
<1>2. CASE pk.block[c] # s /\ q.block[c] = s
  <2>1. BlocksOf(q, s) = BlocksOf(pk, s) \union {c} /\ c \notin BlocksOf(pk, s)
    BY <1>2 DEF BlocksOf
  <2> QED
    BY <1>1, <1>2, <2>1, FS_AddElement, ZenonT(30)
<1>3. CASE pk.block[c] = s /\ q.block[c] # s
  <2>1. BlocksOf(q, s) = BlocksOf(pk, s) \ {c} /\ c \in BlocksOf(pk, s)
    BY <1>3 DEF BlocksOf
  <2> QED
    BY <1>1, <1>3, <2>1, FS_RemoveElement, ZenonT(30)
<1>4. CASE pk.block[c] = s <=> q.block[c] = s
  <2>1. BlocksOf(q, s) = BlocksOf(pk, s)
    BY <1>4 DEF BlocksOf
  <2> QED
    BY <1>4, <2>1
<1> QED
  BY <1>2, <1>3, <1>4

(* The blocks of a complete piece are written or being written, and those  *)
(* of one all of whose blocks are written are written.                     *)
LEMMA CompleteBlocks ==
    ASSUME NEW pk, Shape(pk), Downloading(pk)
    PROVE  /\ IsPieceFinished(pk) => \A b \in Blocks : pk.block[b] \in {"writing", "finished"}
           /\ pk.finished >= NumBlocks => \A b \in Blocks : pk.block[b] = "finished"
           /\ ~ IsPieceFinished(pk) => \E b \in Blocks : pk.block[b] \notin {"writing", "finished"}
           /\ pk.writing + pk.finished = 0 => \A b \in Blocks : pk.block[b] \notin {"writing", "finished"}
<1> DEFINE W == BlocksOf(pk, "writing")
           F == BlocksOf(pk, "finished")
<1>1. /\ IsFiniteSet(W) /\ IsFiniteSet(F) /\ W \union F \in SUBSET Blocks /\ F \in SUBSET Blocks
      /\ Cardinality(W) = pk.writing /\ Cardinality(F) = pk.finished
      /\ pk.writing \in Nat /\ pk.finished \in Nat
  BY PieceFields DEF Shape, BlocksOf
<1>2. W \intersect F = {}
  BY DEF BlocksOf
<1>3. Cardinality(W \union F) = pk.writing + pk.finished
  BY <1>1, <1>2, FS_Union, FS_EmptySet
<1>4. IsPieceFinished(pk) <=> pk.writing + pk.finished >= NumBlocks
  BY DEF IsPieceFinished, Downloading
<1>5. /\ Cardinality(W \union F) <= NumBlocks /\ Cardinality(F) <= NumBlocks
      /\ Cardinality(W \union F) = NumBlocks <=> W \union F = Blocks
      /\ Cardinality(W \union F) = 0 <=> W \union F = {}
      /\ Cardinality(F) = NumBlocks => F = Blocks
  BY <1>1, BlocksFinite
<1> HIDE DEF W, F
<1>6. /\ IsPieceFinished(pk) <=> W \union F = Blocks
      /\ pk.finished >= NumBlocks => F = Blocks
      /\ pk.writing + pk.finished = 0 => W \union F = {}
  BY <1>1, <1>3, <1>4, <1>5, NumBlocksPositive
<1> QED
  BY <1>6 DEF W, F, BlocksOf

(* An operation that replaces the blocks, the peers and the counts of an   *)
(* entry leaves the rest of it alone.                                      *)
LEMMA PieceUpdate ==
    ASSUME NEW e, NEW blk, NEW np, NEW r, NEW w, NEW f,
           e \in Piece, blk \in [Blocks -> BlockStates], np \in [Blocks -> Nat],
           {r, w, f} \subseteq Nat
    PROVE  LET q == Updated(e, blk, np, r, w, f)
           IN  /\ q \in Piece
               /\ q.block = blk /\ q.num_peers = np /\ q.requested = r /\ q.writing = w /\ q.finished = f
               /\ SameFlags(e, q)
<1> DEFINE q == Updated(e, blk, np, r, w, f)
<1>1. q \in Piece
  BY DEF Piece, Updated
<1>2. q.block = blk /\ q.num_peers = np /\ q.requested = r /\ q.writing = w /\ q.finished = f
  BY DEF Piece, Updated
<1>3. SameFlags(e, q)
  BY DEF Piece, SameFlags, Updated
<1> QED
  BY <1>1, <1>2, <1>3

(* A piece that is well formed and not ours, with an entry.                *)
LEMMA WithEntryIs ==
    ASSUME NEW pk, Shape(pk), pk.state # "have"
    PROVE  LET e == WithEntry(pk)
           IN  /\ e \in Piece /\ Downloading(e)
               /\ e.block = pk.block /\ e.num_peers = pk.num_peers
               /\ e.requested = pk.requested /\ e.writing = pk.writing /\ e.finished = pk.finished
               /\ e.hashing = pk.hashing /\ e.locked = pk.locked /\ e.passed = pk.passed
<1> DEFINE e == WithEntry(pk)
<1>1. CASE pk.state = "open"
  <2> DEFINE o == PieceIn("open")
             d == PieceIn("downloading")
  <2>1. pk = o /\ e = d
    BY <1>1 DEF Shape, Downloading, WithEntry
  <2>2. d \in Piece /\ Downloading(d)
    BY PieceInShape DEF Shape, Downloading, PieceIn
  <2>3. d.block = o.block /\ d.num_peers = o.num_peers
    BY DEF PieceIn
  <2>4. d.requested = o.requested /\ d.writing = o.writing /\ d.finished = o.finished
    BY DEF PieceIn
  <2>5. d.hashing = o.hashing /\ d.locked = o.locked /\ d.passed = o.passed
    BY DEF PieceIn
  <2> HIDE DEF o, d, e
  <2> QED
    BY <2>1, <2>2, <2>3, <2>4, <2>5 DEF e
<1>2. CASE pk.state = "downloading"
  BY <1>2 DEF WithEntry, Shape, Downloading
<1> QED
  BY <1>1, <1>2, PieceFields DEF Shape

(* mark_as_writing, of a block that had not arrived: the block is being    *)
(* written and nobody is counted for it any more.                          *)
LEMMA MarkAsWritingIs ==
    ASSUME NEW pk, Shape(pk), NEW b \in Blocks, ~ IsDownloaded(pk, b)
    PROVE  LET q == MarkAsWriting(pk, b)
           IN  /\ Shape(q) /\ Downloading(q)
               /\ Exact(pk) => Exact(q)
               /\ q.block[b] = "writing" /\ q.num_peers[b] = 0
               /\ \A c \in Blocks \ {b} : q.block[c] = pk.block[c] /\ q.num_peers[c] = pk.num_peers[c]
               /\ q.hashing = pk.hashing /\ q.locked = pk.locked /\ q.passed = pk.passed
<1> DEFINE q == MarkAsWriting(pk, b)
           left == IF pk.block[b] = "requested" THEN pk.requested - 1 ELSE pk.requested
<1>1. pk.state # "have" /\ pk.block[b] \notin {"writing", "finished"}
  BY DEF IsDownloaded
<1>2. pk \in Piece /\ pk.block[b] \in BlockStates
  BY PieceFields DEF Shape
<1> DEFINE e == WithEntry(pk)
           blk == [pk.block EXCEPT ![b] = "writing"]
           np == [pk.num_peers EXCEPT ![b] = 0]
<1>3. /\ e \in Piece /\ Downloading(e)
      /\ e.block = pk.block /\ e.num_peers = pk.num_peers
      /\ e.requested = pk.requested /\ e.writing = pk.writing /\ e.finished = pk.finished
      /\ e.hashing = pk.hashing /\ e.locked = pk.locked /\ e.passed = pk.passed
  BY <1>1, WithEntryIs
<1>4. left \in Nat
  <2>1. CASE pk.block[b] = "requested"
    <3>1. b \in BlocksOf(pk, "requested")
      BY <2>1 DEF BlocksOf
    <3>2. Cardinality(BlocksOf(pk, "requested")) > 0
      BY <1>2, <3>1, PieceFields, FS_EmptySet
    <3> QED
      BY <1>2, <2>1, <3>2, PieceFields DEF Shape
  <2>2. CASE pk.block[b] # "requested"
    BY <1>2, <2>2, PieceFields
  <2> QED
    BY <2>1, <2>2
<1>5. blk \in [Blocks -> BlockStates] /\ np \in [Blocks -> Nat] /\ pk.writing + 1 \in Nat /\ pk.finished \in Nat
  BY <1>2, PieceFields DEF BlockStates
<1>6. q = Updated(e, blk, np, left, pk.writing + 1, pk.finished)
  <2>1. q = [e EXCEPT !.block[b] = "writing", !.num_peers[b] = 0, !.writing = @ + 1,
                      !.requested = IF pk.block[b] = "requested" THEN @ - 1 ELSE @]
    BY DEF MarkAsWriting
  <2> HIDE DEF e, q
  <2> QED
    BY <1>3, <2>1 DEF Piece, Updated
<1>7. /\ blk[b] = "writing" /\ np[b] = 0
      /\ \A c \in Blocks \ {b} : blk[c] = pk.block[c] /\ np[c] = pk.num_peers[c]
  BY <1>2, PieceFields
<1> HIDE DEF q, left, e, blk, np
<1>8. /\ q \in Piece /\ SameFlags(e, q) /\ q.block = blk /\ q.num_peers = np
      /\ q.writing = pk.writing + 1 /\ q.finished = pk.finished /\ q.requested = left
  BY <1>3, <1>4, <1>5, <1>6, PieceUpdate
<1>9. Downloading(q) /\ q.hashing = pk.hashing /\ q.locked = pk.locked /\ q.passed = pk.passed
  BY <1>3, <1>8 DEF SameFlags, Downloading
<1>10. /\ Cardinality(BlocksOf(q, "writing")) = Cardinality(BlocksOf(pk, "writing")) + 1
      /\ Cardinality(BlocksOf(q, "finished")) = Cardinality(BlocksOf(pk, "finished"))
      /\ Cardinality(BlocksOf(q, "requested")) =
            IF pk.block[b] = "requested" THEN Cardinality(BlocksOf(pk, "requested")) - 1
            ELSE Cardinality(BlocksOf(pk, "requested"))
  BY <1>1, <1>2, <1>7, <1>8, CountMoves
<1>11. Shape(q)
  BY <1>2, <1>8, <1>9, <1>10, PieceFields DEF Shape, left
<1>12. Exact(pk) => Exact(q)
  BY <1>7, <1>8, <1>10 DEF Exact, left
<1> QED
  BY <1>7, <1>8, <1>9, <1>11, <1>12 DEF q

(* mark_as_finished: nothing happens for a piece that is ours or a block   *)
(* that is written already; else the block is written, and the piece ours  *)
(* if it has passed and this was the last one.                             *)
LEMMA MarkAsFinishedIs ==
    ASSUME NEW pk, Shape(pk), NEW b \in Blocks
    PROVE  LET q == MarkAsFinished(pk, b)
           IN  /\ Shape(q)
               /\ Exact(pk) /\ pk.block[b] # "requested" => Exact(q)
               /\ \/ pk.state = "have" /\ q = pk
                  \/ /\ pk.state # "have" /\ Downloading(q)
                     /\ q.block[b] = "finished" /\ q.num_peers = pk.num_peers
                     /\ \A c \in Blocks \ {b} : q.block[c] = pk.block[c]
                     /\ q.hashing = pk.hashing /\ q.locked = pk.locked /\ q.passed = pk.passed
                  \/ /\ Downloading(pk) /\ pk.passed /\ ~ pk.hashing /\ q = PieceIn("have")
                     /\ \A c \in Blocks \ {b} : pk.block[c] = "finished"
<1> DEFINE q == MarkAsFinished(pk, b)
           left == IF pk.block[b] = "writing" THEN pk.writing - 1 ELSE pk.writing
           e == WithEntry(pk)
           blk == [pk.block EXCEPT ![b] = "finished"]
           next == Updated(e, blk, pk.num_peers, pk.requested, left, pk.finished + 1)
<1>1. pk \in Piece /\ pk.block[b] \in BlockStates
  BY PieceFields DEF Shape
<1>2. CASE pk.state = "have"
  BY <1>2 DEF MarkAsFinished
<1>3. CASE pk.state # "have" /\ pk.block[b] = "finished"
  <2>1. pk.state = "downloading"
    BY <1>1, <1>3, PieceInShape, PieceFields DEF Shape, Downloading
  <2>2. q = pk
    BY <1>3, <2>1 DEF MarkAsFinished, WithEntry
  <2> HIDE DEF q
  <2> QED
    BY <1>3, <2>1, <2>2 DEF q, Downloading
<1>4. CASE pk.state # "have" /\ pk.block[b] # "finished"
  <2>1. /\ e \in Piece /\ Downloading(e)
        /\ e.block = pk.block /\ e.num_peers = pk.num_peers
        /\ e.requested = pk.requested /\ e.writing = pk.writing /\ e.finished = pk.finished
        /\ e.hashing = pk.hashing /\ e.locked = pk.locked /\ e.passed = pk.passed
    BY <1>4, WithEntryIs
  <2>2. next = [e EXCEPT !.block[b] = "finished", !.finished = @ + 1,
                         !.writing = IF e.block[b] = "writing" THEN @ - 1 ELSE @]
    <3> HIDE DEF e
    <3> QED
      BY <2>1 DEF Piece, Updated
  <2>3. q = IF Downloading(pk) /\ next.finished >= NumBlocks /\ next.passed /\ ~ next.hashing
            THEN PieceIn("have") ELSE next
    BY <1>4, <2>1, <2>2 DEF MarkAsFinished
  <2>4. left \in Nat
    <3>1. CASE pk.block[b] = "writing"
      <4>1. b \in BlocksOf(pk, "writing")
        BY <3>1 DEF BlocksOf
      <4>2. Cardinality(BlocksOf(pk, "writing")) > 0
        BY <1>1, <4>1, PieceFields, FS_EmptySet
      <4> QED
        BY <1>1, <3>1, <4>2, PieceFields DEF Shape
    <3>2. CASE pk.block[b] # "writing"
      BY <1>1, <3>2, PieceFields
    <3> QED
      BY <3>1, <3>2
  <2>5. /\ blk \in [Blocks -> BlockStates] /\ pk.num_peers \in [Blocks -> Nat]
        /\ pk.requested \in Nat /\ pk.finished + 1 \in Nat
        /\ blk[b] = "finished" /\ \A c \in Blocks \ {b} : blk[c] = pk.block[c]
    BY <1>1, PieceFields DEF BlockStates
  <2> HIDE DEF left, q, e, blk
  <2>11. /\ next \in Piece /\ SameFlags(e, next) /\ next.block = blk /\ next.num_peers = pk.num_peers
         /\ next.writing = left /\ next.finished = pk.finished + 1 /\ next.requested = pk.requested
    BY <2>1, <2>4, <2>5, PieceUpdate
  <2> HIDE DEF next
  <2>12. Downloading(next) /\ next.hashing = pk.hashing /\ next.locked = pk.locked /\ next.passed = pk.passed
    BY <2>1, <2>11 DEF SameFlags, Downloading
  <2>6. /\ Cardinality(BlocksOf(next, "finished")) = Cardinality(BlocksOf(pk, "finished")) + 1
        /\ Cardinality(BlocksOf(next, "writing")) =
              IF pk.block[b] = "writing" THEN Cardinality(BlocksOf(pk, "writing")) - 1
              ELSE Cardinality(BlocksOf(pk, "writing"))
        /\ Cardinality(BlocksOf(next, "requested")) <= Cardinality(BlocksOf(pk, "requested"))
        /\ pk.block[b] # "requested" =>
              Cardinality(BlocksOf(next, "requested")) = Cardinality(BlocksOf(pk, "requested"))
    BY <1>1, <1>4, <2>5, <2>11, CountMoves, PieceFields
  <2>7. Shape(next)
    BY <1>1, <2>6, <2>11, <2>12, PieceFields DEF Shape, left
  <2>8. Exact(pk) /\ pk.block[b] # "requested" => Exact(next)
    BY <2>5, <2>6, <2>11 DEF Exact
  <2>9. CASE q = next
    BY <1>4, <2>5, <2>7, <2>8, <2>9, <2>11, <2>12 DEF q
  <2>10. CASE q = PieceIn("have") /\ Downloading(pk) /\ next.finished >= NumBlocks /\ next.passed /\ ~ next.hashing
    <3>1. \A c \in Blocks : next.block[c] = "finished"
      BY <2>7, <2>10, <2>12, CompleteBlocks
    <3>2. Shape(q) /\ Exact(q)
      BY <2>10, PieceInShape
    <3> QED
      BY <2>5, <2>10, <2>11, <2>12, <3>1, <3>2 DEF q
  <2> QED
    BY <2>3, <2>9, <2>10
<1> QED
  BY <1>2, <1>3, <1>4

(* An entry that is dropped because nothing is left in it was well formed  *)
(* without its flags.                                                      *)
LEMMA KeptIs ==
    ASSUME NEW pk, Shape(pk)
    PROVE  /\ Shape(Kept(pk))
           /\ Exact(pk) => Exact(Kept(pk))
           /\ \/ Kept(pk) = pk
              \/ /\ Kept(pk) = Open /\ ~ pk.hashing
                 /\ pk.requested + pk.writing + pk.finished = 0
                 /\ \A b \in Blocks : pk.block[b] = "none"
<1>1. CASE pk.requested + pk.writing + pk.finished = 0 /\ ~ pk.hashing
  <2>1. Kept(pk) = Open
    BY <1>1 DEF Kept
  <2>2. Shape(Open) /\ Exact(Open)
    BY PieceInShape DEF Open
  <2>3. pk.requested = 0 /\ pk.writing = 0 /\ pk.finished = 0
    BY <1>1, PieceFields DEF Shape
  <2>4. /\ BlocksOf(pk, "requested") \in SUBSET Blocks
        /\ BlocksOf(pk, "writing") \in SUBSET Blocks
        /\ BlocksOf(pk, "finished") \in SUBSET Blocks
    BY DEF BlocksOf
  <2>5. /\ Cardinality(BlocksOf(pk, "requested")) = 0
        /\ Cardinality(BlocksOf(pk, "writing")) = 0
        /\ Cardinality(BlocksOf(pk, "finished")) = 0
    BY <2>3, PieceFields DEF Shape
  <2>6. BlocksOf(pk, "requested") = {} /\ BlocksOf(pk, "writing") = {} /\ BlocksOf(pk, "finished") = {}
    BY <2>4, <2>5, BlocksFinite
  <2>7. \A b \in Blocks : pk.block[b] = "none"
    BY <2>6, PieceFields DEF BlocksOf, BlockStates, Shape
  <2> QED
    BY <1>1, <2>1, <2>2, <2>7
<1>2. CASE ~ (pk.requested + pk.writing + pk.finished = 0 /\ ~ pk.hashing)
  BY <1>2 DEF Kept
<1> QED
  BY <1>1, <1>2

(* write_failed keeps the entry well formed, and no block but those that   *)
(* were being written or written before is taken for one.                  *)
LEMMA WriteFailedIs ==
    ASSUME NEW pk, Shape(pk), NEW b \in Blocks
    PROVE  LET q == WriteFailed(pk, b)
           IN  /\ Shape(q) /\ q.block[b] # "writing"
               /\ \A c \in Blocks : q.block[c] \in {"writing", "finished"} => q.block[c] = pk.block[c]
               /\ pk.block[b] = "writing" =>
                     /\ Exact(pk) => Exact(q)
                     /\ \A c \in Blocks : q.num_peers[c] = pk.num_peers[c] \/ q.num_peers[c] = 0
                     /\ \/ q = Open
                        \/ /\ Downloading(q) /\ q.locked /\ ~ q.passed
                           /\ \A c \in Blocks \ {b} : q.block[c] = pk.block[c]
<1> DEFINE q == WriteFailed(pk, b)
           left == IF pk.block[b] = "writing" THEN pk.writing - 1 ELSE pk.writing
           e == [pk EXCEPT !.passed = FALSE, !.locked = TRUE]
           blk == [pk.block EXCEPT ![b] = "none"]
           next == Updated(e, blk, pk.num_peers, pk.requested, left, pk.finished)
<1>1. pk \in Piece /\ pk.block[b] \in BlockStates
  BY PieceFields DEF Shape
<1>2. CASE ~ Downloading(pk)
  <2>1. pk.block[b] = "none"
    BY <1>1, <1>2, PieceInShape, PieceFields DEF Shape
  <2>2. q = pk
    BY <1>2 DEF WriteFailed
  <2> HIDE DEF q
  <2> QED
    BY <2>1, <2>2 DEF q
<1>3. CASE pk.block[b] = "finished"
  <2>1. q = pk
    BY <1>3 DEF WriteFailed
  <2> HIDE DEF q
  <2> QED
    BY <1>3, <2>1 DEF q
<1>4. CASE Downloading(pk) /\ pk.block[b] # "finished"
  <2>1. e \in Piece /\ e.block = pk.block /\ e.num_peers = pk.num_peers /\ e.state = pk.state
    BY <1>1 DEF Piece
  <2>12. e.locked /\ ~ e.passed
    BY <1>1 DEF Piece
  <2>2. e.requested = pk.requested /\ e.writing = pk.writing /\ e.finished = pk.finished
    BY <1>1 DEF Piece
  <2>3. q = Kept(next)
    <3>1. q = Kept([pk EXCEPT !.block[b] = "none", !.passed = FALSE, !.locked = TRUE, !.writing = left])
      BY <1>1, <1>4 DEF WriteFailed, Piece
    <3>2. next = [pk EXCEPT !.block[b] = "none", !.passed = FALSE, !.locked = TRUE, !.writing = left]
      <4> HIDE DEF left
      <4> QED
        BY <1>1 DEF Updated, Piece
    <3> QED
      BY <3>1, <3>2
  <2>4. left \in Nat
    <3>1. CASE pk.block[b] = "writing"
      <4>1. b \in BlocksOf(pk, "writing")
        BY <3>1 DEF BlocksOf
      <4>2. Cardinality(BlocksOf(pk, "writing")) > 0
        BY <1>1, <4>1, PieceFields, FS_EmptySet
      <4> QED
        BY <1>1, <3>1, <4>2, PieceFields DEF Shape
    <3>2. CASE pk.block[b] # "writing"
      BY <1>1, <3>2, PieceFields
    <3> QED
      BY <3>1, <3>2
  <2>5. /\ blk \in [Blocks -> BlockStates] /\ pk.num_peers \in [Blocks -> Nat]
        /\ pk.requested \in Nat /\ pk.finished \in Nat
        /\ blk[b] = "none" /\ \A c \in Blocks \ {b} : blk[c] = pk.block[c]
    BY <1>1, PieceFields DEF BlockStates
  <2> HIDE DEF left, q, e, blk
  <2>6. /\ next \in Piece /\ SameFlags(e, next) /\ next.block = blk /\ next.num_peers = pk.num_peers
        /\ next.writing = left /\ next.finished = pk.finished /\ next.requested = pk.requested
    BY <2>1, <2>4, <2>5, PieceUpdate
  <2> HIDE DEF next
  <2>7. /\ Cardinality(BlocksOf(next, "writing")) =
              IF pk.block[b] = "writing" THEN Cardinality(BlocksOf(pk, "writing")) - 1
              ELSE Cardinality(BlocksOf(pk, "writing"))
        /\ Cardinality(BlocksOf(next, "finished")) = Cardinality(BlocksOf(pk, "finished"))
        /\ Cardinality(BlocksOf(next, "requested")) <= Cardinality(BlocksOf(pk, "requested"))
    BY <1>1, <1>4, <2>5, <2>6, CountMoves, PieceFields
  <2>8. Shape(next)
    <3>1. Downloading(next)
      BY <1>4, <2>1, <2>6 DEF SameFlags, Downloading
    <3> QED
      BY <1>1, <2>6, <2>7, <3>1, PieceFields DEF Shape, left
  <2>9. Shape(q) /\ (q = next \/ q = Open)
    BY <2>3, <2>8, KeptIs
  <2>10. Exact(Open) /\ \A c \in Blocks : Open.block[c] = "none" /\ Open.num_peers[c] = 0
    BY PieceInShape DEF Open
  <2>11. Downloading(next) /\ next.locked /\ ~ next.passed
    BY <1>4, <2>1, <2>6, <2>12 DEF SameFlags, Downloading
  <2>13. ASSUME pk.block[b] = "writing", Exact(pk) PROVE Exact(next)
    <3>1. Cardinality(BlocksOf(next, "requested")) = Cardinality(BlocksOf(pk, "requested"))
      BY <1>1, <2>5, <2>6, <2>13, CountMoves
    <3>2. ASSUME NEW c \in Blocks PROVE next.block[c] = "requested" <=> next.num_peers[c] > 0
      BY <2>5, <2>6, <2>13 DEF Exact
    <3> QED
      BY <2>6, <2>13, <3>1, <3>2 DEF Exact
  <2>14. CASE q = Open
    BY <2>9, <2>10, <2>14 DEF q
  <2>15. CASE q = next
    BY <2>5, <2>6, <2>8, <2>11, <2>13, <2>15 DEF q
  <2> QED
    BY <2>9, <2>14, <2>15
<1> QED
  BY <1>2, <1>3, <1>4

(* The flags of an entry change without its blocks: started_hash_job,      *)
(* completed_hash_job and lock_piece.                                      *)
LEMMA FlagsOnly ==
    ASSUME NEW pk, Shape(pk), Downloading(pk), NEW q,
           q \in {[pk EXCEPT !.hashing = TRUE], [pk EXCEPT !.hashing = FALSE],
                  [pk EXCEPT !.passed = FALSE, !.locked = TRUE], [pk EXCEPT !.passed = TRUE]}
    PROVE  /\ Shape(q) /\ Downloading(q)
           /\ Exact(pk) => Exact(q)
           /\ q.block = pk.block /\ q.num_peers = pk.num_peers
           /\ q.writing = pk.writing /\ q.finished = pk.finished
<1>1. pk \in Piece
  BY DEF Shape
<1>2. /\ q.block = pk.block /\ q.num_peers = pk.num_peers /\ q.state = pk.state
      /\ q.writing = pk.writing /\ q.finished = pk.finished /\ q.requested = pk.requested
  BY <1>1 DEF Piece
<1>3. q \in Piece
  BY <1>1 DEF Piece
<1>4. \A s : BlocksOf(q, s) = BlocksOf(pk, s)
  BY <1>2 DEF BlocksOf
<1> QED
  BY <1>2, <1>3, <1>4 DEF Shape, Exact, Downloading

(* abort_download, called n[b] times for block b: only requested blocks    *)
(* become free again, and each block is counted for that many peers less.  *)
LEMMA AbortDownloadIs ==
    ASSUME NEW pk, Shape(pk), NEW n, n \in [Blocks -> Nat]
    PROVE  LET q == AbortDownload(pk, n)
           IN  /\ Shape(q)
               /\ Exact(pk) => Exact(q)
               /\ \A b \in Blocks : pk.block[b] # "requested" => q.block[b] = pk.block[b]
               /\ \A b \in Blocks : q.block[b] \in {pk.block[b], "none"}
               /\ Exact(pk) => \A b \in Blocks : q.num_peers[b] <=
                     IF n[b] >= pk.num_peers[b] THEN 0 ELSE pk.num_peers[b] - n[b]
               /\ q.writing = pk.writing /\ q.finished = pk.finished /\ q.hashing = pk.hashing
               /\ SameFlags(pk, q) \/ (q = Open /\ Downloading(pk) /\ pk.writing + pk.finished = 0)
<1> DEFINE left(b) == IF n[b] >= pk.num_peers[b] THEN 0 ELSE pk.num_peers[b] - n[b]
           freed == {b \in Blocks : IsRequested(pk, b) /\ n[b] > 0 /\ left(b) = 0}
           blk == [b \in Blocks |-> IF b \in freed THEN "none" ELSE pk.block[b]]
           np == [b \in Blocks |-> IF IsRequested(pk, b) THEN left(b) ELSE pk.num_peers[b]]
           r == pk.requested - Cardinality(freed)
           next == Updated(pk, blk, np, r, pk.writing, pk.finished)
           q == AbortDownload(pk, n)
<1>1. /\ pk \in Piece /\ pk.block \in [Blocks -> BlockStates] /\ pk.num_peers \in [Blocks -> Nat]
      /\ pk.requested \in Nat /\ pk.writing \in Nat /\ pk.finished \in Nat
  BY PieceFields DEF Shape
<1>2. \A b \in Blocks : left(b) \in Nat
  BY <1>1
<1>3. freed \in SUBSET BlocksOf(pk, "requested")
  BY DEF IsRequested, BlocksOf
<1>4. /\ IsFiniteSet(BlocksOf(pk, "requested"))
      /\ Cardinality(BlocksOf(pk, "requested")) \in Nat
      /\ Cardinality(freed) \in Nat /\ Cardinality(freed) <= Cardinality(BlocksOf(pk, "requested"))
      /\ Cardinality(BlocksOf(pk, "requested") \ freed) =
            Cardinality(BlocksOf(pk, "requested")) - Cardinality(freed)
  <2> HIDE DEF freed
  <2>1. BlocksOf(pk, "requested") \in SUBSET Blocks /\ freed \in SUBSET Blocks
    BY <1>3 DEF BlocksOf
  <2>2. BlocksOf(pk, "requested") \intersect freed = freed
    BY <1>3
  <2> QED
    BY <1>3, <2>1, <2>2, BlocksFinite, FS_Subset, FS_Difference, ZenonT(30)
<1>5. r \in Nat
  BY <1>1, <1>4 DEF Shape
<1>6. blk \in [Blocks -> BlockStates] /\ np \in [Blocks -> Nat]
  BY <1>1, <1>2 DEF BlockStates
<1>7. q = IF freed = {} THEN next ELSE Kept(next)
  BY DEF AbortDownload, Updated
<1>8. /\ \A b \in Blocks : blk[b] = IF b \in freed THEN "none" ELSE pk.block[b]
      /\ \A b \in Blocks : np[b] = IF IsRequested(pk, b) THEN left(b) ELSE pk.num_peers[b]
  OBVIOUS
<1> HIDE DEF blk, np, r, q
<1>9. /\ next \in Piece /\ SameFlags(pk, next) /\ next.block = blk /\ next.num_peers = np
      /\ next.writing = pk.writing /\ next.finished = pk.finished /\ next.requested = r
  BY <1>1, <1>5, <1>6, PieceUpdate
<1> HIDE DEF next
<1>10. /\ BlocksOf(next, "writing") = BlocksOf(pk, "writing")
       /\ BlocksOf(next, "finished") = BlocksOf(pk, "finished")
       /\ BlocksOf(next, "requested") = BlocksOf(pk, "requested") \ freed
  BY <1>3, <1>8, <1>9 DEF BlocksOf
<1>11. CASE ~ Downloading(pk)
  <2>1. freed = {} /\ \A b \in Blocks : ~ IsRequested(pk, b)
    BY <1>11 DEF IsRequested
  <2>2. blk = pk.block /\ np = pk.num_peers
    BY <1>1, <1>6, <1>8, <2>1
  <2>3. r = pk.requested
    BY <1>1, <2>1, FS_EmptySet DEF r
  <2>4. next = pk
    BY <1>1, <2>2, <2>3 DEF next, Updated, Piece
  <2>5. q = pk
    BY <1>7, <2>1, <2>4
  <2>6. \A b \in Blocks : pk.num_peers[b] = 0
    BY <1>1, <1>11, PieceInShape, PieceFields DEF Shape
  <2>7. SameFlags(pk, pk)
    BY DEF SameFlags
  <2> QED
    BY <1>1, <2>5, <2>6, <2>7 DEF q
<1>12. CASE Downloading(pk)
  <2>1. Downloading(next)
    BY <1>9, <1>12 DEF SameFlags, Downloading
  <2>2. Shape(next)
    BY <1>1, <1>4, <1>9, <1>10, <2>1 DEF Shape, r
  <2>3. ASSUME Exact(pk) PROVE Exact(next)
    <3>1. next.requested = Cardinality(BlocksOf(next, "requested"))
      BY <1>4, <1>9, <1>10, <2>3 DEF Exact, r
    <3>2. ASSUME NEW b \in Blocks PROVE next.block[b] = "requested" <=> next.num_peers[b] > 0
      <4>1. IsRequested(pk, b) <=> pk.block[b] = "requested"
        BY <1>12 DEF IsRequested
      <4>2. pk.block[b] = "requested" <=> pk.num_peers[b] > 0
        BY <2>3 DEF Exact
      <4>3. n[b] \in Nat /\ pk.num_peers[b] \in Nat /\ left(b) \in Nat
        BY <1>1, <1>2
      <4> QED
        BY <1>8, <1>9, <4>1, <4>2, <4>3
    <3> QED
      BY <3>1, <3>2 DEF Exact
  <2>4. \A b \in Blocks : /\ pk.block[b] # "requested" => next.block[b] = pk.block[b]
                          /\ next.block[b] \in {pk.block[b], "none"}
    BY <1>3, <1>8, <1>9 DEF BlocksOf
  <2>5. ASSUME Exact(pk), NEW b \in Blocks PROVE next.num_peers[b] <= left(b)
    BY <1>1, <1>2, <1>8, <1>9, <1>12, <2>5 DEF Exact, IsRequested
  <2>6. CASE q = next
    BY <1>9, <2>2, <2>3, <2>4, <2>5, <2>6 DEF q, SameFlags
  <2>7. CASE q = Kept(next)
    <3>1. CASE q = Open /\ ~ next.hashing /\ next.requested + next.writing + next.finished = 0
               /\ \A b \in Blocks : next.block[b] = "none"
      <4>1. Shape(q) /\ Exact(q) /\ \A b \in Blocks : q.block[b] = "none" /\ q.num_peers[b] = 0
        BY <3>1, PieceInShape DEF Open
      <4>2. q.writing = 0 /\ q.finished = 0 /\ q.hashing = FALSE
        BY <3>1 DEF Open, PieceIn
      <4>3. pk.writing = 0 /\ pk.finished = 0
        BY <1>1, <1>5, <1>9, <3>1
      <4>4. pk.hashing = FALSE
        BY <1>9, <3>1, PieceFields DEF SameFlags
      <4>5. \A b \in Blocks : q.num_peers[b] <= left(b)
        BY <1>2, <4>1
      <4>6. \A b \in Blocks : /\ pk.block[b] # "requested" => q.block[b] = pk.block[b]
                              /\ q.block[b] \in {pk.block[b], "none"}
        BY <2>4, <3>1, <4>1
      <4>7. q.writing = pk.writing /\ q.finished = pk.finished
        BY <4>2, <4>3
      <4>8. q.hashing = pk.hashing
        BY <4>2, <4>4
      <4>9. q = Open /\ Downloading(pk) /\ pk.writing + pk.finished = 0
        BY <1>12, <3>1, <4>3
      <4> HIDE DEF left
      <4> QED
        BY <4>1, <4>5, <4>6, <4>7, <4>8, <4>9 DEF q, left
    <3> QED
      BY <2>2, <2>6, <2>7, <3>1, KeptIs
  <2> QED
    BY <1>7, <2>6, <2>7
<1> QED
  BY <1>11, <1>12

(* mark_as_downloading, called n[b] times for block b: the blocks that     *)
(* have not arrived are requested, from that many peers more.              *)
LEMMA MarkAsDownloadingIs ==
    ASSUME NEW pk, Shape(pk), NEW n, n \in [Blocks -> Nat]
    PROVE  LET q == MarkAsDownloading(pk, n)
           IN  /\ Shape(q)
               /\ Exact(pk) => Exact(q)
               /\ \A b \in Blocks : pk.block[b] \in {"writing", "finished"} => q.block[b] = pk.block[b]
               /\ \A b \in Blocks : q.block[b] \in {pk.block[b], "requested"}
               /\ \A b \in Blocks : q.num_peers[b] <= pk.num_peers[b] + n[b]
               /\ q.writing = pk.writing /\ q.finished = pk.finished
               /\ q.hashing = pk.hashing /\ q.locked = pk.locked /\ q.passed = pk.passed
               /\ q.state = pk.state \/ (pk.state = "open" /\ q.state = "downloading")
<1> DEFINE asked == {b \in Blocks : n[b] > 0 /\ ~ IsDownloaded(pk, b)}
           new == {b \in asked : pk.block[b] = "none"}
           e == WithEntry(pk)
           blk == [b \in Blocks |-> IF b \in asked THEN "requested" ELSE pk.block[b]]
           np == [b \in Blocks |-> IF b \in asked THEN pk.num_peers[b] + n[b] ELSE pk.num_peers[b]]
           r == pk.requested + Cardinality(new)
           q == MarkAsDownloading(pk, n)
<1>1. /\ pk \in Piece /\ pk.block \in [Blocks -> BlockStates] /\ pk.num_peers \in [Blocks -> Nat]
      /\ pk.requested \in Nat /\ pk.writing \in Nat /\ pk.finished \in Nat
  BY PieceFields DEF Shape
<1>2. CASE asked = {}
  <2>1. q = pk
    BY <1>2 DEF MarkAsDownloading
  <2>2. \A b \in Blocks : pk.num_peers[b] <= pk.num_peers[b] + n[b]
    BY <1>1
  <2> HIDE DEF q
  <2> QED
    BY <2>1, <2>2 DEF q
<1>3. CASE asked # {}
  <2>1. pk.state # "have"
    BY <1>3 DEF IsDownloaded
  <2>2. /\ e \in Piece /\ Downloading(e)
        /\ e.block = pk.block /\ e.num_peers = pk.num_peers
        /\ e.requested = pk.requested /\ e.writing = pk.writing /\ e.finished = pk.finished
        /\ e.hashing = pk.hashing /\ e.locked = pk.locked /\ e.passed = pk.passed
    BY <2>1, WithEntryIs
  <2>3. \A b \in asked : b \in Blocks /\ n[b] > 0 /\ pk.block[b] \in {"none", "requested"}
    BY <1>1 DEF IsDownloaded, BlockStates
  <2>4. new \in SUBSET Blocks /\ new \intersect BlocksOf(pk, "requested") = {}
    BY DEF BlocksOf
  <2>5. /\ IsFiniteSet(new) /\ Cardinality(new) \in Nat /\ IsFiniteSet(BlocksOf(pk, "requested"))
        /\ Cardinality(BlocksOf(pk, "requested")) \in Nat
        /\ Cardinality(BlocksOf(pk, "requested") \union new) =
              Cardinality(BlocksOf(pk, "requested")) + Cardinality(new)
    <3> HIDE DEF new
    <3>1. BlocksOf(pk, "requested") \in SUBSET Blocks
      BY DEF BlocksOf
    <3>2. BlocksOf(pk, "requested") \intersect new = {}
      BY <2>4
    <3>3. /\ IsFiniteSet(new) /\ Cardinality(new) \in Nat /\ IsFiniteSet(BlocksOf(pk, "requested"))
          /\ Cardinality(BlocksOf(pk, "requested")) \in Nat
      BY <2>4, <3>1, BlocksFinite
    <3>4. Cardinality(BlocksOf(pk, "requested") \union new) =
              Cardinality(BlocksOf(pk, "requested")) + Cardinality(new) - Cardinality({})
      BY <3>2, <3>3, FS_Union
    <3> QED
      BY <3>3, <3>4, FS_EmptySet
  <2>6. r \in Nat
    BY <1>1, <2>5
  <2>7. blk \in [Blocks -> BlockStates] /\ np \in [Blocks -> Nat]
    BY <1>1 DEF BlockStates
  <2>8. /\ \A b \in Blocks : blk[b] = IF b \in asked THEN "requested" ELSE pk.block[b]
        /\ \A b \in Blocks : np[b] = IF b \in asked THEN pk.num_peers[b] + n[b] ELSE pk.num_peers[b]
    OBVIOUS
  <2>9. q = Updated(e, blk, np, r, pk.writing, pk.finished)
    <3>1. q = [e EXCEPT !.block = blk, !.num_peers = np, !.requested = r]
      <4>1. q = [e EXCEPT !.block = [b \in Blocks |-> IF b \in asked THEN "requested" ELSE e.block[b]],
                          !.num_peers = [b \in Blocks |-> IF b \in asked THEN e.num_peers[b] + n[b]
                                                          ELSE e.num_peers[b]],
                          !.requested = e.requested + Cardinality(new)]
        BY <1>3, <2>2 DEF MarkAsDownloading, Piece
      <4> HIDE DEF q, e, asked, new
      <4> QED
        BY <2>2, <4>1
    <3> HIDE DEF q, e, blk, np, r
    <3> QED
      BY <2>2, <3>1 DEF Updated, Piece
  <2> HIDE DEF q, e, blk, np, r
  <2>10. /\ q \in Piece /\ SameFlags(e, q) /\ q.block = blk /\ q.num_peers = np
         /\ q.writing = pk.writing /\ q.finished = pk.finished /\ q.requested = r
    BY <1>1, <2>2, <2>6, <2>7, <2>9, PieceUpdate
  <2>11. Downloading(q) /\ q.hashing = pk.hashing /\ q.locked = pk.locked /\ q.passed = pk.passed
    BY <2>2, <2>10 DEF SameFlags, Downloading
  <2>12. /\ BlocksOf(q, "writing") = BlocksOf(pk, "writing")
         /\ BlocksOf(q, "finished") = BlocksOf(pk, "finished")
         /\ BlocksOf(q, "requested") = BlocksOf(pk, "requested") \union new
    BY <2>3, <2>8, <2>10 DEF BlocksOf
  <2>13. Shape(q)
    BY <1>1, <2>5, <2>10, <2>11, <2>12 DEF Shape, r
  <2>14. ASSUME Exact(pk) PROVE Exact(q)
    <3>1. q.requested = Cardinality(BlocksOf(q, "requested"))
      BY <2>5, <2>10, <2>12, <2>14 DEF Exact, r
    <3>2. ASSUME NEW b \in Blocks PROVE q.block[b] = "requested" <=> q.num_peers[b] > 0
      <4>1. CASE b \in asked
        <5>1. n[b] > 0 /\ n[b] \in Nat /\ pk.num_peers[b] \in Nat
          BY <1>1, <2>3, <4>1
        <5> QED
          BY <2>8, <2>10, <4>1, <5>1
      <4>2. CASE b \notin asked
        BY <2>8, <2>10, <2>14, <4>2 DEF Exact
      <4> QED
        BY <4>1, <4>2
    <3> QED
      BY <3>1, <3>2 DEF Exact
  <2>15. \A b \in Blocks : /\ pk.block[b] \in {"writing", "finished"} => q.block[b] = pk.block[b]
                           /\ q.block[b] \in {pk.block[b], "requested"}
    BY <2>3, <2>8, <2>10
  <2>16. \A b \in Blocks : q.num_peers[b] <= pk.num_peers[b] + n[b]
    BY <1>1, <2>8, <2>10
  <2>17. q.state = pk.state \/ (pk.state = "open" /\ q.state = "downloading")
    BY <1>1, <2>1, <2>11, PieceFields DEF Downloading
  <2> QED
    BY <2>10, <2>11, <2>13, <2>14, <2>15, <2>16, <2>17 DEF q
<1> QED
  BY <1>2, <1>3

(* From pk to q only requests change: what is written or being written and *)
(* the hash job stay, and so does a complete piece as a whole.             *)
RequestsOnly(pk, q) ==
    /\ Shape(q)
    /\ Exact(pk) => Exact(q)
    /\ \A b \in Blocks : pk.block[b] \in {"writing", "finished"} => q.block[b] = pk.block[b]
    /\ \A b \in Blocks : q.block[b] \in {"writing", "finished"} => q.block[b] = pk.block[b]
    /\ q.writing = pk.writing /\ q.finished = pk.finished
    /\ q.hashing = pk.hashing
    /\ q.locked => pk.locked
    /\ q.passed => pk.passed
    /\ q.state = "have" <=> pk.state = "have"
    /\ IsPieceFinished(pk) => SameFlags(pk, q)
    /\ Downloading(pk) => q.state = "open" \/ SameFlags(pk, q)

(* Nothing changes.                                                        *)
LEMMA RequestsOnlySame ==
    ASSUME NEW pk, Shape(pk)
    PROVE  RequestsOnly(pk, pk)
  BY DEF RequestsOnly, SameFlags

(* Two changes of requests are one.                                        *)
LEMMA RequestsOnlyTwice ==
    ASSUME NEW pk, NEW q, NEW r, RequestsOnly(pk, q), RequestsOnly(q, r),
           q.state = "open" => r.state = "open"
    PROVE  RequestsOnly(pk, r)
<1>1. IsPieceFinished(pk) => SameFlags(pk, q) /\ IsPieceFinished(q)
  BY DEF RequestsOnly, SameFlags, IsPieceFinished, Downloading
<1>2. IsPieceFinished(pk) => SameFlags(pk, r)
  BY <1>1 DEF RequestsOnly, SameFlags
<1>3. /\ \A b \in Blocks : pk.block[b] \in {"writing", "finished"} => r.block[b] = pk.block[b]
      /\ \A b \in Blocks : r.block[b] \in {"writing", "finished"} => r.block[b] = pk.block[b]
  BY DEF RequestsOnly
<1>4. /\ Shape(r) /\ (Exact(pk) => Exact(r))
      /\ r.writing = pk.writing /\ r.finished = pk.finished
      /\ r.hashing = pk.hashing
      /\ r.state = "have" <=> pk.state = "have"
  BY DEF RequestsOnly
<1>5. (r.locked => pk.locked) /\ (r.passed => pk.passed)
  BY DEF RequestsOnly
<1>6. Downloading(pk) => r.state = "open" \/ SameFlags(pk, r)
  BY DEF RequestsOnly, SameFlags, Downloading
<1> QED
  BY <1>2, <1>3, <1>4, <1>5, <1>6 DEF RequestsOnly

(* abort_download changes requests only.                                   *)
LEMMA AbortDownloadRequestsOnly ==
    ASSUME NEW pk, Shape(pk), NEW n, n \in [Blocks -> Nat]
    PROVE  /\ RequestsOnly(pk, AbortDownload(pk, n))
           /\ pk.state = "open" => AbortDownload(pk, n).state = "open"
<1> DEFINE q == AbortDownload(pk, n)
<1>1. /\ Shape(q)
      /\ Exact(pk) => Exact(q)
      /\ \A b \in Blocks : pk.block[b] # "requested" => q.block[b] = pk.block[b]
      /\ \A b \in Blocks : q.block[b] \in {pk.block[b], "none"}
      /\ q.writing = pk.writing /\ q.finished = pk.finished /\ q.hashing = pk.hashing
  BY AbortDownloadIs
<1>2. SameFlags(pk, q) \/ (q = Open /\ Downloading(pk) /\ pk.writing + pk.finished = 0)
  BY AbortDownloadIs
<1> HIDE DEF q
<1>5. /\ \A b \in Blocks : pk.block[b] \in {"writing", "finished"} => q.block[b] = pk.block[b]
      /\ \A b \in Blocks : q.block[b] \in {"writing", "finished"} => q.block[b] = pk.block[b]
  BY <1>1
<1>3. CASE SameFlags(pk, q)
  <2>1. /\ (q.locked => pk.locked) /\ (q.passed => pk.passed) /\ (q.state = "have" <=> pk.state = "have")
        /\ q.state = pk.state
    BY <1>3 DEF SameFlags
  <2> QED
    BY <1>1, <1>3, <1>5, <2>1 DEF RequestsOnly, q
<1>4. CASE q = Open /\ Downloading(pk) /\ pk.writing + pk.finished = 0
  <2>1. ~ IsPieceFinished(pk)
    BY <1>4, NumBlocksPositive DEF IsPieceFinished, Downloading
  <2>2. /\ ~ q.locked /\ ~ q.passed /\ q.state # "have" /\ pk.state # "have"
        /\ q.state = "open"
    BY <1>4 DEF Open, PieceIn, Downloading
  <2> QED
    BY <1>1, <1>5, <2>1, <2>2 DEF RequestsOnly, q
<1> QED
  BY <1>2, <1>3, <1>4 DEF q

(* mark_as_downloading changes requests only.                              *)
LEMMA MarkAsDownloadingRequestsOnly ==
    ASSUME NEW pk, Shape(pk), NEW n, n \in [Blocks -> Nat]
    PROVE  RequestsOnly(pk, MarkAsDownloading(pk, n))
<1> DEFINE q == MarkAsDownloading(pk, n)
<1>1. /\ Shape(q)
      /\ Exact(pk) => Exact(q)
      /\ \A b \in Blocks : pk.block[b] \in {"writing", "finished"} => q.block[b] = pk.block[b]
      /\ \A b \in Blocks : q.block[b] \in {pk.block[b], "requested"}
      /\ q.writing = pk.writing /\ q.finished = pk.finished
  BY MarkAsDownloadingIs
<1>2. q.hashing = pk.hashing /\ q.locked = pk.locked /\ q.passed = pk.passed
  BY MarkAsDownloadingIs
<1>3. q.state = pk.state \/ (pk.state = "open" /\ q.state = "downloading")
  BY MarkAsDownloadingIs
<1> HIDE DEF q
<1>4. IsPieceFinished(pk) \/ Downloading(pk) => SameFlags(pk, q)
  BY <1>2, <1>3 DEF IsPieceFinished, Downloading, SameFlags
<1> QED
  BY <1>1, <1>2, <1>3, <1>4 DEF RequestsOnly, q

(* started_hash_job.                                                       *)
LEMMA StartedHashJobIs ==
    ASSUME NEW pk, Shape(pk), Downloading(pk)
    PROVE  LET q == StartedHashJob(pk)
           IN  /\ Shape(q) /\ Downloading(q) /\ (Exact(pk) => Exact(q))
               /\ q.block = pk.block /\ q.num_peers = pk.num_peers
               /\ q.writing = pk.writing /\ q.finished = pk.finished
               /\ q.hashing /\ q.locked = pk.locked /\ q.passed = pk.passed
<1> DEFINE q == StartedHashJob(pk)
<1>1. q = [pk EXCEPT !.hashing = TRUE]
  BY DEF StartedHashJob
<1> HIDE DEF q
<1>2. /\ Shape(q) /\ Downloading(q) /\ (Exact(pk) => Exact(q))
      /\ q.block = pk.block /\ q.num_peers = pk.num_peers
      /\ q.writing = pk.writing /\ q.finished = pk.finished
  BY <1>1, FlagsOnly
<1>3. q.hashing /\ q.locked = pk.locked /\ q.passed = pk.passed
  BY <1>1 DEF Shape, Piece
<1> QED
  BY <1>2, <1>3 DEF q

(* completed_hash_job.                                                     *)
LEMMA CompletedHashJobIs ==
    ASSUME NEW pk, Shape(pk)
    PROVE  LET q == CompletedHashJob(pk)
           IN  /\ Shape(q) /\ (Exact(pk) => Exact(q))
               /\ q.block = pk.block /\ q.num_peers = pk.num_peers
               /\ q.writing = pk.writing /\ q.finished = pk.finished
               /\ q.state = pk.state /\ ~ q.hashing /\ q.locked = pk.locked /\ q.passed = pk.passed
<1> DEFINE q == CompletedHashJob(pk)
<1>1. CASE Downloading(pk)
  <2>1. q = [pk EXCEPT !.hashing = FALSE]
    BY <1>1 DEF CompletedHashJob
  <2> HIDE DEF q
  <2>2. /\ Shape(q) /\ Downloading(q) /\ (Exact(pk) => Exact(q))
        /\ q.block = pk.block /\ q.num_peers = pk.num_peers
        /\ q.writing = pk.writing /\ q.finished = pk.finished
    BY <1>1, <2>1, FlagsOnly
  <2>3. ~ q.hashing /\ q.locked = pk.locked /\ q.passed = pk.passed
    BY <2>1 DEF Shape, Piece
  <2> QED
    BY <1>1, <2>2, <2>3 DEF q, Downloading
<1>2. CASE ~ Downloading(pk)
  <2>1. q = pk
    BY <1>2 DEF CompletedHashJob
  <2>2. ~ pk.hashing
    BY <1>2 DEF Shape, PieceIn
  <2> HIDE DEF q
  <2> QED
    BY <2>1, <2>2 DEF q
<1> QED
  BY <1>1, <1>2

(* lock_piece.                                                             *)
LEMMA LockPieceIs ==
    ASSUME NEW pk, Shape(pk)
    PROVE  LET q == LockPiece(pk)
           IN  /\ Shape(q) /\ (Exact(pk) => Exact(q))
               /\ q.block = pk.block /\ q.num_peers = pk.num_peers
               /\ q.writing = pk.writing /\ q.finished = pk.finished
               /\ q.state = pk.state /\ q.hashing = pk.hashing
               /\ Downloading(pk) => q.locked /\ ~ q.passed
<1> DEFINE q == LockPiece(pk)
<1>1. CASE Downloading(pk)
  <2>1. q = [pk EXCEPT !.passed = FALSE, !.locked = TRUE]
    BY <1>1 DEF LockPiece
  <2> HIDE DEF q
  <2>2. /\ Shape(q) /\ Downloading(q) /\ (Exact(pk) => Exact(q))
        /\ q.block = pk.block /\ q.num_peers = pk.num_peers
        /\ q.writing = pk.writing /\ q.finished = pk.finished
    BY <1>1, <2>1, FlagsOnly
  <2>3. q.hashing = pk.hashing /\ q.locked /\ ~ q.passed
    BY <2>1 DEF Shape, Piece
  <2> QED
    BY <1>1, <2>2, <2>3 DEF q, Downloading
<1>2. CASE ~ Downloading(pk)
  BY <1>2 DEF LockPiece
<1> QED
  BY <1>1, <1>2

(* restore_piece, with the requests counted again that are outstanding.    *)
LEMMA RestorePieceIs ==
    ASSUME NEW pk, Shape(pk)
    PROVE  LET q == RestorePiece(pk)
           IN  /\ Shape(q) /\ Exact(q) /\ q.state # "downloading"
               /\ \A b \in Blocks : q.block[b] = "none" /\ q.num_peers[b] = 0
               /\ ~ q.hashing /\ ~ q.locked /\ ~ q.passed
               /\ q.state = "have" <=> pk.state = "have"
<1> DEFINE q == RestorePiece(pk)
<1>1. pk.state \in {"open", "downloading", "have"}
  BY PieceFields DEF Shape
<1>2. q = PieceIn(IF Downloading(pk) THEN "open" ELSE pk.state)
  BY DEF RestorePiece, Open, Shape
<1>3. (IF Downloading(pk) THEN "open" ELSE pk.state) \in {"open", "have"}
  BY <1>1 DEF Downloading
<1>4. q = PieceIn("open") \/ q = PieceIn("have")
  BY <1>2, <1>3
<1>5. Shape(q) /\ Exact(q) /\ \A b \in Blocks : q.block[b] = "none" /\ q.num_peers[b] = 0
  BY <1>4, PieceInShape
<1>6. q.state = IF Downloading(pk) THEN "open" ELSE pk.state
  BY <1>2 DEF PieceIn
<1>7. ~ q.hashing /\ ~ q.locked /\ ~ q.passed
  BY <1>4 DEF PieceIn
<1> HIDE DEF q
<1> QED
  BY <1>1, <1>5, <1>6, <1>7 DEF q, Downloading

(* piece_passed: a complete piece that is not locked has passed, and is    *)
(* ours if all of it is written.                                           *)
LEMMA PiecePassedIs ==
    ASSUME NEW pk, Shape(pk)
    PROVE  LET q == PiecePassed(pk)
           IN  /\ Shape(q) /\ (Exact(pk) => Exact(q))
               /\ \/ ~ Downloading(pk) /\ q = pk
                  \/ pk.locked /\ q = pk
                  \/ /\ Downloading(pk) /\ ~ pk.locked /\ Downloading(q) /\ q.passed
                     /\ q.block = pk.block /\ q.num_peers = pk.num_peers
                     /\ q.writing = pk.writing /\ q.finished = pk.finished
                     /\ q.locked = pk.locked /\ q.hashing = pk.hashing
                  \/ /\ Downloading(pk) /\ ~ pk.locked /\ q = PieceIn("have")
                     /\ \A b \in Blocks : pk.block[b] = "finished"
<1> DEFINE q == PiecePassed(pk)
<1>1. CASE ~ Downloading(pk) \/ pk.locked
  BY <1>1 DEF PiecePassed
<1>2. CASE Downloading(pk) /\ ~ pk.locked /\ pk.finished < NumBlocks
  <2>1. q = [pk EXCEPT !.passed = TRUE]
    BY <1>2 DEF PiecePassed
  <2> HIDE DEF q
  <2>2. /\ Shape(q) /\ Downloading(q) /\ (Exact(pk) => Exact(q))
        /\ q.block = pk.block /\ q.num_peers = pk.num_peers
        /\ q.writing = pk.writing /\ q.finished = pk.finished
    BY <1>2, <2>1, FlagsOnly
  <2>3. q.hashing = pk.hashing /\ q.locked = pk.locked /\ q.passed
    BY <2>1 DEF Shape, Piece
  <2> QED
    BY <1>2, <2>2, <2>3 DEF q
<1>3. CASE Downloading(pk) /\ ~ pk.locked /\ ~ (pk.finished < NumBlocks)
  <2>1. q = PieceIn("have")
    BY <1>3 DEF PiecePassed
  <2>2. Shape(PieceIn("have")) /\ Exact(PieceIn("have"))
    BY PieceInShape
  <2>3. pk.finished >= NumBlocks
    BY <1>3, PieceFields, NumBlocksPositive DEF Shape
  <2>4. \A b \in Blocks : pk.block[b] = "finished"
    BY <1>3, <2>3, CompleteBlocks
  <2> HIDE DEF q
  <2> QED
    BY <1>3, <2>1, <2>2, <2>4 DEF q
<1> QED
  BY <1>1, <1>2, <1>3

-----------------------------------------------------------------------------
(***************************************************************************)
(* The jobs of the disk thread.                                            *)
(***************************************************************************)

(* Where job k of the list is that is left when job i is removed.          *)
Skip(i, k) == IF k < i THEN k ELSE k + 1

Removed(js, i, rs) ==
    /\ rs \in Seq(JobObject) /\ Len(rs) = Len(js) - 1
    /\ \A k \in DOMAIN rs : Skip(i, k) \in DOMAIN js \ {i} /\ rs[k] = js[Skip(i, k)]
    /\ \A k \in DOMAIN js \ {i} : \E m \in DOMAIN rs : Skip(i, m) = k
    /\ \A k, m \in DOMAIN rs : Skip(i, k) = Skip(i, m) => k = m

(* Removing one job keeps the others, in order.                            *)
LEMMA RemoveAtIs ==
    ASSUME NEW js, js \in Seq(JobObject), NEW i, i \in DOMAIN js
    PROVE  Removed(js, i, RemoveAt(js, i))
<1> DEFINE S == JobObject
           a == SubSeq(js, 1, i - 1)
           c == SubSeq(js, i + 1, Len(js))
           rs == RemoveAt(js, i)
<1>1. /\ Len(js) \in Nat /\ DOMAIN js = 1..Len(js) /\ i \in 1..Len(js)
      /\ \A k \in 1..Len(js) : js[k] \in S
  BY LenProperties, ElementOfSeq
<1>2. a \in Seq(S) /\ Len(a) = i - 1 /\ \A k \in 1..(i - 1) : a[k] = js[k]
  <2>1. \A k \in 1..(i - 1) : js[k] \in S
    BY <1>1
  <2>2. 1 \in Int /\ i - 1 \in Int
    BY <1>1
  <2>3. /\ a \in Seq(S)
        /\ Len(a) = IF 1 <= i - 1 THEN (i - 1) - 1 + 1 ELSE 0
        /\ \A k \in 1..((i - 1) - 1 + 1) : a[k] = js[1 + k - 1]
    BY <2>1, <2>2, SubSeqProperties
  <2> HIDE DEF a
  <2> QED
    BY <1>1, <2>3
<1>3. c \in Seq(S) /\ Len(c) = Len(js) - i /\ \A k \in 1..(Len(js) - i) : c[k] = js[k + i]
  <2>1. \A k \in (i + 1)..Len(js) : js[k] \in S
    BY <1>1
  <2>2. i + 1 \in Int /\ Len(js) \in Int
    BY <1>1
  <2>3. /\ c \in Seq(S)
        /\ Len(c) = IF i + 1 <= Len(js) THEN Len(js) - (i + 1) + 1 ELSE 0
        /\ \A k \in 1..(Len(js) - (i + 1) + 1) : c[k] = js[(i + 1) + k - 1]
    BY <2>1, <2>2, SubSeqProperties
  <2> HIDE DEF c
  <2>4. Len(c) = Len(js) - i /\ Len(js) - (i + 1) + 1 = Len(js) - i
    BY <1>1, <2>3
  <2>5. ASSUME NEW k \in 1..(Len(js) - i) PROVE c[k] = js[k + i]
    <3>1. c[k] = js[(i + 1) + k - 1]
      BY <2>3, <2>4
    <3>2. (i + 1) + k - 1 = k + i
      BY <1>1
    <3> QED
      BY <3>1, <3>2
  <2> QED
    BY <2>3, <2>4, <2>5
<1>4. rs = a \o c
  BY DEF RemoveAt
<1> HIDE DEF a, c, rs
<1>5. /\ rs \in Seq(S) /\ Len(rs) = Len(js) - 1
      /\ \A k \in 1..(Len(js) - 1) : rs[k] = IF k <= i - 1 THEN a[k] ELSE c[k - (i - 1)]
  <2>1. /\ rs \in Seq(S) /\ Len(rs) = Len(a) + Len(c)
        /\ \A k \in 1..Len(a) + Len(c) : rs[k] = IF k <= Len(a) THEN a[k] ELSE c[k - Len(a)]
    BY <1>2, <1>3, <1>4, ConcatProperties
  <2>2. Len(a) = i - 1 /\ Len(a) + Len(c) = Len(js) - 1
    BY <1>1, <1>2, <1>3
  <2> QED
    BY <2>1, <2>2
<1>6. DOMAIN rs = 1..(Len(js) - 1)
  BY <1>5, LenProperties
<1>7. ASSUME NEW k \in DOMAIN rs
      PROVE  Skip(i, k) \in DOMAIN js \ {i} /\ rs[k] = js[Skip(i, k)]
  <2>1. k \in 1..(Len(js) - 1)
    BY <1>6
  <2>2. CASE k < i
    BY <1>1, <1>2, <1>5, <2>1, <2>2 DEF Skip
  <2>3. CASE k >= i
    <3>1. k - (i - 1) \in 1..(Len(js) - i) /\ (k - (i - 1)) + i = k + 1
      BY <1>1, <2>1, <2>3
    <3>2. rs[k] = c[k - (i - 1)] /\ c[k - (i - 1)] = js[k + 1]
      BY <1>1, <1>3, <1>5, <2>1, <2>3, <3>1, SMTT(30)
    <3> QED
      BY <1>1, <2>1, <2>3, <3>2 DEF Skip
  <2> QED
    BY <1>1, <2>1, <2>2, <2>3
<1>8. ASSUME NEW k \in DOMAIN js \ {i}
      PROVE  \E m \in DOMAIN rs : Skip(i, m) = k
  <2>1. CASE k < i
    BY <1>1, <1>6, <2>1 DEF Skip
  <2>2. CASE k > i
    <3>1. k - 1 \in DOMAIN rs /\ Skip(i, k - 1) = k
      BY <1>1, <1>6, <2>2 DEF Skip
    <3> QED
      BY <3>1
  <2> QED
    BY <1>1, <2>1, <2>2
<1>9. ASSUME NEW k \in DOMAIN rs, NEW m \in DOMAIN rs, Skip(i, k) = Skip(i, m)
      PROVE  k = m
  BY <1>1, <1>6, <1>9 DEF Skip
<1> QED
  BY <1>5, <1>7, <1>8, <1>9 DEF Removed, rs

Appended(js, j, rs) ==
    /\ rs \in Seq(JobObject) /\ Len(rs) = Len(js) + 1 /\ Len(rs) \in DOMAIN rs
    /\ rs[Len(rs)] = j
    /\ DOMAIN js = DOMAIN rs \ {Len(rs)}
    /\ \A k \in DOMAIN js : rs[k] = js[k]

(* Adding a job keeps the others, and it is the last.                      *)
LEMMA AppendIs ==
    ASSUME NEW js, js \in Seq(JobObject), NEW j, j \in JobObject, NEW rs, rs = Append(js, j)
    PROVE  Appended(js, j, rs)
<1>1. /\ rs \in Seq(JobObject) /\ Len(rs) = Len(js) + 1
      /\ \A k \in 1..Len(js) : rs[k] = js[k]
      /\ rs[Len(js) + 1] = j
  BY AppendProperties
<1>2. Len(js) \in Nat /\ DOMAIN js = 1..Len(js) /\ DOMAIN rs = 1..Len(rs)
  BY <1>1, LenProperties
<1> QED
  BY <1>1, <1>2 DEF Appended

Replaced(js, i, j, rs) ==
    /\ rs \in Seq(JobObject) /\ Len(rs) = Len(js) /\ DOMAIN rs = DOMAIN js
    /\ rs[i] = j
    /\ \A k \in DOMAIN js \ {i} : rs[k] = js[k]

(* Replacing a job keeps the others.                                       *)
LEMMA ReplaceIs ==
    ASSUME NEW js, js \in Seq(JobObject), NEW i, i \in DOMAIN js, NEW j, j \in JobObject,
           NEW rs, rs = [js EXCEPT ![i] = j]
    PROVE  Replaced(js, i, j, rs)
<1>1. Len(js) \in Nat /\ DOMAIN js = 1..Len(js) /\ i \in 1..Len(js)
  BY LenProperties
<1>2. /\ rs \in Seq(JobObject) /\ Len(rs) = Len(js)
      /\ \A k \in 1..Len(js) : rs[k] = IF k = i THEN j ELSE js[k]
  BY <1>1, ExceptSeq
<1> QED
  BY <1>1, <1>2, LenProperties DEF Replaced

-----------------------------------------------------------------------------
(***************************************************************************)
(* Requests.                                                               *)
(***************************************************************************)
Queues == [Peers -> [Blocks -> Live \union {"none", "dead"}]]

Asked(r, b) == {p \in Peers : r[p][b] \in Live}

(* The picker counts no request that is not in the queue of a peer.        *)
Bounded(pk, r) == \A b \in Blocks : pk.num_peers[b] <= Requests(r, Live)[b]

(* What was not asked for before is not asked for now.                     *)
NothingNew(r, s) == \A p \in Peers, b \in Blocks : r[p][b] = "none" => s[p][b] = "none"

(* Every set of peers is finite.                                           *)
LEMMA PeersFinite ==
    ASSUME NEW S \in SUBSET Peers
    PROVE  IsFiniteSet(S) /\ Cardinality(S) \in Nat
  BY PeersAssumption, FS_Subset, FS_CardinalityType

(* The requests for a block are counted by a natural number.               *)
LEMMA RequestsIs ==
    ASSUME NEW r
    PROVE  /\ Requests(r, Live) \in [Blocks -> Nat]
           /\ \A b \in Blocks : Requests(r, Live)[b] = Cardinality(Asked(r, b))
           /\ \A b : IsFiniteSet(Asked(r, b)) /\ Cardinality(Asked(r, b)) \in Nat
<1>1. \A b : Asked(r, b) \in SUBSET Peers
  BY DEF Asked
<1>2. \A b : IsFiniteSet(Asked(r, b)) /\ Cardinality(Asked(r, b)) \in Nat
  BY <1>1, PeersFinite
<1>3. Requests(r, Live) = [b \in Blocks |-> Cardinality(Asked(r, b))]
  BY DEF Requests, Asked
<1> QED
  BY <1>2, <1>3

(* A block is requested once more.                                         *)
LEMMA RequestedIs ==
    ASSUME NEW b \in Blocks
    PROVE  /\ Requested(b) \in [Blocks -> Nat]
           /\ Requested(b)[b] = 1 /\ \A c \in Blocks \ {b} : Requested(b)[c] = 0
  BY DEF Requested

Put(r, p, b, v) == [r EXCEPT ![p][b] = v]

(* One request of one peer changes its place.                              *)
LEMMA OneRequest ==
    ASSUME NEW r, r \in Queues, NEW p, p \in Peers, NEW b, b \in Blocks,
           NEW v, v \in Live \union {"none", "dead"}, NEW s, s = Put(r, p, b, v)
    PROVE  /\ s \in Queues
           /\ \A c \in Blocks \ {b} : Requests(s, Live)[c] = Requests(r, Live)[c]
           /\ v \in Live /\ r[p][b] \in Live => Requests(s, Live)[b] = Requests(r, Live)[b]
           /\ v \in Live /\ r[p][b] \notin Live => Requests(s, Live)[b] = Requests(r, Live)[b] + 1
           /\ v \notin Live /\ r[p][b] \in Live => Requests(s, Live)[b] = Requests(r, Live)[b] - 1
           /\ v \notin Live /\ r[p][b] \notin Live => Requests(s, Live)[b] = Requests(r, Live)[b]
           /\ r[p][b] # "none" \/ v = "none" => NothingNew(r, s)
<1>1. /\ s \in Queues
      /\ \A q \in Peers, c \in Blocks : s[q][c] = IF q = p /\ c = b THEN v ELSE r[q][c]
  BY DEF Queues, Put
<1>2. \A c \in Blocks \ {b} : Asked(s, c) = Asked(r, c)
  BY <1>1 DEF Asked
<1>3. \A c \in Blocks \ {b} : Requests(s, Live)[c] = Requests(r, Live)[c]
  BY <1>2, RequestsIs
<1>4. v \in Live /\ r[p][b] \in Live => Requests(s, Live)[b] = Requests(r, Live)[b]
  <2>1. v \in Live /\ r[p][b] \in Live => Asked(s, b) = Asked(r, b)
    BY <1>1 DEF Asked
  <2> QED
    BY <2>1, RequestsIs
<1>5. v \notin Live /\ r[p][b] \notin Live => Requests(s, Live)[b] = Requests(r, Live)[b]
  <2>1. v \notin Live /\ r[p][b] \notin Live => Asked(s, b) = Asked(r, b)
    BY <1>1 DEF Asked
  <2> QED
    BY <2>1, RequestsIs
<1>6. v \in Live /\ r[p][b] \notin Live => Requests(s, Live)[b] = Requests(r, Live)[b] + 1
  <2>1. v \in Live /\ r[p][b] \notin Live => Asked(s, b) = Asked(r, b) \union {p} /\ p \notin Asked(r, b)
    BY <1>1 DEF Asked
  <2> QED
    BY <2>1, RequestsIs, FS_AddElement
<1>7. v \notin Live /\ r[p][b] \in Live => Requests(s, Live)[b] = Requests(r, Live)[b] - 1
  <2>1. v \notin Live /\ r[p][b] \in Live => Asked(s, b) = Asked(r, b) \ {p} /\ p \in Asked(r, b)
    BY <1>1 DEF Asked
  <2> QED
    BY <2>1, RequestsIs, FS_RemoveElement
<1>8. r[p][b] # "none" \/ v = "none" => NothingNew(r, s)
  BY <1>1 DEF NothingNew
<1> QED
  BY <1>1, <1>3, <1>4, <1>5, <1>6, <1>7, <1>8

(* The requests of some peers go away, and the picker is told of those     *)
(* that it counts: it still counts no others.                              *)
LEMMA AbortedIs ==
    ASSUME NEW pk, Shape(pk), NEW r, r \in Queues, NEW ps, ps \in SUBSET Peers,
           NEW places, NEW gplaces, gplaces \intersect Live = places \intersect Live
    PROVE  LET q == Aborted(pk, r, ps, places)
               s == Gone(r, ps, gplaces)
           IN  /\ RequestsOnly(pk, q) /\ (pk.state = "open" => q.state = "open")
               /\ s \in Queues /\ NothingNew(r, s)
               /\ Exact(pk) /\ Bounded(pk, r) => Bounded(q, s)
<1> DEFINE q == Aborted(pk, r, ps, places)
           s == Gone(r, ps, gplaces)
           Lost(b) == {p \in ps : r[p][b] \in places \intersect Live}
           n == [b \in Blocks |-> Cardinality(Lost(b))]
<1>1. /\ s \in Queues
      /\ \A p \in Peers, b \in Blocks :
            s[p][b] = IF p \in ps /\ r[p][b] \in gplaces THEN "none" ELSE r[p][b]
  BY DEF Gone, Queues
<1>2. NothingNew(r, s)
  BY <1>1 DEF NothingNew
<1>3. q = AbortDownload(pk, n)
  BY DEF Aborted
<1>4. \A b \in Blocks : Lost(b) \in SUBSET Peers
  OBVIOUS
<1>5. \A b \in Blocks : IsFiniteSet(Lost(b)) /\ Cardinality(Lost(b)) \in Nat
  <2> HIDE DEF Lost
  <2> QED
    BY <1>4, PeersFinite
<1>6. n \in [Blocks -> Nat] /\ \A b \in Blocks : n[b] = Cardinality(Lost(b))
  BY <1>5
<1>7. \A b \in Blocks : Asked(s, b) = Asked(r, b) \ Lost(b) /\ Asked(r, b) \intersect Lost(b) = Lost(b)
  BY <1>1 DEF Asked, Live
<1> HIDE DEF s, n, Lost, q
<1>8. ASSUME NEW b \in Blocks
      PROVE  Requests(s, Live)[b] = Requests(r, Live)[b] - n[b]
  <2>1. IsFiniteSet(Asked(r, b)) /\ IsFiniteSet(Lost(b))
    BY <1>5, RequestsIs
  <2>2. Cardinality(Asked(r, b) \ Lost(b)) =
            Cardinality(Asked(r, b)) - Cardinality(Asked(r, b) \intersect Lost(b))
    BY <2>1, FS_Difference
  <2>3. Cardinality(Asked(s, b)) = Cardinality(Asked(r, b)) - n[b]
    BY <1>6, <1>7, <2>2
  <2> QED
    BY <2>3, RequestsIs
<1>9. RequestsOnly(pk, q) /\ (pk.state = "open" => q.state = "open")
  BY <1>3, <1>6, AbortDownloadRequestsOnly
<1>10. ASSUME Exact(pk), Bounded(pk, r), NEW b \in Blocks
       PROVE  q.num_peers[b] <= Requests(s, Live)[b]
  <2>1. q.num_peers[b] <= IF n[b] >= pk.num_peers[b] THEN 0 ELSE pk.num_peers[b] - n[b]
    BY <1>3, <1>6, <1>10, AbortDownloadIs
  <2>2. pk.num_peers[b] <= Requests(r, Live)[b]
    BY <1>10 DEF Bounded
  <2>3. /\ Requests(s, Live)[b] \in Nat /\ Requests(r, Live)[b] \in Nat
        /\ n[b] \in Nat /\ pk.num_peers[b] \in Nat /\ q.num_peers[b] \in Nat
    BY <1>6, <1>9, RequestsIs, PieceFields DEF Shape, RequestsOnly
  <2> QED
    BY <1>8, <2>1, <2>2, <2>3
<1> QED
  BY <1>1, <1>2, <1>9, <1>10 DEF s, q, Bounded

-----------------------------------------------------------------------------
(***************************************************************************)
(* The invariant, in terms of the lemmas on the picker.                    *)
(***************************************************************************)
Types ==
    /\ req \in Queues
    /\ jobs \in Seq(JobObject)
    /\ disk \in [Blocks -> Data \union {"none"}]
    /\ upload_mode \in BOOLEAN /\ announced \in BOOLEAN
    /\ failed \in 0..MaxFailedWrites

WrittenBlocks ==
    /\ \A b \in Blocks : picker.block[b] = "writing" => Writes(b) # {}
    /\ \A b \in Blocks : picker.block[b] = "finished" => disk[b] # "none"

FInv == Shape(picker) /\ Types /\ JobShape /\ WrittenBlocks /\ Deciding

NInv ==
    /\ Exact(picker) /\ Bounded(picker, req)
    /\ WritesExact /\ HashesExact /\ PassedIsGood /\ HaveIsGood

(* What holds whatever is forgotten.                                       *)
LEMMA FailureInvIs ==
    /\ FailureInv <=> FInv /\ forgotten \in BOOLEAN
    /\ FailureInv' <=> FInv' /\ forgotten' \in BOOLEAN
<1>1. \A s : BlocksIn(s) = BlocksOf(picker, s)
  BY DEF BlocksIn, BlocksOf
<1>2. \A s : BlocksIn(s)' = BlocksOf(picker', s)
  BY DEF BlocksIn, BlocksOf
<1>3. WritingIsWritten <=> /\ picker.writing = Cardinality(BlocksOf(picker, "writing"))
                           /\ picker.finished = Cardinality(BlocksOf(picker, "finished"))
                           /\ WrittenBlocks
  BY <1>1 DEF WritingIsWritten, WrittenBlocks, BlocksOf
<1>4. WritingIsWritten' <=> /\ picker'.writing = Cardinality(BlocksOf(picker', "writing"))
                            /\ picker'.finished = Cardinality(BlocksOf(picker', "finished"))
                            /\ WrittenBlocks'
  BY <1>2 DEF WritingIsWritten, WrittenBlocks, BlocksOf
<1>5. TypeOK <=> picker \in Piece /\ Types /\ forgotten \in BOOLEAN
  BY DEF TypeOK, Types, Queues
<1>6. TypeOK' <=> picker' \in Piece /\ Types' /\ forgotten' \in BOOLEAN
  BY DEF TypeOK, Types, Queues
<1>7. FailureInv <=> FInv /\ forgotten \in BOOLEAN
  BY <1>1, <1>3, <1>5 DEF FailureInv, FInv, Shape, PickerShape, Downloading
<1>8. FailureInv' <=> FInv' /\ forgotten' \in BOOLEAN
  BY <1>2, <1>4, <1>6 DEF FailureInv, FInv, Shape, PickerShape, Downloading
<1> QED
  BY <1>7, <1>8

(* What holds until a job outlives its entry.                              *)
LEMMA EntryInvIs == (EntryInv <=> NInv) /\ (EntryInv' <=> NInv')
<1>1. BlocksIn("requested") = BlocksOf(picker, "requested")
  BY DEF BlocksIn, BlocksOf
<1>2. BlocksIn("requested")' = BlocksOf(picker', "requested")
  BY DEF BlocksIn, BlocksOf
<1>3. RequestsExact <=> Exact(picker) /\ Bounded(picker, req)
  BY <1>1 DEF RequestsExact, Exact, Bounded
<1>4. RequestsExact' <=> Exact(picker') /\ Bounded(picker', req')
  BY <1>2 DEF RequestsExact, Exact, Bounded, Requests
<1> QED
  BY <1>3, <1>4 DEF EntryInv, NInv

(* A complete piece stays complete when only requests change.              *)
LEMMA StaysComplete ==
    ASSUME NEW pk, NEW q, RequestsOnly(pk, q)
    PROVE  /\ IsPieceFinished(pk) => IsPieceFinished(q)
           /\ IsPieceFinished(pk) /\ Downloading(pk) => Downloading(q)
           /\ IsPieceFinished(pk) => q.hashing = pk.hashing /\ q.locked = pk.locked /\ q.passed = pk.passed
  BY DEF RequestsOnly, SameFlags, IsPieceFinished, Downloading

(* What a hash job would find does not change with the requests.           *)
LEMMA FoundSame ==
    ASSUME UNCHANGED <<jobs, disk>>
    PROVE  /\ \A b : Found(b)' = Found(b)
           /\ \A kinds : Outstanding(kinds)' = Outstanding(kinds)
           /\ \A b : Writes(b)' = Writes(b)
<1>1. \A b : Found(b)' = Found(b)
  BY DEF Found
<1>2. \A kinds : Outstanding(kinds)' = Outstanding(kinds)
  BY DEF Outstanding
<1>3. \A b : Writes(b)' = Writes(b)
  BY <1>2 DEF Writes
<1> QED
  BY <1>1, <1>2, <1>3

(* A piece is started over, or dropped, with neither a write nor a hash of *)
(* it outstanding: then little is left to hold.                            *)
LEMMA DroppedIdle ==
    ASSUME EntryDropped, ~ Forgets
    PROVE  Outstanding({"write"})' = {} /\ Outstanding({"hash"})' = {}
  BY DEF Forgets, Outstanding

LEMMA IdleHolds ==
    ASSUME Outstanding({"write"})' = {}, Outstanding({"hash"})' = {}, ~ picker'.passed
    PROVE  WritesExact' /\ HashesExact' /\ PassedIsGood'
  BY DEF WritesExact, HashesExact, PassedIsGood

(* A handler that changes requests only, and tells the picker of those     *)
(* that it counts, keeps the invariant.                                    *)
LEMMA RequestStep ==
    ASSUME FInv, RequestsOnly(picker, picker'), req' \in Queues,
           UNCHANGED <<jobs, disk, upload_mode, announced, failed>>
    PROVE  FInv' /\ (NInv /\ ~ Forgets /\ Bounded(picker', req') => NInv')
<1>1. Shape(picker)' /\ Types' /\ JobShape'
  BY DEF FInv, RequestsOnly, Types, JobShape
<1>2. /\ \A b : Found(b)' = Found(b)
      /\ \A kinds : Outstanding(kinds)' = Outstanding(kinds)
      /\ \A b : Writes(b)' = Writes(b)
  BY FoundSame
<1>3. WrittenBlocks'
  BY <1>2 DEF FInv, WrittenBlocks, RequestsOnly
<1>4. /\ IsPieceFinished(picker) => IsPieceFinished(picker')
      /\ IsPieceFinished(picker) /\ Downloading(picker) => Downloading(picker')
      /\ IsPieceFinished(picker) =>
            picker'.hashing = picker.hashing /\ picker'.locked = picker.locked /\ picker'.passed = picker.passed
  BY StaysComplete
<1>5. Deciding'
  BY <1>2, <1>4 DEF FInv, Deciding
<1>6. ASSUME NInv, ~ Forgets, Bounded(picker', req') PROVE NInv'
  <2>1. Exact(picker)' /\ Bounded(picker, req)'
    BY <1>6 DEF NInv, RequestsOnly, Bounded, Requests
  <2>2. WritesExact'
    BY <1>2, <1>6 DEF NInv, WritesExact, RequestsOnly, FInv, JobShape, Outstanding
  <2>3. Holds' <=> Holds
    BY <1>2 DEF Holds
  <2>4. HashesExact'
    <3> SUFFICES ASSUME Outstanding({"hash"})' # {} PROVE HashesExact'
      BY DEF HashesExact
    <3>1. Downloading(picker)
      BY <1>2, <1>6 DEF NInv, HashesExact
    <3>2. picker'.state # "open"
      BY <1>6, <3>1, DroppedIdle DEF EntryDropped
    <3>3. SameFlags(picker, picker')
      BY <3>1, <3>2 DEF RequestsOnly
    <3> QED
      BY <1>2, <1>4, <1>6, <2>3, <3>1, <3>3 DEF NInv, HashesExact, SameFlags, Downloading
  <2>5. PassedIsGood'
    BY <1>2, <1>4, <1>6, <2>3 DEF NInv, PassedIsGood, RequestsOnly
  <2>6. HaveIsGood'
    BY <1>6 DEF NInv, HaveIsGood, RequestsOnly
  <2> QED
    BY <1>6, <2>1, <2>2, <2>4, <2>5, <2>6 DEF NInv
<1> QED
  BY <1>1, <1>3, <1>5, <1>6 DEF FInv

-----------------------------------------------------------------------------
(***************************************************************************)
(* Requests keep the invariant.                                            *)
(***************************************************************************)

(* Giving up one request that the picker counts, or one that it may not.   *)
LEMMA OneAborted ==
    ASSUME NEW pk, Shape(pk), NEW r, r \in Queues, NEW p, p \in Peers, NEW b, b \in Blocks,
           r[p][b] \in Live, NEW v, v \in {"none", "dead"}
    PROVE  LET q == AbortDownload(pk, Requested(b))
               s == Put(r, p, b, v)
           IN  /\ RequestsOnly(pk, q) /\ s \in Queues /\ (pk.state = "open" => q.state = "open")
               /\ Exact(pk) /\ Bounded(pk, r) => Bounded(q, s)
<1> DEFINE q == AbortDownload(pk, Requested(b))
           s == Put(r, p, b, v)
<1>1. /\ Requested(b) \in [Blocks -> Nat]
      /\ Requested(b)[b] = 1 /\ \A c \in Blocks \ {b} : Requested(b)[c] = 0
  BY RequestedIs
<1>2. v \notin Live /\ v \in Live \union {"none", "dead"}
  BY DEF Live
<1>3. s \in Queues /\ Requests(s, Live)[b] = Requests(r, Live)[b] - 1
      /\ \A c \in Blocks \ {b} : Requests(s, Live)[c] = Requests(r, Live)[c]
  BY <1>2, OneRequest
<1>4. RequestsOnly(pk, q) /\ (pk.state = "open" => q.state = "open")
  BY <1>1, AbortDownloadRequestsOnly
<1>5. Exact(pk) => \A c \in Blocks : q.num_peers[c] <=
          IF Requested(b)[c] >= pk.num_peers[c] THEN 0 ELSE pk.num_peers[c] - Requested(b)[c]
  BY <1>1, AbortDownloadIs
<1> HIDE DEF q, s
<1>6. ASSUME Exact(pk), Bounded(pk, r), NEW c \in Blocks
      PROVE  q.num_peers[c] <= Requests(s, Live)[c]
  <2>1. /\ pk.num_peers[c] \in Nat /\ q.num_peers[c] \in Nat /\ Requests(s, Live)[c] \in Nat
        /\ Requests(r, Live)[c] \in Nat
    BY <1>4, RequestsIs, PieceFields DEF Shape, RequestsOnly
  <2>2. pk.num_peers[c] <= Requests(r, Live)[c]
    BY <1>6 DEF Bounded
  <2>3. q.num_peers[c] <=
            IF Requested(b)[c] >= pk.num_peers[c] THEN 0 ELSE pk.num_peers[c] - Requested(b)[c]
    BY <1>5, <1>6
  <2>4. CASE c = b
    BY <1>1, <1>3, <2>1, <2>2, <2>3, <2>4
  <2>5. CASE c # b
    BY <1>1, <1>3, <2>1, <2>2, <2>3, <2>5
  <2> QED
    BY <2>4, <2>5
<1> QED
  BY <1>3, <1>4, <1>6 DEF q, s, Bounded

(* Picking a block for a peer keeps the invariant.                         *)
LEMMA RequestBlockKeeps ==
    ASSUME FInv, NEW p \in Peers, NEW b \in Blocks, RequestBlock(p, b)
    PROVE  FInv' /\ (NInv /\ ~ Forgets => NInv')
<1>1. Shape(picker) /\ req \in Queues
  BY DEF FInv, Types
<1>2. req[p][b] = "none" /\ picker' = MarkAsDownloading(picker, Requested(b))
  BY DEF RequestBlock
<1>3. req' = Put(req, p, b, "queued")
  BY DEF RequestBlock, Put
<1>4. UNCHANGED <<jobs, disk, upload_mode, announced, failed>>
  BY DEF RequestBlock
<1>5. /\ Requested(b) \in [Blocks -> Nat]
      /\ Requested(b)[b] = 1 /\ \A c \in Blocks \ {b} : Requested(b)[c] = 0
  BY RequestedIs
<1>6. RequestsOnly(picker, picker')
  BY <1>1, <1>2, <1>5, MarkAsDownloadingRequestsOnly
<1>7. \A c \in Blocks : picker'.num_peers[c] <= picker.num_peers[c] + Requested(b)[c]
  BY <1>1, <1>2, <1>5, MarkAsDownloadingIs
<1>8. /\ req' \in Queues /\ Requests(req', Live)[b] = Requests(req, Live)[b] + 1
      /\ \A c \in Blocks \ {b} : Requests(req', Live)[c] = Requests(req, Live)[c]
  <2>1. "queued" \in Live /\ "none" \notin Live /\ "queued" \in Live \union {"none", "dead"}
    BY DEF Live
  <2> QED
    BY <1>1, <1>2, <1>3, <2>1, OneRequest
<1>9. ASSUME NInv PROVE Bounded(picker', req')
  <2>1. ASSUME NEW c \in Blocks PROVE picker'.num_peers[c] <= Requests(req', Live)[c]
    <3>1. /\ picker.num_peers[c] \in Nat /\ picker'.num_peers[c] \in Nat
          /\ Requests(req, Live)[c] \in Nat /\ Requests(req', Live)[c] \in Nat
      BY <1>1, <1>6, RequestsIs, PieceFields DEF Shape, RequestsOnly
    <3>2. picker.num_peers[c] <= Requests(req, Live)[c]
      BY <1>9 DEF NInv, Bounded
    <3>3. CASE c = b
      BY <1>5, <1>7, <1>8, <3>1, <3>2, <3>3
    <3>4. CASE c # b
      BY <1>5, <1>7, <1>8, <3>1, <3>2, <3>4
    <3> QED
      BY <3>3, <3>4
  <2> QED
    BY <2>1 DEF Bounded
<1> QED
  BY <1>4, <1>6, <1>8, <1>9, RequestStep

(* Sending a request keeps the invariant.                                  *)
LEMMA SendRequestKeeps ==
    ASSUME FInv, NEW p \in Peers, NEW b \in Blocks, SendRequest(p, b)
    PROVE  FInv' /\ (NInv /\ ~ Forgets => NInv')
<1>1. Shape(picker) /\ req \in Queues /\ req[p][b] = "queued" /\ "queued" \in Live
  BY DEF FInv, Types, SendRequest, Live
<1>2. UNCHANGED <<jobs, disk, upload_mode, announced, failed>>
  BY DEF SendRequest
<1>3. CASE IsDownloaded(picker, b)
  <2>1. picker' = AbortDownload(picker, Requested(b)) /\ req' = Put(req, p, b, "none")
    BY <1>3 DEF SendRequest, Put
  <2>2. /\ RequestsOnly(picker, picker') /\ req' \in Queues
        /\ Exact(picker) /\ Bounded(picker, req) => Bounded(picker', req')
    BY <1>1, <2>1, OneAborted
  <2> QED
    BY <1>2, <2>2, RequestStep DEF NInv
<1>4. CASE ~ IsDownloaded(picker, b)
  <2>1. picker' = picker /\ req' = Put(req, p, b, "sent")
    BY <1>4 DEF SendRequest, Put
  <2>2. "sent" \in Live /\ "sent" \in Live \union {"none", "dead"}
    BY DEF Live
  <2>3. req' \in Queues /\ \A c \in Blocks : Requests(req', Live)[c] = Requests(req, Live)[c]
    BY <1>1, <2>1, <2>2, OneRequest
  <2>4. RequestsOnly(picker, picker')
    BY <1>1, <2>1, RequestsOnlySame
  <2>5. Bounded(picker, req) => Bounded(picker', req')
    BY <2>1, <2>3 DEF Bounded
  <2> QED
    BY <1>2, <2>3, <2>4, <2>5, RequestStep DEF NInv
<1> QED
  BY <1>3, <1>4

(* A choke keeps the invariant.                                            *)
LEMMA IncomingChokeKeeps ==
    ASSUME FInv, NEW p \in Peers, IncomingChoke(p)
    PROVE  FInv' /\ (NInv /\ ~ Forgets => NInv')
<1>1. Shape(picker) /\ req \in Queues /\ {p} \in SUBSET Peers
  BY DEF FInv, Types
<1>2. /\ picker' = Aborted(picker, req, {p}, {"queued"}) /\ req' = Gone(req, {p}, {"queued"})
      /\ UNCHANGED <<jobs, disk, upload_mode, announced, failed>>
  BY DEF IncomingChoke
<1>3. /\ RequestsOnly(picker, picker') /\ req' \in Queues
      /\ Exact(picker) /\ Bounded(picker, req) => Bounded(picker', req')
  BY <1>1, <1>2, AbortedIs
<1> QED
  BY <1>2, <1>3, RequestStep DEF NInv

(* A disconnect keeps the invariant.                                       *)
LEMMA DisconnectKeeps ==
    ASSUME FInv, NEW p \in Peers, Disconnect(p)
    PROVE  FInv' /\ (NInv /\ ~ Forgets => NInv')
<1>1. Shape(picker) /\ req \in Queues /\ {p} \in SUBSET Peers
  BY DEF FInv, Types
<1>2. /\ picker' = Aborted(picker, req, {p}, Live) /\ req' = Gone(req, {p}, Live \union {"dead"})
      /\ UNCHANGED <<jobs, disk, upload_mode, announced, failed>>
  BY DEF Disconnect
<1>3. (Live \union {"dead"}) \intersect Live = Live \intersect Live
  OBVIOUS
<1>4. /\ RequestsOnly(picker, picker') /\ req' \in Queues
      /\ Exact(picker) /\ Bounded(picker, req) => Bounded(picker', req')
  BY <1>1, <1>2, <1>3, AbortedIs
<1> QED
  BY <1>2, <1>4, RequestStep DEF NInv

(* A reject message keeps the invariant.                                   *)
LEMMA IncomingRejectRequestKeeps ==
    ASSUME FInv, NEW p \in Peers, NEW b \in Blocks, IncomingRejectRequest(p, b)
    PROVE  FInv' /\ (NInv /\ ~ Forgets => NInv')
<1>1. Shape(picker) /\ req \in Queues /\ req[p][b] \in {"sent", "dead"}
  BY DEF FInv, Types, IncomingRejectRequest
<1>2. req' = Put(req, p, b, "none") /\ UNCHANGED <<jobs, disk, upload_mode, announced, failed>>
  BY DEF IncomingRejectRequest, Put
<1>3. CASE req[p][b] = "sent"
  <2>1. picker' = AbortDownload(picker, Requested(b)) /\ req[p][b] \in Live
    BY <1>3 DEF IncomingRejectRequest, Live
  <2>2. /\ RequestsOnly(picker, picker') /\ req' \in Queues
        /\ Exact(picker) /\ Bounded(picker, req) => Bounded(picker', req')
    BY <1>1, <1>2, <2>1, OneAborted
  <2> QED
    BY <1>2, <2>2, RequestStep DEF NInv
<1>4. CASE req[p][b] = "dead"
  <2>1. picker' = picker
    BY <1>4 DEF IncomingRejectRequest
  <2>2. "dead" \notin Live /\ "none" \notin Live /\ "none" \in Live \union {"none", "dead"}
    BY DEF Live
  <2>3. req' \in Queues /\ \A c \in Blocks : Requests(req', Live)[c] = Requests(req, Live)[c]
    BY <1>1, <1>2, <1>4, <2>2, OneRequest
  <2>4. RequestsOnly(picker, picker')
    BY <1>1, <2>1, RequestsOnlySame
  <2>5. Bounded(picker, req) => Bounded(picker', req')
    BY <2>1, <2>3 DEF Bounded
  <2> QED
    BY <1>2, <2>3, <2>4, <2>5, RequestStep DEF NInv
<1> QED
  BY <1>1, <1>3, <1>4

(* A request timeout keeps the invariant.                                  *)
LEMMA SnubPeerKeeps ==
    ASSUME FInv, NEW p \in Peers, NEW b \in Blocks, SnubPeer(p, b)
    PROVE  FInv' /\ (NInv /\ ~ Forgets => NInv')
<1> DEFINE unsent == Aborted(picker, req, {p}, {"queued"})
           gone == Gone(req, {p}, {"queued"})
           holdsUp == unsent.state = "have" \/ ~ HasFreeBlocks(unsent)
<1>1. Shape(picker) /\ req \in Queues /\ {p} \in SUBSET Peers
  BY DEF FInv, Types
<1>2. /\ RequestsOnly(picker, unsent) /\ gone \in Queues
      /\ Exact(picker) /\ Bounded(picker, req) => Bounded(unsent, gone)
  BY <1>1, AbortedIs
<1>3. /\ picker' = IF holdsUp THEN AbortDownload(unsent, Requested(b)) ELSE unsent
      /\ req' = Put(gone, p, b, IF holdsUp THEN "dead" ELSE "sent")
      /\ UNCHANGED <<jobs, disk, upload_mode, announced, failed>>
  BY DEF SnubPeer, Put
<1>4. gone[p][b] = "sent"
  BY <1>1 DEF SnubPeer, Gone
<1> HIDE DEF unsent, gone, holdsUp
<1>5. Shape(unsent) /\ (Exact(picker) => Exact(unsent)) /\ "sent" \in Live
  BY <1>2 DEF RequestsOnly, Live
<1>6. CASE holdsUp
  <2>1. picker' = AbortDownload(unsent, Requested(b)) /\ req' = Put(gone, p, b, "dead")
    BY <1>3, <1>6
  <2>2. /\ RequestsOnly(unsent, picker') /\ req' \in Queues
        /\ unsent.state = "open" => picker'.state = "open"
        /\ Exact(unsent) /\ Bounded(unsent, gone) => Bounded(picker', req')
    BY <1>2, <1>4, <1>5, <2>1, OneAborted
  <2>3. RequestsOnly(picker, picker')
    BY <1>2, <2>2, RequestsOnlyTwice
  <2> QED
    BY <1>2, <1>3, <1>5, <2>2, <2>3, RequestStep DEF NInv
<1>7. CASE ~ holdsUp
  <2>1. picker' = unsent /\ req' = gone
    BY <1>2, <1>3, <1>4, <1>7 DEF Queues, Put
  <2> QED
    BY <1>2, <1>3, <2>1, RequestStep DEF NInv
<1> QED
  BY <1>6, <1>7

-----------------------------------------------------------------------------
(***************************************************************************)
(* A block that arrives keeps the invariant.                               *)
(***************************************************************************)

(* A job as it is issued.                                                  *)
LEMMA JobIs ==
    ASSUME NEW kind, kind \in {"write", "hash", "sync", "fail_sync"},
           NEW b, b \in Blocks \union {"all"}, NEW d, d \in Data \union {"none"}
    PROVE  LET j == Job(kind, b, d)
           IN  j \in JobObject /\ j.kind = kind /\ j.block = b /\ j.data = d /\ j.st = "queued"
  BY DEF Job, JobObject

(* A complete piece has no block left to come.                             *)
LEMMA CompleteIsDownloaded ==
    ASSUME NEW pk, Shape(pk), IsPieceFinished(pk)
    PROVE  \A b \in Blocks : IsDownloaded(pk, b)
  BY CompleteBlocks DEF IsDownloaded, IsPieceFinished

(* Before a piece is complete, it is neither being hashed nor, outside     *)
(* upload mode, being cleared.                                             *)
LEMMA IncompleteIsUndecided ==
    ASSUME FInv, NEW b \in Blocks, ~ IsDownloaded(picker, b)
    PROVE  /\ ~ IsPieceFinished(picker) /\ picker.state # "have"
           /\ ~ upload_mode => Outstanding({"hash"}) = {} /\ Outstanding(Clears) = {}
           /\ NInv => ~ picker.passed /\ (picker.locked \/ Outstanding({"hash"}) = {})
<1>1. ~ IsPieceFinished(picker) /\ picker.state # "have"
  BY CompleteIsDownloaded DEF FInv, IsDownloaded
<1>2. ~ upload_mode => Outstanding({"hash"}) = {} /\ Outstanding(Clears) = {}
  BY <1>1 DEF FInv, Deciding
<1>3. NInv => ~ picker.passed /\ (picker.locked \/ Outstanding({"hash"}) = {})
  BY <1>1 DEF NInv, PassedIsGood, HashesExact
<1> QED
  BY <1>1, <1>2, <1>3

(* A block that came before is dropped; the picker does not count it.      *)
LEMMA DroppedPieceKeeps ==
    ASSUME FInv, NEW p \in Peers, NEW b \in Blocks, NEW d \in Data, IncomingPiece(p, b, d),
           IsDownloaded(picker, b)
    PROVE  FInv' /\ (NInv /\ ~ Forgets => NInv')
<1>1. Shape(picker) /\ req \in Queues
  BY DEF FInv, Types
<1>2. /\ req' = Put(req, p, b, "none") /\ picker' = picker
      /\ UNCHANGED <<jobs, disk, upload_mode, announced, failed>>
  BY DEF IncomingPiece, Put
<1>3. req' \in Queues /\ \A c \in Blocks \ {b} : Requests(req', Live)[c] = Requests(req, Live)[c]
  <2>1. "none" \in Live \union {"none", "dead"}
    OBVIOUS
  <2> QED
    BY <1>1, <1>2, <2>1, OneRequest
<1>4. RequestsOnly(picker, picker')
  BY <1>1, <1>2, RequestsOnlySame
<1>5. ASSUME NInv PROVE Bounded(picker', req')
  <2>1. ~ (picker.num_peers[b] > 0)
    <3>1. picker.block[b] # "requested"
      <4>1. CASE picker.state = "have"
        <5>1. picker = PieceIn("have")
          BY <1>1, <4>1 DEF Shape, Downloading
        <5> QED
          BY <5>1, PieceInShape
      <4> QED
        BY <4>1 DEF IsDownloaded
    <3> QED
      BY <1>5, <3>1 DEF NInv, Exact
  <2>2. picker.num_peers[b] \in Nat /\ Requests(req', Live)[b] \in Nat
    BY <1>1, RequestsIs, PieceFields DEF Shape
  <2>3. picker.num_peers[b] <= Requests(req', Live)[b]
    BY <2>1, <2>2
  <2> QED
    BY <1>2, <1>3, <1>5, <2>3 DEF NInv, Bounded
<1> QED
  BY <1>2, <1>3, <1>4, <1>5, RequestStep

(* What incoming_piece does with a block that is new: with the last one a  *)
(* hash job follows the write.                                             *)
LEMMA NewPieceIs ==
    ASSUME FInv, NEW p \in Peers, NEW b \in Blocks, NEW d \in Data, IncomingPiece(p, b, d),
           ~ IsDownloaded(picker, b)
    PROVE  LET q == MarkAsWriting(picker, b)
               w == Append(jobs, Job("write", b, d))
           IN  /\ req' = Put(req, p, b, "none")
               /\ UNCHANGED <<disk, upload_mode, announced, failed>>
               /\ \/ ~ IsPieceFinished(q) /\ picker' = q /\ jobs' = w
                  \/ /\ IsPieceFinished(q) /\ picker' = StartedHashJob(q)
                     /\ jobs' = Append(w, Job("hash", "all", "none"))
<1> DEFINE q == MarkAsWriting(picker, b)
           w == Append(jobs, Job("write", b, d))
           gone == [req EXCEPT ![p][b] = "none"]
           c == CancelBlock(q, gone, b)
<1>1. q.block[b] = "writing"
  BY MarkAsWritingIs DEF FInv
<1>2. c = [picker |-> q, req |-> gone]
  <2> HIDE DEF q, gone
  <2> QED
    BY <1>1 DEF CancelBlock, IsRequested
<1>3. c.picker = q /\ c.req = gone
  <2> HIDE DEF c, q, gone
  <2> QED
    BY <1>2
<1>4. ~ IsPieceFinished(picker)
  BY IncompleteIsUndecided
<1>5. LET v == VerifyPiece(c.picker, IsPieceFinished(picker), w)
      IN  req' = c.req /\ picker' = v.picker /\ jobs' = v.jobs
  BY DEF IncomingPiece
<1>6. UNCHANGED <<disk, upload_mode, announced, failed>>
  BY DEF IncomingPiece
<1> HIDE DEF q, w, c
<1>7. CASE IsPieceFinished(q)
  <2>1. picker' = StartedHashJob(q) /\ jobs' = Append(w, Job("hash", "all", "none"))
    BY <1>3, <1>4, <1>5, <1>7 DEF VerifyPiece
  <2> QED
    BY <1>3, <1>5, <1>6, <1>7, <2>1 DEF q, w, Put
<1>8. CASE ~ IsPieceFinished(q)
  <2>1. picker' = q /\ jobs' = w
    BY <1>3, <1>4, <1>5, <1>8 DEF VerifyPiece
  <2> QED
    BY <1>3, <1>5, <1>6, <1>8, <2>1 DEF q, w, Put
<1> QED
  BY <1>7, <1>8

(* A new block is written, and the piece hashed if it was the last.        *)
LEMMA NewPieceKeeps ==
    ASSUME FInv, NEW p \in Peers, NEW b \in Blocks, NEW d \in Data, IncomingPiece(p, b, d),
           ~ IsDownloaded(picker, b)
    PROVE  FInv' /\ (NInv /\ ~ Forgets => NInv')
<1> DEFINE q == MarkAsWriting(picker, b)
           jw == Job("write", b, d)
           jh == Job("hash", "all", "none")
           w == Append(jobs, jw)
           n == Len(jobs)
           last == IsPieceFinished(q)
<1>1. Shape(picker) /\ req \in Queues /\ jobs \in Seq(JobObject)
  BY DEF FInv, Types
<1>2. /\ req' = Put(req, p, b, "none")
      /\ UNCHANGED <<disk, upload_mode, announced, failed>>
  BY NewPieceIs
<1>3. IF last THEN picker' = StartedHashJob(q) /\ jobs' = Append(w, jh)
      ELSE picker' = q /\ jobs' = w
  BY NewPieceIs
<1>4. /\ Shape(q) /\ Downloading(q) /\ (Exact(picker) => Exact(q))
      /\ q.block[b] = "writing" /\ q.num_peers[b] = 0
      /\ \A c \in Blocks \ {b} : q.block[c] = picker.block[c] /\ q.num_peers[c] = picker.num_peers[c]
  BY <1>1, MarkAsWritingIs
<1>5. q.hashing = picker.hashing /\ q.locked = picker.locked /\ q.passed = picker.passed
  BY <1>1, MarkAsWritingIs
<1>20. /\ jw \in JobObject /\ jw.kind = "write" /\ jw.block = b /\ jw.data = d /\ jw.st = "queued"
       /\ jh \in JobObject /\ jh.kind = "hash" /\ jh.st = "queued"
  BY JobIs
<1> HIDE DEF q, last, jw, jh
<1>6. /\ Shape(picker') /\ Downloading(picker') /\ (Exact(picker) => Exact(picker'))
      /\ picker'.block = q.block /\ picker'.num_peers = q.num_peers
      /\ picker'.writing = q.writing /\ picker'.finished = q.finished
  BY <1>3, <1>4, StartedHashJobIs
<1>7. picker'.locked = picker.locked /\ picker'.passed = picker.passed
  BY <1>3, <1>4, <1>5, StartedHashJobIs
<1>8. /\ last => picker'.hashing
      /\ ~ last => picker'.hashing = picker.hashing
  BY <1>3, <1>4, <1>5, StartedHashJobIs
<1>9. last <=> IsPieceFinished(picker')
  BY <1>4, <1>6 DEF last, IsPieceFinished, Downloading
<1>10. /\ ~ IsPieceFinished(picker) /\ picker.state # "have"
       /\ ~ upload_mode => Outstanding({"hash"}) = {} /\ Outstanding(Clears) = {}
       /\ NInv => ~ picker.passed /\ (picker.locked \/ Outstanding({"hash"}) = {})
  BY IncompleteIsUndecided
<1>11. /\ jobs' \in Seq(JobObject) /\ n + 1 \in DOMAIN jobs' /\ n \in Nat
       /\ DOMAIN jobs = 1..n
       /\ \A k \in DOMAIN jobs : k \in DOMAIN jobs' /\ jobs'[k] = jobs[k]
       /\ jobs'[n + 1] = jw
       /\ IF last THEN /\ DOMAIN jobs' = DOMAIN jobs \union {n + 1, n + 2}
                       /\ jobs'[n + 2] = jh
          ELSE DOMAIN jobs' = DOMAIN jobs \union {n + 1}
  <2> HIDE DEF w
  <2>2. /\ w \in Seq(JobObject) /\ Len(w) = n + 1 /\ Len(w) \in DOMAIN w
        /\ w[Len(w)] = jw
        /\ DOMAIN jobs = DOMAIN w \ {Len(w)} /\ \A k \in DOMAIN jobs : w[k] = jobs[k]
    <3>1. Appended(jobs, jw, w)
      BY <1>1, <1>20, AppendIs DEF w
    <3> QED
      BY <1>1, <3>1 DEF Appended
  <2>3. n \in Nat /\ DOMAIN jobs = 1..n
    BY <1>1, LenProperties
  <2> HIDE DEF n
  <2>4. CASE ~ last
    BY <1>3, <2>2, <2>3, <2>4
  <2>5. CASE last
    <3>1. jobs' = Append(w, jh)
      BY <1>3, <2>5
    <3>2. /\ jobs' \in Seq(JobObject) /\ Len(jobs') = Len(w) + 1 /\ Len(jobs') \in DOMAIN jobs'
          /\ jobs'[Len(jobs')] = jh
          /\ DOMAIN w = DOMAIN jobs' \ {Len(jobs')} /\ \A k \in DOMAIN w : jobs'[k] = w[k]
      <4>1. Appended(w, jh, jobs')
        BY <1>20, <2>2, <3>1, AppendIs
      <4> QED
        BY <2>2, <4>1 DEF Appended
    <3>3. Len(jobs') = n + 2
      BY <2>2, <2>3, <3>2
    <3> QED
      BY <2>2, <2>3, <2>5, <3>2, <3>3
  <2> QED
    BY <2>4, <2>5
<1> HIDE DEF w, n
<1>12. /\ jobs'[n + 1].kind = "write" /\ jobs'[n + 1].block = b
       /\ jobs'[n + 1].data = d /\ jobs'[n + 1].st = "queued"
       /\ last => jobs'[n + 2].kind = "hash" /\ jobs'[n + 2].st = "queued"
  BY <1>11, <1>20
<1>13. \A k \in DOMAIN jobs' : k \in DOMAIN jobs \/ k = n + 1 \/ (last /\ k = n + 2)
  BY <1>11
<1>14. n + 1 \notin DOMAIN jobs /\ n + 2 \notin DOMAIN jobs /\ n + 1 # n + 2
  BY <1>11
<1>15. Types' /\ JobShape'
  <2>1. req' \in Queues
    <3>1. "none" \in Live \union {"none", "dead"}
      OBVIOUS
    <3> QED
      BY <1>1, <1>2, <3>1, OneRequest
  <2>2. Types'
    BY <1>2, <1>11, <2>1 DEF FInv, Types
  <2>3. JobShape'
    BY <1>2, <1>11, <1>12, <1>13 DEF FInv, JobShape
  <2> QED
    BY <2>2, <2>3
<1>16. WrittenBlocks'
  <2>1. ASSUME NEW c \in Blocks, picker'.block[c] = "writing" PROVE Writes(c)' # {}
    <3>1. CASE c = b
      <4>1. n + 1 \in Writes(c)'
        BY <1>11, <1>12, <3>1 DEF Writes, Outstanding
      <4> QED
        BY <4>1
    <3>2. CASE c # b
      <4>1. picker.block[c] = "writing"
        BY <1>4, <1>6, <2>1, <3>2
      <4>2. PICK k \in Writes(c) : TRUE
        BY <4>1 DEF FInv, WrittenBlocks
      <4>3. k \in Writes(c)'
        BY <1>11, <4>2 DEF Writes, Outstanding
      <4> QED
        BY <4>3
    <3> QED
      BY <3>1, <3>2
  <2>2. ASSUME NEW c \in Blocks, picker'.block[c] = "finished" PROVE disk'[c] # "none"
    BY <1>2, <1>4, <1>6, <2>2 DEF FInv, WrittenBlocks
  <2> QED
    BY <2>1, <2>2 DEF WrittenBlocks
<1>17. ASSUME ~ upload_mode
       PROVE  /\ Outstanding(Clears)' = {}
              /\ Outstanding({"hash"})' = IF last THEN {n + 2} ELSE {}
              /\ Outstanding({"hash"} \union Clears)' = IF last THEN {n + 2} ELSE {}
  <2>1. \A k \in DOMAIN jobs : jobs[k].kind \notin {"hash"} \union Clears
    BY <1>10, <1>17 DEF Outstanding
  <2>2. \A k \in DOMAIN jobs : jobs'[k].kind \notin {"hash"} \union Clears
    BY <1>11, <2>1
  <2>3. "write" \notin {"hash"} \union Clears /\ "hash" \notin Clears
    BY DEF Clears
  <2>4. last => n + 2 \in DOMAIN jobs'
    BY <1>11
  <2>5. Outstanding(Clears)' = {}
    BY <1>12, <1>13, <2>2, <2>3 DEF Outstanding
  <2>6. Outstanding({"hash"})' = IF last THEN {n + 2} ELSE {}
    BY <1>12, <1>13, <2>2, <2>3, <2>4 DEF Outstanding
  <2>7. Outstanding({"hash"} \union Clears)' = IF last THEN {n + 2} ELSE {}
    BY <1>12, <1>13, <2>2, <2>3, <2>4 DEF Outstanding
  <2> QED
    BY <2>5, <2>6, <2>7
<1>18. Deciding'
  BY <1>2, <1>6, <1>8, <1>9, <1>17 DEF Deciding
<1>19. ASSUME NInv PROVE NInv'
  <2>1. ~ picker.passed /\ (picker.locked \/ Outstanding({"hash"}) = {})
    BY <1>10, <1>19
  <2>2. Exact(picker)'
    BY <1>6, <1>19 DEF NInv
  <2>3. Bounded(picker, req)'
    <3>1. "none" \in Live \union {"none", "dead"}
      OBVIOUS
    <3>2. \A c \in Blocks \ {b} : Requests(req', Live)[c] = Requests(req, Live)[c]
      BY <1>1, <1>2, <3>1, OneRequest
    <3>3. Requests(req', Live)[b] \in Nat
      BY RequestsIs
    <3>4. picker'.num_peers[b] <= Requests(req', Live)[b]
      BY <1>4, <1>6, <3>3
    <3>5. Bounded(picker', req')
      BY <1>4, <1>6, <1>19, <3>2, <3>4 DEF NInv, Bounded
    <3> QED
      BY <3>5 DEF Bounded, Requests
  <2>4. WritesExact'
    <3>1. ASSUME NEW k \in DOMAIN jobs, jobs[k].kind = "write"
          PROVE  /\ jobs[k].block \in Blocks /\ jobs[k].block # b
                 /\ picker'.block[jobs[k].block] = "writing"
      <4>1. picker.block[jobs[k].block] = "writing" /\ jobs[k].block \in Blocks
        BY <1>19, <3>1 DEF NInv, WritesExact, Outstanding, FInv, JobShape
      <4>2. jobs[k].block # b
        BY <4>1 DEF IsDownloaded
      <4> QED
        BY <1>4, <1>6, <4>1, <4>2
    <3>2. \A k \in Outstanding({"write"})' : k = n + 1 \/ (k \in Outstanding({"write"}) /\ jobs'[k] = jobs[k])
      BY <1>11, <1>12, <1>13 DEF Outstanding
    <3>3. ASSUME NEW i \in Outstanding({"write"})'
          PROVE  picker'.block[jobs'[i].block] = "writing"
      BY <1>4, <1>6, <1>12, <3>1, <3>2 DEF Outstanding
    <3>4. ASSUME NEW i \in Outstanding({"write"})', NEW k \in Outstanding({"write"})',
                 jobs'[k].block = jobs'[i].block
          PROVE  k = i
      <4>1. ASSUME NEW m \in Outstanding({"write"}) PROVE jobs[m].block # b
        BY <3>1 DEF Outstanding
      <4>2. CASE i = n + 1 \/ k = n + 1
        BY <1>12, <3>2, <3>4, <4>1, <4>2
      <4>3. CASE i # n + 1 /\ k # n + 1
        BY <1>19, <3>2, <3>4, <4>3 DEF NInv, WritesExact
      <4> QED
        BY <4>2, <4>3
    <3> QED
      BY <3>3, <3>4 DEF WritesExact
  <2>5. HashesExact'
    <3>1. CASE picker.locked
      BY <1>6, <1>7, <3>1 DEF HashesExact
    <3>2. CASE Outstanding({"hash"}) = {}
      <4>1. \A k \in DOMAIN jobs : jobs'[k].kind # "hash"
        BY <1>11, <3>2 DEF Outstanding
      <4>2. \A k \in Outstanding({"hash"})' : last /\ k = n + 2
        BY <1>12, <1>13, <4>1 DEF Outstanding
      <4> QED
        BY <1>6, <1>7, <1>9, <1>12, <2>1, <4>2 DEF HashesExact
    <3> QED
      BY <2>1, <3>1, <3>2
  <2>6. PassedIsGood' /\ HaveIsGood'
    BY <1>6, <1>7, <2>1 DEF PassedIsGood, HaveIsGood, Downloading
  <2> QED
    BY <2>2, <2>3, <2>4, <2>5, <2>6 DEF NInv
<1> QED
  BY <1>6, <1>15, <1>16, <1>18, <1>19 DEF FInv

(* A block that arrives is written or dropped; both keep the invariant.    *)
LEMMA IncomingPieceKeeps ==
    ASSUME FInv, NEW p \in Peers, NEW b \in Blocks, NEW d \in Data, IncomingPiece(p, b, d)
    PROVE  FInv' /\ (NInv /\ ~ Forgets => NInv')
  BY DroppedPieceKeeps, NewPieceKeeps
-----------------------------------------------------------------------------
(***************************************************************************)
(* The disk keeps the invariant.                                           *)
(***************************************************************************)
Pending(js, b) == {k \in DOMAIN js : js[k].kind = "write" /\ js[k].block = b /\ js[k].st = "queued"}

(* What a hash job finds of a block, when there is at most one write of it.*)
LEMMA FoundIs ==
    ASSUME Types, WritesExact, NEW b
    PROVE  /\ Pending(jobs, b) = {} => Found(b) = disk[b]
           /\ \A k \in Pending(jobs, b) : Found(b) = jobs[k].data
<1> DEFINE P == Pending(jobs, b)
<1>1. Found(b) = IF P = {} THEN disk[b] ELSE jobs[CHOOSE i \in P : \A k \in P : i <= k].data
  BY DEF Found, Pending
<1>2. ASSUME NEW k \in P PROVE Found(b) = jobs[k].data
  <2>1. \A m \in P : m = k
    BY <1>2 DEF Pending, WritesExact, Outstanding
  <2>2. k \in Nat
    BY <1>2, LenProperties DEF Types, Pending
  <2> HIDE DEF P
  <2>3. \E i \in P : \A m \in P : i <= m
    BY <1>2, <2>1, <2>2
  <2>4. (CHOOSE i \in P : \A m \in P : i <= m) \in P
    BY <2>3, Zenon
  <2> QED
    BY <1>1, <1>2, <2>1, <2>4
<1> QED
  BY <1>1, <1>2

(* The same in the next state.                                             *)
LEMMA FoundIsNext ==
    ASSUME Types', WritesExact', NEW b
    PROVE  /\ Pending(jobs', b) = {} => Found(b)' = disk'[b]
           /\ \A k \in Pending(jobs', b) : Found(b)' = jobs'[k].data
<1> DEFINE P == Pending(jobs', b)
<1>1. Found(b)' = IF P = {} THEN disk'[b] ELSE jobs'[CHOOSE i \in P : \A k \in P : i <= k].data
  BY DEF Found, Pending
<1>2. ASSUME NEW k \in P PROVE Found(b)' = jobs'[k].data
  <2>1. \A m \in P : m = k
    BY <1>2 DEF Pending, WritesExact, Outstanding
  <2>2. k \in Nat
    BY <1>2, LenProperties DEF Types, Pending
  <2> HIDE DEF P
  <2>3. \E i \in P : \A m \in P : i <= m
    BY <1>2, <2>1, <2>2
  <2>4. (CHOOSE i \in P : \A m \in P : i <= m) \in P
    BY <2>3, Zenon
  <2> QED
    BY <1>1, <1>2, <2>1, <2>4
<1> QED
  BY <1>1, <1>2

(* What a job leaves behind.                                               *)
WriteRan(i, j) ==
    /\ jobs[i].kind = "write" /\ j.data = jobs[i].data
    /\ \/ j.st = "done" /\ disk' = [disk EXCEPT ![jobs[i].block] = jobs[i].data] /\ failed' = failed
       \/ j.st = "failed" /\ disk' = disk /\ failed' = failed + 1 /\ failed < MaxFailedWrites

HashRan(i, j) ==
    /\ jobs[i].kind = "hash" /\ j.st = "done" /\ disk' = disk /\ failed' = failed
    /\ j.data = IF \A b \in Blocks : Found(b) = "good" THEN "good" ELSE "bad"

ClearRan(i, j) == jobs[i].kind \in Clears /\ j.st = "done" /\ disk' = disk /\ failed' = failed

(* What the disk does with a job.                                          *)
LEMMA RunJobIs ==
    ASSUME FInv, NEW i \in DOMAIN jobs, RunJob(i)
    PROVE  /\ UNCHANGED <<picker, req, upload_mode, announced>> /\ jobs[i].st = "queued"
           /\ \E j \in JobObject : /\ Replaced(jobs, i, j, jobs')
                                   /\ j.kind = jobs[i].kind /\ j.block = jobs[i].block
                                   /\ WriteRan(i, j) \/ HashRan(i, j) \/ ClearRan(i, j)
<1> DEFINE found == IF \A b \in Blocks : Found(b) = "good" THEN "good" ELSE "bad"
           done == [jobs[i] EXCEPT !.st = "done"]
           fail == [jobs[i] EXCEPT !.st = "failed"]
           hash == [jobs[i] EXCEPT !.st = "done", !.data = found]
<1>1. jobs \in Seq(JobObject) /\ jobs[i] \in JobObject
  BY ElementOfSeq, LenProperties DEF FInv, Types
<1>2. found \in Data
  BY DEF Data
<1> HIDE DEF found
<1>3. /\ done \in JobObject /\ done.kind = jobs[i].kind /\ done.block = jobs[i].block
      /\ done.st = "done" /\ done.data = jobs[i].data
  BY <1>1 DEF JobObject
<1>4. /\ fail \in JobObject /\ fail.kind = jobs[i].kind /\ fail.block = jobs[i].block
      /\ fail.st = "failed" /\ fail.data = jobs[i].data
  BY <1>1 DEF JobObject
<1>5. /\ hash \in JobObject /\ hash.kind = jobs[i].kind /\ hash.block = jobs[i].block
      /\ hash.st = "done" /\ hash.data = found
  BY <1>1, <1>2 DEF JobObject
<1>6. UNCHANGED <<picker, req, upload_mode, announced>> /\ jobs[i].st = "queued"
  BY DEF RunJob, MayRun
<1>7. \/ /\ jobs[i].kind = "write" /\ jobs' = [jobs EXCEPT ![i] = done] /\ failed' = failed
         /\ disk' = [disk EXCEPT ![jobs[i].block] = jobs[i].data]
      \/ /\ jobs[i].kind = "write" /\ jobs' = [jobs EXCEPT ![i] = fail] /\ disk' = disk
         /\ failed' = failed + 1 /\ failed < MaxFailedWrites
      \/ /\ jobs[i].kind = "hash" /\ jobs' = [jobs EXCEPT ![i] = hash] /\ disk' = disk /\ failed' = failed
      \/ /\ jobs[i].kind \in Clears /\ jobs' = [jobs EXCEPT ![i] = done] /\ disk' = disk /\ failed' = failed
  BY <1>1 DEF RunJob, found
<1> HIDE DEF done, fail, hash
<1>8. CASE jobs' = [jobs EXCEPT ![i] = done]
           /\ \/ jobs[i].kind = "write" /\ failed' = failed /\ disk' = [disk EXCEPT ![jobs[i].block] = jobs[i].data]
              \/ jobs[i].kind \in Clears /\ disk' = disk /\ failed' = failed
  <2>1. Replaced(jobs, i, done, jobs')
    BY <1>1, <1>3, <1>8, ReplaceIs
  <2>2. WriteRan(i, done) \/ ClearRan(i, done)
    BY <1>3, <1>8 DEF WriteRan, ClearRan
  <2> QED
    BY <1>3, <1>6, <2>1, <2>2
<1>9. CASE jobs[i].kind = "write" /\ jobs' = [jobs EXCEPT ![i] = fail] /\ disk' = disk
           /\ failed' = failed + 1 /\ failed < MaxFailedWrites
  <2>1. Replaced(jobs, i, fail, jobs')
    BY <1>1, <1>4, <1>9, ReplaceIs
  <2>2. WriteRan(i, fail)
    BY <1>4, <1>9 DEF WriteRan
  <2> QED
    BY <1>4, <1>6, <2>1, <2>2
<1>10. CASE jobs[i].kind = "hash" /\ jobs' = [jobs EXCEPT ![i] = hash] /\ disk' = disk /\ failed' = failed
  <2>1. Replaced(jobs, i, hash, jobs')
    BY <1>1, <1>5, <1>10, ReplaceIs
  <2>2. HashRan(i, hash)
    BY <1>5, <1>10 DEF HashRan, found
  <2> QED
    BY <1>5, <1>6, <2>1, <2>2
<1> QED
  BY <1>7, <1>8, <1>9, <1>10

(* A job that runs is still outstanding, for the same block.               *)
LEMMA RunJobKeeps ==
    ASSUME FInv, NEW i \in DOMAIN jobs, RunJob(i)
    PROVE  FInv' /\ (NInv => NInv')
<1>1. UNCHANGED <<picker, req, upload_mode, announced>> /\ jobs[i].st = "queued"
  BY RunJobIs
<1>2. PICK j \in JobObject : /\ Replaced(jobs, i, j, jobs')
                             /\ j.kind = jobs[i].kind /\ j.block = jobs[i].block
                             /\ WriteRan(i, j) \/ HashRan(i, j) \/ ClearRan(i, j)
  BY RunJobIs
<1>3. jobs \in Seq(JobObject) /\ jobs[i] \in JobObject /\ failed \in Nat
  BY ElementOfSeq, LenProperties DEF FInv, Types
<1>4. /\ jobs' \in Seq(JobObject) /\ Len(jobs') = Len(jobs) /\ DOMAIN jobs' = DOMAIN jobs
      /\ jobs'[i] = j
      /\ \A k \in DOMAIN jobs \ {i} : jobs'[k] = jobs[k]
  BY <1>2, <1>3 DEF Replaced
<1>5. \A k \in DOMAIN jobs : jobs'[k].kind = jobs[k].kind /\ jobs'[k].block = jobs[k].block
  BY <1>2, <1>4
<1>6. \A kinds : Outstanding(kinds)' = Outstanding(kinds)
  BY <1>4, <1>5 DEF Outstanding
<1>7. \A b : Writes(b)' = Writes(b)
  BY <1>4, <1>5 DEF Writes, Outstanding
<1>8. jobs[i].kind = "write" => jobs[i].block \in Blocks /\ jobs[i].data \in Data
  BY DEF FInv, JobShape
<1>9. /\ disk' \in [Blocks -> Data \union {"none"}]
      /\ \A b \in Blocks : disk[b] # "none" => disk'[b] # "none"
      /\ jobs[i].kind = "write" /\ j.st = "done" => disk'[jobs[i].block] # "none"
  <2>1. disk \in [Blocks -> Data \union {"none"}] /\ "none" \notin Data
    BY DEF FInv, Types, Data
  <2>2. CASE WriteRan(i, j)
    BY <1>8, <2>1, <2>2 DEF WriteRan
  <2>3. CASE HashRan(i, j)
    BY <2>1, <2>3 DEF HashRan
  <2>4. CASE ClearRan(i, j)
    BY <2>1, <2>4 DEF ClearRan, Clears
  <2> QED
    BY <1>2, <2>2, <2>3, <2>4
<1>10. failed' \in 0..MaxFailedWrites /\ failed' >= failed /\ (j.st = "failed" => failed' > 0 /\ j.kind = "write")
  <2>1. CASE WriteRan(i, j)
    BY <1>2, <1>3, <2>1, PeersAssumption DEF WriteRan, FInv, Types
  <2>2. CASE HashRan(i, j)
    BY <1>3, <2>2 DEF HashRan, FInv, Types
  <2>3. CASE ClearRan(i, j)
    BY <1>3, <2>3 DEF ClearRan, FInv, Types
  <2> QED
    BY <1>2, <2>1, <2>2, <2>3
<1>11. Types'
  BY <1>1, <1>4, <1>9, <1>10 DEF FInv, Types
<1>12. JobShape'
  <2>1. ASSUME NEW k \in DOMAIN jobs'
        PROVE  /\ jobs'[k].kind = "write" => jobs'[k].block \in Blocks /\ jobs'[k].data \in Data
               /\ jobs'[k].kind = "write" /\ jobs'[k].st = "done" => disk'[jobs'[k].block] # "none"
               /\ jobs'[k].st = "failed" => jobs'[k].kind = "write" /\ failed' > 0
    <3>1. CASE k = i
      <4>1. jobs[i].kind = "write" => j.data = jobs[i].data
        BY <1>2 DEF WriteRan, HashRan, ClearRan, Clears
      <4> QED
        BY <1>2, <1>4, <1>8, <1>9, <1>10, <3>1, <4>1
    <3>2. CASE k # i
      <4>1. k \in DOMAIN jobs /\ jobs'[k] = jobs[k]
        BY <1>4, <3>2
      <4>2. failed > 0 => failed' > 0
        BY <1>3, <1>10
      <4> QED
        BY <1>9, <4>1, <4>2 DEF FInv, JobShape
    <3> QED
      BY <3>1, <3>2
  <2> QED
    BY <2>1 DEF JobShape
<1>13. WrittenBlocks'
  BY <1>1, <1>7, <1>9 DEF FInv, WrittenBlocks
<1>14. Deciding'
  BY <1>1, <1>6 DEF FInv, Deciding
<1>15. ASSUME NInv PROVE NInv'
  <2>2. WritesExact'
    <3>1. \A k \in Outstanding({"write"})' : k \in Outstanding({"write"}) /\ jobs'[k].block = jobs[k].block
      BY <1>4, <1>5 DEF Outstanding
    <3> QED
      BY <1>1, <1>15, <3>1 DEF NInv, WritesExact
  <2>3. WritesExact /\ Types
    BY <1>15 DEF NInv, FInv
  <2>1. \A k \in DOMAIN jobs \ {i} : jobs'[k] = jobs[k]
    BY <1>4
  <2>4. ASSUME NEW b \in Blocks
        PROVE  Found(b)' = Found(b) \/ (i \in Writes(b)' /\ jobs'[i].st = "failed")
    <3>1. /\ Pending(jobs, b) = {} => Found(b) = disk[b]
          /\ \A k \in Pending(jobs, b) : Found(b) = jobs[k].data
      BY <2>3, FoundIs
    <3>2. /\ Pending(jobs', b) = {} => Found(b)' = disk'[b]
          /\ \A k \in Pending(jobs', b) : Found(b)' = jobs'[k].data
      BY <1>11, <2>2, FoundIsNext
    <3>3. CASE jobs[i].kind = "write" /\ jobs[i].block = b
      <4>1. WriteRan(i, j)
        BY <1>2, <3>3 DEF HashRan, ClearRan, Clears
      <4>5. CASE j.st = "failed"
        BY <1>2, <1>4, <3>3, <4>5 DEF Writes, Outstanding
      <4>6. ASSUME j.st # "failed" PROVE Found(b)' = Found(b)
        <5>2. j.st = "done" /\ disk'[b] = jobs[i].data
          BY <3>3, <4>1, <4>6 DEF WriteRan, FInv, Types
        <5>3. i \in Pending(jobs, b)
          BY <1>1, <3>3 DEF Pending
        <5>4. Pending(jobs', b) = {}
          <6>1. ASSUME NEW k \in Pending(jobs', b) PROVE FALSE
            <7>1. k \in Outstanding({"write"})' /\ jobs'[k].block = b /\ jobs'[k].st = "queued"
              BY <6>1 DEF Pending, Outstanding
            <7>2. i \in Outstanding({"write"})' /\ jobs'[i].block = b
              BY <1>2, <1>4, <3>3 DEF Outstanding
            <7>3. k = i
              BY <2>2, <7>1, <7>2 DEF WritesExact
            <7> QED
              BY <1>4, <5>2, <7>1, <7>3
          <6> QED
            BY <6>1
        <5> QED
          BY <3>1, <3>2, <5>2, <5>3, <5>4
      <4> QED
        BY <4>5, <4>6
    <3>4. CASE ~ (jobs[i].kind = "write" /\ jobs[i].block = b)
      <4>1. disk'[b] = disk[b]
        BY <1>2, <1>8, <3>4 DEF WriteRan, HashRan, ClearRan, FInv, Types
      <4>2. Pending(jobs', b) = Pending(jobs, b) /\ i \notin Pending(jobs, b)
        BY <1>2, <1>4, <3>4 DEF Pending
      <4>3. \A k \in Pending(jobs, b) : jobs'[k] = jobs[k]
        BY <1>4, <4>2 DEF Pending
      <4>4. CASE Pending(jobs, b) = {}
        BY <3>1, <3>2, <4>1, <4>2, <4>4
      <4>5. CASE Pending(jobs, b) # {}
        BY <3>1, <3>2, <4>2, <4>3, <4>5
      <4> QED
        BY <4>4, <4>5
    <3> QED
      BY <3>3, <3>4
  <2>5. Exact(picker)' /\ Bounded(picker, req)'
    BY <1>1, <1>15 DEF NInv, Bounded, Requests
  <2>6. Holds => Holds'
    <3> SUFFICES ASSUME Holds, NEW b \in Blocks
                 PROVE  Found(b)' = "good" \/ \E k \in Writes(b)' : jobs'[k].st = "failed"
      BY DEF Holds
    <3>1. CASE Found(b) = "good"
      BY <2>4, <3>1
    <3>2. ASSUME NEW k \in Writes(b), jobs[k].st = "failed" PROVE \E m \in Writes(b)' : jobs'[m].st = "failed"
      <4>1. k # i /\ k \in DOMAIN jobs
        BY <1>1, <3>2 DEF Writes, Outstanding
      <4> QED
        BY <1>7, <2>1, <3>2, <4>1
    <3> QED
      BY <3>1, <3>2 DEF Holds
  <2>7. HashesExact'
    <3> SUFFICES ASSUME NEW k \in Outstanding({"hash"}), ~ picker.locked,
                        jobs'[k].st # "queued", jobs'[k].data = "good"
                 PROVE  Holds'
      BY <1>1, <1>6, <1>15 DEF NInv, HashesExact
    <3>1. k \in DOMAIN jobs /\ jobs[k].kind = "hash"
      BY DEF Outstanding
    <3>2. CASE k = i
      <4>1. HashRan(i, j)
        BY <1>2, <3>1, <3>2 DEF WriteRan, ClearRan, Clears
      <4>2. \A b \in Blocks : Found(b) = "good"
        BY <1>4, <3>2, <4>1 DEF HashRan
      <4> QED
        BY <2>6, <4>2 DEF Holds
    <3>3. CASE k # i
      BY <1>15, <2>1, <2>6, <3>1, <3>3 DEF NInv, HashesExact
    <3> QED
      BY <3>2, <3>3
  <2>8. PassedIsGood'
    BY <1>1, <1>6, <1>15, <2>6 DEF NInv, PassedIsGood
  <2>10. HaveIsGood'
    <3>1. ASSUME picker.state = "have" PROVE disk' = disk
      <4>1. picker = PieceIn("have")
        BY <3>1 DEF FInv, Shape, Downloading
      <4>2. \A b \in Blocks : picker.block[b] = "none"
        BY <4>1, PieceInShape
      <4>3. jobs[i].kind # "write"
        BY <1>8, <2>3, <4>2 DEF WritesExact, Outstanding
      <4> QED
        BY <1>2, <4>3 DEF WriteRan, HashRan, ClearRan
    <3> QED
      BY <1>1, <1>15, <3>1 DEF NInv, HaveIsGood
  <2> QED
    BY <2>2, <2>5, <2>7, <2>8, <2>10 DEF NInv
<1> QED
  BY <1>1, <1>11, <1>12, <1>13, <1>14, <1>15 DEF FInv

-----------------------------------------------------------------------------
(***************************************************************************)
(* The handlers of the jobs keep the invariant.                            *)
(***************************************************************************)

(* What is outstanding when the handler of job i has been called, and the  *)
(* list of jobs is js.                                                     *)
LEMMA RestOutstanding ==
    ASSUME FInv, NEW i \in DOMAIN jobs, NEW js, js = RemoveAt(jobs, i)
    PROVE  /\ js \in Seq(JobObject) /\ Len(js) = Len(jobs) - 1
           /\ \A k \in DOMAIN js : Skip(i, k) \in DOMAIN jobs \ {i} /\ js[k] = jobs[Skip(i, k)]
           /\ \A k \in DOMAIN jobs \ {i} : \E m \in DOMAIN js : Skip(i, m) = k
           /\ \A k, m \in DOMAIN js : Skip(i, k) = Skip(i, m) => k = m
<1>1. jobs \in Seq(JobObject)
  BY DEF FInv, Types
<1>2. Removed(jobs, i, js)
  BY <1>1, RemoveAtIs
<1> QED
  BY <1>1, <1>2 DEF Removed

(* A handler that issues no job.                                           *)
LEMMA HandlerCalled ==
    ASSUME FInv, NEW i \in DOMAIN jobs, jobs' = RemoveAt(jobs, i), UNCHANGED <<disk, failed>>
    PROVE  /\ jobs' \in Seq(JobObject) /\ JobShape' /\ Len(jobs') = Len(jobs) - 1
           /\ \A k \in DOMAIN jobs' : Skip(i, k) \in DOMAIN jobs \ {i} /\ jobs'[k] = jobs[Skip(i, k)]
           /\ \A k \in DOMAIN jobs \ {i} : \E m \in DOMAIN jobs' : Skip(i, m) = k
           /\ \A k, m \in DOMAIN jobs' : Skip(i, k) = Skip(i, m) => k = m
           /\ \A kinds : \A k \in Outstanding(kinds)' : Skip(i, k) \in Outstanding(kinds) \ {i}
           /\ \A kinds : Outstanding(kinds) \ {i} # {} => Outstanding(kinds)' # {}
           /\ \A b : Writes(b) \ {i} # {} => Writes(b)' # {}
<1>1. /\ jobs' \in Seq(JobObject) /\ Len(jobs') = Len(jobs) - 1
      /\ \A k \in DOMAIN jobs' : Skip(i, k) \in DOMAIN jobs \ {i} /\ jobs'[k] = jobs[Skip(i, k)]
      /\ \A k \in DOMAIN jobs \ {i} : \E m \in DOMAIN jobs' : Skip(i, m) = k
      /\ \A k, m \in DOMAIN jobs' : Skip(i, k) = Skip(i, m) => k = m
  BY RestOutstanding
<1>2. JobShape'
  BY <1>1 DEF FInv, JobShape
<1>3. ASSUME NEW kinds, NEW k \in Outstanding(kinds)' PROVE Skip(i, k) \in Outstanding(kinds) \ {i}
  BY <1>1, <1>3 DEF Outstanding
<1>4. ASSUME NEW b, NEW k \in Writes(b) \ {i} PROVE Writes(b)' # {}
  <2>1. k \in DOMAIN jobs \ {i} /\ jobs[k].kind = "write" /\ jobs[k].block = b
    BY <1>4 DEF Writes, Outstanding
  <2>2. PICK m \in DOMAIN jobs' : Skip(i, m) = k
    BY <1>1, <2>1
  <2>3. m \in Writes(b)'
    BY <1>1, <2>1, <2>2 DEF Writes, Outstanding
  <2> QED
    BY <2>3
<1>5. ASSUME NEW kinds, NEW k \in Outstanding(kinds) \ {i} PROVE Outstanding(kinds)' # {}
  <2>1. k \in DOMAIN jobs \ {i} /\ jobs[k].kind \in kinds
    BY <1>5 DEF Outstanding
  <2>2. PICK m \in DOMAIN jobs' : Skip(i, m) = k
    BY <1>1, <2>1
  <2>3. m \in Outstanding(kinds)'
    BY <1>1, <2>1, <2>2 DEF Outstanding
  <2> QED
    BY <2>3
<1> QED
  BY <1>1, <1>2, <1>3, <1>4, <1>5

(* A handler that issues no job leaves nothing of some kinds outstanding,  *)
(* if its own job was all there was.                                       *)
LEMMA NothingLeft ==
    ASSUME FInv, NEW i \in DOMAIN jobs, jobs' = RemoveAt(jobs, i), UNCHANGED <<disk, failed>>,
           ~ upload_mode, jobs[i].kind \in {"hash"} \union Clears
    PROVE  /\ Outstanding({"hash"} \union Clears)' = {}
           /\ Outstanding({"hash"})' = {} /\ Outstanding(Clears)' = {}
<1>1. i \in Outstanding({"hash"} \union Clears)
  BY DEF Outstanding
<1>2. \A k \in Outstanding({"hash"} \union Clears) : k = i
  BY <1>1 DEF FInv, Deciding
<1>3. \A kinds : \A k \in Outstanding(kinds)' : Skip(i, k) \in Outstanding(kinds) \ {i}
  BY HandlerCalled
<1>4. Outstanding({"hash"} \union Clears)' = {}
  BY <1>2, <1>3
<1>5. /\ Outstanding({"hash"})' \subseteq Outstanding({"hash"} \union Clears)'
      /\ Outstanding(Clears)' \subseteq Outstanding({"hash"} \union Clears)'
  BY DEF Outstanding
<1> QED
  BY <1>4, <1>5

(* The handler of a job that has run changes nothing of what a hash job    *)
(* finds.                                                                  *)
LEMMA FoundByOthers ==
    ASSUME FInv, NEW i \in DOMAIN jobs, jobs' = RemoveAt(jobs, i), UNCHANGED <<disk, failed>>,
           jobs[i].kind # "write" \/ jobs[i].st # "queued", WritesExact, Types', WritesExact',
           NEW b
    PROVE  Found(b)' = Found(b)
<1>1. /\ Pending(jobs, b) = {} => Found(b) = disk[b]
      /\ \A k \in Pending(jobs, b) : Found(b) = jobs[k].data
  BY FoundIs DEF FInv
<1>2. /\ Pending(jobs', b) = {} => Found(b)' = disk'[b]
      /\ \A k \in Pending(jobs', b) : Found(b)' = jobs'[k].data
  BY FoundIsNext
<1>3. /\ \A k \in DOMAIN jobs' : Skip(i, k) \in DOMAIN jobs \ {i} /\ jobs'[k] = jobs[Skip(i, k)]
      /\ \A k \in DOMAIN jobs \ {i} : \E m \in DOMAIN jobs' : Skip(i, m) = k
  BY HandlerCalled
<1>4. \A k \in Pending(jobs', b) : Skip(i, k) \in Pending(jobs, b) /\ jobs'[k] = jobs[Skip(i, k)]
  BY <1>3 DEF Pending
<1>5. CASE Pending(jobs, b) = {}
  <2>1. Pending(jobs', b) = {}
    BY <1>4, <1>5
  <2> QED
    BY <1>1, <1>2, <1>5, <2>1
<1>6. CASE Pending(jobs, b) # {}
  <2>1. PICK k \in Pending(jobs, b) : TRUE
    BY <1>6
  <2>2. k \in DOMAIN jobs \ {i}
    BY <2>1 DEF Pending
  <2>3. PICK m \in DOMAIN jobs' : Skip(i, m) = k
    BY <1>3, <2>2
  <2>4. m \in Pending(jobs', b) /\ jobs'[m] = jobs[k]
    BY <1>3, <2>1, <2>3 DEF Pending
  <2> QED
    BY <1>1, <1>2, <2>1, <2>4
<1> QED
  BY <1>5, <1>6

(* What was found good stays so when the handler of another job is called, *)
(* or that of a write that succeeded.                                      *)
LEMMA HoldsByOthers ==
    ASSUME FInv, NEW i \in DOMAIN jobs, jobs' = RemoveAt(jobs, i), UNCHANGED <<disk, failed>>,
           jobs[i].kind # "write" \/ jobs[i].st = "done", WritesExact, Types', WritesExact', Holds
    PROVE  Holds'
<1> SUFFICES ASSUME NEW b \in Blocks
             PROVE  Found(b)' = "good" \/ \E k \in Writes(b)' : jobs'[k].st = "failed"
  BY DEF Holds
<1>1. CASE Found(b) = "good"
  BY <1>1, FoundByOthers
<1>2. ASSUME NEW k \in Writes(b), jobs[k].st = "failed" PROVE \E m \in Writes(b)' : jobs'[m].st = "failed"
  <2>1. k \in DOMAIN jobs \ {i} /\ jobs[k].kind = "write" /\ jobs[k].block = b
    BY <1>2 DEF Writes, Outstanding
  <2>2. PICK m \in DOMAIN jobs' : Skip(i, m) = k /\ jobs'[m] = jobs[k]
    BY <2>1, HandlerCalled
  <2>3. m \in Writes(b)'
    BY <2>1, <2>2 DEF Writes, Outstanding
  <2> QED
    BY <1>2, <2>2, <2>3
<1> QED
  BY <1>1, <1>2 DEF Holds

(* What was found of a piece of which no write is outstanding is on disk.  *)
LEMMA HoldsOnDisk ==
    ASSUME FInv, WritesExact, Holds, NEW b \in Blocks,
           \A k \in Writes(b) : jobs[k].st = "done"
    PROVE  disk[b] = "good"
<1>1. Pending(jobs, b) = {}
  <2>1. Pending(jobs, b) \subseteq Writes(b)
    BY DEF Pending, Writes, Outstanding
  <2> QED
    BY <2>1 DEF Pending
<1>2. Found(b) = disk[b]
  BY <1>1, FoundIs DEF FInv
<1> QED
  BY <1>2 DEF Holds

(* on_disk_write_complete, for a block that was written.                   *)
LEMMA OnDiskWriteCompleteKeeps ==
    ASSUME FInv, NEW i \in DOMAIN jobs, OnDiskWriteComplete(i)
    PROVE  FInv' /\ (NInv /\ ~ Forgets => NInv')
<1> DEFINE b == jobs[i].block
           A == picker.state = "have" /\ picker' = picker
           B == /\ picker.state # "have" /\ Downloading(picker')
                /\ picker'.block[b] = "finished" /\ picker'.num_peers = picker.num_peers
                /\ \A c \in Blocks \ {b} : picker'.block[c] = picker.block[c]
                /\ picker'.hashing = picker.hashing /\ picker'.locked = picker.locked
                /\ picker'.passed = picker.passed
           C == /\ Downloading(picker) /\ picker.passed /\ ~ picker.hashing /\ picker' = PieceIn("have")
                /\ \A c \in Blocks \ {b} : picker.block[c] = "finished"
<1>1. /\ jobs[i].kind = "write" /\ jobs[i].st = "done" /\ picker' = MarkAsFinished(picker, b)
      /\ jobs' = RemoveAt(jobs, i) /\ UNCHANGED <<req, disk, upload_mode, announced, failed>>
  BY DEF OnDiskWriteComplete, Answered
<1>2. Shape(picker) /\ b \in Blocks /\ disk[b] # "none"
  BY <1>1 DEF FInv, JobShape
<1>3. /\ Shape(picker')
      /\ Exact(picker) /\ picker.block[b] # "requested" => Exact(picker')
      /\ A \/ B \/ C
  BY <1>1, <1>2, MarkAsFinishedIs
<1>4. /\ jobs' \in Seq(JobObject) /\ JobShape' /\ Len(jobs') = Len(jobs) - 1
      /\ \A k \in DOMAIN jobs' : Skip(i, k) \in DOMAIN jobs \ {i} /\ jobs'[k] = jobs[Skip(i, k)]
      /\ \A k, m \in DOMAIN jobs' : Skip(i, k) = Skip(i, m) => k = m
      /\ \A kinds : \A k \in Outstanding(kinds)' : Skip(i, k) \in Outstanding(kinds) \ {i}
      /\ \A kinds : Outstanding(kinds) \ {i} # {} => Outstanding(kinds)' # {}
      /\ \A c : Writes(c) \ {i} # {} => Writes(c)' # {}
  BY <1>1, HandlerCalled
<1> HIDE DEF b
<1>5. \A c \in Blocks : PieceIn("have").block[c] = "none" /\ PieceIn("have").num_peers[c] = 0
  BY PieceInShape
<1>6. picker.state = "have" => picker = PieceIn("have")
  BY <1>2 DEF Shape, Downloading
<1>7. \A c \in Blocks : /\ picker'.block[c] = "writing" => c # b /\ picker.block[c] = "writing"
                        /\ picker'.block[c] = "finished" => c = b \/ picker.block[c] = "finished"
  BY <1>3, <1>5, <1>6
<1>8. WrittenBlocks'
  <2>1. ASSUME NEW c \in Blocks, picker'.block[c] = "writing" PROVE Writes(c)' # {}
    <3>1. c # b /\ Writes(c) # {}
      BY <1>7, <2>1 DEF FInv, WrittenBlocks
    <3>2. i \notin Writes(c)
      BY <3>1 DEF Writes, b
    <3>3. Writes(c) \ {i} # {}
      BY <3>1, <3>2
    <3> QED
      BY <1>4, <3>3
  <2>2. ASSUME NEW c \in Blocks, picker'.block[c] = "finished" PROVE disk'[c] # "none"
    BY <1>1, <1>2, <1>7, <2>2 DEF FInv, WrittenBlocks
  <2> QED
    BY <2>1, <2>2 DEF WrittenBlocks
<1>9. IsPieceFinished(picker) => IsPieceFinished(picker')
  <2>1. CASE A
    BY <2>1
  <2>2. CASE B
    <3>1. ASSUME IsPieceFinished(picker) PROVE IsPieceFinished(picker')
      <4>1. \A c \in Blocks : picker.block[c] \in {"writing", "finished"}
        BY <1>2, <2>2, <3>1, CompleteBlocks DEF IsPieceFinished
      <4>2. \A c \in Blocks : picker'.block[c] \in {"writing", "finished"}
        BY <2>2, <4>1
      <4> QED
        BY <1>3, <2>2, <4>2, CompleteBlocks
    <3> QED
      BY <3>1
  <2>3. CASE C
    BY <2>3 DEF IsPieceFinished, PieceIn
  <2> QED
    BY <1>3, <2>1, <2>2, <2>3
<1>10. Deciding'
  <2>1. CASE upload_mode
    BY <1>1, <2>1 DEF Deciding
  <2>2. CASE ~ upload_mode
    <3>1. \A k, m \in Outstanding({"hash"} \union Clears)' : k = m
      <4>1. \A k, m \in Outstanding({"hash"} \union Clears) : k = m
        BY <2>2 DEF FInv, Deciding
      <4>2. ASSUME NEW k \in Outstanding({"hash"} \union Clears)', NEW m \in Outstanding({"hash"} \union Clears)'
            PROVE  k = m
        <5>1. Skip(i, k) = Skip(i, m)
          BY <1>4, <4>1
        <5>2. k \in DOMAIN jobs' /\ m \in DOMAIN jobs'
          BY DEF Outstanding
        <5> QED
          BY <1>4, <5>1, <5>2
      <4> QED
        BY <4>2
    <3>2. ASSUME Outstanding({"hash"})' # {}
          PROVE  Downloading(picker') /\ IsPieceFinished(picker') /\ picker'.hashing
      <4>1. Outstanding({"hash"}) # {}
        BY <1>4, <3>2
      <4>2. Downloading(picker) /\ IsPieceFinished(picker) /\ picker.hashing
        BY <2>2, <4>1 DEF FInv, Deciding
      <4>3. B
        BY <1>3, <4>2 DEF Downloading
      <4> QED
        BY <1>9, <4>2, <4>3
    <3>3. ASSUME Outstanding(Clears)' # {}
          PROVE  Downloading(picker') /\ IsPieceFinished(picker') /\ picker'.locked /\ ~ picker'.passed
      <4>1. Outstanding(Clears) # {}
        BY <1>4, <3>3
      <4>2. Downloading(picker) /\ IsPieceFinished(picker) /\ picker.locked /\ ~ picker.passed
        BY <2>2, <4>1 DEF FInv, Deciding
      <4>3. B
        BY <1>3, <4>2 DEF Downloading
      <4> QED
        BY <1>9, <4>2, <4>3
    <3> QED
      BY <3>1, <3>2, <3>3 DEF Deciding
  <2> QED
    BY <2>1, <2>2
<1>11. Types'
  BY <1>1, <1>4 DEF FInv, Types
<1>12. ASSUME NInv PROVE NInv'
  <2>1. i \in Outstanding({"write"}) /\ WritesExact
    BY <1>1, <1>12 DEF NInv, Outstanding
  <2>2. picker.block[b] = "writing"
    BY <2>1 DEF WritesExact, b
  <2>3. B \/ C
    BY <1>2, <1>3, <1>5, <1>6, <2>2
  <2>4. \A k \in Outstanding({"write"}) \ {i} :
            jobs[k].block \in Blocks \ {b} /\ picker.block[jobs[k].block] = "writing"
    BY <2>1 DEF WritesExact, Outstanding, FInv, JobShape, b
  <2>5. \A k \in Outstanding({"write"})' :
            /\ Skip(i, k) \in Outstanding({"write"}) \ {i} /\ jobs'[k].block = jobs[Skip(i, k)].block
            /\ k \in DOMAIN jobs'
    BY <1>4 DEF Outstanding
  <2>6. WritesExact'
    <3>1. ASSUME NEW k \in Outstanding({"write"})' PROVE picker'.block[jobs'[k].block] = "writing"
      BY <2>3, <2>4, <2>5
    <3>2. ASSUME NEW k \in Outstanding({"write"})', NEW m \in Outstanding({"write"})',
                 jobs'[m].block = jobs'[k].block
          PROVE  m = k
      <4>1. Skip(i, m) = Skip(i, k)
        BY <2>1, <2>5, <3>2 DEF WritesExact
      <4> QED
        BY <1>4, <2>5, <4>1
    <3> QED
      BY <3>1, <3>2 DEF WritesExact
  <2>7. Holds => Holds'
    BY <1>1, <1>11, <2>1, <2>6, HoldsByOthers
  <2>8. Exact(picker)' /\ Bounded(picker, req)'
    <3>1. Exact(picker')
      BY <1>3, <1>12, <2>2 DEF NInv
    <3>2. ASSUME NEW c \in Blocks PROVE picker'.num_peers[c] <= Requests(req, Live)[c]
      <4>1. Requests(req, Live)[c] \in Nat
        BY RequestsIs
      <4> QED
        BY <1>5, <1>12, <2>3, <4>1 DEF NInv, Bounded
    <3> QED
      BY <1>1, <3>1, <3>2 DEF Bounded, Requests
  <2>9. Downloading(picker)
    BY <1>2, <2>2, PieceInShape, PieceFields DEF Shape, Downloading
  <2>10. HashesExact'
    <3> SUFFICES ASSUME NEW k \in Outstanding({"hash"})'
                 PROVE  /\ Downloading(picker')
                        /\ \/ picker'.locked
                           \/ /\ IsPieceFinished(picker') /\ ~ picker'.passed
                              /\ Outstanding({"hash"})' = {k}
                              /\ jobs'[k].st # "queued" /\ jobs'[k].data = "good" => Holds'
      BY DEF HashesExact
    <3>1. /\ Skip(i, k) \in Outstanding({"hash"}) /\ k \in DOMAIN jobs'
          /\ jobs'[k] = jobs[Skip(i, k)]
      BY <1>4 DEF Outstanding
    <3>2. ~ picker.passed
      BY <1>12, <3>1 DEF NInv, PassedIsGood
    <3>3. B
      BY <2>3, <3>2
    <3>4. CASE picker.locked
      BY <3>3, <3>4
    <3>5. CASE ~ picker.locked
      <4>1. /\ IsPieceFinished(picker) /\ Outstanding({"hash"}) = {Skip(i, k)}
            /\ jobs[Skip(i, k)].st # "queued" /\ jobs[Skip(i, k)].data = "good" => Holds
        BY <1>12, <3>1, <3>5 DEF NInv, HashesExact
      <4>2. ASSUME NEW m \in Outstanding({"hash"})' PROVE m = k
        <5>1. Skip(i, m) = Skip(i, k) /\ m \in DOMAIN jobs'
          BY <1>4, <4>1 DEF Outstanding
        <5> QED
          BY <1>4, <3>1, <5>1
      <4> QED
        BY <1>9, <2>7, <3>1, <3>2, <3>3, <4>1, <4>2
    <3> QED
      BY <3>4, <3>5
  <2>11. PassedIsGood'
    <3>1. CASE B
      <4>1. Outstanding({"hash"}) = {} => Outstanding({"hash"})' = {}
        BY <1>4
      <4> QED
        BY <1>9, <1>12, <2>7, <3>1, <4>1 DEF NInv, PassedIsGood
    <3>2. CASE C
      BY <3>2 DEF PassedIsGood, PieceIn
    <3> QED
      BY <2>3, <3>1, <3>2
  <2>12. HaveIsGood'
    <3>1. CASE B
      BY <3>1 DEF HaveIsGood, Downloading
    <3>2. CASE C
      <4>1. Holds
        BY <1>12, <3>2 DEF NInv, PassedIsGood
      <4>2. ASSUME NEW c \in Blocks, NEW k \in Writes(c) PROVE jobs[k].st = "done"
        <5>1. k \in Outstanding({"write"}) /\ jobs[k].block = c
          BY DEF Writes
        <5>2. k = i
          BY <2>4, <3>2, <5>1
        <5> QED
          BY <1>1, <5>2
      <4>3. \A c \in Blocks : disk[c] = "good"
        BY <2>1, <4>1, <4>2, HoldsOnDisk
      <4> QED
        BY <1>1, <4>3 DEF HaveIsGood
    <3> QED
      BY <2>3, <3>1, <3>2
  <2> QED
    BY <2>6, <2>8, <2>10, <2>11, <2>12 DEF NInv
<1> QED
  BY <1>3, <1>4, <1>8, <1>10, <1>11, <1>12 DEF FInv

(* A handler that issues a job to clear the piece.                         *)
LEMMA HandlerIssued ==
    ASSUME FInv, NEW i \in DOMAIN jobs, NEW j, j \in JobObject, j.kind \in Clears, j.st = "queued",
           jobs' = Append(RemoveAt(jobs, i), j), UNCHANGED <<disk, failed>>
    PROVE  /\ jobs' \in Seq(JobObject) /\ JobShape'
           /\ Len(jobs') \in DOMAIN jobs' /\ jobs'[Len(jobs')] = j
           /\ \A k \in DOMAIN jobs' \ {Len(jobs')} :
                 Skip(i, k) \in DOMAIN jobs \ {i} /\ jobs'[k] = jobs[Skip(i, k)]
           /\ \A k, m \in DOMAIN jobs' \ {Len(jobs')} : Skip(i, k) = Skip(i, m) => k = m
           /\ \A k \in DOMAIN jobs \ {i} : \E m \in DOMAIN jobs' \ {Len(jobs')} : Skip(i, m) = k
           /\ \A b : Writes(b) \ {i} # {} => Writes(b)' # {}
<1> DEFINE js == RemoveAt(jobs, i)
<1>1. /\ js \in Seq(JobObject)
      /\ \A k \in DOMAIN js : Skip(i, k) \in DOMAIN jobs \ {i} /\ js[k] = jobs[Skip(i, k)]
      /\ \A k \in DOMAIN jobs \ {i} : \E m \in DOMAIN js : Skip(i, m) = k
      /\ \A k, m \in DOMAIN js : Skip(i, k) = Skip(i, m) => k = m
  BY RestOutstanding
<1> HIDE DEF js
<1>2. /\ jobs' \in Seq(JobObject) /\ Len(jobs') \in DOMAIN jobs' /\ jobs'[Len(jobs')] = j
      /\ DOMAIN js = DOMAIN jobs' \ {Len(jobs')}
      /\ \A k \in DOMAIN js : jobs'[k] = js[k]
  <2>1. Appended(js, j, jobs')
    BY <1>1, AppendIs DEF js
  <2> QED
    BY <1>1, <2>1 DEF Appended
<1>3. \A k \in DOMAIN jobs' \ {Len(jobs')} :
          Skip(i, k) \in DOMAIN jobs \ {i} /\ jobs'[k] = jobs[Skip(i, k)]
  BY <1>1, <1>2
<1>4. /\ \A k, m \in DOMAIN jobs' \ {Len(jobs')} : Skip(i, k) = Skip(i, m) => k = m
      /\ \A k \in DOMAIN jobs \ {i} : \E m \in DOMAIN jobs' \ {Len(jobs')} : Skip(i, m) = k
  BY <1>1, <1>2
<1>5. JobShape'
  <2>1. j.kind # "write" /\ j.st # "failed"
    BY DEF Clears
  <2> QED
    BY <1>2, <1>3, <2>1 DEF FInv, JobShape
<1>6. ASSUME NEW b, NEW k \in Writes(b) \ {i} PROVE Writes(b)' # {}
  <2>1. k \in DOMAIN jobs \ {i} /\ jobs[k].kind = "write" /\ jobs[k].block = b
    BY <1>6 DEF Writes, Outstanding
  <2>2. PICK m \in DOMAIN jobs' \ {Len(jobs')} : Skip(i, m) = k
    BY <1>4, <2>1
  <2>3. m \in Writes(b)'
    BY <1>3, <2>1, <2>2 DEF Writes, Outstanding
  <2> QED
    BY <2>3
<1> QED
  BY <1>2, <1>3, <1>4, <1>5, <1>6

(* cancel_block changes requests only, and asks for nothing.               *)
LEMMA CancelBlockIs ==
    ASSUME NEW pk, Shape(pk), NEW r, r \in Queues, NEW b, b \in Blocks
    PROVE  LET c == CancelBlock(pk, r, b)
           IN  RequestsOnly(pk, c.picker) /\ c.req \in Queues /\ NothingNew(r, c.req)
<1> DEFINE c == CancelBlock(pk, r, b)
           n == [d \in Blocks |-> IF d = b THEN Requests(r, {"queued"})[b] ELSE 0]
           s == [p \in Peers |-> [r[p] EXCEPT ![b] =
                        IF @ = "queued" THEN "none"
                        ELSE IF @ \in {"sent", "dead"} /\ p \in FastPeers THEN "dead"
                        ELSE "none"]]
<1>1. CASE ~ IsRequested(pk, b)
  <2>1. c.picker = pk /\ c.req = r
    BY <1>1 DEF CancelBlock
  <2> HIDE DEF c
  <2> QED
    BY <2>1, RequestsOnlySame DEF c, NothingNew
<1>2. CASE IsRequested(pk, b)
  <2>1. c = [picker |-> AbortDownload(pk, n), req |-> s]
    BY <1>2 DEF CancelBlock
  <2>2. n \in [Blocks -> Nat]
    <3>1. {p \in Peers : r[p][b] \in {"queued"}} \in SUBSET Peers
      OBVIOUS
    <3>2. Cardinality({p \in Peers : r[p][b] \in {"queued"}}) \in Nat
      BY <3>1, PeersFinite
    <3> QED
      BY <3>2 DEF Requests
  <2>3. s \in Queues /\ NothingNew(r, s)
    BY DEF Queues, NothingNew, Live
  <2> HIDE DEF n, s, c
  <2>4. c.picker = AbortDownload(pk, n) /\ c.req = s
    BY <2>1
  <2>5. RequestsOnly(pk, AbortDownload(pk, n))
    BY <2>2, AbortDownloadRequestsOnly
  <2> QED
    BY <2>3, <2>4, <2>5 DEF c
<1> QED
  BY <1>1, <1>2

(* set_upload_mode changes requests only, and asks for nothing.            *)
LEMMA EnterUploadModeIs ==
    ASSUME NEW pk, Shape(pk), NEW r, r \in Queues
    PROVE  LET u == EnterUploadMode(pk, r)
           IN  /\ RequestsOnly(pk, u.picker) /\ u.req \in Queues /\ NothingNew(r, u.req)
               /\ pk.state = "open" => u.picker.state = "open"
               /\ Exact(pk) /\ Bounded(pk, r) => Bounded(u.picker, u.req)
<1> DEFINE u == EnterUploadMode(pk, r)
           slow == Peers \ FastPeers
           q == Aborted(pk, r, Peers, {"queued"})
           unsent == Gone(r, Peers, {"queued"})
           q2 == Aborted(q, unsent, slow, {"sent"})
           s2 == Gone(unsent, slow, {"sent", "dead"})
<1>1. CASE upload_mode
  <2>1. u.picker = pk /\ u.req = r
    BY <1>1 DEF EnterUploadMode
  <2> HIDE DEF u
  <2> QED
    BY <2>1, RequestsOnlySame DEF u, NothingNew
<1>2. CASE ~ upload_mode
  <2>1. u = [picker |-> q2, req |-> s2]
    BY <1>2 DEF EnterUploadMode
  <2>2. /\ RequestsOnly(pk, q) /\ unsent \in Queues /\ NothingNew(r, unsent)
        /\ pk.state = "open" => q.state = "open"
        /\ Exact(pk) /\ Bounded(pk, r) => Bounded(q, unsent)
    BY AbortedIs
  <2>3. Shape(q) /\ (Exact(pk) => Exact(q))
    BY <2>2 DEF RequestsOnly
  <2>4. {"sent", "dead"} \intersect Live = {"sent"} \intersect Live /\ slow \in SUBSET Peers
    BY DEF Live
  <2> HIDE DEF q, unsent, slow, u
  <2>5. /\ RequestsOnly(q, q2) /\ s2 \in Queues /\ NothingNew(unsent, s2)
        /\ q.state = "open" => q2.state = "open"
        /\ Exact(q) /\ Bounded(q, unsent) => Bounded(q2, s2)
    BY <2>2, <2>3, <2>4, AbortedIs
  <2> HIDE DEF q2, s2
  <2>6. u.picker = q2 /\ u.req = s2
    BY <2>1
  <2>7. RequestsOnly(pk, q2)
    BY <2>2, <2>5, RequestsOnlyTwice
  <2>8. NothingNew(r, s2)
    BY <2>2, <2>5 DEF NothingNew
  <2> QED
    BY <2>2, <2>3, <2>5, <2>6, <2>7, <2>8 DEF u
<1> QED
  BY <1>1, <1>2

(* on_disk_write_complete, for a block that was not written.               *)
LEMMA OnDiskWriteErrorKeeps ==
    ASSUME FInv, NEW i \in DOMAIN jobs, OnDiskWriteError(i)
    PROVE  FInv' /\ (NInv /\ ~ Forgets => NInv') /\ NothingNew(req, req')
<1> DEFINE b == jobs[i].block
           c == CancelBlock(picker, req, b)
           w == WriteFailed(c.picker, b)
           u == EnterUploadMode(w, c.req)
           j == Job("fail_sync", "all", "none")
<1>1. /\ jobs[i].kind = "write" /\ jobs[i].st = "failed"
      /\ picker' = u.picker /\ req' = u.req /\ jobs' = Append(RemoveAt(jobs, i), j)
      /\ upload_mode' = TRUE /\ UNCHANGED <<disk, announced, failed>>
  BY DEF OnDiskWriteError, Answered
<1>2. Shape(picker) /\ req \in Queues /\ b \in Blocks /\ failed > 0 /\ failed \in Nat
  BY <1>1 DEF FInv, JobShape, Types
<1>3. RequestsOnly(picker, c.picker) /\ c.req \in Queues /\ NothingNew(req, c.req)
  BY <1>2, CancelBlockIs
<1>14. picker.block[b] = "writing" => c.picker = picker /\ c.req = req
  BY DEF CancelBlock, IsRequested
<1> HIDE DEF b, c
<1>4. Shape(c.picker)
  BY <1>3 DEF RequestsOnly
<1>5. /\ Shape(w) /\ w.block[b] # "writing"
      /\ \A d \in Blocks : w.block[d] \in {"writing", "finished"} => w.block[d] = c.picker.block[d]
  BY <1>2, <1>4, WriteFailedIs
<1>15. c.picker.block[b] = "writing" =>
          /\ Exact(c.picker) => Exact(w)
          /\ \A d \in Blocks : w.num_peers[d] = c.picker.num_peers[d] \/ w.num_peers[d] = 0
          /\ \/ w = Open
             \/ /\ Downloading(w) /\ w.locked /\ ~ w.passed
                /\ \A d \in Blocks \ {b} : w.block[d] = c.picker.block[d]
  BY <1>2, <1>4, WriteFailedIs
<1> HIDE DEF w
<1>6. /\ RequestsOnly(w, u.picker) /\ u.req \in Queues /\ NothingNew(c.req, u.req)
      /\ w.state = "open" => u.picker.state = "open"
      /\ Exact(w) /\ Bounded(w, c.req) => Bounded(u.picker, u.req)
  BY <1>3, <1>5, EnterUploadModeIs
<1> HIDE DEF u
<1>7. /\ Shape(picker') /\ req' \in Queues /\ NothingNew(req, req')
      /\ picker'.block[b] # "writing"
      /\ \A d \in Blocks : picker'.block[d] \in {"writing", "finished"} => picker'.block[d] = picker.block[d]
  BY <1>1, <1>2, <1>3, <1>5, <1>6 DEF RequestsOnly, NothingNew
<1>8. j \in JobObject /\ j.kind = "fail_sync" /\ j.st = "queued"
  BY JobIs
<1> HIDE DEF j
<1>9. j.kind \in Clears
  BY <1>8 DEF Clears
<1>10. /\ jobs' \in Seq(JobObject) /\ JobShape'
       /\ \A d : Writes(d) \ {i} # {} => Writes(d)' # {}
       /\ jobs'[Len(jobs')] = j
       /\ \A k \in DOMAIN jobs' \ {Len(jobs')} :
             Skip(i, k) \in DOMAIN jobs \ {i} /\ jobs'[k] = jobs[Skip(i, k)]
       /\ \A k, m \in DOMAIN jobs' \ {Len(jobs')} : Skip(i, k) = Skip(i, m) => k = m
  BY <1>1, <1>8, <1>9, HandlerIssued
<1>11. Types'
  BY <1>1, <1>7, <1>10 DEF FInv, Types
<1>12. WrittenBlocks'
  <2>1. ASSUME NEW d \in Blocks, picker'.block[d] = "writing" PROVE Writes(d)' # {}
    <3>1. d # b /\ Writes(d) # {}
      BY <1>7, <2>1 DEF FInv, WrittenBlocks
    <3>2. i \notin Writes(d)
      BY <3>1 DEF Writes, b
    <3>3. Writes(d) \ {i} # {}
      BY <3>1, <3>2
    <3> QED
      BY <1>10, <3>3
  <2>2. ASSUME NEW d \in Blocks, picker'.block[d] = "finished" PROVE disk'[d] # "none"
    BY <1>1, <1>7, <2>2 DEF FInv, WrittenBlocks
  <2> QED
    BY <2>1, <2>2 DEF WrittenBlocks
<1>13. Deciding'
  BY <1>1 DEF Deciding
<1>16. ASSUME NInv, ~ Forgets PROVE NInv'
  <2>1. WritesExact /\ i \in Outstanding({"write"}) /\ Exact(picker) /\ Bounded(picker, req)
    BY <1>1, <1>16 DEF NInv, Outstanding
  <2>2. picker.block[b] = "writing" /\ Downloading(picker)
    <3>1. picker.block[b] = "writing"
      BY <2>1 DEF WritesExact, b
    <3> QED
      BY <1>2, <3>1, PieceInShape, PieceFields DEF Shape
  <2>3. c.picker = picker /\ c.req = req
    BY <1>14, <2>2
  <2>4. /\ Exact(w) /\ \A d \in Blocks : w.num_peers[d] = picker.num_peers[d] \/ w.num_peers[d] = 0
        /\ \/ w = Open
           \/ /\ Downloading(w) /\ w.locked /\ ~ w.passed
              /\ \A d \in Blocks \ {b} : w.block[d] = picker.block[d]
    BY <1>15, <2>1, <2>2, <2>3
  <2>5. Bounded(w, req)
    <3>1. \A d \in Blocks : Requests(req, Live)[d] \in Nat
      BY RequestsIs
    <3> QED
      BY <2>1, <2>4, <3>1 DEF Bounded
  <2>6. Exact(picker)' /\ Bounded(picker, req)'
    <3>1. Exact(picker') /\ Bounded(picker', req')
      BY <1>1, <1>6, <2>3, <2>4, <2>5 DEF RequestsOnly
    <3> QED
      BY <3>1 DEF Bounded, Requests
  <2>7. CASE picker'.state = "open"
    <3>1. Outstanding({"write"})' = {} /\ Outstanding({"hash"})' = {}
      BY <1>16, <2>2, <2>7, DroppedIdle DEF EntryDropped
    <3>2. ~ picker'.passed
      BY <1>7, <2>7 DEF Shape, Downloading, PieceIn
    <3>3. WritesExact' /\ HashesExact' /\ PassedIsGood'
      BY <3>1, <3>2, IdleHolds
    <3> QED
      BY <2>6, <2>7, <3>3 DEF NInv, HaveIsGood
  <2>8. CASE picker'.state # "open"
    <3>1. w # Open
      BY <1>1, <1>6, <2>8 DEF Open, PieceIn
    <3>2. /\ Downloading(w) /\ w.locked /\ ~ w.passed
          /\ \A d \in Blocks \ {b} : w.block[d] = picker.block[d]
      BY <2>4, <3>1
    <3>3. Downloading(picker') /\ picker'.locked /\ ~ picker'.passed
      BY <1>1, <1>6, <2>8, <3>2 DEF RequestsOnly, SameFlags, Downloading
    <3>4. \A d \in Blocks \ {b} : picker.block[d] = "writing" => picker'.block[d] = "writing"
      BY <1>1, <1>6, <3>2 DEF RequestsOnly
    <3>5. \A k \in Outstanding({"write"})' :
              /\ Skip(i, k) \in Outstanding({"write"}) \ {i} /\ jobs'[k].block = jobs[Skip(i, k)].block
              /\ k \in DOMAIN jobs' \ {Len(jobs')} /\ jobs'[k].block \in Blocks
      <4>1. \A k \in Outstanding({"write"})' : k \in DOMAIN jobs' \ {Len(jobs')} /\ jobs'[k].kind = "write"
        BY <1>8, <1>10 DEF Outstanding
      <4>2. \A k \in Outstanding({"write"})' : jobs'[k] = jobs[Skip(i, k)] /\ Skip(i, k) \in DOMAIN jobs \ {i}
        BY <1>10, <4>1
      <4> QED
        BY <1>10, <4>1, <4>2 DEF Outstanding, JobShape
    <3>6. ASSUME NEW k \in Outstanding({"write"})' PROVE picker'.block[jobs'[k].block] = "writing"
      <4>1. jobs'[k].block # b /\ picker.block[jobs'[k].block] = "writing"
        BY <2>1, <3>5 DEF WritesExact, b
      <4> QED
        BY <3>4, <3>5, <4>1
    <3>7. ASSUME NEW k \in Outstanding({"write"})', NEW m \in Outstanding({"write"})',
                 jobs'[m].block = jobs'[k].block
          PROVE  m = k
      <4>1. Skip(i, m) = Skip(i, k)
        BY <2>1, <3>5, <3>7 DEF WritesExact
      <4> QED
        BY <1>10, <3>5, <4>1
    <3>8. WritesExact'
      BY <3>6, <3>7 DEF WritesExact
    <3>9. HashesExact' /\ PassedIsGood' /\ HaveIsGood'
      BY <3>3 DEF HashesExact, PassedIsGood, HaveIsGood, Downloading
    <3> QED
      BY <2>6, <3>8, <3>9 DEF NInv
  <2> QED
    BY <2>7, <2>8
<1> QED
  BY <1>1, <1>2, <1>7, <1>10, <1>11, <1>12, <1>13, <1>16 DEF FInv

(* completed_hash_job leaves a piece as complete as it was.                *)
LEMMA CompletedIsAsFinished ==
    ASSUME NEW pk, Shape(pk)
    PROVE  IsPieceFinished(CompletedHashJob(pk)) <=> IsPieceFinished(pk)
<1> DEFINE h == CompletedHashJob(pk)
<1>1. h.state = pk.state /\ h.writing = pk.writing /\ h.finished = pk.finished
  BY CompletedHashJobIs
<1> HIDE DEF h
<1> QED
  BY <1>1 DEF IsPieceFinished, Downloading, h

(* on_piece_verified, for a piece that is no longer complete: only upload  *)
(* mode can have come between.                                             *)
LEMMA OnPieceVerifiedLateKeeps ==
    ASSUME FInv, NEW i \in DOMAIN jobs, OnPieceVerifiedLate(i)
    PROVE  FInv' /\ (NInv /\ ~ Forgets => NInv')
<1>1. /\ jobs[i].kind = "hash" /\ jobs' = RemoveAt(jobs, i)
      /\ ~ IsPieceFinished(CompletedHashJob(picker)) /\ picker' = CompletedHashJob(picker)
      /\ UNCHANGED <<req, disk, upload_mode, announced, failed>>
  BY DEF OnPieceVerifiedLate, Verified, Answered
<1>2. Shape(picker) /\ ~ IsPieceFinished(picker)
  BY <1>1, CompletedIsAsFinished DEF FInv
<1>3. upload_mode
  BY <1>1, <1>2 DEF FInv, Deciding, Outstanding
<1>4. /\ Shape(picker') /\ picker'.block = picker.block
      /\ Exact(picker) => Exact(picker')
      /\ picker'.num_peers = picker.num_peers /\ picker'.state = picker.state
  BY <1>1, <1>2, CompletedHashJobIs
<1>10. picker'.locked = picker.locked /\ picker'.passed = picker.passed
  BY <1>1, <1>2, CompletedHashJobIs
<1>5. /\ jobs' \in Seq(JobObject) /\ JobShape'
      /\ \A b : Writes(b) \ {i} # {} => Writes(b)' # {}
  BY <1>1, HandlerCalled
<1>6. \A b : i \notin Writes(b)
  BY <1>1 DEF Writes, Outstanding
<1>7. WrittenBlocks'
  BY <1>1, <1>4, <1>5, <1>6 DEF FInv, WrittenBlocks
<1>8. Types' /\ Deciding'
  BY <1>1, <1>3, <1>5 DEF FInv, Types, Deciding
<1>9. ASSUME NInv PROVE NInv'
  <2>1. i \in Outstanding({"hash"}) /\ WritesExact
    BY <1>1, <1>9 DEF NInv, Outstanding
  <2>2. Downloading(picker') /\ picker'.locked
    BY <1>2, <1>4, <1>9, <1>10, <2>1 DEF NInv, HashesExact, Downloading
  <2>3. ~ picker'.passed
    BY <1>9, <1>10, <2>1 DEF NInv, PassedIsGood
  <2>4. WritesExact'
    <3>1. \A k \in Outstanding({"write"})' :
              /\ Skip(i, k) \in Outstanding({"write"}) /\ jobs'[k].block = jobs[Skip(i, k)].block
              /\ k \in DOMAIN jobs'
      BY <1>1, HandlerCalled DEF Outstanding
    <3>2. \A k, m \in DOMAIN jobs' : Skip(i, k) = Skip(i, m) => k = m
      BY <1>1, HandlerCalled
    <3> QED
      BY <1>4, <2>1, <3>1, <3>2 DEF WritesExact
  <2>5. Exact(picker)' /\ Bounded(picker, req)'
    BY <1>1, <1>4, <1>9 DEF NInv, Bounded, Requests
  <2> QED
    BY <2>2, <2>3, <2>4, <2>5 DEF NInv, HashesExact, PassedIsGood, HaveIsGood, Downloading
<1> QED
  BY <1>4, <1>5, <1>7, <1>8, <1>9 DEF FInv

(* on_piece_verified, for a piece that passed: what is announced is on     *)
(* disk or will be when the writes that are outstanding are done.          *)
LEMMA OnPiecePassedKeeps ==
    ASSUME FInv, NEW i \in DOMAIN jobs, OnPiecePassed(i)
    PROVE  FInv' /\ (NInv /\ ~ Forgets => NInv')
<1> DEFINE h == CompletedHashJob(picker)
           D == /\ Downloading(h) /\ ~ h.locked /\ Downloading(picker') /\ picker'.passed
                /\ picker'.block = h.block /\ picker'.num_peers = h.num_peers
                /\ picker'.writing = h.writing /\ picker'.finished = h.finished
                /\ picker'.locked = h.locked /\ picker'.hashing = h.hashing
           H == /\ Downloading(h) /\ ~ h.locked /\ picker' = PieceIn("have")
                /\ \A b \in Blocks : h.block[b] = "finished"
<1>1. /\ jobs[i].kind = "hash" /\ jobs[i].st # "queued" /\ jobs[i].data = "good"
      /\ jobs' = RemoveAt(jobs, i) /\ IsPieceFinished(h) /\ picker' = PiecePassed(h)
      /\ announced' = TRUE /\ UNCHANGED <<req, disk, upload_mode, failed>>
  BY DEF OnPiecePassed, Verified, Answered
<1>2. Shape(picker) /\ IsPieceFinished(picker)
  BY <1>1, CompletedIsAsFinished DEF FInv
<1>3. /\ Shape(h) /\ (Exact(picker) => Exact(h))
      /\ h.block = picker.block /\ h.num_peers = picker.num_peers
      /\ h.writing = picker.writing /\ h.finished = picker.finished
      /\ h.state = picker.state
  BY <1>2, CompletedHashJobIs
<1>4. ~ h.hashing /\ h.locked = picker.locked /\ h.passed = picker.passed
  BY <1>2, CompletedHashJobIs
<1> HIDE DEF h
<1>5. /\ Shape(picker') /\ (Exact(h) => Exact(picker'))
      /\ (~ Downloading(h) /\ picker' = h) \/ (h.locked /\ picker' = h) \/ D \/ H
  BY <1>1, <1>3, PiecePassedIs
<1>6. /\ jobs' \in Seq(JobObject) /\ JobShape'
      /\ \A k \in DOMAIN jobs' : Skip(i, k) \in DOMAIN jobs \ {i} /\ jobs'[k] = jobs[Skip(i, k)]
      /\ \A k, m \in DOMAIN jobs' : Skip(i, k) = Skip(i, m) => k = m
      /\ \A b : Writes(b) \ {i} # {} => Writes(b)' # {}
  BY <1>1, HandlerCalled
<1>7. \A b : i \notin Writes(b)
  BY <1>1 DEF Writes, Outstanding
<1>8. \A b \in Blocks : PieceIn("have").block[b] = "none" /\ PieceIn("have").num_peers[b] = 0
  BY PieceInShape
<1>9. \A b \in Blocks : picker'.block[b] \in {picker.block[b], "none"}
  BY <1>3, <1>5, <1>8
<1>10. WrittenBlocks'
  <2>1. ASSUME NEW b \in Blocks, picker'.block[b] = "writing" PROVE Writes(b)' # {}
    BY <1>6, <1>7, <1>9, <2>1 DEF FInv, WrittenBlocks
  <2>2. ASSUME NEW b \in Blocks, picker'.block[b] = "finished" PROVE disk'[b] # "none"
    BY <1>1, <1>9, <2>2 DEF FInv, WrittenBlocks
  <2> QED
    BY <2>1, <2>2 DEF WrittenBlocks
<1>11. Types'
  BY <1>1, <1>6 DEF FInv, Types
<1>12. ~ upload_mode => /\ Outstanding({"hash"} \union Clears)' = {}
                        /\ Outstanding({"hash"})' = {} /\ Outstanding(Clears)' = {}
  BY <1>1, NothingLeft
<1>13. Deciding'
  BY <1>1, <1>12 DEF Deciding
<1>14. ASSUME NInv PROVE NInv'
  <2>1. i \in Outstanding({"hash"}) /\ WritesExact /\ HashesExact
    BY <1>1, <1>14 DEF NInv, Outstanding
  <2>2. Downloading(h) /\ ~ picker.passed
    BY <1>3, <1>14, <2>1 DEF NInv, HashesExact, PassedIsGood, Downloading
  <2>3. (h.locked /\ picker' = h) \/ D \/ H
    BY <1>5, <2>2
  <2>4. \A k \in Outstanding({"write"})' :
            /\ Skip(i, k) \in Outstanding({"write"}) /\ jobs'[k].block = jobs[Skip(i, k)].block
            /\ k \in DOMAIN jobs'
    BY <1>6 DEF Outstanding
  <2>5. H => Outstanding({"write"}) = {}
    BY <1>3, <2>1 DEF WritesExact, Outstanding, FInv, JobShape
  <2>6. WritesExact'
    <3>1. CASE (h.locked /\ picker' = h) \/ D
      <4>1. \A k \in Outstanding({"write"})' : picker'.block[jobs'[k].block] = "writing"
        BY <1>3, <2>1, <2>4, <3>1 DEF WritesExact
      <4>2. ASSUME NEW k \in Outstanding({"write"})', NEW m \in Outstanding({"write"})',
                   jobs'[m].block = jobs'[k].block
            PROVE  m = k
        <5>1. Skip(i, m) = Skip(i, k)
          BY <2>1, <2>4, <4>2 DEF WritesExact
        <5> QED
          BY <1>6, <2>4, <5>1
      <4> QED
        BY <4>1, <4>2 DEF WritesExact
    <3>2. CASE H
      BY <2>4, <2>5, <3>2 DEF WritesExact
    <3> QED
      BY <2>3, <3>1, <3>2
  <2>7. Holds => Holds'
    BY <1>1, <1>11, <2>1, <2>6, HoldsByOthers
  <2>8. Exact(picker)' /\ Bounded(picker, req)'
    <3>1. Exact(picker')
      BY <1>3, <1>5, <1>14 DEF NInv
    <3>2. ASSUME NEW c \in Blocks PROVE picker'.num_peers[c] <= Requests(req, Live)[c]
      <4>1. Requests(req, Live)[c] \in Nat
        BY RequestsIs
      <4> QED
        BY <1>3, <1>8, <1>14, <2>3, <4>1 DEF NInv, Bounded
    <3> QED
      BY <1>1, <3>1, <3>2 DEF Bounded, Requests
  <2>9. CASE h.locked /\ picker' = h
    BY <1>4, <2>2, <2>6, <2>8, <2>9 DEF NInv, HashesExact, PassedIsGood, HaveIsGood, Downloading
  <2>10. CASE D \/ H
    <3>1. ~ picker.locked
      BY <1>4, <2>10
    <3>2. Outstanding({"hash"}) = {i} /\ Holds
      BY <1>1, <2>1, <3>1 DEF HashesExact
    <3>3. Outstanding({"hash"})' = {}
      <4>1. \A k \in Outstanding({"hash"})' : Skip(i, k) \in Outstanding({"hash"}) \ {i}
        BY <1>1, HandlerCalled
      <4> QED
        BY <3>2, <4>1
    <3>4. HashesExact'
      BY <3>3 DEF HashesExact
    <3>5. CASE D
      <4>1. IsPieceFinished(picker')
        BY <1>2, <1>3, <2>2, <3>5 DEF IsPieceFinished, Downloading
      <4>2. ~ picker'.locked
        BY <3>5
      <4>3. PassedIsGood'
        BY <2>7, <3>2, <3>3, <4>1, <4>2 DEF PassedIsGood
      <4>4. HaveIsGood'
        BY <3>5 DEF HaveIsGood, Downloading
      <4> QED
        BY <2>6, <2>8, <3>4, <4>3, <4>4 DEF NInv
    <3>6. CASE H
      <4>1. PassedIsGood'
        BY <3>6 DEF PassedIsGood, PieceIn
      <4>2. \A b \in Blocks : Writes(b) = {}
        BY <2>5, <3>6 DEF Writes
      <4>3. \A b \in Blocks : disk[b] = "good"
        BY <2>1, <3>2, <4>2, HoldsOnDisk
      <4>4. HaveIsGood'
        BY <1>1, <4>3 DEF HaveIsGood
      <4> QED
        BY <2>6, <2>8, <3>4, <4>1, <4>4 DEF NInv
    <3> QED
      BY <2>10, <3>5, <3>6
  <2> QED
    BY <2>3, <2>9, <2>10
<1> QED
  BY <1>5, <1>6, <1>10, <1>11, <1>13, <1>14 DEF FInv

(* on_piece_verified, for a piece that failed: it stays complete, and      *)
(* locked, until the job is answered that clears it.                       *)
LEMMA OnPieceFailedKeeps ==
    ASSUME FInv, NEW i \in DOMAIN jobs, OnPieceFailed(i)
    PROVE  FInv' /\ (NInv => NInv') /\ NothingNew(req, req')
<1> DEFINE h == CompletedHashJob(picker)
           j == Job("sync", "all", "none")
           last == Len(jobs')
<1>1. /\ jobs[i].kind = "hash" /\ IsPieceFinished(h)
      /\ jobs' = Append(RemoveAt(jobs, i), j)
      /\ UNCHANGED <<disk, upload_mode, announced, failed>>
  BY DEF OnPieceFailed, Answered
<1>2. PICK banned \in SUBSET Peers :
          /\ picker' = LockPiece(Aborted(h, req, banned, Live))
          /\ req' = Gone(req, banned, Live \union {"dead"})
  BY DEF OnPieceFailed
<1> DEFINE q == Aborted(h, req, banned, Live)
<1>3. Shape(picker) /\ req \in Queues /\ IsPieceFinished(picker)
  BY <1>1, CompletedIsAsFinished DEF FInv, Types
<1>4. /\ Shape(h) /\ (Exact(picker) => Exact(h))
      /\ h.block = picker.block /\ h.num_peers = picker.num_peers /\ h.state = picker.state
  BY <1>3, CompletedHashJobIs
<1>5. ~ h.hashing
  BY <1>3, CompletedHashJobIs
<1> HIDE DEF h
<1>6. /\ RequestsOnly(h, q) /\ req' \in Queues /\ NothingNew(req, req')
      /\ Exact(h) /\ Bounded(h, req) => Bounded(q, req')
  <2>1. (Live \union {"dead"}) \intersect Live = Live \intersect Live
    OBVIOUS
  <2> QED
    BY <1>2, <1>3, <1>4, <2>1, AbortedIs
<1> HIDE DEF q
<1>7. Shape(q) /\ (Exact(h) => Exact(q)) /\ IsPieceFinished(q) /\ (Downloading(h) => Downloading(q))
  BY <1>1, <1>6, StaysComplete DEF RequestsOnly
<1>8. ~ q.hashing
  BY <1>5, <1>6 DEF RequestsOnly
<1>9. /\ Shape(picker') /\ (Exact(q) => Exact(picker'))
      /\ picker'.block = q.block /\ picker'.num_peers = q.num_peers
      /\ picker'.writing = q.writing /\ picker'.finished = q.finished /\ picker'.state = q.state
  BY <1>2, <1>7, LockPieceIs DEF q
<1>10. ~ picker'.hashing /\ (Downloading(q) => picker'.locked /\ ~ picker'.passed)
  BY <1>2, <1>7, <1>8, LockPieceIs DEF q
<1>11. \A b \in Blocks : /\ picker'.block[b] \in {"writing", "finished"} => picker'.block[b] = picker.block[b]
                         /\ picker.block[b] \in {"writing", "finished"} => picker'.block[b] = picker.block[b]
  BY <1>4, <1>6, <1>9 DEF RequestsOnly
<1>12. j \in JobObject /\ j.kind = "sync" /\ j.st = "queued" /\ j.kind \in Clears
  <2>1. j \in JobObject /\ j.kind = "sync" /\ j.st = "queued"
    BY JobIs
  <2> QED
    BY <2>1 DEF Clears
<1> HIDE DEF j
<1>13. /\ jobs' \in Seq(JobObject) /\ JobShape'
       /\ last \in DOMAIN jobs' /\ jobs'[last] = j
       /\ \A k \in DOMAIN jobs' \ {last} :
             Skip(i, k) \in DOMAIN jobs \ {i} /\ jobs'[k] = jobs[Skip(i, k)]
       /\ \A k, m \in DOMAIN jobs' \ {last} : Skip(i, k) = Skip(i, m) => k = m
       /\ \A b : Writes(b) \ {i} # {} => Writes(b)' # {}
  BY <1>1, <1>12, HandlerIssued
<1> HIDE DEF last
<1>14. \A b : i \notin Writes(b)
  BY <1>1 DEF Writes, Outstanding
<1>15. WrittenBlocks'
  <2>1. ASSUME NEW b \in Blocks, picker'.block[b] = "writing" PROVE Writes(b)' # {}
    BY <1>11, <1>13, <1>14, <2>1 DEF FInv, WrittenBlocks
  <2>2. ASSUME NEW b \in Blocks, picker'.block[b] = "finished" PROVE disk'[b] # "none"
    BY <1>1, <1>11, <2>2 DEF FInv, WrittenBlocks
  <2> QED
    BY <2>1, <2>2 DEF WrittenBlocks
<1>16. Types'
  BY <1>1, <1>6, <1>13 DEF FInv, Types
<1>17. ASSUME ~ upload_mode
       PROVE  /\ Downloading(picker') /\ IsPieceFinished(picker') /\ picker'.locked /\ ~ picker'.passed
              /\ \A k \in DOMAIN jobs' \ {last} : jobs'[k].kind \notin {"hash"} \union Clears
  <2>1. i \in Outstanding({"hash"}) /\ i \in Outstanding({"hash"} \union Clears)
    BY <1>1 DEF Outstanding
  <2>2. Downloading(picker) /\ \A k \in Outstanding({"hash"} \union Clears) : k = i
    BY <1>17, <2>1 DEF FInv, Deciding
  <2>3. Downloading(q)
    BY <1>4, <1>7, <2>2 DEF Downloading
  <2>4. Downloading(picker') /\ IsPieceFinished(picker')
    BY <1>7, <1>9, <2>3 DEF Downloading, IsPieceFinished
  <2>5. \A k \in DOMAIN jobs \ {i} : jobs[k].kind \notin {"hash"} \union Clears
    BY <2>2 DEF Outstanding
  <2> QED
    BY <1>10, <1>13, <2>3, <2>4, <2>5
<1>18. ASSUME ~ upload_mode
       PROVE  /\ Outstanding({"hash"})' = {} /\ Outstanding(Clears)' = {last}
              /\ \A k \in Outstanding({"hash"} \union Clears)' : k = last
  <2>1. "sync" \notin {"hash"}
    OBVIOUS
  <2>2. \A k \in DOMAIN jobs' \ {last} : jobs'[k].kind \notin {"hash"} /\ jobs'[k].kind \notin Clears
    BY <1>17, <1>18
  <2>3. jobs'[last].kind \notin {"hash"} /\ jobs'[last].kind \in Clears
    BY <1>12, <1>13, <2>1
  <2>4. Outstanding({"hash"})' = {}
    BY <2>2, <2>3 DEF Outstanding
  <2>5. Outstanding(Clears)' = {last}
    BY <1>13, <2>2, <2>3 DEF Outstanding
  <2>6. \A k \in Outstanding({"hash"} \union Clears)' : k = last
    BY <2>2 DEF Outstanding
  <2> QED
    BY <2>4, <2>5, <2>6
<1>19. Deciding'
  BY <1>1, <1>17, <1>18 DEF Deciding
<1>20. ASSUME NInv PROVE NInv'
  <2>1. i \in Outstanding({"hash"}) /\ WritesExact
    BY <1>1, <1>20 DEF NInv, Outstanding
  <2>2. Downloading(picker') /\ picker'.locked /\ ~ picker'.passed
    <3>1. Downloading(q)
      BY <1>4, <1>7, <1>20, <2>1 DEF NInv, HashesExact, Downloading
    <3> QED
      BY <1>9, <1>10, <3>1 DEF Downloading
  <2>3. Exact(picker')
    BY <1>4, <1>7, <1>9, <1>20 DEF NInv
  <2>4. Bounded(picker', req')
    BY <1>4, <1>6, <1>9, <1>20 DEF NInv, Bounded
  <2>5. \A k \in Outstanding({"write"})' :
            /\ Skip(i, k) \in Outstanding({"write"}) /\ jobs'[k].block = jobs[Skip(i, k)].block
            /\ k \in DOMAIN jobs' \ {last} /\ jobs'[k].block \in Blocks
    <3>1. j.kind \notin {"write"}
      BY <1>12
    <3>2. \A k \in Outstanding({"write"})' : k \in DOMAIN jobs' \ {last} /\ jobs'[k].kind = "write"
      BY <1>13, <3>1 DEF Outstanding
    <3>3. \A k \in Outstanding({"write"})' : jobs'[k] = jobs[Skip(i, k)] /\ Skip(i, k) \in DOMAIN jobs
      BY <1>13, <3>2
    <3> QED
      BY <1>13, <3>2, <3>3 DEF Outstanding, JobShape
  <2>6. WritesExact'
    <3>1. \A k \in Outstanding({"write"})' : picker'.block[jobs'[k].block] = "writing"
      BY <1>11, <2>1, <2>5 DEF WritesExact
    <3>2. ASSUME NEW k \in Outstanding({"write"})', NEW m \in Outstanding({"write"})',
                 jobs'[m].block = jobs'[k].block
          PROVE  m = k
      <4>1. Skip(i, m) = Skip(i, k)
        BY <2>1, <2>5, <3>2 DEF WritesExact
      <4> QED
        BY <1>13, <2>5, <4>1
    <3> QED
      BY <3>1, <3>2 DEF WritesExact
  <2>8. HashesExact' /\ PassedIsGood' /\ HaveIsGood'
    BY <2>2 DEF HashesExact, PassedIsGood, HaveIsGood, Downloading
  <2>9. Bounded(picker, req)'
    BY <2>4 DEF Bounded, Requests
  <2> QED
    BY <2>3, <2>6, <2>8, <2>9 DEF NInv
<1> QED
  BY <1>6, <1>9, <1>13, <1>15, <1>16, <1>19, <1>20 DEF FInv

(* A piece that is not being downloaded has neither writes nor hashes      *)
(* outstanding, unless they were forgotten.                                *)
LEMMA NoEntryNoJobs ==
    ASSUME FInv, NInv, ~ Downloading(picker)
    PROVE  Outstanding({"write"}) = {} /\ Outstanding({"hash"}) = {}
<1>1. picker.state \in {"open", "downloading", "have"} /\ picker = PieceIn(picker.state)
  BY PieceFields DEF FInv, Shape
<1>2. \A b \in Blocks : picker.block[b] = "none"
  BY <1>1, PieceInShape
<1> QED
  BY <1>2 DEF NInv, WritesExact, HashesExact, FInv, JobShape, Outstanding

(* on_piece_sync: the piece starts over with what is requested of it and   *)
(* nothing else.                                                           *)
LEMMA OnPieceSyncKeeps ==
    ASSUME FInv, NEW i \in DOMAIN jobs, OnPieceSync(i)
    PROVE  FInv' /\ (NInv /\ ~ Forgets => NInv')
<1> DEFINE r == RestorePiece(picker)
           n == Requests(req, Live)
<1>1. /\ jobs[i].kind = "sync" /\ jobs' = RemoveAt(jobs, i) /\ picker' = MarkAsDownloading(r, n)
      /\ UNCHANGED <<req, disk, upload_mode, announced, failed>>
  BY DEF OnPieceSync, Answered
<1>2. Shape(picker) /\ n \in [Blocks -> Nat]
  BY RequestsIs DEF FInv
<1>3. /\ Shape(r) /\ Exact(r)
      /\ \A b \in Blocks : r.block[b] = "none" /\ r.num_peers[b] = 0
      /\ r.state = "have" <=> picker.state = "have"
  BY <1>2, RestorePieceIs
<1>4. ~ r.hashing /\ ~ r.locked /\ ~ r.passed
  BY <1>2, RestorePieceIs
<1> HIDE DEF r, n
<1>5. RequestsOnly(r, picker') /\ \A b \in Blocks : picker'.num_peers[b] <= r.num_peers[b] + n[b]
  BY <1>1, <1>2, <1>3, MarkAsDownloadingRequestsOnly, MarkAsDownloadingIs
<1>6. /\ Shape(picker') /\ Exact(picker')
      /\ \A b \in Blocks : picker'.block[b] \notin {"writing", "finished"}
      /\ picker'.state = "have" <=> picker.state = "have"
  BY <1>3, <1>5 DEF RequestsOnly
<1>7. ~ picker'.hashing /\ ~ picker'.locked /\ ~ picker'.passed
  BY <1>4, <1>5 DEF RequestsOnly
<1>8. jobs' \in Seq(JobObject) /\ JobShape' /\ Len(jobs') = Len(jobs) - 1
  BY <1>1, HandlerCalled
<1>9. Types' /\ WrittenBlocks'
  BY <1>1, <1>6, <1>8 DEF FInv, Types, WrittenBlocks
<1>10. ~ upload_mode => /\ Outstanding({"hash"} \union Clears)' = {}
                        /\ Outstanding({"hash"})' = {} /\ Outstanding(Clears)' = {}
  <2>1. jobs[i].kind \in {"hash"} \union Clears
    BY <1>1 DEF Clears
  <2> QED
    BY <1>1, <2>1, NothingLeft
<1>11. Deciding'
  BY <1>1, <1>10 DEF Deciding
<1>12. ASSUME NInv, ~ Forgets PROVE NInv'
  <2>1. Outstanding({"write"})' = {} /\ Outstanding({"hash"})' = {}
    <3>1. CASE Downloading(picker)
      <4>1. EntryDropped
        BY <1>1, <3>1 DEF EntryDropped, Clears
      <4> QED
        BY <1>12, <4>1, DroppedIdle
    <3>2. CASE ~ Downloading(picker)
      <4>1. Outstanding({"write"}) = {} /\ Outstanding({"hash"}) = {}
        BY <1>12, <3>2, NoEntryNoJobs
      <4> QED
        BY <1>1, <4>1, HandlerCalled
    <3> QED
      BY <3>1, <3>2
  <2>2. WritesExact' /\ HashesExact' /\ PassedIsGood'
    BY <1>7, <2>1, IdleHolds
  <2>10. Bounded(picker, req)'
    <3>1. ASSUME NEW b \in Blocks PROVE picker'.num_peers[b] <= Requests(req, Live)[b]
      <4>1. n[b] \in Nat /\ r.num_peers[b] = 0 /\ picker'.num_peers[b] <= r.num_peers[b] + n[b]
        BY <1>2, <1>3, <1>5
      <4>2. picker'.num_peers[b] \in Nat
        BY <1>6, PieceFields DEF Shape
      <4> QED
        BY <4>1, <4>2 DEF n
    <3> QED
      BY <1>1, <3>1 DEF Bounded, Requests
  <2>11. HaveIsGood'
    BY <1>1, <1>6, <1>12 DEF NInv, HaveIsGood
  <2> QED
    BY <1>6, <2>2, <2>10, <2>11 DEF NInv
<1> QED
  BY <1>6, <1>8, <1>9, <1>11, <1>12 DEF FInv

(* on_piece_fail_sync: the piece starts over, with nothing requested.      *)
LEMMA OnPieceFailSyncKeeps ==
    ASSUME FInv, NEW i \in DOMAIN jobs, OnPieceFailSync(i)
    PROVE  FInv' /\ (NInv /\ ~ Forgets => NInv')
<1>1. /\ jobs[i].kind = "fail_sync" /\ jobs' = RemoveAt(jobs, i) /\ picker' = RestorePiece(picker)
      /\ UNCHANGED <<req, disk, upload_mode, announced, failed>>
  BY DEF OnPieceFailSync, Answered
<1>2. /\ Shape(picker') /\ Exact(picker') /\ ~ picker'.passed
      /\ \A b \in Blocks : picker'.block[b] = "none" /\ picker'.num_peers[b] = 0
      /\ picker'.state = "have" <=> picker.state = "have"
  BY <1>1, RestorePieceIs DEF FInv
<1>3. jobs' \in Seq(JobObject) /\ JobShape'
  BY <1>1, HandlerCalled
<1>4. Types' /\ WrittenBlocks'
  BY <1>1, <1>2, <1>3 DEF FInv, Types, WrittenBlocks
<1>5. jobs[i].kind \in {"hash"} \union Clears /\ jobs[i].kind \in Clears
  BY <1>1 DEF Clears
<1>6. ~ upload_mode => /\ Outstanding({"hash"} \union Clears)' = {}
                       /\ Outstanding({"hash"})' = {} /\ Outstanding(Clears)' = {}
  BY <1>1, <1>5, NothingLeft
<1>7. Deciding'
  BY <1>1, <1>6 DEF Deciding
<1>8. ASSUME NInv, ~ Forgets PROVE NInv'
  <2>1. Outstanding({"write"})' = {} /\ Outstanding({"hash"})' = {}
    <3>1. CASE Downloading(picker)
      <4>1. EntryDropped
        BY <1>1, <1>5, <3>1 DEF EntryDropped
      <4> QED
        BY <1>8, <4>1, DroppedIdle
    <3>2. CASE ~ Downloading(picker)
      <4>1. Outstanding({"write"}) = {} /\ Outstanding({"hash"}) = {}
        BY <1>8, <3>2, NoEntryNoJobs
      <4> QED
        BY <1>1, <4>1, HandlerCalled
    <3> QED
      BY <3>1, <3>2
  <2>2. WritesExact' /\ HashesExact' /\ PassedIsGood'
    BY <1>2, <2>1, IdleHolds
  <2>3. Bounded(picker, req)'
    <3>1. \A b \in Blocks : Requests(req, Live)[b] \in Nat
      BY RequestsIs
    <3> QED
      BY <1>1, <1>2, <3>1 DEF Bounded, Requests
  <2>4. HaveIsGood'
    BY <1>1, <1>2, <1>8 DEF NInv, HaveIsGood
  <2> QED
    BY <1>2, <2>2, <2>3, <2>4 DEF NInv
<1> QED
  BY <1>2, <1>3, <1>4, <1>7, <1>8 DEF FInv

(* Leaving upload mode keeps the invariant.                                *)
LEMMA LeaveUploadModeKeeps ==
    ASSUME FInv, LeaveUploadMode
    PROVE  FInv' /\ (NInv => NInv')
<1>1. UNCHANGED <<picker, req, jobs, disk, announced, failed>> /\ upload_mode /\ upload_mode' = FALSE
  BY DEF LeaveUploadMode
<1>2. jobs = <<>>
  BY DEF LeaveUploadMode
<1>3. \A kinds : Outstanding(kinds)' = {}
  BY <1>1, <1>2 DEF Outstanding
<1>4. \A b : Writes(b)' = Writes(b)
  BY <1>1 DEF Writes, Outstanding
<1>5. Shape(picker)' /\ Types' /\ JobShape' /\ WrittenBlocks'
  BY <1>1, <1>4 DEF FInv, Types, JobShape, WrittenBlocks
<1>6. Deciding'
  BY <1>3 DEF Deciding
<1>7. ASSUME NInv PROVE NInv'
  <2>1. \A b : Found(b)' = Found(b)
    BY <1>1, FoundSame
  <2>2. WritesExact' /\ HashesExact'
    BY <1>3 DEF WritesExact, HashesExact
  <2>3. PassedIsGood'
    BY <1>1, <1>3, <1>4, <1>7, <2>1 DEF NInv, PassedIsGood, Holds
  <2>4. Exact(picker)' /\ Bounded(picker, req)' /\ HaveIsGood'
    BY <1>1, <1>7 DEF NInv, Bounded, Requests, HaveIsGood
  <2> QED
    BY <2>2, <2>3, <2>4 DEF NInv
<1> QED
  BY <1>5, <1>6, <1>7 DEF FInv
-----------------------------------------------------------------------------
(***************************************************************************)
(* The invariant and what follows from it.                                 *)
(***************************************************************************)
LEMMA InitHolds == Init => IInv
<1> SUFFICES ASSUME Init PROVE FInv /\ NInv
  BY FailureInvIs, EntryInvIs DEF IInv, Init
<1>1. Shape(picker) /\ Exact(picker) /\ \A b \in Blocks : picker.block[b] = "none" /\ picker.num_peers[b] = 0
  BY PieceInShape DEF Init, Open
<1>2. ~ picker.hashing /\ ~ picker.locked /\ ~ picker.passed /\ picker.state = "open"
  BY DEF Init, Open, PieceIn
<1>3. \A kinds : Outstanding(kinds) = {}
  BY DEF Init, Outstanding
<1>4. Types
  <2>1. req \in Queues
    BY DEF Init, Queues
  <2>2. jobs \in Seq(JobObject)
    BY EmptySeq DEF Init
  <2>3. disk \in [Blocks -> Data \union {"none"}]
    BY DEF Init
  <2>4. failed \in 0..MaxFailedWrites
    BY PeersAssumption DEF Init
  <2>5. upload_mode \in BOOLEAN /\ announced \in BOOLEAN
    BY DEF Init
  <2> QED
    BY <2>1, <2>2, <2>3, <2>4, <2>5 DEF Types
<1>5. JobShape
  BY DEF Init, JobShape
<1>6. WrittenBlocks /\ Deciding /\ WritesExact
  BY <1>1, <1>3 DEF WrittenBlocks, Deciding, WritesExact
<1>7. Bounded(picker, req)
  <2>1. \A b \in Blocks : Requests(req, Live)[b] \in Nat
    BY RequestsIs
  <2> QED
    BY <1>1, <2>1 DEF Bounded
<1>8. HashesExact /\ PassedIsGood /\ HaveIsGood
  BY <1>2, <1>3 DEF HashesExact, PassedIsGood, HaveIsGood
<1> QED
  BY <1>1, <1>4, <1>5, <1>6, <1>7, <1>8 DEF FInv, NInv

(* A handler of a disk job keeps the invariant.                            *)
LEMMA CallHandlerKeeps ==
    ASSUME FInv, NEW i \in DOMAIN jobs, CallHandler(i)
    PROVE  FInv' /\ (NInv /\ ~ Forgets => NInv')
<1>1. CASE OnDiskWriteComplete(i)
  BY <1>1, OnDiskWriteCompleteKeeps
<1>2. CASE OnDiskWriteError(i)
  BY <1>2, OnDiskWriteErrorKeeps
<1>3. CASE OnPieceVerifiedLate(i)
  BY <1>3, OnPieceVerifiedLateKeeps
<1>4. CASE OnPiecePassed(i)
  BY <1>4, OnPiecePassedKeeps
<1>5. CASE OnPieceFailed(i)
  BY <1>5, OnPieceFailedKeeps
<1>6. CASE OnPieceSync(i)
  BY <1>6, OnPieceSyncKeeps
<1>7. CASE OnPieceFailSync(i)
  BY <1>7, OnPieceFailSyncKeeps
<1> QED
  BY <1>1, <1>2, <1>3, <1>4, <1>5, <1>6, <1>7 DEF CallHandler

(* What a peer does keeps the invariant.                                   *)
LEMMA PeerStepKeeps ==
    ASSUME FInv, PeerStep
    PROVE  FInv' /\ (NInv /\ ~ Forgets => NInv')
<1>1. PICK p \in Peers : \/ IncomingChoke(p) \/ Disconnect(p)
                         \/ \E b \in Blocks :
                               \/ RequestBlock(p, b) \/ SendRequest(p, b)
                               \/ IncomingRejectRequest(p, b) \/ SnubPeer(p, b)
                               \/ \E d \in Data : IncomingPiece(p, b, d)
  BY DEF PeerStep
<1>2. CASE IncomingChoke(p)
  BY <1>2, IncomingChokeKeeps
<1>3. CASE Disconnect(p)
  BY <1>3, DisconnectKeeps
<1>4. ASSUME NEW b \in Blocks, RequestBlock(p, b) PROVE FInv' /\ (NInv /\ ~ Forgets => NInv')
  BY <1>4, RequestBlockKeeps
<1>5. ASSUME NEW b \in Blocks, SendRequest(p, b) PROVE FInv' /\ (NInv /\ ~ Forgets => NInv')
  BY <1>5, SendRequestKeeps
<1>6. ASSUME NEW b \in Blocks, IncomingRejectRequest(p, b)
      PROVE  FInv' /\ (NInv /\ ~ Forgets => NInv')
  BY <1>6, IncomingRejectRequestKeeps
<1>7. ASSUME NEW b \in Blocks, SnubPeer(p, b) PROVE FInv' /\ (NInv /\ ~ Forgets => NInv')
  BY <1>7, SnubPeerKeeps
<1>8. ASSUME NEW b \in Blocks, NEW d \in Data, IncomingPiece(p, b, d)
      PROVE  FInv' /\ (NInv /\ ~ Forgets => NInv')
  BY <1>8, IncomingPieceKeeps
<1> QED
  BY <1>1, <1>2, <1>3, <1>4, <1>5, <1>6, <1>7, <1>8

(* A step keeps the invariant.                                             *)
LEMMA StepKeeps ==
    ASSUME FInv, Step
    PROVE  FInv' /\ (NInv /\ ~ Forgets => NInv')
<1>1. CASE PeerStep
  BY <1>1, PeerStepKeeps
<1>2. CASE Disk
  BY <1>2, RunJobKeeps DEF Disk
<1>3. CASE Handlers
  BY <1>3, CallHandlerKeeps DEF Handlers
<1>4. CASE LeaveUploadMode
  BY <1>4, LeaveUploadModeKeeps
<1> QED
  BY <1>1, <1>2, <1>3, <1>4 DEF Step

(* What is forgotten stays forgotten.                                      *)
LEMMA NextKeeps == IInv /\ [Next]_vars => IInv'
<1> SUFFICES ASSUME FInv, forgotten \in BOOLEAN, ~ forgotten => NInv, [Next]_vars
             PROVE  FInv' /\ forgotten' \in BOOLEAN /\ (~ forgotten' => NInv')
  BY FailureInvIs, EntryInvIs DEF IInv
<1>1. CASE Next
  <2>1. Step /\ forgotten' = (forgotten \/ Forgets)
    BY <1>1 DEF Next
  <2>2. FInv' /\ (NInv /\ ~ Forgets => NInv')
    BY <2>1, StepKeeps
  <2>3. forgotten' \in BOOLEAN /\ (~ forgotten' => ~ forgotten /\ ~ Forgets)
    BY <2>1, Zenon
  <2> QED
    BY <2>2, <2>3
<1>2. CASE UNCHANGED vars
  <2>1. UNCHANGED <<picker, req, jobs, disk, upload_mode, announced, failed, forgotten>>
    BY <1>2 DEF vars
  <2>2. RequestsOnly(picker, picker') /\ req' \in Queues
    BY <2>1, RequestsOnlySame DEF FInv, Types
  <2>3. NInv => Bounded(picker', req')
    BY <2>1 DEF NInv
  <2>4. ASSUME NEW i \in DOMAIN jobs, jobs' = RemoveAt(jobs, i) PROVE FALSE
    <3>1. Len(jobs') = Len(jobs) - 1 /\ Len(jobs) \in Nat
      BY <2>1, <2>4, HandlerCalled, LenProperties DEF FInv, Types
    <3> QED
      BY <2>1, <3>1
  <2>5. ~ Forgets
    BY <2>1, <2>4 DEF Forgets, EntryDropped, Downloading
  <2> QED
    BY <2>1, <2>2, <2>3, <2>5, RequestStep
<1> QED
  BY <1>1, <1>2

(* The inductive invariant: whatever the peers do, in whatever order the   *)
(* disk runs the jobs and the event loop calls their handlers, and however *)
(* many writes fail, the counters of the piece are exact and at most one   *)
(* decision about it is under way; and as long as no entry of the picker   *)
(* is dropped with a write or hash job of it outstanding, the picker, the  *)
(* queues of the peers and the outstanding disk jobs agree.                *)
THEOREM PieceInvariant == Spec => []IInv
<1> QED
  BY InitHolds, NextKeeps, PTL DEF Spec

(* The blocks that piece_picker::is_piece_finished counts have each a      *)
(* write that is outstanding (mark_as_writing) or are on disk              *)
(* (mark_as_finished), for any number of blocks, peers, I/O threads and    *)
(* failed writes.                                                          *)
THEOREM CompleteIsOnItsWay == Spec => []WritingIsWritten
<1>1. IInv => WritingIsWritten
  BY DEF IInv, FailureInv
<1> QED
  BY <1>1, PieceInvariant, PTL

(* Only request_a_block asks, and neither in upload mode nor for a block   *)
(* of a piece that is locked and complete.                                 *)
LEMMA AskingIsRequestBlock ==
    ASSUME FInv, NEW p \in Peers, NEW b \in Blocks, RequestBlock(p, b)
    PROVE  Outstanding(Clears) = {}
<1> SUFFICES ASSUME Outstanding(Clears) # {} PROVE FALSE
  OBVIOUS
<1>1. ~ upload_mode /\ (b \in FreeBlocks(picker) \/ b \in BusyBlocks(picker))
  BY DEF RequestBlock
<1>2. Shape(picker) /\ Downloading(picker) /\ IsPieceFinished(picker) /\ picker.locked
  BY <1>1 DEF FInv, Deciding
<1>3. picker.block[b] \in {"writing", "finished"}
  BY <1>2, CompleteBlocks
<1>4. b \notin FreeBlocks(picker)
  BY <1>2 DEF FreeBlocks
<1>5. b \notin BusyBlocks(picker)
  BY <1>3 DEF BusyBlocks
<1> QED
  BY <1>1, <1>4, <1>5

(* No step of a peer asks for blocks while the piece is cleared.           *)
LEMMA PeerStepAsks ==
    ASSUME FInv, PeerStep, Outstanding(Clears) # {}
    PROVE  NothingNew(req, req')
<1>1. PICK p \in Peers : \/ IncomingChoke(p) \/ Disconnect(p)
                         \/ \E b \in Blocks :
                               \/ RequestBlock(p, b) \/ SendRequest(p, b)
                               \/ IncomingRejectRequest(p, b) \/ SnubPeer(p, b)
                               \/ \E d \in Data : IncomingPiece(p, b, d)
  BY DEF PeerStep
<1>2. req \in Queues
  BY DEF FInv, Types
<1>3. CASE IncomingChoke(p)
  BY <1>3 DEF IncomingChoke, Gone, NothingNew
<1>4. CASE Disconnect(p)
  BY <1>4 DEF Disconnect, Gone, NothingNew
<1>5. ASSUME NEW b \in Blocks, SendRequest(p, b) PROVE NothingNew(req, req')
  BY <1>2, <1>5 DEF SendRequest, Queues, NothingNew
<1>6. ASSUME NEW b \in Blocks, IncomingRejectRequest(p, b) PROVE NothingNew(req, req')
  BY <1>2, <1>6 DEF IncomingRejectRequest, Queues, NothingNew
<1>7. ASSUME NEW b \in Blocks, SnubPeer(p, b) PROVE NothingNew(req, req')
  <2>1. /\ req[p][b] = "sent"
        /\ \E v : req' = [Gone(req, {p}, {"queued"}) EXCEPT ![p][b] = v]
    BY <1>7 DEF SnubPeer
  <2> QED
    BY <1>2, <2>1 DEF Gone, Queues, NothingNew
<1>8. ASSUME NEW b \in Blocks, NEW d \in Data, IncomingPiece(p, b, d) PROVE NothingNew(req, req')
  <2>1. req' = Put(req, p, b, "none")
    <3>1. CASE IsDownloaded(picker, b)
      BY <1>8, <3>1 DEF IncomingPiece, Put
    <3>2. CASE ~ IsDownloaded(picker, b)
      BY <1>8, <3>2, NewPieceIs
    <3> QED
      BY <3>1, <3>2
  <2> QED
    BY <1>2, <2>1 DEF Put, Queues, NothingNew
<1>9. ~ \E b \in Blocks : RequestBlock(p, b)
  BY AskingIsRequestBlock
<1> QED
  BY <1>1, <1>3, <1>4, <1>5, <1>6, <1>7, <1>8, <1>9

(* No step at all does.                                                    *)
LEMMA NextAsks ==
    ASSUME FInv, Next, Outstanding(Clears) # {}
    PROVE  NothingNew(req, req')
<1>1. CASE PeerStep
  BY <1>1, PeerStepAsks
<1>2. CASE Disk
  BY <1>2 DEF Disk, RunJob, NothingNew
<1>3. CASE Handlers
  <2>1. PICK i \in DOMAIN jobs : CallHandler(i)
    BY <1>3 DEF Handlers
  <2>2. CASE OnDiskWriteError(i)
    BY <2>2, OnDiskWriteErrorKeeps
  <2>3. CASE OnPieceFailed(i)
    BY <2>3, OnPieceFailedKeeps
  <2>4. CASE \/ OnDiskWriteComplete(i) \/ OnPieceVerifiedLate(i) \/ OnPiecePassed(i)
             \/ OnPieceSync(i) \/ OnPieceFailSync(i)
    BY <2>4 DEF OnDiskWriteComplete, OnPieceVerifiedLate, OnPiecePassed, OnPieceSync, OnPieceFailSync,
                NothingNew
  <2> QED
    BY <2>1, <2>2, <2>3, <2>4 DEF CallHandler
<1>4. CASE LeaveUploadMode
  BY <1>4 DEF LeaveUploadMode, NothingNew
<1> QED
  BY <1>1, <1>2, <1>3, <1>4 DEF Next, Step

(* The lock of piece_failed, or the upload mode of handle_disk_error, keep *)
(* every peer from asking for a block of the piece while a clear_piece job *)
(* is outstanding, even though write_failed may drop the lock.             *)
THEOREM ClearingIsUndisturbed == Spec => NoRequestsWhileClearing
<1>1. IInv /\ [Next]_vars =>
          [Outstanding(Clears) # {} =>
              \A p \in Peers, b \in Blocks : req[p][b] = "none" => req'[p][b] = "none"]_vars
  <2> SUFFICES ASSUME FInv, Next, Outstanding(Clears) # {}
               PROVE  \A p \in Peers, b \in Blocks : req[p][b] = "none" => req'[p][b] = "none"
    BY FailureInvIs DEF IInv
  <2> QED
    BY NextAsks DEF NothingNew
<1> QED
  BY <1>1, PieceInvariant, PTL DEF Spec, NoRequestsWhileClearing

(* What the picker counts is exact until a job outlives its entry.         *)
LEMMA NInvIsExact ==
    ASSUME IInv
    PROVE  CountersExact /\ OneWritePerBlock /\ AnsweredNotRequested /\ GoodUntilForgotten
<1> SUFFICES ASSUME ~ forgotten
             PROVE  CountersExact /\ OneWritePerBlock /\ AnsweredNotRequested /\ HaveIsGood
  BY DEF CountersExact, OneWritePerBlock, AnsweredNotRequested, GoodUntilForgotten
<1>1. FInv /\ NInv /\ TypeOK /\ RequestsExact /\ WritingIsWritten
  BY FailureInvIs, EntryInvIs DEF IInv, FailureInv, EntryInv
<1>2. CountersExact
  BY <1>1 DEF CountersExact, RequestsExact, WritingIsWritten
<1>3. ASSUME NEW b \in Blocks
      PROVE  Cardinality(Writes(b)) <= IF picker.block[b] = "finished" THEN 0 ELSE 1
  <2>1. CASE Writes(b) = {}
    BY <2>1, FS_EmptySet
  <2>2. CASE Writes(b) # {}
    <3>1. PICK i : i \in Writes(b)
      BY <2>2
    <3>2. i \in Outstanding({"write"}) /\ jobs[i].block = b /\ \A k \in Writes(b) : k = i
      BY <1>1, <3>1 DEF NInv, WritesExact, Writes
    <3>3. picker.block[b] = "writing"
      BY <1>1, <3>2 DEF NInv, WritesExact
    <3>4. Writes(b) = {i}
      BY <3>1, <3>2
    <3>5. Cardinality(Writes(b)) = 1
      BY <3>4, FS_Singleton
    <3> QED
      BY <3>3, <3>5
  <2> QED
    BY <2>1, <2>2
<1>4. ASSUME NEW i \in Outstanding({"write"}) PROVE picker.num_peers[jobs[i].block] = 0
  <2>1. jobs[i].block \in Blocks /\ picker.block[jobs[i].block] = "writing"
    BY <1>1 DEF FInv, NInv, JobShape, WritesExact, Outstanding
  <2>2. ~ picker.num_peers[jobs[i].block] > 0
    BY <1>1, <2>1 DEF NInv, Exact
  <2>3. picker.num_peers[jobs[i].block] \in Nat
    BY <1>1, <2>1, PieceFields DEF FInv, Shape
  <2> QED
    BY <2>2, <2>3
<1>5. HaveIsGood
  BY <1>1 DEF NInv
<1> QED
  BY <1>2, <1>3, <1>4, <1>5 DEF OneWritePerBlock, AnsweredNotRequested

(* For any number of I/O threads and of failed writes, until an entry is   *)
(* dropped with a job of it outstanding: the counters of downloading_piece *)
(* agree with its block_info entries and with the queues of the peers,     *)
(* through every order of requests, time-outs, cancels, rejects, late      *)
(* blocks, hash failures and restarts.                                     *)
THEOREM PickerCountsAreExact == Spec => []CountersExact
<1>1. IInv => CountersExact
  BY NInvIsExact
<1> QED
  BY <1>1, PieceInvariant, PTL

(* Until then incoming_piece issues no second write for a block whose      *)
(* first is unanswered, as store_buffer requires...                        *)
THEOREM WritesAreSingle == Spec => []OneWritePerBlock
<1>1. IInv => OneWritePerBlock
  BY NInvIsExact
<1> QED
  BY <1>1, PieceInvariant, PTL

(* ... the assertion of on_disk_write_complete holds, that nobody is asked *)
(* for the block that was written...                                       *)
THEOREM NumPeersAssertionHolds == Spec => []AnsweredNotRequested
<1>1. IInv => AnsweredNotRequested
  BY NInvIsExact
<1> QED
  BY <1>1, PieceInvariant, PTL

(* ... and a piece that piece_picker::we_have holds is on disk as its hash *)
(* says, even if writes failed that the hash job had found in the store    *)
(* buffer.                                                                 *)
THEOREM WhatWeHaveIsGood == Spec => []GoodUntilForgotten
<1>1. IInv => GoodUntilForgotten
  BY NInvIsExact
<1> QED
  BY <1>1, PieceInvariant, PTL
=============================================================================

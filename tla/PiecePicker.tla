---------------------------- MODULE PiecePicker ----------------------------
(***************************************************************************)
(* piece_picker (src/piece_picker.cpp): what it keeps about one piece that *)
(* is being downloaded, as operators on one record.  A piece is open (not  *)
(* in m_downloads), downloading (it has a downloading_piece and block_info *)
(* entries) or one we have.  Priorities, availability, the reverse states  *)
(* and which piece is picked first are left out.                           *)
(*                                                                         *)
(* The operators named BUG_... are wrong variants of the definition that   *)
(* follows them; no specification uses them.                               *)
(***************************************************************************)
EXTENDS Integers, FiniteSets

CONSTANT Blocks     \* the blocks of the piece

ASSUME BlocksAssumption == IsFiniteSet(Blocks) /\ Blocks # {}

NumBlocks == Cardinality(Blocks)

BlockStates == {"none", "requested", "writing", "finished"}

Piece == [state : {"open", "downloading", "have"}, block : [Blocks -> BlockStates],
          num_peers : [Blocks -> Nat], requested : Nat, writing : Nat, finished : Nat,
          hashing : BOOLEAN, locked : BOOLEAN, passed : BOOLEAN]

(* A piece without a downloading_piece (erase_download_piece), and the     *)
(* entry add_download_piece makes for it.                                  *)
PieceIn(state) ==
    [state |-> state, block |-> [b \in Blocks |-> "none"], num_peers |-> [b \in Blocks |-> 0],
     requested |-> 0, writing |-> 0, finished |-> 0, hashing |-> FALSE, locked |-> FALSE, passed |-> FALSE]

Open == PieceIn("open")

Downloading(pk) == pk.state = "downloading"

WithEntry(pk) == IF pk.state = "open" THEN PieceIn("downloading") ELSE pk

(* The entry goes once nothing is left in it.                              *)
Kept(pk) ==
    IF pk.requested + pk.writing + pk.finished = 0 /\ ~ pk.hashing THEN Open ELSE pk

(* update_piece_state, for a downloading piece: which list it is in.       *)
Full(pk) ==
    /\ Downloading(pk)
    /\ pk.requested > 0
    /\ pk.requested + pk.writing + pk.finished >= NumBlocks

HasFreeBlocks(pk) == pk.requested + pk.writing + pk.finished < NumBlocks

IsDownloaded(pk, b) == pk.state = "have" \/ pk.block[b] \in {"writing", "finished"}

IsRequested(pk, b) == Downloading(pk) /\ pk.block[b] = "requested"

IsPieceFinished(pk) ==
    pk.state = "have" \/ (Downloading(pk) /\ pk.writing + pk.finished >= NumBlocks)

(* add_blocks and add_blocks_downloading: the blocks nobody was asked for, *)
(* of a piece that is neither locked nor complete.                         *)
FreeBlocks(pk) ==
    IF pk.state = "have" \/ pk.locked \/ ~ HasFreeBlocks(pk) THEN {}
    ELSE {b \in Blocks : pk.block[b] = "none"}

(* pick_pieces, in the end game: blocks asked for elsewhere, of a full     *)
(* piece.                                                                  *)
BusyBlocks(pk) == IF Full(pk) THEN {b \in Blocks : pk.block[b] = "requested"} ELSE {}
-----------------------------------------------------------------------------
(* mark_as_downloading, called n[b] times for block b.                     *)
MarkAsDownloading(pk, n) ==
    LET asked == {b \in Blocks : n[b] > 0 /\ ~ IsDownloaded(pk, b)}
        new   == {b \in asked : pk.block[b] = "none"}
    IN  IF asked = {} THEN pk
        ELSE [WithEntry(pk) EXCEPT
                 !.block     = [b \in Blocks |-> IF b \in asked THEN "requested" ELSE @[b]],
                 !.num_peers = [b \in Blocks |-> IF b \in asked THEN @[b] + n[b] ELSE @[b]],
                 !.requested = @ + Cardinality(new)]

(* mark_as_writing: a block arrived, asked for or not.                     *)
BUG_StaysRequested(pk, b) ==
    IF IsDownloaded(pk, b) THEN pk
    ELSE [WithEntry(pk) EXCEPT !.block[b] = "writing", !.num_peers[b] = 0, !.writing = @ + 1]

MarkAsWriting(pk, b) ==
    IF IsDownloaded(pk, b) THEN pk
    ELSE [WithEntry(pk) EXCEPT !.block[b] = "writing", !.num_peers[b] = 0, !.writing = @ + 1,
                               !.requested = IF pk.block[b] = "requested" THEN @ - 1 ELSE @]

(* mark_as_finished: a block was written.  A piece that passed the hash    *)
(* check is ours with its last block.                                      *)
BUG_HaveBeforePassed(pk, b) ==
    LET e    == WithEntry(pk)
        next == [e EXCEPT !.block[b] = "finished", !.finished = @ + 1,
                          !.writing = IF e.block[b] = "writing" THEN @ - 1 ELSE @]
    IN  IF pk.state = "have" \/ e.block[b] = "finished" THEN pk
        ELSE IF next.finished >= NumBlocks /\ ~ next.hashing THEN PieceIn("have")
        ELSE next

BUG_LastBlockForgotten(pk, b) ==
    LET e    == WithEntry(pk)
    IN  IF pk.state = "have" \/ e.block[b] = "finished" THEN pk
        ELSE [e EXCEPT !.block[b] = "finished", !.finished = @ + 1,
                       !.writing = IF e.block[b] = "writing" THEN @ - 1 ELSE @]

MarkAsFinished(pk, b) ==
    LET e    == WithEntry(pk)
        next == [e EXCEPT !.block[b] = "finished", !.finished = @ + 1,
                          !.writing = IF e.block[b] = "writing" THEN @ - 1 ELSE @]
    IN  IF pk.state = "have" \/ e.block[b] = "finished" THEN pk
        ELSE IF Downloading(pk) /\ next.finished >= NumBlocks /\ next.passed /\ ~ next.hashing
        THEN PieceIn("have")
        ELSE next

(* write_failed: the block is lost, and the piece locked until the disk    *)
(* has been synchronised with.                                             *)
BUG_StaysWriting(pk, b) ==
    IF ~ Downloading(pk) \/ pk.block[b] = "finished" THEN pk
    ELSE [pk EXCEPT !.passed = FALSE, !.locked = TRUE]

WriteFailed(pk, b) ==
    IF ~ Downloading(pk) \/ pk.block[b] = "finished" THEN pk
    ELSE Kept([pk EXCEPT !.block[b] = "none", !.passed = FALSE, !.locked = TRUE,
                         !.writing = IF pk.block[b] = "writing" THEN @ - 1 ELSE @])

(* abort_download, called n[b] times for block b: the block is free again  *)
(* when no peer is left that was asked for it.                             *)
BUG_AbortsAnyBlock(pk, n) ==
    LET left(b) == IF n[b] >= pk.num_peers[b] THEN 0 ELSE pk.num_peers[b] - n[b]
        freed   == {b \in Blocks : Downloading(pk) /\ n[b] > 0 /\ left(b) = 0}
    IN  Kept([pk EXCEPT
                 !.block     = [b \in Blocks |-> IF b \in freed THEN "none" ELSE @[b]],
                 !.num_peers = [b \in Blocks |-> left(b)],
                 !.requested = @ - Cardinality({b \in freed : IsRequested(pk, b)}),
                 !.writing   = @ - Cardinality({b \in freed : pk.block[b] = "writing"}),
                 !.finished  = @ - Cardinality({b \in freed : pk.block[b] = "finished"})])

AbortDownload(pk, n) ==
    LET left(b) == IF n[b] >= pk.num_peers[b] THEN 0 ELSE pk.num_peers[b] - n[b]
        freed   == {b \in Blocks : IsRequested(pk, b) /\ n[b] > 0 /\ left(b) = 0}
        next    == [pk EXCEPT
                      !.block     = [b \in Blocks |-> IF b \in freed THEN "none" ELSE @[b]],
                      !.num_peers = [b \in Blocks |-> IF IsRequested(pk, b) THEN left(b) ELSE @[b]],
                      !.requested = @ - Cardinality(freed)]
    IN  IF freed = {} THEN next ELSE Kept(next)

StartedHashJob(pk) == IF Downloading(pk) THEN [pk EXCEPT !.hashing = TRUE] ELSE pk

CompletedHashJob(pk) == IF Downloading(pk) THEN [pk EXCEPT !.hashing = FALSE] ELSE pk

(* lock_piece: nothing is picked from the piece until it is restored.      *)
LockPiece(pk) == IF Downloading(pk) THEN [pk EXCEPT !.passed = FALSE, !.locked = TRUE] ELSE pk

(* restore_piece, for all blocks.                                          *)
RestorePiece(pk) == IF Downloading(pk) THEN Open ELSE pk

(* piece_passed, with we_have.                                             *)
PiecePassed(pk) ==
    IF ~ Downloading(pk) \/ pk.locked THEN pk
    ELSE IF pk.finished < NumBlocks THEN [pk EXCEPT !.passed = TRUE]
    ELSE PieceIn("have")
=============================================================================

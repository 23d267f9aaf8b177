------------------------------ MODULE BtDemux ------------------------------
(***************************************************************************)
(* The BT demuxer (gtk/gstbt/gst_bt_demux.cpp): it plays one file of a     *)
(* torrent while the torrent is downloaded.  Three threads use a stream:   *)
(*                                                                         *)
(*   - the pad's task, gst_bt_demux_stream_push_loop, takes pieces off the *)
(*     queue ipc and pushes them downstream;                               *)
(*   - the thread of Session::Impl::pop_alerts_thread_func feeds the       *)
(*     read_piece and piece_finished alerts of libtorrent;                 *)
(*   - the main thread opens a file and seeks.                             *)
(*                                                                         *)
(* A piece is read (torrent_handle::read_piece), its data come back in an  *)
(* alert, are pushed, and the push loop reads the next one.  If that is    *)
(* not downloaded the stream is "buffering", and the alerts of finished    *)
(* pieces make playback go on.                                             *)
(*                                                                         *)
(* Positions are bytes of the torrent.  The operators named BUG_... are    *)
(* wrong variants of the definition that follows them.                     *)
(***************************************************************************)
EXTENDS Integers, Sequences, FiniteSets

CONSTANTS
    PieceLength,
    TorrentSize,
    Openings,       \* what may be opened: a file, as [start, end] of its bytes with the end
                    \*   excluded; do we have all pieces from the start; a bound on the seeks
    BufferPieces,   \* buffer_pieces: how many pieces to have before playback goes on
    Stops,          \* the stop positions of seeks, within the file; below 0 for none
    IntRange        \* an int is in -IntRange .. IntRange - 1

Files == {o.file : o \in Openings}

ASSUME DemuxAssumption ==
    /\ {PieceLength, TorrentSize, BufferPieces, IntRange} \subseteq Nat \ {0}
    /\ Stops \subseteq Int
    /\ Openings \subseteq [file : [start : 0 .. TorrentSize, end : 0 .. TorrentSize],
                            seeder : BOOLEAN, seeks : Nat]
    /\ \A f \in Files : f.start < f.end

VARIABLES
    file,           \* the file that is played
    seeder,         \* did we have all pieces from the start?
    piece,          \* piece -> "none", "passed" its hash check, "have": written to disk too
    top,            \* the pieces with top_priority
    reading,        \* piece -> number of calls of read_piece without an answer
    posted,         \* the alerts in the current generation of the alert_manager
    batch,          \* the alerts that were popped and not handled yet
    stream,         \* the GstBtDemuxStream
    ipc,            \* stream->ipc: the pieces that were read, for the push loop
    task,           \* the state of the pad's task
    pc,             \* where each thread is
    item,           \* the piece the push loop works on
    down,           \* downstream of the pad: is it flushing, has the type been found
                    \*   (have-type-emitted), the first byte of the segment and the end of
                    \*   it, the buffers received since the segment event, end of stream
    waiting,        \* BaconVideoWidget's buffering_, after the messages posted to it
    seeks           \* number of seeks that may still come

libtorrent == <<piece, top, reading, posted>>
vars == <<file, seeder, piece, top, reading, posted, batch, stream, ipc, task, pc, item,
          down, waiting, seeks>>
-----------------------------------------------------------------------------
(***************************************************************************)
(* Pieces, areas of pieces, and buffers.                                   *)
(***************************************************************************)

PieceAt(byte) == byte \div PieceLength
Pieces == 0 .. PieceAt(TorrentSize - 1)
PieceEnd(p) == IF p = PieceAt(TorrentSize - 1) THEN TorrentSize ELSE (p + 1) * PieceLength

(* start_piece and end_piece of the segment; their offsets are the rest of *)
(* the division, which in C rounds towards 0.                              *)
StartPiece(s) == PieceAt(s.start_byte)
EndPiece(s) == IF s.end_byte >= 0 THEN PieceAt(s.end_byte) ELSE - PieceAt(- s.end_byte)

(* gst_bt_demux_buffer_new: the bytes of piece p that are pushed.  In a    *)
(* segment of one piece they are cut from every piece.                     *)
BufferNew(s, p) ==
    LET shift == (p - StartPiece(s)) * PieceLength
    IN  IF StartPiece(s) = EndPiece(s)
        THEN [from |-> s.start_byte + shift, to |-> s.end_byte + shift]
        ELSE [from |-> IF p = StartPiece(s) THEN s.start_byte ELSE p * PieceLength,
              to   |-> IF p = EndPiece(s) THEN s.end_byte ELSE PieceEnd(p)]

(* The area of BufferPieces pieces from first on, within the segment.      *)
AreaStart(s, first) == IF first >= EndPiece(s) THEN EndPiece(s) ELSE first
AreaEnd(s, first) ==
    IF first + BufferPieces - 1 > EndPiece(s) THEN EndPiece(s) ELSE first + BufferPieces - 1
Area(s, first) == AreaStart(s, first) .. AreaEnd(s, first)

(* torrent::user_have_piece and torrent::has_piece_passed.                 *)
Have(p) == p \in Pieces /\ piece[p] = "have"
Passed(p) == p \in Pieces /\ piece[p] # "none"

(* torrent_handle::read_piece is a message to the network thread.          *)
ReadPiece(p) == [reading EXCEPT ![p] = @ + 1]

-----------------------------------------------------------------------------
(***************************************************************************)
(* The stream.                                                             *)
(***************************************************************************)

(* gst_bt_demux_stream_activate: the stream starts over at the start of    *)
(* its segment.  The pieces we do not have get top priority; those that    *)
(* had it already are flagged, not counted.                                *)
Missing(s, tops) == {p \in Area(s, StartPiece(s)) : ~ Have(p) /\ p \notin tops}

Flags(s) ==
    [i \in 1 .. Cardinality(Area(s, StartPiece(s))) |-> ~ Have(AreaStart(s, StartPiece(s)) + i - 1)]

BUG_ActivateKeepsPosition(s, tops) ==
    [s EXCEPT !.requested = TRUE, !.pending = TRUE, !.level = 0, !.flags = Flags(s),
              !.count = Cardinality(Missing(s, tops)), !.buffering = Missing(s, tops) # {}]

StreamActivate(s, tops) ==
    [s EXCEPT !.requested = TRUE, !.current_piece = StartPiece(s) - 1, !.pending = TRUE,
              !.level = 0, !.flags = Flags(s),
              !.count = Cardinality(Missing(s, tops)), !.buffering = Missing(s, tops) # {}]

(* The level of buffering.  The flags that the push loop leaves are fewer  *)
(* than the pieces of the area: garbage is what is read behind their end.  *)
Buffered(s, garbage) ==
    LET first == AreaStart(s, s.current_piece + 1)
        flag(p) == IF p - first + 1 <= Len(s.flags) THEN s.flags[p - first + 1] ELSE garbage
    IN  Cardinality({p \in Area(s, s.current_piece + 1) : Have(p) /\ flag(p)})


BufferingLevel(s, garbage) ==
    LET buffered == IF Buffered(s, garbage) > s.count THEN s.count ELSE Buffered(s, garbage)
    IN  (buffered * 100) \div s.count

(* gst_bt_demux_send_buffering: tell the player, and when the pieces are   *)
(* there read on.                                                          *)
SendBuffering(s) ==
    /\ waiting' = IF s.requested /\ s.buffering THEN s.level < 100 ELSE waiting
    /\ IF s.requested /\ s.buffering /\ s.level >= 100
       THEN /\ stream' = [s EXCEPT !.buffering = FALSE, !.level = 0]
            /\ reading' = ReadPiece(s.current_piece + 1)
       ELSE /\ stream' = s
            /\ reading' = reading

(* The stream starts over with segment s: the pieces it lacks get top      *)
(* priority, or, if it lacks none, the first one is read.                  *)
StartOver(s, tops) ==
    /\ stream' = StreamActivate(s, tops)
    /\ top' = tops \union (Missing(s, tops) \intersect Pieces)
    /\ reading' = IF Missing(s, tops) = {} THEN ReadPiece(StartPiece(s)) ELSE reading
-----------------------------------------------------------------------------
NoBuffer == [from |-> 0, to |-> 0]
NoItem == [piece |-> -1, buffer |-> NoBuffer]

Init ==
    /\ \E o \in Openings : file = o.file /\ seeder = o.seeder /\ seeks = o.seeks
    /\ piece = [p \in Pieces |-> IF seeder THEN "have" ELSE "none"]
    /\ top = {}
    /\ reading = [p \in 0 .. PieceAt(TorrentSize) + 1 |-> 0]
    /\ posted = <<>> /\ batch = <<>>
    /\ stream = [start_byte |-> file.start, end_byte |-> file.end, current_piece |-> 0,
                 requested |-> FALSE, pending |-> FALSE, flush_start_sent |-> FALSE, moov |-> FALSE,
                 buffering |-> FALSE, level |-> 0, count |-> 0, flags |-> <<>>]
    /\ ipc = <<>>
    /\ task = "stopped"
    /\ pc = [main |-> "idle", alerts |-> "idle", push |-> "out"]
    /\ item = NoItem
    /\ down = [flushing |-> FALSE, typed |-> FALSE, start |-> file.start, stop |-> file.end,
               buffers |-> <<>>, eos |-> FALSE]
    /\ waiting = FALSE

(* stream->lock is held from one step to the next by the push loop and by  *)
(* a seek.                                                                 *)
PushHasLock == pc.push \in {"push", "pushed", "sought", "level", "refused", "buffer"}
SeekHasLock == pc.main = "update"
LockFree == ~ PushHasLock /\ ~ SeekHasLock

Goto(thread, place) == pc' = [pc EXCEPT ![thread] = place]

(***************************************************************************)
(* libtorrent: pieces pass their hash check, which is when the alert is    *)
(* posted (torrent::we_have), their blocks reach the disk, and reads are   *)
(* answered, without data if the piece is not there (torrent::read_piece). *)
(***************************************************************************)
Alert(type, p, data) == [type |-> type, piece |-> p, data |-> data]

PiecePassed(p) ==
    /\ piece[p] = "none"
    /\ piece' = [piece EXCEPT ![p] = "passed"]
    /\ posted' = Append(posted, Alert("piece_finished", p, FALSE))
    /\ UNCHANGED <<file, seeder, top, reading, batch, stream, ipc, task, pc, item, down, waiting, seeks>>

PieceFlushed(p) ==
    /\ piece[p] = "passed"
    /\ piece' = [piece EXCEPT ![p] = "have"]
    /\ UNCHANGED <<file, seeder, top, reading, posted, batch, stream, ipc, task, pc, item, down, waiting, seeks>>

ReadAnswered(p) ==
    /\ reading[p] > 0
    /\ reading' = [reading EXCEPT ![p] = @ - 1]
    /\ posted' = Append(posted, Alert("read_piece", p, Passed(p)))
    /\ UNCHANGED <<file, seeder, piece, top, batch, stream, ipc, task, pc, item, down, waiting, seeks>>

(***************************************************************************)
(* The thread that pops alerts.                                            *)
(***************************************************************************)

(* alert_manager::get_all: the other generation is filled from now on.     *)
PopAlerts ==
    /\ pc.alerts = "idle" /\ batch = <<>> /\ posted # <<>>
    /\ batch' = posted
    /\ posted' = <<>>
    /\ UNCHANGED <<file, seeder, piece, top, reading, stream, ipc, task, pc, item, down, waiting, seeks>>

(* btdemux_feed_read_piece_alert: the data go to the push loop, unless a   *)
(* seek has moved on.                                                      *)
FeedReadPieceAlert ==
    /\ pc.alerts = "idle" /\ batch # <<>> /\ Head(batch).type = "read_piece"
    /\ Head(batch).data => LockFree
    /\ batch' = Tail(batch)
    /\ LET p == Head(batch).piece
           wanted == /\ Head(batch).data
                     /\ p \in StartPiece(stream) .. EndPiece(stream)
                     /\ stream.requested
                     /\ p > stream.current_piece
                     /\ p <= stream.current_piece + BufferPieces - 1
       IN  IF wanted THEN ipc' = Append(ipc, p) /\ task' = "started"
                     ELSE UNCHANGED <<ipc, task>>
    /\ UNCHANGED <<file, seeder, libtorrent, stream, pc, item, down, waiting, seeks>>

(* btdemux_feed_piece_finished_alert does not take stream->lock: the       *)
(* stream may change between the test of buffering and the division.       *)
FeedPieceFinishedAlert ==
    /\ pc.alerts = "idle" /\ batch # <<>> /\ Head(batch).type = "piece_finished"
    /\ LET p == Head(batch).piece
           ours == p \in StartPiece(stream) .. EndPiece(stream) /\ stream.requested
       IN  /\ top' = IF ours THEN top \ {p} ELSE top
           /\ IF ours /\ stream.buffering THEN Goto("alerts", "update") ELSE UNCHANGED pc
    /\ batch' = Tail(batch)
    /\ UNCHANGED <<file, seeder, piece, reading, posted, stream, ipc, task, item, down, waiting, seeks>>

(* gst_bt_demux_stream_update_buffering.  Division by zero ends the        *)
(* process.                                                                *)
UpdateLevel(thread, next) ==
    IF stream.count = 0
    THEN Goto(thread, "crashed") /\ UNCHANGED stream
    ELSE /\ Goto(thread, next)
         /\ \E garbage \in BOOLEAN : stream' = [stream EXCEPT !.level = BufferingLevel(stream, garbage)]

UpdateBuffering ==
    /\ pc.alerts = "update"
    /\ UpdateLevel("alerts", "send")
    /\ UNCHANGED <<file, seeder, libtorrent, batch, ipc, task, item, down, waiting, seeks>>

AlertsSendBuffering ==
    /\ pc.alerts = "send"
    /\ LockFree
    /\ SendBuffering(stream)
    /\ Goto("alerts", "idle")
    /\ UNCHANGED <<file, seeder, piece, top, posted, batch, ipc, task, item, down, seeks>>

(***************************************************************************)
(* The main thread.                                                        *)
(***************************************************************************)

(* A file is chosen: update_requested_stream, gst_bt_demux_switch_streams. *)
Open ==
    /\ pc.main = "idle" /\ ~ stream.requested
    /\ StartOver(stream, top)
    /\ waiting' = (Missing(stream, top) # {})
    /\ UNCHANGED <<file, seeder, piece, posted, batch, ipc, task, pc, item, down, seeks>>

(* gst_bt_demux_stream_seek reads the format of the seek before it is set, *)
(* so whether it takes the seek for one of the user's is anybody's guess.  *)
SeekFlushStart ==
    /\ pc.main = "idle" /\ stream.requested /\ seeks > 0
    /\ \E is_user_seek \in BOOLEAN : stream' = [stream EXCEPT !.moov = @ \/ ~ is_user_seek]
    /\ down' = [down EXCEPT !.flushing = TRUE]
    /\ Goto("main", "flushed")
    /\ seeks' = seeks - 1
    /\ UNCHANGED <<file, seeder, libtorrent, batch, ipc, task, item, waiting>>

SeekFlushSent ==
    /\ pc.main = "flushed"
    /\ stream' = [stream EXCEPT !.flush_start_sent = TRUE]
    /\ Goto("main", "seek")
    /\ UNCHANGED <<file, seeder, libtorrent, batch, ipc, task, item, down, waiting, seeks>>

(* Where a segment without a stop position ends, counted from the first    *)
(* byte of the file: the product of two ints is an int, and it overflows   *)
(* (in practice it wraps) for files above 2 GiB.                           *)
IntOf(n) == ((n + IntRange) % (2 * IntRange)) - IntRange

FileStop(f) ==
    LET num_pieces == PieceAt(f.end) - PieceAt(f.start) + 1
        start_offset == f.start % PieceLength
        end_offset == f.end % PieceLength
    IN  IF num_pieces = 1 THEN end_offset - start_offset
        ELSE IntOf((num_pieces - 2) * PieceLength) + (PieceLength - start_offset) + end_offset

(* The rest of gst_bt_demux_stream_seek under the lock: the segment goes   *)
(* from byte to the stop position.  The old area loses its priority unless *)
(* the new one begins where it did.                                        *)
SeekTo(byte, stop, moov) ==
    LET end == file.start + (IF stop < 0 THEN FileStop(file) ELSE stop)
        moved == [stream EXCEPT !.start_byte = byte, !.end_byte = end, !.moov = moov]
        oldStart == AreaStart(moved, stream.current_piece + 1)
        oldArea == {p \in Area(moved, stream.current_piece + 1) : ~ Have(p)}
    IN  StartOver(moved, IF StartPiece(moved) # oldStart THEN top \ oldArea ELSE top)

SeekActivate(byte, stop) ==
    /\ pc.main = "seek"
    /\ LockFree
    /\ SeekTo(byte, stop, stream.moov)
    /\ Goto("main", IF stream'.buffering THEN "update" ELSE "idle")
    /\ UNCHANGED <<file, seeder, piece, posted, batch, ipc, task, item, down, waiting, seeks>>

(* Pieces may have arrived meanwhile.                                      *)
SeekUpdateBuffering ==
    /\ pc.main = "update"
    /\ UpdateLevel("main", "send")
    /\ UNCHANGED <<file, seeder, libtorrent, batch, ipc, task, item, down, waiting, seeks>>

SeekSendBuffering ==
    /\ pc.main = "send"
    /\ LockFree
    /\ SendBuffering(stream)
    /\ Goto("main", "idle")
    /\ UNCHANGED <<file, seeder, piece, top, posted, batch, ipc, task, item, down, seeks>>

(***************************************************************************)
(* gst_bt_demux_stream_push_loop, the function of the pad's task.          *)
(***************************************************************************)
PushBegin ==
    /\ pc.push = "out" /\ task = "started"
    /\ Goto("push", "pop")
    /\ UNCHANGED <<file, seeder, libtorrent, batch, stream, ipc, task, item, down, waiting, seeks>>

(* g_async_queue_pop waits for data. *)
PushPop ==
    /\ pc.push = "pop" /\ ipc # <<>>
    /\ item' = [piece |-> Head(ipc), buffer |-> NoBuffer]
    /\ ipc' = Tail(ipc)
    /\ Goto("push", "lock")
    /\ UNCHANGED <<file, seeder, libtorrent, batch, stream, task, down, waiting, seeks>>

(* Anything but the next piece is dropped.  A segment event goes first if  *)
(* one is due, and ends the flush if that has been noted.                  *)
AfterSegment(s, d) ==
    LET flushing == d.flushing /\ ~ s.flush_start_sent
    IN  IF ~ s.pending THEN d
        ELSE IF flushing THEN d
        ELSE [d EXCEPT !.flushing = FALSE, !.start = s.start_byte, !.stop = s.end_byte,
                       !.buffers = <<>>, !.eos = FALSE]

BUG_PushesAnyPiece ==
    /\ pc.push = "lock" /\ ~ SeekHasLock
    /\ item' = [item EXCEPT !.buffer = BufferNew(stream, item.piece)]
    /\ stream' = [stream EXCEPT !.current_piece = item.piece, !.pending = FALSE,
                                !.flush_start_sent = @ /\ ~ stream.pending]
    /\ down' = AfterSegment(stream, down)
    /\ Goto("push", "push")
    /\ UNCHANGED <<file, seeder, libtorrent, batch, ipc, task, waiting, seeks>>

PushLock ==
    /\ pc.push = "lock" /\ ~ SeekHasLock
    /\ IF ~ stream.requested \/ item.piece # stream.current_piece + 1
       THEN /\ item' = NoItem
            /\ Goto("push", "out")
            /\ UNCHANGED <<stream, down>>
       ELSE /\ item' = [item EXCEPT !.buffer = BufferNew(stream, item.piece)]
            /\ stream' = [stream EXCEPT !.current_piece = item.piece, !.pending = FALSE,
                                        !.flush_start_sent = @ /\ ~ stream.pending]
            /\ down' = AfterSegment(stream, down)
            /\ Goto("push", "push")
    /\ UNCHANGED <<file, seeder, libtorrent, batch, ipc, task, waiting, seeks>>

(* gst_pad_push: downstream takes the buffer unless it is flushing. *)
PushBuffer ==
    /\ pc.push = "push"
    /\ IF down.flushing
       THEN Goto("push", "refused") /\ UNCHANGED down
       ELSE /\ Goto("push", "pushed")
            /\ down' = [down EXCEPT !.typed = TRUE, !.buffers = Append(@, item.buffer)]
    /\ UNCHANGED <<file, seeder, libtorrent, batch, stream, ipc, task, item, waiting, seeks>>

(* Before gst_pad_push returns qtdemux may look for the moov atom, with a  *)
(* seek that does not flush and meets the lock held by its own thread.     *)
SeekInPush(byte, stop) ==
    /\ pc.push = "pushed" /\ seeks > 0
    /\ \E is_user_seek \in BOOLEAN : SeekTo(byte, stop, stream.moov \/ ~ is_user_seek)
    /\ Goto("push", IF stream'.buffering THEN "sought" ELSE "pushed")
    /\ seeks' = seeks - 1
    /\ UNCHANGED <<file, seeder, piece, posted, batch, ipc, task, item, down, waiting>>

SeekInPushBuffering ==
    \/ /\ pc.push = "sought"
       /\ UpdateLevel("push", "level")
       /\ UNCHANGED <<reading, waiting>>
       /\ UNCHANGED <<file, seeder, piece, top, posted, batch, ipc, task, item, down, seeks>>
    \/ /\ pc.push = "level"
       /\ SendBuffering(stream)
       /\ Goto("push", "pushed")
       /\ UNCHANGED <<file, seeder, piece, top, posted, batch, ipc, task, item, down, seeks>>

(* gst_pad_push has returned.  A buffer refused before the type was found  *)
(* is pushed again; refused later, it ends the stream, as does the last    *)
(* piece of the file if its push did not seek.                             *)
RePush == pc.push = "refused" /\ ~ down.typed

BUG_EosAfterSeek ==
    \/ pc.push = "refused" /\ down.typed
    \/ item.piece = PieceAt(file.end)

SendEos ==
    \/ pc.push = "refused" /\ down.typed
    \/ ~ stream.moov /\ item.piece = PieceAt(file.end) /\ ~ stream.pending

(* The next piece, if it is one to read: a seek may have moved on.         *)
NextWanted(s) ==
    /\ ~ RePush
    /\ item.piece + 1 <= EndPiece(s)
    /\ item.piece + 1 > s.current_piece
    /\ item.piece + 1 <= s.current_piece + BufferPieces - 1

(* With the moov atom behind the media, playback starts over once the last *)
(* piece has been pushed.                                                  *)
PushReturn ==
    /\ pc.push \in {"pushed", "refused"}
    /\ ipc' = IF RePush THEN <<item.piece>> \o ipc ELSE ipc
    /\ down' = [down EXCEPT !.eos = @ \/ (SendEos /\ ~ down.flushing)]
    /\ task' = IF SendEos THEN "paused" ELSE task
    /\ LET s == [stream EXCEPT !.current_piece = IF RePush THEN item.piece - 1 ELSE @]
           wholeFile == [s EXCEPT !.start_byte = file.start, !.end_byte = file.end, !.moov = FALSE]
       IN  \/ /\ s.moov /\ item.piece = EndPiece(s)
              /\ StartOver(wholeFile, top)
              /\ waiting' = (waiting \/ stream'.buffering)
              /\ Goto("push", "out")
           \/ /\ ~ (s.moov /\ item.piece = EndPiece(s))
              /\ stream' = s
              /\ reading' = IF NextWanted(s) /\ Have(item.piece + 1) /\ ~ SendEos
                            THEN ReadPiece(item.piece + 1) ELSE reading
              /\ Goto("push", IF NextWanted(s) /\ ~ Have(item.piece + 1) THEN "buffer" ELSE "out")
              /\ UNCHANGED <<top, waiting>>
    /\ item' = IF pc'.push = "buffer" THEN item ELSE NoItem
    /\ UNCHANGED <<file, seeder, piece, posted, batch, seeks>>

(* The next piece is not there.  The loop over the area looks at the same  *)
(* piece every time.                                                       *)
PushBuffering ==
    /\ pc.push = "buffer"
    /\ LET next == item.piece + 1
           counted == ~ Have(next) /\ next \notin top
       IN  /\ stream' = [stream EXCEPT !.level = 0, !.count = IF counted THEN 1 ELSE 0,
                                       !.flags = [i \in 1 .. BufferPieces - 1 |-> ~ Have(next)],
                                       !.buffering = @ \/ counted]
           /\ top' = IF counted THEN top \union ({next} \intersect Pieces) ELSE top
    /\ item' = NoItem
    /\ Goto("push", "send")
    /\ UNCHANGED <<file, seeder, piece, reading, posted, batch, ipc, task, down, waiting, seeks>>

PushSendBuffering ==
    /\ pc.push = "send" /\ ~ SeekHasLock
    /\ SendBuffering(stream)
    /\ Goto("push", "out")
    /\ UNCHANGED <<file, seeder, piece, top, posted, batch, ipc, task, item, down, seeks>>
-----------------------------------------------------------------------------
Libtorrent == \E p \in DOMAIN reading :
    (p \in Pieces /\ (PiecePassed(p) \/ PieceFlushed(p))) \/ ReadAnswered(p)

AlertsThread ==
    \/ PopAlerts
    \/ FeedReadPieceAlert
    \/ FeedPieceFinishedAlert
    \/ UpdateBuffering
    \/ AlertsSendBuffering

(* The player may seek to any byte of the file but its end, and stop       *)
(* behind it.                                                              *)
SeekPositions ==
    {p \in (file.start .. file.end - 1) \X Stops :
        p[2] < 0 \/ (p[1] < file.start + p[2] /\ file.start + p[2] <= file.end)}

Seek == \E p \in SeekPositions : SeekActivate(p[1], p[2])

MainThread == SeekFlushSent \/ Seek \/ SeekUpdateBuffering \/ SeekSendBuffering

PushThread ==
    \/ PushBegin
    \/ PushPop
    \/ PushLock
    \/ PushBuffer
    \/ SeekInPushBuffering
    \/ PushReturn
    \/ PushBuffering
    \/ PushSendBuffering

User ==
    \/ Open
    \/ SeekFlushStart
    \/ \E p \in SeekPositions : SeekInPush(p[1], p[2])

Crashed == "crashed" \in {pc.alerts, pc.main, pc.push}

Next == ~ Crashed /\ (Libtorrent \/ AlertsThread \/ MainThread \/ PushThread \/ User)

(***************************************************************************)
(* Every thread keeps running, the pieces are downloaded in the end, and a *)
(* request to the network thread is answered.  A thread that waits for the *)
(* lock gets it in the end: the push loop, which may try to push the same  *)
(* piece again and again, releases it each time.  Nobody has to open or    *)
(* seek.                                                                   *)
(***************************************************************************)
Fairness ==
    /\ \A p \in Pieces : WF_vars(~ Crashed /\ PiecePassed(p)) /\ WF_vars(~ Crashed /\ PieceFlushed(p))
    /\ \A p \in 0 .. PieceAt(TorrentSize) + 1 : WF_vars(~ Crashed /\ ReadAnswered(p))
    /\ SF_vars(~ Crashed /\ AlertsThread)
    /\ SF_vars(~ Crashed /\ MainThread)
    /\ WF_vars(~ Crashed /\ PushThread)

Spec == Init /\ [][Next]_vars /\ Fairness
-----------------------------------------------------------------------------
Segment == [from : Int, to : Int]
AlertType == [type : {"read_piece", "piece_finished"}, piece : DOMAIN reading, data : BOOLEAN]

(* The variables have their types. *)
TypeOK ==
    /\ file \in Files /\ seeder \in BOOLEAN
    /\ piece \in [Pieces -> {"none", "passed", "have"}]
    /\ top \subseteq Pieces
    /\ reading \in [0 .. PieceAt(TorrentSize) + 1 -> Nat]
    /\ posted \in Seq(AlertType) /\ batch \in Seq(AlertType)
    /\ stream \in [start_byte : file.start .. file.end - 1, end_byte : Int,
                   current_piece : Pieces \union {-1, PieceAt(TorrentSize)}, requested : BOOLEAN,
                   pending : BOOLEAN, flush_start_sent : BOOLEAN, moov : BOOLEAN,
                   buffering : BOOLEAN, level : 0 .. 100, count : 0 .. BufferPieces,
                   flags : Seq(BOOLEAN)]
    /\ ipc \in Seq(Pieces)
    /\ task \in {"stopped", "started", "paused"}
    /\ pc \in [main : {"idle", "flushed", "seek", "update", "send", "crashed"},
               alerts : {"idle", "update", "send", "crashed"},
               push : {"out", "pop", "lock", "push", "pushed", "sought", "level", "refused", "buffer",
                       "send", "crashed"}]
    /\ item = NoItem \/ item \in [piece : Pieces, buffer : Segment \union {NoBuffer}]
    /\ down \in [flushing : BOOLEAN, typed : BOOLEAN, start : file.start .. file.end - 1, stop : Int,
                 buffers : Seq(Segment), eos : BOOLEAN]
    /\ waiting \in BOOLEAN
    /\ seeks \in Nat

(* In a segment that goes to the end of the file downstream receives the   *)
(* bytes of the file, from the first byte of the segment on, without a     *)
(* gap, without a repetition and without a byte of another file, whatever  *)
(* seeks and late alerts come in between.                                  *)
Contiguous ==
    TypeOK /\ (down.stop = file.end =>
        \A i \in DOMAIN down.buffers :
            /\ down.buffers[i].from = IF i = 1 THEN down.start ELSE down.buffers[i - 1].to
            /\ down.buffers[i].from <= down.buffers[i].to
            /\ down.buffers[i].to <= file.end)

(* "send the EOS downstream, check that last push didnt trigger a new      *)
(* seek": the end of the stream is announced only behind the last byte of  *)
(* the file, if the segment goes so far, and only if playback is not to go *)
(* on elsewhere in the file.                                               *)
EosAtEnd ==
    [][ down'.eos /\ ~ down.eos
        => /\ down.buffers # <<>>
           /\ down.stop = file.end => down.buffers[Len(down.buffers)].to = file.end
           /\ ~ stream'.pending ]_vars

(* "fire the read on start_piece, the rest will follow automatically, like *)
(* a chain reaction": with all pieces on disk, a segment that goes to the  *)
(* end of the file is played to its end unless a seek cuts it short,       *)
(* whatever other seeks come in between.  A file that ends with the last   *)
(* piece of the torrent is left out: its end_piece is one that nobody has. *)
ChainReaction ==
    (seeder /\ stream.requested /\ stream.end_byte = file.end /\ EndPiece(stream) \in Pieces)
        ~> (down.eos \/ stream.end_byte # file.end)
=============================================================================

# TLA+ models of libtorrentSN

This directory holds TLA+ models of the parts of libtorrent and its player where
threads, callbacks, disk jobs, packets and crashes meet: specifications translated from the C++ sources,
TLC configurations that check them on small instances, and TLAPS proofs of
the results that matter most. `PROJECT.json` is the index: which definition
models which lines, which run checks which property, which hazards the
properties are for, and what the proofs establish.

Paths below are relative to the repository (`src/...`), as in `PROJECT.json`.

1. [The system](#1-the-system)
2. [Modules](#2-modules)
3. [Runs](#3-runs)
4. [Fairness](#4-fairness)
5. [Proofs](#5-proofs)
6. [Where the code and its comments disagree](#6-where-the-code-and-its-comments-disagree)
7. [What is not modelled](#7-what-is-not-modelled)
8. [Plan](#8-plan)
9. [Running the checks](#9-running-the-checks)

## 1. The system

The repository is libtorrent (a BitTorrent library) with a GTK player on top of
it. One **network thread** runs an event loop: sockets, timers, the session, the
torrents and their peers, the piece picker. It never waits. Everything that may
block goes to **disk threads** as a job with a completion handler; finished
jobs come back as a message to the event loop, which calls the handlers.

| component | state it keeps | operations | what makes it correct |
|---|---|---|---|
| disk job fence (`disk_job_fence.cpp`) | per storage: number of fence jobs, number of outstanding jobs, queue of blocked jobs | `is_blocked`, `raise_fence`, `job_complete` | a fence job runs alone; order around fences; nobody blocked for ever |
| disk I/O thread pool (`disk_io_thread_pool.cpp`) | threads, maximum, idle count, exit requests, idle minimum of the last minute | `set_max_threads`, `job_queued`, `try_thread_exit`, `thread_idle/active`, `reap_idle_threads`, `abort` | queued jobs get a thread; no thread leaves a job behind; all threads end at shutdown |
| mmap disk I/O (`mmap_disk_io.cpp`, `store_buffer.hpp`) | generic and hash queue, completed jobs, message in flight, abort flag, buffers of blocks still to be written | `async_*`, `add_job`, `add_fence_job`, `submit_jobs`, the thread loop, `add_completed_jobs`, `call_job_handlers`, `settings_updated`, `abort` | reads see earlier writes; every job answered exactly once; files closed at shutdown |
| disk buffer pool (`disk_buffer_pool.cpp`) | buffers in use, limit, exceeded flag, observers | `allocate_buffer`, `free_buffer`, `check_buffer_level`, `set_settings` | who is told to stop is told to go on |
| peer connection (`peer_connection.cpp`, `request_blocks.cpp`) | channel states, request and download queue, bytes outstanding | receive, request, cancel, time out, `on_disk_write_complete`, choke, disconnect | no block requested with nobody to deliver it; never stuck |
| piece picker (`piece_picker.cpp`) | state and counters of pieces and blocks, availability, priorities | `pick_pieces`, `mark_as_*`, `abort_download`, `write_failed`, `piece_passed`, `lock_piece`, `restore_piece` | counters agree with blocks; what we *have* is verified and on disk |
| torrent (`torrent.cpp`) | picker, peers, storage, pause/upload/checking state, trackers | `verify_piece`, `on_piece_verified`, `piece_passed`, `piece_failed`, sync handlers, tick | every complete piece is decided |
| part file (`part_file.cpp`) | map from pieces to slots, free slots, dirty flag; the header on disk | load, `read`, `write`, `export_file`, `flush_metadata` | slots not shared; what was saved survives a crash |
| mmap storage (`mmap_storage.cpp`), file view pool | file priorities, which files use the part file, open mappings | `read`, `write`, `set_file_priority`, `initialize`, `release_files` | reads look where writes went, whatever the priorities did in between |
| µTP (`utp_stream.cpp`) | 16-bit sequence numbers, send/receive buffers, Nagle packet, congestion window | connect, write, `incoming_packet`, `parse_sack`, `send_pkt`, `resend_packet`, `tick`, close | in-order delivery over loss and reordering |
| BT demuxer (`gtk/gstbt/gst_bt_demux.cpp`), the application's alerts thread (`gtk/Session.cc`) | segment, current piece, buffering area, queue of pieces read | open, seek, push loop, `read_piece` and `piece_finished` alerts | contiguous data downstream; playback goes on to the end |
| trackers | announce timers, UDP connection ids and transactions | announce, retry, time out | an announce ends in an answer or an error |
| peer list, choker, bandwidth manager, smart ban, alert manager | candidates, ranking, quotas, block hashes, two alert generations | | limits respected, nobody starves |
| session (`session_impl.cpp`) | torrents, sockets, settings | `deferred_submit_jobs`, `abort`, settings | shutdown reaches everybody |
| wire protocol, port mapping, HTTP, bencoding, player's widgets | | | mostly parsing, I/O glue and widgets |

How they interact, in the path that matters most: a peer receives a block
(`incoming_piece`), copies it to a buffer of the **disk buffer pool** and issues a
write job; `mmap_disk_io` puts it in the **store buffer** and, unless the storage's
**fence** blocks it, in a queue that a **thread pool** serves. The **piece picker**
is told that the block is being written; with the last block `torrent` issues a
hash job for the piece, which may find blocks in the store buffer that are not
on disk yet. The handlers, called in whatever order the threads finish, tell the
picker that blocks were written and the torrent whether the hash was right. If it was
not, or a write failed, the piece is locked and a `clear_piece` fence job issued,
whose handler starts the piece over.

Around that path: bytes come from a socket that may be a **µTP** connection over UDP; blocks of
files nobody wants go to the **part file**, and from there to the file when its priority is raised by a
fence job; pieces we have are read back by the **demuxer**, which plays a file while it is
downloaded and learns of finished pieces from alerts.

Hard to test here, and what the properties are for (the list with line numbers is
`hazards` in `PROJECT.json`):

* interleavings of disk threads with each other and with `abort`, settings and the
  reaper between two critical sections;
* answers that come late, twice or out of order: blocks in the end game, timed-out
  requests, hash results of a piece that has been restarted;
* one of several writes failing, after the hash of the piece was found right;
* values read before another thread or handler runs and used after it (abort flag, thread
  counts, idle minimum, exceeded flag);
* lost wake-ups: parked jobs, idle threads, stopped peers, uncalled handlers;
* the edges: a pool of one block, no threads at all, a setting of zero, sequence numbers
  that wrap;
* packets lost, duplicated, overtaken or refused, and timeouts racing the acks;
* a crash between data and the header that says where they are, and an export that ends half way;
* a seek between the moment a piece is asked for and the moment it is pushed.

## 2. Modules

```
StorageAccess  <-- implements --  DiskJobFence  <-- implements --  MmapDiskIO
                                      |                              |    |
                                   JobFence -------------------------+    |
DiskIoThreadPool -----------------------------------------------  ThreadPool

PiecePicker --- PieceDownload      DiskBackpressure      PartFile      BtDemux

ByteStream  <-- implements --  UtpStream
```

The proofs about a module `M` are in `MProofs`; `MmapDiskIOProofs` and `DiskIoThreadPoolProofs` share
`ThreadPoolProofs`, `PieceDownloadProofs` begins with the lemmas on `PiecePicker`, and `MmapDiskIOProofs` uses
`DiskJobFenceProofs` through an instance.

Objects that are used in more than one place are modules of operators on a record
(`JobFence`, `ThreadPool`, `PiecePicker`); a specification module holds such a
record in a variable. `MC...` modules hold only model values, sets and symmetries.
Operators named `BUG_...` are wrong variants of the definition after them; the
mutants of `PROJECT.json` put them in its place to show that a property can fail.

**JobFence, DiskJobFence.** `JobFence` is the `disk_job_fence` object: `AfterIsBlocked`,
`AfterRaiseFence` and `JobComplete` are the three methods, with the names of the
members. `DiskJobFence` puts it between a network thread that issues jobs in any
order and threads that complete them in any order. `ticket` and `issued` are history
variables: the order of arrival.

**StorageAccess** says what a fence promises, without queue or counters: a job runs when
all earlier jobs it conflicts with are done; fence jobs conflict with all jobs.
`DiskJobFence` implements it with `started <- in_progress \union done`.

**ThreadPool, DiskIoThreadPool.** The pool object and one pool serving one queue of
anonymous jobs. A thread is `none`, in its `loop`, `idle`, `active` (between the two halves of
`thread_active`, with a job to take), `busy`, or on its way out: `claimed` (between the two halves of
`try_thread_exit`), `left` and `exiting` (around the decrement of `thread_active`). From `active` or
`claimed` on it holds `m_job_mutex`, so only what does not take that mutex comes between: the setting, `abort`, and
the reaper, which loads the idle count, exchanges the minimum for it and stores the number of exits in three steps
under `m_mutex`. The minimum may therefore exceed the idle count, and nothing is claimed of it.

**MmapDiskIO** composes `JobFence`, two `ThreadPool`s, the queues, the store
buffer and the files. One step is one critical section or one access to the files;
the `pc` of a thread names the place in `thread_fun`, `do_write`, `do_hash` or
`add_completed_jobs_impl`. The network thread is one more thread, because it executes
jobs itself when there are no disk threads. Of the reaper only what it leads to is kept: any
number of threads may be asked to exit at any time. A write job stands for the data it writes,
so what a read has seen is a write job. The history variable `reached` has the jobs in the order in which
they came to the fence; with it the storage's fence implements `DiskJobFence` (`ImplementsFence`): a job is
in progress from the moment the fence lets it through, wherever it is queued or held, until
`job_complete` is called for it.

**DiskBackpressure** has the pool's counters, flag and observers and, per peer, the
`bw_disk` and `bw_network` states, blocks requested, being written and written.
`ReceiveData`, `IncomingPiece`/`RequestGone`/`OutOfMemory` and `ReceiveDone` are the parts
of one `on_receive_data`: disk threads run between the blocks of one read. `CancelRequests` is what upload
mode and cancelled blocks do to the requests of a peer without the fast extension, in anybody's handler and without
a `setup_receive` after it.

**PiecePicker, PieceDownload.** `PiecePicker` is what the picker keeps of one piece, and the
operations of the download path on it. `PieceDownload` has the requests of each peer
(`queued` in `m_request_queue`, `sent` in `m_download_queue`, `dead` if timed out or not
wanted), the disk jobs without their answers, the file, and upload mode. Every handler
is one action. The disk is the abstraction `MmapDiskIO` justifies: `clear_piece` runs
alone and after all earlier jobs (`FenceSynchronizes`), a hash job sees what was written before it
(`ReadsSeeWrites`), every job is answered once (`JobsInOnePlace`,
`EveryHandlerCalled`). The *order* of answers is not something `MmapDiskIO`
gives: a completed job leaves the fence before it joins the list of completed
jobs, so handlers keep their order only among the jobs of one thread. With `OneIOThread = FALSE`, as in
`piece`, any order is possible. With TRUE (`aio_threads = 1`, as in `piece_decided`) the answers of a write and a
`clear_piece` job keep their order and those of hash jobs need not: `verify_piece` does not ask for sequential
access, so its job goes to the same queue, and the model allows more than the code does. The history variable
`forgotten` becomes TRUE when the picker drops the entry of the piece while a write or hash job of it is
outstanding. That is where the trouble of section 6 begins, as the picker cannot tell the late
answer from one that belongs to the next entry.

**PartFile** has the part file (`part`, `disk.header`, `disk.cells`), the storage's routing
(`prio`, `use`) and the torrent's priorities with the change that is outstanding and those that
were deferred. A *unit* is what a piece and a file share; its content is the number of the write it
comes from, and a slot holds the parts of a piece, so that two units of one piece may be in one slot.
A write to the part file is two steps (`TakeSlot` under `m_mutex`, `WriteSlot` outside it), a
`set_file_priority` job one step per file and two per piece that is exported. `Crash` may happen
between any two steps and keeps what is on disk; `Stop` is a clean shutdown. The ghosts `last`,
`durable` and `broken` remember what was written, what was written when resume data was saved
with `flush_disk_cache`, and the files whose export was not completed.

**ByteStream** says what a connection promises: per direction, the units written, in order and once, and
end of file after all of them.

**UtpStream** has two `utp_socket_impl`s (`sock`, with the members' names) and the packets on their
way (`net`). A handler of the code runs to its end before another starts, but may call `send_pkt`
several times, and each call may be refused by the UDP socket: `calls` holds what the running handler
has left to do, one step per call. A payload is the range of units it carries, so that what arrives is
compared with what was written by position. Time and the sizes of windows are left out: a timeout may
come whenever something is outstanding, and whether there is room in the window is a choice (with
nothing in flight there is, since `m_cwnd` is at least one packet). `ByteStream` is implemented with
`written` as what was put in packets and `received` as what the user was given.

**BtDemux** has three threads and their places in the code (`pc`): the push loop, the alerts thread of
`Session.cc`, the main thread; and of libtorrent the pieces, the calls of `read_piece` and
the alert queue with its batch. The stream's lock is held in the steps that take it; what the code does
outside it is a step of its own, among it `gst_bt_demux_stream_push_loop`'s pop before the lock and
`update_buffering` and `send_buffering` of the alerts thread. `down` is what the element
downstream has got since the last segment event. A seek has a stop position from `Stops`, negative for none, and the
end of the file is then computed as in the code, with a product that is an `int` (`IntOf`, `FileStop`;
`IntRange` is 2^31 there). `down.stop` is where the segment ends that downstream was told of.

## 3. Runs

States are distinct states, times are for two TLC workers.

| run | size | what it shows |
|---|---|---|
| `fence` | 5 jobs; 48 k | fence jobs are exclusive, blocked jobs have a waker, counters exact, order kept, every job completes, and the fence implements `StorageAccess`. |
| `pool` | 3 threads, settings 1 to 3, 2 queued jobs; 89 k, 20 s | idle count and thread list agree with the threads through settings, exits and the steps of the reaper; no thread exits on a non-empty queue; jobs are served; `abort` ends the threads. |
| `disk_reads` | 2 generic and 1 hash thread, four workloads of 3 to 4 jobs, disk errors; 504 k, about 2 min | reads and hashes see earlier writes, the store buffer holds exactly the unfinished writes, fence jobs run alone and synchronise, each job is in one place, completions are announced. |
| `disk_live` | 0, 1 or 2 generic threads, or 1 and a hashing thread, the setting changing, exceptions from the files, reaper, `abort` at any point and a job issued after it; 149 k, 3 to 4 min | every job is answered; after `abort` threads end, and by then the files are closed and the handlers have been called. |
| `backpressure` | 2 peers, a pool of one block, 3 blocks each, a send buffer, cancelled requests; 332 k, 80 s | a peer that does not read waits for the disk; one that waits has writes that wake it up and is not left out of the pool's message; every peer reads again and again. |
| `piece` | 2 blocks, 2 peers with the fast extension, any number of disk threads, disk full at up to 2 writes; 626 k, 70 s | what the picker takes for being written has a write job or its answer on the way; no request while a piece is being cleared; until an entry is dropped with a job outstanding, the picker's counters, the requests and the disk jobs agree, there is one write per block, none is asked for before its write is answered, and what we have is good and on disk. |
| `piece_decided` | one fast peer, one generic thread, disk never full; 24 k, 9 s | an announced piece is never lost; a complete piece is decided. |
| `demux` | 3 pieces, a file that ends in the second, in the third or with it, one or two seeks with or without a stop, seeding or downloading; 703 k, 2.5 min | in a segment that goes to the end of the file downstream gets contiguous bytes of the file and end of stream only at the end, in no case into a new segment; a seeder's file is played to the end. |
| `utp` | 6 units one way, or 3 and 1 both ways, 2 per packet, one fault, one side half-closing; 1.6 M, 2 to 3 min | the send buffer's accounts are exact, nothing is acked that was not received, each direction is a `ByteStream`. |
| `part_file` | 2 files, 2 pieces of which one is shared, 2 writes, 2 priority changes, 2 disk errors, 1 stop or crash; 5.6 M, 2.5 min | slots are never shared or lost; reads find the last write; what was saved survives a crash; an incomplete export destroys nothing. |
| `piece_stale_hash`, `file_priorities` | | counterexamples to what comments and documentation say, see [section 6](#6-where-the-code-and-its-comments-disagree). |

Why the bounds are enough:

* `Jobs` of `fence`: 5 jobs allow two fences with jobs before, between and behind them,
  which is as much structure as the release loop distinguishes. The proofs cover any number.
* `QueueBound = 2`, 3 threads: the pool starts at most as many threads as jobs; 3 threads let one
  exit, one work and one be idle while the maximum moves. The value 0 of the setting is left
  out of `pool` because of the behaviour described in section 6; `disk_live` has it as the
  value the session starts with.
* Workloads of `disk_reads`: two blocks written and read together; a read across one written and
  one unwritten block with a fence between; one block written twice with a read and a fence; a
  write, a full check's hash job and a fence job that cancels it. All jobs at once are out of
  reach; these are the combinations that share a store-buffer entry or a fence.
* `MaxBlocks = 3` in `backpressure`: with 2 no peer is ever stopped, as a peer may have
  two blocks in any case (the comment at `src/src/peer_connection.cpp:2932`). A pool of one block
  (`PoolSizes = {0}`, raised to 1 by `set_settings`) is the edge where the low watermark is 0.
  `MaxPosted` and `MaxSends` bound the messages and send buffers. All safety properties of this
  module are proved for any sizes and bounds.
* `disk_live`: a write and a fence job, which is what it takes for one to be parked behind another, and a
  read with the hash job of a full check, which a hashing thread runs beside it. A hash job and a fence job
  together may leave one queued (section 6), which is why `EveryHandlerCalled` is not checked of them;
  `ShutdownAnswersAll` covers them.
* `piece`: with two blocks a piece has a last and a not-last block, with two peers a
  block has one and two requests; the disk jobs of a piece are bounded by the blocks in
  flight. Blocks are interchangeable (`BlockSymmetry`), peers are not. No bound
  on the number of times a piece starts over is needed. Once an entry was dropped with a job outstanding the
  run goes on with at most two disk jobs (`FewJobsOnceForgotten`), for the two properties that hold regardless. More
  peers and blocks are covered by the proofs.
* `piece_decided` has one generic thread and no failing write because an announced piece is not kept, and a complete
  one not always decided, without (section 6); one peer with the fast extension and one without are enough.
* `demux`: a file that begins and ends inside a piece, with a piece between them, so that the first,
  middle and last piece differ; one that ends with the last piece, for which the product of the code exceeds
  `IntRange = 4`; and a shorter one with two seeks. A seek goes to any byte, has no stop position or one in the middle
  (`Stops = {-1, 2}`), and may come at any moment of the playback before it.
  `BufferPieces = 3` makes the buffering area reach the end of the file from its first piece.
* `utp`: `Modulus = 16` with `MaxReorder = 4` keeps the proportions by which wrapped numbers are told
  apart (twice the reorder window is less than the modulus), and the initiator's numbers wrap
  after its SYN. Three full packets are what a fast resend
  takes (one lost, and more than `DupAckLimit = 1` after it that are selectively acked); the other workload has an
  undersized packet for Nagle, and data the other way. One fault (a
  packet lost, duplicated, overtaken, refused, or a timeout that is early) at any place; the timeouts
  and resends that follow from it are not counted.
* `part_file`: a piece of one file and a piece of two are the two cases `export_file` distinguishes; two
  changes raise and lower a file, or defer one behind the other. Two errors let an export fail and the
  one that repeats it, or a write between them. The proofs cover any number of each.

Deadlock is checked except in `fence`, `demux`, `utp`, `part_file` and the counterexample
`file_priorities`, where the jobs may simply all be done, the file be played, the connection be
closed, and the bounds on writes, changes and restarts be used up.

## 4. Fairness

* Disk threads: weak fairness of each thread's next step. An idle thread wakes at least
  once a second (`wait_for`, `mmap_disk_io.cpp`), file operations return, and mutexes are held briefly.
* The event loop: strong fairness of `SubmitJobs`, `CallJobHandlers`,
  `OnDiskWriteComplete` and `WatermarkCallback`. They are messages already posted
  to the event loop's queue, which is served in order; other handlers may run in
  between and disable them for a moment (in the model the network thread runs one at a time),
  which is what makes weak fairness too weak. `session_impl::deferred_submit_jobs` posts
  the submission after every batch of jobs.
* `PieceDownload`: weak fairness of the disk running *some* job and of *some* handler being
  called.
* `BtDemux`: strong fairness of the alerts thread and of the main thread, which both wait for the
  stream's lock that the push loop takes and releases again and again; weak fairness of the push loop,
  of `read_piece` being answered and of the download. Nobody has to open a file or seek.
* `UtpStream` and `PartFile` are checked for safety only and state no fairness.
* Nothing is assumed of peers, of the user, of the timers that reap threads, nor of the
  peers that send buffers are for. `PeersKeepReading` holds although a send buffer may fill the
  pool for ever; `CompleteIsDecided` although no peer need answer anything.

## 5. Proofs

`DiskJobFenceProofs` proves, for any finite set of jobs (`JobsFinite`, the only
assumption), that each safety property of `DiskJobFence` holds and that it implements
`StorageAccess`. `FenceExclusive` is not inductive: that `job_complete` starts the right
job depends on the counters and on what is at the head of the queue. The invariant `IInv`
adds

* `Placed`: every job that arrived is in exactly one of queue, in progress, done;
* `TicketsDistinct`, `QueueOrdered`: the queue is in order of arrival, without repetition;
* `QueueHead`: unless a fence job is running the head of the queue is a fence job, and
  nothing is blocked without an unfinished fence job;
* `CountersExact`: the two counters the code decides by.

The key steps are what `Released` takes off the queue (lemmas on `LeadingJobs` and on the
cardinality of a prefix) and that the released jobs, all before the next fence, conflict with
nothing left in progress. The refinement follows from `IInv` before and after a step: the
set of started jobs only grows, by jobs for which `MayRun` holds.

`DiskBackpressureProofs` proves, for any finite set of peers, any pool sizes and bounds
(`BackpressureAssumption`), with requests cancelled at any moment, that a peer reads or waits (`PeersReadOrWait`), that one who
waits has writes outstanding (`WaitersHaveWrites`) and is on the list of observers or in a message to them
(`WaitersWillBeTold`). They need `CountsAgree` (the bytes a peer believes are being
written are what disk threads and posted completions hold, which is why the last completion
always comes), `HandlerReads` (at most one `on_receive_data` in progress, for a
peer that is reading) and `ObserversAwaited` (observers are registered only while the pool is
exceeded, and cleared with the flag).

`DiskIoThreadPoolProofs` proves, for any finite set of threads, any settings and bound of the queue, that
the pool's counts are exact (`IdleCountExact`) and that no thread exits while a job is queued
(`ExitsWithEmptyQueue`). `IInv` adds that `m_job_mutex` is held by one thread at a time (`OneHolder`), and that a job is
there while it goes active and none while it exits (`HeldQueue`): that is what makes the second halves
of `thread_active` and `try_thread_exit` safe. `ThreadPoolProofs` has what each operation of the pool does to its members.

`MmapDiskIOProofs` proves, for any finite sets of jobs and threads, any settings, disk errors, exceptions and
shutdown at any point:

* `DiskInvariant`: `DInv` is inductive. It says that the lists a job may be in (queues, the fence's, what
  threads hold, completed jobs, answered jobs) hold every issued job once (`OnePlace`, with lemmas on moving
  a prefix from one list to another), what a thread holds at each place of the code (`ThreadShape`), that jobs
  reach the fence in the order of issue (`Order`), that a job has a result exactly when it has been executed or
  failed (`ResultsExact`), and that the invariant of `DiskJobFence` holds under the refinement mapping.
* `DiskImplementsFence`: every step is a step of `DiskJobFence` or leaves it alone. What was proved about the fence thus
  holds of it between real queues and threads; `FenceJobsSynchronize` is the consequence for execution.
* `NoJobIsLost` and `DiskTypesHold`: with the counts of both pools (`PoolInv`: `m_num_running_threads` counts
  the threads past their start) each job is in one place and is answered at most once.
* `StoreBufferIsExact` and `ReadsSeeEarlierWrites`, while the session is not shut down and no file operation
  throws (`Undisturbed`). The restriction is the code's: `abort` fails the writes parked behind a fence without
  erasing their entries, and an exception leaves `do_write` before the erase (section 6). `BufferInv` says
  whose entry each entry is. For the reads `ReadInv` relates the file and the buffer to the *order of issue*: a
  block of the file holds a write no older than any that is done, an entry the newest issued write to the block, and a read or hash
  in progress has seen, or will find, a write at least as new as those before it.
  That a block is written again only after the torrent was told of the earlier write, or that the piece was
  cleared (`MayWriteAgain`), is what `OneWritePerBlock` of `PieceDownload` gives, and like it holds until a
  write fails.
* `FilesAreReleased`, without further assumptions: when the threads of both pools are gone, the files have been
  closed. `ReleaseInv` says that from the moment `abort()` has found threads until the files are closed there
  is a thread that has not left; `m_num_running_threads` being exact (`DiskTypes`), the last one knows that it is the last.
* `ShutdownAnswersAll`, with any number of generic and hashing threads, unless the setting takes the generic threads away
  or there are only hashing ones (`ThreadsRemain`); threads may be reaped and started again, jobs may be issued after
  `abort`, and files may fail. If there were hash jobs of a full check (`FullCheck`), only a job that is left in a queue may
  be unanswered. The restrictions are again the code's: section 6 says how jobs are stranded without them. `ShutInv` has what makes
  it work. Without a full check the hashing threads never start (`NoHashing`). The pool's vector holds the
  threads there are until it is aborted (`Registered`), so `abort_jobs` is called at once only when nobody
  runs. `job_queued` starts a thread for a queue that has none, so whatever is queued at `abort` has a thread
  (`QueueServed`); and as a thread exits only when its queue is empty, and a thread that releases jobs is not among
  those that exit, the last one leaves nothing behind. With no threads at all the network thread has emptied the queue
  before it comes back (`NoThreads`, `NetStage`). That nothing is parked then either is `NoLostWakeup` of the
  fence, through `DInv`; with a full check that is all that is left to show.

`PieceDownloadProofs` proves, for any number of blocks and peers and any order of answers, that what is marked as being
written is being written (`WritingIsWritten`, `FailureInv`), though writes fail and pieces start over, and that
nothing is requested while a piece is being cleared (`NoRequestsWhileClearing`). Until an entry of the picker is dropped with
a write or hash job of it outstanding (`forgotten`), and with any number of threads and failed writes, the picker's counts are
exact, one write per block is outstanding, no answer meets a block that is requested again, and what we have is good
(`EntryInv`). That condition is necessary: section 6 has the counterexamples. The heart is `HashesExact` and `PassedIsGood`: a
hash that was found good is the one of what the file holds or will hold, unless a write has failed whose answer will lock the
piece. The module begins with what each operation of the picker does to states and counters.

`PartFileProofs` proves, for any files, pieces and layout (`PartFileAssumption`: the units of a piece do not overlap) and any
bounds:

* `SlotsAreExact`: the map and the free list divide the allocated slots among them. The same holds of any header that
  was written, however old (`SlotMap(disk.header)`), which is why the constructor may take what it finds.
* `ReadsAreLastWrites`, with any disk errors and crashes: the invariant (`AllFound`) says where the data are in the middle of an export,
  and `OpenWhenUsed` that the file being exported to is still looked for in the part file. The content of a slot is
  compared part by part (`Holds`), as two files share a slot.
* `DataSurvives` and `ResumeDataProtect`, with any disk errors and crashes too. A file that exists is used unless it is being
  exported to or that failed (`ExistingAreUsed`); what a slot holds is the last write of its unit even then, and a piece
  without a slot was copied to the file before it lost it (`InSlots`), so that an export that is repeated copies nothing old over
  it; the torrent does not take a file for wanted that the storage still keeps in the part file (`PrioritiesAgree`); and
  `HeaderProtects`: of every unit that was there when resume data was saved, and of which there is no file, the header *on
  disk* has the slot that the map in memory has. That a slot is freed only by an export, whose file then exists, is what
  keeps an old header true. A failed write may spoil what was there, and counts as nothing written; files whose export was not
  completed (`broken`) are excepted in `SavedIsKept` and `ReadsSeeWrites`, not in `NothingDestroyed`.

`BtDemuxProofs` proves, for any length of pieces, any files of the torrent, any size of the buffering area, any number of
seeks with any stop positions, any width of `int` and any order of alerts (`DemuxAssumption`), that in a segment that goes to the
end of the file what the decoder is given is contiguous from the start of the segment
(`PushesAreContiguous`) and end of stream comes only at the end of the file (`EosIsAtEnd`, which also says of every segment
that a seek from the last push is not answered by it). `IInv` adds to the types

* `InFile`: the pieces that are queued, pushed or current are pieces of the file, and the current one is at most
  one before the segment;
* `FlushEnds`: a flush is noted before its seek starts the stream over, and the segment event that is then due ends it;
* `Current`: the push loop works on the current piece, unless a seek made in its own push has started the stream
  over; a buffer that is refused was refused because of the flush;
* `InPlace`: outside a flush, the bytes downstream has received end where the next piece begins;
* `Chained`: the buffers follow each other, within the file.

`FlushEnds` and `Current` are for the seek between the moment a piece is read and the moment it is pushed. A few lemmas
on the piece of a byte and the first byte of a piece (division and remainder) carry the arithmetic.

Only model-checked:

* liveness, which is out of the prover's reach: `EveryJobCompletes`, `JobsAreServed`, `AbortEndsThreads`,
  `EveryHandlerCalled`, `ShutdownEndsThreads`, `PeersKeepReading`, `CompleteIsDecided`, `ChainReaction`;
* `AnnouncedIsKept` of `PieceDownload`, which needs that no write fails;
* `UtpStream`. `OutbufExact` is about a sum over `m_outbuf`, and what `AckedIsReceived` and the refinement of
  `ByteStream` call received is the concatenation of the payloads in the reorder buffer: both are folds, and what a fold
  computes needs an induction over data. The last two also hold only as long as no duplicate
  is kept until its number comes round again, which the bounds of the run exclude and the code cannot tell.

## 6. Where the code and its comments disagree

With a run that shows it:

* `piece_stale_hash` - the disk is full, `on_piece_fail_sync` restores the piece, blocks that
  were still on their way complete it again, and a hash answer for the earlier content
  passes it. One such block comes from a request that was never cancelled: `incoming_piece`
  calls `cancel_block` after `mark_as_writing`, and `cancel_request` returns at once because the block is not
  `requested` any more, so end-game duplicates are in fact never cancelled ("if we requested this
  block from other peers, cancel it now", `peer_connection.cpp:2999`).
* `file_priorities` - `fix_priorities` has lost its test for pad files (`torrent.cpp:4993`), so that with
  metadata every priority above 0 becomes 0. It is reached without calling `prioritize_files`: a priority
  that is set while another change is outstanding is deferred, and when both are done every file is
  unwanted. The GTK file list sets the priorities of several files in a row
  (`gtk/FileList.cc:1301`). The documentation says that the priorities set take effect with the
  `file_prio_alert` (`torrent_handle.hpp:1135`).

Seen while modelling, without a run. The disk path:

* A hashing thread (it runs the hash jobs of a full check) that releases a fence job looks at `m_abort`, and appends the job to the generic queue
  after `abort()` has emptied it and stopped its pool (`mmap_disk_io.cpp:1806`, `1823`): the job's handler is
  never called, and the destructor's assertion that the queue is empty (line 482) does not hold. `disk_live`
  with that hash job before the fence job and `ShutdownCallsHandlers` without its exception for a full check
  shows it.
* The pool may be exceeded by more than the "one block per peer connection" of
  `disk_buffer_pool.cpp:120`: a peer without outstanding requests reads on although it waits
  for the disk (`peer_connection.cpp:6157`).
* Upload mode cancels all requests, and with a peer without the fast extension that lowers `m_outstanding_bytes` without
  a `setup_receive` (`peer_connection.cpp:3608`, `1572`): the peer goes on waiting for the disk though it expects no
  blocks, or reads again at its next write completion (line 3128) with the disk bit still set.
* `reap_idle_threads` loads the idle count and then exchanges the minimum for it
  (`disk_io_thread_pool.cpp:194`); a thread that goes active in between leaves a minimum above the idle count, and
  in the next period more threads may be asked to exit than were idle throughout.
* With several generic threads the handler of `clear_piece` may be called before the one of a write it waited
  for, because `job_complete` (`mmap_disk_io.cpp:1787`) comes before the job is appended to
  `m_completed_jobs` (line 1835): the piece is restored (`forgotten`) and asked for again, then the late completion arrives.
  `piece` shows it, once `AnsweredNotRequested` or `CountersExact` is stated without `~ forgotten`; with
  `OneIOThread = FALSE` `piece_decided` shows that such a piece may also stay undecided.
* After a failed write the piece is restored while blocks of requests that were not cancelled are still
  being written (peers with the fast extension keep them). With two such peers a block then has two writes
  (`OneWritePerBlock`), and the second `store_buffer::erase` looks for an entry that is not there
  (`store_buffer.hpp:130`); with three an answer meets a block that has been requested again, against the
  assertion on `num_peers` in `on_disk_write_complete`; with four the counters of the picker are wrong.
  `piece` with these properties, stated without `~ forgotten`, and more fast peers shows them.
* `set_max_threads(0)` after `abort()` overwrites the pending exit requests, and the detached
  threads stay (`disk_io_thread_pool.cpp:71`). `pool` with `MaxSettings = {0, 1}` shows it.
* With `aio_threads = 0` and `hashing_threads = 1` a fence job waits in the generic queue for ever:
  `add_fence_job` asks whether there are threads at all, not whether there are generic ones
  (`mmap_disk_io.cpp:1422`). The same happens if `aio_threads` drops to 0 between
  `add_job` and `submit_jobs`.
* Writes parked behind a fence at `abort` are failed, not flushed, and stay in the store buffer,
  which the destructor asserts is empty (`mmap_disk_io.cpp:465`, `1808`).
* A lowered maximum may be exceeded as long as there are jobs: `job_queued` withdraws exit requests.
* The last thread is recognised by a counter that a new thread increments only when it first runs; a
  hashing thread may clean up before a generic thread that was just started has run.
* `piece_passed` announces the piece to peers before its blocks are written ("Only if we have
  predictive_piece_announce on will we announce this piece to peers at this point",
  `torrent.cpp:3887`); if a write fails afterwards the peers have been told of a piece we do not have.
* `write_failed` locks the piece and then erases it, with the lock, if nothing else is in it
  (`piece_picker.cpp:3540`). Upload mode hides this for a full disk
  (`NoRequestsWhileClearing`); a write that fails for lack of memory only disconnects the peer.
* `async_write` may throw `bad_alloc` after the request was taken off `m_download_queue`
  (`peer_connection.cpp:2927`), which leaves the block requested in the picker.
* `immediate_execute` takes jobs off the generic queue without `m_job_mutex` (`mmap_disk_io.cpp:1487`), while a
  thread that has not exited yet may do the same; the model takes a job in one step on either side.

The part file and file priorities:

* An export that fails or is interrupted leaves the file created with its full size. After a restart
  `initialize` finds it and does not use the part file for it, so what was not exported yet is
  not found any more, though it is still there (`NothingDestroyed`). These files are `broken` in the model.
* An export that fails has freed the slots of the pieces it copied, but the file's priority stays 0, so
  reads look for them in the part file. An exception from the file (`mmap_storage.cpp:203`) also
  leaves `prio` as it was asked for, so that the torrent takes the change for done, also of the files after it.
* An export can fail without any disk error: the slot of a piece that two files share may end before the part of the file,
  if that part was never written, and `pread_all` reports a short read as `eof` (`file.cpp:171`). `TORRENT_ASSERT(!ec)` at
  `part_file.cpp:373` does not hold then, and the job ends with that error, the file created and its priority 0.
* The periodic flush of the header happens once: `thread_fun` calls `tick()` (`mmap_disk_io.cpp:1633`), not
  `do_tick()`, which would reset `m_need_tick` (`mmap_storage.hpp:136`). Between that and the next save of
  resume data or change of priorities a crash loses what was written to the part file. Resume data
  protect it only if saved with `flush_disk_cache`, which the application does not ask for.
* A flush with an empty map removes the file and leaves `m_dirty_metadata` set; the slot of a short last
  piece is never freed by an export.

µTP:

* `close()` while the socket is stalled: `send_fin` sets the state to `fin_sent` although `send_pkt` returned
  early, and the FIN is never sent. The comment of `writable()` (`utp_stream.cpp:1074`) says it will be.
* A FIN that comes before the SYN-ACK acks the SYN in state `syn_sent`; the socket may stay there for ever.
* An ack carried by a FIN does not start the send loop.
* The first timeout fails a socket that is not confirmed (`utp_stream.cpp:3406`), so `utp_syn_resends` has
  no effect.
* A duplicated SYN makes a second socket; there is no probe of a zero window; the loop that resends in
  `send_pkt` does not look at the FIN; `ST_RESET` is never sent.

The demuxer (`gtk/gstbt/gst_bt_demux.cpp`):

* The seek reads `old_buffering` after `gst_bt_demux_stream_activate` has cleared it (line 1357), so the
  player, told to wait before the seek, may not be told to go on.
* A seek within the area that is being buffered finds all missing pieces with top priority already, counts
  none, and reads a piece that we do not have: playback stops.
* A piece that has passed its hash is announced as finished before it is written; `have_piece` still says no,
  and no other alert comes. Playback may wait for ever. `ChainReaction` is therefore
  stated for seeders.
* The handler of `piece_finished` alerts updates the buffering level without the lock and may divide by a count
  that a seek has just set to 0 (the state `crashed`; nothing follows it in the model).
* The flags of the buffering area that the push loop leaves are fewer than the pieces `update_buffering` looks
  at (`garbage` in `Buffered`); `format` is used uninitialised in the seek.
* For a file that ends on the boundary of a piece `end_piece` is one too far: the piece after it is waited for, and if it is
  beyond the torrent's last piece end of stream is not sent.
* A seek without a stop position computes the end of the file with a product of two `int`s (line 1234), which overflows for files
  above 2 GiB: the segment then ends at a wrong place, before it begins even, and playback stops at a wrong piece.
  The three properties are therefore about segments that go to the end of the file.
* A piece behind the stop position of a seek may still be pushed.

## 7. What is not modelled

* `DiskIoThreadPool`, `MmapDiskIO`: `abort(true)` (the session uses `abort(false)`); several storages
  (they share only the queues); `get_status` and the file pool's closing of idle files.
* `DiskBackpressure`: rate limits (`m_quota`); a peer that may read has quota.
* `PieceDownload`: other pieces (which piece is picked is a free choice, so a request for this one is
  an action of its own); priorities, availability, parole, smart ban, pad and reverse blocks; write
  errors other than a full disk (they pause the torrent, or disconnect one peer); failing hash jobs;
  `operation_aborted`; `force_recheck`; failing allocations; leaving upload mode before the disk
  has answered.
* `PartFile`: `move_partfile`, `delete_files`, renaming and checking, `prioritize_files` called by the user,
  headers that are torn or lost by a power failure (a crash is a crash of the process).
* `UtpStream`: LEDBAT and the size of `m_cwnd`, the receive window, MTU discovery, close reasons, send errors other
  than a full socket buffer, `abort()`; liveness (the state graph is too large for the tableau).
* `BtDemux`: switching to another file and closing, flow errors other than flushing, queries, and
  everything downstream but what it received. The copy under `gtk/totem` is an older one.
* Not modelled at all: trackers, peer list, choker, bandwidth, smart ban, the wire protocol's extensions (all
  candidates below); the single-threaded disk back-ends (no queues or fences);
  port mapping, HTTP and resolver (glue over external services); bencoding, metadata and value types
  (parsing without shared state); the player's widgets and the vendored video player, which hold no protocol of
  their own. The map therefore covers a small part of
  all lines, and most of those in which threads, messages and crashes meet.

## 8. Plan

Done: the disk path, from the socket to the file and back (`JobFence` to `PieceDownload`), with two
abstract views (`StorageAccess`, and the disk as `PieceDownload` sees it), and proofs of its safety, shutdown
included; the part file and the demuxer, with proofs; µTP with its abstract stream, model-checked. Next, in this order:

1. `UtpStream` without folds (`m_bytes_in_flight` and the received units as functions of the packets), so that its
   invariants can be proved; a bound on the life of a packet, which they need once numbers wrap.
2. A disk specification between `MmapDiskIO` and `PieceDownload` (jobs answered once, fence
   semantics, order of answers), with `MmapDiskIO` shown to implement it.
3. `PieceDownload`: the remaining error paths (lack of memory, failing hash jobs, pause and resume).
4. `UdpTracker` (retries, connection ids, time-outs), `PeerList` (limits, eviction, candidates),
   `BandwidthManager` (nobody starves), `FileViewPool` (eviction against readers), `SmartBan`, `ut_metadata`.

## 9. Running the checks

In this directory:

```
tlc -workers 2 -config Fence.cfg MCDiskJobFence      # and likewise for the other runs
tlapm DiskJobFenceProofs.tla                         # and likewise for every other ...Proofs module
```

`MmapDiskIOProofs` takes longest, about twenty minutes with two threads; the others take minutes.

`PROJECT.json` lists the module and configuration of every run.

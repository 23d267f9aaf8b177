--------------------------- MODULE PieceDownload ---------------------------
(***************************************************************************)
(* The download of one piece of a torrent: peers are asked for blocks, the *)
(* blocks that arrive are handed to the disk, a complete piece is hashed,  *)
(* and the handlers of the disk jobs move the piece on (peer_connection,   *)
(* torrent and request_blocks, with the piece_picker between them).        *)
(*                                                                         *)
(* All of this runs on the network thread, one handler at a time; the disk *)
(* runs the jobs in the background.  What the disk promises here is what   *)
(* MmapDiskIO shows: a clear_piece job has the storage for itself, and a   *)
(* hash job sees the writes issued before it.                              *)
(*                                                                         *)
(* Which piece request_a_block picks from is its free choice, so asking    *)
(* for a block of this one is an action of its own, though the handlers    *)
(* below end in it.                                                        *)
(*                                                                         *)
(* The operators named BUG_... are wrong variants of the definition that   *)
(* follows them; no specification uses them.                               *)
(***************************************************************************)
EXTENDS PiecePicker, SequencesExt

CONSTANTS
    Peers,
    FastPeers,      \* the peers with the fast extension, which answer a cancel
    OneIOThread,    \* aio_threads is 1
    MaxFailedWrites \* how often a write may fail because the disk is full

ASSUME PeersAssumption ==
    /\ IsFiniteSet(Peers) /\ FastPeers \subseteq Peers
    /\ OneIOThread \in BOOLEAN /\ MaxFailedWrites \in Nat

VARIABLES
    picker,         \* the piece in the piece_picker
    req,            \* peer, block -> where the request is: in m_request_queue, sent
                    \*   (m_download_queue), dead (sent, but timed_out or not_wanted)
    jobs,           \* disk jobs whose handler has not been called, in the order issued
    disk,           \* what the file holds of each block
    upload_mode,    \* torrent::m_upload_mode
    announced,      \* history: torrent::we_have has told the peers about the piece
    failed,         \* history: how many writes have failed
    forgotten       \* history: the picker's entry was dropped with a write or hash of it
                    \*   outstanding, whose handler will take it for one of a later entry

pvars == <<picker, req, jobs, disk, upload_mode, announced, failed>>

vars == <<picker, req, jobs, disk, upload_mode, announced, failed, forgotten>>

Data == {"good", "bad"}

JobObject ==
    [kind : {"write", "hash", "sync", "fail_sync"}, block : Blocks \union {"all"},
     data : Data \union {"none"}, st : {"queued", "done", "failed"}]

Job(kind, b, data) == [kind |-> kind, block |-> b, data |-> data, st |-> "queued"]

Live == {"queued", "sent"}

Init ==
    /\ picker = Open
    /\ req = [p \in Peers |-> [b \in Blocks |-> "none"]]
    /\ jobs = <<>>
    /\ disk = [b \in Blocks |-> "none"]
    /\ upload_mode = FALSE
    /\ announced = FALSE
    /\ failed = 0
    /\ forgotten = FALSE
-----------------------------------------------------------------------------
(***************************************************************************)
(* Requests.                                                               *)
(***************************************************************************)

(* How many peers have a request for each block, in one of these places.   *)
Requests(r, places) == [b \in Blocks |-> Cardinality({p \in Peers : r[p][b] \in places})]

Requested(b) == [c \in Blocks |-> IF c = b THEN 1 ELSE 0]

(* The requests of peers ps that are in one of these places go away, and   *)
(* the picker is told of those it counts.                                  *)
Gone(r, ps, places) ==
    [p \in Peers |-> [b \in Blocks |-> IF p \in ps /\ r[p][b] \in places THEN "none" ELSE r[p][b]]]

Aborted(pk, r, ps, places) ==
    AbortDownload(pk, [b \in Blocks |-> Cardinality({p \in ps : r[p][b] \in places \intersect Live})])

(* request_a_block and add_request: a free block, or, for a peer with      *)
(* nothing else to do, one that another peer was asked for.                *)
BUG_AsksInUploadMode(p, b) ==
    /\ \/ b \in FreeBlocks(picker) /\ req[p][b] = "none"
       \/ b \in BusyBlocks(picker) /\ \A c \in Blocks : req[p][c] = "none"
    /\ picker' = MarkAsDownloading(picker, Requested(b))
    /\ req' = [req EXCEPT ![p][b] = "queued"]
    /\ UNCHANGED <<jobs, disk, upload_mode, announced, failed>>

RequestBlock(p, b) ==
    /\ ~ upload_mode
    /\ \/ b \in FreeBlocks(picker) /\ req[p][b] = "none"
       \/ b \in BusyBlocks(picker) /\ \A c \in Blocks : req[p][c] = "none"
    /\ picker' = MarkAsDownloading(picker, Requested(b))
    /\ req' = [req EXCEPT ![p][b] = "queued"]
    /\ UNCHANGED <<jobs, disk, upload_mode, announced, failed>>

(* send_block_requests_impl: a block that has arrived meanwhile is not     *)
(* asked for any more.                                                     *)
SendRequest(p, b) ==
    /\ ~ upload_mode
    /\ req[p][b] = "queued"
    /\ picker' = IF IsDownloaded(picker, b) THEN AbortDownload(picker, Requested(b)) ELSE picker
    /\ req' = [req EXCEPT ![p][b] = IF IsDownloaded(picker, b) THEN "none" ELSE "sent"]
    /\ UNCHANGED <<jobs, disk, upload_mode, announced, failed>>

(* incoming_choke.                                                         *)
IncomingChoke(p) ==
    /\ picker' = Aborted(picker, req, {p}, {"queued"})
    /\ req' = Gone(req, {p}, {"queued"})
    /\ UNCHANGED <<jobs, disk, upload_mode, announced, failed>>

IncomingRejectRequest(p, b) ==
    /\ req[p][b] \in {"sent", "dead"}
    /\ picker' = IF req[p][b] = "sent" THEN AbortDownload(picker, Requested(b)) ELSE picker
    /\ req' = [req EXCEPT ![p][b] = "none"]
    /\ UNCHANGED <<jobs, disk, upload_mode, announced, failed>>

(* snub_peer: the peer is slow.  Its last request is given up for others   *)
(* to take over, if it holds up the piece; the block may still come.       *)
SnubPeer(p, b) ==
    /\ req[p][b] = "sent"
    /\ LET unsent == Aborted(picker, req, {p}, {"queued"})
           holdsUp == unsent.state = "have" \/ ~ HasFreeBlocks(unsent)
       IN  /\ picker' = IF holdsUp THEN AbortDownload(unsent, Requested(b)) ELSE unsent
           /\ req' = [Gone(req, {p}, {"queued"}) EXCEPT ![p][b] = IF holdsUp THEN "dead" ELSE "sent"]
    /\ UNCHANGED <<jobs, disk, upload_mode, announced, failed>>

(* disconnect; another peer may take its place.                            *)
Disconnect(p) ==
    /\ picker' = Aborted(picker, req, {p}, Live)
    /\ req' = Gone(req, {p}, Live \union {"dead"})
    /\ UNCHANGED <<jobs, disk, upload_mode, announced, failed>>

(* cancel_block, cancel_request for every peer: none but of a block that   *)
(* is still requested, which cancel_request asks again for each peer: when *)
(* it no longer is, no peer is counted for it and the picker has nothing   *)
(* to abort.  A cancelled request stays in the queue, unwanted, until the  *)
(* peer answers; a peer without the fast extension is taken to have        *)
(* rejected it at once.                                                    *)
CancelBlock(pk, r, b) ==
    IF ~ IsRequested(pk, b) THEN [picker |-> pk, req |-> r]
    ELSE [picker |-> AbortDownload(pk, [c \in Blocks |-> IF c = b THEN Requests(r, {"queued"})[b] ELSE 0]),
          req    |-> [p \in Peers |-> [r[p] EXCEPT ![b] =
                        IF @ = "queued" THEN "none"
                        ELSE IF @ \in {"sent", "dead"} /\ p \in FastPeers THEN "dead"
                        ELSE "none"]]]
-----------------------------------------------------------------------------
(***************************************************************************)
(* Blocks that arrive.                                                     *)
(***************************************************************************)

(* verify_piece, when the last block is in.                                *)
VerifyPiece(pk, was_finished, js) ==
    IF IsPieceFinished(pk) /\ ~ was_finished
    THEN [picker |-> StartedHashJob(pk), jobs |-> Append(js, Job("hash", "all", "none"))]
    ELSE [picker |-> pk, jobs |-> js]

(* incoming_piece: a block we asked for, given up or not.  It is dropped   *)
(* if it has come from another peer already, and written otherwise.        *)
BUG_WritesDuplicates(p, b, d) ==
    /\ req[p][b] \in {"sent", "dead"}
    /\ LET gone == [req EXCEPT ![p][b] = "none"]
           v    == VerifyPiece(MarkAsWriting(picker, b), IsPieceFinished(picker),
                               Append(jobs, Job("write", b, d)))
       IN  /\ picker.state # "have"
           /\ req' = gone
           /\ picker' = v.picker
           /\ jobs' = v.jobs
    /\ UNCHANGED <<disk, upload_mode, announced, failed>>

IncomingPiece(p, b, d) ==
    /\ req[p][b] \in {"sent", "dead"}
    /\ LET gone == [req EXCEPT ![p][b] = "none"]
           c    == CancelBlock(MarkAsWriting(picker, b), gone, b)
           v    == VerifyPiece(c.picker, IsPieceFinished(picker), Append(jobs, Job("write", b, d)))
       IN  IF IsDownloaded(picker, b)
           THEN req' = gone /\ UNCHANGED <<picker, jobs>>
           ELSE req' = c.req /\ picker' = v.picker /\ jobs' = v.jobs
    /\ UNCHANGED <<disk, upload_mode, announced, failed>>
-----------------------------------------------------------------------------
(***************************************************************************)
(* The disk.                                                               *)
(***************************************************************************)
Clears == {"sync", "fail_sync"}

(* What a hash job finds of block b: a write that is still to be done, or  *)
(* what is on disk.                                                        *)
Found(b) ==
    LET pending == {i \in DOMAIN jobs : jobs[i].kind = "write" /\ jobs[i].block = b /\ jobs[i].st = "queued"}
    IN  IF pending = {} THEN disk[b] ELSE jobs[CHOOSE i \in pending : \A k \in pending : i <= k].data

(* Job i may run: no fence job before it is still to run, and if it is one *)
(* itself no job at all.                                                   *)
MayRun(i) ==
    /\ jobs[i].st = "queued"
    /\ \A k \in 1..(i - 1) : (jobs[i].kind \in Clears \/ jobs[k].kind \in Clears) => jobs[k].st # "queued"

RunJob(i) ==
    /\ MayRun(i)
    /\ LET j == jobs[i]
       IN  \/ /\ j.kind = "write"
              /\ disk' = [disk EXCEPT ![j.block] = j.data]
              /\ jobs' = [jobs EXCEPT ![i].st = "done"]
              /\ UNCHANGED failed
           \/ /\ j.kind = "write"
              /\ failed < MaxFailedWrites
              /\ failed' = failed + 1
              /\ jobs' = [jobs EXCEPT ![i].st = "failed"]
              /\ UNCHANGED disk
           \/ /\ j.kind = "hash"
              /\ jobs' = [jobs EXCEPT ![i].st = "done",
                             ![i].data = IF \A b \in Blocks : Found(b) = "good" THEN "good" ELSE "bad"]
              /\ UNCHANGED <<disk, failed>>
           \/ /\ j.kind \in Clears
              /\ jobs' = [jobs EXCEPT ![i].st = "done"]
              /\ UNCHANGED <<disk, failed>>
    /\ UNCHANGED <<picker, req, upload_mode, announced>>

(* The handler of job i is called.  The completed job gives way to a fence *)
(* job, or a fence job to those it held up, before it is put in the list   *)
(* of completed jobs itself: handlers keep that order only among jobs of   *)
(* one thread.  verify_piece asks for no sequential access, so that hash   *)
(* jobs share the threads of the others; that they may be answered in any  *)
(* order is more than one thread allows.                                   *)
InOrder(i, k) ==
    \/ "hash" \in {jobs[i].kind, jobs[k].kind}
    \/ {jobs[i].kind, jobs[k].kind} \intersect Clears = {}

Answered(i, kinds) ==
    /\ jobs[i].st # "queued"
    /\ jobs[i].kind \in kinds
    /\ OneIOThread => \A k \in 1..(i - 1) : InOrder(i, k)

(* on_disk_write_complete, for a block that was written.                   *)
OnDiskWriteComplete(i) ==
    /\ Answered(i, {"write"})
    /\ jobs[i].st = "done"
    /\ picker' = MarkAsFinished(picker, jobs[i].block)
    /\ jobs' = RemoveAt(jobs, i)
    /\ UNCHANGED <<req, disk, upload_mode, announced, failed>>

(* set_upload_mode(true), with cancel_all_requests for every peer.         *)
EnterUploadMode(pk, r) ==
    IF upload_mode THEN [picker |-> pk, req |-> r]
    ELSE LET unsent == Gone(r, Peers, {"queued"})
         IN  [picker |-> Aborted(Aborted(pk, r, Peers, {"queued"}), unsent, Peers \ FastPeers, {"sent"}),
              req    |-> Gone(unsent, Peers \ FastPeers, {"sent", "dead"})]

(* on_disk_write_complete, for a block that was not: the disk is full.     *)
OnDiskWriteError(i) ==
    /\ Answered(i, {"write"})
    /\ jobs[i].st = "failed"
    /\ LET b == jobs[i].block
           c == CancelBlock(picker, req, b)
           u == EnterUploadMode(WriteFailed(c.picker, b), c.req)
       IN  picker' = u.picker /\ req' = u.req
    /\ jobs' = Append(RemoveAt(jobs, i), Job("fail_sync", "all", "none"))
    /\ upload_mode' = TRUE
    /\ UNCHANGED <<disk, announced, failed>>

(* The tick that leaves upload mode again, ten minutes later: the disk is  *)
(* assumed to have answered by then, and the user not to leave it earlier. *)
LeaveUploadMode ==
    /\ upload_mode
    /\ jobs = <<>>
    /\ upload_mode' = FALSE
    /\ UNCHANGED <<picker, req, jobs, disk, announced, failed>>

(* on_piece_verified, when the hash job is answered...                     *)
Verified(i) == Answered(i, {"hash"}) /\ jobs' = RemoveAt(jobs, i)

(* ... for a piece that is no longer complete...                           *)
OnPieceVerifiedLate(i) ==
    /\ Verified(i)
    /\ ~ IsPieceFinished(CompletedHashJob(picker))
    /\ picker' = CompletedHashJob(picker)
    /\ UNCHANGED <<req, disk, upload_mode, announced, failed>>

(* ... with piece_passed...                                                *)
OnPiecePassed(i) ==
    /\ Verified(i)
    /\ IsPieceFinished(CompletedHashJob(picker)) /\ jobs[i].data = "good"
    /\ picker' = PiecePassed(CompletedHashJob(picker))
    /\ announced' = TRUE
    /\ UNCHANGED <<req, disk, upload_mode, failed>>

(* ... and with piece_failed, which bans peers that are to blame, locks    *)
(* the piece and synchronises with the disk.                               *)
OnPieceFailed(i) ==
    /\ Answered(i, {"hash"})
    /\ IsPieceFinished(CompletedHashJob(picker)) /\ jobs[i].data = "bad"
    /\ \E banned \in SUBSET Peers :
          /\ picker' = LockPiece(Aborted(CompletedHashJob(picker), req, banned, Live))
          /\ req' = Gone(req, banned, Live \union {"dead"})
    /\ jobs' = Append(RemoveAt(jobs, i), Job("sync", "all", "none"))
    /\ UNCHANGED <<disk, upload_mode, announced, failed>>

(* on_piece_sync: the piece starts over; the requests that are still       *)
(* outstanding are counted again.                                          *)
OnPieceSync(i) ==
    /\ Answered(i, {"sync"})
    /\ jobs' = RemoveAt(jobs, i)
    /\ picker' = MarkAsDownloading(RestorePiece(picker), Requests(req, Live))
    /\ UNCHANGED <<req, disk, upload_mode, announced, failed>>

(* on_piece_fail_sync: the piece starts over.                              *)
OnPieceFailSync(i) ==
    /\ Answered(i, {"fail_sync"})
    /\ jobs' = RemoveAt(jobs, i)
    /\ picker' = RestorePiece(picker)
    /\ UNCHANGED <<req, disk, upload_mode, announced, failed>>
-----------------------------------------------------------------------------
CallHandler(i) ==
    \/ OnDiskWriteComplete(i) \/ OnDiskWriteError(i) \/ OnPieceVerifiedLate(i) \/ OnPiecePassed(i)
    \/ OnPieceFailed(i) \/ OnPieceSync(i) \/ OnPieceFailSync(i)

PeerStep ==
    \E p \in Peers :
        \/ IncomingChoke(p) \/ Disconnect(p)
        \/ \E b \in Blocks :
              \/ RequestBlock(p, b) \/ SendRequest(p, b) \/ IncomingRejectRequest(p, b) \/ SnubPeer(p, b)
              \/ \E d \in Data : IncomingPiece(p, b, d)

Disk == \E i \in DOMAIN jobs : RunJob(i)

Handlers == \E i \in DOMAIN jobs : CallHandler(i)

Step == PeerStep \/ Disk \/ Handlers \/ LeaveUploadMode

(* The entry of a piece goes, or on_piece_sync or on_piece_fail_sync       *)
(* restores it.                                                            *)
EntryDropped ==
    /\ Downloading(picker)
    /\ \/ picker'.state = "open"
       \/ \E i \in DOMAIN jobs : jobs[i].kind \in Clears /\ jobs' = RemoveAt(jobs, i)

Forgets == EntryDropped /\ \E i \in DOMAIN jobs' : jobs'[i].kind \in {"write", "hash"}

Next == Step /\ forgotten' = (forgotten \/ Forgets)

Spec == Init /\ [][Next]_vars

(* The disk runs its jobs and the event loop calls their handlers; the     *)
(* peers owe us nothing.                                                   *)
FairSpec == Spec /\ WF_pvars(Disk) /\ WF_pvars(Handlers)
-----------------------------------------------------------------------------
(***************************************************************************)
(* Properties.                                                             *)
(***************************************************************************)
Outstanding(kinds) == {i \in DOMAIN jobs : jobs[i].kind \in kinds}

Writes(b) == {i \in Outstanding({"write"}) : jobs[i].block = b}

BlocksIn(state) == {b \in Blocks : picker.block[b] = state}

(* The types of the state; none of the picker's counters goes below zero.  *)
TypeOK ==
    /\ picker \in Piece
    /\ req \in [Peers -> [Blocks -> Live \union {"none", "dead"}]]
    /\ jobs \in Seq(JobObject)
    /\ disk \in [Blocks -> Data \union {"none"}]
    /\ {upload_mode, announced, forgotten} \subseteq BOOLEAN
    /\ failed \in 0..MaxFailedWrites

(* The counters by which the picker sorts its pieces and recognises a      *)
(* complete one agree with the states of the blocks, whatever order        *)
(* requests, late blocks, timeouts, failures and completions come in and   *)
(* however many threads run the jobs, and every request that it counts is  *)
(* in the queue of a peer: no block stays requested with nobody to deliver *)
(* it.  All of that until an entry is dropped with a job of it             *)
(* outstanding, from which mark_as_finished cannot tell its late answer.   *)
CountersExact ==
    ~ forgotten =>
        /\ TypeOK
        /\ \A b \in Blocks :
               /\ picker.num_peers[b] <= Requests(req, Live)[b]
               /\ picker.block[b] = "requested" => picker.num_peers[b] > 0
        /\ picker.requested = Cardinality(BlocksIn("requested"))
        /\ picker.writing = Cardinality(BlocksIn("writing"))
        /\ picker.finished = Cardinality(BlocksIn("finished"))

(* A block is never handed to the disk while an earlier write of it is     *)
(* unanswered, nor when it is on disk already: the store buffer has room   *)
(* for one, and a late completion could not be told from an early one.     *)
(* Only dropping the entry lets the block be asked for before its write is *)
(* answered.                                                               *)
OneWritePerBlock ==
    ~ forgotten =>
        \A b \in Blocks : Cardinality(Writes(b)) <= IF picker.block[b] = "finished" THEN 0 ELSE 1

(* The counts by which the picker recognises a complete piece are exact    *)
(* and true, even after writes have failed: a block it takes for being     *)
(* written has a write job that will say so, and one it takes for written  *)
(* has been.                                                               *)
WritingIsWritten ==
    /\ picker.writing = Cardinality(BlocksIn("writing"))
    /\ picker.finished = Cardinality(BlocksIn("finished"))
    /\ \A b \in BlocksIn("writing") : Writes(b) # {}
    /\ \A b \in BlocksIn("finished") : disk[b] # "none"

(* What we have is what the hash stands for, on disk, even if the hash     *)
(* job saw blocks that were only in memory and whose write failed later.   *)
HaveIsGood == picker.state = "have" => \A b \in Blocks : disk[b] = "good"

(* The only way to have a piece that is not good is an answer that comes   *)
(* after the entry it was meant for is gone: as long as none was dropped   *)
(* with a job outstanding, neither threads that overtake each other nor    *)
(* writes that fail after the hash job has seen them spoil what we have.   *)
GoodUntilForgotten == ~ forgotten => HaveIsGood

(* "this will block any other peer from issuing requests to this piece,    *)
(* until we've cleared it": no request is made for the piece while a       *)
(* clear_piece job is outstanding.  write_failed may take the piece it has *)
(* locked out of the picker's lists, and the lock with it; upload mode     *)
(* then keeps the peers from asking.                                       *)
NoRequestsWhileClearing ==
    [][Outstanding(Clears) # {} =>
          \A p \in Peers, b \in Blocks : req[p][b] = "none" => req'[p][b] = "none"]_vars

(* on_disk_write_complete asserts picker.num_peers(block_finished) == 0:   *)
(* nobody is asked for a block again before its write is answered, with    *)
(* any number of threads, unless the entry is dropped meanwhile.           *)
AnsweredNotRequested ==
    ~ forgotten =>
        \A i \in Outstanding({"write"}) : jobs[i].st = "done" => picker.num_peers[jobs[i].block] = 0

(* A piece that the peers were told of stays: nothing that comes in later  *)
(* can spoil or restart it, although it is announced as soon as its hash   *)
(* is right, while blocks of it are still to be written.                   *)
AnnouncedIsKept ==
    announced => \/ picker.state = "have"
                 \/ picker.passed /\ IsPieceFinished(picker) /\ \A b \in Blocks : Found(b) = "good"

(* What makes the properties above inductive.  First what holds whatever   *)
(* the disk does and however many threads it has: the shape of the picker's*)
(* entry and of the jobs...                                                *)
PickerShape ==
    /\ picker.state # "downloading" => picker = PieceIn(picker.state)
    /\ picker.requested >= Cardinality(BlocksIn("requested"))

JobShape ==
    \A i \in DOMAIN jobs :
        /\ jobs[i].kind = "write" => jobs[i].block \in Blocks /\ jobs[i].data \in Data
        /\ jobs[i].kind = "write" /\ jobs[i].st = "done" => disk[jobs[i].block] # "none"
        /\ jobs[i].st = "failed" => jobs[i].kind = "write" /\ failed > 0

(* ... and, outside upload mode, that a hash job is followed by at most    *)
(* one clear_piece job, both for a complete piece, and that no other one   *)
(* is outstanding at the time.                                             *)
Deciding ==
    \/ upload_mode
    \/ /\ \A i, k \in Outstanding({"hash"} \union Clears) : i = k
       /\ \A i \in Outstanding({"hash"}) :
             Downloading(picker) /\ IsPieceFinished(picker) /\ picker.hashing
       /\ \A i \in Outstanding(Clears) :
             Downloading(picker) /\ IsPieceFinished(picker) /\ picker.locked /\ ~ picker.passed

FailureInv == TypeOK /\ PickerShape /\ JobShape /\ WritingIsWritten /\ Deciding

(* Then what holds as long as no job outlives its entry: the picker counts *)
(* requests exactly, a block is being written if and only if one write of  *)
(* it is outstanding...                                                    *)
RequestsExact ==
    /\ picker.requested = Cardinality(BlocksIn("requested"))
    /\ \A b \in Blocks :
          /\ picker.num_peers[b] <= Requests(req, Live)[b]
          /\ picker.block[b] = "requested" <=> picker.num_peers[b] > 0

WritesExact ==
    \A i \in Outstanding({"write"}) :
        /\ picker.block[jobs[i].block] = "writing"
        /\ \A k \in Outstanding({"write"}) : jobs[k].block = jobs[i].block => k = i

(* ... and a hash that was found good is that of what the file holds or    *)
(* will hold when the writes are done, unless one has failed that is still *)
(* to be answered, and will lock the piece.                                *)
Holds ==
    \A b \in Blocks : Found(b) = "good" \/ \E i \in Writes(b) : jobs[i].st = "failed"

HashesExact ==
    \A i \in Outstanding({"hash"}) :
        /\ Downloading(picker)
        /\ \/ picker.locked
           \/ /\ IsPieceFinished(picker) /\ ~ picker.passed
              /\ Outstanding({"hash"}) = {i}
              /\ jobs[i].st # "queued" /\ jobs[i].data = "good" => Holds

PassedIsGood ==
    picker.passed =>
        ~ picker.locked /\ IsPieceFinished(picker) /\ Outstanding({"hash"}) = {} /\ Holds

EntryInv == RequestsExact /\ WritesExact /\ HashesExact /\ PassedIsGood /\ HaveIsGood

IInv == FailureInv /\ (~ forgotten => EntryInv)

(* A complete piece does not stay undecided: we come to have it, or it     *)
(* starts over.                                                            *)
CompleteIsDecided ==
    (Downloading(picker) /\ IsPieceFinished(picker)) ~> ~ (Downloading(picker) /\ IsPieceFinished(picker))
=============================================================================

-------------------------- MODULE DiskBackpressure --------------------------
(***************************************************************************)
(* Back-pressure from the disk to the peers: disk_buffer_pool              *)
(* (src/disk_buffer_pool.cpp) counts the block buffers in use, and         *)
(* peer_connection (src/peer_connection.cpp) stops reading from its socket *)
(* when it is told that there are too many.  A stopped peer reads again    *)
(* when the pool posts it a message, or when its own writes are done.      *)
(*                                                                         *)
(* The pool's operations run under m_pool_mutex, on the network thread and *)
(* on the disk threads; peers live on the network thread, one handler at a *)
(* time.  A handler that receives data allocates a buffer for each block   *)
(* in it, and disk threads may run between two of them.                    *)
(*                                                                         *)
(* The operators named BUG_... are wrong variants of the definition that   *)
(* follows them; no specification uses them.                               *)
(***************************************************************************)
EXTENDS Integers, Sequences, FiniteSets

CONSTANTS
    Peers,
    PoolSizes,      \* values of max_queued_disk_bytes, in blocks
    BlocksPerRead,  \* bound: blocks in what one read from the socket returns
    MaxBlocks,      \* bound: blocks a peer has requested or is writing
    MaxPosted,      \* bound: messages posted to the network thread when it reads a socket
    MaxSends        \* bound: buffers holding blocks that are being sent

ASSUME BackpressureAssumption ==
    /\ IsFiniteSet(Peers)
    /\ PoolSizes \subseteq Nat
    /\ {BlocksPerRead, MaxBlocks, MaxPosted, MaxSends} \subseteq Nat

VARIABLES
    pool,           \* the disk_buffer_pool object
    posted,         \* watermark_callback messages on their way, as the peers they are for
    writing,        \* peer -> its blocks in the hands of the disk threads
    written,        \* peer -> its blocks written, handler not yet called
    m_outstanding,          \* peer -> m_outstanding_bytes (requested, not received), in blocks
    m_outstanding_writing,  \* peer -> m_outstanding_writing_bytes, in blocks
    bw_disk,        \* peers that wait for the disk
    bw_network,     \* peers that read from their socket
    connected,
    handler,        \* the on_receive_data in progress: the peer, the blocks left
    sending         \* send buffers in use

vars == <<pool, posted, writing, written, m_outstanding, m_outstanding_writing, bw_disk,
          bw_network, connected, handler, sending>>

peerVars == <<writing, written, m_outstanding, m_outstanding_writing, bw_disk, bw_network, connected>>

NoHandler == [peers |-> {}, left |-> 0]
-----------------------------------------------------------------------------
(***************************************************************************)
(* disk_buffer_pool.                                                       *)
(***************************************************************************)

(* set_settings (and the constructor, with other numbers).                 *)
LowWatermark(p) == p.m_max_use \div 2

SetSettings(p, blocks) ==
    LET max_use == IF blocks < 1 THEN 1 ELSE blocks
    IN  [p EXCEPT !.m_max_use = max_use,
                  !.m_exceeded_max_size = @ \/ p.m_in_use >= max_use]

NewPool == [m_in_use |-> 0, m_max_use |-> 64, m_exceeded_max_size |-> FALSE, m_observers |-> {}]

(* allocate_buffer_impl, when there is memory and when there is none.      *)
Allocated(p) ==
    LET in_use == p.m_in_use + 1
        low    == LowWatermark(p)
    IN  [p EXCEPT !.m_in_use = in_use,
                  !.m_exceeded_max_size = @ \/ in_use >= low + (p.m_max_use - low) \div 2]

AllocationFailed(p) == [p EXCEPT !.m_exceeded_max_size = TRUE]

(* allocate_buffer(exceeded, o): whoever is told that the pool is exceeded *)
(* is also in the list of those to be told when it no longer is.           *)
Observed(p, o) ==
    IF p.m_exceeded_max_size THEN [p EXCEPT !.m_observers = @ \union {o}] ELSE p

(* free_buffer: below the low watermark check_buffer_level posts a message *)
(* to the observers.  (One without observers has no effect.)               *)
Freed(p) ==
    LET freed == [p EXCEPT !.m_in_use = @ - 1]
    IN  IF p.m_exceeded_max_size /\ freed.m_in_use <= LowWatermark(p)
        THEN [freed EXCEPT !.m_exceeded_max_size = FALSE, !.m_observers = {}] ELSE freed

BUG_OneMessageAtATime ==
    /\ pool' = Freed(pool)
    /\ posted' = IF pool.m_observers # {} /\ pool'.m_observers = {} /\ posted = <<>>
                 THEN Append(posted, pool.m_observers) ELSE posted

FreeBuffer ==
    /\ pool' = Freed(pool)
    /\ posted' = IF pool.m_observers # {} /\ pool'.m_observers = {}
                 THEN Append(posted, pool.m_observers) ELSE posted
-----------------------------------------------------------------------------
Init ==
    /\ \E n \in PoolSizes : pool = SetSettings(NewPool, n)
    /\ posted = <<>>
    /\ writing = [p \in Peers |-> 0]
    /\ written = [p \in Peers |-> 0]
    /\ m_outstanding = [p \in Peers |-> 0]
    /\ m_outstanding_writing = [p \in Peers |-> 0]
    /\ bw_disk = {}
    /\ bw_network = Peers
    /\ connected = Peers
    /\ handler = NoHandler
    /\ sending = 0

NetIdle == handler = NoHandler

(* send_block_requests_impl, which is always deferred: it runs after the   *)
(* handler that wanted the block, and after its setup_receive.             *)
SendBlockRequests(p) ==
    /\ NetIdle
    /\ p \in connected
    /\ m_outstanding[p] + m_outstanding_writing[p] < MaxBlocks
    /\ m_outstanding' = [m_outstanding EXCEPT ![p] = @ + 1]
    /\ UNCHANGED <<pool, posted, writing, written, m_outstanding_writing, bw_disk, bw_network,
                   connected, handler, sending>>

(* on_receive_data starts: the data completes none, one or several of the  *)
(* blocks that were requested.                                             *)
ReceiveData(p, blocks) ==
    /\ NetIdle
    /\ p \in connected \intersect bw_network
    /\ blocks <= m_outstanding[p]
    /\ Len(posted) <= MaxPosted
    /\ handler' = [peers |-> {p}, left |-> blocks]
    /\ UNCHANGED <<pool, posted, peerVars, sending>>

(* A block that is not written: the peer rejects the request or chokes us, *)
(* or the block has meanwhile come from somebody else.                     *)
RequestGone(p) ==
    /\ p \in handler.peers /\ handler.left > 0
    /\ m_outstanding' = [m_outstanding EXCEPT ![p] = @ - 1]
    /\ handler' = [handler EXCEPT !.left = @ - 1]
    /\ UNCHANGED <<pool, posted, writing, written, m_outstanding_writing, bw_disk, bw_network,
                   connected, sending>>

(* cancel_all_requests (set_upload_mode, for every peer) and cancel_request *)
(* (a block another peer has sent, or whose write failed): write_cancel    *)
(* takes the requests of a peer without the fast extension for rejected.   *)
(* This happens in anybody's handler, and no setup_receive follows.        *)
CancelRequests(p, blocks) ==
    /\ p \in connected
    /\ blocks <= m_outstanding[p] - (IF p \in handler.peers THEN handler.left ELSE 0)
    /\ m_outstanding' = [m_outstanding EXCEPT ![p] = @ - blocks]
    /\ UNCHANGED <<pool, posted, writing, written, m_outstanding_writing, bw_disk, bw_network,
                   connected, handler, sending>>

(* incoming_piece_fragment and incoming_piece, with async_write: a peer    *)
(* that is told the pool is exceeded waits, unless it has no other write   *)
(* outstanding.                                                            *)
IncomingPiece(p) ==
    /\ p \in handler.peers /\ handler.left > 0
    /\ pool' = Observed(Allocated(pool), p)
    /\ bw_disk' = IF pool'.m_exceeded_max_size /\ m_outstanding_writing[p] > 0
                  THEN bw_disk \union {p} ELSE bw_disk
    /\ m_outstanding' = [m_outstanding EXCEPT ![p] = @ - 1]
    /\ m_outstanding_writing' = [m_outstanding_writing EXCEPT ![p] = @ + 1]
    /\ writing' = [writing EXCEPT ![p] = @ + 1]
    /\ handler' = [handler EXCEPT !.left = @ - 1]
    /\ UNCHANGED <<posted, written, bw_network, connected, sending>>

(* async_write throws bad_alloc: the exception disconnects the peer.       *)
OutOfMemory(p) ==
    /\ p \in handler.peers /\ handler.left > 0
    /\ pool' = Observed(AllocationFailed(pool), p)
    /\ bw_disk' = bw_disk \ {p}
    /\ connected' = connected \ {p}
    /\ m_outstanding' = [m_outstanding EXCEPT ![p] = 0]
    /\ handler' = NoHandler
    /\ UNCHANGED <<posted, writing, written, m_outstanding_writing, bw_network, sending>>

(* setup_receive, for the peers in S: one that may read (can_read), does.  *)
(* A peer that waits for the disk does not if it expects blocks.           *)
SetupReceive(S, waiting) == {p \in S \intersect connected : p \notin waiting \/ m_outstanding[p] = 0}

(* on_receive_data ends.                                                   *)
ReceiveDone ==
    /\ handler.peers # {} /\ handler.left = 0
    /\ bw_network' = (bw_network \ handler.peers) \union SetupReceive(handler.peers, bw_disk)
    /\ handler' = NoHandler
    /\ UNCHANGED <<pool, posted, writing, written, m_outstanding, m_outstanding_writing, bw_disk,
                   connected, sending>>

(* A disk thread has written a block of p and frees its buffer.            *)
DiskWrites(p) ==
    /\ writing[p] > 0
    /\ writing' = [writing EXCEPT ![p] = @ - 1]
    /\ written' = [written EXCEPT ![p] = @ + 1]
    /\ FreeBuffer
    /\ UNCHANGED <<m_outstanding, m_outstanding_writing, bw_disk, bw_network, connected, handler, sending>>

(* on_disk_write_complete: with nothing outstanding the peer need not wait *)
(* for the disk any longer.                                                *)
BUG_WaitsForOthers(p) ==
    /\ NetIdle
    /\ written[p] > 0
    /\ written' = [written EXCEPT ![p] = @ - 1]
    /\ m_outstanding_writing' = [m_outstanding_writing EXCEPT ![p] = @ - 1]
    /\ bw_network' = bw_network \union SetupReceive({p}, bw_disk)
    /\ UNCHANGED <<pool, posted, writing, m_outstanding, bw_disk, connected, handler, sending>>

OnDiskWriteComplete(p) ==
    /\ NetIdle
    /\ written[p] > 0
    /\ written' = [written EXCEPT ![p] = @ - 1]
    /\ m_outstanding_writing' = [m_outstanding_writing EXCEPT ![p] = @ - 1]
    /\ bw_disk' = IF m_outstanding_writing[p] = 1 THEN bw_disk \ {p} ELSE bw_disk
    /\ bw_network' = bw_network \union SetupReceive({p}, bw_disk')
    /\ UNCHANGED <<pool, posted, writing, m_outstanding, connected, handler, sending>>

(* watermark_callback: on_disk for every peer it was posted for.           *)
BUG_WokenButNotReading ==
    /\ NetIdle
    /\ posted # <<>>
    /\ posted' = Tail(posted)
    /\ bw_disk' = bw_disk \ Head(posted)
    /\ UNCHANGED <<pool, writing, written, m_outstanding, m_outstanding_writing, bw_network, connected,
                   handler, sending>>

WatermarkCallback ==
    /\ NetIdle
    /\ posted # <<>>
    /\ posted' = Tail(posted)
    /\ LET woken == Head(posted) \intersect bw_disk
       IN  /\ bw_disk' = bw_disk \ woken
           /\ bw_network' = bw_network \union SetupReceive(woken, {})
    /\ UNCHANGED <<pool, writing, written, m_outstanding, m_outstanding_writing, connected, handler, sending>>

(* disconnect, for whatever reason and from within any handler; an         *)
(* on_receive_data of the same peer ends there.                            *)
Disconnect(p) ==
    /\ p \in connected
    /\ connected' = connected \ {p}
    /\ bw_disk' = bw_disk \ {p}
    /\ m_outstanding' = [m_outstanding EXCEPT ![p] = 0]
    /\ handler' = IF p \in handler.peers THEN NoHandler ELSE handler
    /\ UNCHANGED <<pool, posted, writing, written, m_outstanding_writing, bw_network, sending>>

(* Buffers for blocks that are read and sent come from the same pool, but  *)
(* nobody waits for them (allocate_buffer without an observer).            *)
AllocateSendBuffer ==
    /\ sending < MaxSends
    /\ pool' = Allocated(pool)
    /\ sending' = sending + 1
    /\ UNCHANGED <<posted, peerVars, handler>>

FreeSendBuffer ==
    /\ sending > 0
    /\ FreeBuffer
    /\ sending' = sending - 1
    /\ UNCHANGED <<peerVars, handler>>

SettingsUpdated(n) ==
    /\ NetIdle
    /\ pool' = SetSettings(pool, n)
    /\ UNCHANGED <<posted, peerVars, handler, sending>>

Next ==
    \/ \E p \in Peers :
          \/ SendBlockRequests(p)
          \/ \E n \in 0..BlocksPerRead : ReceiveData(p, n)
          \/ \E n \in 1..MaxBlocks : CancelRequests(p, n)
          \/ IncomingPiece(p) \/ RequestGone(p) \/ OutOfMemory(p)
          \/ DiskWrites(p) \/ OnDiskWriteComplete(p) \/ Disconnect(p)
    \/ ReceiveDone \/ WatermarkCallback \/ AllocateSendBuffer \/ FreeSendBuffer
    \/ \E n \in PoolSizes : SettingsUpdated(n)

Spec == Init /\ [][Next]_vars

(* The disk threads write what they are given (module MmapDiskIO), and the *)
(* network thread runs its handlers to the end and calls those that were   *)
(* posted.  Nothing is assumed of the peers the send buffers are for.      *)
FairSpec ==
    /\ Spec
    /\ \A p \in Peers : /\ WF_vars(DiskWrites(p))
                        /\ WF_vars(IncomingPiece(p) \/ RequestGone(p) \/ OutOfMemory(p))
                        /\ SF_vars(OnDiskWriteComplete(p))
    /\ WF_vars(ReceiveDone)
    /\ SF_vars(WatermarkCallback)
-----------------------------------------------------------------------------
(* The types of the state; the counters stay natural numbers.              *)
TypeOK ==
    /\ pool \in [m_in_use : Nat, m_max_use : Nat, m_exceeded_max_size : BOOLEAN, m_observers : SUBSET Peers]
    /\ posted \in Seq(SUBSET Peers)
    /\ {writing, written, m_outstanding, m_outstanding_writing} \subseteq [Peers -> Nat]
    /\ bw_disk \subseteq Peers /\ bw_network \subseteq Peers /\ connected \subseteq Peers
    /\ handler \in [peers : SUBSET Peers, left : Nat]
    /\ sending \in Nat

(* A peer that waits for the disk has writes of its own outstanding, so it *)
(* is woken up even if the pool never drops below the low watermark again  *)
(* (the send buffers may keep it there) or the message was for others.     *)
WaitersHaveWrites ==
    \A p \in bw_disk : writing[p] + written[p] > 0 /\ m_outstanding_writing[p] = writing[p] + written[p]

(* Peers in the list of observers are there because the pool is exceeded,  *)
(* so check_buffer_level will get to them.                                 *)
ObserversAwaited == pool.m_observers # {} => pool.m_exceeded_max_size

(* A peer that waits for the disk is on the list of observers or in a      *)
(* message on its way: check_buffer_level, which forgets the observers it  *)
(* has posted a message to, never leaves it out.                           *)
WaitersWillBeTold ==
    \A p \in bw_disk : p \in pool.m_observers \/ \E i \in DOMAIN posted : p \in posted[i]

(* No peer is left alone: one that is connected reads from its socket or   *)
(* handles what it read; if it does not, then because it waits for the     *)
(* disk.  This is so although requests are cancelled behind its back, with *)
(* no setup_receive to follow, and it no longer expects any blocks.        *)
PeersReadOrWait == connected \subseteq bw_network \union bw_disk

(* Every peer that was stopped gets to read again.                         *)
PeersKeepReading == \A p \in Peers : []<>(p \in bw_network \/ p \notin connected)

(* The inductive invariant behind these.  Two facts are added: the         *)
(* writes a peer counts are those the disk has or has just finished, and   *)
(* the handler in progress is that of one connected peer that reads.  The  *)
(* buffer count is left out: no peer depends on its being right.           *)
PoolObject ==
    [m_in_use : Int, m_max_use : Int, m_exceeded_max_size : BOOLEAN, m_observers : SUBSET Peers]

CountsAgree ==
    /\ writing \in [Peers -> Nat] /\ written \in [Peers -> Nat]
    /\ m_outstanding \in [Peers -> Nat] /\ m_outstanding_writing \in [Peers -> Nat]
    /\ \A p \in Peers : m_outstanding_writing[p] = writing[p] + written[p]

HandlerReads ==
    /\ handler \in [peers : SUBSET Peers, left : Nat]
    /\ handler.peers \subseteq connected \intersect bw_network
    /\ \A p, q \in handler.peers : p = q
    /\ \A p \in handler.peers : handler.left <= m_outstanding[p]

PoolInv == pool \in PoolObject /\ ObserversAwaited /\ posted \in Seq(SUBSET Peers)

SetsInv == bw_disk \subseteq Peers /\ bw_network \subseteq Peers /\ connected \subseteq Peers

IInv ==
    /\ PoolInv /\ SetsInv /\ CountsAgree /\ HandlerReads
    /\ WaitersHaveWrites /\ WaitersWillBeTold /\ PeersReadOrWait
=============================================================================

----------------------- MODULE DiskBackpressureProofs -----------------------
(***************************************************************************)
(* Peers that wait for the disk are never forgotten, whatever the number   *)
(* of peers, the size of the pool and the bounds of the model.  The proof  *)
(* is by the inductive invariant IInv of module DiskBackpressure.          *)
(***************************************************************************)
EXTENDS DiskBackpressure, TLAPS

(* What the operations of the pool do to the list of observers and to the  *)
(* exceeded flag: the pool stays a pool, and no operation leaves observers *)
(* behind when the flag is cleared.                                        *)
Awaited(p) == p.m_observers # {} => p.m_exceeded_max_size

(* disk_buffer_pool::set_settings keeps observers awaited.                 *)
LEMMA SetSettingsPool ==
    ASSUME NEW p \in PoolObject, NEW n \in Nat, Awaited(p)
    PROVE  SetSettings(p, n) \in PoolObject /\ Awaited(SetSettings(p, n))
<1> DEFINE mx == IF n < 1 THEN 1 ELSE n
           ex == p.m_exceeded_max_size \/ p.m_in_use >= mx
<1>1. mx \in Int /\ ex \in BOOLEAN /\ (p.m_exceeded_max_size => ex)
  BY DEF PoolObject
<1>2. SetSettings(p, n) = [p EXCEPT !.m_max_use = mx, !.m_exceeded_max_size = ex]
  BY DEF SetSettings, PoolObject
<1> HIDE DEF mx, ex
<1> QED
  BY <1>1, <1>2 DEF PoolObject, Awaited

(* disk_buffer_pool::allocate_buffer_impl keeps observers awaited, with    *)
(* and without memory.                                                     *)
LEMMA AllocatePool ==
    ASSUME NEW p \in PoolObject, Awaited(p)
    PROVE  /\ Allocated(p) \in PoolObject /\ Awaited(Allocated(p))
           /\ AllocationFailed(p) \in PoolObject /\ Awaited(AllocationFailed(p))
<1> DEFINE in_use == p.m_in_use + 1
           low == LowWatermark(p)
           ex == p.m_exceeded_max_size \/ in_use >= low + (p.m_max_use - low) \div 2
<1>1. in_use \in Int /\ ex \in BOOLEAN /\ (p.m_exceeded_max_size => ex)
  BY DEF PoolObject
<1>2. Allocated(p) = [p EXCEPT !.m_in_use = in_use, !.m_exceeded_max_size = ex]
  BY DEF Allocated, PoolObject
<1> HIDE DEF in_use, ex
<1>3. Allocated(p) \in PoolObject /\ Awaited(Allocated(p))
  BY <1>1, <1>2 DEF PoolObject, Awaited
<1>4. AllocationFailed(p) \in PoolObject /\ Awaited(AllocationFailed(p))
  BY DEF AllocationFailed, PoolObject, Awaited
<1> QED
  BY <1>3, <1>4

(* disk_buffer_pool::allocate_buffer adds an observer only to an exceeded  *)
(* pool.                                                                   *)
LEMMA ObservePool ==
    ASSUME NEW p \in PoolObject, NEW o \in Peers, Awaited(p)
    PROVE  Observed(p, o) \in PoolObject /\ Awaited(Observed(p, o))
<1>1. CASE p.m_exceeded_max_size
  BY <1>1 DEF Observed, PoolObject, Awaited
<1>2. CASE ~ p.m_exceeded_max_size
  BY <1>2 DEF Observed
<1> QED
  BY <1>1, <1>2

(* disk_buffer_pool::free_buffer clears the flag only together with the    *)
(* list of observers.                                                      *)
LEMMA FreePool ==
    ASSUME NEW p \in PoolObject, Awaited(p)
    PROVE  Freed(p) \in PoolObject /\ Awaited(Freed(p))
<1> DEFINE in_use == p.m_in_use - 1
           freed == [p EXCEPT !.m_in_use = in_use]
<1>1. in_use \in Int
  BY DEF PoolObject
<1> HIDE DEF in_use
<1>2. freed \in PoolObject /\ Awaited(freed)
  BY <1>1 DEF PoolObject, Awaited
<1>3. [freed EXCEPT !.m_exceeded_max_size = FALSE, !.m_observers = {}] \in PoolObject
  BY <1>2 DEF PoolObject
<1>4. Awaited([freed EXCEPT !.m_exceeded_max_size = FALSE, !.m_observers = {}])
  BY <1>2 DEF PoolObject, Awaited
<1>5. Freed(p) \in {freed, [freed EXCEPT !.m_exceeded_max_size = FALSE, !.m_observers = {}]}
  BY DEF Freed, in_use
<1> QED
  BY <1>2, <1>3, <1>4, <1>5
-----------------------------------------------------------------------------
(* The pool and the messages posted stay well formed when a buffer is      *)
(* freed, by whichever thread.                                             *)
LEMMA FreeBufferPool ==
    ASSUME PoolInv, FreeBuffer
    PROVE  PoolInv'
<1>1. pool' \in PoolObject /\ Awaited(pool')
  BY FreePool DEF PoolInv, FreeBuffer, Awaited, ObserversAwaited
<1>2. pool.m_observers \in SUBSET Peers
  BY DEF PoolInv, PoolObject
<1>3. posted' \in Seq(SUBSET Peers)
  BY <1>2 DEF PoolInv, FreeBuffer
<1> QED
  BY <1>1, <1>3 DEF PoolInv, ObserversAwaited, Awaited

(* A step that leaves the pool, the messages and the set of those who wait *)
(* alone, or lets somebody go, tells everybody who is left.                *)
LEMMA NobodyNewWaits ==
    ASSUME WaitersWillBeTold, bw_disk' \subseteq bw_disk, posted' = posted,
           pool.m_observers \subseteq pool'.m_observers
    PROVE  WaitersWillBeTold'
  BY DEF WaitersWillBeTold

(* A buffer that is freed may move the observers into a message.           *)
LEMMA FreeBufferTells ==
    ASSUME PoolInv, WaitersWillBeTold, FreeBuffer, bw_disk' = bw_disk
    PROVE  WaitersWillBeTold'
<1>1. pool \in PoolObject /\ posted \in Seq(SUBSET Peers)
  BY DEF PoolInv
<1>2. pool'.m_observers = pool.m_observers \/ pool'.m_observers = {}
  BY <1>1 DEF FreeBuffer, Freed, PoolObject
<1>3. CASE pool.m_observers # {} /\ pool'.m_observers = {}
  <2>1. posted' = Append(posted, pool.m_observers) /\ pool.m_observers \in SUBSET Peers
    BY <1>1, <1>3 DEF FreeBuffer, PoolObject
  <2>2. Len(posted) + 1 \in DOMAIN posted' /\ posted'[Len(posted) + 1] = pool.m_observers
    BY <1>1, <2>1
  <2>3. \A i \in DOMAIN posted : i \in DOMAIN posted' /\ posted'[i] = posted[i]
    BY <1>1, <2>1
  <2> QED
    BY <2>2, <2>3 DEF WaitersWillBeTold
<1>4. CASE ~ (pool.m_observers # {} /\ pool'.m_observers = {})
  <2>1. posted' = posted
    BY <1>4 DEF FreeBuffer
  <2> QED
    BY <1>2, <1>4, <2>1 DEF WaitersWillBeTold
<1> QED
  BY <1>3, <1>4

(* The initial states satisfy the invariant.                               *)
LEMMA InitInv == Init => IInv
<1> SUFFICES ASSUME Init PROVE IInv
  OBVIOUS
<1>1. PoolInv
  <2>1. NewPool \in PoolObject /\ Awaited(NewPool)
    BY DEF NewPool, PoolObject, Awaited
  <2>2. PICK n \in PoolSizes : pool = SetSettings(NewPool, n)
    BY DEF Init
  <2>3. n \in Nat
    BY <2>2, BackpressureAssumption
  <2>4. pool \in PoolObject /\ Awaited(pool)
    BY <2>1, <2>2, <2>3, SetSettingsPool
  <2> QED
    BY <2>4 DEF Init, PoolInv, ObserversAwaited, Awaited
<1>2. SetsInv /\ CountsAgree /\ HandlerReads
  BY DEF Init, SetsInv, CountsAgree, HandlerReads, NoHandler
<1>3. WaitersHaveWrites /\ WaitersWillBeTold /\ PeersReadOrWait
  BY DEF Init, WaitersHaveWrites, WaitersWillBeTold, PeersReadOrWait
<1> QED
  BY <1>1, <1>2, <1>3 DEF IInv

(* Requests that go out concern nobody who waits.                          *)
LEMMA SendRequestsInv ==
    ASSUME IInv, NEW p \in Peers, SendBlockRequests(p)
    PROVE  IInv'
<1> USE DEF IInv, SendBlockRequests
<1>1. PoolInv' /\ SetsInv'
  BY DEF PoolInv, ObserversAwaited, SetsInv
<1>2. CountsAgree'
  BY DEF CountsAgree
<1>3. HandlerReads'
  BY DEF HandlerReads, NetIdle, NoHandler
<1>4. WaitersHaveWrites'
  BY DEF WaitersHaveWrites
<1>5. PeersReadOrWait' /\ WaitersWillBeTold'
  BY DEF PeersReadOrWait, WaitersWillBeTold
<1> QED
  BY <1>1, <1>2, <1>3, <1>4, <1>5

(* Requests that are cancelled: the peer expects fewer blocks, but those   *)
(* of the handler in progress are still to come.                           *)
LEMMA CancelRequestsInv ==
    ASSUME IInv, NEW p \in Peers, NEW n \in 1..MaxBlocks, CancelRequests(p, n)
    PROVE  IInv'
<1> USE DEF IInv, CancelRequests
<1>0. n \in Nat /\ handler.left \in Nat
  BY BackpressureAssumption DEF HandlerReads
<1>1. PoolInv' /\ SetsInv'
  BY DEF PoolInv, ObserversAwaited, SetsInv
<1>2. m_outstanding' \in [Peers -> Nat]
  BY <1>0 DEF CountsAgree
<1>3. CountsAgree'
  BY <1>2 DEF CountsAgree
<1>4. HandlerReads'
  BY <1>0 DEF HandlerReads, CountsAgree
<1>5. WaitersHaveWrites' /\ WaitersWillBeTold' /\ PeersReadOrWait'
  BY DEF WaitersHaveWrites, WaitersWillBeTold, PeersReadOrWait
<1> QED
  BY <1>1, <1>3, <1>4, <1>5

(* on_receive_data begins: nothing but the handler changes.                *)
LEMMA ReceiveDataInv ==
    ASSUME IInv, NEW p \in Peers, NEW n \in 0..BlocksPerRead, ReceiveData(p, n)
    PROVE  IInv'
<1> USE DEF IInv, ReceiveData, peerVars
<1>0. n \in Nat
  BY BackpressureAssumption
<1>1. PoolInv'
  BY DEF PoolInv, ObserversAwaited
<1>2. SetsInv' /\ CountsAgree'
  BY DEF SetsInv, CountsAgree
<1>3. HandlerReads'
  BY <1>0 DEF HandlerReads
<1>4. WaitersHaveWrites' /\ WaitersWillBeTold' /\ PeersReadOrWait'
  BY DEF WaitersHaveWrites, WaitersWillBeTold, PeersReadOrWait
<1> QED
  BY <1>1, <1>2, <1>3, <1>4

(* One of the blocks left is received or given up: there is one less to    *)
(* come, and the peer whose handler it is goes on reading.                 *)
LEMMA OneBlockLess ==
    ASSUME IInv, NEW p \in Peers, p \in handler.peers, handler.left > 0,
           m_outstanding' = [m_outstanding EXCEPT ![p] = @ - 1],
           handler' = [handler EXCEPT !.left = @ - 1],
           UNCHANGED <<bw_network, connected>>, bw_disk \subseteq bw_disk'
    PROVE  m_outstanding' \in [Peers -> Nat] /\ HandlerReads' /\ PeersReadOrWait'
<1> USE DEF IInv
<1>1. handler.left \in Nat /\ m_outstanding \in [Peers -> Nat] /\ handler.left <= m_outstanding[p]
  BY DEF HandlerReads, CountsAgree
<1>2. m_outstanding' \in [Peers -> Nat]
  BY <1>1
<1>3. handler' \in [peers : SUBSET Peers, left : Nat] /\ handler'.peers = handler.peers
      /\ handler'.left = handler.left - 1
  BY <1>1 DEF HandlerReads
<1>4. handler.peers = {p}
  BY DEF HandlerReads
<1>5. HandlerReads'
  BY <1>1, <1>3, <1>4 DEF HandlerReads
<1>6. PeersReadOrWait'
  BY <1>1, <1>4 DEF PeersReadOrWait, HandlerReads, CountsAgree, SetsInv
<1> QED
  BY <1>2, <1>5, <1>6

(* A request that comes to nothing.                                        *)
LEMMA RequestGoneInv ==
    ASSUME IInv, NEW p \in Peers, RequestGone(p)
    PROVE  IInv'
<1> USE DEF IInv, RequestGone
<1>1. PoolInv' /\ SetsInv'
  BY DEF PoolInv, ObserversAwaited, SetsInv
<1>2. m_outstanding' \in [Peers -> Nat] /\ HandlerReads' /\ PeersReadOrWait'
  BY OneBlockLess
<1>3. CountsAgree' /\ WaitersHaveWrites' /\ WaitersWillBeTold'
  BY <1>2 DEF CountsAgree, WaitersHaveWrites, WaitersWillBeTold
<1> QED
  BY <1>1, <1>2, <1>3

(* incoming_piece: the peer waits only when this is not its only write.    *)
LEMMA IncomingPieceInv ==
    ASSUME IInv, NEW p \in Peers, IncomingPiece(p)
    PROVE  IInv'
<1> USE DEF IInv, IncomingPiece
<1>1. PoolInv'
  <2>1. Allocated(pool) \in PoolObject /\ Awaited(Allocated(pool))
    BY AllocatePool DEF PoolInv, ObserversAwaited, Awaited
  <2>2. pool' \in PoolObject /\ Awaited(pool')
    BY <2>1, ObservePool
  <2> QED
    BY <2>2 DEF PoolInv, ObserversAwaited, Awaited
<1>2. SetsInv'
  BY DEF SetsInv
<1>3. m_outstanding' \in [Peers -> Nat] /\ HandlerReads' /\ PeersReadOrWait'
  BY OneBlockLess
<1>4. CountsAgree'
  BY <1>3 DEF CountsAgree
<1>5. WaitersHaveWrites'
  BY <1>4 DEF WaitersHaveWrites, CountsAgree
<1>6. WaitersWillBeTold'
  <2>1. pool \in PoolObject
    BY DEF PoolInv
  <2>2. Allocated(pool).m_observers = pool.m_observers /\ Allocated(pool) \in PoolObject
    BY <2>1, AllocatePool DEF PoolInv, ObserversAwaited, Awaited, Allocated, PoolObject
  <2>3. /\ pool.m_observers \subseteq pool'.m_observers
        /\ pool'.m_exceeded_max_size => p \in pool'.m_observers
    BY <2>1, <2>2 DEF Observed, PoolObject
  <2> QED
    BY <2>3 DEF WaitersWillBeTold
<1> QED
  BY <1>1, <1>2, <1>3, <1>4, <1>5, <1>6

(* No memory for the block: the peer is disconnected and waits no longer.  *)
LEMMA OutOfMemoryInv ==
    ASSUME IInv, NEW p \in Peers, OutOfMemory(p)
    PROVE  IInv'
<1> USE DEF IInv, OutOfMemory
<1>1. PoolInv'
  <2>1. AllocationFailed(pool) \in PoolObject /\ Awaited(AllocationFailed(pool))
    BY AllocatePool DEF PoolInv, ObserversAwaited, Awaited
  <2>2. pool' \in PoolObject /\ Awaited(pool')
    BY <2>1, ObservePool
  <2> QED
    BY <2>2 DEF PoolInv, ObserversAwaited, Awaited
<1>2. SetsInv' /\ CountsAgree'
  BY DEF SetsInv, CountsAgree
<1>3. HandlerReads'
  BY DEF HandlerReads, NoHandler
<1>4. WaitersHaveWrites' /\ PeersReadOrWait'
  BY DEF WaitersHaveWrites, PeersReadOrWait, CountsAgree, SetsInv
<1>5. WaitersWillBeTold'
  <2>1. pool.m_observers \subseteq pool'.m_observers
    BY DEF PoolInv, PoolObject, Observed, AllocationFailed
  <2> QED
    BY <2>1, NobodyNewWaits
<1> QED
  BY <1>1, <1>2, <1>3, <1>4, <1>5

(* on_receive_data ends: the peer reads on, or waits.                      *)
LEMMA ReceiveDoneInv ==
    ASSUME IInv, ReceiveDone
    PROVE  IInv'
<1> USE DEF IInv, ReceiveDone
<1>1. PoolInv'
  BY DEF PoolInv, ObserversAwaited
<1>2. SetsInv' /\ CountsAgree' /\ HandlerReads'
  BY DEF SetsInv, CountsAgree, HandlerReads, NoHandler, SetupReceive
<1>3. WaitersHaveWrites' /\ WaitersWillBeTold'
  BY DEF WaitersHaveWrites, WaitersWillBeTold
<1>4. PeersReadOrWait'
  BY DEF PeersReadOrWait, HandlerReads, SetupReceive, CountsAgree
<1> QED
  BY <1>1, <1>2, <1>3, <1>4

(* A disk thread finishes a write: the block changes hands, not the count. *)
LEMMA DiskWritesInv ==
    ASSUME IInv, NEW p \in Peers, DiskWrites(p)
    PROVE  IInv'
<1> USE DEF IInv, DiskWrites
<1>1. PoolInv'
  BY FreeBufferPool
<1>2. SetsInv' /\ CountsAgree' /\ HandlerReads'
  BY DEF SetsInv, CountsAgree, HandlerReads
<1>3. WaitersHaveWrites'
  BY <1>2 DEF WaitersHaveWrites, CountsAgree, SetsInv
<1>4. PeersReadOrWait'
  BY DEF PeersReadOrWait
<1>5. WaitersWillBeTold'
  BY FreeBufferTells
<1> QED
  BY <1>1, <1>2, <1>3, <1>4, <1>5

(* on_disk_write_complete: the peer that has no write left waits no more.  *)
LEMMA WriteCompleteInv ==
    ASSUME IInv, NEW p \in Peers, OnDiskWriteComplete(p)
    PROVE  IInv'
<1> USE DEF IInv, OnDiskWriteComplete
<1>1. PoolInv'
  BY DEF PoolInv, ObserversAwaited
<1>2. SetsInv' /\ HandlerReads'
  BY DEF SetsInv, HandlerReads, SetupReceive
<1>3. CountsAgree'
  BY DEF CountsAgree
<1>4. WaitersHaveWrites'
  BY <1>3 DEF WaitersHaveWrites, CountsAgree, SetsInv
<1>5. PeersReadOrWait' /\ WaitersWillBeTold'
  BY NobodyNewWaits DEF PeersReadOrWait, SetupReceive
<1> QED
  BY <1>1, <1>2, <1>3, <1>4, <1>5

(* watermark_callback: the peers woken up read again.                      *)
LEMMA WatermarkInv ==
    ASSUME IInv, WatermarkCallback
    PROVE  IInv'
<1> USE DEF IInv, WatermarkCallback
<1>1. PoolInv'
  BY DEF PoolInv, ObserversAwaited
<1>2. SetsInv' /\ CountsAgree' /\ HandlerReads'
  BY DEF SetsInv, CountsAgree, HandlerReads, SetupReceive
<1>3. WaitersHaveWrites'
  BY DEF WaitersHaveWrites
<1>4. PeersReadOrWait'
  BY DEF PeersReadOrWait, SetupReceive
<1>5. WaitersWillBeTold'
  <2> SUFFICES ASSUME NEW q \in bw_disk', q \notin pool.m_observers
               PROVE  \E i \in DOMAIN posted' : q \in posted'[i]
    BY DEF WaitersWillBeTold
  <2>1. q \in bw_disk /\ q \notin Head(posted) /\ posted \in Seq(SUBSET Peers)
    BY DEF PoolInv
  <2>2. PICK i \in DOMAIN posted : q \in posted[i]
    BY <2>1 DEF WaitersWillBeTold
  <2>3. i # 1 /\ i \in 1..Len(posted)
    BY <2>1, <2>2
  <2>4. i - 1 \in DOMAIN posted' /\ posted'[i - 1] = posted[i]
    BY <2>1, <2>3
  <2> QED
    BY <2>2, <2>4
<1> QED
  BY <1>1, <1>2, <1>3, <1>4, <1>5

(* A disconnected peer waits no longer.                                    *)
LEMMA DisconnectInv ==
    ASSUME IInv, NEW p \in Peers, Disconnect(p)
    PROVE  IInv'
<1> USE DEF IInv, Disconnect
<1>1. PoolInv'
  BY DEF PoolInv, ObserversAwaited
<1>2. SetsInv' /\ CountsAgree'
  BY DEF SetsInv, CountsAgree
<1>3. HandlerReads'
  BY DEF HandlerReads, NoHandler, CountsAgree
<1>4. WaitersHaveWrites' /\ PeersReadOrWait' /\ WaitersWillBeTold'
  BY NobodyNewWaits DEF WaitersHaveWrites, PeersReadOrWait, CountsAgree, SetsInv
<1> QED
  BY <1>1, <1>2, <1>3, <1>4

(* Send buffers and settings concern the pool only.                        *)
LEMMA PoolOnlyInv ==
    ASSUME IInv,
           \/ AllocateSendBuffer \/ FreeSendBuffer
           \/ \E n \in PoolSizes : SettingsUpdated(n)
    PROVE  IInv'
<1> USE DEF IInv
<1>1. PoolInv'
  <2>1. CASE AllocateSendBuffer
    <3>1. Allocated(pool) \in PoolObject /\ Awaited(Allocated(pool))
      BY AllocatePool DEF PoolInv, ObserversAwaited, Awaited
    <3> QED
      BY <2>1, <3>1 DEF AllocateSendBuffer, PoolInv, ObserversAwaited, Awaited
  <2>2. CASE FreeSendBuffer
    BY <2>2, FreeBufferPool DEF FreeSendBuffer
  <2>3. ASSUME NEW n \in PoolSizes, SettingsUpdated(n) PROVE PoolInv'
    <3>1. n \in Nat
      BY BackpressureAssumption
    <3>2. SetSettings(pool, n) \in PoolObject /\ Awaited(SetSettings(pool, n))
      BY <3>1, SetSettingsPool DEF PoolInv, ObserversAwaited, Awaited
    <3> QED
      BY <2>3, <3>2 DEF SettingsUpdated, PoolInv, ObserversAwaited, Awaited
  <2> QED
    BY <2>1, <2>2, <2>3
<1>2. UNCHANGED <<peerVars, handler>>
  BY DEF AllocateSendBuffer, FreeSendBuffer, SettingsUpdated
<1>3. SetsInv' /\ CountsAgree' /\ HandlerReads'
  BY <1>2 DEF peerVars, SetsInv, CountsAgree, HandlerReads
<1>4. WaitersHaveWrites' /\ PeersReadOrWait'
  BY <1>2 DEF peerVars, WaitersHaveWrites, PeersReadOrWait
<1>5. WaitersWillBeTold'
  <2>1. CASE FreeSendBuffer
    BY <1>2, <2>1, FreeBufferTells DEF FreeSendBuffer, peerVars
  <2>2. CASE AllocateSendBuffer \/ \E n \in PoolSizes : SettingsUpdated(n)
    <3>1. pool.m_observers = pool'.m_observers /\ posted' = posted
      BY <2>2 DEF AllocateSendBuffer, SettingsUpdated, PoolInv, PoolObject, Allocated, SetSettings
    <3> QED
      BY <1>2, <3>1, NobodyNewWaits DEF peerVars
  <2> QED
    BY <2>1, <2>2
<1> QED
  BY <1>1, <1>3, <1>4, <1>5

(* Every step of the specification preserves the invariant.                *)
LEMMA NextInv == IInv /\ [Next]_vars => IInv'
<1> SUFFICES ASSUME IInv, [Next]_vars PROVE IInv'
  OBVIOUS
<1>1. ASSUME NEW p \in Peers, NEW n \in 0..BlocksPerRead, ReceiveData(p, n) PROVE IInv'
  BY <1>1, ReceiveDataInv
<1>2. ASSUME NEW p \in Peers, IncomingPiece(p) PROVE IInv'
  BY <1>2, IncomingPieceInv
<1>3. ASSUME NEW p \in Peers, OutOfMemory(p) PROVE IInv'
  BY <1>3, OutOfMemoryInv
<1>4. ASSUME NEW p \in Peers, DiskWrites(p) PROVE IInv'
  BY <1>4, DiskWritesInv
<1>5. ASSUME NEW p \in Peers, OnDiskWriteComplete(p) PROVE IInv'
  BY <1>5, WriteCompleteInv
<1>6. ASSUME NEW p \in Peers, Disconnect(p) PROVE IInv'
  BY <1>6, DisconnectInv
<1>7. CASE ReceiveDone
  BY <1>7, ReceiveDoneInv
<1>8. CASE WatermarkCallback
  BY <1>8, WatermarkInv
<1>9. CASE AllocateSendBuffer \/ FreeSendBuffer \/ \E n \in PoolSizes : SettingsUpdated(n)
  BY <1>9, PoolOnlyInv
<1>10. CASE UNCHANGED vars
  BY <1>10 DEF vars, IInv, PoolInv, SetsInv, CountsAgree, HandlerReads, WaitersHaveWrites,
               WaitersWillBeTold, ObserversAwaited, PeersReadOrWait
<1>11. ASSUME NEW p \in Peers, SendBlockRequests(p) PROVE IInv'
  BY <1>11, SendRequestsInv
<1>12. ASSUME NEW p \in Peers, RequestGone(p) PROVE IInv'
  BY <1>12, RequestGoneInv
<1>13. ASSUME NEW p \in Peers, NEW n \in 1..MaxBlocks, CancelRequests(p, n) PROVE IInv'
  BY <1>13, CancelRequestsInv
<1> QED
  BY <1>1, <1>2, <1>3, <1>4, <1>5, <1>6, <1>7, <1>8, <1>9, <1>10, <1>11, <1>12, <1>13 DEF Next

(* The inductive invariant holds in every reachable state.                 *)
THEOREM BackpressureInvariant == Spec => []IInv
<1>1. Init => IInv
  BY InitInv
<1>2. IInv /\ [Next]_vars => IInv'
  BY NextInv
<1> QED
  BY <1>1, <1>2, PTL DEF Spec

(* A peer that waits for the disk has writes of its own outstanding, so    *)
(* on_disk_write_complete wakes it up if the pool's message does not.      *)
THEOREM WaitersAreWoken == Spec => []WaitersHaveWrites
<1>1. IInv => WaitersHaveWrites
  BY DEF IInv
<1> QED
  BY <1>1, BackpressureInvariant, PTL

(* Observers are registered only while the pool is exceeded, so            *)
(* check_buffer_level gets to them.                                        *)
THEOREM ObserversAreReached == Spec => []ObserversAwaited
<1>1. IInv => ObserversAwaited
  BY DEF IInv, PoolInv
<1> QED
  BY <1>1, BackpressureInvariant, PTL

(* A connected peer reads from its socket, or waits for the disk.          *)
THEOREM PeersNeverForgotten == Spec => []PeersReadOrWait
<1>1. IInv => PeersReadOrWait
  BY DEF IInv
<1> QED
  BY <1>1, BackpressureInvariant, PTL

(* A peer that waits for the disk is in the list of observers or in a      *)
(* message that is on its way to the network thread.                       *)
THEOREM WaitersAreTold == Spec => []WaitersWillBeTold
<1>1. IInv => WaitersWillBeTold
  BY DEF IInv
<1> QED
  BY <1>1, BackpressureInvariant, PTL
=============================================================================

-------------------------- MODULE ThreadPoolProofs --------------------------
(***************************************************************************)
(* What the operations of a disk_io_thread_pool do to its members, for a   *)
(* pool whose threads are taken from any finite set T.                     *)
(***************************************************************************)
EXTENDS ThreadPool, FiniteSetTheorems, TLAPS

(* The smaller and the larger of two integers.                             *)
LEMMA MinMaxOfTwo ==
    ASSUME NEW a \in Int, NEW b \in Int
    PROVE  /\ Min({a, b}) = IF a <= b THEN a ELSE b
           /\ Max({a, b}) = IF a >= b THEN a ELSE b
<1>1. \A x \in {a, b} : (\A y \in {a, b} : x <= y) <=> x = IF a <= b THEN a ELSE b
  OBVIOUS
<1>2. \A x \in {a, b} : (\A y \in {a, b} : x >= y) <=> x = IF a >= b THEN a ELSE b
  OBVIOUS
<1> QED
  BY <1>1, <1>2 DEF Min, Max

(* set_max_threads changes the limit and the exit requests only, and never *)
(* asks for a negative number of exits.                                    *)
LEMMA SetMaxThreadsPool ==
    ASSUME NEW T, IsFiniteSet(T), NEW p \in PoolObject(T), NEW i \in Nat
    PROVE  /\ SetMaxThreads(p, i) \in PoolObject(T)
           /\ SetMaxThreads(p, i).m_threads = p.m_threads
           /\ SetMaxThreads(p, i).m_abort = p.m_abort
           /\ SetMaxThreads(p, i).m_num_idle_threads = p.m_num_idle_threads
           /\ SetMaxThreads(p, i).m_min_idle_threads = p.m_min_idle_threads
<1> DEFINE size == Cardinality(p.m_threads)
<1>2. size \in Nat
  BY FS_Subset, FS_CardinalityType DEF PoolObject
<1>3. CASE i = p.m_max_threads
  BY <1>3 DEF SetMaxThreads
<1>4. CASE i # p.m_max_threads /\ size < i
  BY <1>4 DEF SetMaxThreads, PoolObject
<1>5. CASE i # p.m_max_threads /\ ~ size < i
  <2>1. size - i \in Nat
    BY <1>2, <1>5
  <2>2. SetMaxThreads(p, i) = [p EXCEPT !.m_max_threads = i, !.m_threads_to_exit = size - i]
    BY <1>5 DEF SetMaxThreads, StopThreads, PoolObject
  <2> HIDE DEF size
  <2> QED
    BY <2>1, <2>2 DEF PoolObject
<1> QED
  BY <1>3, <1>4, <1>5

(* thread_active lowers the idle count by one, and nothing else in its     *)
(* first half.                                                             *)
LEMMA ThreadActivePool ==
    ASSUME NEW T, IsFiniteSet(T), NEW p \in PoolObject(T), p.m_num_idle_threads > 0
    PROVE  /\ ThreadActive(p) \in PoolObject(T)
           /\ ThreadActive(p).m_threads = p.m_threads
           /\ ThreadActive(p).m_abort = p.m_abort
           /\ ThreadActive(p).m_num_idle_threads = p.m_num_idle_threads - 1
<1> DEFINE idle == p.m_num_idle_threads - 1
<1>1. idle \in Nat
  BY DEF PoolObject
<1>2. ThreadActive(p) = [p EXCEPT !.m_num_idle_threads = idle]
  BY DEF ThreadActive, PoolObject
<1>3. idle = p.m_num_idle_threads - 1
  OBVIOUS
<1> HIDE DEF idle
<1> QED
  BY <1>1, <1>2, <1>3 DEF PoolObject

(* The compare-and-swap of thread_active touches the minimum only.         *)
LEMMA LowerMinimumPool ==
    ASSUME NEW T, IsFiniteSet(T), NEW p \in PoolObject(T)
    PROVE  /\ LowerMinimum(p) \in PoolObject(T)
           /\ LowerMinimum(p).m_threads = p.m_threads
           /\ LowerMinimum(p).m_abort = p.m_abort
           /\ LowerMinimum(p).m_num_idle_threads = p.m_num_idle_threads
<1> DEFINE low == Min({p.m_min_idle_threads, p.m_num_idle_threads})
<1>1. p.m_min_idle_threads \in Nat /\ p.m_num_idle_threads \in Nat
  BY DEF PoolObject
<1>2. low \in Nat
  BY <1>1, MinMaxOfTwo
<1>3. LowerMinimum(p) = [p EXCEPT !.m_min_idle_threads = low]
  BY DEF LowerMinimum, PoolObject
<1> HIDE DEF low
<1> QED
  BY <1>2, <1>3 DEF PoolObject

(* job_queued registers the threads it starts and may withdraw exit        *)
(* requests; it leaves the idle count alone.                               *)
LEMMA JobQueuedPool ==
    ASSUME NEW T, IsFiniteSet(T), NEW p \in PoolObject(T), NEW n \in Nat, NEW new \in SUBSET T,
           Cardinality(new) = NumToStart(p, n)
    PROVE  /\ JobQueued(p, n, new) \in PoolObject(T)
           /\ JobQueued(p, n, new).m_threads = p.m_threads \union new
           /\ JobQueued(p, n, new).m_abort = p.m_abort
           /\ JobQueued(p, n, new).m_num_idle_threads = p.m_num_idle_threads
           /\ JobQueued(p, n, new).m_min_idle_threads = p.m_min_idle_threads
<1>1. CASE QueuedIsServed(p, n)
  <2>1. new = {}
    BY <1>1, FS_Subset, FS_EmptySet DEF NumToStart
  <2> QED
    BY <1>1, <2>1 DEF JobQueued
<1>2. CASE ~ QueuedIsServed(p, n)
  <2> DEFINE needed == Max({0, p.m_num_idle_threads - n})
             exits == Min({p.m_threads_to_exit, needed})
             timer == p.m_idle_timer \/ (p.m_threads = {} /\ new # {})
  <2>1. p.m_num_idle_threads - n \in Int /\ p.m_threads_to_exit \in Nat
    BY DEF PoolObject
  <2>2. needed \in Nat
    <3>1. needed = IF 0 >= p.m_num_idle_threads - n THEN 0 ELSE p.m_num_idle_threads - n
      BY <2>1, MinMaxOfTwo, 0 \in Int, Zenon
    <3> HIDE DEF needed
    <3> QED
      BY <2>1, <3>1
  <2>3. exits \in Nat
    <3>1. needed \in Int /\ p.m_threads_to_exit \in Int
      BY <2>1, <2>2
    <3>2. exits = IF p.m_threads_to_exit <= needed THEN p.m_threads_to_exit ELSE needed
      BY <3>1, MinMaxOfTwo, Zenon
    <3> HIDE DEF needed, exits
    <3> QED
      BY <2>1, <2>2, <3>2
  <2>4. timer \in BOOLEAN
    BY DEF PoolObject
  <2>5. JobQueued(p, n, new) = [p EXCEPT !.m_threads_to_exit = exits,
                                         !.m_threads = p.m_threads \union new,
                                         !.m_idle_timer = timer]
    BY <1>2 DEF JobQueued, PoolObject
  <2> HIDE DEF needed, exits, timer
  <2> QED
    BY <2>3, <2>4, <2>5 DEF PoolObject
<1> QED
  BY <1>1, <1>2

(* The reaper asks for a natural number of exits.                          *)
LEMMA NumToReapIsNat ==
    ASSUME NEW T, IsFiniteSet(T), NEW p \in PoolObject(T)
    PROVE  NumToReap(p) \in Nat
<1>1. CASE p.m_min_idle_threads <= 0
  BY <1>1 DEF NumToReap
<1>2. CASE ~ p.m_min_idle_threads <= 0
  <2> DEFINE surplus == Cardinality(p.m_threads) - p.m_max_threads
             exits == Max({p.m_min_idle_threads, surplus})
  <2>1. surplus \in Int /\ p.m_min_idle_threads \in Nat
    BY FS_Subset, FS_CardinalityType DEF PoolObject
  <2>2. p.m_min_idle_threads \in Int
    BY <2>1
  <2>3. exits = IF p.m_min_idle_threads >= surplus THEN p.m_min_idle_threads ELSE surplus
    BY <2>1, <2>2, MinMaxOfTwo, Zenon
  <2>4. NumToReap(p) = exits
    BY <1>2 DEF NumToReap
  <2> HIDE DEF exits, surplus
  <2> QED
    BY <2>1, <2>3, <2>4
<1> QED
  BY <1>1, <1>2

(* What the reaper does to the pool touches neither the threads nor the    *)
(* idle count.                                                             *)
LEMMA ReapPool ==
    ASSUME NEW T, NEW p \in PoolObject(T), NEW n \in Nat
    PROVE  /\ {TimerDone(p), ExchangeMinimum(p, n), StopThreads(p, n)} \subseteq PoolObject(T)
           /\ \A r \in {TimerDone(p), ExchangeMinimum(p, n), StopThreads(p, n)} :
                 /\ r.m_threads = p.m_threads /\ r.m_abort = p.m_abort
                 /\ r.m_num_idle_threads = p.m_num_idle_threads
                 /\ r.m_max_threads = p.m_max_threads
  BY DEF TimerDone, ExchangeMinimum, StopThreads, PoolObject

(* abort asks every registered thread to exit and detaches them.           *)
LEMMA AbortPoolObject ==
    ASSUME NEW T, IsFiniteSet(T), NEW p \in PoolObject(T), ~ p.m_abort
    PROVE  /\ Abort(p) \in PoolObject(T)
           /\ Abort(p).m_abort /\ Abort(p).m_threads = {}
           /\ Abort(p).m_num_idle_threads = p.m_num_idle_threads
           /\ Abort(p).m_min_idle_threads = p.m_min_idle_threads
<1> DEFINE exits == Cardinality(p.m_threads)
<1>1. exits \in Nat
  BY FS_Subset, FS_CardinalityType DEF PoolObject
<1>2. Abort(p) = [p EXCEPT !.m_threads_to_exit = exits, !.m_abort = TRUE,
                           !.m_idle_timer = FALSE, !.m_threads = {}]
  BY DEF Abort, StopThreads, PoolObject
<1> HIDE DEF exits
<1> QED
  BY <1>1, <1>2 DEF PoolObject

(* try_thread_exit, second half: the thread leaves m_threads, unless an    *)
(* abort has emptied it.                                                   *)
LEMMA UnregisterPool ==
    ASSUME NEW T, IsFiniteSet(T), NEW p \in PoolObject(T), NEW t
    PROVE  /\ Unregister(p, t) \in PoolObject(T)
           /\ Unregister(p, t).m_threads \subseteq p.m_threads
           /\ ~ p.m_abort => Unregister(p, t).m_threads = p.m_threads \ {t}
           /\ Unregister(p, t).m_abort = p.m_abort
           /\ Unregister(p, t).m_num_idle_threads = p.m_num_idle_threads
           /\ Unregister(p, t).m_min_idle_threads = p.m_min_idle_threads
<1>1. CASE p.m_abort
  BY <1>1 DEF Unregister
<1>2. CASE ~ p.m_abort
  <2> DEFINE timer == p.m_idle_timer /\ p.m_threads # {t}
  <2>1. timer \in BOOLEAN
    BY DEF PoolObject
  <2>2. Unregister(p, t) = [p EXCEPT !.m_threads = p.m_threads \ {t}, !.m_idle_timer = timer]
    BY <1>2 DEF Unregister, PoolObject
  <2> HIDE DEF timer
  <2> QED
    BY <1>2, <2>1, <2>2 DEF PoolObject
<1> QED
  BY <1>1, <1>2
=============================================================================

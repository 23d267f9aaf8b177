----------------------- MODULE DiskIoThreadPoolProofs -----------------------
(***************************************************************************)
(* The counts of a disk_io_thread_pool are exact and no thread leaves a    *)
(* job behind, for every finite set of threads, every setting and every    *)
(* bound of the queue.  The proof is by the inductive invariant IInv of    *)
(* module DiskIoThreadPool.                                                *)
(***************************************************************************)
EXTENDS DiskIoThreadPool, ThreadPoolProofs

(* Every set of threads is finite.                                         *)
LEMMA ThreadsFinite ==
    ASSUME NEW S \in SUBSET Threads
    PROVE  IsFiniteSet(S) /\ Cardinality(S) \in Nat
  BY PoolAssumption, FS_Subset, FS_CardinalityType

(* Every setting is a number of threads.                                   *)
LEMMA SettingsAreNat == \A i \in MaxSettings : i \in Nat
  BY PoolAssumption, FS_CardinalityType

-----------------------------------------------------------------------------
(* A thread that begins to wait, or stops waiting, moves the number of     *)
(* waiting threads by one.                                                 *)
LEMMA WaitingMoves ==
    ASSUME NEW t \in Threads, \A u \in Threads \ {t} : pc'[u] = pc[u]
    PROVE  /\ Cardinality(Waiting) \in Nat
           /\ t \in Waiting => Cardinality(Waiting) > 0
           /\ t \notin Waiting /\ t \in Waiting' => Cardinality(Waiting') = Cardinality(Waiting) + 1
           /\ t \in Waiting /\ t \notin Waiting' => Cardinality(Waiting') = Cardinality(Waiting) - 1
           /\ (t \in Waiting <=> t \in Waiting') => Waiting' = Waiting
<1>1. IsFiniteSet(Waiting) /\ Cardinality(Waiting) \in Nat
  BY ThreadsFinite DEF Waiting
<1>2. ASSUME t \in Waiting PROVE Cardinality(Waiting) > 0
  BY <1>1, <1>2, FS_EmptySet
<1>3. ASSUME t \notin Waiting, t \in Waiting'
      PROVE  Cardinality(Waiting') = Cardinality(Waiting) + 1
  <2>1. Waiting' = Waiting \union {t}
    BY <1>3 DEF Waiting
  <2> QED
    BY <1>1, <1>3, <2>1, FS_AddElement
<1>4. ASSUME t \in Waiting, t \notin Waiting'
      PROVE  Cardinality(Waiting') = Cardinality(Waiting) - 1
  <2>1. Waiting' = Waiting \ {t}
    BY <1>4 DEF Waiting
  <2> QED
    BY <1>1, <1>4, <2>1, FS_RemoveElement
<1>5. ASSUME t \in Waiting <=> t \in Waiting' PROVE Waiting' = Waiting
  BY <1>5 DEF Waiting
<1> QED
  BY <1>1, <1>2, <1>3, <1>4, <1>5

(* A new pool, given its setting, serves no thread yet.                    *)
LEMMA InitInv == Init => IInv
<1> SUFFICES ASSUME Init PROVE IInv
  OBVIOUS
<1>1. NewPool \in PoolObject(Threads)
  BY DEF NewPool, PoolObject
<1>2. PICK i \in MaxSettings : pool = SetMaxThreads(NewPool, i)
  BY DEF Init
<1>3. /\ pool \in PoolObject(Threads)
      /\ pool.m_threads = {} /\ pool.m_num_idle_threads = 0
  BY <1>1, <1>2, PoolAssumption, SettingsAreNat, SetMaxThreadsPool DEF NewPool
<1>4. Waiting = {} /\ Registered = {}
  BY DEF Init, Waiting, Registered
<1>5. TypeOK
  BY <1>3, PoolAssumption DEF Init, TypeOK
<1>6. IdleCountExact
  BY <1>3, <1>4, <1>5, FS_EmptySet DEF IdleCountExact
<1> QED
  BY <1>6 DEF Init, IInv, OneHolder, HeldQueue, HoldsJobMutex

(* A job joins the queue, while no thread holds m_job_mutex.               *)
LEMMA AddJobInv ==
    ASSUME IInv, AddJob
    PROVE  IInv'
<1> USE DEF IInv, AddJob, IdleCountExact
<1>1. TypeOK'
  BY PoolAssumption DEF TypeOK
<1>2. IdleCountExact'
  BY <1>1 DEF Waiting, Registered
<1> QED
  BY <1>2 DEF OneHolder, HeldQueue, JobMutexFree, HoldsJobMutex

(* The threads that job_queued starts are registered, and none waits yet.  *)
LEMMA SubmitJobsInv ==
    ASSUME IInv, SubmitJobs
    PROVE  IInv'
<1> USE DEF IInv
<1>1. PICK new \in SUBSET {t \in Threads : pc[t] = "none"} :
          /\ Cardinality(new) = NumToStart(pool, queue)
          /\ pool' = JobQueued(pool, queue, new)
          /\ pc' = [t \in Threads |-> IF t \in new THEN "loop" ELSE pc[t]]
  BY DEF SubmitJobs
<1>2. new \in SUBSET Threads /\ queue \in Nat /\ pool \in PoolObject(Threads)
  BY PoolAssumption DEF IdleCountExact, TypeOK
<1>3. /\ pool' \in PoolObject(Threads)
      /\ pool'.m_threads = pool.m_threads \union new
      /\ pool'.m_abort = pool.m_abort
      /\ pool'.m_num_idle_threads = pool.m_num_idle_threads
  BY <1>1, <1>2, PoolAssumption, JobQueuedPool
<1>4. TypeOK'
  BY <1>1, <1>3 DEF TypeOK, IdleCountExact, SubmitJobs
<1>5. Waiting' = Waiting /\ Registered' = Registered \union new
  BY <1>1 DEF Waiting, Registered, IdleCountExact, TypeOK
<1>6. IdleCountExact'
  BY <1>3, <1>4, <1>5 DEF IdleCountExact
<1>7. OneHolder' /\ HeldQueue'
  BY <1>1 DEF OneHolder, HeldQueue, SubmitJobs, JobMutexFree, HoldsJobMutex
<1> QED
  BY <1>6, <1>7

(* wait_for_job hands a job to a thread that did not have to wait.         *)
LEMMA TakeJobInv ==
    ASSUME IInv, NEW t \in Threads, TakeJob(t)
    PROVE  IInv'
<1> USE DEF IInv
<1>1. TypeOK /\ pc' = [pc EXCEPT ![t] = "busy"] /\ pc[t] = "loop"
  BY DEF IdleCountExact, TakeJob
<1>2. Registered' = Registered /\ Waiting' = Waiting
  BY <1>1 DEF TypeOK, Registered, Waiting
<1>3. TypeOK'
  BY <1>1, PoolAssumption DEF TypeOK, TakeJob
<1>4. IdleCountExact'
  BY <1>2, <1>3 DEF IdleCountExact, TakeJob
<1>5. OneHolder' /\ HeldQueue'
  BY <1>1 DEF TypeOK, OneHolder, HeldQueue, TakeJob, JobMutexFree, HoldsJobMutex
<1> QED
  BY <1>4, <1>5

(* A waiting thread that finds a job is not counted as idle any more.      *)
LEMMA GoActiveInv ==
    ASSUME IInv, NEW t \in Threads, GoActive(t)
    PROVE  IInv'
<1> USE DEF IInv
<1>1. TypeOK /\ pool \in PoolObject(Threads) /\ pc' = [pc EXCEPT ![t] = "active"] /\ pc[t] = "idle"
  BY DEF IdleCountExact, TypeOK, GoActive
<1>2. t \in Waiting /\ t \notin Waiting' /\ \A u \in Threads \ {t} : pc'[u] = pc[u]
  BY <1>1 DEF Waiting, TypeOK
<1>3. pool.m_num_idle_threads > 0 /\ Cardinality(Waiting') = pool.m_num_idle_threads - 1
  BY <1>1, <1>2, WaitingMoves DEF IdleCountExact
<1>4. /\ pool' \in PoolObject(Threads)
      /\ pool'.m_threads = pool.m_threads /\ pool'.m_abort = pool.m_abort
      /\ pool'.m_num_idle_threads = pool.m_num_idle_threads - 1
  BY <1>1, <1>3, PoolAssumption, ThreadActivePool DEF GoActive
<1>5. Registered' = Registered
  BY <1>1 DEF TypeOK, Registered
<1>6. TypeOK'
  BY <1>1, <1>4 DEF TypeOK, GoActive
<1>7. IdleCountExact'
  BY <1>3, <1>4, <1>5, <1>6 DEF IdleCountExact
<1>8. OneHolder' /\ HeldQueue'
  BY <1>1 DEF TypeOK, OneHolder, HeldQueue, GoActive, JobMutexFree, HoldsJobMutex
<1> QED
  BY <1>7, <1>8

(* The second half of thread_active, before the job is taken and before    *)
(* the thread ends.                                                        *)
LEMMA LowerMinimumInv ==
    ASSUME IInv, NEW t \in Threads, TakeJobActive(t) \/ ExitThread(t)
    PROVE  IInv'
<1> USE DEF IInv
<1>1. TypeOK /\ pool \in PoolObject(Threads) /\ pool' = LowerMinimum(pool) /\ UNCHANGED reaper
  BY DEF IdleCountExact, TypeOK, TakeJobActive, ExitThread
<1>2. /\ pool' \in PoolObject(Threads)
      /\ pool'.m_threads = pool.m_threads /\ pool'.m_abort = pool.m_abort
      /\ pool'.m_num_idle_threads = pool.m_num_idle_threads
  BY <1>1, PoolAssumption, LowerMinimumPool
<1>3. PICK s \in {"busy", "none"} :
        /\ pc' = [pc EXCEPT ![t] = s]
        /\ s = "busy" => pc[t] = "active" /\ queue' = queue - 1
        /\ s = "none" => pc[t] = "exiting" /\ queue' = queue
  BY DEF TakeJobActive, ExitThread
<1>4. Registered' = Registered /\ Waiting' = Waiting
  BY <1>1, <1>3 DEF TypeOK, Registered, Waiting
<1>5. queue' \in 0..QueueBound
  BY <1>1, <1>3, PoolAssumption DEF TypeOK, HeldQueue
<1>6. TypeOK'
  BY <1>1, <1>2, <1>3, <1>5 DEF TypeOK
<1>7. IdleCountExact'
  BY <1>2, <1>4, <1>6 DEF IdleCountExact
<1>8. \A u \in Threads : ~ HoldsJobMutex(u)'
  BY <1>1, <1>3 DEF TypeOK, OneHolder, HoldsJobMutex
<1>9. OneHolder' /\ HeldQueue'
  BY <1>8 DEF OneHolder, HeldQueue, HoldsJobMutex
<1> QED
  BY <1>7, <1>9

(* wait_for_job finds the queue empty: the thread waits, or claims an exit *)
(* request, and is counted as idle in either case.                         *)
LEMMA WaitOrClaimInv ==
    ASSUME IInv, NEW t \in Threads, WaitOrClaim(t)
    PROVE  IInv'
<1> USE DEF IInv
<1> DEFINE idle == IF pc[t] = "loop" THEN ThreadIdle(pool) ELSE pool
<1>1. TypeOK /\ pool \in PoolObject(Threads) /\ pc[t] \in {"loop", "idle"}
  BY DEF IdleCountExact, TypeOK, WaitOrClaim
<1>2. PICK s \in {"idle", "claimed"} :
          /\ pc' = [pc EXCEPT ![t] = s]
          /\ pool' = idle \/ (ShouldExit(idle) /\ pool' = ClaimExit(idle))
  BY DEF WaitOrClaim
<1>3. /\ idle \in PoolObject(Threads)
      /\ idle.m_threads = pool.m_threads /\ idle.m_abort = pool.m_abort
      /\ idle.m_num_idle_threads = IF pc[t] = "loop" THEN pool.m_num_idle_threads + 1
                                   ELSE pool.m_num_idle_threads
  <2>1. CASE pc[t] = "loop"
    BY <1>1, <2>1 DEF ThreadIdle, PoolObject
  <2>2. CASE pc[t] # "loop"
    BY <1>1, <2>2
  <2> QED
    BY <2>1, <2>2
<1> HIDE DEF idle
<1>4. /\ pool' \in PoolObject(Threads)
      /\ pool'.m_threads = idle.m_threads /\ pool'.m_abort = idle.m_abort
      /\ pool'.m_num_idle_threads = idle.m_num_idle_threads
  <2>1. CASE pool' = idle
    BY <1>3, <2>1
  <2>2. CASE ShouldExit(idle) /\ pool' = ClaimExit(idle)
    BY <1>3, <2>2 DEF ShouldExit, ClaimExit, PoolObject
  <2> QED
    BY <1>2, <2>1, <2>2
<1>5. Cardinality(Waiting') = pool'.m_num_idle_threads
  <2>1. CASE pc[t] = "loop"
    <3>1. t \notin Waiting /\ t \in Waiting' /\ \A u \in Threads \ {t} : pc'[u] = pc[u]
      BY <1>1, <1>2, <2>1 DEF Waiting, TypeOK
    <3> QED
      BY <1>3, <1>4, <2>1, <3>1, WaitingMoves DEF IdleCountExact
  <2>2. CASE pc[t] = "idle"
    <3>1. t \in Waiting /\ t \in Waiting' /\ \A u \in Threads \ {t} : pc'[u] = pc[u]
      BY <1>1, <1>2, <2>2 DEF Waiting, TypeOK
    <3>2. Waiting' = Waiting
      BY <3>1, WaitingMoves
    <3> QED
      BY <1>3, <1>4, <2>2, <3>2 DEF IdleCountExact
  <2> QED
    BY <1>1, <2>1, <2>2
<1>6. Registered' = Registered
  BY <1>1, <1>2 DEF TypeOK, Registered
<1>7. TypeOK'
  BY <1>1, <1>2, <1>4 DEF TypeOK, WaitOrClaim
<1>9. IdleCountExact'
  BY <1>3, <1>4, <1>5, <1>6, <1>7 DEF IdleCountExact
<1>10. OneHolder' /\ HeldQueue'
  BY <1>1, <1>2 DEF TypeOK, OneHolder, HeldQueue, WaitOrClaim, JobMutexFree, HoldsJobMutex
<1> QED
  BY <1>9, <1>10

(* The thread that claimed an exit request leaves m_threads, and is still  *)
(* counted as idle.                                                        *)
LEMMA LeavePoolInv ==
    ASSUME IInv, NEW t \in Threads, LeavePool(t)
    PROVE  IInv'
<1> USE DEF IInv
<1>1. TypeOK /\ pool \in PoolObject(Threads) /\ pc' = [pc EXCEPT ![t] = "left"] /\ pc[t] = "claimed"
  BY DEF IdleCountExact, TypeOK, LeavePool
<1>2. /\ pool' \in PoolObject(Threads)
      /\ ~ pool.m_abort => pool'.m_threads = pool.m_threads \ {t}
      /\ pool'.m_abort = pool.m_abort
      /\ pool'.m_num_idle_threads = pool.m_num_idle_threads
  BY <1>1, PoolAssumption, UnregisterPool DEF LeavePool
<1>3. Waiting' = Waiting /\ Registered' = Registered \ {t}
  BY <1>1 DEF TypeOK, Waiting, Registered
<1>4. TypeOK'
  BY <1>1, <1>2 DEF TypeOK, LeavePool
<1>5. IdleCountExact'
  BY <1>2, <1>3, <1>4 DEF IdleCountExact
<1>6. OneHolder' /\ HeldQueue'
  BY <1>1 DEF TypeOK, OneHolder, HeldQueue, LeavePool, HoldsJobMutex
<1> QED
  BY <1>5, <1>6

(* It then stops being counted.                                            *)
LEMMA GoActiveToExitInv ==
    ASSUME IInv, NEW t \in Threads, GoActiveToExit(t)
    PROVE  IInv'
<1> USE DEF IInv
<1>1. TypeOK /\ pool \in PoolObject(Threads) /\ pc' = [pc EXCEPT ![t] = "exiting"] /\ pc[t] = "left"
  BY DEF IdleCountExact, TypeOK, GoActiveToExit
<1>2. t \in Waiting /\ t \notin Waiting' /\ \A u \in Threads \ {t} : pc'[u] = pc[u]
  BY <1>1 DEF Waiting, TypeOK
<1>3. pool.m_num_idle_threads > 0 /\ Cardinality(Waiting') = pool.m_num_idle_threads - 1
  BY <1>1, <1>2, WaitingMoves DEF IdleCountExact
<1>4. /\ pool' \in PoolObject(Threads)
      /\ pool'.m_threads = pool.m_threads /\ pool'.m_abort = pool.m_abort
      /\ pool'.m_num_idle_threads = pool.m_num_idle_threads - 1
  BY <1>1, <1>3, PoolAssumption, ThreadActivePool DEF GoActiveToExit
<1>5. Registered' = Registered
  BY <1>1 DEF TypeOK, Registered
<1>6. TypeOK'
  BY <1>1, <1>4 DEF TypeOK, GoActiveToExit
<1>7. IdleCountExact'
  BY <1>3, <1>4, <1>5, <1>6 DEF IdleCountExact
<1>8. OneHolder' /\ HeldQueue'
  BY <1>1 DEF TypeOK, OneHolder, HeldQueue, GoActiveToExit, HoldsJobMutex
<1> QED
  BY <1>7, <1>8

(* A job ends: nothing the pool counts has changed.                        *)
LEMMA FinishJobInv ==
    ASSUME IInv, NEW t \in Threads, FinishJob(t)
    PROVE  IInv'
<1> USE DEF IInv
<1>1. TypeOK /\ pc' = [pc EXCEPT ![t] = "loop"]
  BY DEF IdleCountExact, FinishJob
<1>2. Waiting' = Waiting
  BY <1>1 DEF Waiting, TypeOK, FinishJob
<1>3. Registered' = Registered /\ TypeOK'
  BY <1>1 DEF TypeOK, Registered, FinishJob
<1>4. IdleCountExact'
  BY <1>2, <1>3 DEF IdleCountExact, FinishJob
<1>5. OneHolder' /\ HeldQueue'
  BY <1>1 DEF TypeOK, OneHolder, HeldQueue, FinishJob, HoldsJobMutex
<1> QED
  BY <1>4, <1>5

(* The steps that touch the pool only, without m_job_mutex: the setting,   *)
(* the reaper and the abort.                                               *)
LEMMA PoolOnlyInv ==
    ASSUME IInv, UNCHANGED <<queue, pc>>,
           pool' \in PoolObject(Threads),
           reaper' \in [at : {"none", "loaded", "stopping"}, n : Nat],
           pool'.m_num_idle_threads = pool.m_num_idle_threads,
           ~ pool'.m_abort => ~ pool.m_abort /\ pool'.m_threads = pool.m_threads
    PROVE  IInv'
<1>1. Waiting' = Waiting /\ Registered' = Registered
  BY DEF Waiting, Registered
<1>2. TypeOK'
  BY DEF IInv, IdleCountExact, TypeOK
<1>3. IdleCountExact'
  BY <1>1, <1>2 DEF IInv, IdleCountExact
<1> QED
  BY <1>3 DEF IInv, OneHolder, HeldQueue, HoldsJobMutex

(* Every step of the pool, its threads and its users keeps the invariant.  *)
LEMMA NextInv == IInv /\ [Next]_vars => IInv'
<1> SUFFICES ASSUME IInv, [Next]_vars PROVE IInv'
  OBVIOUS
<1>1. /\ pool \in PoolObject(Threads)
      /\ reaper \in [at : {"none", "loaded", "stopping"}, n : Nat]
      /\ pool.m_num_idle_threads \in Nat /\ reaper.n \in Nat /\ NumToReap(pool) \in Nat
  BY PoolAssumption, NumToReapIsNat DEF IInv, IdleCountExact, TypeOK, PoolObject
<1>2. CASE AddJob
  BY <1>2, AddJobInv
<1>3. CASE SubmitJobs
  BY <1>3, SubmitJobsInv
<1>4. CASE ReapLoad
  <2>1. CASE NothingToReap(pool)
    BY <1>1, <1>4, <2>1, ReapPool, PoolOnlyInv DEF ReapLoad
  <2>2. CASE ~ NothingToReap(pool)
    BY <1>1, <1>4, <2>2, PoolOnlyInv DEF ReapLoad
  <2> QED
    BY <2>1, <2>2
<1>5. CASE ReapExchange
  <2>1. reaper' \in [at : {"none", "loaded", "stopping"}, n : Nat]
    BY <1>1, <1>5 DEF ReapExchange
  <2>2. pool' = ExchangeMinimum(pool, reaper.n) /\ UNCHANGED <<queue, pc>>
    BY <1>5 DEF ReapExchange
  <2>3. /\ pool' \in PoolObject(Threads) /\ pool'.m_threads = pool.m_threads
        /\ pool'.m_abort = pool.m_abort /\ pool'.m_num_idle_threads = pool.m_num_idle_threads
    BY <1>1, <2>2, ReapPool
  <2> QED
    BY <2>1, <2>2, <2>3, PoolOnlyInv
<1>6. CASE ReapStop
  BY <1>1, <1>6, ReapPool, PoolOnlyInv DEF ReapStop
<1>7. CASE AbortPool
  BY <1>1, <1>7, PoolAssumption, AbortPoolObject, PoolOnlyInv DEF AbortPool
<1>8. ASSUME NEW i \in MaxSettings, SettingsUpdated(i) PROVE IInv'
  BY <1>1, <1>8, PoolAssumption, SettingsAreNat, SetMaxThreadsPool, PoolOnlyInv DEF SettingsUpdated
<1>9. ASSUME NEW t \in Threads, ThreadStep(t) PROVE IInv'
  BY <1>9, TakeJobInv, GoActiveInv, LowerMinimumInv, WaitOrClaimInv, LeavePoolInv, GoActiveToExitInv,
     FinishJobInv DEF ThreadStep
<1>10. CASE UNCHANGED vars
  BY <1>10 DEF vars, IInv, IdleCountExact, TypeOK, Waiting, Registered, OneHolder, HeldQueue, HoldsJobMutex
<1> QED
  BY <1>2, <1>3, <1>4, <1>5, <1>6, <1>7, <1>8, <1>9, <1>10 DEF Next

(* The inductive invariant of the pool holds throughout.                   *)
THEOREM PoolInvariant == Spec => []IInv
  BY InitInv, NextInv, PTL DEF Spec

(* The counts by which job_queued, set_max_threads and reap_idle_threads   *)
(* start and stop threads are exact in every state, although the idle      *)
(* count is atomic, m_threads is under m_mutex and neither is changed      *)
(* together with the other, and the reaper comes between any two accesses. *)
THEOREM CountsAreExact == Spec => []IdleCountExact
<1>1. IInv => IdleCountExact
  BY DEF IInv
<1> QED
  BY <1>1, PoolInvariant, PTL

(* try_thread_exit: a thread leaves only when no job is queued, for any    *)
(* number of threads and whatever the setting, the reaper and the abort do *)
(* between the two halves.                                                 *)
THEOREM ThreadsExitWithEmptyQueue == Spec => ExitsWithEmptyQueue
<1>1. ASSUME IInv, [Next]_vars
      PROVE  [\A t \in Threads : pc[t] # "none" /\ pc'[t] = "none" => queue = 0]_vars
  <2> SUFFICES ASSUME NEW t \in Threads, pc[t] # "none", pc'[t] = "none", Next
               PROVE  queue = 0
    BY <1>1 DEF vars
  <2> USE <1>1 DEF IInv, IdleCountExact, TypeOK
  <2>1. CASE \/ AddJob \/ AbortPool \/ ReapLoad \/ ReapExchange \/ ReapStop
             \/ \E i \in MaxSettings : SettingsUpdated(i)
    BY <2>1 DEF AddJob, ReapLoad, ReapExchange, ReapStop, AbortPool, SettingsUpdated
  <2>2. CASE SubmitJobs
    BY <2>2 DEF SubmitJobs
  <2>3. ASSUME NEW u \in Threads, ThreadStep(u) PROVE queue = 0
    <3>1. u = t
      BY <2>3 DEF ThreadStep, TakeJob, GoActive, TakeJobActive, WaitOrClaim, LeavePool, GoActiveToExit,
                  ExitThread, FinishJob
    <3>2. pc[u] = "exiting"
      BY <2>3, <3>1 DEF ThreadStep, TakeJob, GoActive, TakeJobActive, WaitOrClaim, LeavePool, GoActiveToExit,
                        ExitThread, FinishJob
    <3> QED
      BY <3>2 DEF HeldQueue
  <2> QED
    BY <2>1, <2>2, <2>3 DEF Next
<1> QED
  BY <1>1, PoolInvariant, PTL DEF Spec, ExitsWithEmptyQueue
=============================================================================

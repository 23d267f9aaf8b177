-------------------------- MODULE DiskIoThreadPool --------------------------
(***************************************************************************)
(* One disk_io_thread_pool serving one job queue: the loop of a disk       *)
(* thread (mmap_disk_io::wait_for_job and thread_fun), the network thread  *)
(* that queues jobs and submits them, the reaper timer, the setting and    *)
(* the shutdown.  Jobs are anonymous: only the length of the queue counts. *)
(*                                                                         *)
(* The queue and the idle count change under m_job_mutex only, which a     *)
(* thread holds from the moment it claims an exit request until it is      *)
(* gone, and while it goes active.  The reaper holds m_mutex from its load *)
(* of the idle count to its end; set_max_threads, abort, job_queued and    *)
(* the second half of try_thread_exit wait for it, the compare-and-swap of *)
(* thread_active does not.                                                 *)
(***************************************************************************)
EXTENDS ThreadPool

CONSTANTS
    Threads,        \* thread identities, reused when a thread is gone
    MaxSettings,    \* the values the aio_threads setting may be given
    QueueBound      \* no more jobs than this are queued at a time

ASSUME PoolAssumption ==
    /\ IsFiniteSet(Threads)
    /\ MaxSettings \subseteq 0..Cardinality(Threads)
    /\ QueueBound \in Nat \ {0}

VARIABLES
    pool,       \* the disk_io_thread_pool object
    queue,      \* length of m_queued_jobs
    pc,         \* where each thread is in its loop
    reaper      \* where reap_idle_threads is, and the number it holds

vars == <<pool, queue, pc, reaper>>

(* Where a thread holds m_job_mutex from one step to the next.             *)
HoldsJobMutex(t) == pc[t] \in {"active", "claimed", "left", "exiting"}

JobMutexFree == \A t \in Threads : ~ HoldsJobMutex(t)

MutexFree == reaper.at = "none"

Init ==
    /\ \E i \in MaxSettings : pool = SetMaxThreads(NewPool, i)
    /\ queue = 0
    /\ pc = [t \in Threads |-> "none"]
    /\ reaper = [at |-> "none", n |-> 0]

(* add_job: the job joins the queue; nobody is told yet.  mmap_disk_io     *)
(* takes no more jobs once it has set its m_abort, which it does before it *)
(* aborts the pool.                                                        *)
AddJob ==
    /\ JobMutexFree
    /\ ~ pool.m_abort
    /\ queue < QueueBound
    /\ queue' = queue + 1
    /\ UNCHANGED <<pool, pc, reaper>>

(* submit_jobs: the waiting threads are notified, and new ones started.    *)
SubmitJobs ==
    /\ JobMutexFree /\ MutexFree
    /\ queue > 0
    /\ \E new \in SUBSET {t \in Threads : pc[t] = "none"} :
          /\ Cardinality(new) = NumToStart(pool, queue)
          /\ pool' = JobQueued(pool, queue, new)
          /\ pc' = [t \in Threads |-> IF t \in new THEN "loop" ELSE pc[t]]
    /\ UNCHANGED <<queue, reaper>>

(* A thread enters wait_for_job, at the top of its loop, with m_job_mutex: *)
(* it takes a job if there is one, and goes idle if not.                   *)
TakeJob(t) ==
    /\ JobMutexFree
    /\ queue > 0
    /\ queue' = queue - 1
    /\ pc[t] = "loop"
    /\ pc' = [pc EXCEPT ![t] = "busy"]
    /\ UNCHANGED <<pool, reaper>>

(* A waiting thread finds a job: it goes active, in two steps, and takes   *)
(* it.                                                                     *)
GoActive(t) ==
    /\ JobMutexFree
    /\ queue > 0
    /\ pc[t] = "idle"
    /\ pool' = ThreadActive(pool)
    /\ pc' = [pc EXCEPT ![t] = "active"]
    /\ UNCHANGED <<queue, reaper>>

TakeJobActive(t) ==
    /\ pc[t] = "active"
    /\ pool' = LowerMinimum(pool)
    /\ queue' = queue - 1
    /\ pc' = [pc EXCEPT ![t] = "busy"]
    /\ UNCHANGED reaper

(* The emptiness check and the exit check of wait_for_job's loop: the      *)
(* thread claims an exit request, if there is one, or waits.               *)
BUG_ClaimWithJobsQueued(t) ==
    /\ JobMutexFree
    /\ pc[t] \in {"loop", "idle"}
    /\ LET idle == IF pc[t] = "loop" THEN ThreadIdle(pool) ELSE pool
       IN  IF ShouldExit(idle)
           THEN /\ pool' = ClaimExit(idle)
                /\ pc' = [pc EXCEPT ![t] = "claimed"]
           ELSE /\ pool' = idle
                /\ pc' = [pc EXCEPT ![t] = "idle"]
    /\ UNCHANGED <<queue, reaper>>

WaitOrClaim(t) ==
    /\ JobMutexFree
    /\ queue = 0
    /\ pc[t] \in {"loop", "idle"}
    /\ LET idle == IF pc[t] = "loop" THEN ThreadIdle(pool) ELSE pool
       IN  IF ShouldExit(idle)
           THEN /\ pool' = ClaimExit(idle)
                /\ pc' = [pc EXCEPT ![t] = "claimed"]
           ELSE /\ pool' = idle
                /\ pc' = [pc EXCEPT ![t] = "idle"]
    /\ UNCHANGED <<queue, reaper>>

(* The second half of try_thread_exit: the thread leaves m_threads.        *)
LeavePool(t) ==
    /\ MutexFree
    /\ pc[t] = "claimed"
    /\ pool' = Unregister(pool, t)
    /\ pc' = [pc EXCEPT ![t] = "left"]
    /\ UNCHANGED <<queue, reaper>>

(* thread_active, and the end of thread_fun.                               *)
BUG_ExitsStillIdle(t) ==
    /\ pc[t] = "left"
    /\ pc' = [pc EXCEPT ![t] = "exiting"]
    /\ UNCHANGED <<pool, queue, reaper>>

GoActiveToExit(t) ==
    /\ pc[t] = "left"
    /\ pool' = ThreadActive(pool)
    /\ pc' = [pc EXCEPT ![t] = "exiting"]
    /\ UNCHANGED <<queue, reaper>>

ExitThread(t) ==
    /\ pc[t] = "exiting"
    /\ pool' = LowerMinimum(pool)
    /\ pc' = [pc EXCEPT ![t] = "none"]
    /\ UNCHANGED <<queue, reaper>>

(* execute_job has returned.                                               *)
FinishJob(t) ==
    /\ pc[t] = "busy"
    /\ pc' = [pc EXCEPT ![t] = "loop"]
    /\ UNCHANGED <<pool, queue, reaper>>

(* settings_updated: the setting may change at any time, and does so       *)
(* without m_job_mutex.                                                    *)
SettingsUpdated(i) ==
    /\ MutexFree
    /\ pool' = SetMaxThreads(pool, i)
    /\ UNCHANGED <<queue, pc, reaper>>

(* reap_idle_threads: it loads the idle count, exchanges the minimum for   *)
(* it, and stores what it asks for; a thread may go active between any two *)
(* of these.                                                               *)
ReapLoad ==
    /\ MutexFree
    /\ pool.m_idle_timer
    /\ IF NothingToReap(pool)
       THEN pool' = TimerDone(pool) /\ UNCHANGED reaper
       ELSE /\ reaper' = [at |-> "loaded", n |-> pool.m_num_idle_threads]
            /\ UNCHANGED pool
    /\ UNCHANGED <<queue, pc>>

ReapExchange ==
    /\ reaper.at = "loaded"
    /\ pool' = ExchangeMinimum(pool, reaper.n)
    /\ reaper' = [at |-> IF NumToReap(pool) = 0 THEN "none" ELSE "stopping", n |-> NumToReap(pool)]
    /\ UNCHANGED <<queue, pc>>

ReapStop ==
    /\ reaper.at = "stopping"
    /\ pool' = StopThreads(pool, reaper.n)
    /\ reaper' = [at |-> "none", n |-> 0]
    /\ UNCHANGED <<queue, pc>>

AbortPool ==
    /\ MutexFree
    /\ ~ pool.m_abort
    /\ pool' = Abort(pool)
    /\ UNCHANGED <<queue, pc, reaper>>

ThreadStep(t) ==
    \/ TakeJob(t) \/ GoActive(t) \/ TakeJobActive(t) \/ FinishJob(t)
    \/ WaitOrClaim(t) \/ LeavePool(t) \/ GoActiveToExit(t) \/ ExitThread(t)

Next ==
    \/ AddJob \/ SubmitJobs \/ AbortPool
    \/ ReapLoad \/ ReapExchange \/ ReapStop
    \/ \E i \in MaxSettings : SettingsUpdated(i)
    \/ \E t \in Threads : ThreadStep(t)

Spec == Init /\ [][Next]_vars

(* A disk thread is never held up for good: it wakes at least once a       *)
(* second and jobs end.  Whoever queues jobs also submits them             *)
(* (session_impl::deferred_submit_jobs), and the reaper, once it runs,     *)
(* runs to its end.                                                        *)
FairSpec ==
    /\ Spec
    /\ \A t \in Threads : WF_vars(ThreadStep(t))
    /\ WF_vars(SubmitJobs)
    /\ WF_vars(ReapExchange \/ ReapStop)
-----------------------------------------------------------------------------
(* The threads that m_threads should have, and those that the idle count   *)
(* should count: a thread that exits leaves the first before the second.   *)
Registered == {t \in Threads : pc[t] \notin {"none", "left", "exiting"}}

Waiting == {t \in Threads : pc[t] \in {"idle", "claimed", "left"}}

(* The types of the state; the pool's counters stay natural numbers.       *)
TypeOK ==
    /\ pool \in PoolObject(Threads)
    /\ queue \in 0..QueueBound
    /\ pc \in [Threads -> {"none", "loop", "idle", "active", "busy", "claimed", "left", "exiting"}]
    /\ reaper \in [at : {"none", "loaded", "stopping"}, n : Nat]

(* The counts that job_queued, set_max_threads and the reaper decide by    *)
(* are exact: the idle count and, until the pool is aborted, m_threads,    *)
(* although they are changed at different times and under different locks. *)
(* Nothing of the kind holds of the reaper's minimum, whose load and       *)
(* exchange are two steps: it may exceed the idle count.                   *)
IdleCountExact ==
    /\ TypeOK
    /\ pool.m_num_idle_threads = Cardinality(Waiting)
    /\ ~ pool.m_abort => pool.m_threads = Registered

(* What makes the counts inductive: m_job_mutex is held by one thread at a *)
(* time, a job is there while one goes active to take it, and the queue is *)
(* empty while one exits.                                                  *)
OneHolder == \A t, u \in Threads : HoldsJobMutex(t) /\ HoldsJobMutex(u) => t = u

HeldQueue ==
    \A t \in Threads :
        /\ pc[t] = "active" => queue > 0
        /\ pc[t] \in {"claimed", "left", "exiting"} => queue = 0

IInv == IdleCountExact /\ OneHolder /\ HeldQueue

(* "When we're terminating the last thread, make sure we finish up all     *)
(* queued jobs first": no thread leaves while a job is queued, even if     *)
(* the setting, the reaper or an abort comes in between.                   *)
ExitsWithEmptyQueue ==
    [][\A t \in Threads : pc[t] # "none" /\ pc'[t] = "none" => queue = 0]_vars

(* Queued jobs are served, whatever the reaper does to the threads, as     *)
(* long as the pool is not aborted.                                        *)
JobsAreServed == [](queue > 0 => <>(queue = 0 \/ pool.m_abort \/ \E t \in Threads : pc[t] = "busy"))

(* After abort() every thread exits, which is what lets the network        *)
(* thread's io_context stop.                                               *)
AbortEndsThreads == pool.m_abort ~> (\A t \in Threads : pc[t] = "none")
=============================================================================

----------------------------- MODULE ThreadPool -----------------------------
(***************************************************************************)
(* disk_io_thread_pool (src/disk_io_thread_pool.cpp): the policy that      *)
(* starts and stops disk threads, as operators on the value of one pool    *)
(* object.  m_threads is the set of registered threads.  Waking the        *)
(* threads that wait on the job queue (notify_all) has no operator: such a *)
(* thread also wakes up by itself once a second.                           *)
(*                                                                         *)
(* The operators named BUG_... are wrong variants of the definition that   *)
(* follows them; no specification uses them.                               *)
(***************************************************************************)
EXTENDS Integers, FiniteSets, FiniteSetsExt

NewPool == [m_max_threads |-> 0, m_threads |-> {}, m_threads_to_exit |-> 0, m_abort |-> FALSE,
            m_num_idle_threads |-> 0, m_min_idle_threads |-> 0, m_idle_timer |-> FALSE]

PoolObject(Threads) ==
    [m_max_threads : Nat, m_threads : SUBSET Threads, m_threads_to_exit : Nat, m_abort : BOOLEAN,
     m_num_idle_threads : Nat, m_min_idle_threads : Nat, m_idle_timer : BOOLEAN]

StopThreads(p, num_to_stop) == [p EXCEPT !.m_threads_to_exit = num_to_stop]

(* set_max_threads(i): the surplus threads are asked to exit.              *)
SetMaxThreads(p, i) ==
    LET size == Cardinality(p.m_threads)
    IN  IF i = p.m_max_threads THEN p
        ELSE IF size < i THEN [p EXCEPT !.m_max_threads = i]
        ELSE StopThreads([p EXCEPT !.m_max_threads = i], size - i)

(* abort(false): all threads are asked to exit, and detached.              *)
BUG_AbortAsksOneThread(p) ==
    IF p.m_abort THEN p
    ELSE [StopThreads(p, 1) EXCEPT !.m_abort = TRUE, !.m_idle_timer = FALSE, !.m_threads = {}]

Abort(p) ==
    IF p.m_abort THEN p
    ELSE [StopThreads(p, Cardinality(p.m_threads)) EXCEPT
             !.m_abort = TRUE, !.m_idle_timer = FALSE, !.m_threads = {}]

ThreadIdle(p) == [p EXCEPT !.m_num_idle_threads = @ + 1]

(* thread_active, first half: the thread is not counted as idle any more.  *)
ThreadActive(p) == [p EXCEPT !.m_num_idle_threads = @ - 1]

(* thread_active, second half, the compare-and-swap: the minimum follows.  *)
(* The thread holds m_job_mutex, so that the count is still the one that   *)
(* the decrement returned; the reaper, which does not take that mutex, may *)
(* have replaced the minimum in between.                                   *)
LowerMinimum(p) == [p EXCEPT !.m_min_idle_threads = Min({@, p.m_num_idle_threads})]

ShouldExit(p) == p.m_threads_to_exit > 0

(* try_thread_exit, first half: take one of the exit requests.             *)
ClaimExit(p) == [p EXCEPT !.m_threads_to_exit = @ - 1]

(* try_thread_exit, second half, under m_mutex: the thread leaves the      *)
(* vector, unless abort() has already detached them all.                   *)
Unregister(p, t) ==
    IF p.m_abort THEN p
    ELSE [p EXCEPT !.m_threads = @ \ {t},
                   !.m_idle_timer = @ /\ p.m_threads # {t}]

(* job_queued(queue_size): how many threads it starts; not if enough are   *)
(* idle already, nor after an abort.                                       *)
QueuedIsServed(p, queue_size) == p.m_num_idle_threads >= queue_size \/ p.m_abort

BUG_MaxOffByOne(p, queue_size) ==
    IF QueuedIsServed(p, queue_size) THEN 0
    ELSE Max({0, Min({queue_size - p.m_num_idle_threads,
                      p.m_max_threads - 1 - Cardinality(p.m_threads)})})

NumToStart(p, queue_size) ==
    IF QueuedIsServed(p, queue_size) THEN 0
    ELSE Max({0, Min({queue_size - p.m_num_idle_threads,
                      p.m_max_threads - Cardinality(p.m_threads)})})

(* job_queued with `new' the threads it starts.  An exit request that      *)
(* would take a thread needed for the queue is withdrawn.                  *)
JobQueued(p, queue_size, new) ==
    IF QueuedIsServed(p, queue_size) THEN p
    ELSE [p EXCEPT !.m_threads_to_exit = Min({@, Max({0, p.m_num_idle_threads - queue_size})}),
                   !.m_threads = @ \union new,
                   !.m_idle_timer = @ \/ (p.m_threads = {} /\ new # {})]

(* reap_idle_threads(), when the timer fires: there is nothing to do for   *)
(* a pool that was aborted or has no threads, and the timer is not set     *)
(* again.                                                                  *)
NothingToReap(p) == p.m_abort \/ p.m_threads = {}

TimerDone(p) == [p EXCEPT !.m_idle_timer = FALSE]

(* The exchange: the idle count, loaded before it, is the next period's    *)
(* minimum.                                                                *)
ExchangeMinimum(p, loaded) == [p EXCEPT !.m_min_idle_threads = loaded]

(* How many threads are asked to exit: those that were not needed for a    *)
(* whole period; 0 stands for the early return.                            *)
NumToReap(p) ==
    IF p.m_min_idle_threads <= 0 THEN 0
    ELSE Max({p.m_min_idle_threads, Cardinality(p.m_threads) - p.m_max_threads})
=============================================================================

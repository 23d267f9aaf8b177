---------------------------- MODULE DiskJobFence ----------------------------
(***************************************************************************)
(* One storage's disk_job_fence in its surroundings: the network thread    *)
(* hands it ordinary jobs (is_blocked) and fence jobs (raise_fence) in     *)
(* some order, the disk threads finish the jobs it has let through in any  *)
(* order (job_complete).  A fence job needs exclusive access to the        *)
(* storage; the fence is what gives it that.                               *)
(***************************************************************************)
EXTENDS JobFence, FiniteSets

CONSTANT Jobs       \* the mmap_disk_job objects of this storage

ASSUME JobsFinite == IsFiniteSet(Jobs)

VARIABLES
    fence,          \* the disk_job_fence object
    fences,         \* jobs with mmap_disk_job::fence set
    in_progress,    \* jobs with mmap_disk_job::in_progress set
    done,           \* jobs that have gone through job_complete
    ticket,         \* history: the order in which jobs reached the fence (0: not yet)
    issued          \* history: how many jobs have reached the fence

vars == <<fence, fences, in_progress, done, ticket, issued>>

Init ==
    /\ fence = NewFence
    /\ fences = {}
    /\ in_progress = {}
    /\ done = {}
    /\ ticket = [j \in Jobs |-> 0]
    /\ issued = 0

Issue(j) ==
    /\ ticket[j] = 0
    /\ issued' = issued + 1
    /\ ticket' = [ticket EXCEPT ![j] = issued + 1]

(* add_job -> is_blocked *)
IsBlocked(j) ==
    /\ Issue(j)
    /\ fence' = AfterIsBlocked(fence, j)
    /\ in_progress' = IF Admits(fence) THEN in_progress \union {j} ELSE in_progress
    /\ UNCHANGED <<fences, done>>

(* add_fence_job -> raise_fence *)
RaiseFence(j) ==
    /\ Issue(j)
    /\ fences' = fences \union {j}
    /\ fence' = AfterRaiseFence(fence, j)
    /\ in_progress' = IF PostsFence(fence) THEN in_progress \union {j} ELSE in_progress
    /\ UNCHANGED done

(* execute_job -> add_completed_jobs_impl -> job_complete: a disk thread   *)
(* is done with j; what the fence releases goes to the job queue.          *)
Complete(j) ==
    /\ j \in in_progress
    /\ LET r == JobComplete(fence, j, fences, <<>>)
       IN  /\ fence' = r.fence
           /\ in_progress' = (in_progress \ {j}) \union {r.jobs[i] : i \in DOMAIN r.jobs}
    /\ done' = done \union {j}
    /\ UNCHANGED <<fences, ticket, issued>>

Next == \E j \in Jobs : IsBlocked(j) \/ RaiseFence(j) \/ Complete(j)

Spec == Init /\ [][Next]_vars

(* The disk threads keep serving the job queue, so a job that has been     *)
(* let through is eventually completed.                                    *)
FairSpec == Spec /\ \A j \in Jobs : WF_vars(Complete(j))
-----------------------------------------------------------------------------
Blocked == {fence.m_blocked_jobs[i] : i \in 1..Len(fence.m_blocked_jobs)}

Reached == {j \in Jobs : ticket[j] # 0}

(* The types of the state; neither counter of the fence goes below zero.   *)
TypeOK ==
    /\ fence \in FenceObject(Jobs)
    /\ fences \in SUBSET Jobs
    /\ in_progress \in SUBSET Jobs
    /\ done \in SUBSET Jobs
    /\ ticket \in [Jobs -> Nat]
    /\ issued \in Nat

(* Exclusive access, the promise of disk_job_fence.hpp and the assertion   *)
(* num_outstanding_jobs() == 1 at the top of every fence job's function:   *)
(* a fence job in progress is the only job in progress.                    *)
FenceExclusive ==
    \A j \in in_progress \intersect fences : in_progress = {j}

(* No lost wake-up: as long as any job is parked behind the fence, some    *)
(* job is in progress whose completion will look at the queue again.       *)
NoLostWakeup == fence.m_blocked_jobs # <<>> => in_progress # {}

(* The counters is_blocked, raise_fence and job_complete decide by are     *)
(* exact: m_outstanding_jobs counts the jobs in progress, m_has_fence the  *)
(* fence jobs not completed yet, however the three calls interleave.       *)
CountersExact ==
    /\ fence.m_outstanding_jobs = Cardinality(in_progress)
    /\ fence.m_has_fence = Cardinality(fences \ done)

(* A fence orders the storage's jobs: of two jobs one of which is a fence  *)
(* job, the one that reached the fence later does not start before the     *)
(* earlier one has completed.                                              *)
FenceOrder ==
    \A a, b \in Jobs :
        /\ 0 < ticket[a] /\ ticket[a] < ticket[b]
        /\ a \in fences \/ b \in fences
        /\ b \in in_progress \union done
        => a \in done

(* Every job handed to the fence is eventually completed, fence jobs and   *)
(* the jobs parked behind them included.                                   *)
EveryJobCompletes == \A j \in Jobs : ticket[j] # 0 ~> j \in done

(* The abstract promise: jobs share the storage, fence jobs have it alone, *)
(* in the order of arrival.                                                *)
Access == INSTANCE StorageAccess WITH started <- in_progress \union done

ImplementsAccess == Access!Spec
-----------------------------------------------------------------------------
(***************************************************************************)
(* The inductive invariant behind these properties.                        *)
(***************************************************************************)

(* Every job that reached the fence is in exactly one place, and at most   *)
(* once in the queue.                                                      *)
Placed ==
    /\ Reached = Blocked \union in_progress \union done
    /\ fences \subseteq Reached
    /\ Blocked \intersect in_progress = {}
    /\ Blocked \intersect done = {}
    /\ in_progress \intersect done = {}

(* The blocked queue is in order of arrival.                               *)
QueueOrdered ==
    \A p, q \in 1..Len(fence.m_blocked_jobs) :
        p < q => ticket[fence.m_blocked_jobs[p]] < ticket[fence.m_blocked_jobs[q]]

TicketsDistinct ==
    /\ \A j \in Jobs : ticket[j] <= issued
    /\ \A a, b \in Jobs : ticket[a] = ticket[b] /\ ticket[a] # 0 => a = b

(* Unless a fence job is running, the first blocked job is a fence job;    *)
(* and nothing is blocked without a fence job still to complete.           *)
QueueHead ==
    /\ fence.m_blocked_jobs # <<>> =>
          \/ fence.m_blocked_jobs[1] \in fences
          \/ in_progress \intersect fences # {}
    /\ fences \ done = {} => fence.m_blocked_jobs = <<>>

IInv ==
    /\ TypeOK
    /\ Placed
    /\ TicketsDistinct
    /\ QueueOrdered
    /\ CountersExact
    /\ QueueHead
    /\ FenceExclusive
    /\ NoLostWakeup
    /\ FenceOrder
=============================================================================

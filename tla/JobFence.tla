------------------------------ MODULE JobFence ------------------------------
(***************************************************************************)
(* disk_job_fence: the per-storage fence of the disk I/O subsystem         *)
(* (src/disk_job_fence.cpp), as operators on the value of one fence        *)
(* object.  The three operations run under the fence's own m_mutex, so     *)
(* each is one atomic change of that value.                                *)
(*                                                                         *)
(* `fences' is the set of jobs carrying the mmap_disk_job::fence flag.     *)
(* The operators named BUG_... are wrong variants of the definition that   *)
(* follows them; no specification uses them.  They serve to confirm that   *)
(* the properties tell the variant from the code.                          *)
(***************************************************************************)
EXTENDS Integers, Sequences

(* A fence object as constructed: fence down, nothing blocked, no job      *)
(* outstanding.                                                            *)
NewFence == [m_has_fence |-> 0, m_outstanding_jobs |-> 0, m_blocked_jobs |-> <<>>]

FenceObject(Jobs) == [m_has_fence : Nat, m_outstanding_jobs : Nat, m_blocked_jobs : Seq(Jobs)]

(* is_blocked(): with the fence down the job is admitted and counted as    *)
(* outstanding, otherwise it joins the back of the blocked queue.          *)
BUG_AdmitsBehindOneFence(f) == f.m_has_fence <= 1

Admits(f) == f.m_has_fence = 0

AfterIsBlocked(f, j) ==
    IF Admits(f)
    THEN [f EXCEPT !.m_outstanding_jobs = @ + 1]
    ELSE [f EXCEPT !.m_blocked_jobs = Append(@, j)]

(* raise_fence(): the fence goes up in either case.  The fence job may be  *)
(* posted at once (fence_post_fence) only if no fence was up and nothing   *)
(* is outstanding; otherwise it queues up behind what is already there.    *)
BUG_PostsFenceEarly(f) == f.m_has_fence = 0

PostsFence(f) == f.m_has_fence = 0 /\ f.m_outstanding_jobs = 0

BUG_FenceJumpsQueue(f, j) ==
    IF PostsFence(f)
    THEN [f EXCEPT !.m_has_fence = @ + 1, !.m_outstanding_jobs = @ + 1]
    ELSE [f EXCEPT !.m_has_fence = @ + 1, !.m_blocked_jobs = <<j>> \o @]

AfterRaiseFence(f, j) ==
    IF PostsFence(f)
    THEN [f EXCEPT !.m_has_fence = @ + 1, !.m_outstanding_jobs = @ + 1]
    ELSE [f EXCEPT !.m_has_fence = @ + 1, !.m_blocked_jobs = Append(@, j)]

(* The jobs the lowered fence lets go of: the blocked ones up to the next  *)
(* fence job, which stays at the front of the queue.                       *)
LeadingJobs(blocked, fences) ==
    CHOOSE n \in 0..Len(blocked) :
        /\ \A i \in 1..n : blocked[i] \notin fences
        /\ n < Len(blocked) => blocked[n + 1] \in fences

(* How many blocked jobs job_complete() releases, given the outstanding    *)
(* count after the completed job was taken off it and the jobs the caller  *)
(* has already collected in `jobs'.                                        *)
BUG_NextFenceStaysParked(f, isFence, fences, outstanding, jobs) ==
    IF isFence
    THEN LeadingJobs(f.m_blocked_jobs, fences)
    ELSE IF outstanding > 0 \/ f.m_has_fence = 0 THEN 0 ELSE 1

BUG_OnlyFencesRelease(f, isFence, fences, outstanding, jobs) ==
    IF isFence THEN LeadingJobs(f.m_blocked_jobs, fences) ELSE 0

Released(f, isFence, fences, outstanding, jobs) ==
    IF isFence
    THEN LET n == LeadingJobs(f.m_blocked_jobs, fences)
         IN  IF n = 0 /\ f.m_blocked_jobs # <<>> /\ outstanding = 0 /\ jobs = <<>>
             THEN 1
             ELSE n
    ELSE IF outstanding > 0 \/ f.m_has_fence = 0 THEN 0 ELSE 1

(* job_complete(j, jobs): the completed job no longer counts as            *)
(* outstanding; a completed fence job lowers its fence; the released jobs  *)
(* are outstanding from now on.  The result is the fence object and the    *)
(* caller's `jobs' list, to whose front a fence job that was waiting for   *)
(* the last outstanding job goes.                                          *)
BUG_ReleasedUncounted(f, j, fences, jobs) ==
    LET outstanding == f.m_outstanding_jobs - 1
        isFence     == j \in fences
        n           == Released(f, isFence, fences, outstanding, jobs)
        out         == SubSeq(f.m_blocked_jobs, 1, n)
    IN  [fence |-> [m_has_fence        |-> IF isFence THEN f.m_has_fence - 1 ELSE f.m_has_fence,
                    m_outstanding_jobs |-> outstanding,
                    m_blocked_jobs     |-> SubSeq(f.m_blocked_jobs, n + 1, Len(f.m_blocked_jobs))],
         jobs  |-> IF isFence THEN jobs \o out ELSE out \o jobs]

JobComplete(f, j, fences, jobs) ==
    LET outstanding == f.m_outstanding_jobs - 1
        isFence     == j \in fences
        n           == Released(f, isFence, fences, outstanding, jobs)
        out         == SubSeq(f.m_blocked_jobs, 1, n)
    IN  [fence |-> [m_has_fence        |-> IF isFence THEN f.m_has_fence - 1 ELSE f.m_has_fence,
                    m_outstanding_jobs |-> outstanding + n,
                    m_blocked_jobs     |-> SubSeq(f.m_blocked_jobs, n + 1, Len(f.m_blocked_jobs))],
         jobs  |-> IF isFence THEN jobs \o out ELSE out \o jobs]
=============================================================================

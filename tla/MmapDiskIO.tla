----------------------------- MODULE MmapDiskIO -----------------------------
(***************************************************************************)
(* The disk I/O subsystem (src/mmap_disk_io.cpp): the network thread       *)
(* issues jobs on one storage, generic and hashing threads execute them,   *)
(* the storage's job fence orders them, the store buffer answers reads of  *)
(* blocks that are still to be written, and completed jobs go back to the  *)
(* network thread, which calls their handlers.                             *)
(*                                                                         *)
(* Every step of a thread is one critical section of the code (the fence's *)
(* m_mutex, m_job_mutex, m_completed_jobs_mutex, the store buffer's        *)
(* m_mutex) or one access to the files; between two of them any other      *)
(* thread may run.                                                         *)
(*                                                                         *)
(* A write job stands for the data it writes.                              *)
(*                                                                         *)
(* The operators named BUG_... are wrong variants of the definition that   *)
(* follows them; no specification uses them.                               *)
(***************************************************************************)
EXTENDS JobFence, ThreadPool, SequencesExt

CONSTANTS
    WriteJobs, ReadJobs, HashJobs, FenceJobs,   \* the jobs, by what they do
    SequentialHash,     \* hash jobs with the sequential_access flag (full checks)
    VolatileHash,       \* hash jobs with the volatile_read flag
    StopJobs,           \* fence jobs that cancel hash jobs first (stop_torrent, delete_files)
    LateJobs,           \* jobs that may still be issued after abort()
    Workloads,          \* the sets of jobs that are issued in one behaviour
    Blocks,             \* the blocks of the piece, by offset
    BlocksOf,           \* the blocks a read, write or hash job is about
    GenericThreads, HashThreads,
    Net,                \* the network thread
    Settings,           \* the values of <<aio_threads, hashing_threads>> to start with
    SettingsChanges,    \* the changes of them that are made later
    DiskFaults,         \* how file operations may fail: "error", "exception"
    MayReap,            \* does the timer of the thread pools fire?
    MayAbort            \* does the session shut down?

Jobs == WriteJobs \union ReadJobs \union HashJobs \union FenceJobs
Workers == GenericThreads \union HashThreads
Pools == {"generic", "hash"}
ThreadsOf(q) == IF q = "generic" THEN GenericThreads ELSE HashThreads
PoolOf(t) == IF t \in HashThreads THEN "hash" ELSE "generic"

(* What a block holds that was never written.                              *)
Nothing == "nothing"

ASSUME DiskAssumption ==
    /\ IsFiniteSet(Jobs) /\ IsFiniteSet(Workers) /\ Net \notin Workers
    /\ FenceJobs \intersect (WriteJobs \union ReadJobs \union HashJobs) = {}
    /\ WriteJobs \intersect (ReadJobs \union HashJobs) = {} /\ ReadJobs \intersect HashJobs = {}
    /\ GenericThreads \intersect HashThreads = {}
    /\ Blocks \subseteq Nat
    /\ \A j \in Jobs \ FenceJobs : BlocksOf[j] \subseteq Blocks /\ BlocksOf[j] # {}
    /\ \A w \in WriteJobs : \E b \in Blocks : BlocksOf[w] = {b}
    /\ Nothing \notin WriteJobs
    /\ Workloads \subseteq SUBSET Jobs
    /\ Settings \subseteq (0..Cardinality(GenericThreads)) \X (0..Cardinality(HashThreads))
    /\ SettingsChanges \subseteq Settings \X Settings
    /\ DiskFaults \subseteq {"error", "exception"} /\ {MayReap, MayAbort} \subseteq BOOLEAN

VARIABLES
    fence,              \* the storage's disk_job_fence
    pools,              \* m_generic_threads, m_hash_threads
    m_queued_jobs,      \* the two job queues
    m_store_buffer,     \* block -> write job whose buffer holds it
    disk,               \* block -> write job that wrote it last
    m_completed_jobs,
    m_job_completions_in_flight,
    m_abort,
    aborted,            \* jobs with mmap_disk_job::aborted set
    ret,                \* outcome of each job
    data,               \* what each read and hash job has seen of each block
    thr,                \* where each thread is, and its local variables
    m_num_running_threads,
    released,           \* abort_jobs has closed the files
    issued,             \* history: jobs in the order they were issued
    reached,            \* history: jobs in the order they reached the fence
    called              \* history: jobs in the order their handlers were called

vars == <<fence, pools, m_queued_jobs, m_store_buffer, disk, m_completed_jobs,
          m_job_completions_in_flight, m_abort, aborted, ret, data, thr,
          m_num_running_threads, released, issued, reached, called>>

fenceVars == <<fence, reached>>
fileVars == <<m_store_buffer, disk, data>>
postVars == <<m_completed_jobs, m_job_completions_in_flight, called>>
poolVars == <<pools, m_num_running_threads>>

(* A thread's locals: the jobs of the current pass of add_completed_jobs,  *)
(* those not yet taken off the fence, the jobs the fence released, the     *)
(* ones failed for the next pass, and the blocks do_hash has to go through.*)
At(pc, jobs) == [pc |-> pc, jobs |-> jobs, todo |-> jobs, new |-> <<>>, failed |-> <<>>, left |-> {}]

Stopped == At("none", <<>>)

Init ==
    /\ fence = NewFence
    /\ \E s \in Settings :
          pools = [q \in Pools |-> SetMaxThreads(NewPool, s[IF q = "generic" THEN 1 ELSE 2])]
    /\ m_queued_jobs = [q \in Pools |-> <<>>]
    /\ m_store_buffer = [b \in Blocks |-> Nothing]
    /\ disk = [b \in Blocks |-> Nothing]
    /\ m_completed_jobs = <<>>
    /\ m_job_completions_in_flight = FALSE
    /\ m_abort = FALSE
    /\ aborted = {}
    /\ ret = [j \in Jobs |-> "none"]
    /\ data = [j \in ReadJobs \union HashJobs |-> [b \in Blocks |-> Nothing]]
    /\ thr = [t \in Workers \union {Net} |-> Stopped]
    /\ m_num_running_threads = 0
    /\ released = FALSE
    /\ issued = <<>>
    /\ reached = <<>>
    /\ called = <<>>
-----------------------------------------------------------------------------
(***************************************************************************)
(* Queues and pools.                                                       *)
(***************************************************************************)
MaxThreads(q) == pools[q].m_max_threads

num_threads == MaxThreads("generic") + MaxThreads("hash")

(* queue_for_job: only the hash jobs of a full check go to the hash queue. *)
QueueForJob(j) ==
    IF MaxThreads("hash") > 0 /\ j \in HashJobs /\ j \in SequentialHash THEN "hash" ELSE "generic"

PoolForJob(j) ==
    IF MaxThreads("hash") > 0 /\ j \in HashJobs THEN "hash" ELSE "generic"

(* job_queued for each of the queues in S, all of which have jobs; apart   *)
(* from the threads that are started, thr becomes `base'.                  *)
NotifyQueues(S, base) ==
    \E new \in [S -> SUBSET {t \in Workers : thr[t].pc = "none"}] :
        /\ \A q \in S : /\ new[q] \subseteq ThreadsOf(q)
                        /\ Cardinality(new[q]) = NumToStart(pools[q], Len(m_queued_jobs[q]))
        /\ pools' = [q \in Pools |-> IF q \in S THEN JobQueued(pools[q], Len(m_queued_jobs[q]), new[q])
                                               ELSE pools[q]]
        /\ thr' = [t \in DOMAIN thr |->
                     IF \E q \in S : t \in new[q] THEN At("start", <<>>) ELSE base[t]]

NonEmptyQueues == {q \in Pools : m_queued_jobs[q] # <<>>}
-----------------------------------------------------------------------------
(***************************************************************************)
(* The network thread: issuing jobs.                                       *)
(***************************************************************************)
IsIssued(j) == j \in ToSet(issued)

Called(j) == j \in ToSet(called)

Pos(j) == CHOOSE i \in DOMAIN issued : issued[i] = j

Earlier(i, j) == IsIssued(i) /\ IsIssued(j) /\ Pos(i) < Pos(j)

Issue(j) ==
    /\ thr[Net].pc = "none"
    /\ ~ IsIssued(j)
    /\ m_abort => j \in LateJobs
    /\ \E W \in Workloads : ToSet(issued) \union {j} \subseteq W
    /\ issued' = Append(issued, j)

(* Where the network thread goes on, and with which jobs in hand.          *)
NetGoes(pc, jobs) == thr' = [thr EXCEPT ![Net] = At(pc, jobs)]

(* The torrent writes a block again only once it was told that the         *)
(* earlier write is done (or failed), or that the piece was cleared after  *)
(* it (piece_picker keeps the block `writing' until then).                 *)
MayWriteAgain(w) ==
    \A v \in WriteJobs :
        IsIssued(v) /\ BlocksOf[v] = BlocksOf[w] =>
            \/ Called(v)
            \/ \E f \in FenceJobs : Earlier(v, f) /\ Called(f)

(* async_write, up to add_job: the block goes to the store buffer.         *)
AsyncWrite(w) ==
    /\ MayWriteAgain(w)
    /\ Issue(w)
    /\ m_store_buffer' = [b \in Blocks |-> IF b \in BlocksOf[w] /\ m_store_buffer[b] = Nothing
                                           THEN w ELSE m_store_buffer[b]]
    /\ NetGoes("add", <<w>>)
    /\ UNCHANGED <<fenceVars, poolVars, m_queued_jobs, disk, data, postVars, m_abort, aborted, ret, released>>

(* async_read: blocks found in the store buffer are copied right away (or  *)
(* there is no memory to copy them to); if that is all of them the handler *)
(* is called at once, otherwise a job reads what is missing from disk.     *)
AsyncRead(r) ==
    LET found == {b \in BlocksOf[r] : m_store_buffer[b] # Nothing}
        copied == [b \in Blocks |-> IF b \in found THEN m_store_buffer[b] ELSE Nothing]
    IN  /\ Issue(r)
        /\ \/ /\ found # BlocksOf[r]
              /\ data' = [data EXCEPT ![r] = copied]
              /\ NetGoes("add", <<r>>)
              /\ UNCHANGED <<ret, called>>
           \/ /\ found = BlocksOf[r]
              /\ data' = [data EXCEPT ![r] = copied]
              /\ ret' = [ret EXCEPT ![r] = "ok"]
              /\ called' = Append(called, r)
              /\ UNCHANGED thr
           \/ /\ found # {}
              /\ "error" \in DiskFaults
              /\ ret' = [ret EXCEPT ![r] = "failed"]
              /\ called' = Append(called, r)
              /\ UNCHANGED <<thr, data>>
        /\ UNCHANGED <<fenceVars, poolVars, m_queued_jobs, disk, m_store_buffer, m_completed_jobs,
                       m_job_completions_in_flight, m_abort, aborted, released>>

AsyncHash(h) ==
    /\ Issue(h)
    /\ NetGoes("add", <<h>>)
    /\ UNCHANGED <<fenceVars, poolVars, m_queued_jobs, fileVars, postVars, m_abort, aborted, ret, released>>

(* async_clear_piece and the other operations that need the storage for    *)
(* themselves; stopping and deleting first cancel the queued full-check    *)
(* hash jobs (abort_hash_jobs).                                            *)
AsyncFence(f) ==
    /\ Issue(f)
    /\ aborted' = aborted \union IF f \in StopJobs THEN VolatileHash \intersect ToSet(m_queued_jobs["hash"])
                                 ELSE {}
    /\ NetGoes("add", <<f>>)
    /\ UNCHANGED <<fenceVars, poolVars, m_queued_jobs, fileVars, postVars, m_abort, ret, released>>

Adding(j) == thr[Net].pc = "add" /\ thr[Net].jobs = <<j>>

(* job_fail_add: after abort() a new job fails at once.                    *)
JobFailAdd(j) ==
    /\ Adding(j)
    /\ m_abort
    /\ ret' = [ret EXCEPT ![j] = "aborted"]
    /\ aborted' = aborted \union {j}
    /\ m_completed_jobs' = Append(m_completed_jobs, j)
    /\ m_job_completions_in_flight' = TRUE
    /\ NetGoes("none", <<>>)
    /\ UNCHANGED <<fenceVars, poolVars, m_queued_jobs, fileVars, m_abort, released, issued, called>>

BUG_ParkedAndQueued(j) ==
    /\ Adding(j) /\ j \notin FenceJobs
    /\ ~ m_abort
    /\ fence' = AfterIsBlocked(fence, j)
    /\ reached' = Append(reached, j)
    /\ NetGoes("push", <<j>>)
    /\ UNCHANGED <<poolVars, m_queued_jobs, fileVars, postVars, m_abort, aborted, ret, released, issued>>

(* add_job, up to the job queue: the job is admitted, or parked behind the *)
(* fence.                                                                  *)
AddJob(j) ==
    /\ Adding(j) /\ j \notin FenceJobs
    /\ ~ m_abort
    /\ fence' = AfterIsBlocked(fence, j)
    /\ reached' = Append(reached, j)
    /\ IF Admits(fence) THEN NetGoes("push", <<j>>) ELSE NetGoes("none", <<>>)
    /\ UNCHANGED <<poolVars, m_queued_jobs, fileVars, postVars, m_abort, aborted, ret, released, issued>>

(* add_fence_job, up to the job queue.                                     *)
AddFenceJob(j) ==
    /\ Adding(j) /\ j \in FenceJobs
    /\ ~ m_abort
    /\ fence' = AfterRaiseFence(fence, j)
    /\ reached' = Append(reached, j)
    /\ IF PostsFence(fence) THEN NetGoes("push", <<j>>)
       ELSE NetGoes(IF num_threads = 0 THEN "loop" ELSE "none", <<>>)
    /\ UNCHANGED <<poolVars, m_queued_jobs, fileVars, postVars, m_abort, aborted, ret, released, issued>>

(* The rest of add_job and add_fence_job: the job joins its queue.  With   *)
(* no threads to run it the network thread goes through the queue itself   *)
(* (immediate_execute).                                                    *)
PushJob ==
    /\ thr[Net].pc = "push"
    /\ LET j == thr[Net].jobs[1]
           q == IF j \in FenceJobs THEN "generic" ELSE QueueForJob(j)
           immediate == IF j \in FenceJobs THEN num_threads = 0 ELSE MaxThreads(PoolForJob(j)) = 0
       IN  /\ m_queued_jobs' = [m_queued_jobs EXCEPT ![q] = Append(@, j)]
           /\ NetGoes(IF immediate THEN "loop" ELSE "none", <<>>)
    /\ UNCHANGED <<fenceVars, poolVars, fileVars, postVars, m_abort, aborted, ret, released, issued>>

SubmitJobs ==
    /\ thr[Net].pc = "none"
    /\ NonEmptyQueues # {}
    /\ NotifyQueues(NonEmptyQueues, thr)
    /\ UNCHANGED <<fenceVars, m_queued_jobs, fileVars, postVars, m_abort, aborted, ret,
                   m_num_running_threads, released, issued>>


(* call_job_handlers, the message posted to the network thread.            *)
CallJobHandlers ==
    /\ thr[Net].pc = "none"
    /\ m_job_completions_in_flight
    /\ m_job_completions_in_flight' = FALSE
    /\ called' = called \o m_completed_jobs
    /\ m_completed_jobs' = <<>>
    /\ UNCHANGED <<fenceVars, poolVars, m_queued_jobs, fileVars, m_abort, aborted, ret, thr, released, issued>>
-----------------------------------------------------------------------------
(***************************************************************************)
(* The network thread: settings and shutdown.                              *)
(***************************************************************************)

(* settings_updated, for a change of the thread counts or of other         *)
(* settings.                                                               *)
SettingsUpdated(s) ==
    /\ LET old == <<MaxThreads("generic"), MaxThreads("hash")>>
       IN  s = old \/ <<old, s>> \in SettingsChanges
    /\ thr[Net].pc = "none"
    /\ pools' = [pools EXCEPT !["generic"] = SetMaxThreads(@, s[1]), !["hash"] = SetMaxThreads(@, s[2])]
    /\ UNCHANGED <<fenceVars, m_queued_jobs, fileVars, postVars, m_abort, aborted, ret, thr,
                   m_num_running_threads, released, issued>>

(* The timer of the thread pools fires.  How many threads were idle for a  *)
(* whole period is not kept here (m_min_idle_threads stays 0; see          *)
(* DiskIoThreadPool): it may be any number of them, and if it is none      *)
(* reap_idle_threads changes nothing.                                      *)
Reap(q) ==
    /\ MayReap
    /\ thr[Net].pc = "none"
    /\ pools[q].m_idle_timer
    /\ IF NothingToReap(pools[q]) THEN pools' = [pools EXCEPT ![q] = TimerDone(@)]
       ELSE \E n \in 1..Cardinality(ThreadsOf(q)) : pools' = [pools EXCEPT ![q] = StopThreads(@, n)]
    /\ UNCHANGED <<fenceVars, m_queued_jobs, fileVars, postVars, m_abort, aborted, ret, thr,
                   m_num_running_threads, released, issued>>

(* abort(false), first critical section: submit_jobs.                      *)
AbortSubmits ==
    /\ MayAbort /\ ~ m_abort
    /\ thr[Net].pc = "none"
    /\ NotifyQueues(NonEmptyQueues, [thr EXCEPT ![Net] = At("abort", <<>>)])
    /\ UNCHANGED <<fenceVars, m_queued_jobs, fileVars, postVars, m_abort, aborted, ret,
                   m_num_running_threads, released, issued>>

BUG_DecidesBySetting ==
    /\ thr[Net].pc = "abort"
    /\ m_abort' = TRUE
    /\ aborted' = aborted \union ToSet(m_queued_jobs["hash"])
    /\ released' = (released \/ num_threads = 0)
    /\ NetGoes("abort_generic", <<>>)
    /\ UNCHANGED <<fenceVars, poolVars, m_queued_jobs, fileVars, postVars, ret, issued>>

(* Second: m_abort is set and the queued hash jobs are cancelled; the      *)
(* files are closed right away if no thread is left to do it.              *)
AbortStarts ==
    /\ thr[Net].pc = "abort"
    /\ m_abort' = TRUE
    /\ aborted' = aborted \union ToSet(m_queued_jobs["hash"])
    /\ released' = (released \/ \A q \in Pools : pools[q].m_threads = {})
    /\ NetGoes("abort_generic", <<>>)
    /\ UNCHANGED <<fenceVars, poolVars, m_queued_jobs, fileVars, postVars, ret, issued>>

(* Then the two pools are aborted, the generic one first.                  *)
AbortPools ==
    /\ \/ /\ thr[Net].pc = "abort_generic"
          /\ pools' = [pools EXCEPT !["generic"] = Abort(@)]
          /\ NetGoes("abort_hash", <<>>)
       \/ /\ thr[Net].pc = "abort_hash"
          /\ pools' = [pools EXCEPT !["hash"] = Abort(@)]
          /\ NetGoes("none", <<>>)
    /\ UNCHANGED <<fenceVars, m_queued_jobs, fileVars, postVars, m_abort, aborted, ret,
                   m_num_running_threads, released, issued>>
-----------------------------------------------------------------------------
(***************************************************************************)
(* The disk threads.  With no threads configured, the network thread takes *)
(* the same steps from execute_job on (immediate_execute).                 *)
(***************************************************************************)

(* wait_for_job finds a job: the thread takes it off its queue.            *)
TakeJob(t) ==
    LET q == PoolOf(t)
    IN  /\ thr[t].pc \in {"start", "loop", "idle"}
        /\ m_queued_jobs[q] # <<>>
        /\ m_queued_jobs' = [m_queued_jobs EXCEPT ![q] = Tail(@)]
        /\ thr' = [thr EXCEPT ![t] = At("exec", <<Head(m_queued_jobs[q])>>)]
        /\ pools' = [pools EXCEPT ![q] = IF thr[t].pc = "idle" THEN ThreadActive(@) ELSE @]
        /\ m_num_running_threads' = m_num_running_threads + IF thr[t].pc = "start" THEN 1 ELSE 0
        /\ UNCHANGED <<fenceVars, fileVars, postVars, m_abort, aborted, ret, released, issued>>

(* The last thread to exit in a shutdown cleans up.                        *)
CleansUp(threads_left) == threads_left = 0 /\ m_abort

(* wait_for_job finds none: the thread goes idle, and exits if it is asked *)
(* to.                                                                     *)
WaitOrExit(t) ==
    LET q       == PoolOf(t)
        idle    == IF thr[t].pc = "idle" THEN pools[q] ELSE ThreadIdle(pools[q])
        running == m_num_running_threads + IF thr[t].pc = "start" THEN 1 ELSE 0
    IN  /\ t \in Workers
        /\ thr[t].pc \in {"start", "loop", "idle"}
        /\ m_queued_jobs[q] = <<>>
        /\ IF ShouldExit(idle)
           THEN /\ pools' = [pools EXCEPT ![q] = ThreadActive(Unregister(ClaimExit(idle), t))]
                /\ m_num_running_threads' = running - 1
                /\ thr' = [thr EXCEPT ![t] = IF CleansUp(running - 1) THEN At("cleanup", <<>>) ELSE Stopped]
           ELSE /\ pools' = [pools EXCEPT ![q] = idle]
                /\ m_num_running_threads' = running
                /\ thr' = [thr EXCEPT ![t] = At("idle", <<>>)]
        /\ UNCHANGED <<fenceVars, m_queued_jobs, fileVars, postVars, m_abort, aborted, ret, released, issued>>

(* abort_jobs, by the last disk thread.                                    *)
CleanUp(t) ==
    /\ thr[t].pc = "cleanup"
    /\ released' = TRUE
    /\ thr' = [thr EXCEPT ![t] = Stopped]
    /\ UNCHANGED <<fenceVars, poolVars, m_queued_jobs, fileVars, postVars, m_abort, aborted, ret, issued>>

(* immediate_execute: the network thread empties the generic queue.        *)
ImmediateExecute ==
    /\ thr[Net].pc = "loop"
    /\ IF m_queued_jobs["generic"] = <<>>
       THEN NetGoes("none", <<>>) /\ UNCHANGED m_queued_jobs
       ELSE /\ NetGoes("exec", <<Head(m_queued_jobs["generic"])>>)
            /\ m_queued_jobs' = [m_queued_jobs EXCEPT !["generic"] = Tail(@)]
    /\ UNCHANGED <<fenceVars, poolVars, fileVars, postVars, m_abort, aborted, ret, released, issued>>

Running(t, j) == thr[t].jobs = <<j>>

GoesOn(t, pc) == thr' = [thr EXCEPT ![t].pc = pc]

execUnchanged == <<fenceVars, poolVars, m_queued_jobs, postVars, m_abort, aborted, released, issued>>

(* execute_job of a cancelled job.                                         *)
SkipAborted(t, j) ==
    /\ thr[t].pc = "exec" /\ Running(t, j) /\ j \in aborted
    /\ ret' = [ret EXCEPT ![j] = "aborted"]
    /\ GoesOn(t, "complete")
    /\ UNCHANGED <<execUnchanged, fileVars>>

BUG_ErasedBeforeWrite(t, j) ==
    /\ thr[t].pc = "exec" /\ Running(t, j) /\ j \in WriteJobs \ aborted
    /\ IF \E b \in Blocks : m_store_buffer[b] = j
       THEN /\ m_store_buffer' = [b \in Blocks |-> IF b \in BlocksOf[j] THEN Nothing ELSE m_store_buffer[b]]
            /\ UNCHANGED <<disk, ret, thr>>
       ELSE /\ disk' = [b \in Blocks |-> IF b \in BlocksOf[j] THEN j ELSE disk[b]]
            /\ ret' = [ret EXCEPT ![j] = "ok"]
            /\ GoesOn(t, "complete")
            /\ UNCHANGED m_store_buffer
    /\ UNCHANGED <<execUnchanged, data>>

BUG_FailedWriteStaysBuffered(t, j) ==
    /\ thr[t].pc = "exec" /\ Running(t, j) /\ j \in WriteJobs \ aborted
    /\ \/ /\ disk' = [b \in Blocks |-> IF b \in BlocksOf[j] THEN j ELSE disk[b]]
          /\ ret' = [ret EXCEPT ![j] = "ok"]
          /\ GoesOn(t, "erase")
       \/ /\ ret' = [ret EXCEPT ![j] = "failed"]
          /\ GoesOn(t, "complete")
          /\ UNCHANGED disk
    /\ UNCHANGED <<execUnchanged, m_store_buffer, data>>

(* do_write: first the file, then the store buffer.  An exception from the *)
(* file (perform_job catches it) skips the latter.                         *)
WriteBlock(t, j) ==
    /\ thr[t].pc = "exec" /\ Running(t, j) /\ j \in WriteJobs \ aborted
    /\ \/ /\ disk' = [b \in Blocks |-> IF b \in BlocksOf[j] THEN j ELSE disk[b]]
          /\ ret' = [ret EXCEPT ![j] = "ok"]
          /\ GoesOn(t, "erase")
       \/ /\ DiskFaults # {}
          /\ ret' = [ret EXCEPT ![j] = "failed"]
          /\ \E e \in DiskFaults : GoesOn(t, IF e = "error" THEN "erase" ELSE "complete")
          /\ UNCHANGED disk
    /\ UNCHANGED <<execUnchanged, m_store_buffer, data>>

EraseBuffer(t, j) ==
    /\ thr[t].pc = "erase" /\ Running(t, j)
    /\ m_store_buffer' = [b \in Blocks |-> IF b \in BlocksOf[j] THEN Nothing ELSE m_store_buffer[b]]
    /\ GoesOn(t, "complete")
    /\ UNCHANGED <<execUnchanged, disk, data, ret>>

(* do_read and do_partial_read: the blocks async_read did not find.        *)
ReadBlocks(t, j) ==
    /\ thr[t].pc = "exec" /\ Running(t, j) /\ j \in ReadJobs \ aborted
    /\ \/ /\ data' = [data EXCEPT ![j] = [b \in Blocks |-> IF b \in BlocksOf[j] /\ @[b] = Nothing
                                                          THEN disk[b] ELSE @[b]]]
          /\ ret' = [ret EXCEPT ![j] = "ok"]
       \/ /\ DiskFaults # {}
          /\ ret' = [ret EXCEPT ![j] = "failed"]
          /\ UNCHANGED data
    /\ GoesOn(t, "complete")
    /\ UNCHANGED <<execUnchanged, m_store_buffer, disk>>

(* do_hash goes through the blocks in order; each comes from the store     *)
(* buffer if it is there, and from the file if it was not.                 *)
StartHash(t, j) ==
    /\ thr[t].pc = "exec" /\ Running(t, j) /\ j \in HashJobs \ aborted
    /\ thr' = [thr EXCEPT ![t].pc = "hash", ![t].left = BlocksOf[j]]
    /\ UNCHANGED <<execUnchanged, fileVars, ret>>

NextBlock(t) == CHOOSE b \in thr[t].left : \A c \in thr[t].left : b <= c

(* The block is hashed with value v; after the last one the job is done.   *)
HashedAs(t, j, v) ==
    LET b == NextBlock(t)
        rest == thr[t].left \ {b}
    IN  /\ data' = [data EXCEPT ![j][b] = v]
        /\ ret' = [ret EXCEPT ![j] = IF rest = {} THEN "ok" ELSE @]
        /\ thr' = [thr EXCEPT ![t].left = rest, ![t].pc = IF rest = {} THEN "complete" ELSE "hash"]

HashLookup(t, j) ==
    /\ thr[t].pc = "hash" /\ Running(t, j)
    /\ IF m_store_buffer[NextBlock(t)] # Nothing
       THEN HashedAs(t, j, m_store_buffer[NextBlock(t)])
       ELSE GoesOn(t, "hash_file") /\ UNCHANGED <<data, ret>>
    /\ UNCHANGED <<execUnchanged, m_store_buffer, disk>>

HashFile(t, j) ==
    /\ thr[t].pc = "hash_file" /\ Running(t, j)
    /\ \/ HashedAs(t, j, disk[NextBlock(t)])
       \/ /\ DiskFaults # {}
          /\ ret' = [ret EXCEPT ![j] = "failed"]
          /\ GoesOn(t, "complete")
          /\ UNCHANGED data
    /\ UNCHANGED <<execUnchanged, m_store_buffer, disk>>

(* The jobs that have the storage for themselves.                          *)
PerformFence(t, j) ==
    /\ thr[t].pc = "exec" /\ Running(t, j) /\ j \in FenceJobs \ aborted
    /\ \/ ret' = [ret EXCEPT ![j] = "ok"]
       \/ DiskFaults # {} /\ ret' = [ret EXCEPT ![j] = "failed"]
    /\ GoesOn(t, "complete")
    /\ UNCHANGED <<execUnchanged, fileVars>>

Execute(t, j) ==
    \/ SkipAborted(t, j) \/ WriteBlock(t, j) \/ EraseBuffer(t, j) \/ ReadBlocks(t, j)
    \/ StartHash(t, j) \/ HashLookup(t, j) \/ HashFile(t, j) \/ PerformFence(t, j)
-----------------------------------------------------------------------------
(***************************************************************************)
(* add_completed_jobs.                                                     *)
(***************************************************************************)

(* job_complete for the next job of the pass.                              *)
LeaveFence(t) ==
    LET r == JobComplete(fence, Head(thr[t].todo), FenceJobs, thr[t].new)
    IN  /\ thr[t].pc = "complete"
        /\ fence' = r.fence
        /\ thr' = [thr EXCEPT ![t].todo = Tail(@), ![t].new = r.jobs,
                              ![t].pc = IF Len(thr[t].todo) = 1 THEN "route" ELSE "complete"]
        /\ UNCHANGED <<reached, poolVars, m_queued_jobs, fileVars, postVars, m_abort, aborted, ret, released,
                       issued>>

(* m_abort.load(): the released jobs are failed, or go to the job queue.   *)
RouteReleased(t) ==
    /\ thr[t].pc = "route"
    /\ IF m_abort
       THEN /\ ret' = [j \in Jobs |-> IF j \in ToSet(thr[t].new) THEN "aborted" ELSE ret[j]]
            /\ thr' = [thr EXCEPT ![t].failed = thr[t].new, ![t].new = <<>>, ![t].pc = "post"]
       ELSE /\ GoesOn(t, IF thr[t].new = <<>> THEN "post" ELSE "append")
            /\ UNCHANGED ret
    /\ UNCHANGED <<fenceVars, poolVars, m_queued_jobs, fileVars, postVars, m_abort, aborted, released, issued>>

(* The released jobs join the generic queue...                             *)
AppendReleased(t) ==
    /\ thr[t].pc = "append"
    /\ m_queued_jobs' = [m_queued_jobs EXCEPT !["generic"] = @ \o thr[t].new]
    /\ thr' = [thr EXCEPT ![t].new = <<>>, ![t].pc = "notify"]
    /\ UNCHANGED <<fenceVars, poolVars, fileVars, postVars, m_abort, aborted, ret, released, issued>>

(* ... and, in a critical section of its own, threads are found for them.  *)
NotifyReleased(t) ==
    /\ thr[t].pc = "notify"
    /\ NotifyQueues({"generic"}, [thr EXCEPT ![t].pc = "post"])
    /\ UNCHANGED <<fenceVars, m_queued_jobs, fileVars, postVars, m_abort, aborted, ret,
                   m_num_running_threads, released, issued>>

BUG_NoSecondPass(t) ==
    /\ thr[t].pc = "post"
    /\ m_completed_jobs' = m_completed_jobs \o thr[t].jobs
    /\ m_job_completions_in_flight' = TRUE
    /\ thr' = [thr EXCEPT ![t] = At("loop", <<>>)]
    /\ UNCHANGED <<fenceVars, poolVars, m_queued_jobs, fileVars, m_abort, aborted, ret, released, issued, called>>

(* The completed jobs are posted to the network thread; failed ones go     *)
(* through another pass.                                                   *)
PostCompleted(t) ==
    /\ thr[t].pc = "post"
    /\ m_completed_jobs' = m_completed_jobs \o thr[t].jobs
    /\ m_job_completions_in_flight' = TRUE
    /\ thr' = [thr EXCEPT ![t] = IF thr[t].failed # <<>> THEN At("complete", thr[t].failed)
                                                        ELSE At("loop", <<>>)]
    /\ UNCHANGED <<fenceVars, poolVars, m_queued_jobs, fileVars, m_abort, aborted, ret, released, issued, called>>

CompleteJobs(t) ==
    LeaveFence(t) \/ RouteReleased(t) \/ AppendReleased(t) \/ NotifyReleased(t) \/ PostCompleted(t)
-----------------------------------------------------------------------------
Client ==
    \/ \E w \in WriteJobs : AsyncWrite(w)
    \/ \E r \in ReadJobs : AsyncRead(r)
    \/ \E h \in HashJobs : AsyncHash(h)
    \/ \E f \in FenceJobs : AsyncFence(f)
    \/ \E s \in Settings : SettingsUpdated(s)
    \/ \E q \in Pools : Reap(q)
    \/ AbortSubmits

ThreadStep(t) ==
    \/ t \in Workers /\ (TakeJob(t) \/ WaitOrExit(t))
    \/ CleanUp(t)
    \/ \E j \in Jobs : Execute(t, j)
    \/ CompleteJobs(t)

NetStep ==
    \/ \E j \in Jobs : JobFailAdd(j) \/ AddJob(j) \/ AddFenceJob(j)
    \/ PushJob \/ ImmediateExecute \/ AbortStarts \/ AbortPools \/ ThreadStep(Net)

Next ==
    \/ Client \/ SubmitJobs \/ CallJobHandlers \/ NetStep
    \/ \E t \in Workers : ThreadStep(t)

Spec == Init /\ [][Next]_vars

(* No thread is held up for good; the event loop runs what is posted to    *)
(* it: call_job_handlers, and the submit_jobs that                         *)
(* session_impl::deferred_submit_jobs posts after every batch of jobs.     *)
FairSpec ==
    /\ Spec
    /\ \A t \in Workers : WF_vars(ThreadStep(t))
    /\ WF_vars(NetStep)
    /\ SF_vars(SubmitJobs)
    /\ SF_vars(CallJobHandlers)
-----------------------------------------------------------------------------
(***************************************************************************)
(* Properties.                                                             *)
(***************************************************************************)
Threads == Workers \union {Net}

ThreadState ==
    [pc : {"none", "start", "loop", "idle", "add", "push", "abort", "abort_generic", "abort_hash", "exec",
           "erase", "hash", "hash_file", "complete", "route", "append", "notify", "post", "cleanup"},
     jobs : Seq(Jobs), todo : Seq(Jobs), new : Seq(Jobs), failed : Seq(Jobs), left : SUBSET Blocks]

(* The types of the state; the counters of the fence and of the pools stay *)
(* natural numbers, and no more threads are counted than there are.        *)
TypeOK ==
    /\ fence \in FenceObject(Jobs)
    /\ pools \in [Pools -> PoolObject(Workers)] /\ \A q \in Pools : pools[q].m_threads \subseteq ThreadsOf(q)
    /\ m_queued_jobs \in [Pools -> Seq(Jobs)]
    /\ m_store_buffer \in [Blocks -> WriteJobs \union {Nothing}]
    /\ disk \in [Blocks -> WriteJobs \union {Nothing}]
    /\ {m_completed_jobs, issued, reached, called} \subseteq Seq(Jobs)
    /\ {m_job_completions_in_flight, m_abort, released} \subseteq BOOLEAN
    /\ aborted \subseteq Jobs
    /\ ret \in [Jobs -> {"none", "ok", "failed", "aborted"}]
    /\ data \in [ReadJobs \union HashJobs -> [Blocks -> WriteJobs \union {Nothing}]]
    /\ thr \in [Threads -> ThreadState]
    /\ m_num_running_threads \in 0..Cardinality(Workers)

InFiles == {t \in DOMAIN thr : \/ thr[t].pc \in {"erase", "hash", "hash_file"}
                              \/ (thr[t].pc = "exec" /\ thr[t].jobs[1] \notin aborted)}

(* Reads and hashes see the writes issued before them, wherever these have *)
(* got to: still parked behind a fence, queued, between the file write and *)
(* the removal from the store buffer, or done.  (A write that failed is    *)
(* excepted.)                                                              *)
ReadsSeeWrites ==
    \A j \in ReadJobs \union HashJobs, w \in WriteJobs :
        Earlier(w, j) /\ ret[j] = "ok" /\ ret[w] \in {"none", "ok"} =>
            \A b \in BlocksOf[w] \intersect BlocksOf[j] :
                data[j][b] # Nothing /\ Pos(data[j][b]) >= Pos(w)

(* The store buffer holds exactly the writes that are still to be done:    *)
(* do_write finds its own entry to erase (the assertion in                 *)
(* store_buffer::erase), and no entry outlives the buffer it points to.    *)
StoreBufferExact ==
    \A b \in Blocks :
        {w \in WriteJobs : m_store_buffer[b] = w} =
        {w \in WriteJobs : /\ b \in BlocksOf[w] /\ IsIssued(w)
                           /\ \/ ret[w] = "none"
                              \/ \E t \in DOMAIN thr : thr[t].pc = "erase" /\ Running(t, w)}

(* "clear piece must guarantee that all write jobs that have been issued   *)
(* finish before the clear piece job completes": a fence job has its       *)
(* result only once every job issued before it has (unless it was refused  *)
(* after abort() and never got to the fence), and while it runs no other   *)
(* thread touches the storage ("if this assert fails, something's wrong    *)
(* with the fence logic").                                                 *)
FenceSynchronizes ==
    /\ \A f \in FenceJobs \intersect ToSet(reached), j \in Jobs :
          Earlier(j, f) /\ ret[f] # "none" => ret[j] # "none"
    /\ \A t \in InFiles : thr[t].jobs[1] \in FenceJobs => InFiles = {t}

(* The lists that hold jobs: those of the subsystem, filed under the       *)
(* network thread, and those in the hands of a thread.                     *)
Lists ==
    ({Net} \X {"called", "completed", "blocked", "generic", "hash"})
      \union (Threads \X {"jobs", "new", "failed"})

HeldIn(done, completed, f, queued, h) ==
    [x \in Lists |->
        CASE x[2] = "called" -> done
          [] x[2] = "completed" -> completed
          [] x[2] = "blocked" -> f.m_blocked_jobs
          [] x[2] = "generic" -> queued["generic"]
          [] x[2] = "hash" -> queued["hash"]
          [] x[2] = "jobs" -> h[x[1]].jobs
          [] x[2] = "new" -> h[x[1]].new
          [] x[2] = "failed" -> h[x[1]].failed]

Held == HeldIn(called, m_completed_jobs, fence, m_queued_jobs, thr)

(* No job is twice in the lists of S; the jobs in them.                    *)
OnePlace(S) ==
    \A x \in DOMAIN S : \A i \in DOMAIN S[x] : \A y \in DOMAIN S : \A k \in DOMAIN S[y] :
        S[x][i] = S[y][k] => x = y /\ i = k

JobsIn(S) == UNION {ToSet(S[x]) : x \in DOMAIN S}

(* A job that was issued is in exactly one place until its handler has     *)
(* been called, and the handler is called only once: no queue, released    *)
(* list or second pass of add_completed_jobs loses or duplicates it, and   *)
(* completed jobs always have a call_job_handlers message on its way.      *)
JobsInOnePlace ==
    /\ TypeOK
    /\ m_completed_jobs # <<>> => m_job_completions_in_flight
    /\ OnePlace(Held)
    /\ JobsIn(Held) = ToSet(issued)

(* The disk threads of a session that shuts down are gone.                 *)
Gone ==
    /\ \A q \in Pools : pools[q].m_abort
    /\ \A t \in DOMAIN thr : thr[t].pc = "none"
    /\ ~ m_job_completions_in_flight

(* Hash jobs of a full check, which hashing threads run, are about.        *)
FullCheck == \E j \in HashJobs \intersect SequentialHash : IsIssued(j)

(* By the time the threads are gone, every job's handler has been called,  *)
(* those parked behind a fence and those issued after abort() included.  A *)
(* full check is the exception: a hashing thread may release jobs into the *)
(* generic queue after the generic threads have left.  Then too, no job is *)
(* lost unless the queues hold one.                                        *)
ShutdownCallsHandlers ==
    Gone /\ (FullCheck => \A q \in Pools : m_queued_jobs[q] = <<>>) => ToSet(called) = ToSet(issued)

(* By the time the threads are gone, the files are closed: whatever the    *)
(* pools were doing when abort() counted their threads, either it finds    *)
(* none and closes the files, or the last thread to leave sees m_abort     *)
(* and does ("it is important to hold the job mutex while calling          *)
(* try_thread_exit()").                                                    *)
FilesReleased == Gone => released

(* Every job that is issued is eventually answered.                        *)
EveryHandlerCalled == \A j \in Jobs : IsIssued(j) ~> Called(j)

(* A shutdown ends all disk threads.                                       *)
ShutdownEndsThreads == m_abort ~> Gone
-----------------------------------------------------------------------------
(***************************************************************************)
(* What makes these properties inductive.                                  *)
(***************************************************************************)

(* What a thread has in its hands, depending on where it is.               *)
Early == {"add", "push", "exec", "hash", "hash_file"}
Passing == {"complete", "route", "append", "notify", "post"}
EmptyHanded == {"none", "start", "loop", "idle", "abort", "abort_generic", "abort_hash", "cleanup"}

InShape(t, h) ==
    /\ h.pc \in EmptyHanded => h.jobs = <<>>
    /\ h.pc \in Early \union {"erase"} => Len(h.jobs) = 1
    /\ h.pc \notin Passing => h.todo = h.jobs
    /\ h.pc = "complete" => h.todo # <<>>
    /\ h.pc \in Passing \ {"complete"} => h.todo = <<>>
    /\ h.pc \notin {"complete", "route", "append"} => h.new = <<>>
    /\ h.pc # "post" => h.failed = <<>>
    /\ \E n \in 0..Len(h.jobs) : h.todo = SubSeq(h.jobs, n + 1, Len(h.jobs))
    /\ h.pc \in {"add", "push", "abort", "abort_generic", "abort_hash"} => t = Net

ThreadShape == \A t \in Threads : InShape(t, thr[t])

(* The jobs parked at the fence, and those it has let through and has not  *)
(* been told the completion of.                                            *)
Blocked == ToSet(fence.m_blocked_jobs)

Queued == ToSet(m_queued_jobs["generic"]) \union ToSet(m_queued_jobs["hash"])

ActiveOf(h) == IF h.pc = "add" THEN {} ELSE ToSet(h.todo) \union ToSet(h.new) \union ToSet(h.failed)

Active == Queued \union UNION {ActiveOf(thr[t]) : t \in Threads}

(* Jobs reach the fence in the order in which they are issued.             *)
ReachedInOrder ==
    /\ IsInjective(issued) /\ IsInjective(reached)
    /\ Active \union Blocked \subseteq ToSet(reached)
    /\ \A i, k \in DOMAIN reached : i < k =>
          \E a, b \in DOMAIN issued : a < b /\ issued[a] = reached[i] /\ issued[b] = reached[k]
    /\ ToSet(reached) \subseteq ToSet(issued)
    /\ thr[Net].pc = "add" => /\ issued # <<>> /\ issued[Len(issued)] = thr[Net].jobs[1]
                              /\ thr[Net].jobs[1] \notin ToSet(reached)

(* A job has its result once it has been executed, failed or answered at   *)
(* once.                                                                   *)
WaitingOf(h) == ToSet(h.new) \union IF h.pc \in Early THEN ToSet(h.jobs) ELSE {}

Waiting == Blocked \union Queued \union UNION {WaitingOf(thr[t]) : t \in Threads}

ResultsExact == \A j \in Jobs : ret[j] = "none" <=> ~ IsIssued(j) \/ j \in Waiting

(* The storage's fence does what DiskJobFence does.                        *)
Fence == INSTANCE DiskJobFence WITH
    fences <- FenceJobs \intersect ToSet(reached),
    in_progress <- Active,
    done <- ToSet(reached) \ (Active \union Blocked),
    ticket <- [j \in Jobs |-> IF j \in ToSet(reached) THEN CHOOSE i \in DOMAIN reached : reached[i] = j
                              ELSE 0],
    issued <- Len(reached)

ImplementsFence == Fence!Spec

IInv == JobsInOnePlace /\ ThreadShape /\ ReachedInOrder /\ ResultsExact
=============================================================================

-------------------------- MODULE DiskJobFenceProofs --------------------------
(***************************************************************************)
(* Proofs about DiskJobFence, for any finite set of jobs.                  *)
(***************************************************************************)
EXTENDS DiskJobFence, FiniteSetTheorems, SequenceTheorems, WellFoundedInduction, TLAPS

(* A non-empty set of natural numbers has a least element.                 *)
LEMMA NatMin ==
    ASSUME NEW T \in SUBSET Nat, T # {}
    PROVE  \E x \in T : \A y \in T : x <= y
<1> DEFINE R == OpToRel(<, Nat)
<1>1. IsWellFoundedOn(R, Nat)
  BY NatLessThanWellFounded, Zenon
<1>2. \E x \in T : \A y \in T : <<y, x>> \notin R
  <2> HIDE DEF R
  <2> QED BY <1>1, WFMin, Zenon
<1>3. \A y, x \in Nat : y < x => <<y, x>> \in R
  BY Zenon DEF OpToRel
<1>4. PICK x \in T : \A y \in T : <<y, x>> \notin R
  BY <1>2
<1>5. ASSUME NEW y \in T
      PROVE  x <= y
  <2> HIDE DEF R
  <2>1. ~ (y < x)
    BY <1>3, <1>4
  <2> QED BY <2>1
<1> QED BY <1>5

(* LeadingJobs finds the blocked jobs in front of the first fence job.     *)
LEMMA LeadingJobsFound ==
    ASSUME NEW B \in Seq(Jobs), NEW F
    PROVE  /\ LeadingJobs(B, F) \in 0..Len(B)
           /\ \A i \in 1..LeadingJobs(B, F) : B[i] \notin F
           /\ LeadingJobs(B, F) < Len(B) => B[LeadingJobs(B, F) + 1] \in F
<1> DEFINE T == {k \in 0..Len(B) : k < Len(B) => B[k + 1] \in F}
           P(n) == /\ \A i \in 1..n : B[i] \notin F
                   /\ n < Len(B) => B[n + 1] \in F
<1>1. T \in SUBSET Nat /\ Len(B) \in T
  OBVIOUS
<1>2. PICK n \in T : \A k \in T : n <= k
  <2> HIDE DEF T
  <2> QED BY <1>1, NatMin
<1>3. P(n) /\ n \in 0..Len(B)
  <2>1. ASSUME NEW i \in 1..n
        PROVE  B[i] \notin F
    <3>1. i - 1 \in 0..Len(B) /\ i - 1 < n /\ i - 1 < Len(B)
      BY <1>2
    <3>2. i - 1 \notin T
      <4> HIDE DEF T
      <4> QED BY <1>1, <1>2, <3>1
    <3> QED BY <3>1, <3>2
  <2> QED BY <1>2, <2>1
<1>4. LeadingJobs(B, F) = CHOOSE m \in 0..Len(B) : P(m)
  BY DEF LeadingJobs
<1>5. P(CHOOSE m \in 0..Len(B) : P(m)) /\ (CHOOSE m \in 0..Len(B) : P(m)) \in 0..Len(B)
  <2> HIDE DEF P
  <2> QED BY <1>3, Zenon
<1> QED BY <1>4, <1>5

(* A prefix of a sequence without repetitions has as many elements as its  *)
(* length says.                                                            *)
LEMMA PrefixCardinality ==
    ASSUME NEW B \in Seq(Jobs), NEW n \in 0..Len(B),
           \A p, q \in 1..Len(B) : p # q => B[p] # B[q]
    PROVE  /\ IsFiniteSet({B[i] : i \in 1..n})
           /\ Cardinality({B[i] : i \in 1..n}) = n
<1> DEFINE f == [i \in 1..n |-> B[i]]
           S == {B[i] : i \in 1..n}
<1>1. f \in Bijection(1..n, S)
  BY DEF Bijection, Injection, Surjection, IsInjective
<1>2. ExistsBijection(1..n, S)
  BY <1>1 DEF ExistsBijection
<1>3. IsFiniteSet(1..n) /\ Cardinality(1..n) = n
  BY FS_Interval
<1>4. IsFiniteSet(S) /\ Cardinality(S) = n
  <2> HIDE DEF S
  <2> QED BY <1>2, <1>3, FS_Bijection
<1> QED BY <1>4

(***************************************************************************)
(* Type correctness.                                                       *)
(***************************************************************************)

(* What job_complete makes of the fence object: it releases the first n    *)
(* blocked jobs, where n is what Released says.                            *)
LEMMA CompleteShape ==
    ASSUME NEW j \in in_progress, TypeOK, Complete(j)
    PROVE  LET B == fence.m_blocked_jobs
               n == Released(fence, j \in fences, fences, fence.m_outstanding_jobs - 1, <<>>)
           IN  n \in 0..Len(B) =>
                 /\ fence' = [m_has_fence |-> IF j \in fences THEN fence.m_has_fence - 1
                                                               ELSE fence.m_has_fence,
                              m_outstanding_jobs |-> fence.m_outstanding_jobs - 1 + n,
                              m_blocked_jobs |-> SubSeq(B, n + 1, Len(B))]
                 /\ in_progress' = (in_progress \ {j}) \union {B[i] : i \in 1..n}
<1> DEFINE B == fence.m_blocked_jobs
           n == Released(fence, j \in fences, fences, fence.m_outstanding_jobs - 1, <<>>)
           r == JobComplete(fence, j, fences, <<>>)
<1> SUFFICES ASSUME n \in 0..Len(B)
             PROVE  /\ fence' = [m_has_fence |-> IF j \in fences THEN fence.m_has_fence - 1
                                                                 ELSE fence.m_has_fence,
                                m_outstanding_jobs |-> fence.m_outstanding_jobs - 1 + n,
                                m_blocked_jobs |-> SubSeq(B, n + 1, Len(B))]
                    /\ in_progress' = (in_progress \ {j}) \union {B[i] : i \in 1..n}
  OBVIOUS
<1>1. B \in Seq(Jobs)
  BY DEF TypeOK, FenceObject
<1>2. r.jobs = SubSeq(B, 1, n)
  <2>1. SubSeq(B, 1, n) \in Seq(Jobs)
    BY <1>1
  <2> HIDE DEF n
  <2> QED BY <2>1 DEF JobComplete, n
<1>3. {r.jobs[i] : i \in DOMAIN r.jobs} = {B[i] : i \in 1..n}
  <2> HIDE DEF n, r
  <2> QED BY <1>1, <1>2
<1>4. fence' = r.fence /\ in_progress' = (in_progress \ {j}) \union {r.jobs[i] : i \in DOMAIN r.jobs}
  BY DEF Complete
<1> QED
  BY <1>3, <1>4 DEF JobComplete
-----------------------------------------------------------------------------
(***************************************************************************)
(* The inductive invariant.                                                *)
(***************************************************************************)

(* The jobs are finitely many, so every set of them is finite and has a    *)
(* cardinality.                                                            *)
LEMMA JobSetsFinite ==
    ASSUME NEW S \in SUBSET Jobs
    PROVE  IsFiniteSet(S) /\ Cardinality(S) \in Nat /\ (Cardinality(S) = 0 <=> S = {})
  BY JobsFinite, FS_Subset, FS_CardinalityType, FS_EmptySet

(* Initially no job has reached the fence.                                 *)
LEMMA InitIInv == Init => IInv
<1> SUFFICES ASSUME Init PROVE IInv
  OBVIOUS
<1> USE DEF Init, NewFence
<1>1. TypeOK
  BY DEF TypeOK, FenceObject
<1>2. CountersExact
  BY FS_EmptySet DEF CountersExact
<1>3. Placed
  BY DEF Placed, Reached, Blocked
<1>4. TicketsDistinct /\ QueueOrdered /\ QueueHead
  BY DEF TicketsDistinct, QueueOrdered, QueueHead
<1>5. FenceExclusive /\ NoLostWakeup /\ FenceOrder
  BY DEF FenceExclusive, NoLostWakeup, FenceOrder
<1> QED BY <1>1, <1>2, <1>3, <1>4, <1>5 DEF IInv

(* While a fence job is still to complete and nothing is blocked, that     *)
(* fence job is in progress.                                               *)
LEMMA FenceRunning ==
    ASSUME IInv, fence.m_has_fence # 0, fence.m_blocked_jobs = <<>>
    PROVE  in_progress \intersect fences # {}
<1>1. fences \ done # {}
  BY JobSetsFinite DEF IInv, CountersExact, TypeOK
<1>2. Blocked = {}
  BY DEF Blocked
<1> QED BY <1>1, <1>2 DEF IInv, Placed

(* A job that has just arrived may join the back of the queue.             *)
LEMMA AppendOrdered ==
    ASSUME IInv, NEW j \in Jobs, Issue(j), j \notin Blocked,
           Len(fence'.m_blocked_jobs) = Len(fence.m_blocked_jobs) + 1,
           fence'.m_blocked_jobs[Len(fence.m_blocked_jobs) + 1] = j,
           \A i \in 1..Len(fence.m_blocked_jobs) : fence'.m_blocked_jobs[i] = fence.m_blocked_jobs[i]
    PROVE  QueueOrdered'
<1> DEFINE B == fence.m_blocked_jobs
<1>0. B \in Seq(Jobs) /\ issued \in Nat /\ ticket \in [Jobs -> Nat] /\ ticket' = [ticket EXCEPT ![j] = issued + 1]
  BY DEF IInv, TypeOK, FenceObject, Issue
<1>1. \A i \in 1..Len(B) : B[i] \in Jobs /\ B[i] # j /\ ticket[B[i]] < issued + 1
  BY <1>0 DEF IInv, TicketsDistinct, Blocked
<1> HIDE DEF B
<1>2. \A p, q \in 1..Len(B) + 1 : p < q => ticket'[B'[p]] < ticket'[B'[q]]
  <2> SUFFICES ASSUME NEW p \in 1..Len(B) + 1, NEW q \in 1..Len(B) + 1, p < q
               PROVE  ticket'[B'[p]] < ticket'[B'[q]]
    OBVIOUS
  <2>0. B'[Len(B) + 1] = j /\ \A i \in 1..Len(B) : B'[i] = B[i]
    BY DEF B
  <2>1. p \in 1..Len(B) /\ B'[p] = B[p] /\ ticket'[B[p]] = ticket[B[p]]
    BY <1>0, <1>1, <2>0
  <2>2. CASE q = Len(B) + 1
    BY <2>0, <2>1, <2>2, <1>0, <1>1
  <2>3. CASE q \in 1..Len(B)
    BY <2>0, <2>1, <2>3, <1>0, <1>1 DEF IInv, QueueOrdered, B
  <2>4. Len(B) \in Nat
    BY <1>0 DEF B
  <2> QED BY <2>2, <2>3, <2>4
<1> QED BY <1>2 DEF QueueOrdered, B

(* is_blocked preserves the invariant.                                     *)
LEMMA IsBlockedIInv ==
    ASSUME IInv, NEW j \in Jobs, IsBlocked(j)
    PROVE  IInv'
<1> DEFINE B == fence.m_blocked_jobs
<1> USE DEF IsBlocked, Issue
<1>0. /\ B \in Seq(Jobs) /\ j \notin Reached /\ issued \in Nat
      /\ ticket \in [Jobs -> Nat] /\ fence \in FenceObject(Jobs)
  BY DEF IInv, TypeOK, Reached, FenceObject
<1>1. j \notin Blocked /\ j \notin in_progress /\ j \notin done /\ j \notin fences
  BY <1>0 DEF IInv, Placed
<1>2. CASE Admits(fence)
  <2>1. /\ B' = B /\ in_progress' = in_progress \union {j} /\ Blocked' = Blocked
        /\ fence'.m_has_fence = fence.m_has_fence
        /\ fence'.m_outstanding_jobs = fence.m_outstanding_jobs + 1
        /\ fence' \in FenceObject(Jobs)
    BY <1>0, <1>2 DEF AfterIsBlocked, FenceObject, Blocked
  <2>2. fences \ done = {}
    BY <1>2, JobSetsFinite DEF Admits, IInv, CountersExact, TypeOK
  <2>3. B = <<>>
    BY <2>2 DEF IInv, QueueHead
  <2>4. TypeOK'
    BY <2>1, <1>0 DEF IInv, TypeOK
  <2>5. Placed'
    BY <2>1, <1>0, <1>1 DEF IInv, Placed, Reached, TypeOK
  <2>6. TicketsDistinct'
    BY <1>0 DEF IInv, TicketsDistinct, TypeOK
  <2>7. QueueOrdered' /\ QueueHead' /\ NoLostWakeup'
    BY <2>1, <2>3 DEF QueueOrdered, QueueHead, NoLostWakeup
  <2>8. CountersExact'
    BY <2>1, <1>1, JobSetsFinite, FS_AddElement DEF IInv, CountersExact, TypeOK
  <2>9. FenceExclusive' /\ FenceOrder'
    <3>1. \A a \in fences : a \in done
      BY <2>2
    <3>2. FenceExclusive'
      BY <2>1, <1>1, <3>1 DEF IInv, FenceExclusive, Placed
    <3>3. FenceOrder'
      BY <2>1, <1>0, <1>1, <3>1 DEF IInv, FenceOrder, TicketsDistinct, TypeOK, Reached
    <3> QED BY <3>2, <3>3
  <2> QED BY <2>4, <2>5, <2>6, <2>7, <2>8, <2>9 DEF IInv
<1>3. CASE ~ Admits(fence)
  <2>1. /\ B' = Append(B, j) /\ in_progress' = in_progress
        /\ fence'.m_has_fence = fence.m_has_fence
        /\ fence'.m_outstanding_jobs = fence.m_outstanding_jobs
        /\ fence' \in FenceObject(Jobs)
    <3> DEFINE b == Append(fence.m_blocked_jobs, j)
    <3>1. b \in Seq(Jobs)
      BY <1>0
    <3>2. fence' = [fence EXCEPT !.m_blocked_jobs = b] /\ in_progress' = in_progress
      BY <1>3 DEF AfterIsBlocked
    <3> HIDE DEF b
    <3>3. /\ fence'.m_blocked_jobs = b
          /\ fence'.m_has_fence = fence.m_has_fence
          /\ fence'.m_outstanding_jobs = fence.m_outstanding_jobs
          /\ fence' \in FenceObject(Jobs)
      BY <1>0, <3>1, <3>2 DEF FenceObject
    <3> QED BY <3>2, <3>3 DEF b
  <2>2. /\ Len(B') = Len(B) + 1 /\ B'[Len(B) + 1] = j
        /\ \A i \in 1..Len(B) : B'[i] = B[i]
        /\ Blocked' = Blocked \union {j}
    BY <2>1, <1>0 DEF Blocked
  <2>3. fences \ done # {}
    BY <1>3, JobSetsFinite DEF Admits, IInv, CountersExact, TypeOK, FenceObject
  <2>4. TypeOK'
    BY <2>1, <1>0 DEF IInv, TypeOK
  <2>5. Placed'
    BY <2>1, <2>2, <1>0, <1>1 DEF IInv, Placed, Reached, TypeOK
  <2>6. TicketsDistinct'
    BY <1>0 DEF IInv, TicketsDistinct, TypeOK
  <2>7. QueueOrdered'
    BY <1>0, <1>1, <2>2, AppendOrdered
  <2>8. QueueHead'
    BY <2>1, <2>2, <2>3, <1>0, <1>3, FenceRunning DEF IInv, QueueHead, Admits
  <2>9. NoLostWakeup'
    BY <2>1, <1>0, <1>3, FenceRunning DEF IInv, NoLostWakeup, Admits
  <2>10. CountersExact' /\ FenceExclusive'
    BY <2>1 DEF IInv, CountersExact, FenceExclusive
  <2>11. FenceOrder'
    BY <2>1, <1>0, <1>1 DEF IInv, FenceOrder, TicketsDistinct, TypeOK
  <2> QED BY <2>4, <2>5, <2>6, <2>7, <2>8, <2>9, <2>10, <2>11 DEF IInv
<1> QED BY <1>2, <1>3

(* raise_fence preserves the invariant.                                    *)
LEMMA RaiseFenceIInv ==
    ASSUME IInv, NEW j \in Jobs, RaiseFence(j)
    PROVE  IInv'
<1> DEFINE B == fence.m_blocked_jobs
<1> USE DEF RaiseFence, Issue
<1>0. /\ B \in Seq(Jobs) /\ j \notin Reached /\ issued \in Nat
      /\ ticket \in [Jobs -> Nat] /\ fence \in FenceObject(Jobs)
  BY DEF IInv, TypeOK, Reached, FenceObject
<1>1. j \notin Blocked /\ j \notin in_progress /\ j \notin done /\ j \notin fences
  BY <1>0 DEF IInv, Placed
<1>2. TicketsDistinct'
  BY <1>0 DEF IInv, TicketsDistinct, TypeOK
<1>3. Cardinality(fences' \ done') = fence.m_has_fence + 1
  <2>1. fences' \ done' = (fences \ done) \union {j} /\ j \notin fences \ done
    BY <1>1
  <2>2. IsFiniteSet(fences \ done) /\ Cardinality(fences \ done) = fence.m_has_fence
    BY JobSetsFinite DEF IInv, TypeOK, CountersExact
  <2> QED BY <2>1, <2>2, FS_AddElement
<1>4. CASE PostsFence(fence)
  <2>1. /\ B' = B /\ in_progress' = in_progress \union {j} /\ Blocked' = Blocked
        /\ fence'.m_has_fence = fence.m_has_fence + 1
        /\ fence'.m_outstanding_jobs = 1
        /\ fence' \in FenceObject(Jobs)
    <3> DEFINE h == fence.m_has_fence + 1
               o == fence.m_outstanding_jobs + 1
    <3>1. /\ fence' = [fence EXCEPT !.m_has_fence = h, !.m_outstanding_jobs = o]
          /\ in_progress' = in_progress \union {j}
      BY <1>4 DEF AfterRaiseFence
    <3>2. o = 1 /\ h \in Nat
      BY <1>0, <1>4 DEF PostsFence, FenceObject
    <3> HIDE DEF h, o, RaiseFence, Issue
    <3>3. /\ B' = B
          /\ fence'.m_has_fence = h
          /\ fence'.m_outstanding_jobs = 1
          /\ fence' \in FenceObject(Jobs)
      BY <3>1, <3>2, <1>0 DEF FenceObject
    <3>4. Blocked' = Blocked
      BY <3>3 DEF Blocked
    <3> QED BY <3>1, <3>3, <3>4 DEF h
  <2>2. fences \ done = {} /\ in_progress = {}
    BY <1>4, JobSetsFinite DEF PostsFence, IInv, CountersExact, TypeOK
  <2>3. B = <<>> /\ Blocked = {}
    BY <2>2 DEF IInv, QueueHead, Blocked
  <2>4. TypeOK'
    BY <2>1, <1>0 DEF IInv, TypeOK
  <2>5. Placed'
    BY <2>1, <1>0, <1>1 DEF IInv, Placed, Reached, TypeOK
  <2>6. QueueOrdered' /\ QueueHead' /\ NoLostWakeup'
    BY <2>1, <2>3 DEF QueueOrdered, QueueHead, NoLostWakeup
  <2>7. CountersExact'
    <3>1. Cardinality(in_progress') = 1
      BY <2>1, <2>2, FS_Singleton
    <3> QED BY <2>1, <1>3, <3>1 DEF CountersExact
  <2>8. FenceExclusive'
    BY <2>1, <2>2 DEF FenceExclusive
  <2>9. FenceOrder'
    <3>1. \A a \in Jobs : 0 < ticket[a] => a \in done
      BY <2>2, <2>3 DEF IInv, Placed, Reached
    <3> QED BY <2>1, <1>0, <1>1, <3>1 DEF IInv, FenceOrder, TicketsDistinct, TypeOK
  <2> QED BY <2>4, <2>5, <1>2, <2>6, <2>7, <2>8, <2>9 DEF IInv
<1>5. CASE ~ PostsFence(fence)
  <2>1. /\ B' = Append(B, j) /\ in_progress' = in_progress
        /\ fence'.m_has_fence = fence.m_has_fence + 1
        /\ fence'.m_outstanding_jobs = fence.m_outstanding_jobs
        /\ fence' \in FenceObject(Jobs)
    <3> DEFINE b == Append(fence.m_blocked_jobs, j)
               h == fence.m_has_fence + 1
    <3>1. b \in Seq(Jobs) /\ h \in Nat
      BY <1>0 DEF FenceObject
    <3>2. fence' = [fence EXCEPT !.m_has_fence = h, !.m_blocked_jobs = b] /\ in_progress' = in_progress
      BY <1>5 DEF AfterRaiseFence
    <3> HIDE DEF b, h
    <3>3. /\ fence'.m_blocked_jobs = b
          /\ fence'.m_has_fence = h
          /\ fence'.m_outstanding_jobs = fence.m_outstanding_jobs
          /\ fence' \in FenceObject(Jobs)
      BY <1>0, <3>1, <3>2 DEF FenceObject
    <3> QED BY <3>2, <3>3 DEF b, h
  <2>2. /\ Len(B') = Len(B) + 1 /\ B'[Len(B) + 1] = j
        /\ \A i \in 1..Len(B) : B'[i] = B[i]
        /\ Blocked' = Blocked \union {j}
    BY <2>1, <1>0 DEF Blocked
  <2>4. TypeOK'
    BY <2>1, <1>0 DEF IInv, TypeOK
  <2>5. Placed'
    BY <2>1, <2>2, <1>0, <1>1 DEF IInv, Placed, Reached, TypeOK
  <2>6. QueueOrdered'
    BY <1>0, <1>1, <2>2, AppendOrdered
  <2>7. QueueHead'
    <3>1. fences' \ done' # {}
      BY <1>1
    <3>2. CASE B = <<>>
      BY <3>1, <3>2, <2>2 DEF QueueHead
    <3>3. CASE B # <<>>
      <4>1. B'[1] = B[1]
        BY <3>3, <2>2, <1>0
      <4> QED BY <4>1, <3>1, <3>3, <2>1 DEF IInv, QueueHead
    <3> QED BY <3>2, <3>3
  <2>8. NoLostWakeup'
    <3>1. CASE fence.m_has_fence # 0
      BY <3>1, <2>1, FenceRunning DEF IInv, NoLostWakeup
    <3>2. CASE fence.m_outstanding_jobs # 0
      BY <3>2, <2>1, JobSetsFinite DEF IInv, NoLostWakeup, CountersExact, TypeOK
    <3> QED BY <3>1, <3>2, <1>5 DEF PostsFence
  <2>9. CountersExact'
    BY <2>1, <1>3 DEF IInv, CountersExact
  <2>10. FenceExclusive'
    BY <2>1, <1>1 DEF IInv, FenceExclusive
  <2>11. FenceOrder'
    BY <2>1, <1>0, <1>1 DEF IInv, FenceOrder, TicketsDistinct, TypeOK
  <2> QED BY <2>4, <2>5, <1>2, <2>6, <2>7, <2>8, <2>9, <2>10, <2>11 DEF IInv
<1> QED BY <1>4, <1>5

(* What job_complete releases, given the invariant.  Only when the         *)
(* completed job was the last one in progress does anything leave the      *)
(* queue, and then either a run of ordinary jobs or a single fence job.    *)
LEMMA CompleteReleases ==
    ASSUME IInv, NEW j \in in_progress
    PROVE  LET B == fence.m_blocked_jobs
               n == Released(fence, j \in fences, fences, fence.m_outstanding_jobs - 1, <<>>)
           IN  /\ n \in 0..Len(B)
               /\ n > 0 => in_progress = {j}
               /\ \/ \A i \in 1..n : B[i] \notin fences
                  \/ n = 1 /\ B[1] \in fences
               /\ n < Len(B) => \/ B[n + 1] \in fences
                                \/ n = 1 /\ B[1] \in fences
                                \/ n = 0 /\ j \notin fences /\ in_progress \intersect fences # {}
               /\ n < Len(B) => \/ n > 0
                                \/ in_progress # {j}
<1> DEFINE B == fence.m_blocked_jobs
           n == Released(fence, j \in fences, fences, fence.m_outstanding_jobs - 1, <<>>)
           m == LeadingJobs(B, fences)
<1>0. /\ B \in Seq(Jobs) /\ fence.m_outstanding_jobs \in Nat /\ fence.m_has_fence \in Nat
      /\ in_progress \in SUBSET Jobs /\ Len(B) \in Nat
  BY DEF IInv, TypeOK, FenceObject
<1>1. fence.m_outstanding_jobs = 1 <=> in_progress = {j}
  <2>1. Cardinality(in_progress) = fence.m_outstanding_jobs /\ IsFiniteSet(in_progress)
    BY <1>0, JobSetsFinite DEF IInv, CountersExact
  <2>2. Cardinality({j}) = 1
    BY FS_Singleton
  <2>3. Cardinality(in_progress \ {j}) = Cardinality(in_progress) - 1
    BY <2>1, FS_RemoveElement
  <2>4. Cardinality(in_progress \ {j}) = 0 <=> in_progress \ {j} = {}
    BY <1>0, JobSetsFinite
  <2> QED BY <2>1, <2>2, <2>3, <2>4, <1>0
<1>2. fence.m_outstanding_jobs > 0
  BY <1>0, JobSetsFinite DEF IInv, CountersExact
<1>3. CASE j \in fences
  <2>1. in_progress = {j}
    BY <1>3 DEF IInv, FenceExclusive
  <2>2. fence.m_outstanding_jobs - 1 = 0
    BY <2>1, <1>1
  <2>3. n = IF m = 0 /\ B # <<>> THEN 1 ELSE m
    BY <1>3, <2>2 DEF Released
  <2>4. /\ m \in 0..Len(B)
        /\ \A i \in 1..m : B[i] \notin fences
        /\ m < Len(B) => B[m + 1] \in fences
    BY <1>0, LeadingJobsFound
  <2>5. B # <<>> <=> Len(B) > 0
    BY <1>0
  <2> HIDE DEF n, m, B
  <2> QED BY <2>1, <2>3, <2>4, <2>5, <1>0 DEF n, B
<1>4. CASE j \notin fences
  <2>1. CASE fence.m_outstanding_jobs - 1 > 0 \/ fence.m_has_fence = 0
    <3>1. n = 0
      BY <2>1, <1>4 DEF Released
    <3>2. fence.m_has_fence = 0 => B = <<>>
      BY JobSetsFinite DEF IInv, CountersExact, TypeOK, QueueHead
    <3>3. 0 < Len(B) => B # <<>> /\ in_progress # {j}
      BY <3>2, <2>1, <1>1, <1>0
    <3>4. 0 < Len(B) => B[1] \in fences \/ in_progress \intersect fences # {}
      BY <3>3 DEF IInv, QueueHead
    <3> HIDE DEF n, B
    <3> QED BY <3>1, <3>3, <3>4, <1>0, <1>4 DEF n, B
  <2>2. CASE ~ (fence.m_outstanding_jobs - 1 > 0 \/ fence.m_has_fence = 0)
    <3>1. n = 1
      BY <2>2, <1>4 DEF Released
    <3>2. in_progress = {j}
      BY <2>2, <1>0, <1>1, <1>2
    <3>3. in_progress \intersect fences = {}
      BY <3>2, <1>4
    <3>4. B # <<>>
      BY <3>3, <2>2, FenceRunning
    <3>5. B[1] \in fences /\ Len(B) > 0
      BY <3>3, <3>4, <1>0 DEF IInv, QueueHead
    <3> HIDE DEF n, B
    <3> QED BY <3>1, <3>2, <3>5, <1>0 DEF n, B
  <2> QED BY <2>1, <2>2
<1> QED BY <1>3, <1>4

(* job_complete preserves the invariant.                                   *)
LEMMA CompleteIInv ==
    ASSUME IInv, NEW j \in Jobs, Complete(j)
    PROVE  IInv'
<1> DEFINE B == fence.m_blocked_jobs
           n == Released(fence, j \in fences, fences, fence.m_outstanding_jobs - 1, <<>>)
           R == {B[i] : i \in 1..n}
<1>0. /\ B \in Seq(Jobs) /\ Len(B) \in Nat /\ ticket \in [Jobs -> Nat]
      /\ fence \in FenceObject(Jobs) /\ \A i \in 1..Len(B) : B[i] \in Jobs
  BY DEF IInv, TypeOK, FenceObject
<1>1. /\ j \in in_progress /\ done' = done \union {j}
      /\ UNCHANGED <<fences, ticket, issued>>
  BY DEF Complete
<1>2. /\ n \in 0..Len(B)
      /\ n > 0 => in_progress = {j}
      /\ \/ \A i \in 1..n : B[i] \notin fences
         \/ n = 1 /\ B[1] \in fences
      /\ n < Len(B) => \/ B[n + 1] \in fences
                       \/ n = 1 /\ B[1] \in fences
                       \/ n = 0 /\ j \notin fences /\ in_progress \intersect fences # {}
      /\ n < Len(B) => \/ n > 0
                       \/ in_progress # {j}
  BY <1>1, CompleteReleases
<1>3. /\ fence' = [m_has_fence |-> IF j \in fences THEN fence.m_has_fence - 1
                                                    ELSE fence.m_has_fence,
                   m_outstanding_jobs |-> fence.m_outstanding_jobs - 1 + n,
                   m_blocked_jobs |-> SubSeq(B, n + 1, Len(B))]
      /\ in_progress' = (in_progress \ {j}) \union R
  BY <1>1, <1>2, CompleteShape DEF IInv
<1>4. /\ B' = SubSeq(B, n + 1, Len(B))
      /\ fence'.m_outstanding_jobs = fence.m_outstanding_jobs - 1 + n
      /\ fence'.m_has_fence = IF j \in fences THEN fence.m_has_fence - 1 ELSE fence.m_has_fence
  BY <1>3
<1> HIDE DEF n, B
<1>5. /\ B' \in Seq(Jobs) /\ Len(B') = Len(B) - n
      /\ \A i \in 1..Len(B) - n : B'[i] = B[n + i]
  BY <1>0, <1>2, <1>4
<1>6. \A p, q \in 1..Len(B) : p < q => ticket[B[p]] < ticket[B[q]]
  BY DEF IInv, QueueOrdered, B
<1>7. \A p, q \in 1..Len(B) : p # q => B[p] # B[q]
  BY <1>0, <1>6
<1>8. Blocked = {B[i] : i \in 1..Len(B)} /\ Blocked' = {B'[i] : i \in 1..Len(B')}
  BY DEF Blocked, B
<1>9. /\ Blocked = R \union Blocked'
      /\ R \intersect Blocked' = {}
  <2>1. \A i \in 1..Len(B') : n + i \in 1..Len(B) /\ n + i > n /\ B'[i] = B[n + i]
    BY <1>0, <1>2, <1>5
  <2>2. \A i \in 1..Len(B) : i > n => i - n \in 1..Len(B') /\ B'[i - n] = B[i]
    <3> SUFFICES ASSUME NEW i \in 1..Len(B), i > n
                 PROVE  i - n \in 1..Len(B') /\ B'[i - n] = B[i]
      OBVIOUS
    <3>1. i - n \in 1..Len(B) - n /\ n + (i - n) = i
      BY <1>0, <1>2
    <3> QED BY <3>1, <1>5
  <2>3. \A i \in 1..n : i \in 1..Len(B)
    BY <1>0, <1>2
  <2>4. \A i \in 1..Len(B) : i \in 1..n \/ i > n
    BY <1>0, <1>2
  <2>5. R \subseteq Blocked
    BY <2>3, <1>8
  <2>6. Blocked' \subseteq Blocked
    BY <2>1, <1>8
  <2>7. Blocked \subseteq R \union Blocked'
    BY <2>2, <2>4, <1>8
  <2>8. R \intersect Blocked' = {}
    BY <2>1, <2>3, <1>2, <1>7, <1>8
  <2> QED BY <2>5, <2>6, <2>7, <2>8
<1>10. j \notin Blocked /\ j \notin done /\ j \notin R
  BY <1>1, <1>9 DEF IInv, Placed
<1>11. Cardinality(fences' \ done') = fence'.m_has_fence /\ fence'.m_has_fence \in Nat
  <2>1. IsFiniteSet(fences \ done) /\ Cardinality(fences \ done) = fence.m_has_fence
    BY JobSetsFinite DEF IInv, TypeOK, CountersExact
  <2>2. CASE j \in fences
    <3>1. fences' \ done' = (fences \ done) \ {j} /\ j \in fences \ done
      BY <1>1, <1>10, <2>2
    <3>2. Cardinality(fences' \ done') = fence.m_has_fence - 1
      BY <2>1, <3>1, FS_RemoveElement
    <3>3. Cardinality(fences' \ done') \in Nat
      BY <1>1, JobSetsFinite DEF IInv, TypeOK
    <3> QED BY <3>2, <3>3, <2>2, <1>4
  <2>3. CASE j \notin fences
    <3>1. fences' \ done' = fences \ done
      BY <1>1, <2>3
    <3> QED BY <2>1, <3>1, <2>3, <1>0, <1>4 DEF FenceObject
  <2> QED BY <2>2, <2>3
<1>12. Cardinality(in_progress') = fence'.m_outstanding_jobs /\ fence'.m_outstanding_jobs \in Nat
  <2>1. IsFiniteSet(in_progress) /\ Cardinality(in_progress) = fence.m_outstanding_jobs
    BY JobSetsFinite DEF IInv, TypeOK, CountersExact
  <2>2. Cardinality(in_progress \ {j}) = fence.m_outstanding_jobs - 1
    BY <2>1, <1>1, FS_RemoveElement
  <2>3. Cardinality(in_progress \ {j}) \in Nat
    BY JobSetsFinite DEF IInv, TypeOK
  <2>4. CASE n = 0
    <3>1. in_progress' = in_progress \ {j}
      BY <1>3, <2>4
    <3> QED BY <2>2, <2>3, <2>4, <3>1, <1>4, <1>0 DEF FenceObject
  <2>5. CASE n > 0
    <3>1. in_progress \ {j} = {}
      BY <2>5, <1>2
    <3>2. fence.m_outstanding_jobs - 1 = 0
      BY <3>1, <2>2, FS_EmptySet
    <3>3. in_progress' = R
      BY <1>3, <3>1
    <3>4. Cardinality(R) = n
      BY <1>0, <1>2, <1>7, PrefixCardinality
    <3> QED BY <3>2, <3>3, <3>4, <1>4, <1>2
  <2> QED BY <2>4, <2>5, <1>2
<1>13. TypeOK'
  <2>1. fence' \in FenceObject(Jobs)
    BY <1>3, <1>4, <1>5, <1>11, <1>12 DEF FenceObject
  <2> QED BY <2>1, <1>0, <1>1, <1>2, <1>3 DEF IInv, TypeOK
<1>14. Placed'
  BY <1>1, <1>3, <1>9, <1>10 DEF IInv, Placed, Reached
<1>15. TicketsDistinct'
  BY <1>1 DEF IInv, TicketsDistinct
<1>16. QueueOrdered'
  <2>1. \A p, q \in 1..Len(B') : p < q => ticket[B'[p]] < ticket[B'[q]]
    <3> SUFFICES ASSUME NEW p \in 1..Len(B'), NEW q \in 1..Len(B'), p < q
                 PROVE  ticket[B'[p]] < ticket[B'[q]]
      OBVIOUS
    <3>1. n + p \in 1..Len(B) /\ n + q \in 1..Len(B) /\ n + p < n + q
      BY <1>0, <1>2, <1>5
    <3>2. B'[p] = B[n + p] /\ B'[q] = B[n + q]
      BY <1>5
    <3> QED BY <3>1, <3>2, <1>6
  <2> QED BY <2>1, <1>1 DEF QueueOrdered, B
<1>17. CountersExact'
  BY <1>11, <1>12 DEF CountersExact
<1>18. B' = <<>> <=> n = Len(B)
  BY <1>0, <1>2, <1>5
<1>19. QueueHead'
  <2>1. ASSUME B' # <<>>
        PROVE  B'[1] \in fences \/ in_progress' \intersect fences # {}
    <3>1. n < Len(B) /\ B'[1] = B[n + 1]
      BY <2>1, <1>0, <1>2, <1>5, <1>18
    <3>2. CASE n = 1 /\ B[1] \in fences
      BY <3>2, <1>3
    <3>3. CASE n = 0 /\ j \notin fences /\ in_progress \intersect fences # {}
      BY <3>3, <1>3
    <3> QED BY <3>1, <3>2, <3>3, <1>2
  <2>2. ASSUME fences' \ done' = {}
        PROVE  B' = <<>>
    <3>1. \A i \in 1..Len(B) : B[i] \notin fences
      BY <2>2, <1>1, <1>8, <1>10 DEF IInv, Placed
    <3>2. CASE fences \ done = {}
      <4>1. B = <<>>
        BY <3>2 DEF IInv, QueueHead, B
      <4> QED BY <4>1, <1>2, <1>18
    <3>3. CASE fences \ done # {}
      <4>1. j \in fences
        BY <3>3, <2>2, <1>1
      <4>2. ~ (n < Len(B))
        BY <4>1, <3>1, <1>2, <1>0
      <4> QED BY <4>2, <1>0, <1>2, <1>18
    <3> QED BY <3>2, <3>3
  <2> QED BY <2>1, <2>2, <1>1 DEF QueueHead, B
<1>20. FenceExclusive'
  <2>1. CASE n = 0
    BY <2>1, <1>1, <1>3 DEF IInv, FenceExclusive
  <2>2. CASE n > 0
    <3>1. in_progress' = R
      BY <2>2, <1>2, <1>3
    <3> QED BY <3>1, <1>1, <1>2 DEF FenceExclusive
  <2> QED BY <2>1, <2>2, <1>2
<1>21. NoLostWakeup'
  <2>1. ASSUME B' # <<>>
        PROVE  in_progress' # {}
    <3>1. n < Len(B)
      BY <2>1, <1>0, <1>2, <1>18
    <3>2. CASE n > 0
      <4>1. B[1] \in R
        BY <3>2, <1>2
      <4> QED BY <4>1, <1>3
    <3>3. CASE in_progress # {j}
      BY <3>3, <1>1, <1>3
    <3> QED BY <3>1, <3>2, <3>3, <1>2
  <2> QED BY <2>1 DEF NoLostWakeup, B
<1>22. FenceOrder'
  <2> SUFFICES ASSUME NEW a \in Jobs, NEW b \in Jobs,
                      0 < ticket[a], ticket[a] < ticket[b],
                      a \in fences \/ b \in fences,
                      b \in in_progress' \union done'
               PROVE  a \in done'
    BY <1>1 DEF FenceOrder
  <2>1. CASE b \in in_progress \union done
    BY <2>1, <1>1 DEF IInv, FenceOrder
  <2>2. CASE b \in R
    <3>1. PICK q \in 1..n : b = B[q]
      BY <2>2
    <3>2. in_progress = {j}
      BY <3>1, <1>2
    <3>3. a \notin Blocked
      <4> SUFFICES ASSUME a \in Blocked PROVE FALSE
        OBVIOUS
      <4>1. PICK p \in 1..Len(B) : a = B[p]
        BY <1>8
      <4>2. p < q
        BY <3>1, <4>1, <1>0, <1>2, <1>6, SMTT(30)
      <4> QED BY <3>1, <4>1, <4>2, <1>2, <1>0
    <3>4. a \in Reached
      BY <1>0 DEF Reached
    <3> QED BY <3>2, <3>3, <3>4, <1>1 DEF IInv, Placed
  <2> QED BY <2>1, <2>2, <1>1, <1>3
<1> QED BY <1>13, <1>14, <1>15, <1>16, <1>17, <1>19, <1>20, <1>21, <1>22 DEF IInv

(* Every step of the fence keeps the invariant.                            *)
LEMMA NextIInv ==
    ASSUME IInv, [Next]_vars
    PROVE  IInv'
<1>1. CASE Next
  BY <1>1, IsBlockedIInv, RaiseFenceIInv, CompleteIInv DEF Next
<1>2. CASE UNCHANGED vars
  BY <1>2 DEF vars, IInv, TypeOK, Placed, TicketsDistinct, QueueOrdered, CountersExact,
              QueueHead, FenceExclusive, NoLostWakeup, FenceOrder, Reached, Blocked
<1> QED BY <1>1, <1>2

(* The invariant holds in every reachable state of the fence, however many *)
(* jobs the storage has.                                                   *)
THEOREM FenceInvariant == Spec => []IInv
  BY InitIInv, NextIInv, PTL DEF Spec

(* The fence object, its counters and the job sets keep their types.       *)
THEOREM FenceTypes == Spec => []TypeOK
  BY FenceInvariant, PTL DEF IInv

(* The exclusive access that disk_job_fence promises: a fence job in       *)
(* progress is the only job in progress on its storage.                    *)
THEOREM FenceJobsRunAlone == Spec => []FenceExclusive
  BY FenceInvariant, PTL DEF IInv

(* Jobs are never left behind a fence that nobody will lower.              *)
THEOREM BlockedJobsHaveAWaker == Spec => []NoLostWakeup
  BY FenceInvariant, PTL DEF IInv

(* m_outstanding_jobs and m_has_fence count what they are meant to count.  *)
THEOREM FenceCountersExact == Spec => []CountersExact
  BY FenceInvariant, PTL DEF IInv

(* A fence job never overtakes a job, and no job overtakes a fence job.    *)
THEOREM FenceJobsKeepOrder == Spec => []FenceOrder
  BY FenceInvariant, PTL DEF IInv

(* The counting fence implements the abstract access rule: whatever        *)
(* is_blocked admits, raise_fence posts or job_complete releases was       *)
(* allowed to run by then.                                                 *)
THEOREM FenceImplementsAccess == Spec => ImplementsAccess
<1> DEFINE started == in_progress \union done
<1>1. Init => Access!Init
  BY DEF Init, Access!Init
<1>2. ASSUME IInv, IInv', [Next]_vars
      PROVE  [Access!Next]_(Access!accessVars)
  <2>1. ASSUME started \subseteq started'
        PROVE  Access!StartSome /\ started' \in SUBSET Jobs
    <3>1. started' \in SUBSET Jobs
      BY <1>2 DEF IInv, TypeOK
    <3>2. ASSUME NEW b \in started'
          PROVE  Access!MayRun(b, ticket', fences', done')
      <4>1. b \in Reached' /\ b \in Jobs
        BY <1>2, <3>1, <3>2 DEF IInv, Placed
      <4> QED BY <1>2, <3>2, <4>1 DEF IInv, FenceOrder, Access!MayRun, Reached
    <3> QED BY <2>1, <3>1, <3>2 DEF Access!StartSome
  <2>2. ASSUME NEW j \in Jobs, IsBlocked(j)
        PROVE  Access!Arrive(j)
    <3>1. started \subseteq started'
      BY <2>2 DEF IsBlocked
    <3> QED BY <2>1, <2>2, <3>1 DEF IsBlocked, Issue, Access!Arrive
  <2>3. ASSUME NEW j \in Jobs, RaiseFence(j)
        PROVE  Access!Arrive(j)
    <3>1. started \subseteq started'
      BY <2>3 DEF RaiseFence
    <3> QED BY <2>1, <2>3, <3>1 DEF RaiseFence, Issue, Access!Arrive
  <2>4. ASSUME NEW j \in Jobs, Complete(j)
        PROVE  Access!Finish(j)
    <3>1. started \subseteq started' /\ done' = done \union {j}
          /\ UNCHANGED <<fences, ticket, issued>>
      BY <2>4 DEF Complete
    <3>2. j \in started \ done
      BY <1>2, <2>4 DEF Complete, IInv, Placed
    <3> QED BY <2>1, <3>1, <3>2 DEF Access!Finish
  <2>5. CASE UNCHANGED vars
    BY <2>5 DEF vars, Access!accessVars
  <2>6. CASE Next
    BY <2>2, <2>3, <2>4, <2>6 DEF Next, Access!Next
  <2> QED BY <1>2, <2>5, <2>6
<1> QED BY <1>1, <1>2, FenceInvariant, PTL DEF Spec, ImplementsAccess, Access!Spec
=============================================================================

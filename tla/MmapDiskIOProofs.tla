-------------------------- MODULE MmapDiskIOProofs --------------------------
(***************************************************************************)
(* Proofs about MmapDiskIO, for any finite sets of jobs and threads.       *)
(*                                                                         *)
(* - Lists of jobs, threads and the lists they hold, and the storage's     *)
(*   fence as an instance of DiskJobFence: the vocabulary of DInv.         *)
(* - DInv is inductive, and every step is a step of the fence: one section *)
(*   for each stretch of a job's way through the code.                     *)
(* - What the fence guarantees to the jobs (FenceSynchronizes).            *)
(* - The thread pools' counts and the types of the files; with them        *)
(*   JobsInOnePlace.                                                       *)
(* - The store buffer (StoreBufferExact), then reads and hashes            *)
(*   (ReadsSeeWrites), while nothing is shut down and no file throws.      *)
(***************************************************************************)
EXTENDS MmapDiskIO, ThreadPoolProofs, SequenceTheorems, WellFoundedInduction

-----------------------------------------------------------------------------
(***************************************************************************)
(* Lists of jobs.                                                          *)
(***************************************************************************)

(* The first n jobs of list x go to the back or to the front of list y.    *)
Moved(S, T, x, y, n) ==
    /\ T \in [DOMAIN S -> Seq(Jobs)] /\ x \in DOMAIN S /\ y \in DOMAIN S /\ x # y /\ n \in 0..Len(S[x])
    /\ \A z \in DOMAIN S : z # x /\ z # y => T[z] = S[z]
    /\ T[x] = SubSeq(S[x], n + 1, Len(S[x]))
    /\ T[y] \in {S[y] \o SubSeq(S[x], 1, n), SubSeq(S[x], 1, n) \o S[y]}

(* Moving jobs loses none and duplicates none.                             *)
LEMMA MovedKeeps ==
    ASSUME NEW S, NEW D, S \in [D -> Seq(Jobs)], NEW T, NEW x, NEW y, NEW n, Moved(S, T, x, y, n)
    PROVE  /\ OnePlace(S) => OnePlace(T)
           /\ JobsIn(T) = JobsIn(S)
<1> DEFINE a == S[x]
           b == S[y]
           m == Len(a)
           k == Len(b)
<1>1. /\ DOMAIN S = D /\ x \in D /\ y \in D /\ x # y /\ n \in 0..m /\ T \in [D -> Seq(Jobs)]
      /\ a \in Seq(Jobs) /\ b \in Seq(Jobs) /\ m \in Nat /\ k \in Nat /\ n \in Nat
  BY DEF Moved
<1>2. Len(T[x]) = m - n /\ \A i \in 1..(m - n) : T[x][i] = a[i + n]
  <2>1. T[x] = SubSeq(a, n + 1, m)
    BY DEF Moved
  <2> HIDE DEF a, m
  <2> QED
    BY <1>1, <2>1
<1>3. /\ Len(T[y]) = k + n
      /\ \/ \A i \in 1..(k + n) : T[y][i] = IF i <= k THEN b[i] ELSE a[i - k]
         \/ \A i \in 1..(k + n) : T[y][i] = IF i <= n THEN a[i] ELSE b[i - n]
  <2> DEFINE c == SubSeq(a, 1, n)
  <2>1. T[y] = b \o c \/ T[y] = c \o b
    BY DEF Moved
  <2>2. c \in Seq(Jobs) /\ Len(c) = n /\ \A i \in 1..n : c[i] = a[i]
    <3>1. a \in Seq(Jobs) /\ n \in Nat /\ n <= Len(a)
      BY <1>1
    <3> HIDE DEF a
    <3> QED
      BY <3>1
  <2>3. b \in Seq(Jobs) /\ k = Len(b) /\ k \in Nat /\ n \in Nat
    BY <1>1
  <2> HIDE DEF c, a, b, m, k
  <2>4. CASE T[y] = b \o c
    <3>1. Len(b \o c) = k + n /\ \A i \in 1..(k + n) : (b \o c)[i] = IF i <= k THEN b[i] ELSE c[i - k]
      BY <2>2, <2>3, ConcatProperties
    <3>2. \A i \in 1..(k + n) : ~ (i <= k) => i - k \in 1..n
      BY <2>3
    <3> QED
      BY <2>2, <2>4, <3>1, <3>2
  <2>5. CASE T[y] = c \o b
    <3>1. Len(c \o b) = n + k /\ \A i \in 1..(n + k) : (c \o b)[i] = IF i <= n THEN c[i] ELSE b[i - n]
      BY <2>2, <2>3, ConcatProperties
    <3>2. k + n = n + k /\ \A i \in 1..(k + n) : i <= n => i \in 1..n
      BY <2>3
    <3> QED
      BY <2>2, <2>5, <3>1, <3>2
  <2> QED
    BY <2>1, <2>4, <2>5
<1>4. \A z \in D : z # x /\ z # y => T[z] = S[z]
  BY <1>1 DEF Moved
<1> DEFINE back == \A i \in 1..(k + n) : T[y][i] = IF i <= k THEN b[i] ELSE a[i - k]
           OrigList(z, i) == IF z # y THEN z
                             ELSE IF back THEN IF i <= k THEN y ELSE x
                             ELSE IF i <= n THEN x ELSE y
           OrigIndex(z, i) == IF z = x THEN i + n
                              ELSE IF z # y THEN i
                              ELSE IF back THEN IF i <= k THEN i ELSE i - k
                              ELSE IF i <= n THEN i ELSE i - n
<1>5. /\ \A z \in D : DOMAIN S[z] = 1..Len(S[z]) /\ Len(S[z]) \in Nat
      /\ \A z \in D : DOMAIN T[z] = 1..Len(T[z]) /\ Len(T[z]) \in Nat
  BY <1>1
<1>6. ASSUME NEW z \in D, NEW i \in DOMAIN T[z]
      PROVE  /\ OrigList(z, i) \in D /\ OrigIndex(z, i) \in DOMAIN S[OrigList(z, i)]
             /\ T[z][i] = S[OrigList(z, i)][OrigIndex(z, i)]
  <2>1. CASE z = x
    BY <1>1, <1>2, <1>5, <2>1
  <2>2. CASE z # x /\ z # y
    BY <1>1, <1>4, <1>5, <2>2
  <2>3. CASE z = y
    <3>1. i \in 1..(k + n)
      BY <1>3, <1>5, <2>3
    <3>2. CASE back
      BY <1>1, <1>5, <2>3, <3>1, <3>2
    <3>3. CASE ~ back
      <4>1. T[y][i] = IF i <= n THEN a[i] ELSE b[i - n]
        BY <1>3, <3>1, <3>3
      <4> QED
        BY <1>1, <1>5, <2>3, <3>1, <3>3, <4>1
    <3> QED
      BY <3>2, <3>3
  <2> QED
    BY <2>1, <2>2, <2>3
<1>7. ASSUME NEW z \in D, NEW i \in DOMAIN T[z], NEW w \in D, NEW l \in DOMAIN T[w],
             OrigList(z, i) = OrigList(w, l), OrigIndex(z, i) = OrigIndex(w, l)
      PROVE  z = w /\ i = l
  <2>1. i \in Nat /\ l \in Nat /\ i >= 1 /\ l >= 1
    BY <1>5
  <2>2. (z = y => i <= k + n) /\ (w = y => l <= k + n)
    BY <1>3, <1>5
  <2> HIDE DEF back, a, b, k, m
  <2> QED
    BY <1>1, <1>7, <2>1, <2>2
<1>8. ASSUME NEW z \in D, NEW i \in DOMAIN S[z]
      PROVE  \E w \in D : \E l \in DOMAIN T[w] : T[w][l] = S[z][i]
  <2>1. CASE z # x /\ z # y
    BY <1>4, <2>1
  <2>2. i \in Nat /\ i >= 1 /\ i <= Len(S[z])
    BY <1>5
  <2>3. CASE z = x /\ i > n
    <3>1. i - n \in 1..(m - n)
      BY <1>1, <2>2, <2>3
    <3>2. i - n \in DOMAIN T[x] /\ T[x][i - n] = a[i]
      BY <1>1, <1>2, <1>5, <2>2, <3>1
    <3> QED
      BY <1>1, <2>3, <3>2
  <2>4. CASE z = x /\ i <= n
    <3>1. CASE back
      <4>1. k + i \in 1..(k + n) /\ ~ (k + i <= k) /\ (k + i) - k = i
        BY <1>1, <2>2, <2>4
      <4>2. k + i \in DOMAIN T[y] /\ T[y][k + i] = a[i]
        BY <1>1, <1>3, <1>5, <3>1, <4>1
      <4> QED
        BY <1>1, <2>4, <4>2
    <3>2. CASE ~ back
      <4>1. i \in 1..(k + n)
        BY <1>1, <2>2, <2>4
      <4>2. i \in DOMAIN T[y] /\ T[y][i] = a[i]
        BY <1>1, <1>3, <1>5, <2>4, <3>2, <4>1
      <4> QED
        BY <1>1, <2>4, <4>2
    <3> QED
      BY <3>1, <3>2
  <2>5. CASE z = y
    <3>1. CASE back
      <4>1. i \in 1..(k + n) /\ i <= k
        BY <1>1, <2>2, <2>5
      <4>2. i \in DOMAIN T[y] /\ T[y][i] = b[i]
        BY <1>1, <1>3, <1>5, <3>1, <4>1
      <4> QED
        BY <1>1, <2>5, <4>2
    <3>2. CASE ~ back
      <4>1. n + i \in 1..(k + n) /\ ~ (n + i <= n) /\ (n + i) - n = i
        BY <1>1, <2>2, <2>5
      <4>2. n + i \in DOMAIN T[y] /\ T[y][n + i] = b[i]
        BY <1>1, <1>3, <1>5, <3>2, <4>1
      <4> QED
        BY <1>1, <2>5, <4>2
    <3> QED
      BY <3>1, <3>2
  <2> QED
    BY <1>1, <2>1, <2>2, <2>3, <2>4, <2>5
<1> HIDE DEF OrigList, OrigIndex, a, b, m, k, back
<1>9. ASSUME OnePlace(S) PROVE OnePlace(T)
  <2> SUFFICES ASSUME NEW z \in D, NEW w \in D, NEW i \in DOMAIN T[z], NEW l \in DOMAIN T[w],
                      T[z][i] = T[w][l]
               PROVE  z = w /\ i = l
    BY <1>1 DEF OnePlace
  <2>1. /\ OrigList(z, i) \in D /\ OrigIndex(z, i) \in DOMAIN S[OrigList(z, i)]
        /\ T[z][i] = S[OrigList(z, i)][OrigIndex(z, i)]
    BY <1>6
  <2>2. /\ OrigList(w, l) \in D /\ OrigIndex(w, l) \in DOMAIN S[OrigList(w, l)]
        /\ T[w][l] = S[OrigList(w, l)][OrigIndex(w, l)]
    BY <1>6
  <2>3. OrigList(z, i) = OrigList(w, l) /\ OrigIndex(z, i) = OrigIndex(w, l)
    <3>1. \A u, v \in D : \A p \in DOMAIN S[u], q \in DOMAIN S[v] : S[u][p] = S[v][q] => u = v /\ p = q
      BY <1>1, <1>9 DEF OnePlace
    <3>2. PICK u, p : /\ u \in D /\ u = OrigList(z, i) /\ p = OrigIndex(z, i)
                      /\ p \in DOMAIN S[u] /\ T[z][i] = S[u][p]
      BY <2>1
    <3>3. PICK v, q : /\ v \in D /\ v = OrigList(w, l) /\ q = OrigIndex(w, l)
                      /\ q \in DOMAIN S[v] /\ T[w][l] = S[v][q]
      BY <2>2
    <3>4. u \in D /\ v \in D /\ S[u][p] = S[v][q] /\ p \in DOMAIN S[u] /\ q \in DOMAIN S[v]
      BY <3>2, <3>3
    <3>5. u = v /\ p = q
      BY <3>1, <3>4
    <3> QED
      BY <3>2, <3>3, <3>5
  <2> QED
    BY <1>7, <2>3, Zenon
<1>10. JobsIn(T) = JobsIn(S)
  <2>1. ASSUME NEW j \in JobsIn(T) PROVE j \in JobsIn(S)
    <3>1. PICK z \in D : \E i \in DOMAIN T[z] : j = T[z][i]
      BY <1>1, <2>1 DEF JobsIn, ToSet
    <3> QED
      BY <1>1, <1>6, <3>1 DEF JobsIn, ToSet
  <2>2. ASSUME NEW j \in JobsIn(S) PROVE j \in JobsIn(T)
    <3>1. PICK z \in D : \E i \in DOMAIN S[z] : j = S[z][i]
      BY <1>1, <2>2 DEF JobsIn, ToSet
    <3> QED
      BY <1>1, <1>8, <3>1 DEF JobsIn, ToSet
  <2> QED
    BY <2>1, <2>2
<1> QED
  BY <1>9, <1>10

(* A job that is in no list is put in one.                                 *)
Added(S, T, D, x, j) ==
    /\ S \in [D -> Seq(Jobs)] /\ T \in [D -> Seq(Jobs)] /\ x \in D /\ j \in Jobs /\ j \notin JobsIn(S)
    /\ T[x] = Append(S[x], j) /\ \A z \in D : z # x => T[z] = S[z]

(* Adding a new job to one list keeps every job in one place.              *)
LEMMA AddedKeeps ==
    ASSUME NEW S, NEW T, NEW D, NEW x, NEW j, Added(S, T, D, x, j)
    PROVE  /\ OnePlace(S) => OnePlace(T)
           /\ JobsIn(T) = JobsIn(S) \union {j}
<1> DEFINE n == Len(S[x])
<1>0. /\ S \in [D -> Seq(Jobs)] /\ T \in [D -> Seq(Jobs)] /\ x \in D /\ j \in Jobs /\ j \notin JobsIn(S)
      /\ T[x] = Append(S[x], j) /\ \A z \in D : z # x => T[z] = S[z]
  BY DEF Added
<1> USE <1>0
<1>1. /\ DOMAIN S = D /\ DOMAIN T = D /\ n \in Nat
      /\ \A z \in D : DOMAIN S[z] = 1..Len(S[z]) /\ Len(S[z]) \in Nat
      /\ \A z \in D : DOMAIN T[z] = 1..Len(T[z]) /\ Len(T[z]) \in Nat
  OBVIOUS
<1>2. Len(T[x]) = n + 1 /\ T[x][n + 1] = j /\ \A i \in 1..n : T[x][i] = S[x][i]
  BY AppendProperties
<1>3. \A z \in D : \A i \in DOMAIN S[z] : S[z][i] # j
  BY <1>1 DEF JobsIn, ToSet
<1>4. ASSUME NEW z \in D, NEW i \in DOMAIN T[z]
      PROVE  \/ z = x /\ i = n + 1 /\ T[z][i] = j
             \/ i \in DOMAIN S[z] /\ T[z][i] = S[z][i]
  <2>1. CASE z = x
    BY <1>1, <1>2, <2>1
  <2>2. CASE z # x
    BY <2>2
  <2> QED
    BY <2>1, <2>2
<1>5. ASSUME OnePlace(S) PROVE OnePlace(T)
  <2> SUFFICES ASSUME NEW z \in D, NEW w \in D, NEW i \in DOMAIN T[z], NEW l \in DOMAIN T[w],
                      T[z][i] = T[w][l]
               PROVE  z = w /\ i = l
    BY <1>1 DEF OnePlace
  <2>1. \A u, v \in D : \A p \in DOMAIN S[u], q \in DOMAIN S[v] : S[u][p] = S[v][q] => u = v /\ p = q
    BY <1>1, <1>5 DEF OnePlace
  <2>2. \/ z = x /\ i = n + 1 /\ T[z][i] = j
        \/ i \in DOMAIN S[z] /\ T[z][i] = S[z][i] /\ S[z][i] # j
    BY <1>3, <1>4
  <2>3. \/ w = x /\ l = n + 1 /\ T[w][l] = j
        \/ l \in DOMAIN S[w] /\ T[w][l] = S[w][l] /\ S[w][l] # j
    BY <1>3, <1>4
  <2> QED
    BY <2>1, <2>2, <2>3
<1>6. JobsIn(T) = JobsIn(S) \union {j}
  <2>1. \A z \in D : \A i \in DOMAIN S[z] : i \in DOMAIN T[z] /\ T[z][i] = S[z][i]
    <3> TAKE z \in D
    <3> TAKE i \in DOMAIN S[z]
    <3>1. CASE z = x
      BY <1>1, <1>2, <3>1
    <3>2. CASE z # x
      BY <3>2
    <3> QED
      BY <3>1, <3>2
  <2>2. n + 1 \in DOMAIN T[x] /\ T[x][n + 1] = j
    BY <1>1, <1>2
  <2> QED
    BY <1>1, <1>4, <2>1, <2>2 DEF JobsIn, ToSet
<1> QED
  BY <1>5, <1>6

(* The lists, one by one.                                                  *)
LEMMA HeldIs ==
    ASSUME NEW c, NEW d, NEW f, NEW q, NEW h
    PROVE  LET H == HeldIn(c, d, f, q, h)
           IN  /\ DOMAIN H = Lists /\ H = [x \in Lists |-> H[x]]
               /\ H[<<Net, "called">>] = c /\ H[<<Net, "completed">>] = d
               /\ H[<<Net, "blocked">>] = f.m_blocked_jobs
               /\ H[<<Net, "generic">>] = q["generic"] /\ H[<<Net, "hash">>] = q["hash"]
               /\ \A t \in Threads : /\ H[<<t, "jobs">>] = h[t].jobs
                                     /\ H[<<t, "new">>] = h[t].new
                                     /\ H[<<t, "failed">>] = h[t].failed
  BY DEF HeldIn, Lists

(* The members of Lists.                                                   *)
LEMMA ListsAre ==
    /\ {<<Net, "called">>, <<Net, "completed">>, <<Net, "blocked">>, <<Net, "generic">>, <<Net, "hash">>}
          \subseteq Lists
    /\ \A t \in Threads : {<<t, "jobs">>, <<t, "new">>, <<t, "failed">>} \subseteq Lists
    /\ \A x \in Lists :
          \/ x \in {<<Net, "called">>, <<Net, "completed">>, <<Net, "blocked">>, <<Net, "generic">>,
                    <<Net, "hash">>}
          \/ \E t \in Threads : x \in {<<t, "jobs">>, <<t, "new">>, <<t, "failed">>}
  BY DEF Lists

(* A list of one job is given by that job.                                 *)
LEMMA OneJob ==
    ASSUME NEW s, s \in Seq(Jobs), Len(s) = 1
    PROVE  s = <<s[1]>>
<1> DEFINE r == <<s[1]>>
<1>1. s[1] \in Jobs
  OBVIOUS
<1>2. r \in Seq(Jobs) /\ Len(r) = 1 /\ r[1] = s[1]
  BY <1>1
<1>3. \A i \in 1..Len(s) : s[i] = r[i]
  BY <1>2
<1> HIDE DEF r
<1>4. s = r
  BY <1>2, <1>3, SeqEqual
<1> QED
  BY <1>4 DEF r

(* All jobs of a list go to the back of another one.                       *)
MovedAll(S, T, D, x, y) ==
    /\ S \in [D -> Seq(Jobs)] /\ T \in [D -> Seq(Jobs)] /\ x \in D /\ y \in D /\ x # y
    /\ T[x] = <<>> /\ T[y] = S[y] \o S[x] /\ \A z \in D : z # x /\ z # y => T[z] = S[z]

(* Moving a whole list to another keeps every job in one place.            *)
LEMMA WholeMoveKeeps ==
    ASSUME NEW S, NEW T, NEW D, NEW x, NEW y, MovedAll(S, T, D, x, y)
    PROVE  (OnePlace(S) => OnePlace(T)) /\ JobsIn(T) = JobsIn(S)
<1> USE DEF MovedAll
<1> DEFINE n == Len(S[x])
<1>1. S[x] \in Seq(Jobs) /\ n \in Nat /\ n \in 0..n
  OBVIOUS
<1>2. SubSeq(S[x], 1, n) = S[x] /\ SubSeq(S[x], n + 1, n) = <<>>
  BY <1>1
<1>3. Moved(S, T, x, y, n)
  <2>1. DOMAIN S = D
    OBVIOUS
  <2> HIDE DEF n
  <2>2. T[y] \in {S[y] \o SubSeq(S[x], 1, n), SubSeq(S[x], 1, n) \o S[y]}
    BY <1>2
  <2> QED
    BY <1>1, <1>2, <2>1, <2>2 DEF Moved, n
<1> QED
  BY <1>3, MovedKeeps

(* The first job of a list goes to an empty one.                           *)
MovedHead(S, T, D, x, y) ==
    /\ S \in [D -> Seq(Jobs)] /\ T \in [D -> Seq(Jobs)] /\ x \in D /\ y \in D /\ x # y
    /\ S[x] # <<>> /\ T[x] = Tail(S[x]) /\ S[y] = <<>> /\ T[y] = <<Head(S[x])>>
    /\ \A z \in D : z # x /\ z # y => T[z] = S[z]

(* So does moving the first job of a list.                                 *)
LEMMA HeadMoveKeeps ==
    ASSUME NEW S, NEW T, NEW D, NEW x, NEW y, MovedHead(S, T, D, x, y)
    PROVE  (OnePlace(S) => OnePlace(T)) /\ JobsIn(T) = JobsIn(S)
<1> USE DEF MovedHead
<1> DEFINE a == S[x]
<1>1. a \in Seq(Jobs) /\ a # <<>> /\ Len(a) \in Nat /\ Len(a) >= 1 /\ DOMAIN S = D
  OBVIOUS
<1>2. SubSeq(a, 1, 1) = <<Head(a)>> /\ SubSeq(a, 2, Len(a)) = Tail(a) /\ <<Head(a)>> \in Seq(Jobs)
  <2> HIDE DEF a
  <2>1. SubSeq(a, 1, 1) = <<a[1]>>
    <3>1. SubSeq(a, 1, 1) \in Seq(Jobs) /\ Len(SubSeq(a, 1, 1)) = 1 /\ SubSeq(a, 1, 1)[1] = a[1]
      BY <1>1
    <3> QED
      BY <3>1, OneJob
  <2>2. Tail(a) = SubSeq(a, 2, Len(a))
    BY <1>1, HeadTailProperties
  <2> QED
    BY <1>1, <2>1, <2>2, SMTT(30)
<1>3. S[y] \o SubSeq(a, 1, 1) = T[y]
  <2> HIDE DEF a
  <2>1. <<>> \o <<Head(a)>> = <<Head(a)>>
    BY <1>2
  <2>2. S[y] = <<>> /\ T[y] = <<Head(a)>>
    BY DEF a
  <2> QED
    BY <1>2, <2>1, <2>2
<1>4. Moved(S, T, x, y, 1)
  <2>1. T[y] \in {S[y] \o SubSeq(S[x], 1, 1), SubSeq(S[x], 1, 1) \o S[y]}
    BY <1>3
  <2>2. T[x] = SubSeq(S[x], 1 + 1, Len(S[x]))
    BY <1>2
  <2>3. 1 \in 0..Len(S[x])
    BY <1>1
  <2> QED
    BY <1>1, <2>1, <2>2, <2>3 DEF Moved
<1> QED
  BY <1>4, MovedKeeps

-----------------------------------------------------------------------------
(***************************************************************************)
(* Threads and the lists they hold.                                        *)
(***************************************************************************)
Pcs ==
    {"none", "start", "loop", "idle", "add", "push", "abort", "abort_generic", "abort_hash", "exec",
     "erase", "hash", "hash_file", "complete", "route", "append", "notify", "post", "cleanup"}

(* The fields of At(pc, s).                                                *)
LEMMA AtIs ==
    ASSUME NEW pc, pc \in Pcs, NEW s, s \in Seq(Jobs)
    PROVE  /\ At(pc, s) \in ThreadState
           /\ At(pc, s).pc = pc /\ At(pc, s).jobs = s /\ At(pc, s).todo = s
           /\ At(pc, s).new = <<>> /\ At(pc, s).failed = <<>> /\ At(pc, s).left = {}
  BY DEF At, ThreadState, Pcs

(* The same for a thread with no jobs in hand.                             *)
LEMMA AtEmpty ==
    ASSUME NEW pc, pc \in Pcs
    PROVE  /\ At(pc, <<>>) \in ThreadState
           /\ At(pc, <<>>).pc = pc /\ At(pc, <<>>).jobs = <<>> /\ At(pc, <<>>).todo = <<>>
           /\ At(pc, <<>>).new = <<>> /\ At(pc, <<>>).failed = <<>> /\ At(pc, <<>>).left = {}
<1>1. <<>> \in Seq(Jobs)
  OBVIOUS
<1> QED
  BY <1>1, AtIs, Zenon

(* The same for a thread with one job in hand.                             *)
LEMMA AtOne ==
    ASSUME NEW pc, pc \in Pcs, NEW j, j \in Jobs
    PROVE  /\ At(pc, <<j>>) \in ThreadState
           /\ At(pc, <<j>>).pc = pc /\ At(pc, <<j>>).jobs = <<j>> /\ At(pc, <<j>>).todo = <<j>>
           /\ At(pc, <<j>>).new = <<>> /\ At(pc, <<j>>).failed = <<>> /\ At(pc, <<j>>).left = {}
<1>1. <<j>> \in Seq(Jobs)
  OBVIOUS
<1> QED
  BY <1>1, AtIs, Zenon

(* The fields of a thread.                                                 *)
LEMMA ThreadStateIs ==
    ASSUME NEW h, h \in ThreadState
    PROVE  /\ h.pc \in Pcs /\ h.jobs \in Seq(Jobs) /\ h.todo \in Seq(Jobs)
           /\ h.new \in Seq(Jobs) /\ h.failed \in Seq(Jobs) /\ h.left \subseteq Blocks
  BY DEF ThreadState, Pcs

(* Only thread t moves.                                                    *)
Becomes(t, h) ==
    /\ t \in Threads /\ h \in ThreadState
    /\ thr' \in [Threads -> ThreadState]
    /\ thr'[t] = h
    /\ \A u \in Threads : u # t => thr'[u] = thr[u]

(* Assigning to thr[t] moves only thread t.                                *)
LEMMA BecomesIs ==
    ASSUME NEW t, NEW h, t \in Threads, h \in ThreadState, thr \in [Threads -> ThreadState],
           thr' = [thr EXCEPT ![t] = h]
    PROVE  Becomes(t, h)
  BY DEF Becomes

(* The state of the lists.                                                 *)
ListTypes ==
    /\ fence \in FenceObject(Jobs)
    /\ m_queued_jobs \in [Pools -> Seq(Jobs)]
    /\ m_completed_jobs \in Seq(Jobs) /\ called \in Seq(Jobs)
    /\ thr \in [Threads -> ThreadState]

(* Each place holds a list of jobs.                                        *)
LEMMA HeldType ==
    ASSUME ListTypes
    PROVE  Held \in [Lists -> Seq(Jobs)]
<1>1. DOMAIN Held = Lists /\ Held = [x \in Lists |-> Held[x]]
  BY HeldIs DEF Held
<1>2. ASSUME NEW x \in Lists PROVE Held[x] \in Seq(Jobs)
  <2>1. fence.m_blocked_jobs \in Seq(Jobs) /\ \A q \in Pools : m_queued_jobs[q] \in Seq(Jobs)
    BY DEF ListTypes, FenceObject
  <2>2. CASE x \in {<<Net, "called">>, <<Net, "completed">>, <<Net, "blocked">>, <<Net, "generic">>,
                    <<Net, "hash">>}
    <3>1. /\ Held[<<Net, "called">>] = called /\ Held[<<Net, "completed">>] = m_completed_jobs
          /\ Held[<<Net, "blocked">>] = fence.m_blocked_jobs
          /\ Held[<<Net, "generic">>] = m_queued_jobs["generic"]
          /\ Held[<<Net, "hash">>] = m_queued_jobs["hash"]
      BY HeldIs DEF Held
    <3> QED
      BY <2>1, <2>2, <3>1 DEF ListTypes, Pools
  <2>3. ASSUME NEW t \in Threads, x \in {<<t, "jobs">>, <<t, "new">>, <<t, "failed">>}
        PROVE  Held[x] \in Seq(Jobs)
    <3>1. /\ Held[<<t, "jobs">>] = thr[t].jobs /\ Held[<<t, "new">>] = thr[t].new
          /\ Held[<<t, "failed">>] = thr[t].failed
      BY HeldIs DEF Held
    <3>2. thr[t] \in ThreadState
      BY DEF ListTypes
    <3> QED
      BY <2>3, <3>1, <3>2, ThreadStateIs
  <2> QED
    BY <1>2, <2>2, <2>3, ListsAre
<1> QED
  BY <1>1, <1>2

(* The same after a step.                                                  *)
LEMMA HeldTypeNext ==
    ListTypes' => Held' \in [Lists -> Seq(Jobs)]
<1>1. ListTypes => Held \in [Lists -> Seq(Jobs)]
  BY HeldType
<1>2. ListTypes' => (Held \in [Lists -> Seq(Jobs)])'
  BY <1>1, PTL
<1> QED
  BY <1>2

(* A step that touches at most thread t changes no lists but those in X.   *)
ChangesOnly(t, h, X) ==
    /\ Becomes(t, h)
    /\ <<Net, "called">> \in X \/ called' = called
    /\ <<Net, "completed">> \in X \/ m_completed_jobs' = m_completed_jobs
    /\ <<Net, "blocked">> \in X \/ fence'.m_blocked_jobs = fence.m_blocked_jobs
    /\ <<Net, "generic">> \in X \/ m_queued_jobs'["generic"] = m_queued_jobs["generic"]
    /\ <<Net, "hash">> \in X \/ m_queued_jobs'["hash"] = m_queued_jobs["hash"]
    /\ <<t, "jobs">> \in X \/ h.jobs = thr[t].jobs
    /\ <<t, "new">> \in X \/ h.new = thr[t].new
    /\ <<t, "failed">> \in X \/ h.failed = thr[t].failed

(* A step that changes only the lists in X leaves the others as they are.  *)
LEMMA HeldElse ==
    ASSUME NEW t, NEW h, NEW X, ChangesOnly(t, h, X)
    PROVE  \A z \in Lists : z \notin X => Held'[z] = Held[z]
<1> SUFFICES ASSUME NEW z \in Lists, z \notin X PROVE Held'[z] = Held[z]
  OBVIOUS
<1>1. /\ Held[<<Net, "called">>] = called /\ Held[<<Net, "completed">>] = m_completed_jobs
      /\ Held[<<Net, "blocked">>] = fence.m_blocked_jobs
      /\ Held[<<Net, "generic">>] = m_queued_jobs["generic"]
      /\ Held[<<Net, "hash">>] = m_queued_jobs["hash"]
      /\ \A u \in Threads : /\ Held[<<u, "jobs">>] = thr[u].jobs /\ Held[<<u, "new">>] = thr[u].new
                            /\ Held[<<u, "failed">>] = thr[u].failed
  BY HeldIs DEF Held
<1>2. /\ Held'[<<Net, "called">>] = called' /\ Held'[<<Net, "completed">>] = m_completed_jobs'
      /\ Held'[<<Net, "blocked">>] = fence'.m_blocked_jobs
      /\ Held'[<<Net, "generic">>] = m_queued_jobs'["generic"]
      /\ Held'[<<Net, "hash">>] = m_queued_jobs'["hash"]
      /\ \A u \in Threads : /\ Held'[<<u, "jobs">>] = thr'[u].jobs /\ Held'[<<u, "new">>] = thr'[u].new
                            /\ Held'[<<u, "failed">>] = thr'[u].failed
  BY HeldIs DEF Held
<1>3. CASE z \in {<<Net, "called">>, <<Net, "completed">>, <<Net, "blocked">>, <<Net, "generic">>,
                  <<Net, "hash">>}
  BY <1>1, <1>2, <1>3 DEF ChangesOnly
<1>4. ASSUME NEW u \in Threads, z \in {<<u, "jobs">>, <<u, "new">>, <<u, "failed">>}
      PROVE  Held'[z] = Held[z]
  <2>1. CASE u = t
    BY <1>1, <1>2, <1>4, <2>1 DEF Becomes, ChangesOnly
  <2>2. CASE u # t
    BY <1>1, <1>2, <1>4, <2>2, ZenonT(30) DEF Becomes, ChangesOnly
  <2> QED
    BY <2>1, <2>2
<1> QED
  BY <1>3, <1>4, ListsAre

(* A step in which a thread only changes its place in the code moves no    *)
(* job.                                                                    *)
LEMMA HeldSame ==
    ASSUME NEW t, NEW h, Becomes(t, h), called' = called, m_completed_jobs' = m_completed_jobs,
           fence'.m_blocked_jobs = fence.m_blocked_jobs, m_queued_jobs' = m_queued_jobs,
           h.jobs = thr[t].jobs, h.new = thr[t].new, h.failed = thr[t].failed
    PROVE  Held' = Held
<1>1. ChangesOnly(t, h, {})
  BY DEF ChangesOnly
<1>2. PICK X : X = {} /\ ChangesOnly(t, h, X)
  BY <1>1
<1>3. \A z \in Lists : z \notin X => Held'[z] = Held[z]
  BY <1>2, HeldElse
<1>4. Held = [z \in Lists |-> Held[z]] /\ Held' = [z \in Lists |-> Held'[z]]
  BY HeldIs DEF Held
<1> QED
  BY <1>2, <1>3, <1>4

(* What each place holds.                                                  *)
LEMMA HeldAre ==
    /\ Held[<<Net, "called">>] = called /\ Held[<<Net, "completed">>] = m_completed_jobs
    /\ Held[<<Net, "blocked">>] = fence.m_blocked_jobs
    /\ Held[<<Net, "generic">>] = m_queued_jobs["generic"]
    /\ Held[<<Net, "hash">>] = m_queued_jobs["hash"]
    /\ \A u \in Threads : /\ Held[<<u, "jobs">>] = thr[u].jobs /\ Held[<<u, "new">>] = thr[u].new
                          /\ Held[<<u, "failed">>] = thr[u].failed
  BY HeldIs DEF Held

(* What each place holds after a step.                                     *)
LEMMA HeldAreNext ==
    /\ Held'[<<Net, "called">>] = called' /\ Held'[<<Net, "completed">>] = m_completed_jobs'
    /\ Held'[<<Net, "blocked">>] = fence'.m_blocked_jobs
    /\ Held'[<<Net, "generic">>] = m_queued_jobs'["generic"]
    /\ Held'[<<Net, "hash">>] = m_queued_jobs'["hash"]
    /\ \A u \in Threads : /\ Held'[<<u, "jobs">>] = thr'[u].jobs /\ Held'[<<u, "new">>] = thr'[u].new
                          /\ Held'[<<u, "failed">>] = thr'[u].failed
    /\ Held' = [z \in Lists |-> Held'[z]]
  BY HeldIs DEF Held

(* The two lists that change exchange jobs.                                *)
Exchanges(x, y) ==
    \/ /\ Held'[x] = <<>> /\ Held'[y] = Held[y] \o Held[x]
    \/ /\ Held[x] # <<>> /\ Held'[x] = Tail(Held[x]) /\ Held[y] = <<>> /\ Held'[y] = <<Head(Held[x])>>

(* A step that moves jobs between two lists keeps every job in one place.  *)
LEMMA ListMoves ==
    ASSUME ListTypes, OnePlace(Held), NEW t, NEW h, NEW x, NEW y, x \in Lists, y \in Lists, x # y,
           ChangesOnly(t, h, {x, y}), Exchanges(x, y)
    PROVE  OnePlace(Held') /\ JobsIn(Held') = JobsIn(Held)
<1>1. PICK S, T : S = Held /\ T = Held'
  OBVIOUS
<1>2. S \in [Lists -> Seq(Jobs)]
  BY <1>1, HeldType
<1>3. \A z \in Lists : z # x /\ z # y => T[z] = S[z]
  <2>1. PICK X : X = {x, y} /\ ChangesOnly(t, h, X)
    OBVIOUS
  <2>2. \A z \in Lists : z \notin X => Held'[z] = Held[z]
    BY <2>1, HeldElse
  <2> QED
    BY <1>1, <2>1, <2>2
<1>4. T = [z \in Lists |-> T[z]]
  BY <1>1, HeldAreNext
<1>5. CASE T[x] = <<>> /\ T[y] = S[y] \o S[x]
  <2>1. T[x] \in Seq(Jobs) /\ T[y] \in Seq(Jobs)
    BY <1>2, <1>5, ConcatProperties
  <2>2. \A z \in Lists : T[z] \in Seq(Jobs)
    BY <1>2, <1>3, <2>1
  <2>3. T \in [Lists -> Seq(Jobs)]
    BY <1>4, <2>2
  <2>4. (OnePlace(S) => OnePlace(T)) /\ JobsIn(T) = JobsIn(S)
    <3>1. MovedAll(S, T, Lists, x, y)
      BY <1>2, <1>3, <1>5, <2>3 DEF MovedAll
    <3> QED
      BY <3>1, WholeMoveKeeps
  <2> QED
    BY <1>1, <2>4
<1>6. CASE S[x] # <<>> /\ T[x] = Tail(S[x]) /\ S[y] = <<>> /\ T[y] = <<Head(S[x])>>
  <2>1. T[x] \in Seq(Jobs) /\ T[y] \in Seq(Jobs)
    <3>1. PICK a \in Seq(Jobs) : a = S[x]
      BY <1>2
    <3>2. Tail(a) \in Seq(Jobs) /\ <<Head(a)>> \in Seq(Jobs)
      BY <1>6, <3>1
    <3> QED
      BY <1>6, <3>1, <3>2
  <2>2. \A z \in Lists : T[z] \in Seq(Jobs)
    BY <1>2, <1>3, <2>1
  <2>3. T \in [Lists -> Seq(Jobs)]
    BY <1>4, <2>2
  <2>4. (OnePlace(S) => OnePlace(T)) /\ JobsIn(T) = JobsIn(S)
    <3>1. MovedHead(S, T, Lists, x, y)
      BY <1>2, <1>3, <1>6, <2>3 DEF MovedHead
    <3> QED
      BY <3>1, HeadMoveKeeps
  <2> QED
    BY <1>1, <2>4
<1> QED
  BY <1>1, <1>5, <1>6 DEF Exchanges

(* Two positions that hold the same job are the same.                      *)
LEMMA SameJob ==
    ASSUME ListTypes, OnePlace(Held), NEW x, NEW y, x \in Lists, y \in Lists, NEW j,
           j \in ToSet(Held[x]), j \in ToSet(Held[y])
    PROVE  x = y
<1>1. DOMAIN Held = Lists
  BY HeldType
<1>2. PICK i \in DOMAIN Held[x] : j = Held[x][i]
  BY DEF ToSet
<1>3. PICK k \in DOMAIN Held[y] : j = Held[y][k]
  BY DEF ToSet
<1> QED
  BY <1>1, <1>2, <1>3 DEF OnePlace

(* A thread has in its hands jobs that nobody else has.                    *)
LEMMA Alone ==
    ASSUME ListTypes, OnePlace(Held), NEW t, t \in Threads, NEW j, j \in ToSet(thr[t].jobs)
    PROVE  /\ j \notin Blocked /\ j \notin Queued /\ j \notin ToSet(called)
           /\ j \notin ToSet(m_completed_jobs)
           /\ \A u \in Threads : j \notin ToSet(thr[u].new) /\ j \notin ToSet(thr[u].failed)
           /\ \A u \in Threads : u # t => j \notin ToSet(thr[u].jobs)
<1>1. <<t, "jobs">> \in Lists /\ j \in ToSet(Held[<<t, "jobs">>])
  BY HeldAre, ListsAre
<1>2. \A y \in Lists : j \in ToSet(Held[y]) => y = <<t, "jobs">>
  BY <1>1, SameJob
<1>3. /\ <<Net, "called">> \in Lists /\ <<Net, "completed">> \in Lists /\ <<Net, "blocked">> \in Lists
      /\ <<Net, "generic">> \in Lists /\ <<Net, "hash">> \in Lists
  BY ListsAre
<1>4. j \notin Blocked /\ j \notin Queued /\ j \notin ToSet(called) /\ j \notin ToSet(m_completed_jobs)
  <2>1. /\ <<Net, "called">> # <<t, "jobs">> /\ <<Net, "completed">> # <<t, "jobs">>
        /\ <<Net, "blocked">> # <<t, "jobs">> /\ <<Net, "generic">> # <<t, "jobs">>
        /\ <<Net, "hash">> # <<t, "jobs">>
    OBVIOUS
  <2> QED
    BY <1>2, <1>3, <2>1, HeldAre DEF Blocked, Queued
<1>5. ASSUME NEW u \in Threads
      PROVE  j \notin ToSet(thr[u].new) /\ j \notin ToSet(thr[u].failed)
  <2>1. <<u, "new">> \in Lists /\ <<u, "failed">> \in Lists
    BY ListsAre
  <2>2. <<u, "new">> # <<t, "jobs">> /\ <<u, "failed">> # <<t, "jobs">>
    OBVIOUS
  <2> QED
    BY <1>2, <2>1, <2>2, HeldAre
<1>6. ASSUME NEW u \in Threads, u # t
      PROVE  j \notin ToSet(thr[u].jobs)
  <2>1. <<u, "jobs">> \in Lists
    BY ListsAre
  <2>2. <<u, "jobs">> # <<t, "jobs">>
    BY <1>6
  <2> QED
    BY <1>2, <2>1, <2>2, HeldAre
<1> QED
  BY <1>4, <1>5, <1>6

(* What is still to complete of a pass is part of it.                      *)
LEMMA TodoInJobs ==
    ASSUME NEW t, NEW h, h \in ThreadState, InShape(t, h)
    PROVE  ToSet(h.todo) \subseteq ToSet(h.jobs)
<1>1. PICK n \in 0..Len(h.jobs) : h.todo = SubSeq(h.jobs, n + 1, Len(h.jobs))
  BY DEF InShape
<1> DEFINE s == h.jobs
           r == h.todo
<1>2. s \in Seq(Jobs) /\ r \in Seq(Jobs) /\ Len(s) \in Nat /\ n \in Nat /\ n <= Len(s)
  BY ThreadStateIs
<1>3. r = SubSeq(s, n + 1, Len(s))
  BY <1>1
<1> HIDE DEF s, r
<1>4. Len(r) = Len(s) - n /\ \A i \in 1..Len(r) : r[i] = s[i + n]
  BY <1>2, <1>3
<1>5. DOMAIN r = 1..Len(r) /\ DOMAIN s = 1..Len(s)
  BY <1>2
<1>6. \A i \in 1..Len(r) : i + n \in 1..Len(s)
  BY <1>2, <1>4
<1>7. \A j \in ToSet(r) : j \in ToSet(s)
  BY <1>4, <1>5, <1>6 DEF ToSet
<1> QED
  BY <1>7 DEF s, r

-----------------------------------------------------------------------------
(***************************************************************************)
(* The jobs the fence has let through, and those without a result.         *)
(***************************************************************************)
OthersActive(t) == UNION {ActiveOf(thr[u]) : u \in Threads \ {t}}
OthersWaiting(t) == UNION {WaitingOf(thr[u]) : u \in Threads \ {t}}

(* The active and the waiting jobs, with those of thread t apart.          *)
LEMMA OneThread ==
    ASSUME NEW t, NEW h, Becomes(t, h)
    PROVE  /\ Active = Queued \union ActiveOf(thr[t]) \union OthersActive(t)
           /\ Active' = Queued' \union ActiveOf(h) \union OthersActive(t)
           /\ Waiting = Blocked \union Queued \union WaitingOf(thr[t]) \union OthersWaiting(t)
           /\ Waiting' = Blocked' \union Queued' \union WaitingOf(h) \union OthersWaiting(t)
<1>1. t \in Threads /\ thr'[t] = h /\ \A u \in Threads \ {t} : thr'[u] = thr[u]
  BY DEF Becomes
<1>2. UNION {ActiveOf(thr[u]) : u \in Threads} = ActiveOf(thr[t]) \union OthersActive(t)
  BY <1>1 DEF OthersActive
<1>3. UNION {ActiveOf(thr'[u]) : u \in Threads} = ActiveOf(h) \union OthersActive(t)
  BY <1>1 DEF OthersActive
<1>4. UNION {WaitingOf(thr[u]) : u \in Threads} = WaitingOf(thr[t]) \union OthersWaiting(t)
  BY <1>1 DEF OthersWaiting
<1>5. UNION {WaitingOf(thr'[u]) : u \in Threads} = WaitingOf(h) \union OthersWaiting(t)
  BY <1>1 DEF OthersWaiting
<1> QED
  BY <1>2, <1>3, <1>4, <1>5 DEF Active, Waiting

(* Nobody else has anything to do with a job in the hands of t.            *)
LEMMA OthersAreElsewhere ==
    ASSUME ListTypes, ThreadShape, OnePlace(Held), NEW t, t \in Threads, NEW j, j \in ToSet(thr[t].jobs)
    PROVE  j \notin OthersActive(t) /\ j \notin OthersWaiting(t)
<1>1. ASSUME NEW u \in Threads, u # t
      PROVE  j \notin ActiveOf(thr[u]) /\ j \notin WaitingOf(thr[u])
  <2>1. j \notin ToSet(thr[u].new) /\ j \notin ToSet(thr[u].failed) /\ j \notin ToSet(thr[u].jobs)
    BY <1>1, Alone
  <2>2. ToSet(thr[u].todo) \subseteq ToSet(thr[u].jobs)
    BY TodoInJobs DEF ListTypes, ThreadShape
  <2> QED
    BY <2>1, <2>2 DEF ActiveOf, WaitingOf
<1> QED
  BY <1>1 DEF OthersActive, OthersWaiting

-----------------------------------------------------------------------------
(***************************************************************************)
(* The storage's fence as an instance of DiskJobFence.                     *)
(***************************************************************************)
Ticket(r) == [j \in Jobs |-> IF j \in ToSet(r) THEN CHOOSE i \in DOMAIN r : r[i] = j ELSE 0]

F == INSTANCE DiskJobFenceProofs WITH
    fences <- FenceJobs \intersect ToSet(reached),
    in_progress <- Active,
    done <- ToSet(reached) \ (Active \union Blocked),
    ticket <- [j \in Jobs |-> IF j \in ToSet(reached) THEN CHOOSE i \in DOMAIN reached : reached[i] = j
                              ELSE 0],
    issued <- Len(reached)

(* The assumption of DiskJobFence holds of the jobs of the disk I/O.       *)
LEMMA JobsAreFinite == F!IsFiniteSet(Jobs)
  BY DiskAssumption DEF F!IsFiniteSet, IsFiniteSet

(* A ticket is the position in the list of jobs that reached the fence.    *)
LEMMA TicketIs ==
    ASSUME NEW r, r \in Seq(Jobs), IsInjective(r)
    PROVE  /\ \A i \in DOMAIN r : Ticket(r)[r[i]] = i
           /\ \A j \in Jobs : j \notin ToSet(r) => Ticket(r)[j] = 0
           /\ \A j \in Jobs : j \in ToSet(r) => Ticket(r)[j] \in DOMAIN r /\ r[Ticket(r)[j]] = j
           /\ DOMAIN Ticket(r) = Jobs
<1>1. DOMAIN r = 1..Len(r) /\ \A i \in DOMAIN r : r[i] \in Jobs /\ r[i] \in ToSet(r)
  BY DEF ToSet
<1>2. ASSUME NEW i \in DOMAIN r PROVE Ticket(r)[r[i]] = i
  <2>1. Ticket(r)[r[i]] = CHOOSE k \in DOMAIN r : r[k] = r[i]
    BY <1>1 DEF Ticket
  <2>2. (CHOOSE k \in DOMAIN r : r[k] = r[i]) = i
    <3>1. \A k \in DOMAIN r : r[k] = r[i] => k = i
      BY DEF IsInjective
    <3> QED
      BY <3>1
  <2> QED
    BY <2>1, <2>2
<1>3. \A j \in Jobs : j \notin ToSet(r) => Ticket(r)[j] = 0
  BY DEF Ticket
<1>4. DOMAIN Ticket(r) = Jobs
  BY DEF Ticket
<1>5. ASSUME NEW j \in Jobs, j \in ToSet(r)
      PROVE  Ticket(r)[j] \in DOMAIN r /\ r[Ticket(r)[j]] = j
  <2>1. PICK i \in DOMAIN r : r[i] = j
    BY <1>5 DEF ToSet
  <2> QED
    BY <1>2, <2>1
<1> QED
  BY <1>2, <1>3, <1>4, <1>5

(* A job that joins a sequence it is not in.                               *)
LEMMA JoinIs ==
    ASSUME NEW r, r \in Seq(Jobs), NEW j, j \in Jobs
    PROVE  /\ Append(r, j) \in Seq(Jobs) /\ Len(Append(r, j)) = Len(r) + 1
           /\ DOMAIN Append(r, j) = 1..(Len(r) + 1) /\ DOMAIN r = 1..Len(r) /\ Len(r) \in Nat
           /\ Append(r, j)[Len(r) + 1] = j
           /\ \A i \in 1..Len(r) : Append(r, j)[i] = r[i]
           /\ ToSet(Append(r, j)) = ToSet(r) \union {j}
           /\ IsInjective(r) /\ j \notin ToSet(r) => IsInjective(Append(r, j))
<1> DEFINE a == Append(r, j)
<1>1. /\ a \in Seq(Jobs) /\ Len(a) = Len(r) + 1 /\ a[Len(r) + 1] = j
      /\ \A i \in 1..Len(r) : a[i] = r[i]
  BY AppendProperties
<1>2. DOMAIN a = 1..(Len(r) + 1) /\ DOMAIN r = 1..Len(r) /\ Len(r) \in Nat
  BY <1>1
<1> HIDE DEF a
<1>3. ToSet(a) = ToSet(r) \union {j}
  BY <1>1, <1>2 DEF ToSet
<1>4. ASSUME IsInjective(r), j \notin ToSet(r) PROVE IsInjective(a)
  <2>1. \A i \in 1..Len(r) : r[i] # j
    BY <1>2, <1>4 DEF ToSet
  <2>2. \A i, k \in 1..Len(r) : r[i] = r[k] => i = k
    BY <1>2, <1>4 DEF IsInjective
  <2> QED
    BY <1>1, <1>2, <2>1, <2>2 DEF IsInjective
<1> QED
  BY <1>1, <1>2, <1>3, <1>4 DEF a

(* The job that reaches the fence gets the next ticket.                    *)
LEMMA TicketJoin ==
    ASSUME NEW r, r \in Seq(Jobs), IsInjective(r), NEW j, j \in Jobs, j \notin ToSet(r)
    PROVE  Ticket(Append(r, j)) = [Ticket(r) EXCEPT ![j] = Len(r) + 1]
<1> DEFINE a == Append(r, j)
<1>1. /\ a \in Seq(Jobs) /\ IsInjective(a) /\ DOMAIN a = 1..(Len(r) + 1) /\ DOMAIN r = 1..Len(r)
      /\ a[Len(r) + 1] = j /\ ToSet(a) = ToSet(r) \union {j} /\ Len(r) \in Nat
      /\ \A i \in 1..Len(r) : a[i] = r[i]
  BY JoinIs
<1> HIDE DEF a
<1>2. Ticket(a)[j] = Len(r) + 1
  BY <1>1, TicketIs
<1>3. ASSUME NEW k \in Jobs, k # j PROVE Ticket(a)[k] = Ticket(r)[k]
  <2>1. CASE k \in ToSet(r)
    <3>1. Ticket(r)[k] \in DOMAIN r /\ r[Ticket(r)[k]] = k
      BY <2>1, TicketIs
    <3>2. PICK i \in 1..Len(r) : i = Ticket(r)[k] /\ r[i] = k
      BY <1>1, <3>1
    <3>3. i \in DOMAIN a /\ a[i] = k
      BY <1>1, <3>2
    <3>4. Ticket(a)[k] = i
      BY <1>1, <3>3, TicketIs
    <3> QED
      BY <3>2, <3>4
  <2>2. CASE k \notin ToSet(r)
    BY <1>1, <1>3, <2>2, TicketIs
  <2> QED
    BY <2>1, <2>2
<1>4. DOMAIN Ticket(a) = Jobs /\ DOMAIN Ticket(r) = Jobs
  BY <1>1, TicketIs
<1>5. Ticket(a) = [k \in Jobs |-> Ticket(a)[k]] /\ Ticket(r) = [k \in Jobs |-> Ticket(r)[k]]
  BY DEF Ticket
<1> HIDE DEF Ticket
<1>6. Ticket(a) = [Ticket(r) EXCEPT ![j] = Len(r) + 1]
  BY <1>2, <1>3, <1>4, <1>5
<1> QED
  BY <1>6 DEF a

(* A step that leaves the fence alone is a stuttering step of it.          *)
LEMMA FenceUntouched ==
    ASSUME UNCHANGED fenceVars, Active' = Active
    PROVE  UNCHANGED F!vars
<1>1. Blocked' = Blocked /\ reached' = reached /\ fence' = fence
  BY DEF fenceVars, Blocked
<1> QED
  BY <1>1 DEF F!vars

(* The fence operators of the instance are those of JobFence.              *)
LEMMA FenceOperators ==
    ASSUME NEW f, NEW j, NEW S, NEW s
    PROVE  /\ F!Admits(f) = Admits(f) /\ F!PostsFence(f) = PostsFence(f)
           /\ F!AfterIsBlocked(f, j) = AfterIsBlocked(f, j)
           /\ F!AfterRaiseFence(f, j) = AfterRaiseFence(f, j)
           /\ F!JobComplete(f, j, S, s) = JobComplete(f, j, S, s)
           /\ F!LeadingJobs(s, S) = LeadingJobs(s, S)
<1>1. F!Admits(f) = Admits(f) /\ F!PostsFence(f) = PostsFence(f)
  BY DEF Admits, F!Admits, PostsFence, F!PostsFence
<1>2. /\ F!AfterIsBlocked(f, j) = AfterIsBlocked(f, j)
      /\ F!AfterRaiseFence(f, j) = AfterRaiseFence(f, j)
  BY <1>1 DEF AfterIsBlocked, F!AfterIsBlocked, AfterRaiseFence, F!AfterRaiseFence
<1>3. F!JobComplete(f, j, S, s) = JobComplete(f, j, S, s)
  BY DEF JobComplete, F!JobComplete, Released, F!Released, LeadingJobs, F!LeadingJobs
<1>4. F!LeadingJobs(s, S) = LeadingJobs(s, S)
  BY DEF LeadingJobs, F!LeadingJobs
<1> QED
  BY <1>1, <1>2, <1>3, <1>4

(* A job reaches the fence.                                                *)
LEMMA JobReaches ==
    ASSUME reached \in Seq(Jobs), IsInjective(reached), NEW j, j \in Jobs, j \notin ToSet(reached),
           reached' = Append(reached, j),
           Active \union Blocked \subseteq ToSet(reached),
           Active' \union Blocked' = Active \union Blocked \union {j}
    PROVE  /\ F!Issue(j)
           /\ ToSet(reached') \ (Active' \union Blocked') = ToSet(reached) \ (Active \union Blocked)
           /\ FenceJobs \intersect ToSet(reached')
                = (FenceJobs \intersect ToSet(reached)) \union (FenceJobs \intersect {j})
<1>1. ToSet(reached') = ToSet(reached) \union {j} /\ Len(reached') = Len(reached) + 1
  BY JoinIs
<1>2. Ticket(reached') = [Ticket(reached) EXCEPT ![j] = Len(reached) + 1]
  BY TicketJoin
<1>3. Ticket(reached)[j] = 0
  BY TicketIs
<1>4. F!Issue(j)
  BY <1>1, <1>2, <1>3 DEF F!Issue, Ticket
<1> QED
  BY <1>1, <1>4

(* is_blocked of the storage is IsBlocked of the fence.                    *)
LEMMA FenceSeesJob ==
    ASSUME reached \in Seq(Jobs), IsInjective(reached), NEW j, j \in Jobs, j \notin ToSet(reached),
           reached' = Append(reached, j), j \notin FenceJobs,
           Active \union Blocked \subseteq ToSet(reached),
           fence \in FenceObject(Jobs), fence' = AfterIsBlocked(fence, j),
           Active' = IF Admits(fence) THEN Active \union {j} ELSE Active
    PROVE  F!IsBlocked(j) /\ Blocked' = IF Admits(fence) THEN Blocked ELSE Blocked \union {j}
<1>1. Blocked' = IF Admits(fence) THEN Blocked ELSE Blocked \union {j}
  <2>1. fence.m_blocked_jobs \in Seq(Jobs)
    BY DEF FenceObject
  <2>2. CASE Admits(fence)
    <3>1. fence'.m_blocked_jobs = fence.m_blocked_jobs
      BY <2>2 DEF AfterIsBlocked, FenceObject
    <3> QED
      BY <2>2, <3>1 DEF Blocked
  <2>3. CASE ~ Admits(fence)
    <3>1. fence'.m_blocked_jobs = Append(fence.m_blocked_jobs, j)
      BY <2>3 DEF AfterIsBlocked, FenceObject
    <3>2. ToSet(Append(fence.m_blocked_jobs, j)) = ToSet(fence.m_blocked_jobs) \union {j}
      BY <2>1, JoinIs
    <3> QED
      BY <2>3, <3>1, <3>2 DEF Blocked
  <2> QED
    BY <2>2, <2>3
<1>2. Active' \union Blocked' = Active \union Blocked \union {j}
  BY <1>1
<1>3. /\ F!Issue(j)
      /\ ToSet(reached') \ (Active' \union Blocked') = ToSet(reached) \ (Active \union Blocked)
      /\ FenceJobs \intersect ToSet(reached')
           = (FenceJobs \intersect ToSet(reached)) \union (FenceJobs \intersect {j})
  BY <1>2, JobReaches
<1>4. FenceJobs \intersect ToSet(reached') = FenceJobs \intersect ToSet(reached)
  BY <1>3
<1> QED
  BY <1>1, <1>3, <1>4, FenceOperators DEF F!IsBlocked

(* raise_fence of the storage is RaiseFence of the fence.                  *)
LEMMA FenceSeesFenceJob ==
    ASSUME reached \in Seq(Jobs), IsInjective(reached), NEW j, j \in Jobs, j \notin ToSet(reached),
           reached' = Append(reached, j), j \in FenceJobs,
           Active \union Blocked \subseteq ToSet(reached),
           fence \in FenceObject(Jobs), fence' = AfterRaiseFence(fence, j),
           Active' = IF PostsFence(fence) THEN Active \union {j} ELSE Active
    PROVE  F!RaiseFence(j) /\ Blocked' = IF PostsFence(fence) THEN Blocked ELSE Blocked \union {j}
<1>1. Blocked' = IF PostsFence(fence) THEN Blocked ELSE Blocked \union {j}
  <2>1. fence.m_blocked_jobs \in Seq(Jobs)
    BY DEF FenceObject
  <2>2. CASE PostsFence(fence)
    <3>1. fence'.m_blocked_jobs = fence.m_blocked_jobs
      BY <2>2 DEF AfterRaiseFence, FenceObject
    <3> QED
      BY <2>2, <3>1 DEF Blocked
  <2>3. CASE ~ PostsFence(fence)
    <3>1. fence'.m_blocked_jobs = Append(fence.m_blocked_jobs, j)
      BY <2>3 DEF AfterRaiseFence, FenceObject
    <3>2. ToSet(Append(fence.m_blocked_jobs, j)) = ToSet(fence.m_blocked_jobs) \union {j}
      BY <2>1, JoinIs
    <3> QED
      BY <2>3, <3>1, <3>2 DEF Blocked
  <2> QED
    BY <2>2, <2>3
<1>2. Active' \union Blocked' = Active \union Blocked \union {j}
  BY <1>1
<1>3. /\ F!Issue(j)
      /\ ToSet(reached') \ (Active' \union Blocked') = ToSet(reached) \ (Active \union Blocked)
      /\ FenceJobs \intersect ToSet(reached')
           = (FenceJobs \intersect ToSet(reached)) \union (FenceJobs \intersect {j})
  BY <1>2, JobReaches
<1>4. FenceJobs \intersect ToSet(reached') = (FenceJobs \intersect ToSet(reached)) \union {j}
  BY <1>3
<1> QED
  BY <1>1, <1>3, <1>4, FenceOperators DEF F!RaiseFence

(* LeadingJobs counts the jobs in front of the first one in S.             *)
LEMMA LeadingJobsAre ==
    ASSUME NEW B, B \in Seq(Jobs), NEW S
    PROVE  /\ LeadingJobs(B, S) \in 0..Len(B) /\ \A i \in 1..LeadingJobs(B, S) : B[i] \notin S
           /\ LeadingJobs(B, S) < Len(B) => B[LeadingJobs(B, S) + 1] \in S
<1>1. /\ F!LeadingJobs(B, S) \in 0..Len(B) /\ \A i \in 1..F!LeadingJobs(B, S) : B[i] \notin S
      /\ F!LeadingJobs(B, S) < Len(B) => B[F!LeadingJobs(B, S) + 1] \in S
  BY F!LeadingJobsFound, JobsAreFinite, Zenon
<1>2. F!LeadingJobs(B, S) = LeadingJobs(B, S)
  BY FenceOperators
<1> QED
  BY <1>1, <1>2, Zenon

(* What job_complete releases does not depend on what the caller has       *)
(* collected: the fence job it would release first has been alone.         *)
LEMMA ReleaseIs ==
    ASSUME F!IInv, NEW j, j \in Active, NEW s, s \in Seq(Jobs), ToSet(s) \subseteq Active \ {j},
           Active \union Blocked \subseteq ToSet(reached)
    PROVE  LET B == fence.m_blocked_jobs
               n == Released(fence, j \in FenceJobs, FenceJobs, fence.m_outstanding_jobs - 1, s)
           IN  /\ n = F!Released(fence, j \in FenceJobs \intersect ToSet(reached),
                                 FenceJobs \intersect ToSet(reached), fence.m_outstanding_jobs - 1, <<>>)
               /\ B \in Seq(Jobs) /\ n \in 0..Len(B)
<1> DEFINE B == fence.m_blocked_jobs
           R == FenceJobs \intersect ToSet(reached)
           o == fence.m_outstanding_jobs - 1
           n == Released(fence, j \in FenceJobs, FenceJobs, o, s)
           m == F!Released(fence, j \in R, R, o, <<>>)
<1>1. B \in Seq(Jobs)
  BY DEF F!IInv, F!TypeOK, F!FenceObject
<1>2. m \in 0..Len(B)
  BY F!CompleteReleases, JobsAreFinite
<1>3. LeadingJobs(B, FenceJobs) = LeadingJobs(B, R)
  <2> DEFINE k == LeadingJobs(B, FenceJobs)
             l == LeadingJobs(B, R)
  <2>1. /\ k \in 0..Len(B) /\ \A i \in 1..k : B[i] \notin FenceJobs
        /\ k < Len(B) => B[k + 1] \in FenceJobs
    BY <1>1, LeadingJobsAre
  <2>2. /\ l \in 0..Len(B) /\ \A i \in 1..l : B[i] \notin R
        /\ l < Len(B) => B[l + 1] \in R
    BY <1>1, LeadingJobsAre
  <2>3. \A i \in 1..Len(B) : B[i] \in ToSet(reached)
    <3>1. ToSet(B) \subseteq ToSet(reached) /\ DOMAIN B = 1..Len(B)
      BY <1>1 DEF Blocked
    <3>2. \A i \in DOMAIN B : B[i] \in ToSet(B)
      BY DEF ToSet
    <3> HIDE DEF B
    <3> QED
      BY <3>1, <3>2
  <2> HIDE DEF k, l, B
  <2>4. Len(B) \in Nat
    BY <1>1
  <2>5. \A i \in 1..Len(B) : B[i] \in FenceJobs <=> B[i] \in R
    BY <2>3
  <2> HIDE DEF R
  <2>6. ~ (k < l)
    <3> SUFFICES ASSUME k < l PROVE FALSE
      OBVIOUS
    <3>1. k + 1 \in 1..Len(B) /\ k + 1 \in 1..l /\ k < Len(B)
      BY <2>1, <2>2, <2>4
    <3> QED
      BY <2>1, <2>2, <2>5, <3>1
  <2>7. ~ (l < k)
    <3> SUFFICES ASSUME l < k PROVE FALSE
      OBVIOUS
    <3>1. l + 1 \in 1..Len(B) /\ l + 1 \in 1..k /\ l < Len(B)
      BY <2>1, <2>2, <2>4
    <3> QED
      BY <2>1, <2>2, <2>5, <3>1
  <2>8. k = l
    BY <2>1, <2>2, <2>4, <2>6, <2>7
  <2> QED
    BY <2>8 DEF k, l
<1>4. j \in R <=> j \in FenceJobs
  OBVIOUS
<1>5. j \in R => s = <<>>
  <2>1. j \in R => Active = {j}
    BY DEF F!IInv, F!FenceExclusive
  <2>2. Active = {j} => ToSet(s) = {}
    OBVIOUS
  <2>3. ToSet(s) = {} => s = <<>>
    BY DEF ToSet
  <2> QED
    BY <2>1, <2>2, <2>3
<1>6. n = m
  <2>1. F!LeadingJobs(B, R) = LeadingJobs(B, FenceJobs)
    BY <1>3, FenceOperators
  <2> HIDE DEF R, o
  <2>2. CASE j \in FenceJobs
    BY <1>4, <1>5, <2>1, <2>2 DEF Released, F!Released
  <2>3. CASE j \notin FenceJobs
    BY <1>4, <2>3 DEF Released, F!Released
  <2> QED
    BY <2>2, <2>3
<1> QED
  BY <1>1, <1>2, <1>6

(* The two halves of a list have its jobs.                                 *)
LEMMA SplitIs ==
    ASSUME NEW B, B \in Seq(Jobs), NEW n, n \in 0..Len(B)
    PROVE  /\ SubSeq(B, 1, n) \in Seq(Jobs) /\ SubSeq(B, n + 1, Len(B)) \in Seq(Jobs)
           /\ ToSet(SubSeq(B, 1, n)) \union ToSet(SubSeq(B, n + 1, Len(B))) = ToSet(B)
<1> DEFINE b == SubSeq(B, 1, n)
           c == SubSeq(B, n + 1, Len(B))
<1>1. /\ b \in Seq(Jobs) /\ Len(b) = n /\ \A i \in 1..n : b[i] = B[i]
      /\ c \in Seq(Jobs) /\ Len(c) = Len(B) - n /\ \A i \in 1..(Len(B) - n) : c[i] = B[i + n]
      /\ n \in Nat /\ Len(B) \in Nat /\ n <= Len(B)
  OBVIOUS
<1> HIDE DEF b, c
<1>2. /\ DOMAIN b = 1..n /\ DOMAIN c = 1..(Len(B) - n) /\ DOMAIN B = 1..Len(B)
  BY <1>1
<1>3. \A i \in 1..Len(B) : i <= n \/ i - n \in 1..(Len(B) - n)
  BY <1>1
<1>4. ASSUME NEW x \in ToSet(B) PROVE x \in ToSet(b) \union ToSet(c)
  <2>1. PICK i \in 1..Len(B) : x = B[i]
    BY <1>2, <1>4 DEF ToSet
  <2>2. CASE i <= n
    <3>1. i \in 1..n /\ b[i] = B[i]
      BY <1>1, <2>2
    <3> QED
      BY <1>2, <2>1, <3>1 DEF ToSet
  <2>3. CASE ~ (i <= n)
    <3>1. PICK k \in 1..(Len(B) - n) : k = i - n
      BY <1>3, <2>3
    <3>2. c[k] = B[i]
      BY <1>1, <3>1
    <3> QED
      BY <1>2, <2>1, <3>1, <3>2 DEF ToSet
  <2> QED
    BY <2>2, <2>3
<1>5. ASSUME NEW x \in ToSet(b) \union ToSet(c) PROVE x \in ToSet(B)
  <2>1. \A i \in 1..n : i \in 1..Len(B)
    BY <1>1
  <2>2. \A i \in 1..(Len(B) - n) : i + n \in 1..Len(B)
    BY <1>1
  <2>3. CASE x \in ToSet(b)
    <3>1. PICK i \in 1..n : x = b[i]
      BY <1>2, <2>3 DEF ToSet
    <3>2. i \in 1..Len(B) /\ x = B[i]
      BY <1>1, <2>1, <3>1
    <3> QED
      BY <1>2, <3>2 DEF ToSet
  <2>4. CASE x \in ToSet(c)
    <3>1. PICK i \in 1..(Len(B) - n) : x = c[i]
      BY <1>2, <2>4 DEF ToSet
    <3>2. i + n \in 1..Len(B) /\ x = B[i + n]
      BY <1>1, <2>2, <3>1
    <3> QED
      BY <1>2, <3>2 DEF ToSet
  <2> QED
    BY <1>5, <2>3, <2>4
<1> QED
  BY <1>1, <1>4, <1>5 DEF b, c

(* job_complete of the storage is Complete of the fence.                   *)
LEMMA FenceSeesCompletion ==
    ASSUME F!IInv, NEW j, j \in Active, NEW s, s \in Seq(Jobs), ToSet(s) \subseteq Active \ {j},
           Active \union Blocked \subseteq ToSet(reached), reached' = reached,
           NEW n, n = Released(fence, j \in FenceJobs, FenceJobs, fence.m_outstanding_jobs - 1, s),
           fence' = JobComplete(fence, j, FenceJobs, s).fence,
           Active' = (Active \ {j}) \union ToSet(SubSeq(fence.m_blocked_jobs, 1, n))
    PROVE  F!Complete(j)
<1> DEFINE B == fence.m_blocked_jobs
           R == FenceJobs \intersect ToSet(reached)
           o == fence.m_outstanding_jobs - 1
           b == SubSeq(B, 1, n)
           c == SubSeq(B, n + 1, Len(B))
           r == F!JobComplete(fence, j, R, <<>>)
<1>1. n = F!Released(fence, j \in R, R, o, <<>>) /\ B \in Seq(Jobs) /\ n \in 0..Len(B)
  BY ReleaseIs
<1>2. j \in R <=> j \in FenceJobs
  OBVIOUS
<1>3. b \in Seq(Jobs) /\ c \in Seq(Jobs) /\ ToSet(b) \union ToSet(c) = ToSet(B)
  BY <1>1, SplitIs
<1>4. /\ fence' = [m_has_fence |-> IF j \in FenceJobs THEN fence.m_has_fence - 1 ELSE fence.m_has_fence,
                   m_outstanding_jobs |-> o + n, m_blocked_jobs |-> c]
  BY DEF JobComplete
<1>5. /\ r.fence = [m_has_fence |-> IF j \in R THEN fence.m_has_fence - 1 ELSE fence.m_has_fence,
                    m_outstanding_jobs |-> o + n, m_blocked_jobs |-> c]
      /\ r.jobs = IF j \in R THEN <<>> \o b ELSE b \o <<>>
  BY <1>1 DEF F!JobComplete
<1>6. r.fence = fence' /\ Blocked' = ToSet(c)
  <2>1. fence'.m_blocked_jobs = c
    <3> HIDE DEF c, o
    <3> QED
      BY <1>4
  <2>2. r.fence = fence'
    <3> HIDE DEF r, c, o, R
    <3> QED
      BY <1>2, <1>4, <1>5
  <2> QED
    BY <2>1, <2>2 DEF Blocked
<1>7. r.jobs = b
  <2> HIDE DEF b, r
  <2>1. <<>> \o b = b /\ b \o <<>> = b
    BY <1>3
  <2> QED
    BY <1>5, <2>1
<1>8. {r.jobs[i] : i \in DOMAIN r.jobs} = ToSet(b)
  BY <1>7 DEF ToSet
<1>9. ToSet(b) \intersect ToSet(c) = {}
  <2>1. \A p, q \in 1..Len(B) : p # q => B[p] # B[q]
    <3> DEFINE T == [k \in Jobs |-> IF k \in ToSet(reached)
                                    THEN CHOOSE i \in DOMAIN reached : reached[i] = k ELSE 0]
    <3>1. \A p, q \in 1..Len(B) : p < q => T[B[p]] < T[B[q]]
      BY DEF F!IInv, F!QueueOrdered
    <3>2. T \in [Jobs -> Nat]
      BY DEF F!IInv, F!TypeOK
    <3>3. \A p \in 1..Len(B) : B[p] \in Jobs
      BY <1>1
    <3>4. \A p \in 1..Len(B) : T[B[p]] \in Nat
      BY <3>2, <3>3
    <3> HIDE DEF T, B
    <3> SUFFICES ASSUME NEW p \in 1..Len(B), NEW q \in 1..Len(B), p < q PROVE B[p] # B[q]
      OBVIOUS
    <3>5. T[B[p]] < T[B[q]] /\ T[B[p]] \in Nat
      BY <3>1, <3>4
    <3> QED
      BY <3>5
  <2> HIDE DEF B
  <2>2. /\ DOMAIN b = 1..n /\ \A i \in 1..n : b[i] = B[i]
        /\ DOMAIN c = 1..(Len(B) - n) /\ \A i \in 1..(Len(B) - n) : c[i] = B[i + n]
        /\ n \in Nat /\ Len(B) \in Nat /\ n <= Len(B)
    BY <1>1, SMTT(30)
  <2> HIDE DEF b, c
  <2>3. ASSUME NEW x \in ToSet(b), x \in ToSet(c) PROVE FALSE
    <3>1. PICK i \in 1..n : x = B[i]
      BY <2>2, ZenonT(30) DEF ToSet
    <3>2. PICK k \in 1..(Len(B) - n) : x = B[k + n]
      BY <2>2, <2>3 DEF ToSet
    <3>3. i \in 1..Len(B) /\ k + n \in 1..Len(B) /\ i # k + n
      BY <2>2
    <3> QED
      BY <2>1, <3>1, <3>2, <3>3
  <2> QED
    BY <2>3
<1>10. /\ j \notin Blocked /\ Blocked = ToSet(b) \union ToSet(c) /\ Active \intersect Blocked = {}
  <2>1. F!Blocked = Blocked
    BY <1>1 DEF F!Blocked, Blocked, ToSet
  <2>2. F!Blocked \intersect Active = {}
    BY DEF F!IInv, F!Placed
  <2>3. Blocked = ToSet(b) \union ToSet(c)
    BY <1>3 DEF Blocked
  <2> QED
    BY <2>1, <2>2, <2>3
<1>11. /\ Active' = (Active \ {j}) \union ToSet(b)
       /\ ToSet(reached') \ (Active' \union Blocked') = (ToSet(reached) \ (Active \union Blocked)) \union {j}
  <2> HIDE DEF b, c
  <2>1. Active' = (Active \ {j}) \union ToSet(b)
    BY DEF b
  <2> QED
    BY <1>6, <1>9, <1>10, <2>1
<1> HIDE DEF b, c, B
<1> QED
  <2>1. fence' = r.fence /\ Active' = (Active \ {j}) \union {r.jobs[i] : i \in DOMAIN r.jobs}
    BY <1>6, <1>8, <1>11
  <2>2. UNCHANGED <<R, Ticket(reached), Len(reached)>>
    OBVIOUS
  <2>3. (ToSet(reached) \ (Active \union Blocked))' = (ToSet(reached) \ (Active \union Blocked)) \union {j}
    BY <1>11
  <2> QED
    BY <2>1, <2>2, <2>3, Zenon DEF F!Complete, Ticket

-----------------------------------------------------------------------------
(***************************************************************************)
(* The inductive invariant.                                                *)
(***************************************************************************)
Results == {"none", "ok", "failed", "aborted"}

Order ==
    /\ IsInjective(issued) /\ IsInjective(reached)
    /\ \A i, k \in DOMAIN reached : i < k =>
          \E a, b \in DOMAIN issued : a < b /\ issued[a] = reached[i] /\ issued[b] = reached[k]
    /\ ToSet(reached) \subseteq ToSet(issued)
    /\ thr[Net].pc = "add" => /\ issued # <<>> /\ issued[Len(issued)] = thr[Net].jobs[1]
                              /\ thr[Net].jobs[1] \notin ToSet(reached)

DInv ==
    /\ ListTypes
    /\ issued \in Seq(Jobs) /\ reached \in Seq(Jobs) /\ ret \in [Jobs -> Results]
    /\ m_completed_jobs # <<>> => m_job_completions_in_flight
    /\ ThreadShape
    /\ OnePlace(Held)
    /\ JobsIn(Held) = ToSet(issued)
    /\ Order
    /\ Active \union Blocked \subseteq ToSet(reached)
    /\ ResultsExact
    /\ F!IInv

FenceStep == F!Next \/ UNCHANGED F!vars

(* A step of the fence keeps the fence's invariant.                        *)
LEMMA FenceStepKeeps ==
    ASSUME F!IInv, FenceStep
    PROVE  F!IInv'
  BY JobsAreFinite, F!NextIInv, Zenon DEF FenceStep

(* What the fence's invariant says of the storage.                         *)
LEMMA FenceFacts ==
    F!IInv /\ reached \in Seq(Jobs) /\ IsInjective(reached) =>
        fence \in FenceObject(Jobs) /\ Active \union Blocked \subseteq ToSet(reached)
<1> SUFFICES ASSUME F!IInv, reached \in Seq(Jobs), IsInjective(reached)
             PROVE  fence \in FenceObject(Jobs) /\ Active \union Blocked \subseteq ToSet(reached)
  OBVIOUS
<1>1. fence \in FenceObject(Jobs)
  BY DEF F!IInv, F!TypeOK, F!FenceObject, FenceObject
<1>2. F!Blocked = Blocked
  <2>1. fence.m_blocked_jobs \in Seq(Jobs)
    BY <1>1 DEF FenceObject
  <2> QED
    BY <2>1 DEF F!Blocked, Blocked, ToSet
<1>3. F!Reached = {j \in Jobs : Ticket(reached)[j] # 0}
  BY DEF F!Reached, Ticket
<1>4. \A j \in Active \union Blocked : j \in Jobs /\ Ticket(reached)[j] # 0
  BY <1>2, <1>3 DEF F!IInv, F!Placed
<1> QED
  BY <1>1, <1>4, TicketIs

(* Steps in which no job is issued and none reaches the fence.             *)
LEMMA StepKeeps ==
    ASSUME DInv, FenceStep, UNCHANGED <<issued, reached>>,
           m_queued_jobs' \in [Pools -> Seq(Jobs)], m_completed_jobs' \in Seq(Jobs), called' \in Seq(Jobs),
           thr' \in [Threads -> ThreadState], ret' \in [Jobs -> Results],
           m_completed_jobs' # <<>> => m_job_completions_in_flight',
           ThreadShape', OnePlace(Held'), JobsIn(Held') = JobsIn(Held), ResultsExact',
           thr'[Net].pc = "add" => thr[Net].pc = "add" /\ thr'[Net].jobs = thr[Net].jobs
    PROVE  DInv'
<1>1. F!IInv'
  BY FenceStepKeeps DEF DInv
<1>2. (reached \in Seq(Jobs))' /\ IsInjective(reached)'
  BY DEF DInv, Order
<1>3. (fence \in FenceObject(Jobs))' /\ (Active \union Blocked \subseteq ToSet(reached))'
  BY <1>1, <1>2, FenceFacts, PTL
<1>4. ListTypes'
  BY <1>3 DEF ListTypes
<1>5. Order'
  BY DEF DInv, Order
<1>6. JobsIn(Held') = ToSet(issued')
  BY DEF DInv
<1>7. OnePlace(Held)' /\ (JobsIn(Held) = ToSet(issued))'
  BY <1>6 DEF OnePlace, JobsIn
<1>8. issued' \in Seq(Jobs)
  BY DEF DInv
<1> QED
  BY <1>1, <1>2, <1>3, <1>4, <1>5, <1>7, <1>8 DEF DInv

(* What a thread has in its hands stays what it was.                       *)
Same(g, h) ==
    /\ h.jobs = g.jobs /\ h.new = g.new /\ h.failed = g.failed
    /\ ActiveOf(h) = ActiveOf(g) /\ WaitingOf(h) = WaitingOf(g)

(* A step in which no list of jobs changes keeps the invariant.            *)
LEMMA QuietStep ==
    ASSUME DInv, UNCHANGED <<fenceVars, m_queued_jobs, postVars, ret, issued>>,
           thr' \in [Threads -> ThreadState],
           \A u \in Threads : Same(thr[u], thr'[u]) /\ InShape(u, thr'[u]),
           thr'[Net].pc = "add" => thr[Net].pc = "add"
    PROVE  DInv' /\ UNCHANGED F!vars
<1>0. Net \in Threads /\ ListTypes
  BY DEF Threads, DInv
<1>1. Active' = Active /\ Waiting' = Waiting
  <2>1. Queued' = Queued /\ Blocked' = Blocked
    BY DEF Queued, Blocked, fenceVars
  <2>2. \A u \in Threads : ActiveOf(thr'[u]) = ActiveOf(thr[u]) /\ WaitingOf(thr'[u]) = WaitingOf(thr[u])
    BY DEF Same
  <2>3. {ActiveOf(thr'[u]) : u \in Threads} = {ActiveOf(thr[u]) : u \in Threads}
    BY <2>2
  <2>4. {WaitingOf(thr'[u]) : u \in Threads} = {WaitingOf(thr[u]) : u \in Threads}
    BY <2>2
  <2> QED
    BY <2>1, <2>3, <2>4 DEF Active, Waiting
<1>2. UNCHANGED F!vars
  BY <1>1, FenceUntouched
<1>3. Held' = Held
  <2>1. \A u \in Threads : /\ thr'[u].jobs = thr[u].jobs /\ thr'[u].new = thr[u].new
                           /\ thr'[u].failed = thr[u].failed
    BY DEF Same
  <2>2. /\ Held'[<<Net, "called">>] = called' /\ Held'[<<Net, "completed">>] = m_completed_jobs'
        /\ Held'[<<Net, "blocked">>] = fence'.m_blocked_jobs
        /\ Held'[<<Net, "generic">>] = m_queued_jobs'["generic"]
        /\ Held'[<<Net, "hash">>] = m_queued_jobs'["hash"]
        /\ \A u \in Threads : /\ Held'[<<u, "jobs">>] = thr'[u].jobs /\ Held'[<<u, "new">>] = thr'[u].new
                              /\ Held'[<<u, "failed">>] = thr'[u].failed
    BY HeldIs DEF Held
  <2>3. ASSUME NEW z \in Lists PROVE Held'[z] = Held[z]
    <3>1. CASE z \in {<<Net, "called">>, <<Net, "completed">>, <<Net, "blocked">>, <<Net, "generic">>,
                      <<Net, "hash">>}
      BY <2>2, <3>1, HeldAre DEF fenceVars, postVars
    <3>2. ASSUME NEW u \in Threads, z \in {<<u, "jobs">>, <<u, "new">>, <<u, "failed">>}
          PROVE  Held'[z] = Held[z]
      BY <2>1, <2>2, <3>2, HeldAre
    <3> QED
      BY <3>1, <3>2, ListsAre
  <2>4. Held = [z \in Lists |-> Held[z]] /\ Held' = [z \in Lists |-> Held'[z]]
    BY HeldIs DEF Held
  <2> QED
    BY <2>3, <2>4
<1>4. OnePlace(Held') /\ JobsIn(Held') = JobsIn(Held)
  BY <1>3 DEF DInv
<1>5. ResultsExact'
  <2>1. ResultsExact
    BY DEF DInv
  <2> QED
    BY <1>1, <2>1 DEF ResultsExact, IsIssued
<1>6. ThreadShape'
  BY DEF ThreadShape
<1>7. m_completed_jobs' # <<>> => m_job_completions_in_flight'
  BY DEF DInv, postVars
<1>8. thr'[Net].pc = "add" => thr[Net].pc = "add" /\ thr'[Net].jobs = thr[Net].jobs
  BY <1>0 DEF Same
<1>9. /\ UNCHANGED <<issued, reached>> /\ m_queued_jobs' \in [Pools -> Seq(Jobs)]
      /\ m_completed_jobs' \in Seq(Jobs) /\ called' \in Seq(Jobs) /\ ret' \in [Jobs -> Results]
  BY DEF DInv, ListTypes, fenceVars, postVars
<1> QED
  BY <1>2, <1>4, <1>5, <1>6, <1>7, <1>8, <1>9, StepKeeps DEF FenceStep

(* The same for a step of one thread.                                      *)
LEMMA QuietThread ==
    ASSUME DInv, UNCHANGED <<fenceVars, m_queued_jobs, postVars, ret, issued>>,
           NEW t, NEW h, Becomes(t, h), Same(thr[t], h), InShape(t, h), h.pc = "add" => thr[t].pc = "add"
    PROVE  DInv' /\ UNCHANGED F!vars
<1>1. thr' \in [Threads -> ThreadState]
  BY DEF Becomes
<1>2. ASSUME NEW u \in Threads PROVE Same(thr[u], thr'[u]) /\ InShape(u, thr'[u])
  <2>1. CASE u = t
    BY <2>1 DEF Becomes
  <2>2. CASE u # t
    BY <2>2 DEF Becomes, Same, DInv, ThreadShape
  <2> QED
    BY <2>1, <2>2
<1>3. thr'[Net].pc = "add" => thr[Net].pc = "add"
  BY DEF Becomes, Threads
<1> QED
  BY <1>1, <1>2, <1>3, QuietStep

(* A thread with nothing in its hands moves on with nothing in its hands.  *)
LEMMA EmptyHandedMove ==
    ASSUME NEW t, NEW g, g \in ThreadState, InShape(t, g), g.pc \in EmptyHanded,
           NEW pc, pc \in EmptyHanded, pc \in {"abort", "abort_generic", "abort_hash"} => t = Net
    PROVE  /\ At(pc, <<>>) \in ThreadState /\ Same(g, At(pc, <<>>)) /\ InShape(t, At(pc, <<>>))
           /\ At(pc, <<>>).pc # "add"
<1> DEFINE h == At(pc, <<>>)
<1>1. <<>> \in Seq(Jobs) /\ pc \in Pcs
  BY DEF EmptyHanded, Pcs
<1>2. /\ h \in ThreadState /\ h.pc = pc /\ h.jobs = <<>> /\ h.todo = <<>> /\ h.new = <<>> /\ h.failed = <<>>
  BY <1>1, AtEmpty
<1> HIDE DEF h
<1>3. g.jobs = <<>> /\ g.todo = <<>> /\ g.new = <<>> /\ g.failed = <<>>
  BY DEF InShape, EmptyHanded, Passing
<1>4. InShape(t, h)
  <2>1. Len(<<>>) = 0 /\ SubSeq(<<>>, 0 + 1, 0) = <<>> /\ 0 \in 0..0
    OBVIOUS
  <2>2. \E n \in 0..Len(h.jobs) : h.todo = SubSeq(h.jobs, n + 1, Len(h.jobs))
    BY <1>2, <2>1
  <2> QED
    BY <1>2, <2>2 DEF InShape, EmptyHanded, Passing, Early
<1>5. Same(g, h)
  BY <1>2, <1>3 DEF Same, ActiveOf, WaitingOf, EmptyHanded, Early
<1>6. h.pc # "add"
  BY <1>2 DEF EmptyHanded
<1> QED
  BY <1>2, <1>4, <1>5, <1>6 DEF h

(* What job_queued does to the threads.                                    *)
LEMMA NotifyIs ==
    ASSUME NEW S, NEW base, NotifyQueues(S, base), base \in [Threads -> ThreadState],
           thr \in [Threads -> ThreadState]
    PROVE  /\ thr' \in [Threads -> ThreadState]
           /\ \A u \in Threads : \/ thr'[u] = base[u]
                                 \/ u \in Workers /\ thr[u].pc = "none" /\ thr'[u] = At("start", <<>>)
<1>1. PICK new \in [S -> SUBSET {t \in Workers : thr[t].pc = "none"}] :
        thr' = [t \in DOMAIN thr |-> IF \E q \in S : t \in new[q] THEN At("start", <<>>) ELSE base[t]]
  BY DEF NotifyQueues
<1>2. At("start", <<>>) \in ThreadState
  BY AtEmpty DEF Pcs
<1>3. DOMAIN thr = Threads
  OBVIOUS
<1>4. \A u \in Threads : \/ thr'[u] = base[u]
                         \/ u \in Workers /\ thr[u].pc = "none" /\ thr'[u] = At("start", <<>>)
  BY <1>1, <1>3
<1>5. thr' \in [Threads -> ThreadState]
  BY <1>1, <1>2, <1>3
<1> QED
  BY <1>4, <1>5

(* job_queued moves no job.                                                *)
LEMMA NotifyQuiet ==
    ASSUME DInv, UNCHANGED <<fenceVars, m_queued_jobs, postVars, ret, issued>>,
           NEW S, NEW base, NotifyQueues(S, base), base \in [Threads -> ThreadState],
           \A u \in Threads : \/ base[u] = thr[u]
                              \/ Same(thr[u], base[u]) /\ InShape(u, base[u]) /\ base[u].pc # "add"
    PROVE  DInv' /\ UNCHANGED F!vars
<1>1. thr \in [Threads -> ThreadState] /\ ThreadShape /\ Net \in Threads
  BY DEF DInv, ListTypes, Threads
<1>2. /\ thr' \in [Threads -> ThreadState]
      /\ \A u \in Threads : \/ thr'[u] = base[u]
                            \/ u \in Workers /\ thr[u].pc = "none" /\ thr'[u] = At("start", <<>>)
  BY <1>1, NotifyIs
<1>3. ASSUME NEW u \in Threads
      PROVE  /\ Same(thr[u], thr'[u]) /\ InShape(u, thr'[u])
             /\ thr'[u].pc = "add" => thr[u].pc = "add"
  <2>1. thr[u] \in ThreadState /\ InShape(u, thr[u]) /\ Same(thr[u], thr[u])
    BY <1>1 DEF ThreadShape, Same
  <2>2. CASE thr'[u] = base[u]
    BY <2>1, <2>2
  <2>3. CASE thr[u].pc = "none" /\ thr'[u] = At("start", <<>>)
    <3>1. "none" \in EmptyHanded /\ "start" \in EmptyHanded
      BY DEF EmptyHanded
    <3> QED
      BY <2>1, <2>3, <3>1, EmptyHandedMove
  <2> QED
    BY <1>2, <2>2, <2>3
<1> QED
  BY <1>1, <1>2, <1>3, QuietStep

(* A thread with no jobs in hand moves no job.                             *)
LEMMA EmptyHandedStep ==
    ASSUME DInv, UNCHANGED <<fenceVars, m_queued_jobs, postVars, ret, issued>>,
           NEW t, t \in Threads, thr[t].pc \in EmptyHanded, NEW pc, pc \in EmptyHanded,
           pc \in {"abort", "abort_generic", "abort_hash"} => t = Net,
           thr' = [thr EXCEPT ![t] = At(pc, <<>>)]
    PROVE  DInv' /\ UNCHANGED F!vars
<1>1. thr \in [Threads -> ThreadState] /\ thr[t] \in ThreadState /\ InShape(t, thr[t])
  BY DEF DInv, ListTypes, ThreadShape
<1>2. /\ At(pc, <<>>) \in ThreadState /\ Same(thr[t], At(pc, <<>>)) /\ InShape(t, At(pc, <<>>))
      /\ At(pc, <<>>).pc # "add"
  BY <1>1, EmptyHandedMove
<1>3. Becomes(t, At(pc, <<>>))
  BY <1>1, <1>2, BecomesIs
<1> QED
  BY <1>2, <1>3, QuietThread

(* Thread t goes on with the same jobs.                                    *)
Advances(t, pc) ==
    \E h \in ThreadState :
        /\ Becomes(t, h)
        /\ h.pc = pc /\ h.jobs = thr[t].jobs /\ h.todo = thr[t].todo
        /\ h.new = thr[t].new /\ h.failed = thr[t].failed

(* The ways a thread that executes a job goes on.                          *)
LEMMA AdvancesIs ==
    ASSUME thr \in [Threads -> ThreadState], NEW t, t \in Threads, NEW pc, pc \in Pcs
    PROVE  /\ thr' = [thr EXCEPT ![t].pc = pc] => Advances(t, pc)
           /\ \A l \in SUBSET Blocks :
                 /\ thr' = [thr EXCEPT ![t].pc = pc, ![t].left = l] => Advances(t, pc)
                 /\ thr' = [thr EXCEPT ![t].left = l, ![t].pc = pc] => Advances(t, pc)
<1> DEFINE g == thr[t]
<1>1. g \in ThreadState
  OBVIOUS
<1>2. ASSUME thr' = [thr EXCEPT ![t].pc = pc] PROVE Advances(t, pc)
  <2> DEFINE h == [g EXCEPT !.pc = pc]
  <2>1. /\ h \in ThreadState /\ h.pc = pc /\ h.jobs = g.jobs /\ h.todo = g.todo
        /\ h.new = g.new /\ h.failed = g.failed
    <3> HIDE DEF g
    <3> QED
      BY <1>1 DEF ThreadState, Pcs
  <2>2. thr' = [thr EXCEPT ![t] = h]
    BY <1>2
  <2> HIDE DEF h
  <2>3. Becomes(t, h)
    BY <2>1, <2>2, BecomesIs
  <2> QED
    BY <2>1, <2>3 DEF Advances
<1>3. ASSUME NEW l \in SUBSET Blocks,
             \/ thr' = [thr EXCEPT ![t].pc = pc, ![t].left = l]
             \/ thr' = [thr EXCEPT ![t].left = l, ![t].pc = pc]
      PROVE  Advances(t, pc)
  <2> DEFINE h == [g EXCEPT !.pc = pc, !.left = l]
  <2>1. /\ h \in ThreadState /\ h.pc = pc /\ h.jobs = g.jobs /\ h.todo = g.todo
        /\ h.new = g.new /\ h.failed = g.failed
    <3> HIDE DEF g
    <3> QED
      BY <1>1 DEF ThreadState, Pcs
  <2>2. thr' = [thr EXCEPT ![t] = h]
    <3>1. h = [g EXCEPT !.left = l, !.pc = pc]
      <4> HIDE DEF g
      <4> QED
        BY <1>1 DEF ThreadState
    <3> QED
      BY <1>3, <3>1
  <2> HIDE DEF h
  <2>3. Becomes(t, h)
    BY <2>1, <2>2, BecomesIs
  <2> QED
    BY <2>1, <2>3 DEF Advances
<1> QED
  BY <1>2, <1>3

(* What a thread that executes a job looks like.                           *)
Executing == {"exec", "hash", "hash_file", "erase"}

SameLists(g, h) == h.jobs = g.jobs /\ h.todo = g.todo /\ h.new = g.new /\ h.failed = g.failed

(* What a thread that executes a job has in hand.                          *)
LEMMA ExecutingShape ==
    ASSUME NEW t, NEW g, NEW h, g \in ThreadState, h \in ThreadState, InShape(t, g),
           g.pc \in Executing, h.pc \in Executing \union {"complete"},
           SameLists(g, h)
    PROVE  /\ InShape(t, h)
           /\ g.todo = g.jobs /\ Len(g.jobs) = 1 /\ g.new = <<>> /\ g.failed = <<>>
           /\ ActiveOf(g) = ToSet(g.jobs) /\ ActiveOf(h) = ActiveOf(g)
           /\ g.pc = "erase" => WaitingOf(g) = {}
           /\ g.pc # "erase" => WaitingOf(g) = ToSet(g.jobs)
           /\ h.pc \in {"erase", "complete"} => WaitingOf(h) = {}
           /\ h.pc \notin {"erase", "complete"} => WaitingOf(h) = ToSet(g.jobs)
<1>1. g.todo = g.jobs /\ Len(g.jobs) = 1 /\ g.new = <<>> /\ g.failed = <<>>
  BY DEF InShape, Executing, Passing, Early
<1>2. \E n \in 0..Len(g.jobs) : g.todo = SubSeq(g.jobs, n + 1, Len(g.jobs))
  BY DEF InShape
<1>3. g.todo # <<>>
  <2>1. Len(<<>>) # 1
    OBVIOUS
  <2> QED
    BY <1>1, <2>1, Zenon
<1>4. InShape(t, h)
  BY <1>1, <1>2, <1>3 DEF InShape, Executing, Passing, Early, EmptyHanded, SameLists
<1>5. ToSet(<<>>) = {}
  BY DEF ToSet
<1>6. ActiveOf(g) = ToSet(g.jobs) /\ ActiveOf(h) = ToSet(g.jobs)
  BY <1>1, <1>5 DEF ActiveOf, Executing, SameLists
<1>7. /\ g.pc = "erase" => WaitingOf(g) = {}
      /\ g.pc # "erase" => WaitingOf(g) = ToSet(g.jobs)
      /\ h.pc \in {"erase", "complete"} => WaitingOf(h) = {}
      /\ h.pc \notin {"erase", "complete"} => WaitingOf(h) = ToSet(g.jobs)
  BY <1>1, <1>5 DEF WaitingOf, Executing, Early, SameLists
<1> QED
  BY <1>1, <1>4, <1>6, <1>7

(* Execution without a result, or after it.                                *)
LEMMA ExecutesOn ==
    ASSUME DInv, UNCHANGED <<fenceVars, m_queued_jobs, postVars, ret, issued>>, NEW t, t \in Threads,
           NEW pc, Advances(t, pc),
           \/ thr[t].pc \in {"exec", "hash", "hash_file"} /\ pc \in {"hash", "hash_file"}
           \/ thr[t].pc = "erase" /\ pc = "complete"
    PROVE  DInv' /\ UNCHANGED F!vars
<1>1. PICK h \in ThreadState :
        /\ Becomes(t, h)
        /\ h.pc = pc /\ h.jobs = thr[t].jobs /\ h.todo = thr[t].todo
        /\ h.new = thr[t].new /\ h.failed = thr[t].failed
  BY DEF Advances
<1>2. thr[t] \in ThreadState /\ InShape(t, thr[t])
  BY DEF DInv, ListTypes, ThreadShape
<1>3. thr[t].pc \in Executing /\ h.pc \in Executing \union {"complete"}
  BY <1>1 DEF Executing
<1>4. /\ InShape(t, h) /\ ActiveOf(h) = ActiveOf(thr[t])
      /\ thr[t].pc = "erase" => WaitingOf(thr[t]) = {}
      /\ thr[t].pc # "erase" => WaitingOf(thr[t]) = ToSet(thr[t].jobs)
      /\ h.pc \in {"erase", "complete"} => WaitingOf(h) = {}
      /\ h.pc \notin {"erase", "complete"} => WaitingOf(h) = ToSet(thr[t].jobs)
  <2>1. SameLists(thr[t], h)
    BY <1>1 DEF SameLists
  <2> QED
    BY <1>1, <1>2, <1>3, <2>1, ExecutingShape
<1>5. WaitingOf(h) = WaitingOf(thr[t]) /\ h.pc # "add"
  BY <1>1, <1>4
<1>6. Same(thr[t], h)
  BY <1>1, <1>4, <1>5 DEF Same
<1> QED
  BY <1>1, <1>4, <1>5, <1>6, QuietThread

(* A job gets its result.                                                  *)
LEMMA ResultStep ==
    ASSUME DInv, UNCHANGED <<fenceVars, m_queued_jobs, postVars, issued>>, NEW t, t \in Threads,
           NEW pc, Advances(t, pc), thr[t].pc \in {"exec", "hash", "hash_file"},
           pc \in {"erase", "complete"}, NEW j, Running(t, j), NEW v, v \in Results \ {"none"},
           ret' = [ret EXCEPT ![j] = v]
    PROVE  DInv' /\ UNCHANGED F!vars
<1>0. /\ thr[t] \in ThreadState /\ InShape(t, thr[t]) /\ ListTypes /\ ThreadShape /\ OnePlace(Held)
      /\ ret \in [Jobs -> Results]
  BY DEF DInv, ListTypes, ThreadShape
<1>1. PICK h \in ThreadState :
        /\ Becomes(t, h)
        /\ h.pc = pc /\ h.jobs = thr[t].jobs /\ h.todo = thr[t].todo
        /\ h.new = thr[t].new /\ h.failed = thr[t].failed
  BY DEF Advances
<1>2. thr[t].pc \in Executing /\ h.pc \in Executing \union {"complete"}
  BY <1>1 DEF Executing
<1>3. /\ InShape(t, h) /\ h.pc # "add" /\ ActiveOf(h) = ActiveOf(thr[t])
      /\ WaitingOf(thr[t]) = ToSet(thr[t].jobs) /\ WaitingOf(h) = {}
  BY <1>0, <1>1, <1>2, ExecutingShape, ZenonT(30) DEF SameLists
<1>4. j \in Jobs /\ ToSet(thr[t].jobs) = {j}
  <2>1. thr[t].jobs = <<j>> /\ thr[t].jobs \in Seq(Jobs)
    BY <1>0, ThreadStateIs DEF Running
  <2> QED
    BY <2>1 DEF ToSet
<1>5. Active' = Active
  <2>1. Queued' = Queued
    BY DEF Queued
  <2> QED
    BY <1>1, <1>3, <2>1, OneThread
<1>6. Waiting' = Waiting \ {j}
  <2>1. Queued' = Queued /\ Blocked' = Blocked
    BY DEF Queued, Blocked, fenceVars
  <2>2. j \notin Queued /\ j \notin Blocked /\ j \notin OthersWaiting(t)
    BY <1>0, <1>4, Alone, OthersAreElsewhere
  <2>3. Waiting = Blocked \union Queued \union {j} \union OthersWaiting(t)
    BY <1>1, <1>3, <1>4, OneThread
  <2>4. Waiting' = Blocked \union Queued \union OthersWaiting(t)
    BY <1>1, <1>3, <2>1, OneThread
  <2> QED
    BY <2>2, <2>3, <2>4
<1>7. UNCHANGED F!vars
  BY <1>5, FenceUntouched
<1>8. Held' = Held
  BY <1>1, HeldSame DEF fenceVars, postVars
<1>9. OnePlace(Held') /\ JobsIn(Held') = JobsIn(Held)
  BY <1>0, <1>8
<1>10. ResultsExact'
  <2>1. ResultsExact
    BY DEF DInv
  <2>2. \A k \in Jobs : ret'[k] = IF k = j THEN v ELSE ret[k]
    BY <1>0
  <2>3. j \in ToSet(issued)
    <3>1. <<t, "jobs">> \in Lists /\ j \in ToSet(Held[<<t, "jobs">>]) /\ DOMAIN Held = Lists
      BY <1>0, <1>4, HeldAre, ListsAre, HeldType
    <3>2. j \in JobsIn(Held)
      BY <3>1 DEF JobsIn
    <3> QED
      BY <3>2 DEF DInv
  <2> QED
    BY <1>6, <2>1, <2>2, <2>3 DEF ResultsExact, IsIssued, Results
<1>11. ThreadShape'
  BY <1>0, <1>1, <1>3 DEF ThreadShape, Becomes
<1>12. m_completed_jobs' # <<>> => m_job_completions_in_flight'
  BY DEF DInv, postVars
<1>13. thr'[Net].pc = "add" => thr[Net].pc = "add" /\ thr'[Net].jobs = thr[Net].jobs
  BY <1>1, <1>3 DEF Becomes, Threads
<1>14. /\ UNCHANGED <<issued, reached>> /\ m_queued_jobs' \in [Pools -> Seq(Jobs)]
       /\ m_completed_jobs' \in Seq(Jobs) /\ called' \in Seq(Jobs) /\ ret' \in [Jobs -> Results]
       /\ thr' \in [Threads -> ThreadState]
  BY <1>1 DEF DInv, ListTypes, fenceVars, postVars, Becomes
<1> QED
  BY <1>7, <1>9, <1>10, <1>11, <1>12, <1>13, <1>14, StepKeeps DEF FenceStep

-----------------------------------------------------------------------------
(***************************************************************************)
(* Jobs on the move.                                                       *)
(***************************************************************************)
LEMMA ToSetIs ==
    /\ ToSet(<<>>) = {}
    /\ \A j \in Jobs : ToSet(<<j>>) = {j}
    /\ \A s \in Seq(Jobs) : ToSet(s) \subseteq Jobs
    /\ \A s \in Seq(Jobs) : s # <<>> => ToSet(s) = {Head(s)} \union ToSet(Tail(s))
    /\ \A s, r \in Seq(Jobs) : ToSet(s \o r) = ToSet(s) \union ToSet(r)
<1>1. ToSet(<<>>) = {} /\ \A j \in Jobs : ToSet(<<j>>) = {j}
  BY DEF ToSet
<1>2. \A s \in Seq(Jobs) : ToSet(s) \subseteq Jobs
  BY DEF ToSet
<1>3. ASSUME NEW s \in Seq(Jobs), s # <<>> PROVE ToSet(s) = {Head(s)} \union ToSet(Tail(s))
  <2>1. /\ Len(s) \in Nat /\ Len(s) >= 1 /\ DOMAIN s = 1..Len(s) /\ Head(s) = s[1]
        /\ Tail(s) \in Seq(Jobs) /\ Len(Tail(s)) = Len(s) - 1 /\ DOMAIN Tail(s) = 1..(Len(s) - 1)
        /\ \A i \in 1..(Len(s) - 1) : Tail(s)[i] = s[i + 1]
    BY <1>3
  <2>2. ASSUME NEW i \in 1..Len(s) PROVE s[i] \in {Head(s)} \union ToSet(Tail(s))
    <3>1. CASE i = 1
      BY <2>1, <3>1
    <3>2. CASE i # 1
      <4>1. PICK k \in 1..(Len(s) - 1) : k + 1 = i
        <5>1. i - 1 \in 1..(Len(s) - 1) /\ (i - 1) + 1 = i
          BY <2>1, <3>2
        <5> QED
          BY <5>1
      <4>2. Tail(s)[k] = s[i]
        BY <2>1, <4>1
      <4> QED
        BY <2>1, <4>2 DEF ToSet
    <3> QED
      BY <3>1, <3>2
  <2>3. \A i \in 1..(Len(s) - 1) : i + 1 \in 1..Len(s)
    BY <2>1
  <2>4. \A x \in ToSet(s) : x \in {Head(s)} \union ToSet(Tail(s))
    BY <2>1, <2>2 DEF ToSet
  <2>5. \A x \in ToSet(Tail(s)) : x \in ToSet(s)
    BY <2>1, <2>3 DEF ToSet
  <2>6. Head(s) \in ToSet(s)
    BY <2>1 DEF ToSet
  <2> QED
    BY <2>4, <2>5, <2>6
<1>4. ASSUME NEW s \in Seq(Jobs), NEW r \in Seq(Jobs) PROVE ToSet(s \o r) = ToSet(s) \union ToSet(r)
  <2> DEFINE c == s \o r
  <2>1. /\ c \in Seq(Jobs) /\ Len(c) = Len(s) + Len(r)
        /\ \A i \in 1..(Len(s) + Len(r)) : c[i] = IF i <= Len(s) THEN s[i] ELSE r[i - Len(s)]
    BY ConcatProperties
  <2>2. /\ Len(s) \in Nat /\ Len(r) \in Nat /\ DOMAIN s = 1..Len(s) /\ DOMAIN r = 1..Len(r)
        /\ DOMAIN c = 1..(Len(s) + Len(r))
    BY <2>1
  <2> HIDE DEF c
  <2>3. ASSUME NEW x \in ToSet(c) PROVE x \in ToSet(s) \union ToSet(r)
    <3>1. PICK i \in 1..(Len(s) + Len(r)) : x = c[i]
      BY <2>2 DEF ToSet
    <3>2. CASE i <= Len(s)
      <4>1. i \in 1..Len(s) /\ x = s[i]
        BY <2>1, <2>2, <3>1, <3>2
      <4> QED
        BY <2>2, <4>1 DEF ToSet
    <3>3. CASE ~ (i <= Len(s))
      <4>1. i - Len(s) \in 1..Len(r) /\ x = r[i - Len(s)]
        BY <2>1, <2>2, <3>1, <3>3
      <4> QED
        BY <2>2, <4>1 DEF ToSet
    <3> QED
      BY <3>2, <3>3
  <2>4. ASSUME NEW x \in ToSet(s) PROVE x \in ToSet(c)
    <3>1. PICK i \in 1..Len(s) : x = s[i]
      BY <2>2 DEF ToSet
    <3>2. i \in 1..(Len(s) + Len(r)) /\ c[i] = x
      BY <2>1, <2>2, <3>1
    <3> QED
      BY <2>2, <3>2 DEF ToSet
  <2>5. ASSUME NEW x \in ToSet(r) PROVE x \in ToSet(c)
    <3>1. PICK i \in 1..Len(r) : x = r[i]
      BY <2>2 DEF ToSet
    <3>2. Len(s) + i \in 1..(Len(s) + Len(r)) /\ ~ (Len(s) + i <= Len(s)) /\ (Len(s) + i) - Len(s) = i
      BY <2>2
    <3>3. c[Len(s) + i] = x
      BY <2>1, <3>1, <3>2
    <3> QED
      BY <2>2, <3>2, <3>3 DEF ToSet
  <2> QED
    BY <2>3, <2>4, <2>5 DEF c
<1> QED
  BY <1>1, <1>2, <1>3, <1>4

(* A thread takes the first job of queue q.                                *)
LEMMA TakeStep ==
    ASSUME DInv, UNCHANGED <<fenceVars, postVars, ret, issued>>, NEW t, t \in Threads,
           thr[t].pc \in EmptyHanded, NEW q, q \in Pools, m_queued_jobs[q] # <<>>,
           m_queued_jobs' = [m_queued_jobs EXCEPT ![q] = Tail(@)],
           thr' = [thr EXCEPT ![t] = At("exec", <<Head(m_queued_jobs[q])>>)]
    PROVE  DInv' /\ UNCHANGED F!vars
<1> DEFINE s == m_queued_jobs[q]
           j == Head(s)
           h == At("exec", <<j>>)
           x == <<Net, q>>
           y == <<t, "jobs">>
<1>0. /\ ListTypes /\ ThreadShape /\ OnePlace(Held) /\ thr \in [Threads -> ThreadState]
      /\ thr[t] \in ThreadState /\ InShape(t, thr[t]) /\ m_queued_jobs \in [Pools -> Seq(Jobs)]
      /\ s \in Seq(Jobs) /\ s # <<>> /\ Held \in [Lists -> Seq(Jobs)]
  BY HeldType DEF DInv, ListTypes, ThreadShape
<1>1. j \in Jobs /\ <<j>> \in Seq(Jobs) /\ Tail(s) \in Seq(Jobs) /\ Len(<<j>>) = 1 /\ <<j>> # <<>>
  BY <1>0
<1>2. /\ h \in ThreadState /\ h.pc = "exec" /\ h.jobs = <<j>> /\ h.todo = <<j>>
      /\ h.new = <<>> /\ h.failed = <<>>
  <2>1. "exec" \in Pcs
    BY DEF Pcs
  <2> HIDE DEF j
  <2> QED
    BY <1>1, <2>1, AtOne
<1>3. thr[t].jobs = <<>> /\ thr[t].todo = <<>> /\ thr[t].new = <<>> /\ thr[t].failed = <<>>
  BY <1>0 DEF InShape, EmptyHanded, Passing
<1>4. thr' = [thr EXCEPT ![t] = h]
  OBVIOUS
<1> HIDE DEF h
<1>5. Becomes(t, h)
  BY <1>0, <1>2, <1>4, BecomesIs
<1>6. InShape(t, h)
  <2>1. <<j>> = SubSeq(<<j>>, 0 + 1, 1) /\ 0 \in 0..1
    BY <1>1
  <2>2. \E n \in 0..Len(h.jobs) : h.todo = SubSeq(h.jobs, n + 1, Len(h.jobs))
    BY <1>1, <1>2, <2>1
  <2> QED
    BY <1>1, <1>2, <2>2 DEF InShape, EmptyHanded, Passing, Early
<1>7. /\ m_queued_jobs' \in [Pools -> Seq(Jobs)] /\ m_queued_jobs'[q] = Tail(s)
      /\ \A p \in Pools : p # q => m_queued_jobs'[p] = m_queued_jobs[p]
  BY <1>0, <1>1
<1>8. Queued = Queued' \union {j}
  <2>1. ToSet(s) = ToSet(Tail(s)) \union {j}
    BY <1>0, ToSetIs
  <2>2. q = "generic" \/ q = "hash"
    BY DEF Pools
  <2> HIDE DEF s, j
  <2>3. m_queued_jobs[q] = s
    BY DEF s
  <2>4. CASE q = "generic"
    <3>1. m_queued_jobs'["hash"] = m_queued_jobs["hash"] /\ m_queued_jobs'["generic"] = Tail(s)
      BY <1>7, <2>4 DEF Pools
    <3> QED
      BY <2>1, <2>3, <2>4, <3>1 DEF Queued
  <2>5. CASE q = "hash"
    <3>1. m_queued_jobs'["generic"] = m_queued_jobs["generic"] /\ m_queued_jobs'["hash"] = Tail(s)
      BY <1>7, <2>5 DEF Pools
    <3> QED
      BY <2>1, <2>3, <2>5, <3>1 DEF Queued
  <2> QED
    BY <2>2, <2>4, <2>5
<1>9. /\ ActiveOf(thr[t]) = {} /\ ActiveOf(h) = {j} /\ WaitingOf(thr[t]) = {} /\ WaitingOf(h) = {j}
  <2>1. ToSet(<<>>) = {} /\ ToSet(<<j>>) = {j}
    BY <1>1, ToSetIs
  <2> QED
    BY <1>2, <1>3, <2>1 DEF ActiveOf, WaitingOf, EmptyHanded, Early
<1>10. Active' = Active /\ Waiting' = Waiting
  <2>1. Blocked' = Blocked
    BY DEF Blocked, fenceVars
  <2> HIDE DEF j
  <2> QED
    BY <1>5, <1>8, <1>9, <2>1, OneThread
<1>11. OnePlace(Held') /\ JobsIn(Held') = JobsIn(Held)
  <2>1. ChangesOnly(t, h, {x, y})
    <3>1. \A p \in {"generic", "hash"} : <<Net, p>> \in {x, y} \/ m_queued_jobs'[p] = m_queued_jobs[p]
      BY <1>7 DEF Pools
    <3> QED
      BY <1>2, <1>3, <1>5, <3>1 DEF ChangesOnly, fenceVars, postVars
  <2>2. x \in Lists /\ y \in Lists /\ x # y
    BY ListsAre DEF Pools
  <2>3. /\ Held[x] = s /\ Held[y] = <<>> /\ Held'[x] = Tail(s) /\ Held'[y] = <<j>>
    <3>1. Held[x] = m_queued_jobs[q] /\ Held'[x] = m_queued_jobs'[q]
      BY HeldAre, HeldAreNext DEF Pools
    <3>2. Held[y] = thr[t].jobs /\ Held'[y] = thr'[t].jobs
      BY HeldAre, HeldAreNext
    <3> QED
      BY <1>2, <1>3, <1>5, <1>7, <3>1, <3>2 DEF Becomes
  <2>4. Exchanges(x, y)
    <3> HIDE DEF x, y
    <3> QED
      BY <1>0, <2>3 DEF Exchanges
  <2> HIDE DEF x, y
  <2> QED
    BY <1>0, <2>1, <2>2, <2>4, ListMoves
<1>12. ResultsExact'
  <2>1. ResultsExact
    BY DEF DInv
  <2> QED
    BY <1>10, <2>1 DEF ResultsExact, IsIssued
<1>13. ThreadShape'
  BY <1>0, <1>5, <1>6 DEF ThreadShape, Becomes
<1>14. m_completed_jobs' # <<>> => m_job_completions_in_flight'
  BY DEF DInv, postVars
<1>15. thr'[Net].pc = "add" => thr[Net].pc = "add" /\ thr'[Net].jobs = thr[Net].jobs
  BY <1>2, <1>5 DEF Becomes, Threads
<1>16. /\ UNCHANGED <<issued, reached>> /\ m_completed_jobs' \in Seq(Jobs) /\ called' \in Seq(Jobs)
       /\ ret' \in [Jobs -> Results] /\ thr' \in [Threads -> ThreadState]
  BY <1>5 DEF DInv, ListTypes, fenceVars, postVars, Becomes
<1>17. UNCHANGED F!vars
  BY <1>10, FenceUntouched
<1> QED
  BY <1>7, <1>11, <1>12, <1>13, <1>14, <1>15, <1>16, <1>17, StepKeeps DEF FenceStep

(* A step that moves jobs between two lists away from the fence.           *)
Moves(t, h, x, y) ==
    /\ x \in Lists /\ y \in Lists /\ x # y
    /\ ChangesOnly(t, h, {x, y}) /\ Exchanges(x, y)
    /\ InShape(t, h) /\ h.pc # "add"

TypesNext ==
    /\ m_queued_jobs' \in [Pools -> Seq(Jobs)] /\ m_completed_jobs' \in Seq(Jobs) /\ called' \in Seq(Jobs)
    /\ ret' \in [Jobs -> Results]
    /\ m_completed_jobs' # <<>> => m_job_completions_in_flight'

(* A step that moves jobs from one list to another keeps the invariant.    *)
LEMMA MoveStep ==
    ASSUME DInv, UNCHANGED <<fenceVars, issued>>, NEW t, NEW h, NEW x, NEW y, Moves(t, h, x, y),
           TypesNext, Active' = Active, ResultsExact'
    PROVE  DInv' /\ UNCHANGED F!vars
<1>1. Becomes(t, h) /\ ListTypes /\ OnePlace(Held) /\ ThreadShape
  BY DEF Moves, ChangesOnly, DInv
<1>2. OnePlace(Held') /\ JobsIn(Held') = JobsIn(Held)
  BY <1>1, ListMoves DEF Moves
<1>3. ThreadShape' /\ thr' \in [Threads -> ThreadState]
  BY <1>1 DEF ThreadShape, Becomes, Moves
<1>4. thr'[Net].pc = "add" => thr[Net].pc = "add" /\ thr'[Net].jobs = thr[Net].jobs
  BY <1>1 DEF Becomes, Threads, Moves
<1>5. UNCHANGED F!vars
  BY FenceUntouched
<1>6. UNCHANGED <<issued, reached>>
  BY DEF fenceVars
<1> QED
  BY <1>2, <1>3, <1>4, <1>5, <1>6, StepKeeps DEF FenceStep, TypesNext

(* The results stay exact if no job stops waiting.                         *)
LEMMA SameResults ==
    ASSUME DInv, UNCHANGED <<ret, issued>>, Waiting' = Waiting
    PROVE  ResultsExact'
<1>1. ResultsExact
  BY DEF DInv
<1> QED
  BY <1>1 DEF ResultsExact, IsIssued

(* A thread with no jobs in hand.                                          *)
LEMMA InShapeEmpty ==
    ASSUME NEW t, NEW pc, pc \in EmptyHanded, pc \in {"abort", "abort_generic", "abort_hash"} => t = Net
    PROVE  /\ At(pc, <<>>) \in ThreadState /\ InShape(t, At(pc, <<>>)) /\ At(pc, <<>>).pc = pc
           /\ At(pc, <<>>).jobs = <<>> /\ At(pc, <<>>).new = <<>> /\ At(pc, <<>>).failed = <<>>
           /\ ActiveOf(At(pc, <<>>)) = {} /\ WaitingOf(At(pc, <<>>)) = {} /\ pc # "add"
<1> DEFINE h == At(pc, <<>>)
<1>1. pc \in Pcs
  BY DEF EmptyHanded, Pcs
<1>2. /\ h \in ThreadState /\ h.pc = pc /\ h.jobs = <<>> /\ h.todo = <<>> /\ h.new = <<>> /\ h.failed = <<>>
  BY <1>1, AtEmpty
<1>3. ToSet(<<>>) = {}
  BY ToSetIs
<1> HIDE DEF h
<1>4. ActiveOf(h) = {} /\ WaitingOf(h) = {}
  BY <1>2, <1>3 DEF ActiveOf, WaitingOf
<1>5. InShape(t, h)
  <2>2. Len(<<>>) = 0 /\ SubSeq(<<>>, 0 + 1, 0) = <<>> /\ 0 \in 0..0
    OBVIOUS
  <2>3. \E n \in 0..Len(h.jobs) : h.todo = SubSeq(h.jobs, n + 1, Len(h.jobs))
    BY <1>2, <2>2
  <2> QED
    BY <1>2, <2>3 DEF InShape, EmptyHanded, Passing, Early
<1>6. pc # "add"
  BY DEF EmptyHanded
<1> QED
  BY <1>2, <1>4, <1>5, <1>6 DEF h

(* The job in the hands of the network thread.                             *)
LEMMA NetJob ==
    ASSUME DInv, thr[Net].pc \in {"add", "push"}
    PROVE  /\ Net \in Threads /\ thr[Net] \in ThreadState
           /\ thr[Net].jobs[1] \in Jobs /\ thr[Net].jobs = <<thr[Net].jobs[1]>>
           /\ thr[Net].todo = thr[Net].jobs /\ thr[Net].new = <<>> /\ thr[Net].failed = <<>>
           /\ ToSet(thr[Net].jobs) = {thr[Net].jobs[1]}
           /\ WaitingOf(thr[Net]) = {thr[Net].jobs[1]}
           /\ thr[Net].pc = "add" => ActiveOf(thr[Net]) = {}
           /\ thr[Net].pc = "push" => ActiveOf(thr[Net]) = {thr[Net].jobs[1]}
<1> DEFINE g == thr[Net]
           j == g.jobs[1]
<1>1. Net \in Threads /\ g \in ThreadState /\ InShape(Net, g)
  BY DEF DInv, ListTypes, Threads, ThreadShape
<1> HIDE DEF g
<1>2. g.pc \in {"add", "push"}
  BY DEF g
<1>3. Len(g.jobs) = 1 /\ g.todo = g.jobs /\ g.new = <<>> /\ g.failed = <<>> /\ g.jobs \in Seq(Jobs)
  BY <1>1, <1>2, ThreadStateIs DEF InShape, Early, Passing
<1>4. g.jobs = <<j>> /\ j \in Jobs
  BY <1>3, OneJob
<1> HIDE DEF j
<1>5. ToSet(<<>>) = {} /\ ToSet(<<j>>) = {j}
  BY <1>4, ToSetIs
<1>6. WaitingOf(g) = {j} /\ (g.pc = "add" => ActiveOf(g) = {}) /\ (g.pc = "push" => ActiveOf(g) = {j})
  BY <1>2, <1>3, <1>4, <1>5 DEF WaitingOf, ActiveOf, Early
<1> QED
  BY <1>1, <1>3, <1>4, <1>5, <1>6 DEF g, j

(* call_job_handlers moves the completed jobs to the called ones.          *)
LEMMA CallJobHandlersKeeps ==
    ASSUME DInv, CallJobHandlers
    PROVE  DInv' /\ UNCHANGED F!vars
<1> DEFINE h == thr[Net]
           x == <<Net, "completed">>
           y == <<Net, "called">>
<1>0. /\ Net \in Threads /\ h \in ThreadState /\ InShape(Net, h) /\ thr \in [Threads -> ThreadState]
      /\ m_completed_jobs \in Seq(Jobs) /\ called \in Seq(Jobs)
  BY DEF DInv, ListTypes, Threads, ThreadShape
<1>1. Becomes(Net, h)
  BY <1>0 DEF Becomes, CallJobHandlers
<1>2. Queued' = Queued /\ Blocked' = Blocked /\ UNCHANGED <<fenceVars, issued, ret, m_queued_jobs>>
  BY DEF CallJobHandlers, Queued, Blocked, fenceVars
<1>3. Active' = Active /\ Waiting' = Waiting
  BY <1>1, <1>2, OneThread
<1>4. ChangesOnly(Net, h, {x, y})
  BY <1>1, <1>2 DEF ChangesOnly, fenceVars
<1>5. Exchanges(x, y)
  BY HeldAre, HeldAreNext DEF Exchanges, CallJobHandlers
<1>6. x \in Lists /\ y \in Lists /\ x # y
  BY ListsAre
<1>7. Moves(Net, h, x, y)
  BY <1>0, <1>4, <1>5, <1>6 DEF Moves, CallJobHandlers
<1>8. TypesNext
  <2>1. called \o m_completed_jobs \in Seq(Jobs)
    BY <1>0, ConcatProperties
  <2> QED
    BY <2>1 DEF TypesNext, CallJobHandlers, DInv, ListTypes
<1> HIDE DEF x, y, h
<1> QED
  BY <1>2, <1>3, <1>7, <1>8, SameResults, MoveStep

(* The job of the network thread goes to the back of a list.               *)
LEMMA NetHandsOver ==
    ASSUME DInv, UNCHANGED <<fenceVars, issued>>, thr[Net].pc \in {"add", "push"},
           NEW pc, pc \in {"loop", "none"}, thr' = [thr EXCEPT ![Net] = At(pc, <<>>)],
           NEW k, k \in {"completed", "generic", "hash"},
           Held'[<<Net, k>>] = Append(Held[<<Net, k>>], thr[Net].jobs[1]),
           k = "completed" \/ m_completed_jobs' = m_completed_jobs,
           k = "generic" \/ m_queued_jobs'["generic"] = m_queued_jobs["generic"],
           k = "hash" \/ m_queued_jobs'["hash"] = m_queued_jobs["hash"],
           called' = called
    PROVE  /\ Becomes(Net, At(pc, <<>>))
           /\ Moves(Net, At(pc, <<>>), <<Net, "jobs">>, <<Net, k>>)
<1> DEFINE h == At(pc, <<>>)
           j == thr[Net].jobs[1]
           x == <<Net, "jobs">>
           y == <<Net, k>>
<1>1. /\ Net \in Threads /\ thr[Net] \in ThreadState /\ j \in Jobs /\ thr[Net].jobs = <<j>>
      /\ thr[Net].new = <<>> /\ thr[Net].failed = <<>>
  BY NetJob
<1>2. /\ h \in ThreadState /\ InShape(Net, h) /\ h.pc = pc /\ h.jobs = <<>> /\ h.new = <<>>
      /\ h.failed = <<>> /\ pc # "add"
  BY InShapeEmpty DEF EmptyHanded
<1>3. Becomes(Net, h)
  BY <1>1, <1>2, BecomesIs DEF DInv, ListTypes
<1> HIDE DEF h
<1>4. x \in Lists /\ y \in Lists /\ x # y
  BY <1>1, ListsAre
<1>5. ChangesOnly(Net, h, {x, y})
  BY <1>1, <1>2, <1>3 DEF ChangesOnly, fenceVars
<1>6. Exchanges(x, y)
  <2>1. Held[x] = <<j>> /\ Held'[x] = <<>>
    BY <1>1, <1>2, <1>3, HeldAre, HeldAreNext, ZenonT(30) DEF Becomes
  <2>2. Held[y] \in Seq(Jobs)
    BY <1>4, HeldType DEF DInv
  <2> HIDE DEF x, y, j
  <2>3. PICK a \in Seq(Jobs) : a = Held[y]
    BY <2>2
  <2>4. Append(a, j) = a \o <<j>>
    BY <1>1
  <2>5. Held'[y] = Append(Held[y], j)
    BY DEF y, j
  <2> QED
    BY <2>1, <2>3, <2>4, <2>5 DEF Exchanges
<1>7. Moves(Net, h, x, y)
  BY <1>2, <1>4, <1>5, <1>6 DEF Moves
<1> QED
  BY <1>3, <1>7 DEF h

(* The job in the hands of the network thread joins its queue.             *)
LEMMA PushJobKeeps ==
    ASSUME DInv, PushJob
    PROVE  DInv' /\ UNCHANGED F!vars
<1> DEFINE j == thr[Net].jobs[1]
<1>1. thr[Net].pc = "push" /\ UNCHANGED <<fenceVars, postVars, ret, issued>>
  BY DEF PushJob
<1>2. PICK q, pc :
        /\ q \in Pools /\ pc \in {"loop", "none"}
        /\ m_queued_jobs' = [m_queued_jobs EXCEPT ![q] = Append(@, j)]
        /\ thr' = [thr EXCEPT ![Net] = At(pc, <<>>)]
  BY DEF PushJob, QueueForJob, NetGoes, Pools
<1>3. /\ m_queued_jobs \in [Pools -> Seq(Jobs)] /\ j \in Jobs /\ WaitingOf(thr[Net]) = {j}
      /\ ActiveOf(thr[Net]) = {j} /\ ListTypes
  BY <1>1, NetJob DEF DInv, ListTypes
<1> HIDE DEF j
<1>4. /\ m_queued_jobs' \in [Pools -> Seq(Jobs)]
      /\ m_queued_jobs'[q] = Append(m_queued_jobs[q], j)
      /\ \A p \in Pools : p # q => m_queued_jobs'[p] = m_queued_jobs[p]
  BY <1>2, <1>3
<1>5. q \in {"completed", "generic", "hash"} /\ q # "completed"
  BY <1>2 DEF Pools
<1>6. Held'[<<Net, q>>] = Append(Held[<<Net, q>>], j)
  BY <1>2, <1>4, HeldAre, HeldAreNext DEF Pools
<1>7. /\ q = "generic" \/ m_queued_jobs'["generic"] = m_queued_jobs["generic"]
      /\ q = "hash" \/ m_queued_jobs'["hash"] = m_queued_jobs["hash"]
  BY <1>2, <1>4 DEF Pools
<1>8. Becomes(Net, At(pc, <<>>)) /\ Moves(Net, At(pc, <<>>), <<Net, "jobs">>, <<Net, q>>)
  BY <1>1, <1>2, <1>5, <1>6, <1>7, NetHandsOver DEF postVars, j
<1>9. ActiveOf(At(pc, <<>>)) = {} /\ WaitingOf(At(pc, <<>>)) = {}
  BY <1>2, InShapeEmpty DEF EmptyHanded
<1>10. Queued' = Queued \union {j} /\ Blocked' = Blocked
  <2>1. ToSet(m_queued_jobs'[q]) = ToSet(m_queued_jobs[q]) \union {j}
    BY <1>2, <1>3, <1>4, JoinIs
  <2>2. CASE q = "generic"
    BY <1>1, <1>7, <2>1, <2>2 DEF Queued, Blocked, fenceVars
  <2>3. CASE q = "hash"
    BY <1>1, <1>7, <2>1, <2>3 DEF Queued, Blocked, fenceVars
  <2> QED
    BY <1>2, <2>2, <2>3 DEF Pools
<1>11. Active' = Active /\ Waiting' = Waiting
  BY <1>3, <1>8, <1>9, <1>10, OneThread
<1>12. TypesNext
  BY <1>1, <1>4 DEF TypesNext, DInv, ListTypes, postVars
<1> QED
  BY <1>1, <1>8, <1>11, <1>12, SameResults, MoveStep

(* A job refused after abort() goes to the completed ones.                 *)
LEMMA JobFailAddKeeps ==
    ASSUME DInv, NEW k, JobFailAdd(k)
    PROVE  DInv' /\ UNCHANGED F!vars
<1> DEFINE j == thr[Net].jobs[1]
           h == At("none", <<>>)
<1>1. /\ thr[Net].pc = "add" /\ k = j /\ UNCHANGED <<fenceVars, m_queued_jobs, issued, called>>
      /\ thr' = [thr EXCEPT ![Net] = h] /\ ret' = [ret EXCEPT ![j] = "aborted"]
      /\ m_completed_jobs' = Append(m_completed_jobs, j) /\ m_job_completions_in_flight'
  BY DEF JobFailAdd, Adding, NetGoes
<1>2. /\ j \in Jobs /\ WaitingOf(thr[Net]) = {j} /\ ActiveOf(thr[Net]) = {} /\ Net \in Threads
      /\ ToSet(thr[Net].jobs) = {j}
  BY <1>1, NetJob
<1>3. ListTypes /\ ThreadShape /\ OnePlace(Held) /\ ret \in [Jobs -> Results] /\ ResultsExact
  BY DEF DInv
<1>4. h.pc = "none" /\ ActiveOf(h) = {} /\ WaitingOf(h) = {}
  BY InShapeEmpty DEF EmptyHanded
<1> HIDE DEF h
<1>5. Held'[<<Net, "completed">>] = Append(Held[<<Net, "completed">>], j)
  BY <1>1, HeldAre, HeldAreNext
<1>6. Becomes(Net, h) /\ Moves(Net, h, <<Net, "jobs">>, <<Net, "completed">>)
  BY <1>1, <1>5, NetHandsOver DEF h
<1>7. Queued' = Queued /\ Blocked' = Blocked
  BY <1>1 DEF Queued, Blocked, fenceVars
<1>8. Active' = Active
  BY <1>2, <1>4, <1>6, <1>7, OneThread
<1>9. Waiting' = Waiting \ {j}
  <2>1. j \notin Queued /\ j \notin Blocked /\ j \notin OthersWaiting(Net)
    BY <1>2, <1>3, Alone, OthersAreElsewhere
  <2>2. Waiting = Blocked \union Queued \union {j} \union OthersWaiting(Net)
    BY <1>2, <1>6, OneThread
  <2>3. Waiting' = Blocked \union Queued \union OthersWaiting(Net)
    BY <1>4, <1>6, <1>7, OneThread
  <2> HIDE DEF j
  <2> QED
    BY <2>1, <2>2, <2>3
<1>10. j \in ToSet(issued)
  <2>1. <<Net, "jobs">> \in Lists /\ j \in ToSet(Held[<<Net, "jobs">>]) /\ DOMAIN Held = Lists
    BY <1>2, <1>3, HeldAre, ListsAre, HeldType
  <2>2. j \in JobsIn(Held)
    BY <2>1 DEF JobsIn
  <2> QED
    BY <2>2 DEF DInv
<1> HIDE DEF j
<1>11. ResultsExact'
  <2>1. \A i \in Jobs : ret'[i] = IF i = j THEN "aborted" ELSE ret[i]
    BY <1>1, <1>3
  <2> QED
    BY <1>1, <1>3, <1>9, <1>10, <2>1 DEF ResultsExact, IsIssued
<1>12. TypesNext
  <2>1. m_completed_jobs' \in Seq(Jobs)
    BY <1>1, <1>2, <1>3, JoinIs DEF ListTypes
  <2>2. ret' \in [Jobs -> Results]
    BY <1>1, <1>2, <1>3 DEF Results
  <2> QED
    BY <1>1, <1>3, <2>1, <2>2 DEF TypesNext, ListTypes
<1> QED
  BY <1>1, <1>6, <1>8, <1>11, <1>12, MoveStep

(* So is a job that the fence has released.                                *)
LEMMA NewIsAlone ==
    ASSUME ListTypes, ThreadShape, OnePlace(Held), NEW t, t \in Threads, NEW j, j \in ToSet(thr[t].new)
    PROVE  /\ j \notin Blocked /\ j \notin Queued /\ j \notin OthersWaiting(t)
           /\ \A u \in Threads : j \notin ToSet(thr[u].jobs)
<1>1. <<t, "new">> \in Lists /\ j \in ToSet(Held[<<t, "new">>])
  BY HeldAre, ListsAre
<1>2. \A y \in Lists : j \in ToSet(Held[y]) => y = <<t, "new">>
  BY <1>1, SameJob
<1>3. j \notin Blocked /\ j \notin Queued
  <2>1. <<Net, "blocked">> \in Lists /\ <<Net, "generic">> \in Lists /\ <<Net, "hash">> \in Lists
    BY ListsAre
  <2>2. /\ <<Net, "blocked">> # <<t, "new">> /\ <<Net, "generic">> # <<t, "new">>
        /\ <<Net, "hash">> # <<t, "new">>
    OBVIOUS
  <2> QED
    BY <1>2, <2>1, <2>2, HeldAre DEF Blocked, Queued
<1>4. ASSUME NEW u \in Threads PROVE j \notin ToSet(thr[u].jobs)
  <2>1. <<u, "jobs">> \in Lists /\ <<u, "jobs">> # <<t, "new">>
    BY ListsAre
  <2> QED
    BY <1>2, <2>1, HeldAre
<1>5. ASSUME NEW u \in Threads, u # t PROVE j \notin WaitingOf(thr[u])
  <2>1. <<u, "new">> \in Lists /\ <<u, "new">> # <<t, "new">>
    BY <1>5, ListsAre
  <2>2. j \notin ToSet(thr[u].new)
    BY <1>2, <2>1, HeldAre
  <2> QED
    BY <1>4, <2>2 DEF WaitingOf
<1> QED
  BY <1>3, <1>4, <1>5 DEF OthersWaiting

-----------------------------------------------------------------------------
(***************************************************************************)
(* add_completed_jobs.                                                     *)
(***************************************************************************)

(* A thread whose pass has left the fence.                                 *)
LEMMA PassingShape ==
    ASSUME NEW t, NEW g, g \in ThreadState, InShape(t, g), g.pc \in Passing \ {"complete"},
           NEW h, h \in ThreadState, h.pc \in Passing \ {"complete"}, h.jobs = g.jobs, h.todo = g.todo,
           h.pc \in {"notify", "post"} => h.new = <<>>, h.pc # "post" => h.failed = <<>>
    PROVE  /\ InShape(t, h) /\ g.todo = <<>>
           /\ ActiveOf(g) = ToSet(g.new) \union ToSet(g.failed)
           /\ ActiveOf(h) = ToSet(h.new) \union ToSet(h.failed)
           /\ WaitingOf(g) = ToSet(g.new) /\ WaitingOf(h) = ToSet(h.new)
<1>1. g.todo = <<>> /\ \E n \in 0..Len(g.jobs) : g.todo = SubSeq(g.jobs, n + 1, Len(g.jobs))
  BY DEF InShape
<1>2. InShape(t, h)
  BY <1>1 DEF InShape, Passing, EmptyHanded, Early
<1>3. ToSet(<<>>) = {}
  BY ToSetIs
<1> QED
  BY <1>1, <1>2, <1>3 DEF ActiveOf, WaitingOf, Passing, Early

(* The fields of a thread that has failed its released jobs.               *)
LEMMA Rerouted ==
    ASSUME NEW g, g \in ThreadState, NEW s, s \in Seq(Jobs)
    PROVE  LET h == [g EXCEPT !.failed = s, !.new = <<>>, !.pc = "post"]
           IN  /\ h \in ThreadState /\ h.pc = "post" /\ h.failed = s /\ h.new = <<>>
               /\ h.jobs = g.jobs /\ h.todo = g.todo
<1>1. <<>> \in Seq(Jobs)
  OBVIOUS
<1>2. \A e \in Seq(Jobs) :
      LET h == [g EXCEPT !.failed = s, !.new = e, !.pc = "post"]
      IN  /\ h \in ThreadState /\ h.pc = "post" /\ h.failed = s /\ h.new = e
          /\ h.jobs = g.jobs /\ h.todo = g.todo
  BY DEF ThreadState
<1> QED
  BY <1>1, <1>2, Zenon

(* The fields of a thread that has queued its released jobs.               *)
LEMMA HandedOver ==
    ASSUME NEW g, g \in ThreadState
    PROVE  LET h == [g EXCEPT !.new = <<>>, !.pc = "notify"]
           IN  /\ h \in ThreadState /\ h.pc = "notify" /\ h.failed = g.failed /\ h.new = <<>>
               /\ h.jobs = g.jobs /\ h.todo = g.todo
<1>1. <<>> \in Seq(Jobs)
  OBVIOUS
<1>2. \A e \in Seq(Jobs) :
      LET h == [g EXCEPT !.new = e, !.pc = "notify"]
      IN  /\ h \in ThreadState /\ h.pc = "notify" /\ h.failed = g.failed /\ h.new = e
          /\ h.jobs = g.jobs /\ h.todo = g.todo
  BY DEF ThreadState
<1> QED
  BY <1>1, <1>2, Zenon

(* The released jobs are kept for the queue, or failed for the next pass.  *)
LEMMA RouteReleasedKeeps ==
    ASSUME DInv, NEW t, t \in Threads, RouteReleased(t)
    PROVE  DInv' /\ UNCHANGED F!vars
<1>0. /\ thr \in [Threads -> ThreadState] /\ thr[t] \in ThreadState /\ InShape(t, thr[t])
      /\ ListTypes /\ ThreadShape /\ OnePlace(Held) /\ ret \in [Jobs -> Results] /\ ResultsExact
  BY DEF DInv, ListTypes, ThreadShape
<1>1. thr[t].pc = "route" /\ UNCHANGED <<fenceVars, m_queued_jobs, postVars, issued>>
  BY DEF RouteReleased
<1>2. thr[t].failed = <<>> /\ thr[t].pc \in Passing \ {"complete"} /\ thr[t].new \in Seq(Jobs)
  BY <1>0, <1>1, ThreadStateIs DEF InShape, Passing
<1>3. CASE ~ m_abort
  <2>1. PICK pc : /\ pc \in {"post", "append"} /\ (pc = "post" => thr[t].new = <<>>)
                  /\ thr' = [thr EXCEPT ![t].pc = pc]
    BY <1>3 DEF RouteReleased, GoesOn
  <2>2. Advances(t, pc)
    BY <1>0, <2>1, AdvancesIs DEF Pcs
  <2>3. PICK h \in ThreadState :
        /\ Becomes(t, h)
        /\ h.pc = pc /\ h.jobs = thr[t].jobs /\ h.todo = thr[t].todo
        /\ h.new = thr[t].new /\ h.failed = thr[t].failed
    BY <2>2 DEF Advances
  <2>4. h.pc \in Passing \ {"complete"}
    BY <2>1, <2>3 DEF Passing
  <2>5. h.pc # "notify" /\ h.pc # "add" /\ (h.pc = "post" => h.new = <<>>)
    BY <2>1, <2>3
  <2>6. /\ InShape(t, h) /\ ActiveOf(thr[t]) = ToSet(thr[t].new) \union ToSet(thr[t].failed)
        /\ ActiveOf(h) = ToSet(h.new) \union ToSet(h.failed)
        /\ WaitingOf(thr[t]) = ToSet(thr[t].new) /\ WaitingOf(h) = ToSet(h.new)
    BY <1>0, <1>2, <2>3, <2>4, <2>5, PassingShape
  <2>7. Same(thr[t], h)
    BY <2>3, <2>6 DEF Same
  <2>8. UNCHANGED ret
    BY <1>3 DEF RouteReleased
  <2> QED
    BY <1>1, <2>3, <2>5, <2>6, <2>7, <2>8, QuietThread
<1>4. CASE m_abort
  <2> DEFINE g == thr[t]
             h == [g EXCEPT !.failed = g.new, !.new = <<>>, !.pc = "post"]
             x == <<t, "new">>
             y == <<t, "failed">>
  <2>1. thr' = [thr EXCEPT ![t] = h]
    BY <1>4 DEF RouteReleased
  <2>2. /\ h \in ThreadState /\ h.pc = "post" /\ h.failed = g.new /\ h.new = <<>>
        /\ h.jobs = g.jobs /\ h.todo = g.todo
    <3> HIDE DEF g
    <3>1. g \in ThreadState /\ g.new \in Seq(Jobs)
      BY <1>0, <1>2 DEF g
    <3> QED
      BY <3>1, Rerouted
  <2> HIDE DEF h
  <2>3. Becomes(t, h)
    BY <1>0, <2>1, <2>2, BecomesIs
  <2>4. h.pc \in Passing \ {"complete"} /\ h.pc # "add"
    BY <2>2 DEF Passing
  <2>5. /\ InShape(t, h) /\ ActiveOf(g) = ToSet(g.new) \union ToSet(g.failed)
        /\ ActiveOf(h) = ToSet(h.new) \union ToSet(h.failed)
        /\ WaitingOf(g) = ToSet(g.new) /\ WaitingOf(h) = ToSet(h.new)
    BY <1>0, <1>2, <2>2, <2>4, PassingShape
  <2>6. ToSet(<<>>) = {}
    BY ToSetIs
  <2>7. ActiveOf(h) = ActiveOf(g) /\ WaitingOf(h) = {}
    BY <1>2, <2>2, <2>5, <2>6
  <2>8. Queued' = Queued /\ Blocked' = Blocked
    BY <1>1 DEF Queued, Blocked, fenceVars
  <2>9. Active' = Active
    BY <2>3, <2>7, <2>8, OneThread
  <2>10. Waiting' = Waiting \ ToSet(g.new)
    <3>1. ASSUME NEW j \in ToSet(g.new)
          PROVE  j \notin Queued /\ j \notin Blocked /\ j \notin OthersWaiting(t)
      BY <1>0, NewIsAlone
    <3>2. Waiting = Blocked \union Queued \union ToSet(g.new) \union OthersWaiting(t)
      BY <2>3, <2>5, OneThread
    <3>3. Waiting' = Blocked \union Queued \union OthersWaiting(t)
      BY <2>3, <2>7, <2>8, OneThread
    <3> HIDE DEF g
    <3> QED
      BY <3>1, <3>2, <3>3
  <2>11. ToSet(g.new) \subseteq ToSet(issued)
    <3>1. <<t, "new">> \in Lists /\ Held[<<t, "new">>] = g.new /\ DOMAIN Held = Lists
      BY <1>0, HeldAre, ListsAre, HeldType
    <3>2. ToSet(g.new) \subseteq JobsIn(Held)
      BY <3>1 DEF JobsIn
    <3> QED
      BY <3>2 DEF DInv
  <2>12. \A i \in Jobs : ret'[i] = IF i \in ToSet(g.new) THEN "aborted" ELSE ret[i]
    BY <1>4 DEF RouteReleased
  <2>13. ResultsExact'
    <3> HIDE DEF g
    <3> QED
      BY <1>0, <1>1, <2>10, <2>11, <2>12 DEF ResultsExact, IsIssued
  <2>14. TypesNext
    <3>1. ret' \in [Jobs -> Results]
      BY <1>0, <1>4 DEF RouteReleased, Results
    <3> QED
      BY <1>1, <3>1 DEF TypesNext, DInv, ListTypes, postVars
  <2>15. x \in Lists /\ y \in Lists /\ x # y
    BY ListsAre
  <2>16. ChangesOnly(t, h, {x, y})
    BY <1>1, <2>2, <2>3 DEF ChangesOnly, fenceVars, postVars
  <2>17. Exchanges(x, y)
    <3>1. Held[x] = g.new /\ Held[y] = <<>> /\ Held'[x] = <<>> /\ Held'[y] = g.new
      BY <1>2, <2>2, <2>3, HeldAre, HeldAreNext DEF Becomes
    <3>2. <<>> \o g.new = g.new
      BY <1>2
    <3> HIDE DEF x, y, g
    <3> QED
      BY <3>1, <3>2, Zenon DEF Exchanges
  <2>18. Moves(t, h, x, y)
    BY <2>4, <2>5, <2>15, <2>16, <2>17 DEF Moves
  <2> HIDE DEF x, y
  <2> QED
    BY <1>1, <2>9, <2>13, <2>14, <2>18, MoveStep
<1> QED
  BY <1>3, <1>4

(* The released jobs join the generic queue.                               *)
LEMMA AppendReleasedKeeps ==
    ASSUME DInv, NEW t, t \in Threads, AppendReleased(t)
    PROVE  DInv' /\ UNCHANGED F!vars
<1> DEFINE g == thr[t]
           h == [g EXCEPT !.new = <<>>, !.pc = "notify"]
           x == <<t, "new">>
           y == <<Net, "generic">>
<1>0. /\ thr \in [Threads -> ThreadState] /\ g \in ThreadState /\ InShape(t, g) /\ ListTypes
      /\ m_queued_jobs \in [Pools -> Seq(Jobs)]
  BY DEF DInv, ListTypes, ThreadShape
<1>1. g.pc = "append" /\ UNCHANGED <<fenceVars, postVars, ret, issued>> /\ thr' = [thr EXCEPT ![t] = h]
  BY DEF AppendReleased
<1>2. g.failed = <<>> /\ g.pc \in Passing \ {"complete"} /\ g.new \in Seq(Jobs)
  BY <1>0, <1>1, ThreadStateIs DEF InShape, Passing
<1>3. /\ h \in ThreadState /\ h.pc = "notify" /\ h.failed = g.failed /\ h.new = <<>>
      /\ h.jobs = g.jobs /\ h.todo = g.todo
  <2> HIDE DEF g
  <2> QED
    BY <1>0, HandedOver
<1> HIDE DEF h
<1>4. Becomes(t, h)
  BY <1>0, <1>1, <1>3, BecomesIs
<1>5. h.pc \in Passing \ {"complete"} /\ h.pc # "add"
  BY <1>3 DEF Passing
<1>6. /\ InShape(t, h) /\ ActiveOf(g) = ToSet(g.new) \union ToSet(g.failed)
      /\ ActiveOf(h) = ToSet(h.new) \union ToSet(h.failed)
      /\ WaitingOf(g) = ToSet(g.new) /\ WaitingOf(h) = ToSet(h.new)
  BY <1>0, <1>2, <1>3, <1>5, PassingShape
<1>7. /\ m_queued_jobs' \in [Pools -> Seq(Jobs)] /\ m_queued_jobs'["hash"] = m_queued_jobs["hash"]
      /\ m_queued_jobs'["generic"] = m_queued_jobs["generic"] \o g.new
      /\ m_queued_jobs["generic"] \in Seq(Jobs)
  <2>1. m_queued_jobs["generic"] \o g.new \in Seq(Jobs)
    BY <1>0, <1>2, ConcatProperties DEF Pools
  <2> QED
    BY <1>0, <2>1 DEF AppendReleased, Pools
<1>8. Queued' = Queued \union ToSet(g.new) /\ Blocked' = Blocked
  <2>1. ToSet(m_queued_jobs["generic"] \o g.new) = ToSet(m_queued_jobs["generic"]) \union ToSet(g.new)
    BY <1>2, <1>7, ToSetIs
  <2> QED
    BY <1>1, <1>7, <2>1 DEF Queued, Blocked, fenceVars
<1>9. ToSet(<<>>) = {}
  BY ToSetIs
<1>10. Active' = Active /\ Waiting' = Waiting
  <2>1. ActiveOf(g) = ToSet(g.new) /\ WaitingOf(g) = ToSet(g.new) /\ ActiveOf(h) = {} /\ WaitingOf(h) = {}
    BY <1>2, <1>3, <1>6, <1>9
  <2>2. /\ Active = Queued \union ActiveOf(g) \union OthersActive(t)
        /\ Active' = Queued' \union ActiveOf(h) \union OthersActive(t)
        /\ Waiting = Blocked \union Queued \union WaitingOf(g) \union OthersWaiting(t)
        /\ Waiting' = Blocked' \union Queued' \union WaitingOf(h) \union OthersWaiting(t)
    BY <1>4, OneThread
  <2> HIDE DEF g
  <2> QED
    BY <1>8, <2>1, <2>2
<1>11. TypesNext
  BY <1>1, <1>7 DEF TypesNext, DInv, ListTypes, postVars
<1>12. x \in Lists /\ y \in Lists /\ x # y
  BY ListsAre
<1>13. ChangesOnly(t, h, {x, y})
  BY <1>1, <1>3, <1>4, <1>7 DEF ChangesOnly, fenceVars, postVars
<1>14. Exchanges(x, y)
  <2>1. /\ Held[x] = g.new /\ Held[y] = m_queued_jobs["generic"]
        /\ Held'[x] = <<>> /\ Held'[y] = m_queued_jobs'["generic"]
    BY <1>3, <1>4, HeldAre, HeldAreNext DEF Becomes
  <2> HIDE DEF x, y, g
  <2> QED
    BY <1>7, <2>1, Zenon DEF Exchanges
<1>15. Moves(t, h, x, y)
  BY <1>5, <1>6, <1>12, <1>13, <1>14 DEF Moves
<1> HIDE DEF x, y
<1> QED
  BY <1>1, <1>10, <1>11, <1>15, SameResults, MoveStep

(* Finding threads for the released jobs moves none.                       *)
LEMMA NotifyReleasedKeeps ==
    ASSUME DInv, NEW t, t \in Threads, NotifyReleased(t)
    PROVE  DInv' /\ UNCHANGED F!vars
<1> DEFINE g == thr[t]
           h == [g EXCEPT !.pc = "post"]
           base == [thr EXCEPT ![t] = h]
<1>0. thr \in [Threads -> ThreadState] /\ g \in ThreadState /\ InShape(t, g)
  BY DEF DInv, ListTypes, ThreadShape
<1>1. /\ g.pc = "notify" /\ UNCHANGED <<fenceVars, m_queued_jobs, postVars, ret, issued>>
      /\ NotifyQueues({"generic"}, base)
  BY DEF NotifyReleased
<1>2. g.failed = <<>> /\ g.new = <<>> /\ g.pc \in Passing \ {"complete"}
  BY <1>0, <1>1 DEF InShape, Passing
<1>3. /\ h \in ThreadState /\ h.pc = "post" /\ h.failed = g.failed /\ h.new = g.new
      /\ h.jobs = g.jobs /\ h.todo = g.todo
  <2> HIDE DEF g
  <2> QED
    BY <1>0 DEF ThreadState
<1> HIDE DEF h
<1>4. h.pc \in Passing \ {"complete"} /\ h.pc # "add"
  BY <1>3 DEF Passing
<1>5. /\ InShape(t, h) /\ ActiveOf(g) = ToSet(g.new) \union ToSet(g.failed)
      /\ ActiveOf(h) = ToSet(h.new) \union ToSet(h.failed)
      /\ WaitingOf(g) = ToSet(g.new) /\ WaitingOf(h) = ToSet(h.new)
  BY <1>0, <1>2, <1>3, <1>4, PassingShape
<1>6. Same(g, h)
  BY <1>3, <1>5 DEF Same
<1>7. base \in [Threads -> ThreadState] /\ base[t] = h /\ \A u \in Threads : u # t => base[u] = thr[u]
  BY <1>0, <1>3
<1> HIDE DEF base
<1>8. \A u \in Threads : \/ base[u] = thr[u]
                         \/ Same(thr[u], base[u]) /\ InShape(u, base[u]) /\ base[u].pc # "add"
  BY <1>4, <1>5, <1>6, <1>7
<1> QED
  BY <1>1, <1>7, <1>8, NotifyQuiet

(* The jobs of the pass are posted, the failed ones start another pass.    *)
LEMMA PostCompletedKeeps ==
    ASSUME DInv, NEW t, t \in Threads, PostCompleted(t)
    PROVE  DInv' /\ UNCHANGED F!vars
<1> DEFINE g == thr[t]
           h == IF g.failed # <<>> THEN At("complete", g.failed) ELSE At("loop", <<>>)
           x == <<t, "jobs">>
           y == <<Net, "completed">>
           z == <<t, "failed">>
           M == [Held EXCEPT ![x] = <<>>, ![y] = Held[y] \o Held[x]]
<1>0. /\ thr \in [Threads -> ThreadState] /\ g \in ThreadState /\ InShape(t, g) /\ ListTypes
      /\ OnePlace(Held) /\ ThreadShape /\ Held \in [Lists -> Seq(Jobs)] /\ m_completed_jobs \in Seq(Jobs)
  BY HeldType DEF DInv, ListTypes, ThreadShape
<1>1. /\ g.pc = "post" /\ UNCHANGED <<fenceVars, m_queued_jobs, ret, issued, called>>
      /\ thr' = [thr EXCEPT ![t] = h] /\ m_completed_jobs' = m_completed_jobs \o g.jobs
      /\ m_job_completions_in_flight'
  BY DEF PostCompleted
<1>2. /\ g.new = <<>> /\ g.todo = <<>> /\ g.failed \in Seq(Jobs) /\ g.jobs \in Seq(Jobs)
  BY <1>0, <1>1, ThreadStateIs DEF InShape, Passing
<1>3. ToSet(<<>>) = {}
  BY ToSetIs
<1>4. ActiveOf(g) = ToSet(g.failed) /\ WaitingOf(g) = {}
  BY <1>1, <1>2, <1>3 DEF ActiveOf, WaitingOf, Early
<1>5. /\ h \in ThreadState /\ InShape(t, h) /\ h.pc # "add"
      /\ h.jobs = g.failed /\ h.new = <<>> /\ h.failed = <<>>
      /\ ActiveOf(h) = ToSet(g.failed) /\ WaitingOf(h) = {}
  <2>1. CASE g.failed = <<>>
    <3>1. h = At("loop", <<>>)
      BY <2>1
    <3>2. "loop" \in EmptyHanded
      BY DEF EmptyHanded
    <3> HIDE DEF h
    <3> QED
      BY <1>3, <2>1, <3>1, <3>2, InShapeEmpty
  <2>2. CASE g.failed # <<>>
    <3>1. h = At("complete", g.failed)
      BY <2>2
    <3>2. "complete" \in Pcs
      BY DEF Pcs
    <3> HIDE DEF h
    <3>3. /\ h \in ThreadState /\ h.pc = "complete" /\ h.jobs = g.failed /\ h.todo = g.failed
          /\ h.new = <<>> /\ h.failed = <<>>
      BY <1>2, <3>1, <3>2, AtIs
    <3>4. \E n \in 0..Len(h.jobs) : h.todo = SubSeq(h.jobs, n + 1, Len(h.jobs))
      <4>1. PICK s \in Seq(Jobs) : s = g.failed
        BY <1>2
      <4>2. 0 \in 0..Len(s) /\ s = SubSeq(s, 0 + 1, Len(s))
        OBVIOUS
      <4> QED
        BY <3>3, <4>1, <4>2
    <3>5. InShape(t, h)
      BY <2>2, <3>3, <3>4 DEF InShape, EmptyHanded, Early, Passing
    <3> QED
      BY <1>3, <3>3, <3>5 DEF ActiveOf, WaitingOf, Early
  <2> QED
    BY <2>1, <2>2
<1> HIDE DEF h
<1>6. Becomes(t, h)
  BY <1>0, <1>1, <1>5, BecomesIs
<1>7. Queued' = Queued /\ Blocked' = Blocked
  BY <1>1 DEF Queued, Blocked, fenceVars
<1>8. Active' = Active /\ Waiting' = Waiting
  BY <1>4, <1>5, <1>6, <1>7, OneThread
<1>9. x \in Lists /\ y \in Lists /\ z \in Lists /\ x # y /\ x # z /\ y # z
  BY ListsAre
<1>10. ChangesOnly(t, h, {x, y, z})
  BY <1>1, <1>2, <1>5, <1>6 DEF ChangesOnly, fenceVars
<1>11. /\ Held[x] = g.jobs /\ Held[y] = m_completed_jobs /\ Held[z] = g.failed
       /\ Held'[x] = g.failed /\ Held'[y] = m_completed_jobs \o g.jobs /\ Held'[z] = <<>>
  BY <1>1, <1>5, <1>6, HeldAre, HeldAreNext DEF Becomes
<1>12. m_completed_jobs \o g.jobs \in Seq(Jobs) /\ <<>> \in Seq(Jobs)
  BY <1>0, <1>2, ConcatProperties
<1>13. Held' \in [Lists -> Seq(Jobs)]
  <2>1. ListTypes'
    BY <1>0, <1>1, <1>6, <1>12 DEF ListTypes, Becomes, fenceVars
  <2> QED
    BY <2>1, HeldTypeNext
<1>14. \A w \in Lists : w \notin {x, y, z} => Held'[w] = Held[w]
  BY <1>10, HeldElse
<1>15. OnePlace(Held') /\ JobsIn(Held') = JobsIn(Held)
  <2> HIDE DEF x, y, z, g
  <2>1. /\ M \in [Lists -> Seq(Jobs)] /\ M[x] = <<>> /\ M[y] = Held[y] \o Held[x]
        /\ \A w \in Lists : w # x /\ w # y => M[w] = Held[w]
    BY <1>0, <1>9, <1>11, <1>12
  <2> HIDE DEF M
  <2>2. MovedAll(Held, M, Lists, x, y)
    BY <1>0, <1>9, <2>1 DEF MovedAll
  <2>3. (OnePlace(Held) => OnePlace(M)) /\ JobsIn(M) = JobsIn(Held)
    BY <2>2, WholeMoveKeeps
  <2>4. <<>> \o g.failed = g.failed
    BY <1>2
  <2>5. MovedAll(M, Held', Lists, z, x)
    BY <1>9, <1>11, <1>13, <1>14, <2>1, <2>4, Zenon DEF MovedAll
  <2>6. (OnePlace(M) => OnePlace(Held')) /\ JobsIn(Held') = JobsIn(M)
    BY <2>5, WholeMoveKeeps
  <2> QED
    BY <1>0, <2>3, <2>6
<1>16. ThreadShape'
  BY <1>0, <1>5, <1>6 DEF ThreadShape, Becomes
<1>17. thr'[Net].pc = "add" => thr[Net].pc = "add" /\ thr'[Net].jobs = thr[Net].jobs
  BY <1>5, <1>6 DEF Becomes, Threads
<1>18. ResultsExact'
  BY <1>1, <1>8, SameResults
<1>19. UNCHANGED F!vars
  BY <1>1, <1>8, FenceUntouched
<1>20. /\ UNCHANGED <<issued, reached>> /\ m_queued_jobs' \in [Pools -> Seq(Jobs)]
       /\ m_completed_jobs' \in Seq(Jobs) /\ called' \in Seq(Jobs) /\ ret' \in [Jobs -> Results]
       /\ thr' \in [Threads -> ThreadState]
  BY <1>1, <1>6, <1>12 DEF DInv, ListTypes, fenceVars, Becomes
<1> QED
  BY <1>1, <1>15, <1>16, <1>17, <1>18, <1>19, <1>20, StepKeeps DEF FenceStep

(* The first job that has not left the fence is not among the others.      *)
LEMMA TodoAlone ==
    ASSUME ListTypes, OnePlace(Held), NEW t, t \in Threads, InShape(t, thr[t]), thr[t].todo # <<>>
    PROVE  /\ Head(thr[t].todo) \in ToSet(thr[t].jobs) /\ Head(thr[t].todo) \in Jobs
           /\ Head(thr[t].todo) \notin ToSet(Tail(thr[t].todo))
           /\ ToSet(thr[t].todo) = {Head(thr[t].todo)} \union ToSet(Tail(thr[t].todo))
           /\ \E n \in 0..Len(thr[t].jobs) : Tail(thr[t].todo) = SubSeq(thr[t].jobs, n + 1, Len(thr[t].jobs))
<1> DEFINE s == thr[t].jobs
           r == thr[t].todo
<1>1. thr[t] \in ThreadState
  BY DEF ListTypes
<1>2. PICK n \in 0..Len(s) : r = SubSeq(s, n + 1, Len(s))
  BY DEF InShape
<1>3. s \in Seq(Jobs) /\ r \in Seq(Jobs) /\ r # <<>> /\ ToSet(r) \subseteq ToSet(s)
  BY <1>1, ThreadStateIs, TodoInJobs
<1>4. \A i, k \in DOMAIN s : s[i] = s[k] => i = k
  <2>1. <<t, "jobs">> \in Lists /\ Held[<<t, "jobs">>] = s /\ DOMAIN Held = Lists
    BY HeldAre, ListsAre, HeldType
  <2> QED
    BY <2>1 DEF OnePlace
<1> HIDE DEF s, r
<1>5. /\ Len(s) \in Nat /\ n \in Nat /\ n <= Len(s) /\ DOMAIN s = 1..Len(s)
      /\ Len(r) = Len(s) - n /\ \A i \in 1..Len(r) : r[i] = s[i + n]
  BY <1>2, <1>3
<1>6. /\ Len(r) \in Nat /\ Len(r) >= 1 /\ Head(r) = r[1] /\ Tail(r) \in Seq(Jobs)
      /\ DOMAIN Tail(r) = 1..(Len(r) - 1) /\ \A i \in 1..(Len(r) - 1) : Tail(r)[i] = r[i + 1]
  BY <1>3
<1>7. Head(r) \notin ToSet(Tail(r))
  <2> SUFFICES ASSUME NEW i \in 1..(Len(r) - 1), r[i + 1] = r[1]
               PROVE  FALSE
    BY <1>6 DEF ToSet
  <2>0. i \in Nat /\ i >= 1 /\ i + 1 \in 1..Len(r) /\ 1 \in 1..Len(r)
    BY <1>6
  <2>1. s[(i + 1) + n] = s[1 + n]
    BY <1>5, <2>0
  <2>2. (i + 1) + n \in 1..Len(s) /\ 1 + n \in 1..Len(s)
    <3>1. PICK k \in 1..Len(r) : k = i + 1
      BY <2>0
    <3>2. \A l \in 1..Len(r) : l + n \in 1..Len(s)
      <4>1. PICK m \in Nat : m = Len(s)
        BY <1>5
      <4>2. Len(r) = m - n
        BY <1>5, <4>1
      <4>3. \A l \in 1..(m - n) : l + n \in 1..m
        BY <1>5
      <4> QED
        BY <4>1, <4>2, <4>3
    <3> QED
      BY <2>0, <3>2
  <2> QED
    BY <1>4, <1>5, <2>1, <2>2
<1>8. ToSet(r) = {Head(r)} \union ToSet(Tail(r))
  BY <1>3, ToSetIs
<1>9. Head(r) \in ToSet(s) /\ Head(r) \in Jobs
  BY <1>3, <1>8, ToSetIs
<1>10. \E m \in 0..Len(s) : Tail(r) = SubSeq(s, m + 1, Len(s))
  <2>1. n + 1 \in 0..Len(s)
    BY <1>5, <1>6
  <2>2. Tail(r) = SubSeq(s, (n + 1) + 1, Len(s))
    <3>1. PICK m \in Nat : m = Len(s)
      BY <1>5
    <3>2. PICK l \in Nat : l = n + 2
      BY <1>5
    <3> DEFINE u == SubSeq(s, l, m)
    <3>3. l <= m + 1 /\ l >= 1
      <4>1. n + 1 <= m
        BY <2>1, <3>1
      <4> QED
        BY <1>5, <3>2, <4>1
    <3>4. /\ u \in Seq(Jobs) /\ Len(u) = (m - l) + 1 /\ \A i \in 1..((m - l) + 1) : u[i] = s[l + i - 1]
      BY <1>3, <3>1, <3>3, SubSeqProperties
    <3>5. Len(Tail(r)) = Len(r) - 1 /\ Len(r) = m - n
      BY <1>3, <1>5, <3>1
    <3> HIDE DEF u
    <3>6. Len(Tail(r)) = Len(u)
      <4>1. Len(Tail(r)) = (m - n) - 1
        BY <3>5
      <4>2. (m - n) - 1 = (m - l) + 1
        BY <1>5, <3>2
      <4> QED
        BY <3>4, <4>1, <4>2
    <3>7. ASSUME NEW i \in 1..Len(u) PROVE Tail(r)[i] = u[i]
      <4>1. i \in 1..(Len(r) - 1) /\ i + 1 \in 1..Len(r) /\ i \in 1..((m - l) + 1)
        BY <1>6, <3>4, <3>5, <3>6
      <4>2. Tail(r)[i] = r[i + 1] /\ r[i + 1] = s[(i + 1) + n] /\ u[i] = s[l + i - 1]
        BY <1>5, <1>6, <3>4, <4>1
      <4>3. (i + 1) + n = l + i - 1
        BY <1>5, <3>2
      <4> QED
        BY <4>2, <4>3
    <3>8. Tail(r) = u
      BY <1>6, <3>4, <3>6, <3>7, SeqEqual
    <3> QED
      BY <1>5, <3>1, <3>2, <3>8 DEF u
  <2> QED
    BY <2>1, <2>2
<1> QED
  BY <1>7, <1>8, <1>9, <1>10 DEF s, r

(* job_complete: the job leaves the fence, the released ones come along.   *)
LEMMA LeaveFenceKeeps ==
    ASSUME DInv, NEW t, t \in Threads, LeaveFence(t)
    PROVE  DInv' /\ FenceStep
<1> DEFINE g == thr[t]
           j == Head(g.todo)
           s == g.new
           B == fence.m_blocked_jobs
           n == Released(fence, j \in FenceJobs, FenceJobs, fence.m_outstanding_jobs - 1, s)
           b == SubSeq(B, 1, n)
           c == SubSeq(B, n + 1, Len(B))
           jobs == IF j \in FenceJobs THEN s \o b ELSE b \o s
           pc == IF Len(g.todo) = 1 THEN "route" ELSE "complete"
           h == [g EXCEPT !.todo = Tail(g.todo), !.new = jobs, !.pc = pc]
           x == <<Net, "blocked">>
           y == <<t, "new">>
<1>0. /\ thr \in [Threads -> ThreadState] /\ g \in ThreadState /\ InShape(t, g) /\ ListTypes
      /\ OnePlace(Held) /\ ThreadShape /\ Held \in [Lists -> Seq(Jobs)] /\ F!IInv
      /\ Active \union Blocked \subseteq ToSet(reached)
  BY HeldType DEF DInv, ListTypes, ThreadShape
<1>1. /\ g.pc = "complete" /\ UNCHANGED <<reached, m_queued_jobs, postVars, ret, issued>>
      /\ thr' = [thr EXCEPT ![t] = h] /\ fence' = JobComplete(fence, j, FenceJobs, s).fence
      /\ fence'.m_blocked_jobs = c
  BY DEF LeaveFence, JobComplete
<1>2. /\ g.todo # <<>> /\ g.failed = <<>> /\ s \in Seq(Jobs) /\ g.todo \in Seq(Jobs)
      /\ Tail(g.todo) \in Seq(Jobs)
  <2>1. s \in Seq(Jobs) /\ g.todo \in Seq(Jobs)
    BY <1>0, ThreadStateIs, Zenon
  <2>2. g.todo # <<>> /\ g.failed = <<>>
    <3> HIDE DEF g
    <3> QED
      BY <1>0, <1>1, Zenon DEF InShape
  <2>3. Tail(g.todo) \in Seq(Jobs)
    <3> HIDE DEF g
    <3> QED
      BY <2>1, <2>2
  <2> QED
    BY <2>1, <2>2, <2>3, Zenon
<1>3. /\ j \in ToSet(g.jobs) /\ j \in Jobs /\ j \notin ToSet(Tail(g.todo))
      /\ ToSet(g.todo) = {j} \union ToSet(Tail(g.todo))
      /\ \E m \in 0..Len(g.jobs) : Tail(g.todo) = SubSeq(g.jobs, m + 1, Len(g.jobs))
  BY <1>0, <1>2, TodoAlone
<1>4. /\ j \notin Queued /\ j \notin ToSet(s) /\ j \notin OthersActive(t)
  BY <1>0, <1>3, Alone, OthersAreElsewhere
<1>5. ActiveOf(g) = {j} \union ToSet(Tail(g.todo)) \union ToSet(s) /\ WaitingOf(g) = ToSet(s)
  <2>1. ToSet(<<>>) = {}
    BY ToSetIs
  <2> QED
    BY <1>1, <1>2, <1>3, <2>1 DEF ActiveOf, WaitingOf, Early
<1>6. j \in Active /\ ToSet(s) \subseteq Active \ {j}
  <2>1. ActiveOf(g) \subseteq Active
    BY DEF Active
  <2> HIDE DEF g, j, s
  <2> QED
    BY <1>4, <1>5, <2>1
<1>7. B \in Seq(Jobs) /\ n \in 0..Len(B)
  BY <1>0, <1>2, <1>6, ReleaseIs
<1>8. b \in Seq(Jobs) /\ c \in Seq(Jobs) /\ ToSet(b) \union ToSet(c) = ToSet(B)
  BY <1>7, SplitIs
<1> HIDE DEF j, n
<1>9. jobs \in Seq(Jobs) /\ ToSet(jobs) = ToSet(s) \union ToSet(b)
  <2> HIDE DEF b, s
  <2>1. /\ s \o b \in Seq(Jobs) /\ b \o s \in Seq(Jobs)
    BY <1>2, <1>8, ConcatProperties
  <2>2. ToSet(s \o b) = ToSet(s) \union ToSet(b) /\ ToSet(b \o s) = ToSet(b) \union ToSet(s)
    BY <1>2, <1>8, ToSetIs
  <2> QED
    BY <2>1, <2>2
<1> HIDE DEF jobs, b, c
<1>10. /\ h \in ThreadState /\ h.pc = pc /\ h.failed = g.failed /\ h.new = jobs /\ h.jobs = g.jobs
       /\ h.todo = Tail(g.todo)
  <2>1. pc \in Pcs
    BY DEF Pcs
  <2> HIDE DEF g, pc
  <2>2. PICK r \in Seq(Jobs) : r = Tail(g.todo)
    BY <1>2
  <2>3. h = [g EXCEPT !.todo = r, !.new = jobs, !.pc = pc]
    BY <2>2
  <2> HIDE DEF h
  <2>4. g \in ThreadState /\ jobs \in Seq(Jobs)
    BY <1>0, <1>9
  <2>5. /\ h \in ThreadState /\ h.pc = pc /\ h.failed = g.failed /\ h.new = jobs /\ h.jobs = g.jobs
        /\ h.todo = r
    BY <2>1, <2>3, <2>4 DEF ThreadState, Pcs
  <2> QED
    BY <2>2, <2>5
<1> HIDE DEF h
<1>11. Becomes(t, h)
  BY <1>0, <1>1, <1>10, BecomesIs
<1>12. pc \in {"route", "complete"}
  OBVIOUS
<1>13. InShape(t, h)
  <2>1. /\ pc = "complete" => Tail(g.todo) # <<>>
        /\ pc = "route" => Tail(g.todo) = <<>>
    <3>1. PICK q \in Seq(Jobs) : q = g.todo
      BY <1>2
    <3>2. q # <<>> /\ pc = IF Len(q) = 1 THEN "route" ELSE "complete"
      BY <1>2, <3>1
    <3>3. Len(q) = 1 <=> Tail(q) = <<>>
      <4>1. Tail(q) \in Seq(Jobs) /\ Len(Tail(q)) = Len(q) - 1 /\ Len(q) \in Nat
        BY <3>2
      <4>2. Tail(q) = <<>> <=> Len(Tail(q)) = 0
        BY <4>1, EmptySeq
      <4> QED
        BY <4>1, <4>2
    <3> QED
      BY <3>1, <3>2, <3>3
  <2> HIDE DEF pc
  <2> QED
    BY <1>2, <1>3, <1>10, <1>12, <2>1 DEF InShape, Passing, EmptyHanded, Early
<1>14. ActiveOf(h) = ToSet(Tail(g.todo)) \union ToSet(s) \union ToSet(b)
  <2>1. ToSet(<<>>) = {}
    BY ToSetIs
  <2>2. ActiveOf(h) = ToSet(Tail(g.todo)) \union ToSet(jobs)
    BY <1>2, <1>10, <1>12, <2>1 DEF ActiveOf
  <2> HIDE DEF s, g
  <2> QED
    BY <1>9, <2>2
<1>15. WaitingOf(h) = ToSet(s) \union ToSet(b)
  BY <1>9, <1>10, <1>12 DEF WaitingOf, Early
<1>16. Queued' = Queued /\ Blocked' = ToSet(c) /\ Blocked = ToSet(B)
  BY <1>1 DEF Queued, Blocked
<1>17. /\ Active = Queued \union ActiveOf(g) \union OthersActive(t)
       /\ Active' = Queued' \union ActiveOf(h) \union OthersActive(t)
       /\ Waiting = Blocked \union Queued \union WaitingOf(g) \union OthersWaiting(t)
       /\ Waiting' = Blocked' \union Queued' \union WaitingOf(h) \union OthersWaiting(t)
  BY <1>11, OneThread
<1>18. Active' = (Active \ {j}) \union ToSet(b)
  <2> HIDE DEF g, s
  <2> QED
    BY <1>3, <1>4, <1>5, <1>14, <1>16, <1>17
<1>19. Waiting' = Waiting
  <2> HIDE DEF g, s, B
  <2> QED
    BY <1>5, <1>8, <1>15, <1>16, <1>17
<1>20. F!Complete(j)
  BY <1>0, <1>1, <1>2, <1>6, <1>18, FenceSeesCompletion DEF n, b
<1>21. FenceStep
  <2>1. F!Next
    BY <1>3, <1>20 DEF F!Next
  <2> QED
    BY <2>1 DEF FenceStep
<1>22. x \in Lists /\ y \in Lists /\ x # y
  BY ListsAre
<1>23. ChangesOnly(t, h, {x, y})
  BY <1>1, <1>10, <1>11 DEF ChangesOnly, postVars
<1>24. Held[x] = B /\ Held[y] = s /\ Held'[x] = c /\ Held'[y] = jobs
  BY <1>1, <1>10, <1>11, HeldAre, HeldAreNext DEF Becomes
<1>25. OnePlace(Held') /\ JobsIn(Held') = JobsIn(Held)
  <2>1. \A z \in Lists : z \notin {x, y} => Held'[z] = Held[z]
    BY <1>23, HeldElse
  <2>2. Held' = [z \in Lists |-> Held'[z]]
    BY HeldAreNext
  <2>3. Held' \in [Lists -> Seq(Jobs)]
    <3> HIDE DEF x, y
    <3>1. \A z \in Lists : Held'[z] \in Seq(Jobs)
      BY <1>0, <1>8, <1>9, <1>24, <2>1
    <3> QED
      BY <2>2, <3>1
  <2>4. /\ Held'[x] = SubSeq(Held[x], n + 1, Len(Held[x])) /\ n \in 0..Len(Held[x])
        /\ Held'[y] \in {Held[y] \o SubSeq(Held[x], 1, n), SubSeq(Held[x], 1, n) \o Held[y]}
    BY <1>7, <1>24 DEF jobs, b, c
  <2>5. DOMAIN Held = Lists
    BY <1>0
  <2> HIDE DEF x, y
  <2>6. Moved(Held, Held', x, y, n)
    BY <1>22, <2>1, <2>3, <2>4, <2>5, Zenon DEF Moved
  <2> QED
    BY <1>0, <2>6, MovedKeeps
<1>26. ThreadShape'
  BY <1>0, <1>11, <1>13 DEF ThreadShape, Becomes
<1>27. thr'[Net].pc = "add" => thr[Net].pc = "add" /\ thr'[Net].jobs = thr[Net].jobs
  BY <1>10, <1>11, <1>12 DEF Becomes, Threads
<1>28. ResultsExact'
  BY <1>1, <1>19, SameResults
<1>29. /\ UNCHANGED <<issued, reached>> /\ m_queued_jobs' \in [Pools -> Seq(Jobs)]
       /\ m_completed_jobs' \in Seq(Jobs) /\ called' \in Seq(Jobs) /\ ret' \in [Jobs -> Results]
       /\ thr' \in [Threads -> ThreadState]
       /\ m_completed_jobs' # <<>> => m_job_completions_in_flight'
  BY <1>1, <1>11 DEF DInv, ListTypes, postVars, Becomes
<1> QED
  BY <1>21, <1>25, <1>26, <1>27, <1>28, <1>29, StepKeeps

-----------------------------------------------------------------------------
(***************************************************************************)
(* Jobs reach the fence.                                                   *)
(***************************************************************************)
LEMMA ReachStep ==
    ASSUME DInv, NEW j, thr[Net].pc = "add", j = thr[Net].jobs[1], F!Next, reached' = Append(reached, j),
           UNCHANGED <<m_queued_jobs, postVars, ret, issued>>, thr' \in [Threads -> ThreadState],
           ThreadShape', OnePlace(Held'), JobsIn(Held') = JobsIn(Held), Waiting' = Waiting,
           thr'[Net].pc # "add"
    PROVE  DInv' /\ FenceStep
<1>0. /\ j \in Jobs /\ issued \in Seq(Jobs) /\ reached \in Seq(Jobs) /\ Order
  BY NetJob DEF DInv
<1>1. /\ j \notin ToSet(reached) /\ issued # <<>> /\ issued[Len(issued)] = j
      /\ IsInjective(issued) /\ IsInjective(reached) /\ ToSet(reached) \subseteq ToSet(issued)
  BY <1>0 DEF Order
<1>2. /\ Len(issued) \in Nat /\ Len(issued) >= 1 /\ DOMAIN issued = 1..Len(issued)
      /\ j \in ToSet(issued)
  <2>1. Len(issued) \in Nat /\ Len(issued) >= 1 /\ DOMAIN issued = 1..Len(issued)
    BY <1>0, <1>1
  <2> QED
    BY <1>1, <2>1 DEF ToSet
<1>3. /\ reached' \in Seq(Jobs) /\ DOMAIN reached' = 1..(Len(reached) + 1)
      /\ DOMAIN reached = 1..Len(reached) /\ Len(reached) \in Nat /\ reached'[Len(reached) + 1] = j
      /\ \A i \in 1..Len(reached) : reached'[i] = reached[i]
      /\ ToSet(reached') = ToSet(reached) \union {j} /\ IsInjective(reached')
  BY <1>0, <1>1, JoinIs
<1>4. ASSUME NEW i \in DOMAIN reached', NEW k \in DOMAIN reached', i < k
      PROVE  \E a, b \in DOMAIN issued : a < b /\ issued[a] = reached'[i] /\ issued[b] = reached'[k]
  <2>1. i \in 1..Len(reached) /\ reached'[i] = reached[i]
    BY <1>3, <1>4
  <2>2. CASE k \in 1..Len(reached)
    <3>1. reached'[k] = reached[k]
      BY <1>3, <2>2
    <3>2. \E a, b \in DOMAIN issued : a < b /\ issued[a] = reached[i] /\ issued[b] = reached[k]
      BY <1>0, <1>3, <1>4, <2>1, <2>2 DEF Order
    <3> QED
      BY <2>1, <3>1, <3>2
  <2>3. CASE k = Len(reached) + 1
    <3>1. reached[i] \in ToSet(reached)
      BY <1>3, <2>1 DEF ToSet
    <3>2. PICK a \in DOMAIN issued : issued[a] = reached[i]
      BY <1>1, <3>1 DEF ToSet
    <3>3. a # Len(issued)
      BY <1>1, <3>1, <3>2
    <3>4. a < Len(issued) /\ Len(issued) \in DOMAIN issued
      BY <1>2, <3>2, <3>3
    <3>5. reached'[k] = j
      BY <1>3, <2>3
    <3> QED
      BY <1>1, <2>1, <3>2, <3>4, <3>5
  <2> QED
    BY <1>3, <2>2, <2>3
<1>5. Order'
  BY <1>1, <1>2, <1>3, <1>4 DEF Order
<1>6. F!IInv'
  BY FenceStepKeeps DEF FenceStep, DInv
<1>7. (reached \in Seq(Jobs))' /\ IsInjective(reached)'
  BY <1>3
<1>8. (fence \in FenceObject(Jobs))' /\ (Active \union Blocked \subseteq ToSet(reached))'
  BY <1>6, <1>7, FenceFacts, PTL
<1>9. ResultsExact'
  BY SameResults
<1>10. ListTypes'
  BY <1>8 DEF ListTypes, DInv, postVars
<1>11. OnePlace(Held)' /\ (JobsIn(Held) = ToSet(issued))'
  BY DEF DInv
<1>12. /\ (issued \in Seq(Jobs))' /\ (ret \in [Jobs -> Results])'
       /\ (m_completed_jobs # <<>> => m_job_completions_in_flight)'
  BY DEF DInv, postVars
<1>13. DInv'
  BY <1>5, <1>6, <1>7, <1>8, <1>9, <1>10, <1>11, <1>12 DEF DInv
<1> QED
  BY <1>13 DEF FenceStep

(* The job passes the fence, or is parked behind it.                       *)
Passes(j) ==
    /\ thr' = [thr EXCEPT ![Net] = At("push", <<j>>)]
    /\ fence'.m_blocked_jobs = fence.m_blocked_jobs

Parks(j, pc) ==
    /\ pc \in {"none", "loop"} /\ thr' = [thr EXCEPT ![Net] = At(pc, <<>>)]
    /\ fence'.m_blocked_jobs = Append(fence.m_blocked_jobs, j)

(* A job that the fence lets through.                                      *)
LEMMA JobPasses ==
    ASSUME DInv, NEW j, Adding(j), UNCHANGED <<m_queued_jobs, postVars, ret, issued>>, Passes(j)
    PROVE  /\ Active' = Active \union {j} /\ Waiting' = Waiting
           /\ thr' \in [Threads -> ThreadState] /\ ThreadShape' /\ thr'[Net].pc # "add"
           /\ OnePlace(Held') /\ JobsIn(Held') = JobsIn(Held)
<1> DEFINE h == At("push", <<j>>)
<1>1. /\ thr[Net].pc = "add" /\ j = thr[Net].jobs[1] /\ thr[Net].jobs = <<j>> /\ thr[Net].new = <<>>
      /\ thr[Net].failed = <<>> /\ j \in Jobs /\ WaitingOf(thr[Net]) = {j} /\ ActiveOf(thr[Net]) = {}
      /\ Net \in Threads
  BY NetJob DEF Adding
<1>2. /\ ThreadShape /\ OnePlace(Held) /\ thr \in [Threads -> ThreadState]
  BY DEF DInv, ListTypes
<1>3. /\ h \in ThreadState /\ h.pc = "push" /\ h.jobs = <<j>> /\ h.todo = <<j>>
      /\ h.new = <<>> /\ h.failed = <<>>
  <2>1. "push" \in Pcs
    BY DEF Pcs
  <2> QED
    BY <1>1, <2>1, AtOne
<1> HIDE DEF h
<1>4. Becomes(Net, h)
  BY <1>1, <1>2, <1>3, BecomesIs DEF Passes, h
<1>5. InShape(Net, h)
  <2>1. Len(<<j>>) = 1 /\ <<j>> = SubSeq(<<j>>, 0 + 1, 1) /\ 0 \in 0..1
    BY <1>1
  <2>2. \E n \in 0..Len(h.jobs) : h.todo = SubSeq(h.jobs, n + 1, Len(h.jobs))
    BY <1>3, <2>1
  <2> QED
    BY <1>3, <2>1, <2>2 DEF InShape, EmptyHanded, Passing, Early
<1>6. ActiveOf(h) = {j} /\ WaitingOf(h) = {j}
  <2>1. ToSet(<<>>) = {} /\ ToSet(<<j>>) = {j}
    BY <1>1, ToSetIs
  <2> QED
    BY <1>3, <2>1 DEF ActiveOf, WaitingOf, Early
<1>7. Queued' = Queued /\ Blocked' = Blocked
  BY DEF Queued, Blocked, Passes
<1>8. Active' = Active \union {j} /\ Waiting' = Waiting
  BY <1>1, <1>4, <1>6, <1>7, OneThread, ZenonT(30)
<1>9. ThreadShape' /\ thr' \in [Threads -> ThreadState] /\ thr'[Net].pc # "add"
  BY <1>2, <1>3, <1>4, <1>5 DEF ThreadShape, Becomes
<1>10. Held' = Held
  BY <1>1, <1>3, <1>4, HeldSame DEF Passes, postVars
<1> QED
  BY <1>2, <1>8, <1>9, <1>10

(* A job that is parked at the fence.                                      *)
LEMMA JobIsParked ==
    ASSUME DInv, NEW j, Adding(j), UNCHANGED <<m_queued_jobs, postVars, ret, issued>>, NEW pc, Parks(j, pc)
    PROVE  /\ Active' = Active /\ Waiting' = Waiting
           /\ thr' \in [Threads -> ThreadState] /\ ThreadShape' /\ thr'[Net].pc # "add"
           /\ OnePlace(Held') /\ JobsIn(Held') = JobsIn(Held)
<1> DEFINE h == At(pc, <<>>)
           x == <<Net, "jobs">>
           y == <<Net, "blocked">>
<1>1. /\ thr[Net].pc = "add" /\ j = thr[Net].jobs[1] /\ thr[Net].jobs = <<j>> /\ thr[Net].new = <<>>
      /\ thr[Net].failed = <<>> /\ j \in Jobs /\ WaitingOf(thr[Net]) = {j} /\ ActiveOf(thr[Net]) = {}
      /\ Net \in Threads
  BY NetJob DEF Adding
<1>2. /\ ThreadShape /\ OnePlace(Held) /\ thr \in [Threads -> ThreadState] /\ ListTypes
      /\ fence.m_blocked_jobs \in Seq(Jobs)
  BY DEF DInv, ListTypes, FenceObject
<1>3. pc \in EmptyHanded /\ pc \notin {"abort", "abort_generic", "abort_hash"}
  BY DEF EmptyHanded, Parks
<1>4. /\ h \in ThreadState /\ InShape(Net, h) /\ h.pc = pc /\ pc # "add"
      /\ h.jobs = <<>> /\ h.new = <<>> /\ h.failed = <<>> /\ ActiveOf(h) = {} /\ WaitingOf(h) = {}
  BY <1>3, InShapeEmpty
<1> HIDE DEF h
<1>5. Becomes(Net, h)
  BY <1>1, <1>2, <1>4, BecomesIs DEF Parks, h
<1>6. Queued' = Queued /\ Blocked' = Blocked \union {j}
  <2>1. ToSet(Append(fence.m_blocked_jobs, j)) = ToSet(fence.m_blocked_jobs) \union {j}
    BY <1>1, <1>2, JoinIs
  <2> QED
    BY <2>1 DEF Queued, Blocked, Parks
<1>7. Active' = Active /\ Waiting' = Waiting
  BY <1>1, <1>4, <1>5, <1>6, OneThread, ZenonT(30)
<1>8. ThreadShape' /\ thr' \in [Threads -> ThreadState] /\ thr'[Net].pc # "add"
  BY <1>2, <1>4, <1>5 DEF ThreadShape, Becomes
<1>9. x \in Lists /\ y \in Lists /\ x # y
  BY <1>1, ListsAre
<1>10. ChangesOnly(Net, h, {x, y})
  BY <1>1, <1>4, <1>5 DEF ChangesOnly, postVars
<1>11. Exchanges(x, y)
  <2>1. Held[x] = <<j>> /\ Held[y] = fence.m_blocked_jobs /\ Held'[x] = <<>>
        /\ Held'[y] = Append(fence.m_blocked_jobs, j)
    BY <1>1, <1>4, <1>5, HeldAre, HeldAreNext DEF Becomes, Parks
  <2>2. Append(fence.m_blocked_jobs, j) = fence.m_blocked_jobs \o <<j>>
    <3>1. PICK B \in Seq(Jobs) : B = fence.m_blocked_jobs
      BY <1>2
    <3>2. Append(B, j) = B \o <<j>>
      BY <1>1, AppendIsConcat
    <3> QED
      BY <3>1, <3>2
  <2> HIDE DEF x, y
  <2> QED
    BY <2>1, <2>2 DEF Exchanges
<1> HIDE DEF x, y
<1> QED
  BY <1>2, <1>7, <1>8, <1>9, <1>10, <1>11, ListMoves

(* add_job up to the job queue keeps the invariant.                        *)
LEMMA AddJobKeeps ==
    ASSUME DInv, NEW j, AddJob(j)
    PROVE  DInv' /\ FenceStep
<1>1. /\ Adding(j) /\ j \notin FenceJobs /\ fence' = AfterIsBlocked(fence, j)
      /\ reached' = Append(reached, j) /\ UNCHANGED <<m_queued_jobs, postVars, ret, issued>>
      /\ IF Admits(fence) THEN thr' = [thr EXCEPT ![Net] = At("push", <<j>>)]
                          ELSE thr' = [thr EXCEPT ![Net] = At("none", <<>>)]
  BY DEF AddJob, NetGoes
<1>2. /\ thr[Net].pc = "add" /\ j = thr[Net].jobs[1] /\ j \in Jobs
  BY <1>1, NetJob DEF Adding
<1>3. /\ fence \in FenceObject(Jobs) /\ reached \in Seq(Jobs) /\ IsInjective(reached)
      /\ j \notin ToSet(reached) /\ Active \union Blocked \subseteq ToSet(reached)
  BY <1>2 DEF DInv, ListTypes, Order
<1>4. /\ Active' = (IF Admits(fence) THEN Active \union {j} ELSE Active) /\ Waiting' = Waiting
      /\ thr' \in [Threads -> ThreadState] /\ ThreadShape' /\ thr'[Net].pc # "add"
      /\ OnePlace(Held') /\ JobsIn(Held') = JobsIn(Held)
  <2>1. CASE Admits(fence)
    <3>1. Passes(j)
      BY <1>1, <1>3, <2>1 DEF Passes, AfterIsBlocked, FenceObject
    <3> QED
      BY <1>1, <2>1, <3>1, JobPasses
  <2>2. CASE ~ Admits(fence)
    <3>1. Parks(j, "none")
      BY <1>1, <1>3, <2>2 DEF Parks, AfterIsBlocked, FenceObject
    <3> QED
      BY <1>1, <2>2, <3>1, JobIsParked
  <2> QED
    BY <2>1, <2>2
<1>5. F!IsBlocked(j)
  BY <1>1, <1>2, <1>3, <1>4, FenceSeesJob
<1>6. F!Next
  BY <1>2, <1>5 DEF F!Next
<1> QED
  BY <1>1, <1>2, <1>4, <1>6, ReachStep

(* add_fence_job up to the job queue keeps the invariant.                  *)
LEMMA AddFenceJobKeeps ==
    ASSUME DInv, NEW j, AddFenceJob(j)
    PROVE  DInv' /\ FenceStep
<1>1. /\ Adding(j) /\ j \in FenceJobs /\ fence' = AfterRaiseFence(fence, j)
      /\ reached' = Append(reached, j) /\ UNCHANGED <<m_queued_jobs, postVars, ret, issued>>
      /\ PostsFence(fence) => thr' = [thr EXCEPT ![Net] = At("push", <<j>>)]
      /\ ~ PostsFence(fence) => \E pc \in {"none", "loop"} : thr' = [thr EXCEPT ![Net] = At(pc, <<>>)]
  BY DEF AddFenceJob, NetGoes
<1>2. /\ thr[Net].pc = "add" /\ j = thr[Net].jobs[1] /\ j \in Jobs
  BY <1>1, NetJob DEF Adding
<1>3. /\ fence \in FenceObject(Jobs) /\ reached \in Seq(Jobs) /\ IsInjective(reached)
      /\ j \notin ToSet(reached) /\ Active \union Blocked \subseteq ToSet(reached)
  BY <1>2 DEF DInv, ListTypes, Order
<1>4. /\ Active' = (IF PostsFence(fence) THEN Active \union {j} ELSE Active) /\ Waiting' = Waiting
      /\ thr' \in [Threads -> ThreadState] /\ ThreadShape' /\ thr'[Net].pc # "add"
      /\ OnePlace(Held') /\ JobsIn(Held') = JobsIn(Held)
  <2>1. CASE PostsFence(fence)
    <3>1. Passes(j)
      BY <1>1, <1>3, <2>1 DEF Passes, AfterRaiseFence, FenceObject
    <3> QED
      BY <1>1, <2>1, <3>1, JobPasses
  <2>2. CASE ~ PostsFence(fence)
    <3>1. PICK pc \in {"none", "loop"} : thr' = [thr EXCEPT ![Net] = At(pc, <<>>)]
      BY <1>1, <2>2
    <3>2. Parks(j, pc)
      BY <1>1, <1>3, <2>2, <3>1 DEF Parks, AfterRaiseFence, FenceObject
    <3> QED
      BY <1>1, <2>2, <3>2, JobIsParked
  <2> QED
    BY <2>1, <2>2
<1>5. F!RaiseFence(j)
  BY <1>1, <1>2, <1>3, <1>4, FenceSeesFenceJob
<1>6. F!Next
  BY <1>2, <1>5 DEF F!Next
<1> QED
  BY <1>1, <1>2, <1>4, <1>6, ReachStep

-----------------------------------------------------------------------------
(***************************************************************************)
(* Jobs are issued.                                                        *)
(***************************************************************************)

(* A new job is put in list x.                                             *)
Adds(j, x) ==
    /\ x \in Lists /\ Held'[x] = Append(Held[x], j)
    /\ \A z \in Lists : z # x => Held'[z] = Held[z]

(* Issuing a job keeps the invariant.                                      *)
LEMMA IssueStep ==
    ASSUME DInv, NEW j, j \in Jobs, ~ IsIssued(j), issued' = Append(issued, j),
           UNCHANGED <<fenceVars, m_queued_jobs, m_completed_jobs, m_job_completions_in_flight>>,
           Active' = Active, called' \in Seq(Jobs), ret' \in [Jobs -> Results],
           thr' \in [Threads -> ThreadState], ThreadShape', NEW x, Adds(j, x), ResultsExact',
           thr'[Net].pc = "add" => thr'[Net].jobs = <<j>>
    PROVE  DInv' /\ FenceStep
<1>0. /\ issued \in Seq(Jobs) /\ reached \in Seq(Jobs) /\ Order /\ j \notin ToSet(issued)
      /\ OnePlace(Held) /\ JobsIn(Held) = ToSet(issued) /\ Held \in [Lists -> Seq(Jobs)]
  BY HeldType DEF DInv, IsIssued
<1>1. /\ IsInjective(issued) /\ IsInjective(reached) /\ ToSet(reached) \subseteq ToSet(issued)
      /\ reached' = reached
  BY <1>0 DEF Order, fenceVars
<1>2. /\ issued' \in Seq(Jobs) /\ DOMAIN issued' = 1..(Len(issued) + 1) /\ Len(issued') = Len(issued) + 1
      /\ DOMAIN issued = 1..Len(issued) /\ Len(issued) \in Nat /\ issued'[Len(issued) + 1] = j
      /\ \A i \in 1..Len(issued) : issued'[i] = issued[i]
      /\ ToSet(issued') = ToSet(issued) \union {j} /\ IsInjective(issued')
  BY <1>0, <1>1, JoinIs
<1>3. ASSUME NEW i \in DOMAIN reached', NEW k \in DOMAIN reached', i < k
      PROVE  \E a, b \in DOMAIN issued' : a < b /\ issued'[a] = reached'[i] /\ issued'[b] = reached'[k]
  <2>1. PICK a \in DOMAIN issued, b \in DOMAIN issued : a < b /\ issued[a] = reached[i] /\ issued[b] = reached[k]
    BY <1>0, <1>1, <1>3 DEF Order
  <2>2. a \in DOMAIN issued' /\ b \in DOMAIN issued' /\ issued'[a] = issued[a] /\ issued'[b] = issued[b]
    BY <1>2
  <2> QED
    BY <1>1, <2>1, <2>2
<1>4. Order'
  <2>1. issued' # <<>>
    BY <1>2
  <2>2. j \notin ToSet(reached)
    BY <1>0, <1>1
  <2>3. thr'[Net].pc = "add" => thr'[Net].jobs[1] = j
    OBVIOUS
  <2> QED
    BY <1>1, <1>2, <1>3, <2>1, <2>2, <2>3 DEF Order
<1>5. UNCHANGED F!vars
  BY FenceUntouched
<1>6. F!IInv'
  BY <1>5, FenceStepKeeps DEF FenceStep, DInv
<1>7. (reached \in Seq(Jobs))' /\ IsInjective(reached)'
  BY <1>0, <1>1
<1>8. (fence \in FenceObject(Jobs))' /\ (Active \union Blocked \subseteq ToSet(reached))'
  BY <1>6, <1>7, FenceFacts, PTL
<1>9. ListTypes'
  BY <1>8 DEF ListTypes, DInv
<1>10. OnePlace(Held') /\ JobsIn(Held') = JobsIn(Held) \union {j}
  <2>1. Held' \in [Lists -> Seq(Jobs)]
    BY <1>9, HeldTypeNext
  <2>2. Added(Held, Held', Lists, x, j)
    BY <1>0, <2>1 DEF Adds, Added
  <2> QED
    BY <1>0, <2>2, AddedKeeps
<1>11. OnePlace(Held)' /\ (JobsIn(Held) = ToSet(issued))'
  BY <1>0, <1>2, <1>10
<1>12. /\ (issued \in Seq(Jobs))' /\ (ret \in [Jobs -> Results])'
       /\ (m_completed_jobs # <<>> => m_job_completions_in_flight)'
  BY <1>2 DEF DInv
<1>13. DInv'
  BY <1>4, <1>6, <1>7, <1>8, <1>9, <1>11, <1>12 DEF DInv
<1> QED
  BY <1>5, <1>13 DEF FenceStep

(* The job is in the hands of the network thread.                          *)
LEMMA IssueAdds ==
    ASSUME DInv, NEW j, j \in Jobs, Issue(j), NetGoes("add", <<j>>),
           UNCHANGED <<fenceVars, m_queued_jobs, postVars, ret>>
    PROVE  DInv' /\ FenceStep
<1> DEFINE h == At("add", <<j>>)
           x == <<Net, "jobs">>
<1>1. /\ thr[Net].pc = "none" /\ ~ IsIssued(j) /\ issued' = Append(issued, j)
      /\ thr' = [thr EXCEPT ![Net] = h]
  BY DEF Issue, NetGoes
<1>2. /\ ListTypes /\ ThreadShape /\ thr \in [Threads -> ThreadState] /\ Net \in Threads
      /\ InShape(Net, thr[Net]) /\ ResultsExact /\ issued \in Seq(Jobs) /\ ret \in [Jobs -> Results]
      /\ called \in Seq(Jobs)
  BY DEF DInv, ListTypes, Threads, ThreadShape
<1>3. /\ thr[Net].jobs = <<>> /\ thr[Net].todo = <<>> /\ thr[Net].new = <<>> /\ thr[Net].failed = <<>>
  BY <1>1, <1>2 DEF InShape, EmptyHanded, Passing
<1>4. ToSet(<<>>) = {} /\ ToSet(<<j>>) = {j}
  BY ToSetIs
<1>5. ActiveOf(thr[Net]) = {} /\ WaitingOf(thr[Net]) = {}
  BY <1>1, <1>3, <1>4 DEF ActiveOf, WaitingOf, Early
<1>6. /\ h \in ThreadState /\ h.pc = "add" /\ h.jobs = <<j>> /\ h.todo = <<j>>
      /\ h.new = <<>> /\ h.failed = <<>>
  <2>1. "add" \in Pcs
    BY DEF Pcs
  <2> QED
    BY <2>1, AtOne
<1> HIDE DEF h
<1>7. Becomes(Net, h)
  BY <1>1, <1>2, <1>6, BecomesIs
<1>8. InShape(Net, h)
  <2>1. Len(<<j>>) = 1 /\ <<j>> = SubSeq(<<j>>, 0 + 1, 1) /\ 0 \in 0..1
    OBVIOUS
  <2>2. \E n \in 0..Len(h.jobs) : h.todo = SubSeq(h.jobs, n + 1, Len(h.jobs))
    BY <1>6, <2>1
  <2> QED
    BY <1>6, <2>1, <2>2 DEF InShape, EmptyHanded, Passing, Early
<1>9. ActiveOf(h) = {} /\ WaitingOf(h) = {j}
  BY <1>4, <1>6 DEF ActiveOf, WaitingOf, Early
<1>10. Queued' = Queued /\ Blocked' = Blocked
  BY DEF Queued, Blocked, fenceVars
<1>11. Active' = Active /\ Waiting' = Waiting \union {j}
  BY <1>5, <1>7, <1>9, <1>10, OneThread
<1>12. ThreadShape' /\ thr' \in [Threads -> ThreadState]
  BY <1>2, <1>7, <1>8 DEF ThreadShape, Becomes
<1>13. ResultsExact'
  <2>1. ToSet(issued') = ToSet(issued) \union {j}
    BY <1>1, <1>2, JoinIs
  <2> QED
    BY <1>1, <1>2, <1>11, <2>1 DEF ResultsExact, IsIssued
<1>14. Adds(j, x)
  <2>1. x \in Lists
    BY <1>2, ListsAre
  <2>2. ChangesOnly(Net, h, {x})
    BY <1>3, <1>6, <1>7 DEF ChangesOnly, postVars, fenceVars
  <2>3. Held[x] = <<>> /\ Held'[x] = <<j>>
    BY <1>2, <1>3, <1>6, <1>7, HeldAre, HeldAreNext DEF Becomes
  <2>4. Append(<<>>, j) = <<j>>
    OBVIOUS
  <2>5. \A z \in Lists : z # x => Held'[z] = Held[z]
    BY <2>2, HeldElse
  <2> HIDE DEF x
  <2> QED
    BY <2>1, <2>3, <2>4, <2>5 DEF Adds
<1>15. thr'[Net].pc = "add" => thr'[Net].jobs = <<j>>
  BY <1>6, <1>7 DEF Becomes
<1> HIDE DEF x
<1> QED
  BY <1>1, <1>2, <1>11, <1>12, <1>13, <1>14, <1>15, IssueStep DEF postVars

(* The jobs without a result have been issued.                             *)
LEMMA WaitingIsIssued ==
    ASSUME DInv
    PROVE  Waiting \subseteq ToSet(issued)
<1>1. /\ JobsIn(Held) = ToSet(issued) /\ DOMAIN Held = Lists
  BY HeldType DEF DInv
<1>2. \A x \in Lists : ToSet(Held[x]) \subseteq ToSet(issued)
  BY <1>1 DEF JobsIn
<1>3. Blocked \subseteq ToSet(issued) /\ Queued \subseteq ToSet(issued)
  <2>1. <<Net, "blocked">> \in Lists /\ <<Net, "generic">> \in Lists /\ <<Net, "hash">> \in Lists
    BY ListsAre
  <2> QED
    BY <1>2, <2>1, HeldAre DEF Blocked, Queued
<1>4. ASSUME NEW t \in Threads PROVE WaitingOf(thr[t]) \subseteq ToSet(issued)
  <2>1. <<t, "jobs">> \in Lists /\ <<t, "new">> \in Lists
    BY ListsAre
  <2>2. ToSet(thr[t].jobs) \subseteq ToSet(issued) /\ ToSet(thr[t].new) \subseteq ToSet(issued)
    BY <1>2, <2>1, HeldAre
  <2> QED
    BY <2>2 DEF WaitingOf
<1> QED
  BY <1>3, <1>4 DEF Waiting

(* The job is answered at once.                                            *)
LEMMA IssueAnswers ==
    ASSUME DInv, NEW j, j \in Jobs, Issue(j), called' = Append(called, j), NEW v, v \in {"ok", "failed"},
           ret' = [ret EXCEPT ![j] = v],
           UNCHANGED <<fenceVars, m_queued_jobs, m_completed_jobs, m_job_completions_in_flight, thr>>
    PROVE  DInv' /\ FenceStep
<1> DEFINE h == thr[Net]
           x == <<Net, "called">>
<1>1. thr[Net].pc = "none" /\ ~ IsIssued(j) /\ issued' = Append(issued, j)
  BY DEF Issue
<1>2. /\ ListTypes /\ ThreadShape /\ thr \in [Threads -> ThreadState] /\ Net \in Threads
      /\ ResultsExact /\ issued \in Seq(Jobs) /\ ret \in [Jobs -> Results] /\ called \in Seq(Jobs)
      /\ h \in ThreadState /\ Waiting \subseteq ToSet(issued)
  BY WaitingIsIssued DEF DInv, ListTypes, Threads
<1>3. Becomes(Net, h)
  BY <1>2 DEF Becomes
<1>4. Queued' = Queued /\ Blocked' = Blocked
  BY DEF Queued, Blocked, fenceVars
<1>5. Active' = Active /\ Waiting' = Waiting
  BY <1>3, <1>4, OneThread
<1>6. called' \in Seq(Jobs) /\ ToSet(issued') = ToSet(issued) \union {j}
  BY <1>1, <1>2, JoinIs
<1>7. ret' \in [Jobs -> Results] /\ ret'[j] = v /\ \A i \in Jobs : i # j => ret'[i] = ret[i]
  BY <1>2 DEF Results
<1>8. ResultsExact'
  BY <1>1, <1>2, <1>5, <1>6, <1>7 DEF ResultsExact, IsIssued
<1>9. Adds(j, x)
  <2>1. x \in Lists
    BY <1>2, ListsAre
  <2>2. ChangesOnly(Net, h, {x})
    BY <1>3 DEF ChangesOnly, fenceVars
  <2>3. Held[x] = called /\ Held'[x] = Append(called, j)
    BY HeldAre, HeldAreNext
  <2>4. \A z \in Lists : z # x => Held'[z] = Held[z]
    BY <2>2, HeldElse
  <2> HIDE DEF x
  <2> QED
    BY <2>1, <2>3, <2>4 DEF Adds
<1>10. ThreadShape' /\ thr' \in [Threads -> ThreadState] /\ thr'[Net].pc # "add"
  BY <1>1, <1>2 DEF ThreadShape
<1> HIDE DEF x, h
<1> QED
  BY <1>1, <1>5, <1>6, <1>7, <1>8, <1>9, <1>10, IssueStep

(* The asynchronous operations keep the invariant.                         *)
LEMMA ClientKeeps ==
    ASSUME DInv, NEW j, j \in Jobs, AsyncWrite(j) \/ AsyncRead(j) \/ AsyncHash(j) \/ AsyncFence(j)
    PROVE  DInv' /\ FenceStep
<1>1. CASE AsyncWrite(j)
  BY <1>1, IssueAdds DEF AsyncWrite
<1>2. CASE AsyncHash(j)
  BY <1>2, IssueAdds DEF AsyncHash
<1>3. CASE AsyncFence(j)
  BY <1>3, IssueAdds DEF AsyncFence
<1>4. CASE AsyncRead(j)
  <2>1. Issue(j) /\ UNCHANGED <<fenceVars, m_queued_jobs, m_completed_jobs, m_job_completions_in_flight>>
    BY <1>4 DEF AsyncRead
  <2>2. \/ NetGoes("add", <<j>>) /\ UNCHANGED <<ret, called>>
        \/ ret' = [ret EXCEPT ![j] = "ok"] /\ called' = Append(called, j) /\ UNCHANGED thr
        \/ ret' = [ret EXCEPT ![j] = "failed"] /\ called' = Append(called, j) /\ UNCHANGED thr
    BY <1>4 DEF AsyncRead
  <2>3. CASE NetGoes("add", <<j>>) /\ UNCHANGED <<ret, called>>
    BY <2>1, <2>3, IssueAdds DEF postVars
  <2>4. CASE ret' = [ret EXCEPT ![j] = "ok"] /\ called' = Append(called, j) /\ UNCHANGED thr
    BY <2>1, <2>4, IssueAnswers
  <2>5. CASE ret' = [ret EXCEPT ![j] = "failed"] /\ called' = Append(called, j) /\ UNCHANGED thr
    BY <2>1, <2>5, IssueAnswers
  <2> QED
    BY <2>2, <2>3, <2>4, <2>5
<1> QED
  BY <1>1, <1>2, <1>3, <1>4

-----------------------------------------------------------------------------
(***************************************************************************)
(* Jobs are executed.                                                      *)
(***************************************************************************)
LEMMA HashedKeeps ==
    ASSUME DInv, UNCHANGED <<fenceVars, m_queued_jobs, postVars, issued>>, NEW t, t \in Threads,
           NEW j, j \in Jobs, Running(t, j), thr[t].pc \in {"hash", "hash_file"}, NEW v, HashedAs(t, j, v)
    PROVE  DInv' /\ UNCHANGED F!vars
<1> DEFINE rest == thr[t].left \ {NextBlock(t)}
<1>1. /\ thr \in [Threads -> ThreadState] /\ thr[t].left \subseteq Blocks /\ ret \in [Jobs -> Results]
  BY ThreadStateIs DEF DInv, ListTypes
<1>2. rest \in SUBSET Blocks
  BY <1>1
<1>3. /\ ret' = [ret EXCEPT ![j] = IF rest = {} THEN "ok" ELSE @]
      /\ thr' = [thr EXCEPT ![t].left = rest, ![t].pc = IF rest = {} THEN "complete" ELSE "hash"]
  BY DEF HashedAs
<1> HIDE DEF rest
<1>4. CASE rest = {}
  <2>1. ret' = [ret EXCEPT ![j] = "ok"] /\ thr' = [thr EXCEPT ![t].left = rest, ![t].pc = "complete"]
    BY <1>3, <1>4
  <2>2. Advances(t, "complete")
    <3>1. "complete" \in Pcs
      BY DEF Pcs
    <3> QED
      BY <1>1, <1>2, <2>1, <3>1, AdvancesIs
  <2> QED
    BY <2>1, <2>2, ResultStep DEF Results
<1>5. CASE rest # {}
  <2>1. ret' = ret /\ thr' = [thr EXCEPT ![t].left = rest, ![t].pc = "hash"]
    BY <1>1, <1>3, <1>5
  <2>2. Advances(t, "hash")
    <3>1. "hash" \in Pcs
      BY DEF Pcs
    <3> QED
      BY <1>1, <1>2, <2>1, <3>1, AdvancesIs
  <2> QED
    BY <2>1, <2>2, ExecutesOn
<1> QED
  BY <1>4, <1>5

(* Executing a job keeps the invariant.                                    *)
LEMMA ExecuteKeeps ==
    ASSUME DInv, NEW t, t \in Threads, NEW j, j \in Jobs, Execute(t, j)
    PROVE  DInv' /\ UNCHANGED F!vars
<1>1. /\ Running(t, j) /\ UNCHANGED <<fenceVars, m_queued_jobs, postVars, issued>>
      /\ thr[t].pc \in Executing
  BY DEF Execute, SkipAborted, WriteBlock, EraseBuffer, ReadBlocks, StartHash, HashLookup, HashFile,
         PerformFence, execUnchanged, Executing
<1>2. thr \in [Threads -> ThreadState]
  BY DEF DInv, ListTypes
<1>3. ASSUME NEW pc \in {"erase", "complete", "hash_file"}, GoesOn(t, pc) PROVE Advances(t, pc)
  BY <1>2, <1>3, AdvancesIs DEF GoesOn, Pcs
<1>4. ASSUME NEW pc \in {"erase", "complete"}, GoesOn(t, pc), NEW v \in {"ok", "failed", "aborted"},
             ret' = [ret EXCEPT ![j] = v], thr[t].pc \in {"exec", "hash_file"}
      PROVE  DInv' /\ UNCHANGED F!vars
  <2>1. Advances(t, pc)
    BY <1>3, <1>4
  <2> QED
    BY <1>1, <1>4, <2>1, ResultStep DEF Results
<1>5. CASE SkipAborted(t, j)
  BY <1>4, <1>5 DEF SkipAborted
<1>6. CASE WriteBlock(t, j)
  <2>1. \E pc \in {"erase", "complete"}, v \in {"ok", "failed"} : GoesOn(t, pc) /\ ret' = [ret EXCEPT ![j] = v]
    BY <1>6 DEF WriteBlock
  <2>2. thr[t].pc = "exec"
    BY <1>6 DEF WriteBlock
  <2> QED
    BY <1>4, <2>1, <2>2
<1>7. CASE EraseBuffer(t, j)
  <2>1. Advances(t, "complete") /\ thr[t].pc = "erase" /\ UNCHANGED ret
    BY <1>3, <1>7 DEF EraseBuffer
  <2> QED
    BY <1>1, <2>1, ExecutesOn
<1>8. CASE ReadBlocks(t, j)
  BY <1>4, <1>8 DEF ReadBlocks
<1>9. CASE StartHash(t, j)
  <2>1. BlocksOf[j] \in SUBSET Blocks
    BY <1>9, DiskAssumption DEF StartHash, Jobs
  <2>2. "hash" \in Pcs
    BY DEF Pcs
  <2>3. /\ thr' = [thr EXCEPT ![t].pc = "hash", ![t].left = BlocksOf[j]] /\ thr[t].pc = "exec"
        /\ UNCHANGED ret
    BY <1>9 DEF StartHash
  <2>4. Advances(t, "hash")
    BY <1>2, <2>1, <2>2, <2>3, AdvancesIs
  <2> QED
    BY <1>1, <2>3, <2>4, ExecutesOn
<1>10. CASE HashLookup(t, j)
  <2>1. thr[t].pc = "hash"
    BY <1>10 DEF HashLookup
  <2>2. CASE m_store_buffer[NextBlock(t)] # Nothing
    <3>1. HashedAs(t, j, m_store_buffer[NextBlock(t)])
      BY <1>10, <2>2 DEF HashLookup
    <3> QED
      BY <1>1, <2>1, <3>1, HashedKeeps
  <2>3. CASE m_store_buffer[NextBlock(t)] = Nothing
    <3>1. GoesOn(t, "hash_file") /\ UNCHANGED ret
      BY <1>10, <2>3 DEF HashLookup
    <3>2. Advances(t, "hash_file")
      BY <1>3, <3>1
    <3> QED
      BY <1>1, <2>1, <3>1, <3>2, ExecutesOn
  <2> QED
    BY <2>2, <2>3
<1>11. CASE HashFile(t, j)
  <2>1. thr[t].pc = "hash_file"
    BY <1>11 DEF HashFile
  <2>2. \/ HashedAs(t, j, disk[NextBlock(t)])
        \/ ret' = [ret EXCEPT ![j] = "failed"] /\ GoesOn(t, "complete")
    BY <1>11 DEF HashFile
  <2>3. CASE HashedAs(t, j, disk[NextBlock(t)])
    BY <1>1, <2>1, <2>3, HashedKeeps
  <2>4. CASE ret' = [ret EXCEPT ![j] = "failed"] /\ GoesOn(t, "complete")
    BY <1>4, <2>1, <2>4
  <2> QED
    BY <2>2, <2>3, <2>4
<1>12. CASE PerformFence(t, j)
  BY <1>4, <1>12 DEF PerformFence
<1> QED
  BY <1>5, <1>6, <1>7, <1>8, <1>9, <1>10, <1>11, <1>12 DEF Execute

(* add_completed_jobs keeps the invariant.                                 *)
LEMMA CompleteJobsKeeps ==
    ASSUME DInv, NEW t, t \in Threads, CompleteJobs(t)
    PROVE  DInv' /\ FenceStep
  BY LeaveFenceKeeps, RouteReleasedKeeps, AppendReleasedKeeps, NotifyReleasedKeeps, PostCompletedKeeps
     DEF CompleteJobs, FenceStep

-----------------------------------------------------------------------------
(***************************************************************************)
(* Every step keeps the invariant, and is a step of the fence.             *)
(***************************************************************************)
LEMMA QueueStepKeeps ==
    ASSUME DInv, \/ \E t \in Workers : TakeJob(t) \/ WaitOrExit(t)
                 \/ \E t \in Threads : CleanUp(t)
                 \/ ImmediateExecute
    PROVE  DInv' /\ UNCHANGED F!vars
<1>0. {"start", "loop", "idle", "none", "cleanup"} \subseteq EmptyHanded /\ Net \in Threads
  BY DEF EmptyHanded, Threads
<1>1. ASSUME NEW t \in Workers, TakeJob(t) PROVE DInv' /\ UNCHANGED F!vars
  <2>1. t \in Threads /\ PoolOf(t) \in Pools /\ thr[t].pc \in EmptyHanded
    BY <1>0, <1>1 DEF Threads, PoolOf, Pools, TakeJob
  <2> QED
    BY <1>1, <2>1, TakeStep DEF TakeJob
<1>2. ASSUME NEW t \in Workers, WaitOrExit(t) PROVE DInv' /\ UNCHANGED F!vars
  <2>1. t \in Threads /\ thr[t].pc \in EmptyHanded /\ UNCHANGED <<fenceVars, m_queued_jobs, postVars, ret, issued>>
    BY <1>0, <1>2 DEF Threads, WaitOrExit
  <2>2. PICK pc \in {"cleanup", "none", "idle"} : thr' = [thr EXCEPT ![t] = At(pc, <<>>)]
    BY <1>2 DEF WaitOrExit, Stopped
  <2>3. pc \in EmptyHanded /\ pc \notin {"abort", "abort_generic", "abort_hash"}
    BY <1>0
  <2> QED
    BY <2>1, <2>2, <2>3, EmptyHandedStep
<1>3. ASSUME NEW t \in Threads, CleanUp(t) PROVE DInv' /\ UNCHANGED F!vars
  <2>1. thr[t].pc \in EmptyHanded /\ "none" \in EmptyHanded
    BY <1>0, <1>3 DEF CleanUp
  <2> QED
    BY <1>3, <2>1, EmptyHandedStep DEF CleanUp, Stopped
<1>4. CASE ImmediateExecute
  <2>1. thr[Net].pc \in EmptyHanded /\ "none" \in EmptyHanded /\ UNCHANGED <<fenceVars, postVars, ret, issued>>
    BY <1>0, <1>4 DEF ImmediateExecute
  <2>2. CASE m_queued_jobs["generic"] = <<>>
    BY <1>0, <1>4, <2>1, <2>2, EmptyHandedStep DEF ImmediateExecute, NetGoes
  <2>3. CASE m_queued_jobs["generic"] # <<>>
    <3>1. "generic" \in Pools
      BY DEF Pools
    <3> QED
      BY <1>0, <1>4, <2>1, <2>3, <3>1, TakeStep DEF ImmediateExecute, NetGoes
  <2> QED
    BY <2>2, <2>3
<1> QED
  BY <1>1, <1>2, <1>3, <1>4

(* So does everything that is done to the pools.                           *)
LEMMA PoolStepKeeps ==
    ASSUME DInv, \/ \E s \in Settings : SettingsUpdated(s)
                 \/ \E q \in Pools : Reap(q)
                 \/ SubmitJobs \/ AbortSubmits \/ AbortStarts \/ AbortPools
    PROVE  DInv' /\ UNCHANGED F!vars
<1>0. /\ thr \in [Threads -> ThreadState] /\ ThreadShape /\ Net \in Threads /\ thr[Net] \in ThreadState
      /\ InShape(Net, thr[Net])
  BY DEF DInv, ListTypes, Threads, ThreadShape
<1>1. {"none", "abort", "abort_generic", "abort_hash"} \subseteq EmptyHanded
  BY DEF EmptyHanded
<1>2. ASSUME UNCHANGED <<fenceVars, m_queued_jobs, postVars, ret, issued, thr>>
      PROVE  DInv' /\ UNCHANGED F!vars
  <2>1. \A u \in Threads : Same(thr[u], thr'[u]) /\ InShape(u, thr'[u])
    BY <1>0, <1>2 DEF Same, ThreadShape
  <2> QED
    BY <1>0, <1>2, <2>1, QuietStep
<1>3. CASE (\E s \in Settings : SettingsUpdated(s)) \/ (\E q \in Pools : Reap(q))
  <2>1. UNCHANGED <<fenceVars, m_queued_jobs, postVars, ret, issued, thr>>
    BY <1>3 DEF SettingsUpdated, Reap
  <2> QED
    BY <1>2, <2>1
<1>4. CASE SubmitJobs
  <2>1. UNCHANGED <<fenceVars, m_queued_jobs, postVars, ret, issued>> /\ NotifyQueues(NonEmptyQueues, thr)
    BY <1>4 DEF SubmitJobs
  <2> QED
    BY <1>0, <2>1, NotifyQuiet
<1>5. CASE AbortSubmits
  <2> DEFINE h == At("abort", <<>>)
             base == [thr EXCEPT ![Net] = h]
  <2>1. /\ UNCHANGED <<fenceVars, m_queued_jobs, postVars, ret, issued>> /\ NotifyQueues(NonEmptyQueues, base)
        /\ thr[Net].pc = "none"
    BY <1>5 DEF AbortSubmits
  <2>2. h \in ThreadState /\ Same(thr[Net], h) /\ InShape(Net, h) /\ h.pc # "add"
    BY <1>0, <1>1, <2>1, EmptyHandedMove
  <2> HIDE DEF h
  <2>3. /\ base \in [Threads -> ThreadState] /\ base[Net] = h
        /\ \A u \in Threads : u # Net => base[u] = thr[u]
    BY <1>0, <2>2
  <2> HIDE DEF base
  <2>4. \A u \in Threads : \/ base[u] = thr[u]
                           \/ Same(thr[u], base[u]) /\ InShape(u, base[u]) /\ base[u].pc # "add"
    BY <2>2, <2>3
  <2> QED
    BY <2>1, <2>3, <2>4, NotifyQuiet
<1>6. CASE AbortStarts \/ AbortPools
  <2>1. PICK pc \in {"abort_generic", "abort_hash", "none"} : thr' = [thr EXCEPT ![Net] = At(pc, <<>>)]
    BY <1>6 DEF AbortStarts, AbortPools, NetGoes
  <2>2. thr[Net].pc \in EmptyHanded /\ UNCHANGED <<fenceVars, m_queued_jobs, postVars, ret, issued>>
    BY <1>1, <1>6 DEF AbortStarts, AbortPools
  <2>3. pc \in EmptyHanded
    BY <1>1
  <2> QED
    BY <1>0, <2>1, <2>2, <2>3, EmptyHandedStep
<1> QED
  BY <1>3, <1>4, <1>5, <1>6

(* Every step keeps the invariant, and is a step of the fence.             *)
LEMMA NextKeeps ==
    ASSUME DInv, [Next]_vars
    PROVE  DInv' /\ FenceStep
<1>0. UNCHANGED F!vars => FenceStep
  BY DEF FenceStep
<1>1. ASSUME NEW t \in Threads, ThreadStep(t) PROVE DInv' /\ FenceStep
  <2>1. CASE t \in Workers /\ (TakeJob(t) \/ WaitOrExit(t))
    BY <1>0, <2>1, QueueStepKeeps
  <2>2. CASE CleanUp(t)
    BY <1>0, <2>2, QueueStepKeeps
  <2>3. CASE \E j \in Jobs : Execute(t, j)
    BY <1>0, <2>3, ExecuteKeeps
  <2>4. CASE CompleteJobs(t)
    BY <2>4, CompleteJobsKeeps
  <2> QED
    BY <1>1, <2>1, <2>2, <2>3, <2>4 DEF ThreadStep
<1>2. CASE Client
  <2>1. ASSUME NEW j \in Jobs, AsyncWrite(j) \/ AsyncRead(j) \/ AsyncHash(j) \/ AsyncFence(j)
        PROVE  DInv' /\ FenceStep
    BY <2>1, ClientKeeps
  <2>2. WriteJobs \subseteq Jobs /\ ReadJobs \subseteq Jobs /\ HashJobs \subseteq Jobs /\ FenceJobs \subseteq Jobs
    BY DEF Jobs
  <2>3. CASE (\E s \in Settings : SettingsUpdated(s)) \/ (\E q \in Pools : Reap(q)) \/ AbortSubmits
    BY <1>0, <2>3, PoolStepKeeps
  <2> QED
    BY <1>2, <2>1, <2>2, <2>3 DEF Client
<1>3. CASE SubmitJobs
  BY <1>0, <1>3, PoolStepKeeps
<1>4. CASE CallJobHandlers
  BY <1>0, <1>4, CallJobHandlersKeeps
<1>5. CASE NetStep
  <2>1. CASE \E j \in Jobs : JobFailAdd(j) \/ AddJob(j) \/ AddFenceJob(j)
    BY <1>0, <2>1, JobFailAddKeeps, AddJobKeeps, AddFenceJobKeeps
  <2>2. CASE PushJob
    BY <1>0, <2>2, PushJobKeeps
  <2>3. CASE ImmediateExecute
    BY <1>0, <2>3, QueueStepKeeps
  <2>4. CASE AbortStarts \/ AbortPools
    BY <1>0, <2>4, PoolStepKeeps
  <2>5. CASE ThreadStep(Net)
    BY <1>1, <2>5 DEF Threads
  <2> QED
    BY <1>5, <2>1, <2>2, <2>3, <2>4, <2>5 DEF NetStep
<1>6. CASE \E t \in Workers : ThreadStep(t)
  BY <1>1, <1>6 DEF Threads
<1>7. CASE UNCHANGED vars
  <2>1. UNCHANGED <<fenceVars, m_queued_jobs, postVars, ret, issued, thr>>
    BY <1>7 DEF vars, fenceVars, postVars
  <2>2. thr \in [Threads -> ThreadState] /\ \A u \in Threads : Same(thr[u], thr'[u]) /\ InShape(u, thr'[u])
    BY <2>1 DEF Same, ThreadShape, DInv, ListTypes
  <2> QED
    BY <1>0, <2>1, <2>2, QuietStep
<1> QED
  BY <1>2, <1>3, <1>4, <1>5, <1>6, <1>7 DEF Next

(* The invariant holds initially.                                          *)
LEMMA InitKeeps == Init => DInv
<1> SUFFICES ASSUME Init PROVE DInv
  OBVIOUS
<1>1. <<>> \in Seq(Jobs) /\ ToSet(<<>>) = {} /\ IsInjective(<<>>) /\ DOMAIN <<>> = {}
  BY ToSetIs DEF IsInjective
<1>2. /\ Stopped \in ThreadState /\ Stopped.pc = "none" /\ Stopped.jobs = <<>> /\ Stopped.new = <<>>
      /\ Stopped.failed = <<>> /\ ActiveOf(Stopped) = {} /\ WaitingOf(Stopped) = {}
      /\ \A t \in Threads : InShape(t, Stopped)
  BY InShapeEmpty DEF Stopped, EmptyHanded
<1> HIDE DEF Stopped
<1>3. /\ thr = [t \in Threads |-> Stopped] /\ called = <<>> /\ m_completed_jobs = <<>> /\ fence = NewFence
      /\ m_queued_jobs = [q \in Pools |-> <<>>] /\ issued = <<>> /\ reached = <<>>
      /\ ret = [j \in Jobs |-> "none"]
  BY DEF Init, Threads
<1>4. /\ \A t \in Threads : thr[t] = Stopped
      /\ m_queued_jobs["generic"] = <<>> /\ m_queued_jobs["hash"] = <<>> /\ Net \in Threads
      /\ fence.m_blocked_jobs = <<>>
  BY <1>3 DEF Pools, Threads, NewFence
<1>5. ListTypes
  BY <1>1, <1>2, <1>3 DEF ListTypes, NewFence, FenceObject
<1>6. ThreadShape
  BY <1>2, <1>4 DEF ThreadShape
<1>7. /\ Held \in [Lists -> Seq(Jobs)] /\ \A x \in Lists : Held[x] = <<>>
  <2>1. Held \in [Lists -> Seq(Jobs)]
    BY <1>5, HeldType
  <2>2. ASSUME NEW x \in Lists PROVE Held[x] = <<>>
    <3>1. CASE \E t \in Threads : x \in {<<t, "jobs">>, <<t, "new">>, <<t, "failed">>}
      <4>1. PICK t \in Threads : x \in {<<t, "jobs">>, <<t, "new">>, <<t, "failed">>}
        BY <3>1
      <4>2. /\ Held[<<t, "jobs">>] = <<>> /\ Held[<<t, "new">>] = <<>> /\ Held[<<t, "failed">>] = <<>>
        BY <1>2, <1>4, HeldAre
      <4> QED
        BY <4>1, <4>2
    <3>2. CASE x \in {<<Net, "called">>, <<Net, "completed">>, <<Net, "blocked">>, <<Net, "generic">>,
                      <<Net, "hash">>}
      BY <1>3, <1>4, <3>2, HeldAre
    <3> QED
      BY <3>1, <3>2, ListsAre
  <2> QED
    BY <2>1, <2>2
<1>8. OnePlace(Held) /\ JobsIn(Held) = ToSet(issued)
  BY <1>1, <1>3, <1>7 DEF OnePlace, JobsIn
<1>9. Blocked = {} /\ Queued = {}
  BY <1>1, <1>4 DEF Blocked, Queued
<1>10. Active = {} /\ Waiting = {}
  BY <1>2, <1>4, <1>9 DEF Active, Waiting
<1>11. Order
  BY <1>1, <1>2, <1>3, <1>4 DEF Order
<1>12. ResultsExact
  BY <1>1, <1>3 DEF ResultsExact, IsIssued
<1>13. F!IInv
  <2>1. F!Init
    <3>1. Len(reached) = 0 /\ ToSet(reached) = {}
      BY <1>1, <1>3
    <3>2. fence = F!NewFence
      BY <1>3 DEF NewFence, F!NewFence
    <3> QED
      BY <1>10, <3>1, <3>2 DEF F!Init
  <2> QED
    BY <2>1, JobsAreFinite, F!InitIInv, Zenon
<1>14. ret \in [Jobs -> Results]
  BY <1>3 DEF Results
<1> QED
  BY <1>1, <1>3, <1>5, <1>6, <1>8, <1>9, <1>10, <1>11, <1>12, <1>13, <1>14 DEF DInv

(* The inductive invariant holds throughout.                               *)
THEOREM DiskInvariant == Spec => []DInv
<1>1. DInv /\ [Next]_vars => DInv'
  BY NextKeeps
<1> QED
  BY <1>1, InitKeeps, PTL DEF Spec

(* What the instance Fence of MmapDiskIO says is what F says.              *)
LEMMA FenceIsF ==
    /\ F!Init => Fence!Init
    /\ F!Next => Fence!Next
    /\ UNCHANGED F!vars => UNCHANGED Fence!vars
<1>1. F!Init => Fence!Init
  BY DEF F!Init, Fence!Init, F!NewFence, Fence!NewFence
<1>2. UNCHANGED F!vars => UNCHANGED Fence!vars
  BY DEF F!vars, Fence!vars
<1>3. ASSUME NEW j PROVE F!Issue(j) => Fence!Issue(j)
  BY DEF F!Issue, Fence!Issue
<1>4. ASSUME NEW f, NEW j, NEW S, NEW s
      PROVE  /\ F!Admits(f) = Fence!Admits(f) /\ F!PostsFence(f) = Fence!PostsFence(f)
             /\ F!AfterIsBlocked(f, j) = Fence!AfterIsBlocked(f, j)
             /\ F!AfterRaiseFence(f, j) = Fence!AfterRaiseFence(f, j)
             /\ F!JobComplete(f, j, S, s) = Fence!JobComplete(f, j, S, s)
  <2>1. F!Admits(f) = Fence!Admits(f) /\ F!PostsFence(f) = Fence!PostsFence(f)
    BY DEF F!Admits, Fence!Admits, F!PostsFence, Fence!PostsFence
  <2>2. /\ F!AfterIsBlocked(f, j) = Fence!AfterIsBlocked(f, j)
        /\ F!AfterRaiseFence(f, j) = Fence!AfterRaiseFence(f, j)
    BY <2>1 DEF F!AfterIsBlocked, Fence!AfterIsBlocked, F!AfterRaiseFence, Fence!AfterRaiseFence
  <2>3. F!JobComplete(f, j, S, s) = Fence!JobComplete(f, j, S, s)
    BY DEF F!JobComplete, Fence!JobComplete, F!Released, Fence!Released, F!LeadingJobs, Fence!LeadingJobs
  <2> QED
    BY <2>1, <2>2, <2>3
<1>5. ASSUME NEW j PROVE F!IsBlocked(j) => Fence!IsBlocked(j)
  BY <1>3, <1>4, Zenon DEF F!IsBlocked, Fence!IsBlocked
<1>6. ASSUME NEW j PROVE F!RaiseFence(j) => Fence!RaiseFence(j)
  BY <1>3, <1>4, Zenon DEF F!RaiseFence, Fence!RaiseFence
<1>7. ASSUME NEW j PROVE F!Complete(j) => Fence!Complete(j)
  <2> DEFINE R == FenceJobs \intersect ToSet(reached)
             Leaves(r) ==
                 /\ j \in Active
                 /\ fence' = r.fence
                 /\ Active' = (Active \ {j}) \union {r.jobs[i] : i \in DOMAIN r.jobs}
                 /\ (ToSet(reached) \ (Active \union Blocked))'
                      = (ToSet(reached) \ (Active \union Blocked)) \union {j}
                 /\ UNCHANGED <<R, Ticket(reached), Len(reached)>>
  <2>1. F!JobComplete(fence, j, R, <<>>) = Fence!JobComplete(fence, j, R, <<>>)
    BY <1>4, Zenon
  <2>2. F!Complete(j) => Leaves(F!JobComplete(fence, j, R, <<>>))
    BY DEF F!Complete, Ticket
  <2>3. Leaves(Fence!JobComplete(fence, j, R, <<>>)) => Fence!Complete(j)
    BY DEF Fence!Complete, Ticket
  <2> HIDE DEF Leaves
  <2> QED
    BY <2>1, <2>2, <2>3
<1> QED
  BY <1>1, <1>2, <1>5, <1>6, <1>7 DEF F!Next, Fence!Next

(* The storage's fence as the disk I/O threads and the network thread use  *)
(* it (is_blocked and raise_fence in add_job and add_fence_job,            *)
(* job_complete in add_completed_jobs, in any order and with released jobs *)
(* collected over several calls) implements the specification of the       *)
(* fence, so what is proved of DiskJobFence holds of it.                   *)
THEOREM DiskImplementsFence == Spec => ImplementsFence
<1>1. Init => Fence!Init
  <2> SUFFICES ASSUME Init PROVE Fence!Init
    OBVIOUS
  <2>1. DInv
    BY InitKeeps
  <2>2. reached = <<>> /\ fence = NewFence
    BY DEF Init
  <2>3. ToSet(reached) = {} /\ Len(reached) = 0
    BY <2>2, ToSetIs
  <2>4. Active = {} /\ Blocked = {}
    BY <2>1, <2>3 DEF DInv
  <2>5. fence = Fence!NewFence
    BY <2>2 DEF NewFence, Fence!NewFence
  <2> QED
    BY <2>3, <2>4, <2>5 DEF Fence!Init
<1>2. DInv /\ [Next]_vars => [Fence!Next]_(Fence!vars)
  BY NextKeeps, FenceIsF DEF FenceStep
<1> QED
  BY <1>1, <1>2, DiskInvariant, PTL DEF Spec, ImplementsFence, Fence!Spec

-----------------------------------------------------------------------------
(***************************************************************************)
(* What the fence guarantees to the jobs.                                  *)
(***************************************************************************)

(* A job without a result is at the fence or has been let through, unless  *)
(* it is the last one issued.                                              *)
LEMMA WaitingIsAtFence ==
    ASSUME DInv, NEW j, j \in Waiting
    PROVE  \/ j \in Active \union Blocked
           \/ issued # <<>> /\ j = issued[Len(issued)] /\ j \notin ToSet(reached)
<1>1. /\ ThreadShape /\ thr \in [Threads -> ThreadState] /\ Order
  BY DEF DInv, ListTypes
<1>2. CASE j \in Blocked \union Queued
  BY <1>2 DEF Active
<1>3. CASE \E t \in Threads : j \in WaitingOf(thr[t])
  <2>1. PICK t \in Threads : j \in WaitingOf(thr[t])
    BY <1>3
  <2> DEFINE g == thr[t]
  <2>2. g \in ThreadState /\ InShape(t, g)
    BY <1>1 DEF ThreadShape
  <2>3. CASE g.pc = "add"
    <3>1. t = Net /\ thr[Net].pc = "add"
      BY <2>2, <2>3 DEF InShape
    <3>2. WaitingOf(thr[Net]) = {thr[Net].jobs[1]}
      BY <3>1, NetJob
    <3> QED
      BY <1>1, <2>1, <3>1, <3>2 DEF Order
  <2>4. CASE g.pc # "add"
    <3>1. WaitingOf(g) \subseteq ActiveOf(g)
      <4>1. g.pc \in Early => g.todo = g.jobs
        BY <2>2 DEF InShape, Early, Passing
      <4> QED
        BY <2>4, <4>1 DEF WaitingOf, ActiveOf
    <3>2. ActiveOf(g) \subseteq Active
      BY DEF Active
    <3> QED
      BY <2>1, <3>1, <3>2
  <2> QED
    BY <2>3, <2>4
<1> QED
  BY <1>2, <1>3 DEF Waiting

(* The position of a job in the list of issued jobs.                       *)
LEMMA PosIs ==
    ASSUME DInv
    PROVE  /\ \A j \in ToSet(issued) : Pos(j) \in 1..Len(issued) /\ issued[Pos(j)] = j
           /\ \A i \in DOMAIN issued : Pos(issued[i]) = i
           /\ DOMAIN issued = 1..Len(issued) /\ Len(issued) \in Nat
<1>1. issued \in Seq(Jobs) /\ IsInjective(issued)
  BY DEF DInv, Order
<1>2. DOMAIN issued = 1..Len(issued) /\ Len(issued) \in Nat
  BY <1>1
<1>3. ASSUME NEW j \in ToSet(issued) PROVE Pos(j) \in DOMAIN issued /\ issued[Pos(j)] = j
  <2>1. PICK i \in DOMAIN issued : issued[i] = j
    BY <1>3 DEF ToSet
  <2> QED
    BY <2>1 DEF Pos
<1>4. ASSUME NEW i \in DOMAIN issued PROVE Pos(issued[i]) = i
  <2>1. issued[i] \in ToSet(issued)
    BY DEF ToSet
  <2> QED
    BY <1>1, <1>3, <2>1 DEF IsInjective
<1> QED
  BY <1>2, <1>3, <1>4

(* A fence job that is no longer parked has left no earlier job behind it. *)
LEMMA FenceLeavesNone ==
    ASSUME DInv, NEW f, f \in FenceJobs, f \in ToSet(reached), f \notin Waiting, NEW j, j \in Jobs,
           Earlier(j, f)
    PROVE  j \notin Active \union Blocked
<1>0. /\ f \in Jobs /\ IsIssued(j) /\ IsIssued(f) /\ Pos(j) < Pos(f) /\ F!IInv /\ Order
      /\ reached \in Seq(Jobs) /\ issued \in Seq(Jobs) /\ Active \union Blocked \subseteq ToSet(reached)
  BY DEF Jobs, Earlier, DInv
<1>1. f \notin Waiting
  OBVIOUS
<1>3. ASSUME j \in Active \union Blocked PROVE FALSE
  <2>1. IsInjective(reached) /\ j \in ToSet(reached)
    BY <1>0, <1>3 DEF Order
  <2>2. /\ Ticket(reached)[f] \in DOMAIN reached /\ reached[Ticket(reached)[f]] = f
        /\ Ticket(reached)[j] \in DOMAIN reached /\ reached[Ticket(reached)[j]] = j
    BY <1>0, <2>1, TicketIs
  <2>3. DOMAIN reached = 1..Len(reached) /\ Len(reached) \in Nat
    BY <1>0
  <2>4. ~ (Ticket(reached)[f] < Ticket(reached)[j])
    <3> SUFFICES ASSUME Ticket(reached)[f] < Ticket(reached)[j] PROVE FALSE
      OBVIOUS
    <3>1. \E a, b \in DOMAIN issued : a < b /\ issued[a] = f /\ issued[b] = j
      BY <1>0, <2>2 DEF Order
    <3>2. PICK a \in DOMAIN issued, b \in DOMAIN issued : a < b /\ issued[a] = f /\ issued[b] = j
      BY <3>1
    <3>3. Pos(f) = a /\ Pos(j) = b
      BY <3>2, PosIs
    <3>4. a \in Nat /\ b \in Nat
      BY PosIs
    <3> QED
      BY <1>0, <3>2, <3>3, <3>4
  <2>5. f # j
    <3>1. Pos(f) \in Nat
      BY <1>0, PosIs DEF IsIssued
    <3> QED
      BY <1>0, <3>1
  <2>6. 0 < Ticket(reached)[j] /\ Ticket(reached)[j] < Ticket(reached)[f]
    BY <2>2, <2>3, <2>4, <2>5
  <2>7. f \notin Blocked
    BY <1>1 DEF Waiting
  <2>8. F!FenceOrder
    BY <1>0 DEF F!IInv
  <2>9. j \in ToSet(reached) \ (Active \union Blocked)
    <3>1. f \in Active \union (ToSet(reached) \ (Active \union Blocked))
      BY <2>7
    <3>2. f \in FenceJobs \intersect ToSet(reached)
      OBVIOUS
    <3>3. \A a, b \in Jobs :
              /\ 0 < Ticket(reached)[a] /\ Ticket(reached)[a] < Ticket(reached)[b]
              /\ a \in FenceJobs \intersect ToSet(reached) \/ b \in FenceJobs \intersect ToSet(reached)
              /\ b \in Active \union (ToSet(reached) \ (Active \union Blocked))
              => a \in ToSet(reached) \ (Active \union Blocked)
      BY <2>8, Zenon DEF F!FenceOrder, Ticket
    <3> QED
      BY <1>0, <2>6, <3>1, <3>2, <3>3
  <2> QED
    BY <1>3, <2>9
<1> QED
  BY <1>3

(* Every job issued before a fence job that has its result has one too.    *)
LEMMA FenceWaits ==
    ASSUME DInv, NEW f, f \in FenceJobs, f \in ToSet(reached), NEW j, j \in Jobs, Earlier(j, f), ret[f] # "none"
    PROVE  ret[j] # "none"
<1>0. /\ f \in Jobs /\ IsIssued(j) /\ IsIssued(f) /\ Pos(j) < Pos(f) /\ ResultsExact
  BY DEF Jobs, Earlier, DInv
<1>1. f \notin Waiting
  BY <1>0 DEF ResultsExact
<1> SUFFICES j \notin Waiting
  BY <1>0 DEF ResultsExact
<1>2. j # issued[Len(issued)]
  <2>1. Pos(j) \in 1..Len(issued) /\ Pos(f) \in 1..Len(issued) /\ Len(issued) \in Nat
    BY <1>0, PosIs DEF IsIssued
  <2>2. Len(issued) \in DOMAIN issued /\ Pos(j) < Len(issued)
    BY <1>0, <2>1, PosIs
  <2> QED
    BY <2>1, <2>2, PosIs
<1>3. j \notin Active \union Blocked
  BY <1>1, FenceLeavesNone
<1> QED
  BY <1>2, <1>3, WaitingIsAtFence

(* While a thread executes a fence job, no other thread is in the files.   *)
LEMMA FenceIsAlone ==
    ASSUME DInv, NEW t, t \in InFiles, thr[t].jobs[1] \in FenceJobs
    PROVE  InFiles = {t}
<1>0. /\ ListTypes /\ ThreadShape /\ OnePlace(Held) /\ thr \in [Threads -> ThreadState] /\ F!IInv
      /\ Active \union Blocked \subseteq ToSet(reached)
  BY DEF DInv, ListTypes
<1>1. ASSUME NEW u \in InFiles
      PROVE  u \in Threads /\ thr[u].jobs[1] \in ToSet(thr[u].jobs) /\ thr[u].jobs[1] \in Active
  <2>1. u \in Threads /\ thr[u].pc \in Executing
    BY <1>0, <1>1 DEF InFiles, Executing
  <2> DEFINE g == thr[u]
  <2>2. g \in ThreadState /\ InShape(u, g)
    BY <1>0, <2>1 DEF ThreadShape
  <2>3. g.jobs \in Seq(Jobs) /\ Len(g.jobs) = 1 /\ g.todo = g.jobs
    BY <2>1, <2>2, ThreadStateIs DEF InShape, Executing, Early, Passing
  <2>4. g.jobs[1] \in ToSet(g.jobs)
    <3>1. g.jobs = <<g.jobs[1]>> /\ g.jobs[1] \in Jobs
      BY <2>3, OneJob
    <3> QED
      BY <3>1, ToSetIs
  <2>5. ActiveOf(g) \subseteq Active
    BY <2>1 DEF Active
  <2>6. g.jobs[1] \in ActiveOf(g)
    BY <2>1, <2>3, <2>4 DEF ActiveOf, Executing
  <2> QED
    BY <2>1, <2>4, <2>5, <2>6
<1>2. Active = {thr[t].jobs[1]}
  <2>1. F!FenceExclusive
    BY <1>0 DEF F!IInv
  <2>2. thr[t].jobs[1] \in Active \intersect (FenceJobs \intersect ToSet(reached))
    BY <1>0, <1>1
  <2> QED
    BY <2>1, <2>2 DEF F!FenceExclusive
<1>3. ASSUME NEW u \in InFiles PROVE u = t
  <2>1. thr[u].jobs[1] = thr[t].jobs[1]
    BY <1>1, <1>2, <1>3
  <2>2. u \in Threads /\ t \in Threads /\ thr[t].jobs[1] \in ToSet(thr[u].jobs) /\ thr[t].jobs[1] \in ToSet(thr[t].jobs)
    BY <1>1, <1>3, <2>1
  <2> QED
    BY <1>0, <2>2, Alone
<1> QED
  BY <1>3

(* A fence job that reached the fence has its result only when all jobs    *)
(* issued before it have theirs, and is alone in the files, for any jobs,  *)
(* threads, disk faults and shutdowns: async_clear_piece and the           *)
(* operations on a whole storage rely on it.                               *)
THEOREM FenceJobsSynchronize == Spec => []FenceSynchronizes
<1>1. DInv => FenceSynchronizes
  BY FenceWaits, FenceIsAlone DEF FenceSynchronizes
<1> QED
  BY <1>1, DiskInvariant, PTL

-----------------------------------------------------------------------------
(***************************************************************************)
(* The thread pools.                                                       *)
(***************************************************************************)

(* The threads that m_num_running_threads counts: from their first look at *)
(* the queue to their exit.                                                *)
Counted == Executing \union Passing \union {"loop", "idle"}

CountedThreads == {t \in Workers : thr[t].pc \in Counted}

IdleOf(q) == {t \in ThreadsOf(q) : thr[t].pc = "idle"}

(* The counts of pool q are exact.                                         *)
PoolIs(q, p) ==
    /\ p \in PoolObject(Workers) /\ p.m_threads \subseteq ThreadsOf(q)
    /\ p.m_num_idle_threads = Cardinality(IdleOf(q))

PoolInv ==
    /\ pools \in [Pools -> PoolObject(Workers)]
    /\ \A q \in Pools : PoolIs(q, pools[q])
    /\ m_num_running_threads = Cardinality(CountedThreads)

(* The sets of threads.                                                    *)
LEMMA ThreadSets ==
    /\ IsFiniteSet(Workers) /\ Workers \subseteq Threads /\ Net \in Threads /\ Net \notin Workers
    /\ \A q \in Pools : ThreadsOf(q) \subseteq Workers
    /\ \A t \in Workers : /\ PoolOf(t) \in Pools /\ t \in ThreadsOf(PoolOf(t))
                          /\ \A q \in Pools : q # PoolOf(t) => t \notin ThreadsOf(q)
  BY DiskAssumption DEF Workers, Threads, Pools, ThreadsOf, PoolOf

(* A set that differs from another in t at most.                           *)
LEMMA OneMoves ==
    ASSUME NEW A, NEW B, NEW t, IsFiniteSet(A), \A u : u # t => (u \in A <=> u \in B)
    PROVE  /\ Cardinality(A) \in Nat
           /\ t \in A => Cardinality(A) > 0
           /\ t \notin A /\ t \in B => Cardinality(B) = Cardinality(A) + 1
           /\ t \in A /\ t \notin B => Cardinality(B) = Cardinality(A) - 1
           /\ (t \in A <=> t \in B) => B = A
<1>1. Cardinality(A) \in Nat
  BY FS_CardinalityType
<1>2. ASSUME t \in A PROVE Cardinality(A) > 0
  BY <1>1, <1>2, FS_EmptySet
<1>3. ASSUME t \notin A, t \in B PROVE Cardinality(B) = Cardinality(A) + 1
  <2>1. B = A \union {t}
    BY <1>3
  <2> QED
    BY <1>3, <2>1, FS_AddElement
<1>4. ASSUME t \in A, t \notin B PROVE Cardinality(B) = Cardinality(A) - 1
  <2>1. B = A \ {t}
    BY <1>4
  <2> QED
    BY <1>4, <2>1, FS_RemoveElement
<1>5. ASSUME t \in A <=> t \in B PROVE B = A
  BY <1>5
<1> QED
  BY <1>1, <1>2, <1>3, <1>4, <1>5

(* No thread begins or ends to wait, to run or to be counted.              *)
Calm ==
    \A u \in Workers : /\ thr'[u].pc = "idle" <=> thr[u].pc = "idle"
                       /\ thr'[u].pc \in Counted <=> thr[u].pc \in Counted

(* A calm step leaves the counted and the idle threads as they are.        *)
LEMMA CalmSets ==
    ASSUME Calm
    PROVE  CountedThreads' = CountedThreads /\ \A q \in Pools : IdleOf(q)' = IdleOf(q)
<1>1. CountedThreads' = CountedThreads
  BY DEF Calm, CountedThreads
<1>2. ASSUME NEW q \in Pools PROVE IdleOf(q)' = IdleOf(q)
  <2>1. ThreadsOf(q) \subseteq Workers
    BY ThreadSets
  <2> QED
    BY <2>1 DEF Calm, IdleOf
<1> QED
  BY <1>1, <1>2

(* A calm step that leaves the pools alone keeps their counts.             *)
LEMMA CalmKeeps ==
    ASSUME PoolInv, Calm, UNCHANGED poolVars
    PROVE  PoolInv'
<1>1. CountedThreads' = CountedThreads /\ (\A q \in Pools : IdleOf(q)' = IdleOf(q))
  BY CalmSets
<1>2. pools' = pools /\ m_num_running_threads' = m_num_running_threads
  BY DEF poolVars
<1>3. ASSUME NEW q \in Pools PROVE PoolIs(q, pools[q])'
  BY <1>1, <1>2 DEF PoolInv, PoolIs
<1> QED
  BY <1>1, <1>2, <1>3 DEF PoolInv

(* The operations on a pool that move no thread.                           *)
PoolKeeps(q, p, r) ==
    /\ r \in PoolObject(Workers) /\ r.m_threads \subseteq ThreadsOf(q)
    /\ r.m_num_idle_threads = p.m_num_idle_threads

(* So does one that changes no count of a pool.                            *)
LEMMA PoolsKeep ==
    ASSUME PoolInv, Calm, UNCHANGED m_num_running_threads, DOMAIN pools' = Pools,
           pools' = [q \in Pools |-> pools'[q]], \A q \in Pools : PoolKeeps(q, pools[q], pools'[q])
    PROVE  PoolInv'
<1>1. CountedThreads' = CountedThreads /\ (\A q \in Pools : IdleOf(q)' = IdleOf(q))
  BY CalmSets
<1>2. ASSUME NEW q \in Pools PROVE PoolIs(q, pools[q])'
  BY <1>1 DEF PoolInv, PoolIs, PoolKeeps
<1>3. pools' \in [Pools -> PoolObject(Workers)]
  BY DEF PoolKeeps
<1> QED
  BY <1>1, <1>2, <1>3 DEF PoolInv

(* Only thread t moves, and stays as it is for the counts.                 *)
LEMMA CalmMove ==
    ASSUME NEW t, t \in Threads, \A u \in Threads : u # t => thr'[u] = thr[u],
           \/ t = Net
           \/ /\ thr'[t].pc = "idle" <=> thr[t].pc = "idle"
              /\ thr'[t].pc \in Counted <=> thr[t].pc \in Counted
    PROVE  Calm
  BY ThreadSets DEF Calm

(* The network thread is never counted.                                    *)
LEMMA NetMovesCalmly ==
    ASSUME DInv, NEW h, thr' = [thr EXCEPT ![Net] = h]
    PROVE  Calm
<1>1. thr \in [Threads -> ThreadState] /\ Net \in Threads
  BY ThreadSets DEF DInv, ListTypes
<1> QED
  BY <1>1, CalmMove

(* The steps of the network thread that leave the pools alone.             *)
LEMMA IssuingIsCalm ==
    ASSUME DInv, NEW j, \/ AsyncWrite(j) \/ AsyncRead(j) \/ AsyncHash(j) \/ AsyncFence(j)
                        \/ JobFailAdd(j) \/ AddJob(j) \/ AddFenceJob(j) \/ PushJob
                        \/ AbortStarts \/ ImmediateExecute \/ CallJobHandlers
    PROVE  Calm /\ UNCHANGED poolVars
<1>1. UNCHANGED poolVars
  BY DEF AsyncWrite, AsyncRead, AsyncHash, AsyncFence, JobFailAdd, AddJob, AddFenceJob, PushJob,
         AbortStarts, ImmediateExecute, CallJobHandlers
<1>2. UNCHANGED thr \/ \E h : thr' = [thr EXCEPT ![Net] = h]
  <2>1. CASE AsyncWrite(j) \/ AsyncRead(j) \/ AsyncHash(j) \/ AsyncFence(j) \/ CallJobHandlers
    BY <2>1 DEF AsyncWrite, AsyncRead, AsyncHash, AsyncFence, CallJobHandlers, NetGoes
  <2>2. CASE JobFailAdd(j) \/ AddJob(j) \/ AbortStarts \/ ImmediateExecute
    BY <2>2 DEF JobFailAdd, AddJob, AbortStarts, ImmediateExecute, NetGoes
  <2>3. CASE AddFenceJob(j) \/ PushJob
    BY <2>3 DEF AddFenceJob, PushJob, NetGoes
  <2> QED
    BY <2>1, <2>2, <2>3
<1>3. UNCHANGED thr => Calm
  BY DEF Calm
<1> QED
  BY <1>1, <1>2, <1>3, NetMovesCalmly

(* A thread that works on jobs goes on working, or looks for the next.     *)
LEMMA WorkMoves ==
    ASSUME DInv, NEW t, t \in Threads,
           \/ \E j \in Jobs : Execute(t, j)
           \/ LeaveFence(t) \/ RouteReleased(t) \/ AppendReleased(t) \/ PostCompleted(t)
    PROVE  /\ thr[t].pc \in Executing \union Passing
           /\ thr'[t].pc \in Executing \union Passing \union {"loop"}
           /\ \A u \in Threads : u # t => thr'[u] = thr[u]
<1>0. thr \in [Threads -> ThreadState] /\ thr[t] \in ThreadState
  BY DEF DInv, ListTypes
<1>1. CASE \E j \in Jobs : Execute(t, j)
  <2>1. PICK j \in Jobs : Execute(t, j)
    BY <1>1
  <2>2. thr[t].pc \in Executing
    BY <2>1 DEF Execute, SkipAborted, WriteBlock, EraseBuffer, ReadBlocks, StartHash, HashLookup,
                HashFile, PerformFence, Executing
  <2>3. ASSUME NEW pc, GoesOn(t, pc) PROVE thr'[t].pc = pc /\ \A u \in Threads : u # t => thr'[u] = thr[u]
    BY <1>0, <2>3 DEF GoesOn, ThreadState
  <2>4. ASSUME NEW v, HashedAs(t, j, v)
        PROVE  thr'[t].pc \in {"hash", "complete"} /\ \A u \in Threads : u # t => thr'[u] = thr[u]
    BY <1>0, <2>4 DEF HashedAs, ThreadState
  <2>5. thr'[t].pc \in {"complete", "erase", "hash", "hash_file"} /\ \A u \in Threads : u # t => thr'[u] = thr[u]
    <3>1. CASE SkipAborted(t, j) \/ EraseBuffer(t, j) \/ ReadBlocks(t, j) \/ PerformFence(t, j)
      BY <2>3, <3>1 DEF SkipAborted, EraseBuffer, ReadBlocks, PerformFence
    <3>2. CASE WriteBlock(t, j)
      <4>1. \E pc \in {"complete", "erase"} : GoesOn(t, pc)
        BY <3>2 DEF WriteBlock
      <4> QED
        BY <2>3, <4>1
    <3>3. CASE StartHash(t, j)
      BY <1>0, <3>3 DEF StartHash, ThreadState
    <3>4. CASE HashLookup(t, j)
      <4>1. (\E v : HashedAs(t, j, v)) \/ GoesOn(t, "hash_file")
        BY <3>4 DEF HashLookup
      <4> QED
        BY <2>3, <2>4, <4>1
    <3>5. CASE HashFile(t, j)
      <4>1. (\E v : HashedAs(t, j, v)) \/ GoesOn(t, "complete")
        BY <3>5 DEF HashFile
      <4> QED
        BY <2>3, <2>4, <4>1
    <3> QED
      BY <2>1, <3>1, <3>2, <3>3, <3>4, <3>5 DEF Execute
  <2> QED
    BY <2>2, <2>5 DEF Executing, Passing
<1>2. CASE LeaveFence(t) \/ RouteReleased(t) \/ AppendReleased(t) \/ PostCompleted(t)
  <2>1. thr[t].pc \in Passing
    BY <1>2 DEF LeaveFence, RouteReleased, AppendReleased, PostCompleted, Passing
  <2>2. thr'[t].pc \in Passing \union {"loop"} /\ \A u \in Threads : u # t => thr'[u] = thr[u]
    <3>1. CASE LeaveFence(t)
      BY <1>0, <3>1 DEF LeaveFence, ThreadState, Passing
    <3>2. CASE RouteReleased(t)
      BY <1>0, <3>2 DEF RouteReleased, GoesOn, ThreadState, Passing
    <3>3. CASE AppendReleased(t)
      BY <1>0, <3>3 DEF AppendReleased, ThreadState, Passing
    <3>4. CASE PostCompleted(t)
      BY <1>0, <3>4 DEF PostCompleted, At, Passing
    <3> QED
      BY <1>2, <3>1, <3>2, <3>3, <3>4
  <2> QED
    BY <2>1, <2>2
<1> QED
  BY <1>1, <1>2

(* The steps of a disk thread that leave the pools alone.                  *)
LEMMA WorkIsCalm ==
    ASSUME DInv, NEW t, t \in Threads,
           \/ CleanUp(t) \/ (\E j \in Jobs : Execute(t, j))
           \/ LeaveFence(t) \/ RouteReleased(t) \/ AppendReleased(t) \/ PostCompleted(t)
    PROVE  Calm /\ UNCHANGED poolVars
<1>0. thr \in [Threads -> ThreadState] /\ thr[t] \in ThreadState
  BY DEF DInv, ListTypes
<1>1. UNCHANGED poolVars
  BY DEF CleanUp, Execute, SkipAborted, WriteBlock, EraseBuffer, ReadBlocks, StartHash, HashLookup,
         HashFile, PerformFence, execUnchanged, LeaveFence, RouteReleased, AppendReleased, PostCompleted
<1>2. CASE CleanUp(t)
  <2>1. thr'[t].pc = "none" /\ thr[t].pc = "cleanup" /\ \A u \in Threads : u # t => thr'[u] = thr[u]
    BY <1>0, <1>2 DEF CleanUp, Stopped, At
  <2> QED
    BY <1>1, <2>1, CalmMove DEF Counted, Executing, Passing
<1>3. CASE \/ \E j \in Jobs : Execute(t, j)
           \/ LeaveFence(t) \/ RouteReleased(t) \/ AppendReleased(t) \/ PostCompleted(t)
  <2>1. /\ thr[t].pc \in Executing \union Passing
        /\ thr'[t].pc \in Executing \union Passing \union {"loop"}
        /\ \A u \in Threads : u # t => thr'[u] = thr[u]
    BY <1>3, WorkMoves
  <2> QED
    BY <1>1, <2>1, CalmMove DEF Counted, Executing, Passing
<1> QED
  BY <1>2, <1>3

(* job_queued for some queues: the threads it starts are not counted yet.  *)
LEMMA NotifyPools ==
    ASSUME DInv, PoolInv, NEW S, S \subseteq Pools, NEW base, base \in [Threads -> ThreadState],
           NotifyQueues(S, base), UNCHANGED m_num_running_threads,
           \A u \in Workers : /\ base[u].pc = "idle" <=> thr[u].pc = "idle"
                              /\ base[u].pc \in Counted <=> thr[u].pc \in Counted
    PROVE  PoolInv'
<1>0. thr \in [Threads -> ThreadState] /\ m_queued_jobs \in [Pools -> Seq(Jobs)] /\ DOMAIN thr = Threads
  BY DEF DInv, ListTypes
<1>1. PICK new \in [S -> SUBSET {t \in Workers : thr[t].pc = "none"}] :
        /\ \A q \in S : /\ new[q] \subseteq ThreadsOf(q)
                        /\ Cardinality(new[q]) = NumToStart(pools[q], Len(m_queued_jobs[q]))
        /\ pools' = [q \in Pools |-> IF q \in S THEN JobQueued(pools[q], Len(m_queued_jobs[q]), new[q])
                                               ELSE pools[q]]
        /\ thr' = [t \in DOMAIN thr |->
                     IF \E q \in S : t \in new[q] THEN At("start", <<>>) ELSE base[t]]
  BY DEF NotifyQueues
<1>2. Calm
  <2>1. At("start", <<>>).pc = "start"
    BY DEF At
  <2> SUFFICES ASSUME NEW u \in Workers
               PROVE  /\ thr'[u].pc = "idle" <=> thr[u].pc = "idle"
                      /\ thr'[u].pc \in Counted <=> thr[u].pc \in Counted
    BY DEF Calm
  <2>2. u \in Threads
    BY ThreadSets
  <2>3. CASE \E q \in S : u \in new[q]
    <3>1. thr[u].pc = "none" /\ thr'[u].pc = "start"
      BY <1>0, <1>1, <2>1, <2>2, <2>3
    <3> QED
      BY <3>1 DEF Counted, Executing, Passing
  <2>4. CASE ~ \E q \in S : u \in new[q]
    <3>1. thr'[u] = base[u]
      BY <1>0, <1>1, <2>2, <2>4
    <3> QED
      BY <3>1
  <2> QED
    BY <2>3, <2>4
<1>3. ASSUME NEW q \in Pools PROVE PoolKeeps(q, pools[q], pools'[q])
  <2>1. PoolIs(q, pools[q])
    BY DEF PoolInv
  <2>2. CASE q \in S
    <3>1. /\ new[q] \in SUBSET Workers /\ new[q] \subseteq ThreadsOf(q) /\ Len(m_queued_jobs[q]) \in Nat
          /\ Cardinality(new[q]) = NumToStart(pools[q], Len(m_queued_jobs[q]))
          /\ pools'[q] = JobQueued(pools[q], Len(m_queued_jobs[q]), new[q])
      BY <1>0, <1>1, <2>2
    <3>2. PICK n, m : n = new[q] /\ m = Len(m_queued_jobs[q])
      OBVIOUS
    <3>3. IsFiniteSet(Workers) /\ pools[q] \in PoolObject(Workers)
      BY <2>1, ThreadSets DEF PoolIs
    <3>4. /\ pools'[q] \in PoolObject(Workers)
          /\ pools'[q].m_threads = pools[q].m_threads \union n
          /\ pools'[q].m_num_idle_threads = pools[q].m_num_idle_threads
      BY <3>1, <3>2, <3>3, JobQueuedPool
    <3> QED
      BY <2>1, <3>1, <3>2, <3>4 DEF PoolKeeps, PoolIs
  <2>3. CASE q \notin S
    <3>1. pools'[q] = pools[q]
      BY <1>1, <2>3
    <3> QED
      BY <2>1, <3>1 DEF PoolKeeps, PoolIs
  <2> QED
    BY <2>2, <2>3
<1>4. DOMAIN pools' = Pools /\ pools' = [q \in Pools |-> pools'[q]]
  BY <1>1
<1> QED
  BY <1>2, <1>3, <1>4, PoolsKeep

(* Threads are counted when they are started.                              *)
LEMMA NotifiesKeep ==
    ASSUME DInv, PoolInv, SubmitJobs \/ AbortSubmits \/ \E t \in Threads : NotifyReleased(t)
    PROVE  PoolInv'
<1>0. /\ thr \in [Threads -> ThreadState] /\ NonEmptyQueues \subseteq Pools /\ Workers \subseteq Threads
      /\ Net \in Threads /\ Net \notin Workers /\ {"generic"} \subseteq Pools
  BY ThreadSets DEF DInv, ListTypes, NonEmptyQueues, Pools
<1>1. CASE SubmitJobs
  BY <1>0, <1>1, NotifyPools DEF SubmitJobs
<1>2. CASE AbortSubmits
  <2> DEFINE base == [thr EXCEPT ![Net] = At("abort", <<>>)]
  <2>1. base \in [Threads -> ThreadState] /\ \A u \in Workers : base[u] = thr[u]
    <3>1. At("abort", <<>>) \in ThreadState
      BY AtEmpty DEF Pcs
    <3> QED
      BY <1>0, <3>1
  <2>2. NotifyQueues(NonEmptyQueues, base) /\ UNCHANGED m_num_running_threads
    BY <1>2 DEF AbortSubmits
  <2> HIDE DEF base
  <2> QED
    BY <1>0, <2>1, <2>2, NotifyPools
<1>3. ASSUME NEW t \in Threads, NotifyReleased(t) PROVE PoolInv'
  <2> DEFINE base == [thr EXCEPT ![t].pc = "post"]
  <2>1. thr[t] \in ThreadState /\ thr[t].pc = "notify"
    BY <1>0, <1>3 DEF NotifyReleased
  <2>2. base \in [Threads -> ThreadState]
    <3>1. [thr[t] EXCEPT !.pc = "post"] \in ThreadState
      BY <2>1 DEF ThreadState
    <3> QED
      BY <1>0, <3>1
  <2>3. base[t].pc = "post" /\ \A u \in Threads : u # t => base[u] = thr[u]
    BY <1>0, <2>1 DEF ThreadState
  <2>4. NotifyQueues({"generic"}, base) /\ UNCHANGED m_num_running_threads
    BY <1>3 DEF NotifyReleased
  <2> HIDE DEF base
  <2>5. ASSUME NEW u \in Workers
        PROVE  /\ base[u].pc = "idle" <=> thr[u].pc = "idle"
               /\ base[u].pc \in Counted <=> thr[u].pc \in Counted
    BY <1>0, <2>1, <2>3 DEF Counted, Passing
  <2> QED
    BY <1>0, <2>2, <2>4, <2>5, NotifyPools
<1> QED
  BY <1>1, <1>2, <1>3

(* What the timer does to a pool.                                          *)
LEMMA ReapIs ==
    ASSUME NEW q \in Pools, pools \in [Pools -> PoolObject(Workers)], Reap(q)
    PROVE  /\ pools' = [pools EXCEPT ![q] = pools'[q]]
           /\ pools'[q] \in PoolObject(Workers)
           /\ pools'[q].m_threads = pools[q].m_threads /\ pools'[q].m_abort = pools[q].m_abort
           /\ pools'[q].m_num_idle_threads = pools[q].m_num_idle_threads
           /\ pools'[q].m_max_threads = pools[q].m_max_threads
<1>1. PICK p \in PoolObject(Workers) : p = pools[q]
  OBVIOUS
<1>2. \E n \in Nat : pools' = [pools EXCEPT ![q] = TimerDone(p)] \/ pools' = [pools EXCEPT ![q] = StopThreads(p, n)]
  <2>1. CASE NothingToReap(pools[q])
    BY <1>1, <2>1, 0 \in Nat DEF Reap
  <2>2. CASE ~ NothingToReap(pools[q])
    <3>1. PICK n \in 1..Cardinality(ThreadsOf(q)) : pools' = [pools EXCEPT ![q] = StopThreads(@, n)]
      BY <2>2 DEF Reap
    <3>2. n \in Nat
      OBVIOUS
    <3> QED
      BY <1>1, <3>1, <3>2
  <2> QED
    BY <2>1, <2>2
<1>3. PICK n \in Nat : pools' = [pools EXCEPT ![q] = TimerDone(p)] \/ pools' = [pools EXCEPT ![q] = StopThreads(p, n)]
  BY <1>2
<1>4. \A r \in {TimerDone(p), StopThreads(p, n)} :
          /\ r \in PoolObject(Workers) /\ r.m_threads = p.m_threads /\ r.m_abort = p.m_abort
          /\ r.m_num_idle_threads = p.m_num_idle_threads /\ r.m_max_threads = p.m_max_threads
  BY ReapPool
<1>5. PICK r \in {TimerDone(p), StopThreads(p, n)} : pools' = [pools EXCEPT ![q] = r]
  BY <1>3
<1>6. pools'[q] = r
  BY <1>5
<1> QED
  BY <1>1, <1>4, <1>5, <1>6

(* set_max_threads, reap_idle_threads and abort move no thread.            *)
LEMMA PoolOperationsKeep ==
    ASSUME DInv, PoolInv, \/ \E s \in Settings : SettingsUpdated(s)
                          \/ \E q \in Pools : Reap(q)
                          \/ AbortPools
    PROVE  PoolInv'
<1>0. /\ thr \in [Threads -> ThreadState] /\ pools \in [Pools -> PoolObject(Workers)] /\ IsFiniteSet(Workers)
      /\ \A q \in Pools : PoolIs(q, pools[q])
  BY ThreadSets DEF DInv, ListTypes, PoolInv
<1>1. Calm /\ UNCHANGED m_num_running_threads
  <2>1. UNCHANGED thr \/ \E h : thr' = [thr EXCEPT ![Net] = h]
    BY DEF SettingsUpdated, Reap, AbortPools, NetGoes
  <2>2. UNCHANGED thr => Calm
    BY DEF Calm
  <2>3. UNCHANGED m_num_running_threads
    BY DEF SettingsUpdated, Reap, AbortPools
  <2> QED
    BY <2>1, <2>2, <2>3, NetMovesCalmly
<1>2. ASSUME NEW q \in Pools, NEW i \in Nat PROVE PoolKeeps(q, pools[q], SetMaxThreads(pools[q], i))
  <2>1. PICK p : p = pools[q] /\ p \in PoolObject(Workers)
    BY <1>0
  <2> QED
    BY <1>0, <2>1, SetMaxThreadsPool DEF PoolKeeps, PoolIs
<1>3. ASSUME NEW q \in Pools, Reap(q) PROVE PoolKeeps(q, pools[q], pools'[q])
  BY <1>0, <1>3, ReapIs DEF PoolKeeps, PoolIs
<1>4. ASSUME NEW q \in Pools PROVE PoolKeeps(q, pools[q], Abort(pools[q]))
  <2>1. PICK p : p = pools[q] /\ p \in PoolObject(Workers)
    BY <1>0
  <2>2. CASE p.m_abort
    BY <1>0, <2>1, <2>2 DEF PoolKeeps, PoolIs, Abort
  <2>3. CASE ~ p.m_abort
    BY <1>0, <2>1, <2>3, AbortPoolObject DEF PoolKeeps, PoolIs
  <2> QED
    BY <2>2, <2>3
<1>5. ASSUME NEW q \in Pools PROVE PoolKeeps(q, pools[q], pools[q])
  BY <1>0 DEF PoolKeeps, PoolIs
<1>6. /\ DOMAIN pools' = Pools /\ pools' = [q \in Pools |-> pools'[q]]
      /\ \A q \in Pools : PoolKeeps(q, pools[q], pools'[q])
  <2>1. ASSUME NEW s \in Settings, SettingsUpdated(s)
        PROVE  /\ DOMAIN pools' = Pools /\ pools' = [q \in Pools |-> pools'[q]]
               /\ \A q \in Pools : PoolKeeps(q, pools[q], pools'[q])
    <3>1. s[1] \in Nat /\ s[2] \in Nat
      <4>1. s \in (0..Cardinality(GenericThreads)) \X (0..Cardinality(HashThreads))
        BY DiskAssumption
      <4>2. IsFiniteSet(GenericThreads) /\ IsFiniteSet(HashThreads)
        BY <1>0, FS_Subset DEF Workers
      <4>3. Cardinality(GenericThreads) \in Nat /\ Cardinality(HashThreads) \in Nat
        BY <4>2, FS_CardinalityType
      <4> QED
        BY <4>1, <4>3
    <3>2. /\ pools' = [pools EXCEPT !["generic"] = SetMaxThreads(@, s[1]), !["hash"] = SetMaxThreads(@, s[2])]
      BY <2>1 DEF SettingsUpdated
    <3>3. /\ DOMAIN pools' = Pools /\ pools' = [q \in Pools |-> pools'[q]]
          /\ pools'["generic"] = SetMaxThreads(pools["generic"], s[1])
          /\ pools'["hash"] = SetMaxThreads(pools["hash"], s[2])
      BY <1>0, <3>2 DEF Pools
    <3> QED
      BY <1>2, <3>1, <3>3 DEF Pools
  <2>2. ASSUME NEW r \in Pools, Reap(r)
        PROVE  /\ DOMAIN pools' = Pools /\ pools' = [q \in Pools |-> pools'[q]]
               /\ \A q \in Pools : PoolKeeps(q, pools[q], pools'[q])
    <3>1. pools' = [pools EXCEPT ![r] = pools'[r]]
      BY <1>0, <2>2, ReapIs
    <3>2. \A q \in Pools : q # r => pools'[q] = pools[q]
      BY <1>0, <3>1
    <3>3. DOMAIN pools' = Pools /\ pools' = [q \in Pools |-> pools'[q]]
      BY <1>0, <3>1
    <3> QED
      BY <1>3, <1>5, <2>2, <3>2, <3>3
  <2>3. ASSUME AbortPools
        PROVE  /\ DOMAIN pools' = Pools /\ pools' = [q \in Pools |-> pools'[q]]
               /\ \A q \in Pools : PoolKeeps(q, pools[q], pools'[q])
    <3>1. \E r \in Pools : pools' = [pools EXCEPT ![r] = Abort(@)]
      BY <2>3 DEF AbortPools, Pools
    <3> QED
      BY <1>0, <1>4, <1>5, <3>1
  <2> QED
    BY <2>1, <2>2, <2>3
<1> QED
  BY <1>1, <1>6, PoolsKeep

(* A thread moves: what becomes of the counts.                             *)
LEMMA ThreadMoves ==
    ASSUME DInv, PoolInv, NEW t, t \in Workers, NEW h, thr' = [thr EXCEPT ![t] = h],
           NEW q, q = PoolOf(t)
    PROVE  /\ q \in Pools /\ PoolIs(q, pools[q]) /\ pools \in [Pools -> PoolObject(Workers)]
           /\ pools[q].m_num_idle_threads \in Nat /\ m_num_running_threads \in Nat
           /\ thr[t].pc = "idle" => pools[q].m_num_idle_threads > 0
           /\ thr[t].pc \in Counted => m_num_running_threads > 0
           /\ Cardinality(IdleOf(q)') = IF h.pc = "idle"
                THEN IF thr[t].pc = "idle" THEN pools[q].m_num_idle_threads ELSE pools[q].m_num_idle_threads + 1
                ELSE IF thr[t].pc = "idle" THEN pools[q].m_num_idle_threads - 1 ELSE pools[q].m_num_idle_threads
           /\ Cardinality(CountedThreads') = IF h.pc \in Counted
                THEN IF thr[t].pc \in Counted THEN m_num_running_threads ELSE m_num_running_threads + 1
                ELSE IF thr[t].pc \in Counted THEN m_num_running_threads - 1 ELSE m_num_running_threads
           /\ \A r \in Pools : r # q => IdleOf(r)' = IdleOf(r)
<1>0. /\ thr \in [Threads -> ThreadState] /\ t \in Threads /\ IsFiniteSet(Workers) /\ t \in ThreadsOf(q)
      /\ \A r \in Pools : r # q => t \notin ThreadsOf(r)
      /\ \A r \in Pools : ThreadsOf(r) \subseteq Workers
      /\ q \in Pools /\ Workers \subseteq Threads
  BY ThreadSets DEF DInv, ListTypes
<1>1. thr'[t] = h /\ \A u \in Threads : u # t => thr'[u] = thr[u]
  BY <1>0
<1>2. PoolIs(q, pools[q]) /\ pools \in [Pools -> PoolObject(Workers)]
  BY <1>0 DEF PoolInv
<1>3. IsFiniteSet(IdleOf(q)) /\ IsFiniteSet(CountedThreads)
  <2>1. IdleOf(q) \subseteq Workers /\ CountedThreads \subseteq Workers
    BY <1>0 DEF IdleOf, CountedThreads
  <2> QED
    BY <1>0, <2>1, FS_Subset
<1>4. (t \in IdleOf(q) <=> thr[t].pc = "idle") /\ (t \in IdleOf(q)' <=> h.pc = "idle")
  BY <1>0, <1>1 DEF IdleOf
<1>5. (t \in CountedThreads <=> thr[t].pc \in Counted) /\ (t \in CountedThreads' <=> h.pc \in Counted)
  BY <1>1 DEF CountedThreads
<1>6. \A u : u # t => (u \in IdleOf(q) <=> u \in IdleOf(q)')
  BY <1>0, <1>1 DEF IdleOf
<1>7. \A u : u # t => (u \in CountedThreads <=> u \in CountedThreads')
  BY <1>0, <1>1 DEF CountedThreads
<1>8. \A r \in Pools : r # q => IdleOf(r)' = IdleOf(r)
  BY <1>0, <1>1 DEF IdleOf
<1>9. pools[q].m_num_idle_threads = Cardinality(IdleOf(q)) /\ m_num_running_threads = Cardinality(CountedThreads)
  BY <1>2 DEF PoolIs, PoolInv
<1>10. PICK A, B, C, D : A = IdleOf(q) /\ B = IdleOf(q)' /\ C = CountedThreads /\ D = CountedThreads'
  OBVIOUS
<1>11. /\ Cardinality(A) \in Nat
       /\ t \in A => Cardinality(A) > 0
       /\ t \notin A /\ t \in B => Cardinality(B) = Cardinality(A) + 1
       /\ t \in A /\ t \notin B => Cardinality(B) = Cardinality(A) - 1
       /\ (t \in A <=> t \in B) => B = A
  BY <1>3, <1>6, <1>10, OneMoves
<1>12. /\ Cardinality(C) \in Nat
       /\ t \in C => Cardinality(C) > 0
       /\ t \notin C /\ t \in D => Cardinality(D) = Cardinality(C) + 1
       /\ t \in C /\ t \notin D => Cardinality(D) = Cardinality(C) - 1
       /\ (t \in C <=> t \in D) => D = C
  BY <1>3, <1>7, <1>10, OneMoves
<1>13. /\ pools[q].m_num_idle_threads \in Nat /\ m_num_running_threads \in Nat
       /\ thr[t].pc = "idle" => pools[q].m_num_idle_threads > 0
       /\ thr[t].pc \in Counted => m_num_running_threads > 0
  BY <1>4, <1>5, <1>9, <1>10, <1>11, <1>12
<1>14. Cardinality(IdleOf(q)') = IF h.pc = "idle"
                THEN IF thr[t].pc = "idle" THEN pools[q].m_num_idle_threads ELSE pools[q].m_num_idle_threads + 1
                ELSE IF thr[t].pc = "idle" THEN pools[q].m_num_idle_threads - 1 ELSE pools[q].m_num_idle_threads
  BY <1>4, <1>9, <1>10, <1>11
<1>15. Cardinality(CountedThreads') = IF h.pc \in Counted
                THEN IF thr[t].pc \in Counted THEN m_num_running_threads ELSE m_num_running_threads + 1
                ELSE IF thr[t].pc \in Counted THEN m_num_running_threads - 1 ELSE m_num_running_threads
  BY <1>5, <1>9, <1>10, <1>12
<1> QED
  BY <1>0, <1>2, <1>8, <1>13, <1>14, <1>15

(* The pool of the thread that moves, and the others.                      *)
LEMMA ThreadMoved ==
    ASSUME PoolInv, NEW q, q \in Pools, NEW p, pools' = [pools EXCEPT ![q] = p],
           p \in PoolObject(Workers), p.m_threads \subseteq ThreadsOf(q),
           p.m_num_idle_threads = Cardinality(IdleOf(q)'),
           \A r \in Pools : r # q => IdleOf(r)' = IdleOf(r),
           m_num_running_threads' = Cardinality(CountedThreads')
    PROVE  PoolInv'
<1>1. pools \in [Pools -> PoolObject(Workers)]
  BY DEF PoolInv
<1>2. pools' \in [Pools -> PoolObject(Workers)] /\ pools'[q] = p /\ \A r \in Pools : r # q => pools'[r] = pools[r]
  BY <1>1
<1>3. ASSUME NEW r \in Pools PROVE PoolIs(r, pools[r])'
  <2>1. CASE r = q
    BY <1>2, <2>1 DEF PoolIs
  <2>2. CASE r # q
    <3>1. PoolIs(r, pools[r]) /\ pools'[r] = pools[r] /\ IdleOf(r)' = IdleOf(r)
      BY <1>2, <2>2 DEF PoolInv
    <3> QED
      BY <3>1 DEF PoolIs
  <2> QED
    BY <2>1, <2>2
<1> QED
  BY <1>2, <1>3 DEF PoolInv

(* A thread that takes a job is not idle any more.                         *)
LEMMA TakeJobPool ==
    ASSUME DInv, PoolInv, NEW t, t \in Workers, TakeJob(t)
    PROVE  PoolInv'
<1> DEFINE q == PoolOf(t)
           h == At("exec", <<Head(m_queued_jobs[q])>>)
           p == IF thr[t].pc = "idle" THEN ThreadActive(pools[q]) ELSE pools[q]
           n == pools[q].m_num_idle_threads
<1>1. /\ thr[t].pc \in {"start", "loop", "idle"} /\ thr' = [thr EXCEPT ![t] = h]
      /\ pools' = [pools EXCEPT ![q] = IF thr[t].pc = "idle" THEN ThreadActive(@) ELSE @]
      /\ m_num_running_threads' = m_num_running_threads + IF thr[t].pc = "start" THEN 1 ELSE 0
  BY DEF TakeJob
<1>2. h.pc = "exec"
  BY DEF At
<1>3. /\ h.pc \in Counted /\ h.pc # "idle" /\ (thr[t].pc \in Counted <=> thr[t].pc # "start")
  BY <1>1, <1>2 DEF Counted, Executing, Passing
<1> HIDE DEF h, q
<1>4. /\ q \in Pools /\ PoolIs(q, pools[q]) /\ pools \in [Pools -> PoolObject(Workers)]
      /\ n \in Nat /\ m_num_running_threads \in Nat
      /\ thr[t].pc = "idle" => n > 0
      /\ Cardinality(IdleOf(q)') = IF thr[t].pc = "idle" THEN n - 1 ELSE n
      /\ Cardinality(CountedThreads') = IF thr[t].pc \in Counted THEN m_num_running_threads
                                        ELSE m_num_running_threads + 1
      /\ \A r \in Pools : r # q => IdleOf(r)' = IdleOf(r)
  <2>1. q = PoolOf(t)
    BY DEF q
  <2> QED
    BY <1>1, <1>3, <2>1, ThreadMoves
<1>5. m_num_running_threads' = Cardinality(CountedThreads')
  BY <1>1, <1>3, <1>4
<1>6. /\ p \in PoolObject(Workers) /\ p.m_threads \subseteq ThreadsOf(q)
      /\ p.m_num_idle_threads = Cardinality(IdleOf(q)')
  <2>1. CASE thr[t].pc = "idle"
    <3>1. PICK o : o = pools[q] /\ o \in PoolObject(Workers) /\ o.m_num_idle_threads > 0
      BY <1>4, <2>1 DEF PoolIs
    <3>2. /\ ThreadActive(o) \in PoolObject(Workers) /\ ThreadActive(o).m_threads = o.m_threads
          /\ ThreadActive(o).m_num_idle_threads = o.m_num_idle_threads - 1
      BY <3>1, ThreadSets, ThreadActivePool
    <3> QED
      BY <1>4, <2>1, <3>1, <3>2 DEF PoolIs
  <2>2. CASE thr[t].pc # "idle"
    BY <1>4, <2>2 DEF PoolIs
  <2> QED
    BY <2>1, <2>2
<1>7. pools' = [pools EXCEPT ![q] = p]
  BY <1>1, <1>4
<1> HIDE DEF p
<1> QED
  BY <1>4, <1>5, <1>6, <1>7, ThreadMoved

(* A thread that finds no job is idle, or leaves its pool.                 *)
LEMMA WaitOrExitPool ==
    ASSUME DInv, PoolInv, NEW t, t \in Workers, WaitOrExit(t)
    PROVE  PoolInv'
<1> DEFINE q == PoolOf(t)
           idle == IF thr[t].pc = "idle" THEN pools[q] ELSE ThreadIdle(pools[q])
           running == m_num_running_threads + IF thr[t].pc = "start" THEN 1 ELSE 0
           n == pools[q].m_num_idle_threads
<1>1. /\ thr[t].pc \in {"start", "loop", "idle"}
      /\ IF ShouldExit(idle)
         THEN /\ pools' = [pools EXCEPT ![q] = ThreadActive(Unregister(ClaimExit(idle), t))]
              /\ m_num_running_threads' = running - 1
              /\ \E pc \in {"cleanup", "none"} : thr' = [thr EXCEPT ![t] = At(pc, <<>>)]
         ELSE /\ pools' = [pools EXCEPT ![q] = idle]
              /\ m_num_running_threads' = running
              /\ thr' = [thr EXCEPT ![t] = At("idle", <<>>)]
  BY DEF WaitOrExit, Stopped
<1>2. thr[t].pc \in Counted <=> thr[t].pc # "start"
  BY <1>1 DEF Counted, Executing, Passing
<1>3. q = PoolOf(t)
  OBVIOUS
<1> HIDE DEF q
<1>4. /\ q \in Pools /\ PoolIs(q, pools[q]) /\ n \in Nat /\ m_num_running_threads \in Nat
      /\ thr[t].pc = "idle" => n > 0
      /\ thr[t].pc \in Counted => m_num_running_threads > 0
      /\ \A r \in Pools : r # q => IdleOf(r)' = IdleOf(r)
  <2>1. \E h : thr' = [thr EXCEPT ![t] = h]
    BY <1>1
  <2>2. PICK h : thr' = [thr EXCEPT ![t] = h]
    BY <2>1
  <2> QED
    BY <1>3, <2>2, ThreadMoves
<1>5. /\ idle \in PoolObject(Workers) /\ idle.m_threads \subseteq ThreadsOf(q)
      /\ idle.m_num_idle_threads = IF thr[t].pc = "idle" THEN n ELSE n + 1
  <2>1. PICK o : o = pools[q] /\ PoolIs(q, o)
    BY <1>4
  <2>2. CASE thr[t].pc = "idle"
    BY <2>1, <2>2 DEF PoolIs
  <2>3. CASE thr[t].pc # "idle"
    <3>1. /\ ThreadIdle(o) \in PoolObject(Workers) /\ ThreadIdle(o).m_threads = o.m_threads
          /\ ThreadIdle(o).m_num_idle_threads = o.m_num_idle_threads + 1
          /\ o.m_num_idle_threads \in Nat
      BY <2>1 DEF ThreadIdle, PoolIs, PoolObject
    <3> QED
      BY <2>1, <2>3, <3>1 DEF PoolIs
  <2> QED
    BY <2>2, <2>3
<1> HIDE DEF idle
<1>6. CASE ShouldExit(idle)
  <2>1. PICK pc \in {"cleanup", "none"} : thr' = [thr EXCEPT ![t] = At(pc, <<>>)]
    BY <1>1, <1>6
  <2>2. At(pc, <<>>).pc = pc /\ pc # "idle" /\ pc \notin Counted
    BY DEF At, Counted, Executing, Passing
  <2>3. /\ Cardinality(IdleOf(q)') = IF thr[t].pc = "idle" THEN n - 1 ELSE n
        /\ Cardinality(CountedThreads') = IF thr[t].pc \in Counted THEN m_num_running_threads - 1
                                          ELSE m_num_running_threads
    BY <1>3, <2>1, <2>2, ThreadMoves
  <2>4. m_num_running_threads' = Cardinality(CountedThreads')
    BY <1>1, <1>2, <1>4, <1>6, <2>3
  <2>5. PICK c : c = ClaimExit(idle)
    OBVIOUS
  <2>6. /\ c \in PoolObject(Workers) /\ c.m_threads = idle.m_threads
        /\ c.m_num_idle_threads = idle.m_num_idle_threads
    BY <1>5, <1>6, <2>5 DEF ClaimExit, ShouldExit, PoolObject
  <2>7. PICK u : u = Unregister(c, t)
    OBVIOUS
  <2>8. /\ u \in PoolObject(Workers) /\ u.m_threads \subseteq c.m_threads
        /\ u.m_num_idle_threads = c.m_num_idle_threads
    BY <2>6, <2>7, ThreadSets, UnregisterPool
  <2>9. PICK p : p = ThreadActive(u)
    OBVIOUS
  <2>10. u.m_num_idle_threads > 0 /\ u.m_num_idle_threads - 1 = Cardinality(IdleOf(q)')
    BY <1>4, <1>5, <2>3, <2>6, <2>8
  <2>11. /\ p \in PoolObject(Workers) /\ p.m_threads = u.m_threads
         /\ p.m_num_idle_threads = u.m_num_idle_threads - 1
    BY <2>8, <2>9, <2>10, ThreadSets, ThreadActivePool
  <2>12. pools' = [pools EXCEPT ![q] = p]
    BY <1>1, <1>6, <2>5, <2>7, <2>9
  <2>13. p.m_threads \subseteq ThreadsOf(q)
    BY <1>5, <2>6, <2>8, <2>11
  <2> QED
    BY <1>4, <2>4, <2>10, <2>11, <2>12, <2>13, ThreadMoved
<1>7. CASE ~ ShouldExit(idle)
  <2>1. thr' = [thr EXCEPT ![t] = At("idle", <<>>)]
    BY <1>1, <1>7
  <2>2. At("idle", <<>>).pc = "idle" /\ "idle" \in Counted
    BY DEF At, Counted
  <2>3. /\ Cardinality(IdleOf(q)') = IF thr[t].pc = "idle" THEN n ELSE n + 1
        /\ Cardinality(CountedThreads') = IF thr[t].pc \in Counted THEN m_num_running_threads
                                          ELSE m_num_running_threads + 1
    BY <1>3, <2>1, <2>2, ThreadMoves
  <2>4. m_num_running_threads' = Cardinality(CountedThreads')
    BY <1>1, <1>2, <1>4, <1>7, <2>3
  <2>5. pools' = [pools EXCEPT ![q] = idle]
    BY <1>1, <1>7
  <2> QED
    BY <1>4, <1>5, <2>3, <2>4, <2>5, ThreadMoved
<1> QED
  BY <1>6, <1>7

-----------------------------------------------------------------------------
(***************************************************************************)
(* The store buffer, the files and what jobs have seen of them.            *)
(***************************************************************************)
Stored == WriteJobs \union {Nothing}

FileTypes ==
    /\ m_store_buffer \in [Blocks -> Stored] /\ disk \in [Blocks -> Stored]
    /\ data \in [ReadJobs \union HashJobs -> [Blocks -> Stored]]
    /\ aborted \subseteq Jobs
    /\ m_job_completions_in_flight \in BOOLEAN /\ m_abort \in BOOLEAN /\ released \in BOOLEAN

(* do_hash has a block to go on with.                                      *)
HashHasBlock == \A t \in Threads : thr[t].pc \in {"hash", "hash_file"} => thr[t].left # {}

(* The next block of do_hash is the first of those left.                   *)
LEMMA NextBlockIs ==
    ASSUME NEW t, thr[t].left \subseteq Blocks, thr[t].left # {}
    PROVE  NextBlock(t) \in thr[t].left /\ \A c \in thr[t].left : NextBlock(t) <= c
<1>1. thr[t].left \subseteq Nat
  BY DiskAssumption
<1>2. \E b \in thr[t].left : \A c \in thr[t].left : ~ (<<c, b>> \in OpToRel(<, Nat))
  BY <1>1, NatLessThanWellFounded, WFMin
<1>3. \E b \in thr[t].left : \A c \in thr[t].left : b <= c
  <2>1. PICK b \in thr[t].left : \A c \in thr[t].left : ~ (<<c, b>> \in OpToRel(<, Nat))
    BY <1>2
  <2>2. ASSUME NEW c \in thr[t].left PROVE b <= c
    <3>1. c \in Nat /\ b \in Nat /\ ~ (<<c, b>> \in OpToRel(<, Nat))
      BY <1>1, <2>1
    <3>2. ~ (c < b)
      BY <3>1 DEF OpToRel
    <3>3. c \in Nat /\ b \in Nat
      BY <3>1
    <3> QED
      BY <3>2, <3>3
  <2> QED
    BY <2>2
<1> QED
  BY <1>3 DEF NextBlock

(* What a hash job has seen has its type.                                  *)
LEMMA HashedTypes ==
    ASSUME FileTypes, NEW t, NEW j, NEW v, v \in Stored, HashedAs(t, j, v)
    PROVE  data' \in [ReadJobs \union HashJobs -> [Blocks -> Stored]]
<1>1. data' = [data EXCEPT ![j][NextBlock(t)] = v]
  BY DEF HashedAs
<1>2. PICK b : b = NextBlock(t)
  OBVIOUS
<1>3. ASSUME NEW f \in [Blocks -> Stored] PROVE [f EXCEPT ![b] = v] \in [Blocks -> Stored]
  OBVIOUS
<1>4. data' = [data EXCEPT ![j] = [data[j] EXCEPT ![b] = v]]
  BY <1>1, <1>2
<1> QED
  BY <1>3, <1>4 DEF FileTypes

(* Executing a job keeps the types.                                        *)
LEMMA ExecuteTypes ==
    ASSUME DInv, FileTypes, HashHasBlock, NEW t, t \in Threads, NEW j, j \in Jobs, Execute(t, j)
    PROVE  FileTypes' /\ HashHasBlock'
<1>0. thr \in [Threads -> ThreadState] /\ thr[t] \in ThreadState /\ thr[t].left \subseteq Blocks
  BY ThreadStateIs DEF DInv, ListTypes
<1>1. ASSUME thr[t].pc \in {"hash", "hash_file"} PROVE NextBlock(t) \in Blocks
  BY <1>0, <1>1, NextBlockIs DEF HashHasBlock
<1>2. ASSUME NEW pc, GoesOn(t, pc), pc = "hash_file" => thr[t].pc = "hash", pc # "hash" PROVE HashHasBlock'
  <2>1. /\ thr'[t].pc = pc /\ thr'[t].left = thr[t].left /\ \A u \in Threads : u # t => thr'[u] = thr[u]
    BY <1>0, <1>2 DEF GoesOn, ThreadState
  <2> QED
    BY <1>2, <2>1 DEF HashHasBlock
<1>3. ASSUME NEW v, HashedAs(t, j, v) PROVE HashHasBlock'
  <2> DEFINE rest == thr[t].left \ {NextBlock(t)}
  <2>1. /\ thr'[t].pc = (IF rest = {} THEN "complete" ELSE "hash") /\ thr'[t].left = rest
        /\ \A u \in Threads : u # t => thr'[u] = thr[u]
    <3>1. thr' = [thr EXCEPT ![t].left = rest, ![t].pc = IF rest = {} THEN "complete" ELSE "hash"]
      BY <1>3 DEF HashedAs
    <3> HIDE DEF rest
    <3> QED
      BY <1>0, <3>1 DEF ThreadState
  <2> HIDE DEF rest
  <2> QED
    BY <2>1 DEF HashHasBlock
<1>4. UNCHANGED <<aborted, m_job_completions_in_flight, m_abort, released>>
  BY DEF Execute, SkipAborted, WriteBlock, EraseBuffer, ReadBlocks, StartHash, HashLookup, HashFile,
         PerformFence, execUnchanged, postVars
<1>5. CASE SkipAborted(t, j) \/ PerformFence(t, j)
  <2>1. UNCHANGED fileVars /\ GoesOn(t, "complete")
    BY <1>5 DEF SkipAborted, PerformFence
  <2> QED
    BY <1>2, <1>4, <2>1 DEF fileVars, FileTypes
<1>6. CASE WriteBlock(t, j)
  <2>1. \E pc \in {"complete", "erase"} : GoesOn(t, pc)
    BY <1>6 DEF WriteBlock
  <2>2. UNCHANGED <<m_store_buffer, data>> /\ disk' \in [Blocks -> Stored]
    <3>1. j \in Stored
      BY <1>6 DEF WriteBlock, Stored
    <3> QED
      BY <1>6, <3>1 DEF WriteBlock, FileTypes
  <2> QED
    BY <1>2, <1>4, <2>1, <2>2 DEF FileTypes
<1>7. CASE EraseBuffer(t, j)
  <2>1. GoesOn(t, "complete") /\ UNCHANGED <<disk, data>> /\ m_store_buffer' \in [Blocks -> Stored]
    BY <1>7 DEF EraseBuffer, FileTypes, Stored
  <2> QED
    BY <1>2, <1>4, <2>1 DEF FileTypes
<1>8. CASE ReadBlocks(t, j)
  <2>1. GoesOn(t, "complete") /\ UNCHANGED <<m_store_buffer, disk>> /\ j \in ReadJobs
    BY <1>8 DEF ReadBlocks
  <2>2. data' \in [ReadJobs \union HashJobs -> [Blocks -> Stored]]
    <3>1. CASE UNCHANGED data
      BY <3>1 DEF FileTypes
    <3>2. CASE data' = [data EXCEPT ![j] = [b \in Blocks |-> IF b \in BlocksOf[j] /\ @[b] = Nothing
                                                            THEN disk[b] ELSE @[b]]]
      <4>1. PICK f : f = [b \in Blocks |-> IF b \in BlocksOf[j] /\ data[j][b] = Nothing
                                           THEN disk[b] ELSE data[j][b]]
        OBVIOUS
      <4>2. f \in [Blocks -> Stored]
        BY <2>1, <4>1 DEF FileTypes
      <4>3. data' = [data EXCEPT ![j] = f]
        BY <2>1, <3>2, <4>1 DEF FileTypes
      <4> QED
        BY <4>2, <4>3 DEF FileTypes
    <3> QED
      BY <1>8, <3>1, <3>2 DEF ReadBlocks
  <2> QED
    BY <1>2, <1>4, <2>1, <2>2 DEF FileTypes
<1>9. CASE StartHash(t, j)
  <2>1. UNCHANGED fileVars /\ j \in HashJobs /\ j \notin FenceJobs
    BY <1>9, DiskAssumption DEF StartHash
  <2>2. thr'[t].left = BlocksOf[j] /\ \A u \in Threads : u # t => thr'[u] = thr[u]
    BY <1>0, <1>9 DEF StartHash, ThreadState
  <2>3. BlocksOf[j] # {}
    BY <2>1, DiskAssumption
  <2>4. HashHasBlock'
    BY <2>2, <2>3 DEF HashHasBlock
  <2> QED
    BY <1>4, <2>1, <2>4 DEF fileVars, FileTypes
<1>10. CASE HashLookup(t, j)
  <2>1. UNCHANGED <<m_store_buffer, disk>> /\ thr[t].pc = "hash"
    BY <1>10 DEF HashLookup
  <2>2. CASE m_store_buffer[NextBlock(t)] # Nothing
    <3>1. HashedAs(t, j, m_store_buffer[NextBlock(t)])
      BY <1>10, <2>2 DEF HashLookup
    <3>2. m_store_buffer[NextBlock(t)] \in Stored
      BY <1>1, <2>1 DEF FileTypes
    <3> QED
      BY <1>3, <1>4, <2>1, <3>1, <3>2, HashedTypes DEF FileTypes
  <2>3. CASE m_store_buffer[NextBlock(t)] = Nothing
    <3>1. GoesOn(t, "hash_file") /\ UNCHANGED data
      BY <1>10, <2>3 DEF HashLookup
    <3> QED
      BY <1>2, <1>4, <2>1, <3>1 DEF FileTypes
  <2> QED
    BY <2>2, <2>3
<1>11. CASE HashFile(t, j)
  <2>1. UNCHANGED <<m_store_buffer, disk>> /\ thr[t].pc = "hash_file"
    BY <1>11 DEF HashFile
  <2>2. CASE HashedAs(t, j, disk[NextBlock(t)])
    <3>1. disk[NextBlock(t)] \in Stored
      BY <1>1, <2>1 DEF FileTypes
    <3> QED
      BY <1>3, <1>4, <2>1, <2>2, <3>1, HashedTypes DEF FileTypes
  <2>3. CASE GoesOn(t, "complete") /\ UNCHANGED data
    BY <1>2, <1>4, <2>1, <2>3 DEF FileTypes
  <2> QED
    BY <1>11, <2>2, <2>3 DEF HashFile
<1> QED
  BY <1>5, <1>6, <1>7, <1>8, <1>9, <1>10, <1>11 DEF Execute

(* Steps in which no thread goes to hash.                                  *)
LEMMA NobodyHashes ==
    ASSUME HashHasBlock, \A u \in Threads : thr'[u] = thr[u] \/ thr'[u].pc \notin {"hash", "hash_file"}
    PROVE  HashHasBlock'
  BY DEF HashHasBlock

(* Handing jobs on starts no hash.                                         *)
LEMMA NetNeverHashes ==
    ASSUME DInv, HashHasBlock, NEW pc, NEW s, pc \notin {"hash", "hash_file"}, NetGoes(pc, s)
    PROVE  HashHasBlock'
<1>1. thr \in [Threads -> ThreadState] /\ Net \in Threads /\ At(pc, s).pc = pc
  BY ThreadSets DEF DInv, ListTypes, At
<1>2. thr'[Net].pc = pc /\ \A u \in Threads : u # Net => thr'[u] = thr[u]
  BY <1>1 DEF NetGoes
<1> QED
  BY <1>2, NobodyHashes

(* The steps of the network thread keep the types.                         *)
LEMMA NetStepTypes ==
    ASSUME DInv, FileTypes, HashHasBlock, NEW j,
           \/ j \in Jobs /\ (JobFailAdd(j) \/ AddJob(j) \/ AddFenceJob(j))
           \/ PushJob \/ ImmediateExecute \/ AbortStarts \/ AbortPools \/ CallJobHandlers
    PROVE  FileTypes' /\ HashHasBlock'
<1>1. UNCHANGED thr \/ \E pc, s : pc \notin {"hash", "hash_file"} /\ NetGoes(pc, s)
  <2>1. CASE JobFailAdd(j) \/ AddJob(j) \/ PushJob
    BY <2>1 DEF JobFailAdd, AddJob, PushJob
  <2>2. CASE AddFenceJob(j)
    BY <2>2 DEF AddFenceJob
  <2>3. CASE ImmediateExecute \/ AbortStarts \/ AbortPools \/ CallJobHandlers
    BY <2>3 DEF ImmediateExecute, AbortStarts, AbortPools, CallJobHandlers
  <2> QED
    BY <2>1, <2>2, <2>3
<1>2. HashHasBlock'
  <2>1. UNCHANGED thr => HashHasBlock'
    BY NobodyHashes
  <2> QED
    BY <1>1, <2>1, NetNeverHashes
<1>3. ToSet(m_queued_jobs["hash"]) \subseteq Jobs
  BY DEF DInv, ListTypes, Pools, ToSet
<1>4. FileTypes'
  <2>1. CASE (j \in Jobs /\ JobFailAdd(j)) \/ CallJobHandlers
    BY <2>1 DEF JobFailAdd, CallJobHandlers, FileTypes, fileVars
  <2>2. CASE AddJob(j) \/ AddFenceJob(j) \/ PushJob \/ ImmediateExecute \/ AbortPools
    <3>1. UNCHANGED <<fileVars, postVars, m_abort, aborted, released>>
      BY <2>2 DEF AddJob, AddFenceJob, PushJob, ImmediateExecute, AbortPools
    <3> QED
      BY <3>1 DEF FileTypes, fileVars, postVars
  <2>3. CASE AbortStarts
    <3>1. /\ UNCHANGED <<fileVars, postVars>> /\ m_abort' = TRUE
          /\ aborted' = aborted \union ToSet(m_queued_jobs["hash"])
          /\ released' = (released \/ \A q \in Pools : pools[q].m_threads = {})
      BY <2>3 DEF AbortStarts
    <3>2. released' \in BOOLEAN
      BY <3>1, Zenon
    <3> QED
      BY <1>3, <3>1, <3>2 DEF FileTypes, fileVars, postVars
  <2> QED
    BY <2>1, <2>2, <2>3
<1> QED
  BY <1>2, <1>4

(* Issuing a job keeps the types.                                          *)
LEMMA IssueTypes ==
    ASSUME DInv, FileTypes, HashHasBlock, NEW j,
           \/ j \in WriteJobs /\ AsyncWrite(j)
           \/ j \in ReadJobs /\ AsyncRead(j)
           \/ j \in HashJobs /\ AsyncHash(j)
           \/ j \in FenceJobs /\ AsyncFence(j)
    PROVE  FileTypes' /\ HashHasBlock'
<1>1. HashHasBlock'
  <2>1. UNCHANGED thr \/ NetGoes("add", <<j>>)
    BY DEF AsyncWrite, AsyncRead, AsyncHash, AsyncFence
  <2>2. UNCHANGED thr => HashHasBlock'
    BY NobodyHashes
  <2> QED
    BY <2>1, <2>2, NetNeverHashes
<1>2. CASE j \in WriteJobs /\ AsyncWrite(j)
  <2>1. j \in Stored /\ UNCHANGED <<disk, data, postVars, m_abort, aborted, released>>
    BY <1>2 DEF AsyncWrite, Stored
  <2>2. m_store_buffer' \in [Blocks -> Stored]
    BY <1>2, <2>1 DEF AsyncWrite, FileTypes
  <2> QED
    BY <1>1, <2>1, <2>2 DEF FileTypes, postVars
<1>3. CASE j \in ReadJobs /\ AsyncRead(j)
  <2>1. UNCHANGED <<disk, m_store_buffer, m_job_completions_in_flight, m_abort, aborted, released>>
    BY <1>3 DEF AsyncRead
  <2>2. PICK f : f = [b \in Blocks |-> IF b \in {c \in BlocksOf[j] : m_store_buffer[c] # Nothing}
                                       THEN m_store_buffer[b] ELSE Nothing]
    OBVIOUS
  <2>3. f \in [Blocks -> Stored]
    BY <2>2 DEF FileTypes, Stored
  <2>4. data' = data \/ data' = [data EXCEPT ![j] = f]
    BY <1>3, <2>2 DEF AsyncRead
  <2>5. data' \in [ReadJobs \union HashJobs -> [Blocks -> Stored]]
    BY <2>3, <2>4 DEF FileTypes
  <2> QED
    BY <1>1, <2>1, <2>5 DEF FileTypes
<1>4. CASE j \in HashJobs /\ AsyncHash(j)
  BY <1>1, <1>4 DEF AsyncHash, FileTypes, fileVars, postVars
<1>5. CASE j \in FenceJobs /\ AsyncFence(j)
  <2>1. ToSet(m_queued_jobs["hash"]) \subseteq Jobs
    BY DEF DInv, ListTypes, Pools, ToSet
  <2> QED
    BY <1>1, <1>5, <2>1 DEF AsyncFence, FileTypes, fileVars, postVars
<1> QED
  BY <1>2, <1>3, <1>4, <1>5

(* Starting threads keeps the types.                                       *)
LEMMA NotifyTypes ==
    ASSUME DInv, FileTypes, HashHasBlock, SubmitJobs \/ AbortSubmits \/ \E t \in Threads : NotifyReleased(t)
    PROVE  FileTypes' /\ HashHasBlock'
<1>0. thr \in [Threads -> ThreadState] /\ Net \in Threads
  BY ThreadSets DEF DInv, ListTypes
<1>1. FileTypes'
  BY DEF SubmitJobs, AbortSubmits, NotifyReleased, FileTypes, fileVars, postVars
<1>2. PICK S, base : /\ NotifyQueues(S, base) /\ base \in [Threads -> ThreadState]
                     /\ \A u \in Threads : base[u] = thr[u] \/ base[u].pc \notin {"hash", "hash_file"}
  <2>1. CASE SubmitJobs
    BY <1>0, <2>1 DEF SubmitJobs
  <2>2. CASE AbortSubmits
    <3>1. At("abort", <<>>) \in ThreadState /\ At("abort", <<>>).pc = "abort"
      BY AtEmpty DEF Pcs
    <3>2. PICK b : b = [thr EXCEPT ![Net] = At("abort", <<>>)]
      OBVIOUS
    <3>3. b \in [Threads -> ThreadState] /\ b[Net].pc = "abort" /\ \A u \in Threads : u # Net => b[u] = thr[u]
      BY <1>0, <3>1, <3>2
    <3> QED
      BY <2>2, <3>2, <3>3 DEF AbortSubmits
  <2>3. ASSUME NEW t \in Threads, NotifyReleased(t)
        PROVE  \E S, base : /\ NotifyQueues(S, base) /\ base \in [Threads -> ThreadState]
                            /\ \A u \in Threads : base[u] = thr[u] \/ base[u].pc \notin {"hash", "hash_file"}
    <3>1. thr[t] \in ThreadState /\ [thr[t] EXCEPT !.pc = "post"] \in ThreadState
          /\ [thr[t] EXCEPT !.pc = "post"].pc = "post"
      BY <1>0 DEF ThreadState
    <3>2. PICK b : b = [thr EXCEPT ![t].pc = "post"]
      OBVIOUS
    <3>3. b \in [Threads -> ThreadState] /\ b[t].pc = "post" /\ \A u \in Threads : u # t => b[u] = thr[u]
      BY <1>0, <3>1, <3>2
    <3> QED
      BY <2>3, <3>2, <3>3, ZenonT(30) DEF NotifyReleased
  <2> QED
    BY <2>1, <2>2, <2>3
<1>3. \A u \in Threads : \/ thr'[u] = base[u]
                         \/ u \in Workers /\ thr[u].pc = "none" /\ thr'[u] = At("start", <<>>)
  BY <1>0, <1>2, NotifyIs
<1>4. At("start", <<>>).pc = "start"
  BY DEF At
<1>5. HashHasBlock'
  BY <1>2, <1>3, <1>4, NobodyHashes
<1> QED
  BY <1>1, <1>5

(* The other steps of the disk threads keep the types.                     *)
LEMMA ThreadTypes ==
    ASSUME DInv, FileTypes, HashHasBlock, NEW t, t \in Threads,
           \/ t \in Workers /\ (TakeJob(t) \/ WaitOrExit(t))
           \/ CleanUp(t) \/ LeaveFence(t) \/ RouteReleased(t) \/ AppendReleased(t) \/ PostCompleted(t)
    PROVE  FileTypes' /\ HashHasBlock'
<1>0. thr \in [Threads -> ThreadState] /\ thr[t] \in ThreadState
  BY DEF DInv, ListTypes
<1>1. FileTypes'
  <2>1. /\ UNCHANGED <<fileVars, m_abort, aborted>> /\ released' \in BOOLEAN
        /\ m_job_completions_in_flight' \in BOOLEAN
    BY DEF TakeJob, WaitOrExit, CleanUp, LeaveFence, RouteReleased, AppendReleased, PostCompleted,
           FileTypes, postVars
  <2> QED
    BY <2>1 DEF FileTypes, fileVars
<1>2. thr'[t].pc \notin {"hash", "hash_file"} /\ \A u \in Threads : u # t => thr'[u] = thr[u]
  <2>1. CASE TakeJob(t)
    BY <1>0, <2>1 DEF TakeJob, At
  <2>2. CASE WaitOrExit(t)
    <3>1. \E pc \in {"cleanup", "none", "idle"} : thr' = [thr EXCEPT ![t] = At(pc, <<>>)]
      BY <2>2 DEF WaitOrExit, Stopped
    <3> QED
      BY <1>0, <3>1 DEF At
  <2>3. CASE CleanUp(t)
    BY <1>0, <2>3 DEF CleanUp, Stopped, At
  <2>4. CASE LeaveFence(t)
    BY <1>0, <2>4 DEF LeaveFence, ThreadState
  <2>5. CASE RouteReleased(t)
    BY <1>0, <2>5 DEF RouteReleased, GoesOn, ThreadState
  <2>6. CASE AppendReleased(t)
    BY <1>0, <2>6 DEF AppendReleased, ThreadState
  <2>7. CASE PostCompleted(t)
    BY <1>0, <2>7 DEF PostCompleted, At
  <2> QED
    BY <2>1, <2>2, <2>3, <2>4, <2>5, <2>6, <2>7
<1> QED
  BY <1>1, <1>2, NobodyHashes

-----------------------------------------------------------------------------
(***************************************************************************)
(* Every step keeps the pools' counts and the types.                       *)
(***************************************************************************)
DiskTypes == PoolInv /\ FileTypes /\ HashHasBlock

(* Every step keeps the pools' counts and the types.                       *)
LEMMA NextTypes ==
    ASSUME DInv, DiskTypes, [Next]_vars
    PROVE  DiskTypes'
<1>0. PoolInv /\ FileTypes /\ HashHasBlock
  BY DEF DiskTypes
<1>1. ASSUME NEW t \in Threads, ThreadStep(t) PROVE DiskTypes'
  <2>1. CASE t \in Workers /\ TakeJob(t)
    BY <1>0, <2>1, TakeJobPool, ThreadTypes DEF DiskTypes
  <2>2. CASE t \in Workers /\ WaitOrExit(t)
    BY <1>0, <2>2, WaitOrExitPool, ThreadTypes DEF DiskTypes
  <2>3. CASE CleanUp(t) \/ LeaveFence(t) \/ RouteReleased(t) \/ AppendReleased(t) \/ PostCompleted(t)
    BY <1>0, <2>3, WorkIsCalm, CalmKeeps, ThreadTypes DEF DiskTypes
  <2>4. CASE \E j \in Jobs : Execute(t, j)
    BY <1>0, <2>4, WorkIsCalm, CalmKeeps, ExecuteTypes DEF DiskTypes
  <2>5. CASE NotifyReleased(t)
    BY <1>0, <2>5, NotifiesKeep, NotifyTypes DEF DiskTypes
  <2> QED
    BY <1>1, <2>1, <2>2, <2>3, <2>4, <2>5 DEF ThreadStep, CompleteJobs
<1>2. ASSUME NEW j, \/ j \in WriteJobs /\ AsyncWrite(j)
                    \/ j \in ReadJobs /\ AsyncRead(j)
                    \/ j \in HashJobs /\ AsyncHash(j)
                    \/ j \in FenceJobs /\ AsyncFence(j)
      PROVE  DiskTypes'
  <2>1. FileTypes' /\ HashHasBlock'
    BY <1>0, <1>2, IssueTypes
  <2>2. Calm /\ UNCHANGED poolVars
    BY <1>2, IssuingIsCalm
  <2> QED
    BY <1>0, <2>1, <2>2, CalmKeeps DEF DiskTypes
<1>3. CASE (\E s \in Settings : SettingsUpdated(s)) \/ (\E q \in Pools : Reap(q))
  <2>1. UNCHANGED <<fileVars, postVars, m_abort, aborted, thr, released>>
    BY <1>3 DEF SettingsUpdated, Reap
  <2>2. FileTypes' /\ HashHasBlock'
    BY <1>0, <2>1 DEF FileTypes, HashHasBlock, fileVars, postVars
  <2> QED
    BY <1>0, <1>3, <2>2, PoolOperationsKeep DEF DiskTypes
<1>4. CASE SubmitJobs \/ AbortSubmits
  BY <1>0, <1>4, NotifiesKeep, NotifyTypes DEF DiskTypes
<1>5. ASSUME NEW j \in Jobs, JobFailAdd(j) \/ AddJob(j) \/ AddFenceJob(j) PROVE DiskTypes'
  BY <1>0, <1>5, IssuingIsCalm, CalmKeeps, NetStepTypes DEF DiskTypes
<1>6. CASE PushJob \/ AbortStarts \/ ImmediateExecute \/ CallJobHandlers \/ AbortPools
  <2>1. PoolInv'
    BY <1>0, <1>6, IssuingIsCalm, CalmKeeps, PoolOperationsKeep
  <2> QED
    BY <1>0, <1>6, <2>1, NetStepTypes DEF DiskTypes
<1>7. CASE UNCHANGED vars
  <2>1. UNCHANGED <<fileVars, postVars, poolVars, m_abort, aborted, thr, released>> /\ Calm
    BY <1>7 DEF vars, fileVars, postVars, poolVars, Calm
  <2>2. FileTypes' /\ HashHasBlock'
    BY <1>0, <2>1 DEF FileTypes, HashHasBlock, fileVars, postVars
  <2> QED
    BY <1>0, <2>1, <2>2, CalmKeeps DEF DiskTypes
<1>8. CASE Client
  <2>1. ASSUME NEW w \in WriteJobs, AsyncWrite(w) PROVE DiskTypes'
    BY <1>2, <2>1
  <2>2. ASSUME NEW r \in ReadJobs, AsyncRead(r) PROVE DiskTypes'
    BY <1>2, <2>2
  <2>3. ASSUME NEW h \in HashJobs, AsyncHash(h) PROVE DiskTypes'
    BY <1>2, <2>3
  <2>4. ASSUME NEW f \in FenceJobs, AsyncFence(f) PROVE DiskTypes'
    BY <1>2, <2>4
  <2> QED
    BY <1>3, <1>4, <1>8, <2>1, <2>2, <2>3, <2>4 DEF Client
<1>9. CASE NetStep
  BY <1>1, <1>5, <1>6, <1>9, ThreadSets DEF NetStep
<1>10. CASE \E t \in Workers : ThreadStep(t)
  BY <1>1, <1>10, ThreadSets
<1> QED
  BY <1>4, <1>6, <1>7, <1>8, <1>9, <1>10 DEF Next

(* They hold initially.                                                    *)
LEMMA InitTypes == Init => DiskTypes
<1> SUFFICES ASSUME Init PROVE DiskTypes
  OBVIOUS
<1>0. DInv
  BY InitKeeps
<1>1. \A u \in Threads : thr[u].pc = "none"
  BY DEF Init, Threads, Stopped, At
<1>2. FileTypes /\ HashHasBlock
  <2>1. Nothing \in Stored
    BY DEF Stored
  <2> QED
    BY <1>1, <2>1 DEF Init, FileTypes, HashHasBlock
<1>3. CountedThreads = {} /\ \A q \in Pools : IdleOf(q) = {}
  BY <1>1, ThreadSets DEF CountedThreads, IdleOf, Counted, Executing, Passing
<1>4. NewPool \in PoolObject(Workers) /\ NewPool.m_threads = {} /\ NewPool.m_num_idle_threads = 0
  BY DEF NewPool, PoolObject
<1>5. PICK s \in Settings :
          pools = [q \in Pools |-> SetMaxThreads(NewPool, s[IF q = "generic" THEN 1 ELSE 2])]
  BY DEF Init
<1>6. s[1] \in Nat /\ s[2] \in Nat
  <2>1. s \in (0..Cardinality(GenericThreads)) \X (0..Cardinality(HashThreads))
    BY DiskAssumption
  <2>2. IsFiniteSet(GenericThreads) /\ IsFiniteSet(HashThreads)
    BY ThreadSets, FS_Subset DEF Workers
  <2>3. Cardinality(GenericThreads) \in Nat /\ Cardinality(HashThreads) \in Nat
    BY <2>2, FS_CardinalityType
  <2> QED
    BY <2>1, <2>3
<1>7. ASSUME NEW q \in Pools PROVE PoolIs(q, pools[q]) /\ pools[q] \in PoolObject(Workers)
  <2>1. PICK i \in Nat : pools[q] = SetMaxThreads(NewPool, i)
    BY <1>5, <1>6
  <2>2. PICK p : p = NewPool
    OBVIOUS
  <2>3. /\ SetMaxThreads(p, i) \in PoolObject(Workers) /\ SetMaxThreads(p, i).m_threads = p.m_threads
        /\ SetMaxThreads(p, i).m_num_idle_threads = p.m_num_idle_threads
    BY <1>4, <2>2, ThreadSets, SetMaxThreadsPool
  <2> QED
    BY <1>3, <1>4, <2>1, <2>2, <2>3, FS_EmptySet DEF PoolIs
<1>8. pools \in [Pools -> PoolObject(Workers)]
  BY <1>5, <1>7
<1>9. m_num_running_threads = Cardinality(CountedThreads)
  BY <1>3, FS_EmptySet DEF Init
<1> QED
  BY <1>2, <1>7, <1>8, <1>9 DEF DiskTypes, PoolInv

(* The counts of the two pools and m_num_running_threads are exact.        *)
THEOREM DiskTypesHold == Spec => [](DInv /\ DiskTypes)
<1>1. DInv /\ DiskTypes /\ [Next]_vars => DInv' /\ DiskTypes'
  BY NextKeeps, NextTypes
<1> QED
  BY <1>1, InitKeeps, InitTypes, PTL DEF Spec

(* A job that was issued is in exactly one queue, list or pass of          *)
(* add_completed_jobs until its handler is called, for any jobs, threads,  *)
(* disk faults and shutdowns.                                              *)
THEOREM NoJobIsLost == Spec => []JobsInOnePlace
<1>1. DInv /\ DiskTypes => JobsInOnePlace
  <2> SUFFICES ASSUME DInv, DiskTypes PROVE JobsInOnePlace
    OBVIOUS
  <2>1. PoolInv /\ FileTypes /\ ListTypes
    BY DEF DInv, DiskTypes
  <2>2. m_num_running_threads \in 0..Cardinality(Workers)
    <3>1. CountedThreads \subseteq Workers /\ IsFiniteSet(Workers)
      BY ThreadSets DEF CountedThreads
    <3>2. Cardinality(CountedThreads) \in Nat /\ Cardinality(Workers) \in Nat
          /\ Cardinality(CountedThreads) <= Cardinality(Workers)
      BY <3>1, FS_Subset, FS_CardinalityType
    <3> QED
      BY <2>1, <3>2 DEF PoolInv
  <2>3. \A q \in Pools : pools[q].m_threads \subseteq ThreadsOf(q)
    BY <2>1 DEF PoolInv, PoolIs
  <2>4. TypeOK
    BY <2>1, <2>2, <2>3 DEF TypeOK, PoolInv, FileTypes, ListTypes, DInv, Stored, Results
  <2> QED
    BY <2>4 DEF JobsInOnePlace, DInv
<1> QED
  BY <1>1, DiskTypesHold, PTL
-----------------------------------------------------------------------------
(***************************************************************************)
(* The store buffer, while the session is not shut down and no file        *)
(* operation throws.                                                       *)
(***************************************************************************)
Undisturbed == ~ MayAbort /\ "exception" \notin DiskFaults

(* No job is cancelled but hash jobs, and every fence job issued is at the *)
(* fence or on its way to it.                                              *)
NoShutdown ==
    /\ m_abort = FALSE /\ thr[Net].pc \notin {"abort", "abort_generic", "abort_hash"}
    /\ ToSet(m_queued_jobs["hash"]) \subseteq HashJobs /\ aborted \subseteq HashJobs
    /\ \A f \in FenceJobs : IsIssued(f) /\ f \notin ToSet(reached) =>
          thr[Net].pc = "add" /\ thr[Net].jobs = <<f>>

(* Only hash jobs are hashing and only write jobs erase their block.       *)
JobKinds ==
    \A t \in Threads : /\ thr[t].pc \in {"hash", "hash_file"} => thr[t].jobs[1] \in HashJobs
                       /\ thr[t].pc = "erase" => thr[t].jobs[1] \in WriteJobs

AtErase(w) == \E t \in Threads : thr[t].pc = "erase" /\ thr[t].jobs = <<w>>

(* Write w of block b is still to be done.                                 *)
Pending(w) == IsIssued(w) /\ (ret[w] = "none" \/ AtErase(w))

BufferIs ==
    \A b \in Blocks, w \in WriteJobs : m_store_buffer[b] = w <=> b \in BlocksOf[w] /\ Pending(w)

BufferInv == NoShutdown /\ JobKinds /\ BufferIs

(* The invariant says what StoreBufferExact says.                          *)
LEMMA BufferIsExact ==
    ASSUME DInv, BufferIs
    PROVE  StoreBufferExact
<1>1. DOMAIN thr = Threads
  BY DEF DInv, ListTypes
<1> QED
  BY <1>1 DEF StoreBufferExact, BufferIs, Pending, AtErase, Running

(* A job whose handler has been called is nowhere else.                    *)
LEMMA CalledIsDone ==
    ASSUME DInv, NEW j, j \in ToSet(called)
    PROVE  /\ j \notin Waiting /\ IsIssued(j) /\ j \in Jobs /\ ret[j] # "none"
           /\ \A t \in Threads : j \notin ToSet(thr[t].jobs)
<1>0. /\ ListTypes /\ OnePlace(Held) /\ ThreadShape /\ ResultsExact /\ JobsIn(Held) = ToSet(issued)
      /\ thr \in [Threads -> ThreadState] /\ called \in Seq(Jobs)
  BY DEF DInv, ListTypes
<1>1. <<Net, "called">> \in Lists /\ j \in ToSet(Held[<<Net, "called">>]) /\ DOMAIN Held = Lists
  BY <1>0, HeldAre, ListsAre, HeldType
<1>2. \A y \in Lists : j \in ToSet(Held[y]) => y = <<Net, "called">>
  BY <1>0, <1>1, SameJob
<1>3. IsIssued(j) /\ j \in Jobs
  BY <1>0, <1>1, ToSetIs DEF JobsIn, IsIssued
<1>4. j \notin Blocked \union Queued
  <2>1. /\ Held[<<Net, "blocked">>] = fence.m_blocked_jobs
        /\ Held[<<Net, "generic">>] = m_queued_jobs["generic"] /\ Held[<<Net, "hash">>] = m_queued_jobs["hash"]
        /\ {<<Net, "blocked">>, <<Net, "generic">>, <<Net, "hash">>} \subseteq Lists
    BY HeldAre, ListsAre
  <2> QED
    BY <1>2, <2>1 DEF Blocked, Queued
<1>5. \A t \in Threads : j \notin ToSet(thr[t].jobs) /\ j \notin ToSet(thr[t].new)
  BY <1>2, HeldAre, ListsAre
<1>6. j \notin Waiting
  BY <1>4, <1>5 DEF Waiting, WaitingOf
<1> QED
  BY <1>0, <1>3, <1>5, <1>6 DEF ResultsExact

(* A block is written again only when no earlier write of it is left.      *)
LEMMA WriteAgain ==
    ASSUME DInv, NoShutdown, NEW w, w \in WriteJobs, MayWriteAgain(w),
           NEW v, v \in WriteJobs, NEW b, b \in BlocksOf[w], b \in BlocksOf[v]
    PROVE  ~ Pending(v)
<1> SUFFICES ASSUME Pending(v) PROVE FALSE
  OBVIOUS
<1>0. v \in Jobs /\ IsIssued(v) /\ thr \in [Threads -> ThreadState] /\ ThreadShape
  BY DEF Jobs, Pending, DInv, ListTypes
<1>1. BlocksOf[v] = BlocksOf[w]
  BY DiskAssumption
<1>2. CASE Called(v)
  <2>1. ret[v] # "none" /\ \A t \in Threads : v \notin ToSet(thr[t].jobs)
    BY <1>2, CalledIsDone DEF Called
  <2>2. ToSet(<<v>>) = {v}
    BY <1>0, ToSetIs
  <2> QED
    BY <2>1, <2>2 DEF Pending, AtErase
<1>3. ASSUME NEW f \in FenceJobs, Earlier(v, f), Called(f) PROVE FALSE
  <2>1. /\ f \notin Waiting /\ IsIssued(f) /\ f \in Jobs /\ ret[f] # "none"
        /\ \A t \in Threads : f \notin ToSet(thr[t].jobs)
    BY <1>3, CalledIsDone DEF Called
  <2>2. f \in ToSet(reached)
    <3>1. thr[Net].jobs # <<f>>
      <4>1. Net \in Threads /\ ToSet(<<f>>) = {f}
        BY <2>1, ThreadSets, ToSetIs
      <4> QED
        BY <2>1, <4>1
    <3> QED
      BY <2>1, <3>1 DEF NoShutdown
  <2>3. ret[v] # "none" /\ v \notin Active
    BY <1>0, <1>3, <2>1, <2>2, FenceWaits, FenceLeavesNone
  <2>4. PICK t \in Threads : thr[t].pc = "erase" /\ thr[t].jobs = <<v>>
    BY <2>3 DEF Pending, AtErase
  <2>5. thr[t].todo = thr[t].jobs
    <3>1. "erase" \notin Passing /\ InShape(t, thr[t])
      BY <1>0 DEF Passing, ThreadShape
    <3> QED
      BY <2>4, <3>1 DEF InShape
  <2>6. v \in ActiveOf(thr[t])
    <3>1. ToSet(<<v>>) = {v}
      BY <1>0, ToSetIs
    <3> QED
      BY <2>4, <2>5, <3>1 DEF ActiveOf
  <2> QED
    BY <2>3, <2>6 DEF Active
<1> QED
  BY <1>0, <1>1, <1>2, <1>3 DEF MayWriteAgain

(* The steps in which no job is issued, reaches the fence or gets its      *)
(* result as a write.                                                      *)
ThreadFrame ==
    \A u \in Threads :
        \/ thr'[u] = thr[u]
        \/ /\ thr[u].pc \notin {"erase", "add"}
           /\ thr'[u].pc \notin {"erase", "abort", "abort_generic", "abort_hash"}
           /\ thr'[u].pc \in {"hash", "hash_file"} => thr'[u].jobs[1] \in HashJobs

BufferFrame ==
    /\ UNCHANGED <<issued, reached, m_abort, aborted, m_store_buffer>>
    /\ \A w \in WriteJobs : ret'[w] = ret[w]
    /\ ToSet(m_queued_jobs'["hash"]) \subseteq ToSet(m_queued_jobs["hash"])

(* None of these steps touches the files or goes on with a hash.           *)
QuietFrame ==
    /\ UNCHANGED <<issued, m_store_buffer, disk, data, ret>>
    /\ \A u \in Threads : thr'[u] = thr[u] \/ thr'[u].pc \notin {"hash", "hash_file"}

(* Such a step keeps the invariant.                                        *)
LEMMA FrameKeeps ==
    ASSUME BufferInv, ThreadFrame, BufferFrame
    PROVE  BufferInv'
<1>0. NoShutdown /\ JobKinds /\ BufferIs /\ Net \in Threads
  BY ThreadSets DEF BufferInv
<1>1. NoShutdown'
  <2>1. m_abort' = FALSE /\ thr'[Net].pc \notin {"abort", "abort_generic", "abort_hash"}
    BY <1>0 DEF NoShutdown, ThreadFrame, BufferFrame
  <2>2. ToSet(m_queued_jobs'["hash"]) \subseteq HashJobs /\ aborted' \subseteq HashJobs
    BY <1>0 DEF NoShutdown, BufferFrame
  <2>3. ASSUME NEW f \in FenceJobs, IsIssued(f)', f \notin ToSet(reached')
        PROVE  thr'[Net].pc = "add" /\ thr'[Net].jobs = <<f>>
    <3>1. IsIssued(f) /\ f \notin ToSet(reached)
      BY <2>3 DEF BufferFrame, IsIssued
    <3>2. thr[Net].pc = "add" /\ thr[Net].jobs = <<f>>
      BY <1>0, <3>1 DEF NoShutdown
    <3> QED
      BY <1>0, <3>2 DEF ThreadFrame
  <2> QED
    BY <2>1, <2>2, <2>3 DEF NoShutdown
<1>2. JobKinds'
  BY <1>0 DEF JobKinds, ThreadFrame
<1>3. BufferIs'
  <2>1. ASSUME NEW w \in WriteJobs PROVE AtErase(w)' <=> AtErase(w)
    BY DEF AtErase, ThreadFrame
  <2>2. ASSUME NEW w \in WriteJobs PROVE Pending(w)' <=> Pending(w)
    BY <2>1 DEF Pending, IsIssued, BufferFrame
  <2>3. m_store_buffer' = m_store_buffer
    BY DEF BufferFrame
  <2> QED
    BY <1>0, <2>2, <2>3 DEF BufferIs
<1> QED
  BY <1>1, <1>2, <1>3 DEF BufferInv

(* Thread t moves, and the others do not.                                  *)
LEMMA FrameMove ==
    ASSUME NEW t, \A u \in Threads : u # t => thr'[u] = thr[u],
           thr[t].pc \notin {"erase", "add"},
           thr'[t].pc \notin {"erase", "abort", "abort_generic", "abort_hash"},
           thr'[t].pc \in {"hash", "hash_file"} => thr'[t].jobs[1] \in HashJobs
    PROVE  ThreadFrame
  BY DEF ThreadFrame

(* A thread executes a job that is not a write.                            *)
LEMMA ExecuteFrame ==
    ASSUME DInv, BufferInv, NEW t, t \in Threads, NEW j, j \in Jobs,
           \/ SkipAborted(t, j) \/ ReadBlocks(t, j) \/ StartHash(t, j) \/ HashLookup(t, j)
           \/ HashFile(t, j) \/ PerformFence(t, j)
    PROVE  ThreadFrame /\ BufferFrame
<1>0. /\ thr \in [Threads -> ThreadState] /\ thr[t] \in ThreadState /\ ret \in [Jobs -> Results]
      /\ NoShutdown /\ JobKinds
  BY DEF DInv, ListTypes, BufferInv
<1>1. ASSUME NEW pc, GoesOn(t, pc)
      PROVE  /\ thr'[t].pc = pc /\ thr'[t].jobs = thr[t].jobs
             /\ \A u \in Threads : u # t => thr'[u] = thr[u]
  BY <1>0, <1>1 DEF GoesOn, ThreadState
<1>2. ASSUME NEW v, HashedAs(t, j, v)
      PROVE  /\ thr'[t].pc \in {"hash", "complete"} /\ thr'[t].jobs = thr[t].jobs
             /\ \A u \in Threads : u # t => thr'[u] = thr[u]
             /\ \E x : ret' = [ret EXCEPT ![j] = x]
  <2>1. /\ thr'[t].pc \in {"hash", "complete"} /\ thr'[t].jobs = thr[t].jobs
        /\ \A u \in Threads : u # t => thr'[u] = thr[u]
    BY <1>0, <1>2 DEF HashedAs, ThreadState
  <2>2. \E x : ret' = [ret EXCEPT ![j] = x]
    BY <1>2 DEF HashedAs
  <2> QED
    BY <2>1, <2>2
<1>3. Running(t, j) => thr[t].jobs[1] = j
  BY DEF Running
<1>4. /\ Running(t, j) /\ j \notin WriteJobs
      /\ thr[t].pc \in {"exec", "hash", "hash_file"}
      /\ thr[t].pc \in {"hash", "hash_file"} => thr[t].jobs[1] \in HashJobs
  <2>1. CASE SkipAborted(t, j)
    BY <1>0, <2>1, DiskAssumption DEF SkipAborted, NoShutdown
  <2>2. CASE ReadBlocks(t, j) \/ StartHash(t, j) \/ PerformFence(t, j)
    BY <2>2, DiskAssumption DEF ReadBlocks, StartHash, PerformFence
  <2>3. CASE HashLookup(t, j) \/ HashFile(t, j)
    <3>1. thr[t].pc \in {"hash", "hash_file"} /\ Running(t, j)
      BY <2>3 DEF HashLookup, HashFile
    <3>2. thr[t].jobs[1] \in HashJobs
      BY <1>0, <3>1 DEF JobKinds
    <3> QED
      BY <1>3, <3>1, <3>2, DiskAssumption
  <2> QED
    BY <2>1, <2>2, <2>3
<1>5. /\ thr'[t].pc \in {"complete", "hash", "hash_file"} /\ thr'[t].jobs = thr[t].jobs
      /\ thr'[t].pc # "complete" => j \in HashJobs
      /\ \A u \in Threads : u # t => thr'[u] = thr[u]
      /\ ret' = ret \/ \E x : ret' = [ret EXCEPT ![j] = x]
  <2>1. CASE SkipAborted(t, j) \/ ReadBlocks(t, j) \/ PerformFence(t, j)
    <3>1. GoesOn(t, "complete") /\ \E x : ret' = [ret EXCEPT ![j] = x]
      BY <2>1 DEF SkipAborted, ReadBlocks, PerformFence
    <3> QED
      BY <1>1, <3>1
  <2>2. CASE StartHash(t, j)
    <3>1. thr'[t].pc = "hash" /\ thr'[t].jobs = thr[t].jobs /\ \A u \in Threads : u # t => thr'[u] = thr[u]
      BY <1>0, <2>2 DEF StartHash, ThreadState
    <3>2. ret' = ret /\ j \in HashJobs
      BY <2>2 DEF StartHash
    <3> QED
      BY <3>1, <3>2
  <2>3. CASE HashLookup(t, j) \/ HashFile(t, j)
    <3>1. j \in HashJobs
      BY <1>3, <1>4, <2>3 DEF HashLookup, HashFile
    <3>2. (\E v : HashedAs(t, j, v)) \/ (GoesOn(t, "hash_file") /\ ret' = ret)
          \/ (GoesOn(t, "complete") /\ ret' = [ret EXCEPT ![j] = "failed"])
      BY <2>3 DEF HashLookup, HashFile
    <3>3. CASE \E v : HashedAs(t, j, v)
      BY <1>2, <3>1, <3>3
    <3>4. CASE GoesOn(t, "hash_file") /\ ret' = ret
      BY <1>1, <3>1, <3>4
    <3>5. CASE GoesOn(t, "complete") /\ ret' = [ret EXCEPT ![j] = "failed"]
      BY <1>1, <3>5
    <3> QED
      BY <3>2, <3>3, <3>4, <3>5
  <2> QED
    BY <2>1, <2>2, <2>3
<1>6. ThreadFrame
  <2>1. thr'[t].pc \in {"hash", "hash_file"} => thr'[t].jobs[1] \in HashJobs
    BY <1>3, <1>4, <1>5
  <2> QED
    BY <1>4, <1>5, <2>1, FrameMove
<1>7. BufferFrame
  <2>1. UNCHANGED <<issued, reached, m_abort, aborted, m_store_buffer, m_queued_jobs>>
    BY DEF SkipAborted, ReadBlocks, StartHash, HashLookup, HashFile, PerformFence, execUnchanged,
           fileVars, fenceVars
  <2>2. \A w \in WriteJobs : ret'[w] = ret[w]
    BY <1>0, <1>4, <1>5 DEF Jobs
  <2> QED
    BY <2>1, <2>2 DEF BufferFrame
<1> QED
  BY <1>6, <1>7

(* The steps of the thread pools and of add_completed_jobs.                *)
LEMMA WorkerFrame ==
    ASSUME DInv, BufferInv, NEW t, t \in Threads,
           \/ t \in Workers /\ (TakeJob(t) \/ WaitOrExit(t))
           \/ CleanUp(t) \/ LeaveFence(t) \/ RouteReleased(t) \/ AppendReleased(t) \/ PostCompleted(t)
    PROVE  ThreadFrame /\ BufferFrame /\ QuietFrame
<1>0. /\ thr \in [Threads -> ThreadState] /\ thr[t] \in ThreadState /\ m_abort = FALSE
      /\ m_queued_jobs \in [Pools -> Seq(Jobs)] /\ {"generic", "hash"} = Pools
  BY DEF DInv, ListTypes, BufferInv, NoShutdown, Pools
<1>1. /\ thr[t].pc \notin {"erase", "add"}
      /\ thr'[t].pc \notin {"hash", "hash_file", "erase", "abort", "abort_generic", "abort_hash"}
      /\ \A u \in Threads : u # t => thr'[u] = thr[u]
  <2>1. CASE TakeJob(t)
    BY <1>0, <2>1 DEF TakeJob, At
  <2>2. CASE WaitOrExit(t)
    <3>1. \E pc \in {"cleanup", "none", "idle"} : thr' = [thr EXCEPT ![t] = At(pc, <<>>)]
      BY <2>2 DEF WaitOrExit, Stopped
    <3>2. thr[t].pc \in {"start", "loop", "idle"}
      BY <2>2 DEF WaitOrExit
    <3> QED
      BY <1>0, <3>1, <3>2 DEF At
  <2>3. CASE CleanUp(t)
    BY <1>0, <2>3 DEF CleanUp, Stopped, At
  <2>4. CASE LeaveFence(t)
    BY <1>0, <2>4 DEF LeaveFence, ThreadState
  <2>5. CASE RouteReleased(t)
    BY <1>0, <2>5 DEF RouteReleased, GoesOn, ThreadState
  <2>6. CASE AppendReleased(t)
    BY <1>0, <2>6 DEF AppendReleased, ThreadState
  <2>7. CASE PostCompleted(t)
    BY <1>0, <2>7 DEF PostCompleted, At
  <2> QED
    BY <2>1, <2>2, <2>3, <2>4, <2>5, <2>6, <2>7
<1>2. ThreadFrame
  BY <1>1, FrameMove
<1>3. UNCHANGED <<issued, reached, m_abort, aborted, m_store_buffer, ret, disk, data>>
  <2>1. CASE RouteReleased(t)
    BY <1>0, <2>1 DEF RouteReleased, fenceVars, fileVars
  <2>2. CASE ~ RouteReleased(t)
    BY <2>2 DEF TakeJob, WaitOrExit, CleanUp, LeaveFence, AppendReleased, PostCompleted, fenceVars, fileVars
  <2> QED
    BY <2>1, <2>2
<1>4. ToSet(m_queued_jobs'["hash"]) \subseteq ToSet(m_queued_jobs["hash"])
  <2>1. CASE t \in Workers /\ TakeJob(t)
    <3>1. PICK q \in Pools : m_queued_jobs[q] # <<>> /\ m_queued_jobs' = [m_queued_jobs EXCEPT ![q] = Tail(@)]
      BY <2>1, ThreadSets DEF TakeJob
    <3>2. CASE q = "hash"
      <4>1. /\ m_queued_jobs["hash"] \in Seq(Jobs) /\ m_queued_jobs["hash"] # <<>>
            /\ m_queued_jobs'["hash"] = Tail(m_queued_jobs["hash"])
        BY <1>0, <3>1, <3>2
      <4> QED
        BY <4>1, ToSetIs
    <3>3. CASE q # "hash"
      BY <1>0, <3>1, <3>3
    <3> QED
      BY <3>2, <3>3
  <2>2. CASE AppendReleased(t)
    BY <1>0, <2>2 DEF AppendReleased
  <2>3. CASE WaitOrExit(t) \/ CleanUp(t) \/ LeaveFence(t) \/ RouteReleased(t) \/ PostCompleted(t)
    BY <2>3 DEF WaitOrExit, CleanUp, LeaveFence, RouteReleased, PostCompleted
  <2> QED
    BY <2>1, <2>2, <2>3
<1> QED
  BY <1>1, <1>2, <1>3, <1>4 DEF BufferFrame, QuietFrame

(* Starting threads is such a step.                                        *)
LEMMA NotifyFrame ==
    ASSUME DInv, BufferInv, Undisturbed, SubmitJobs \/ \E t \in Threads : NotifyReleased(t)
    PROVE  ThreadFrame /\ BufferFrame /\ QuietFrame
<1>0. thr \in [Threads -> ThreadState] /\ Net \in Threads
  BY ThreadSets DEF DInv, ListTypes
<1>1. PICK S, base : /\ NotifyQueues(S, base) /\ base \in [Threads -> ThreadState]
                     /\ \A u \in Threads : base[u] = thr[u] \/ (thr[u].pc = "notify" /\ base[u].pc = "post")
  <2>1. CASE SubmitJobs
    BY <1>0, <2>1 DEF SubmitJobs
  <2>2. ASSUME NEW t \in Threads, NotifyReleased(t)
        PROVE  \E S, base :
                  /\ NotifyQueues(S, base) /\ base \in [Threads -> ThreadState]
                  /\ \A u \in Threads : base[u] = thr[u] \/ (thr[u].pc = "notify" /\ base[u].pc = "post")
    <3>1. thr[t] \in ThreadState /\ [thr[t] EXCEPT !.pc = "post"] \in ThreadState
          /\ [thr[t] EXCEPT !.pc = "post"].pc = "post" /\ thr[t].pc = "notify"
      BY <1>0, <2>2 DEF ThreadState, NotifyReleased
    <3>2. PICK b : b = [thr EXCEPT ![t].pc = "post"]
      OBVIOUS
    <3>3. b \in [Threads -> ThreadState] /\ b[t].pc = "post" /\ \A u \in Threads : u # t => b[u] = thr[u]
      BY <1>0, <3>1, <3>2
    <3> QED
      BY <2>2, <3>1, <3>2, <3>3 DEF NotifyReleased
  <2> QED
    BY <2>1, <2>2
<1>2. \A u \in Threads : \/ thr'[u] = base[u]
                         \/ u \in Workers /\ thr[u].pc = "none" /\ thr'[u] = At("start", <<>>)
  BY <1>0, <1>1, NotifyIs
<1>3. At("start", <<>>).pc = "start"
  BY DEF At
<1>4. ThreadFrame
  BY <1>1, <1>2, <1>3 DEF ThreadFrame
<1>5. BufferFrame
  BY DEF SubmitJobs, NotifyReleased, BufferFrame, fenceVars, fileVars
<1>6. QuietFrame
  <2>1. UNCHANGED <<issued, m_store_buffer, disk, data, ret>>
    BY DEF SubmitJobs, NotifyReleased, fileVars
  <2> QED
    BY <1>1, <1>2, <1>3, <2>1 DEF QuietFrame
<1> QED
  BY <1>4, <1>5, <1>6

(* So are the steps of the network thread that issue no job.               *)
LEMMA NetFrame ==
    ASSUME DInv, BufferInv,
           \/ CallJobHandlers \/ ImmediateExecute \/ UNCHANGED vars
           \/ \E s \in Settings : SettingsUpdated(s)
           \/ \E q \in Pools : Reap(q)
    PROVE  ThreadFrame /\ BufferFrame /\ QuietFrame
<1>0. /\ thr \in [Threads -> ThreadState] /\ Net \in Threads
      /\ m_queued_jobs \in [Pools -> Seq(Jobs)] /\ {"generic", "hash"} = Pools
  BY ThreadSets DEF DInv, ListTypes, Pools
<1>1. CASE ImmediateExecute
  <2>1. thr[Net].pc = "loop" /\ thr'[Net].pc \in {"none", "exec"} /\ \A u \in Threads : u # Net => thr'[u] = thr[u]
    BY <1>0, <1>1 DEF ImmediateExecute, NetGoes, At
  <2>2. BufferFrame
    <3>1. m_queued_jobs'["hash"] = m_queued_jobs["hash"]
      BY <1>0, <1>1 DEF ImmediateExecute
    <3> QED
      BY <1>1, <3>1 DEF ImmediateExecute, BufferFrame, fenceVars, fileVars
  <2>3. QuietFrame
    BY <1>1, <2>1 DEF ImmediateExecute, QuietFrame, fileVars
  <2> QED
    BY <2>1, <2>2, <2>3, FrameMove
<1>2. CASE ~ ImmediateExecute
  <2>1. UNCHANGED <<thr, issued, reached, m_abort, aborted, m_store_buffer, ret, disk, data,
                  m_queued_jobs>>
    BY <1>2 DEF CallJobHandlers, vars, SettingsUpdated, Reap, fenceVars, fileVars
  <2> QED
    BY <2>1 DEF ThreadFrame, BufferFrame, QuietFrame
<1> QED
  BY <1>1, <1>2

(* A job reaches the fence, or joins its queue.                            *)
LEMMA NetPassesJob ==
    ASSUME DInv, BufferInv, NEW j, j \in Jobs, AddJob(j) \/ AddFenceJob(j) \/ PushJob
    PROVE  BufferInv' /\ QuietFrame
<1>0. /\ thr \in [Threads -> ThreadState] /\ Net \in Threads /\ NoShutdown /\ JobKinds /\ BufferIs
      /\ m_queued_jobs \in [Pools -> Seq(Jobs)] /\ {"generic", "hash"} = Pools /\ reached \in Seq(Jobs)
  BY ThreadSets DEF DInv, ListTypes, Pools, BufferInv
<1>1. thr[Net].pc \in {"add", "push"}
  BY DEF AddJob, AddFenceJob, PushJob, Adding
<1>2. \E pc \in {"push", "none", "loop"} : \E s : NetGoes(pc, s)
  BY DEF AddJob, AddFenceJob, PushJob
<1>3. thr'[Net].pc \in {"push", "none", "loop"} /\ \A u \in Threads : u # Net => thr'[u] = thr[u]
  BY <1>0, <1>2 DEF NetGoes, At
<1>4. UNCHANGED <<issued, m_abort, aborted, m_store_buffer, ret, disk, data>>
  BY DEF AddJob, AddFenceJob, PushJob, fileVars
<1>5. ToSet(m_queued_jobs'["hash"]) \subseteq HashJobs
  <2>1. CASE AddJob(j) \/ AddFenceJob(j)
    BY <1>0, <2>1 DEF AddJob, AddFenceJob, NoShutdown
  <2>2. CASE PushJob
    <3> DEFINE k == thr[Net].jobs[1]
               q == IF k \in FenceJobs THEN "generic" ELSE QueueForJob(k)
    <3>1. m_queued_jobs' = [m_queued_jobs EXCEPT ![q] = Append(@, k)] /\ thr[Net].pc = "push"
      BY <2>2 DEF PushJob
    <3>2. q = "generic" \/ (q = "hash" /\ k \in HashJobs)
      BY DEF QueueForJob
    <3>3. k \in Jobs
      BY <3>1, NetJob
    <3> HIDE DEF k, q
    <3>4. CASE q = "generic"
      BY <1>0, <3>1, <3>4 DEF NoShutdown
    <3>5. CASE q = "hash" /\ k \in HashJobs
      <4>1. m_queued_jobs'["hash"] = Append(m_queued_jobs["hash"], k) /\ m_queued_jobs["hash"] \in Seq(Jobs)
        BY <1>0, <3>1, <3>5
      <4>2. ToSet(m_queued_jobs'["hash"]) = ToSet(m_queued_jobs["hash"]) \union {k}
        BY <3>3, <4>1, JoinIs
      <4> QED
        BY <1>0, <3>5, <4>2 DEF NoShutdown
    <3> QED
      BY <3>2, <3>4, <3>5
  <2> QED
    BY <2>1, <2>2
<1>6. \A f \in FenceJobs : IsIssued(f) => f \in ToSet(reached')
  <2>1. CASE PushJob
    <3>1. thr[Net].pc # "add" /\ reached' = reached
      BY <2>1 DEF PushJob, fenceVars
    <3> QED
      BY <1>0, <3>1 DEF NoShutdown
  <2>2. CASE AddJob(j) \/ AddFenceJob(j)
    <3>1. reached' = Append(reached, j) /\ thr[Net].jobs = <<j>>
      BY <2>2 DEF AddJob, AddFenceJob, Adding
    <3>2. ToSet(reached') = ToSet(reached) \union {j}
      BY <1>0, <3>1, JoinIs
    <3>3. ASSUME NEW f \in FenceJobs, IsIssued(f), f \notin ToSet(reached) PROVE f = j
      <4>1. <<f>> = <<j>>
        BY <1>0, <3>1, <3>3 DEF NoShutdown
      <4> QED
        BY <4>1
    <3> QED
      BY <3>2, <3>3
  <2> QED
    BY <2>1, <2>2
<1>7. NoShutdown'
  BY <1>0, <1>3, <1>4, <1>5, <1>6 DEF NoShutdown, IsIssued
<1>8. JobKinds'
  BY <1>0, <1>3 DEF JobKinds
<1>9. BufferIs'
  <2>1. ASSUME NEW w \in WriteJobs PROVE Pending(w)' <=> Pending(w)
    BY <1>1, <1>3, <1>4 DEF AtErase, Pending, IsIssued
  <2> QED
    BY <1>0, <1>4, <2>1 DEF BufferIs
<1> QED
  BY <1>3, <1>4, <1>7, <1>8, <1>9 DEF BufferInv, QuietFrame

(* A job is issued: what it does to the rest of the invariant.             *)
LEMMA IssueBuffer ==
    ASSUME DInv, BufferInv, NEW j, j \in Jobs, Issue(j),
           NetGoes("add", <<j>>) \/ (UNCHANGED thr /\ j \notin FenceJobs),
           UNCHANGED <<reached, m_abort, m_queued_jobs>>, aborted' \subseteq HashJobs
    PROVE  /\ NoShutdown' /\ JobKinds'
           /\ \A w \in WriteJobs : AtErase(w)' <=> AtErase(w)
           /\ \A w \in Jobs : IsIssued(w)' <=> IsIssued(w) \/ w = j
<1>0. /\ thr \in [Threads -> ThreadState] /\ Net \in Threads /\ NoShutdown /\ JobKinds
      /\ issued \in Seq(Jobs) /\ thr[Net].pc = "none" /\ issued' = Append(issued, j)
  BY ThreadSets DEF DInv, ListTypes, BufferInv, Issue
<1>1. ToSet(issued') = ToSet(issued) \union {j}
  BY <1>0, JoinIs
<1>2. \A w \in Jobs : IsIssued(w)' <=> IsIssued(w) \/ w = j
  BY <1>1 DEF IsIssued
<1>3. \A f \in FenceJobs : IsIssued(f) => f \in ToSet(reached)
  BY <1>0 DEF NoShutdown
<1>4. /\ thr'[Net].pc \in {"add", "none"} /\ \A u \in Threads : u # Net => thr'[u] = thr[u]
      /\ j \in FenceJobs => thr'[Net].pc = "add" /\ thr'[Net].jobs = <<j>>
  <2>1. CASE NetGoes("add", <<j>>)
    BY <1>0, <2>1 DEF NetGoes, At
  <2>2. CASE UNCHANGED thr /\ j \notin FenceJobs
    BY <1>0, <2>2
  <2> QED
    BY <2>1, <2>2
<1>5. NoShutdown'
  <2>1. ASSUME NEW f \in FenceJobs, IsIssued(f)', f \notin ToSet(reached')
        PROVE  thr'[Net].pc = "add" /\ thr'[Net].jobs = <<f>>
    <3>1. f = j
      BY <1>2, <1>3, <2>1 DEF Jobs
    <3> QED
      BY <1>4, <3>1
  <2> QED
    BY <1>0, <1>4, <2>1 DEF NoShutdown
<1>6. JobKinds'
  BY <1>0, <1>4 DEF JobKinds
<1>7. \A w \in WriteJobs : AtErase(w)' <=> AtErase(w)
  BY <1>0, <1>4 DEF AtErase
<1> QED
  BY <1>2, <1>5, <1>6, <1>7

(* Issuing a read, hash or fence job keeps the invariant.                  *)
LEMMA ClientBuffer ==
    ASSUME DInv, BufferInv, NEW j, \/ j \in ReadJobs /\ AsyncRead(j)
                                   \/ j \in HashJobs /\ AsyncHash(j)
                                   \/ j \in FenceJobs /\ AsyncFence(j)
    PROVE  BufferInv'
<1>0. /\ j \in Jobs /\ j \notin WriteJobs /\ BufferIs /\ ret \in [Jobs -> Results] /\ NoShutdown
      /\ WriteJobs \subseteq Jobs
  BY DiskAssumption DEF Jobs, BufferInv, DInv
<1>1. /\ Issue(j) /\ UNCHANGED <<reached, m_abort, m_queued_jobs, m_store_buffer>>
      /\ NetGoes("add", <<j>>) \/ (UNCHANGED thr /\ j \notin FenceJobs)
      /\ ret' = ret \/ \E x : ret' = [ret EXCEPT ![j] = x]
  <2>1. CASE j \in ReadJobs /\ AsyncRead(j)
    BY <2>1, DiskAssumption DEF AsyncRead, fenceVars
  <2>2. CASE j \in HashJobs /\ AsyncHash(j)
    BY <2>2 DEF AsyncHash, fenceVars, fileVars
  <2>3. CASE j \in FenceJobs /\ AsyncFence(j)
    BY <2>3 DEF AsyncFence, fenceVars, fileVars
  <2> QED
    BY <2>1, <2>2, <2>3
<1>2. aborted' \subseteq HashJobs
  BY <1>0 DEF AsyncRead, AsyncHash, AsyncFence, NoShutdown
<1>3. /\ NoShutdown' /\ JobKinds'
      /\ \A w \in WriteJobs : AtErase(w)' <=> AtErase(w)
      /\ \A w \in Jobs : IsIssued(w)' <=> IsIssued(w) \/ w = j
  BY <1>0, <1>1, <1>2, IssueBuffer
<1>4. ASSUME NEW w \in WriteJobs PROVE Pending(w)' <=> Pending(w)
  <2>1. ret'[w] = ret[w] /\ w # j
    BY <1>0, <1>1
  <2> QED
    BY <1>0, <1>3, <2>1 DEF Pending
<1> QED
  BY <1>0, <1>1, <1>3, <1>4 DEF BufferInv, BufferIs

(* async_write finds the place of its block in the store buffer empty.     *)
LEMMA AsyncWriteBuffer ==
    ASSUME DInv, BufferInv, FileTypes, NEW w, w \in WriteJobs, AsyncWrite(w)
    PROVE  /\ BufferInv'
           /\ \A b \in BlocksOf[w] : m_store_buffer[b] = Nothing /\ m_store_buffer'[b] = w
           /\ \A b \in Blocks \ BlocksOf[w] : m_store_buffer'[b] = m_store_buffer[b]
<1>0. /\ w \in Jobs /\ BufferIs /\ NoShutdown /\ WriteJobs \subseteq Jobs /\ ResultsExact
      /\ BlocksOf[w] \subseteq Blocks
  BY DiskAssumption DEF Jobs, BufferInv, DInv
<1>1. /\ Issue(w) /\ MayWriteAgain(w) /\ UNCHANGED <<reached, m_abort, m_queued_jobs, ret>>
      /\ NetGoes("add", <<w>>) /\ aborted' = aborted
      /\ m_store_buffer' = [b \in Blocks |-> IF b \in BlocksOf[w] /\ m_store_buffer[b] = Nothing
                                             THEN w ELSE m_store_buffer[b]]
  BY DEF AsyncWrite, fenceVars
<1>2. /\ NoShutdown' /\ JobKinds'
      /\ \A v \in WriteJobs : AtErase(v)' <=> AtErase(v)
      /\ \A v \in Jobs : IsIssued(v)' <=> IsIssued(v) \/ v = w
  BY <1>0, <1>1, IssueBuffer DEF NoShutdown
<1>3. ret[w] = "none"
  BY <1>0, <1>1 DEF ResultsExact, Issue
<1>4. \A b \in BlocksOf[w], v \in WriteJobs : b \in BlocksOf[v] => ~ Pending(v)
  BY <1>0, <1>1, WriteAgain
<1>5. \A b \in BlocksOf[w] : m_store_buffer[b] = Nothing
  <2> SUFFICES ASSUME NEW b \in BlocksOf[w], m_store_buffer[b] # Nothing PROVE FALSE
    OBVIOUS
  <2>1. m_store_buffer[b] \in WriteJobs
    BY <1>0 DEF FileTypes, Stored
  <2>2. b \in BlocksOf[m_store_buffer[b]] /\ Pending(m_store_buffer[b])
    BY <1>0, <2>1 DEF BufferIs
  <2> QED
    BY <1>4, <2>1, <2>2
<1>6. /\ \A b \in BlocksOf[w] : m_store_buffer'[b] = w
      /\ \A b \in Blocks \ BlocksOf[w] : m_store_buffer'[b] = m_store_buffer[b]
  BY <1>0, <1>1, <1>5
<1>7. Pending(w)'
  BY <1>0, <1>1, <1>2, <1>3 DEF Pending
<1>8. \A v \in WriteJobs : v # w => (Pending(v)' <=> Pending(v))
  BY <1>0, <1>1, <1>2 DEF Pending
<1>9. ASSUME NEW b \in Blocks, NEW v \in WriteJobs
      PROVE  m_store_buffer'[b] = v <=> b \in BlocksOf[v] /\ Pending(v)'
  <2>1. CASE b \in BlocksOf[w]
    BY <1>4, <1>6, <1>7, <1>8, <2>1
  <2>2. CASE b \notin BlocksOf[w]
    <3>1. m_store_buffer'[b] = m_store_buffer[b] /\ (m_store_buffer[b] = v <=> b \in BlocksOf[v] /\ Pending(v))
      BY <1>0, <1>6, <2>2 DEF BufferIs
    <3> QED
      BY <1>8, <2>2, <3>1
  <2> QED
    BY <2>1, <2>2
<1> QED
  BY <1>2, <1>5, <1>6, <1>9 DEF BufferInv, BufferIs

(* do_write: the file is written first, and the entry that is erased then  *)
(* is the one async_write has made.                                        *)
LEMMA WriteBuffer ==
    ASSUME DInv, BufferInv, Undisturbed, NEW t, t \in Threads, NEW w, WriteBlock(t, w)
    PROVE  /\ BufferInv'
           /\ ret[w] = "none" /\ IsIssued(w) /\ w \in WriteJobs
<1>0. /\ thr \in [Threads -> ThreadState] /\ thr[t] \in ThreadState /\ Net \in Threads
      /\ NoShutdown /\ JobKinds /\ BufferIs /\ ret \in [Jobs -> Results] /\ WriteJobs \subseteq Jobs
      /\ ListTypes /\ OnePlace(Held) /\ ResultsExact /\ JobsIn(Held) = ToSet(issued)
  BY ThreadSets DEF DInv, ListTypes, BufferInv, Jobs
<1>1. /\ thr[t].pc = "exec" /\ thr[t].jobs = <<w>> /\ w \in WriteJobs /\ GoesOn(t, "erase")
      /\ ret' = [ret EXCEPT ![w] = "ok"] \/ ret' = [ret EXCEPT ![w] = "failed"]
      /\ UNCHANGED <<issued, reached, m_abort, aborted, m_store_buffer, m_queued_jobs>>
  <2>1. \A e \in DiskFaults : e = "error"
    BY DiskAssumption DEF Undisturbed
  <2> QED
    BY <2>1 DEF WriteBlock, Running, execUnchanged, fenceVars
<1>2. /\ thr'[t].pc = "erase" /\ thr'[t].jobs = thr[t].jobs /\ \A u \in Threads : u # t => thr'[u] = thr[u]
  BY <1>0, <1>1 DEF GoesOn, ThreadState
<1>3. w \in ToSet(thr[t].jobs) /\ <<w>>[1] = w
  BY <1>0, <1>1, ToSetIs
<1>4. ret[w] = "none" /\ IsIssued(w)
  <2>1. w \in WaitingOf(thr[t])
    BY <1>1, <1>3 DEF WaitingOf, Early
  <2>2. w \in Waiting
    BY <2>1 DEF Waiting
  <2> QED
    BY <1>0, <1>1, <2>2, WaitingIsIssued DEF ResultsExact, IsIssued
<1>5. Pending(w) /\ Pending(w)'
  <2>1. AtErase(w)'
    BY <1>1, <1>2 DEF AtErase
  <2> QED
    BY <1>1, <1>4, <2>1 DEF Pending, IsIssued
<1>6. ASSUME NEW v \in WriteJobs, v # w PROVE Pending(v)' <=> Pending(v)
  <2>1. ret'[v] = ret[v]
    BY <1>0, <1>1, <1>6
  <2>2. AtErase(v)' <=> AtErase(v)
    <3>1. <<v>> # <<w>>
      BY <1>6
    <3> QED
      BY <1>1, <1>2, <3>1 DEF AtErase
  <2> QED
    BY <1>1, <2>1, <2>2 DEF Pending, IsIssued
<1>7. BufferIs'
  BY <1>0, <1>1, <1>5, <1>6 DEF BufferIs
<1>8. JobKinds'
  BY <1>0, <1>1, <1>2, <1>3 DEF JobKinds
<1>9. NoShutdown'
  <2>1. thr'[Net].pc \notin {"abort", "abort_generic", "abort_hash"}
    BY <1>0, <1>2 DEF NoShutdown
  <2>2. ASSUME NEW f \in FenceJobs, IsIssued(f)', f \notin ToSet(reached')
        PROVE  thr'[Net].pc = "add" /\ thr'[Net].jobs = <<f>>
    <3>1. thr[Net].pc = "add" /\ thr[Net].jobs = <<f>>
      BY <1>0, <1>1, <2>2 DEF NoShutdown, IsIssued
    <3> QED
      BY <1>0, <1>1, <1>2, <3>1
  <2> QED
    BY <1>0, <1>1, <2>1, <2>2 DEF NoShutdown
<1> QED
  BY <1>1, <1>4, <1>7, <1>8, <1>9 DEF BufferInv

(* do_write, second part: the entry that is erased is its own.             *)
LEMMA EraseBufferKeeps ==
    ASSUME DInv, BufferInv, FileTypes, NEW t, t \in Threads, NEW w, w \in Jobs, EraseBuffer(t, w)
    PROVE  /\ BufferInv' /\ w \in WriteJobs
           /\ \A b \in BlocksOf[w] : m_store_buffer[b] = w
<1>0. /\ thr \in [Threads -> ThreadState] /\ thr[t] \in ThreadState /\ Net \in Threads
      /\ NoShutdown /\ JobKinds /\ BufferIs /\ ret \in [Jobs -> Results] /\ WriteJobs \subseteq Jobs
      /\ ListTypes /\ OnePlace(Held) /\ ResultsExact /\ JobsIn(Held) = ToSet(issued) /\ ThreadShape
  BY ThreadSets DEF DInv, ListTypes, BufferInv, Jobs
<1>1. /\ thr[t].pc = "erase" /\ thr[t].jobs = <<w>> /\ GoesOn(t, "complete")
      /\ UNCHANGED <<issued, reached, m_abort, aborted, ret, m_queued_jobs>>
      /\ m_store_buffer' = [b \in Blocks |-> IF b \in BlocksOf[w] THEN Nothing ELSE m_store_buffer[b]]
  BY DEF EraseBuffer, Running, execUnchanged, fenceVars
<1>2. /\ thr'[t].pc = "complete" /\ thr'[t].jobs = thr[t].jobs /\ \A u \in Threads : u # t => thr'[u] = thr[u]
  BY <1>0, <1>1 DEF GoesOn, ThreadState
<1>3. w \in ToSet(thr[t].jobs) /\ <<w>>[1] = w /\ w \in WriteJobs
  <2>1. ToSet(<<w>>) = {w}
    BY ToSetIs
  <2> QED
    BY <1>0, <1>1, <2>1 DEF JobKinds
<1>4. BlocksOf[w] \subseteq Blocks
  BY <1>3, DiskAssumption
<1>5. Pending(w)
  <2>1. AtErase(w)
    BY <1>1 DEF AtErase
  <2>2. IsIssued(w)
    <3>1. <<t, "jobs">> \in Lists /\ w \in ToSet(Held[<<t, "jobs">>]) /\ DOMAIN Held = Lists
      BY <1>0, <1>3, HeldAre, ListsAre, HeldType
    <3> QED
      BY <1>0, <3>1 DEF JobsIn, IsIssued
  <2> QED
    BY <2>1, <2>2 DEF Pending
<1>6. \A b \in BlocksOf[w] : m_store_buffer[b] = w
  BY <1>0, <1>3, <1>4, <1>5 DEF BufferIs
<1>7. ret[w] # "none"
  <2>1. w \notin Blocked /\ w \notin Queued
    BY <1>0, <1>3, Alone
  <2>2. w \notin WaitingOf(thr[t])
    <3>1. w \notin ToSet(thr[t].new)
      BY <1>0, <1>3, Alone
    <3> QED
      BY <1>1, <3>1 DEF WaitingOf, Early
  <2>3. w \notin OthersWaiting(t)
    BY <1>0, <1>3, OthersAreElsewhere
  <2>4. w \notin Waiting
    <3>1. \A u \in Threads : w \notin WaitingOf(thr[u])
      BY <2>2, <2>3 DEF OthersWaiting
    <3> QED
      BY <2>1, <3>1 DEF Waiting
  <2> QED
    BY <1>0, <1>5, <2>4 DEF ResultsExact, Pending
<1>8. ~ Pending(w)'
  <2>1. ~ AtErase(w)'
    <3>1. \A u \in Threads : u # t => w \notin ToSet(thr[u].jobs)
      BY <1>0, <1>3, Alone
    <3>2. ToSet(<<w>>) = {w}
      BY ToSetIs
    <3> QED
      BY <1>2, <3>1, <3>2 DEF AtErase
  <2> QED
    BY <1>1, <1>7, <2>1 DEF Pending
<1>9. ASSUME NEW v \in WriteJobs, v # w PROVE Pending(v)' <=> Pending(v)
  <2>1. AtErase(v)' <=> AtErase(v)
    <3>1. <<v>> # <<w>>
      BY <1>9
    <3> QED
      BY <1>1, <1>2, <3>1 DEF AtErase
  <2> QED
    BY <1>1, <2>1 DEF Pending, IsIssued
<1>10. ASSUME NEW b \in Blocks, NEW v \in WriteJobs
       PROVE  m_store_buffer'[b] = v <=> b \in BlocksOf[v] /\ Pending(v)'
  <2>1. CASE b \in BlocksOf[w]
    <3>1. m_store_buffer'[b] = Nothing /\ m_store_buffer[b] = w /\ v # Nothing
      BY <1>1, <1>6, <2>1, DiskAssumption
    <3>2. b \in BlocksOf[v] /\ v # w => ~ Pending(v)
      BY <1>0, <3>1 DEF BufferIs
    <3> QED
      BY <1>8, <1>9, <3>1, <3>2
  <2>2. CASE b \notin BlocksOf[w]
    <3>1. m_store_buffer'[b] = m_store_buffer[b] /\ (m_store_buffer[b] = v <=> b \in BlocksOf[v] /\ Pending(v))
      BY <1>0, <1>1, <2>2 DEF BufferIs
    <3> QED
      BY <1>9, <2>2, <3>1
  <2> QED
    BY <2>1, <2>2
<1>11. JobKinds'
  BY <1>0, <1>1, <1>2 DEF JobKinds
<1>12. NoShutdown'
  <2>1. thr'[Net].pc \notin {"abort", "abort_generic", "abort_hash"}
    BY <1>0, <1>2 DEF NoShutdown
  <2>2. ASSUME NEW f \in FenceJobs, IsIssued(f)', f \notin ToSet(reached')
        PROVE  thr'[Net].pc = "add" /\ thr'[Net].jobs = <<f>>
    <3>1. thr[Net].pc = "add" /\ thr[Net].jobs = <<f>>
      BY <1>0, <1>1, <2>2 DEF NoShutdown, IsIssued
    <3> QED
      BY <1>0, <1>1, <1>2, <3>1
  <2> QED
    BY <1>0, <1>1, <2>1, <2>2 DEF NoShutdown
<1> QED
  BY <1>3, <1>6, <1>10, <1>11, <1>12 DEF BufferInv, BufferIs

(* The steps of a thread keep the invariant.                               *)
LEMMA ThreadBuffer ==
    ASSUME Undisturbed, DInv, FileTypes, BufferInv, NEW t, t \in Threads, ThreadStep(t)
    PROVE  BufferInv'
<1>1. CASE \/ t \in Workers /\ (TakeJob(t) \/ WaitOrExit(t))
           \/ CleanUp(t) \/ LeaveFence(t) \/ RouteReleased(t) \/ AppendReleased(t) \/ PostCompleted(t)
  BY <1>1, WorkerFrame, FrameKeeps
<1>2. CASE NotifyReleased(t)
  BY <1>2, NotifyFrame, FrameKeeps
<1>3. ASSUME NEW j \in Jobs, Execute(t, j) PROVE BufferInv'
  <2>1. CASE WriteBlock(t, j)
    BY <2>1, WriteBuffer
  <2>2. CASE EraseBuffer(t, j)
    BY <2>2, EraseBufferKeeps
  <2>3. CASE \/ SkipAborted(t, j) \/ ReadBlocks(t, j) \/ StartHash(t, j) \/ HashLookup(t, j)
             \/ HashFile(t, j) \/ PerformFence(t, j)
    BY <2>3, ExecuteFrame, FrameKeeps
  <2> QED
    BY <1>3, <2>1, <2>2, <2>3 DEF Execute
<1> QED
  BY <1>1, <1>2, <1>3 DEF ThreadStep, CompleteJobs

(* Every step keeps the invariant.                                         *)
LEMMA NextBuffer ==
    ASSUME Undisturbed, DInv, FileTypes, BufferInv, [Next]_vars
    PROVE  BufferInv'
<1>0. NoShutdown /\ ~ m_abort /\ ~ MayAbort
  BY DEF BufferInv, NoShutdown, Undisturbed
<1>1. CASE \/ CallJobHandlers \/ ImmediateExecute \/ UNCHANGED vars
           \/ (\E s \in Settings : SettingsUpdated(s)) \/ (\E q \in Pools : Reap(q))
  BY <1>1, NetFrame, FrameKeeps
<1>2. CASE SubmitJobs
  BY <1>2, NotifyFrame, FrameKeeps
<1>3. CASE Client
  <2>1. ASSUME NEW w \in WriteJobs, AsyncWrite(w) PROVE BufferInv'
    BY <2>1, AsyncWriteBuffer
  <2>2. ASSUME NEW r \in ReadJobs, AsyncRead(r) PROVE BufferInv'
    BY <2>2, ClientBuffer
  <2>3. ASSUME NEW h \in HashJobs, AsyncHash(h) PROVE BufferInv'
    BY <2>3, ClientBuffer
  <2>4. ASSUME NEW f \in FenceJobs, AsyncFence(f) PROVE BufferInv'
    BY <2>4, ClientBuffer
  <2>5. ~ AbortSubmits
    BY <1>0 DEF AbortSubmits
  <2> QED
    BY <1>1, <1>3, <2>1, <2>2, <2>3, <2>4, <2>5 DEF Client
<1>4. CASE NetStep
  <2>1. ASSUME NEW j \in Jobs, JobFailAdd(j) PROVE FALSE
    BY <1>0, <2>1 DEF JobFailAdd
  <2>2. ASSUME NEW j \in Jobs, AddJob(j) \/ AddFenceJob(j) PROVE BufferInv'
    BY <2>2, NetPassesJob
  <2>3. ASSUME PushJob PROVE BufferInv'
    <3>1. thr[Net].jobs[1] \in Jobs
      BY <2>3, NetJob DEF PushJob
    <3> QED
      BY <2>3, <3>1, NetPassesJob
  <2>4. ~ AbortStarts /\ ~ AbortPools
    BY <1>0 DEF AbortStarts, AbortPools, NoShutdown
  <2>5. ASSUME ThreadStep(Net) PROVE BufferInv'
    BY <2>5, ThreadBuffer, ThreadSets
  <2> QED
    BY <1>1, <1>4, <2>1, <2>2, <2>3, <2>4, <2>5 DEF NetStep
<1>5. CASE \E t \in Workers : ThreadStep(t)
  BY <1>5, ThreadBuffer, ThreadSets
<1> QED
  BY <1>1, <1>2, <1>3, <1>4, <1>5 DEF Next

(* The invariant holds initially.                                          *)
LEMMA InitBuffer == Init => BufferInv
<1> SUFFICES ASSUME Init PROVE BufferInv
  OBVIOUS
<1>1. (\A t \in Threads : thr[t].pc = "none") /\ Net \in Threads /\ issued = <<>> /\ ToSet(<<>>) = {}
  BY ThreadSets, ToSetIs DEF Init, Threads, Stopped, At
<1>2. NoShutdown
  BY <1>1 DEF Init, NoShutdown, IsIssued, Pools
<1>3. JobKinds
  BY <1>1 DEF JobKinds
<1>4. BufferIs
  BY <1>1, DiskAssumption DEF BufferIs, Pending, IsIssued, Init
<1> QED
  BY <1>2, <1>3, <1>4 DEF BufferInv

(* The same, as an implication.                                            *)
LEMMA StepBuffer ==
    ASSUME Undisturbed
    PROVE  DInv /\ DiskTypes /\ BufferInv /\ [Next]_vars => BufferInv'
  BY NextBuffer DEF DiskTypes

(* The store buffer has an entry for exactly the writes that are still to  *)
(* be done, so that store_buffer::erase finds the entry of its own write;  *)
(* while the session is not shut down and no file operation throws.        *)
THEOREM StoreBufferIsExact ==
    ASSUME Undisturbed
    PROVE  Spec => []StoreBufferExact
<1>1. DInv /\ DiskTypes /\ BufferInv /\ [Next]_vars => BufferInv'
  BY StepBuffer
<1>2. DInv /\ BufferInv => StoreBufferExact
  BY BufferIsExact DEF BufferInv
<1> QED
  BY <1>1, <1>2, InitBuffer, DiskTypesHold, PTL DEF Spec

-----------------------------------------------------------------------------
(***************************************************************************)
(* Reads and hashes, under the same conditions.                            *)
(***************************************************************************)
Checked == ReadJobs \union HashJobs

(* x was written no earlier than w.                                        *)
Sees(x, w) == x # Nothing /\ Pos(x) >= Pos(w)

(* What job j has seen of block b is not older than the writes of b issued *)
(* before j; or these writes need no longer be looked for in the store     *)
(* buffer.                                                                 *)
Good(j, b) ==
    \A w \in WriteJobs :
        Earlier(w, j) /\ ret[w] \in {"none", "ok"} /\ b \in BlocksOf[w] => Sees(data[j][b], w)

OnDisk(j, b) == \A w \in WriteJobs : Earlier(w, j) /\ b \in BlocksOf[w] => ret[w] # "none"

StoredIsIssued ==
    /\ \A b \in Blocks : disk[b] # Nothing => IsIssued(disk[b])
    /\ \A j \in Checked, b \in Blocks : data[j][b] # Nothing => IsIssued(data[j][b])

(* The files hold the last of the writes that are done, the store buffer   *)
(* the last of all.                                                        *)
DiskIsNewest ==
    \A w \in WriteJobs, b \in Blocks : b \in BlocksOf[w] /\ ret[w] = "ok" => Sees(disk[b], w)

BufferIsNewest ==
    \A w \in WriteJobs, b \in Blocks :
        b \in BlocksOf[w] /\ IsIssued(w) /\ m_store_buffer[b] # Nothing => Sees(m_store_buffer[b], w)

Answered(j) == ret[j] = "ok" => \A b \in BlocksOf[j] : Good(j, b)

(* A read that has not been done has found its blocks in the store buffer, *)
(* or they are on disk.                                                    *)
ReadReady(j) ==
    j \in ReadJobs /\ ret[j] = "none" =>
        \A b \in BlocksOf[j] : Good(j, b) \/ (data[j][b] = Nothing /\ OnDisk(j, b))

(* A block that do_hash did not find in the store buffer is on disk.       *)
HashGoes(t) ==
    /\ thr[t].pc \in {"hash", "hash_file"} =>
          \A b \in BlocksOf[thr[t].jobs[1]] \ thr[t].left : Good(thr[t].jobs[1], b)
    /\ thr[t].pc = "hash_file" => OnDisk(thr[t].jobs[1], NextBlock(t))

ReadInv ==
    /\ StoredIsIssued /\ DiskIsNewest /\ BufferIsNewest
    /\ \A j \in Checked : Answered(j) /\ ReadReady(j)
    /\ \A t \in Threads : HashGoes(t)

(* The invariant says what ReadsSeeWrites says.                            *)
LEMMA ReadInvSees ==
    ASSUME ReadInv
    PROVE  ReadsSeeWrites
  BY DEF ReadInv, ReadsSeeWrites, Answered, Good, Sees, Checked

(* The order of the jobs issued so far never changes, and a write keeps    *)
(* its result.                                                             *)
Stable ==
    /\ issued' = issued \/ \E k \in Jobs : ~ IsIssued(k) /\ issued' = Append(issued, k)
    /\ \A w \in WriteJobs : ret[w] # "none" => ret'[w] = ret[w]

(* The new job comes last; the others keep their positions.                *)
LEMMA PosJoin ==
    ASSUME DInv, NEW k, k \in Jobs, ~ IsIssued(k), issued' = Append(issued, k)
    PROVE  /\ \A j \in ToSet(issued) : Pos(j)' = Pos(j) /\ Pos(j) \in 1..Len(issued)
           /\ Pos(k)' = Len(issued) + 1 /\ Len(issued) \in Nat
           /\ ToSet(issued') = ToSet(issued) \union {k}
<1>1. issued \in Seq(Jobs) /\ IsInjective(issued) /\ k \notin ToSet(issued)
  BY DEF DInv, Order, IsIssued
<1>2. /\ Len(issued) \in Nat /\ DOMAIN issued' = 1..(Len(issued) + 1) /\ issued'[Len(issued) + 1] = k
      /\ \A i \in 1..Len(issued) : issued'[i] = issued[i]
      /\ ToSet(issued') = ToSet(issued) \union {k} /\ IsInjective(issued')
  BY <1>1, JoinIs
<1>3. ASSUME NEW j, NEW i \in DOMAIN issued', issued'[i] = j PROVE Pos(j)' = i
  <2>1. \A n \in DOMAIN issued' : issued'[n] = j <=> n = i
    BY <1>2, <1>3 DEF IsInjective
  <2> QED
    BY <1>3, <2>1 DEF Pos
<1>4. \A j \in ToSet(issued) : Pos(j) \in 1..Len(issued) /\ issued[Pos(j)] = j
  BY PosIs
<1>5. ASSUME NEW j \in ToSet(issued) PROVE Pos(j)' = Pos(j)
  <2>1. PICK i : i = Pos(j)
    OBVIOUS
  <2>2. i \in DOMAIN issued' /\ issued'[i] = j
    BY <1>2, <1>4, <2>1
  <2> QED
    BY <1>3, <2>1, <2>2
<1>6. Len(issued) + 1 \in DOMAIN issued'
  BY <1>2
<1>7. Pos(k)' = Len(issued) + 1
  BY <1>2, <1>3, <1>6
<1> QED
  BY <1>2, <1>4, <1>5, <1>7

(* Jobs stay issued, in the same order; no job comes before one that was   *)
(* issued already.                                                         *)
LEMMA OrderKept ==
    ASSUME DInv, Stable
    PROVE  /\ \A j \in Jobs : IsIssued(j) => IsIssued(j)' /\ Pos(j)' = Pos(j) /\ Pos(j) \in Nat
           /\ \A i, j \in Jobs : IsIssued(j) /\ Earlier(i, j)' => Earlier(i, j)
<1>1. CASE issued' = issued
  <2>1. \A j \in ToSet(issued) : Pos(j) \in Nat
    BY PosIs
  <2>2. ASSUME NEW j \in Jobs PROVE (IsIssued(j)' <=> IsIssued(j)) /\ Pos(j)' = Pos(j)
    BY <1>1 DEF IsIssued, Pos
  <2> QED
    BY <2>1, <2>2 DEF Earlier, IsIssued
<1>2. ASSUME NEW k \in Jobs, ~ IsIssued(k), issued' = Append(issued, k)
      PROVE  /\ \A j \in Jobs : IsIssued(j) => IsIssued(j)' /\ Pos(j)' = Pos(j) /\ Pos(j) \in Nat
             /\ \A i, j \in Jobs : IsIssued(j) /\ Earlier(i, j)' => Earlier(i, j)
  <2>1. /\ \A j \in ToSet(issued) : Pos(j)' = Pos(j) /\ Pos(j) \in 1..Len(issued)
        /\ Pos(k)' = Len(issued) + 1 /\ Len(issued) \in Nat
        /\ ToSet(issued') = ToSet(issued) \union {k}
    BY <1>2, PosJoin
  <2>2. \A j \in Jobs : IsIssued(j) => IsIssued(j)' /\ Pos(j)' = Pos(j) /\ Pos(j) \in 1..Len(issued)
    BY <2>1 DEF IsIssued
  <2>3. ASSUME NEW i \in Jobs, NEW j \in Jobs, IsIssued(j), Earlier(i, j)' PROVE Earlier(i, j)
    <3>1. IsIssued(i)' /\ Pos(i)' < Pos(j)'
      BY <2>3 DEF Earlier
    <3>2. Pos(j)' = Pos(j) /\ Pos(j) \in 1..Len(issued)
      BY <2>2, <2>3
    <3>3. i # k
      BY <2>1, <3>1, <3>2
    <3>4. IsIssued(i)
      BY <2>1, <3>1, <3>3 DEF IsIssued
    <3>5. Pos(i)' = Pos(i)
      BY <2>2, <3>4
    <3> QED
      BY <2>3, <3>1, <3>2, <3>4, <3>5 DEF Earlier
  <2> QED
    BY <2>1, <2>2, <2>3
<1> QED
  BY <1>1, <1>2 DEF Stable

(* The last job issued is later than all.                                  *)
LEMMA LastIsLatest ==
    ASSUME DInv, NEW k, k \in Jobs, ~ IsIssued(k), issued' = Append(issued, k)
    PROVE  \A w \in Jobs : IsIssued(w)' => Pos(w)' <= Pos(k)'
<1>1. /\ \A j \in ToSet(issued) : Pos(j)' = Pos(j) /\ Pos(j) \in 1..Len(issued)
      /\ Pos(k)' = Len(issued) + 1 /\ Len(issued) \in Nat
      /\ ToSet(issued') = ToSet(issued) \union {k}
  BY PosJoin
<1> QED
  BY <1>1 DEF IsIssued

(* A value that is not older than a write stays so.                        *)
LEMMA SeesKept ==
    ASSUME DInv, Stable, NEW x, x \in WriteJobs => IsIssued(x), x \in Stored, NEW w, w \in WriteJobs, IsIssued(w),
           Sees(x, w)
    PROVE  Sees(x, w)'
<1>1. x \in WriteJobs /\ x \in Jobs /\ w \in Jobs
  BY DEF Sees, Stored, Jobs
<1>2. Pos(x)' = Pos(x) /\ Pos(w)' = Pos(w)
  BY <1>1, OrderKept
<1> QED
  BY <1>2 DEF Sees

(* What a job has seen stays good.                                         *)
LEMMA GoodKept ==
    ASSUME DInv, FileTypes, Stable, StoredIsIssued, NEW j, j \in Checked, IsIssued(j) \/ ~ IsIssued(j)',
           NEW b, b \in Blocks, data'[j][b] = data[j][b], Good(j, b)
    PROVE  Good(j, b)'
<1> SUFFICES ASSUME NEW w \in WriteJobs, Earlier(w, j)', ret'[w] \in {"none", "ok"}, b \in BlocksOf[w]
             PROVE  Sees(data[j][b], w)'
  BY DEF Good, Sees
<1>1. j \in Jobs /\ w \in Jobs /\ data[j][b] \in Stored
  BY DEF Jobs, Checked, FileTypes
<1>2. IsIssued(j) /\ Earlier(w, j) /\ IsIssued(w)
  BY <1>1, OrderKept DEF Earlier
<1>3. ret[w] \in {"none", "ok"}
  BY DEF Stable
<1>4. Sees(data[j][b], w)
  BY <1>2, <1>3 DEF Good
<1>5. PICK x : x = data[j][b]
  OBVIOUS
<1>6. x \in Stored /\ (x \in WriteJobs => IsIssued(x)) /\ Sees(x, w)
  BY <1>1, <1>4, <1>5, DiskAssumption DEF StoredIsIssued
<1>7. Sees(x, w)'
  BY <1>2, <1>6, SeesKept
<1> QED
  BY <1>5, <1>7 DEF Sees

(* Writes that are done stay done.                                         *)
LEMMA OnDiskKept ==
    ASSUME DInv, Stable, NEW j, j \in Checked, IsIssued(j) \/ ~ IsIssued(j)', NEW b, OnDisk(j, b)
    PROVE  OnDisk(j, b)'
<1> SUFFICES ASSUME NEW w \in WriteJobs, Earlier(w, j)', b \in BlocksOf[w] PROVE ret'[w] # "none"
  BY DEF OnDisk
<1>1. Earlier(w, j)
  BY OrderKept DEF Earlier, Jobs, Checked
<1> QED
  BY <1>1 DEF OnDisk, Stable

(* What does not concern job j keeps what is known of it.                  *)
LEMMA JobKept ==
    ASSUME DInv, FileTypes, Stable, StoredIsIssued, NEW j, j \in Checked, Answered(j), ReadReady(j),
           IsIssued(j) \/ ~ IsIssued(j)', data'[j] = data[j], ret'[j] = ret[j] \/ ret'[j] \in {"failed", "aborted"}
    PROVE  Answered(j)' /\ ReadReady(j)'
<1>0. BlocksOf[j] \subseteq Blocks
  BY DiskAssumption DEF Checked, Jobs
<1>1. ASSUME NEW b \in BlocksOf[j], Good(j, b) PROVE Good(j, b)'
  BY <1>0, <1>1, GoodKept
<1>2. ASSUME NEW b \in BlocksOf[j], OnDisk(j, b) PROVE OnDisk(j, b)'
  BY <1>2, OnDiskKept
<1>3. Answered(j)'
  BY <1>1 DEF Answered
<1>4. ReadReady(j)'
  BY <1>1, <1>2 DEF ReadReady
<1> QED
  BY <1>3, <1>4

(* A thread in do_hash works on a hash job that was issued, and no other   *)
(* thread has it.                                                          *)
LEMMA HashingJob ==
    ASSUME DInv, JobKinds, NEW t, t \in Threads, thr[t].pc \in {"hash", "hash_file"}
    PROVE  /\ thr[t].jobs = <<thr[t].jobs[1]>> /\ thr[t].jobs[1] \in HashJobs /\ IsIssued(thr[t].jobs[1])
           /\ \A u \in Threads : u # t => thr[u].jobs # thr[t].jobs
           /\ ret[thr[t].jobs[1]] = "none"
<1>0. /\ thr \in [Threads -> ThreadState] /\ thr[t].jobs \in Seq(Jobs) /\ InShape(t, thr[t]) /\ ListTypes
      /\ OnePlace(Held) /\ ResultsExact /\ HashJobs \subseteq Jobs
  BY DEF DInv, ListTypes, ThreadState, ThreadShape, Jobs
<1>1. PICK j : j = thr[t].jobs[1]
  OBVIOUS
<1>2. j \in HashJobs /\ j \in Jobs
  BY <1>0, <1>1 DEF JobKinds
<1>3. thr[t].jobs = <<j>>
  BY <1>0, <1>1 DEF InShape, Early
<1>4. ToSet(thr[t].jobs) = {j}
  BY <1>2, <1>3, ToSetIs
<1>5. \A u \in Threads : u # t => thr[u].jobs # thr[t].jobs
  BY <1>0, <1>4, Alone
<1>6. j \in Waiting
  <2>1. j \in WaitingOf(thr[t])
    BY <1>4 DEF WaitingOf, Early
  <2> QED
    BY <2>1 DEF Waiting
<1>7. IsIssued(j) /\ ret[j] = "none"
  BY <1>0, <1>2, <1>6, WaitingIsIssued DEF ResultsExact, IsIssued
<1> QED
  BY <1>1, <1>2, <1>3, <1>5, <1>7

(* A thread in do_hash that does not move keeps what it has found.         *)
LEMMA HashKept ==
    ASSUME DInv, FileTypes, JobKinds, Stable, StoredIsIssued, NEW t, t \in Threads, HashGoes(t), thr'[t] = thr[t],
           thr[t].pc \in {"hash", "hash_file"} => data'[thr[t].jobs[1]] = data[thr[t].jobs[1]]
    PROVE  HashGoes(t)'
<1> SUFFICES ASSUME thr[t].pc \in {"hash", "hash_file"} PROVE HashGoes(t)'
  BY DEF HashGoes
<1>1. PICK j : j = thr[t].jobs[1]
  OBVIOUS
<1>2. j \in HashJobs /\ IsIssued(j) /\ j \in Checked
  BY <1>1, HashingJob DEF Checked
<1>3. BlocksOf[j] \subseteq Blocks
  BY <1>2, DiskAssumption DEF Jobs
<1>4. ASSUME NEW b \in BlocksOf[j] \ thr[t].left PROVE Good(j, b)'
  <2>1. Good(j, b) /\ data'[j][b] = data[j][b]
    BY <1>1, <1>4 DEF HashGoes
  <2> QED
    BY <1>2, <1>3, <2>1, GoodKept
<1>5. NextBlock(t)' = NextBlock(t)
  BY DEF NextBlock
<1>6. ASSUME thr[t].pc = "hash_file" PROVE OnDisk(j, NextBlock(t))'
  <2>1. PICK b : b = NextBlock(t)
    OBVIOUS
  <2>2. OnDisk(j, b)
    BY <1>1, <1>6, <2>1 DEF HashGoes
  <2>3. OnDisk(j, b)'
    BY <1>2, <2>2, OnDiskKept
  <2> QED
    BY <1>5, <2>1, <2>3 DEF OnDisk
<1> QED
  BY <1>1, <1>4, <1>6 DEF HashGoes

(* The files and the store buffer, in a step that stores no block.         *)
LEMMA StoredKept ==
    ASSUME DInv, FileTypes, BufferInv, Stable, DiskIsNewest, BufferIsNewest, StoredIsIssued,
           disk' = disk, \A w \in WriteJobs : ret'[w] = "ok" => ret[w] = "ok",
           \A b \in Blocks : m_store_buffer'[b] = m_store_buffer[b] \/ m_store_buffer'[b] = Nothing,
           \A w \in WriteJobs : IsIssued(w)' => IsIssued(w)
    PROVE  DiskIsNewest' /\ BufferIsNewest'
<1>0. WriteJobs \subseteq Jobs /\ BufferIs /\ ResultsExact
  BY DEF Jobs, BufferInv, DInv
<1>1. ASSUME NEW w \in WriteJobs, NEW b \in Blocks, b \in BlocksOf[w], ret'[w] = "ok"
      PROVE  Sees(disk[b], w)'
  <2>1. PICK x : x = disk[b]
    OBVIOUS
  <2>2. Sees(x, w) /\ x \in Stored /\ (x \in WriteJobs => IsIssued(x)) /\ IsIssued(w)
    BY <1>0, <1>1, <2>1, DiskAssumption DEF DiskIsNewest, FileTypes, StoredIsIssued, ResultsExact
  <2>3. Sees(x, w)'
    BY <2>2, SeesKept
  <2> QED
    BY <2>1, <2>3 DEF Sees
<1>2. ASSUME NEW w \in WriteJobs, NEW b \in Blocks, b \in BlocksOf[w], IsIssued(w)', m_store_buffer'[b] # Nothing
      PROVE  Sees(m_store_buffer[b], w)'
  <2>1. PICK x : x = m_store_buffer[b]
    OBVIOUS
  <2>2. Sees(x, w) /\ x \in Stored /\ (x \in WriteJobs => IsIssued(x)) /\ IsIssued(w)
    BY <1>0, <1>2, <2>1 DEF BufferIsNewest, FileTypes, BufferIs, Pending
  <2>3. Sees(x, w)' /\ m_store_buffer'[b] = m_store_buffer[b]
    BY <1>2, <2>2, SeesKept
  <2> QED
    BY <2>1, <2>3 DEF Sees
<1> QED
  BY <1>1, <1>2 DEF DiskIsNewest, BufferIsNewest

(* A step that neither issues a job nor stores or looks at a block.        *)
LEMMA ReadsUndisturbed ==
    ASSUME DInv, FileTypes, BufferInv, ReadInv, UNCHANGED <<issued, disk, data>>,
           \A w \in WriteJobs : ret'[w] = ret[w] \/ (ret[w] = "none" /\ ret'[w] = "failed"),
           \A j \in Checked : ret'[j] = ret[j] \/ ret'[j] \in {"failed", "aborted"},
           \A b \in Blocks : m_store_buffer'[b] = m_store_buffer[b] \/ m_store_buffer'[b] = Nothing,
           \A t \in Threads : thr'[t] = thr[t] \/ HashGoes(t)'
    PROVE  ReadInv'
<1>0. StoredIsIssued /\ DiskIsNewest /\ BufferIsNewest /\ Stable /\ JobKinds
  BY DEF ReadInv, Stable, BufferInv
<1>1. \A j \in Jobs : IsIssued(j)' <=> IsIssued(j)
  BY DEF IsIssued
<1>2. StoredIsIssued'
  BY <1>0 DEF StoredIsIssued, IsIssued
<1>3. DiskIsNewest' /\ BufferIsNewest'
  BY <1>0, <1>1, StoredKept DEF Jobs
<1>4. ASSUME NEW j \in Checked PROVE Answered(j)' /\ ReadReady(j)'
  <2>1. Answered(j) /\ ReadReady(j) /\ data'[j] = data[j] /\ (IsIssued(j) \/ ~ IsIssued(j)')
    BY <1>1, <1>4 DEF ReadInv, Checked, Jobs
  <2> QED
    BY <1>0, <1>4, <2>1, JobKept
<1>5. ASSUME NEW t \in Threads PROVE HashGoes(t)'
  <2>1. HashGoes(t) /\ (thr[t].pc \in {"hash", "hash_file"} => data'[thr[t].jobs[1]] = data[thr[t].jobs[1]])
    BY <1>5 DEF ReadInv
  <2>2. CASE thr'[t] = thr[t]
    BY <1>0, <1>5, <2>1, <2>2, HashKept
  <2> QED
    BY <1>5, <2>2
<1> QED
  BY <1>2, <1>3, <1>4, <1>5 DEF ReadInv

(* A step that does not touch the files keeps the invariant.               *)
LEMMA QuietReads ==
    ASSUME DInv, FileTypes, BufferInv, ReadInv, QuietFrame
    PROVE  ReadInv'
<1>1. ASSUME NEW t \in Threads, thr'[t].pc \notin {"hash", "hash_file"} PROVE HashGoes(t)'
  BY <1>1 DEF HashGoes
<1>2. \A t \in Threads : thr'[t] = thr[t] \/ HashGoes(t)'
  BY <1>1 DEF QuietFrame
<1> QED
  BY <1>2, ReadsUndisturbed DEF QuietFrame

(* execute_job, when no block is stored or looked at.                      *)
LEMMA ExecuteQuietly ==
    ASSUME DInv, FileTypes, BufferInv, ReadInv, NEW t, t \in Threads, NEW j, j \in Jobs,
           NEW pc, pc \in {"erase", "complete"}, GoesOn(t, pc), UNCHANGED <<issued, disk, data>>,
           \A b \in Blocks : m_store_buffer'[b] = m_store_buffer[b] \/ m_store_buffer'[b] = Nothing,
           \/ ret' = ret
           \/ \E x : /\ ret' = [ret EXCEPT ![j] = x]
                     /\ j \in WriteJobs => ret[j] = "none" /\ x = "failed"
                     /\ j \in Checked => x \in {"failed", "aborted"}
    PROVE  ReadInv'
<1>0. thr \in [Threads -> ThreadState] /\ thr[t] \in ThreadState /\ ret \in [Jobs -> Results]
  BY DEF DInv, ListTypes
<1>1. thr'[t].pc = pc /\ \A u \in Threads : u # t => thr'[u] = thr[u]
  BY <1>0 DEF GoesOn, ThreadState
<1>2. HashGoes(t)'
  BY <1>1 DEF HashGoes
<1>3. \A u \in Threads : thr'[u] = thr[u] \/ HashGoes(u)'
  BY <1>1, <1>2
<1>4. \A k \in Jobs : \/ ret'[k] = ret[k]
                      \/ /\ k \in WriteJobs => ret[k] = "none" /\ ret'[k] = "failed"
                         /\ k \in Checked => ret'[k] \in {"failed", "aborted"}
  BY <1>0
<1>5. /\ \A w \in WriteJobs : ret'[w] = ret[w] \/ (ret[w] = "none" /\ ret'[w] = "failed")
      /\ \A k \in Checked : ret'[k] = ret[k] \/ ret'[k] \in {"failed", "aborted"}
  BY <1>4 DEF Jobs, Checked
<1> QED
  BY <1>3, <1>5, ReadsUndisturbed

(* do_hash starts with all blocks to go.                                   *)
LEMMA StartHashReads ==
    ASSUME DInv, FileTypes, BufferInv, ReadInv, NEW t, t \in Threads, NEW j, StartHash(t, j)
    PROVE  ReadInv'
<1>0. thr \in [Threads -> ThreadState] /\ thr[t] \in ThreadState
  BY DEF DInv, ListTypes
<1>1. /\ thr'[t].pc = "hash" /\ thr'[t].left = BlocksOf[j] /\ thr'[t].jobs = <<j>>
      /\ \A u \in Threads : u # t => thr'[u] = thr[u]
  BY <1>0 DEF StartHash, ThreadState, Running
<1>2. HashGoes(t)'
  BY <1>1 DEF HashGoes
<1>3. \A u \in Threads : thr'[u] = thr[u] \/ HashGoes(u)'
  BY <1>1, <1>2
<1>4. UNCHANGED <<issued, disk, data, ret, m_store_buffer>>
  BY DEF StartHash, execUnchanged, fileVars
<1> QED
  BY <1>3, <1>4, ReadsUndisturbed

(* do_hash does not find its next block in the store buffer: all writes of *)
(* it are done.                                                            *)
LEMMA LookupMisses ==
    ASSUME DInv, FileTypes, BufferInv, ReadInv, HashHasBlock, NEW t, t \in Threads, NEW j, HashLookup(t, j),
           m_store_buffer[NextBlock(t)] = Nothing
    PROVE  ReadInv'
<1>0. /\ thr \in [Threads -> ThreadState] /\ thr[t] \in ThreadState /\ thr[t].jobs = <<j>> /\ thr[t].pc = "hash"
      /\ BufferIs /\ JobKinds /\ StoredIsIssued /\ HashGoes(t) /\ thr[t].jobs[1] = j
  BY DEF DInv, ListTypes, HashLookup, Running, BufferInv, ReadInv
<1>1. /\ UNCHANGED <<issued, disk, data, ret, m_store_buffer>> /\ GoesOn(t, "hash_file")
  BY DEF HashLookup, execUnchanged
<1>2. /\ thr'[t].pc = "hash_file" /\ thr'[t].left = thr[t].left /\ thr'[t].jobs = thr[t].jobs
      /\ \A u \in Threads : u # t => thr'[u] = thr[u]
  BY <1>0, <1>1 DEF GoesOn, ThreadState
<1>3. PICK b : b = NextBlock(t)
  OBVIOUS
<1>4. b \in Blocks
  <2>1. thr[t].left \subseteq Blocks /\ thr[t].left # {}
    BY <1>0 DEF ThreadState, HashHasBlock
  <2> QED
    BY <1>3, <2>1, NextBlockIs
<1>5. ASSUME NEW w \in WriteJobs, Earlier(w, j), b \in BlocksOf[w] PROVE ret[w] # "none"
  <2>1. m_store_buffer[b] # w
    BY <1>3, <1>5, DiskAssumption
  <2> QED
    BY <1>0, <1>4, <1>5, <2>1 DEF BufferIs, Pending, Earlier
<1>6. OnDisk(j, b)'
  BY <1>1, <1>5 DEF OnDisk, Earlier, IsIssued, Pos
<1>7. NextBlock(t)' = b
  BY <1>2, <1>3 DEF NextBlock
<1>8. ASSUME NEW c \in BlocksOf[j] \ thr[t].left PROVE Good(j, c)'
  <2>1. Good(j, c)
    BY <1>0, <1>8 DEF HashGoes
  <2> QED
    BY <1>1, <2>1 DEF Good, Earlier, IsIssued, Pos, Sees
<1>9. HashGoes(t)'
  <2>1. OnDisk(j, NextBlock(t))'
    BY <1>6, <1>7 DEF OnDisk
  <2> QED
    BY <1>0, <1>2, <1>8, <2>1 DEF HashGoes
<1>10. \A u \in Threads : thr'[u] = thr[u] \/ HashGoes(u)'
  BY <1>2, <1>9
<1> QED
  BY <1>1, <1>10, ReadsUndisturbed

(* What is known of all jobs but x and the thread that has x in hand.      *)
LEMMA OthersKept ==
    ASSUME DInv, FileTypes, BufferInv, ReadInv, Stable, NEW x,
           \A j \in Checked : j # x => /\ data'[j] = data[j] /\ (IsIssued(j) \/ ~ IsIssued(j)')
                                       /\ ret'[j] = ret[j] \/ ret'[j] \in {"failed", "aborted"},
           x \in Checked => Answered(x)' /\ ReadReady(x)',
           \A t \in Threads : (thr'[t] = thr[t] /\ thr[t].jobs # <<x>>) \/ HashGoes(t)'
    PROVE  /\ \A j \in Checked : Answered(j)' /\ ReadReady(j)'
           /\ \A t \in Threads : HashGoes(t)'
<1>0. StoredIsIssued /\ JobKinds
  BY DEF ReadInv, BufferInv
<1>1. ASSUME NEW j \in Checked PROVE Answered(j)' /\ ReadReady(j)'
  <2>1. CASE j # x
    <3>1. Answered(j) /\ ReadReady(j)
      BY <1>1 DEF ReadInv
    <3> QED
      BY <1>0, <1>1, <2>1, <3>1, JobKept
  <2> QED
    BY <1>1, <2>1
<1>2. ASSUME NEW t \in Threads, thr'[t] = thr[t], thr[t].jobs # <<x>> PROVE HashGoes(t)'
  <2>1. ASSUME thr[t].pc \in {"hash", "hash_file"} PROVE data'[thr[t].jobs[1]] = data[thr[t].jobs[1]]
    <3>1. PICK j : j = thr[t].jobs[1]
      OBVIOUS
    <3>2. thr[t].jobs = <<j>> /\ j \in Checked
      BY <1>0, <1>2, <2>1, <3>1, HashingJob DEF Checked
    <3>3. j # x
      BY <1>2, <3>2
    <3> QED
      BY <3>1, <3>2, <3>3
  <2>2. HashGoes(t)
    BY <1>2 DEF ReadInv
  <2> QED
    BY <1>0, <1>2, <2>1, <2>2, HashKept
<1> QED
  BY <1>1, <1>2

(* do_write replaces an older write.                                       *)
LEMMA WriteReads ==
    ASSUME DInv, FileTypes, BufferInv, ReadInv, Undisturbed, NEW t, t \in Threads, NEW w, WriteBlock(t, w),
           disk' = [b \in Blocks |-> IF b \in BlocksOf[w] THEN w ELSE disk[b]], ret' = [ret EXCEPT ![w] = "ok"],
           GoesOn(t, "erase")
    PROVE  ReadInv'
<1>0. /\ thr \in [Threads -> ThreadState] /\ thr[t] \in ThreadState /\ ret \in [Jobs -> Results] /\ JobKinds
      /\ BufferIs /\ StoredIsIssued /\ DiskIsNewest /\ BufferIsNewest /\ WriteJobs \subseteq Jobs /\ ResultsExact
      /\ Checked \subseteq Jobs /\ Checked \intersect WriteJobs = {}
  BY DiskAssumption DEF DInv, ListTypes, BufferInv, ReadInv, Jobs, Checked
<1>1. ret[w] = "none" /\ IsIssued(w) /\ w \in WriteJobs
  BY WriteBuffer
<1>2. UNCHANGED <<issued, data, m_store_buffer>>
  BY DEF WriteBlock, execUnchanged
<1>3. BlocksOf[w] \subseteq Blocks
  BY <1>1, DiskAssumption
<1>4. Stable
  BY <1>0, <1>1, <1>2 DEF Stable
<1>5. thr'[t].pc = "erase" /\ \A u \in Threads : u # t => thr'[u] = thr[u]
  BY <1>0 DEF GoesOn, ThreadState
<1>6. \A j \in Jobs : IsIssued(j)' <=> IsIssued(j)
  BY <1>2 DEF IsIssued
<1>7. StoredIsIssued'
  <2>1. \A b \in Blocks : disk'[b] # Nothing => IsIssued(disk'[b])
    BY <1>0, <1>1 DEF StoredIsIssued
  <2> QED
    BY <1>0, <1>2, <2>1 DEF StoredIsIssued, IsIssued
<1>8. ASSUME NEW v \in WriteJobs, NEW b \in Blocks, b \in BlocksOf[v], ret'[v] = "ok"
      PROVE  Sees(disk'[b], v)
  <2>1. IsIssued(v)
    <3>1. v = w \/ ret[v] = "ok"
      BY <1>0, <1>8
    <3> QED
      BY <1>0, <1>1, <3>1 DEF ResultsExact
  <2>2. CASE b \in BlocksOf[w]
    <3>1. m_store_buffer[b] = w /\ w # Nothing
      BY <1>0, <1>1, <1>8, <2>2, DiskAssumption DEF BufferIs, Pending
    <3>2. Sees(w, v)
      BY <1>0, <1>8, <2>1, <3>1 DEF BufferIsNewest
    <3> QED
      BY <1>8, <2>2, <3>2
  <2>3. CASE b \notin BlocksOf[w]
    <3>1. ret[v] = "ok" /\ disk'[b] = disk[b]
      BY <1>0, <1>8, <2>3
    <3> QED
      BY <1>0, <1>8, <3>1 DEF DiskIsNewest
  <2> QED
    BY <2>2, <2>3
<1>9. DiskIsNewest'
  BY <1>2, <1>8 DEF DiskIsNewest, Sees, Pos
<1>10. BufferIsNewest'
  BY <1>0, <1>2 DEF BufferIsNewest, Sees, Pos, IsIssued
<1>11. (\A j \in Checked : Answered(j)' /\ ReadReady(j)') /\ \A u \in Threads : HashGoes(u)'
  <2>1. ASSUME NEW u \in Threads PROVE (thr'[u] = thr[u] /\ thr[u].jobs # <<w>>) \/ HashGoes(u)'
    <3>1. CASE u = t
      BY <1>5, <3>1 DEF HashGoes
    <3>2. CASE u # t /\ thr[u].pc \in {"hash", "hash_file"}
      <4>1. thr[u].jobs[1] \in HashJobs
        BY <1>0, <2>1, <3>2 DEF JobKinds
      <4>2. <<w>>[1] = w /\ w \notin HashJobs
        BY <1>1, DiskAssumption
      <4> QED
        BY <1>5, <2>1, <3>2, <4>1, <4>2
    <3>3. CASE u # t /\ thr[u].pc \notin {"hash", "hash_file"}
      BY <1>5, <2>1, <3>3 DEF HashGoes
    <3> QED
      BY <3>1, <3>2, <3>3
  <2>2. \A j \in Checked : /\ data'[j] = data[j] /\ (IsIssued(j) \/ ~ IsIssued(j)') /\ ret'[j] = ret[j]
    BY <1>0, <1>1, <1>2, <1>6
  <2>3. w \notin Checked
    BY <1>0, <1>1
  <2> QED
    BY <1>4, <2>1, <2>2, <2>3, OthersKept
<1> QED
  BY <1>7, <1>9, <1>10, <1>11 DEF ReadInv

(* In a step of a thread that only looks at blocks.                        *)
LEMMA LookingKeeps ==
    ASSUME DInv, FileTypes, BufferInv, ReadInv, NEW t, t \in Threads, NEW j, j \in Checked, Running(t, j),
           UNCHANGED <<issued, m_store_buffer, disk>>, \A u \in Threads : u # t => thr'[u] = thr[u],
           \A k \in Jobs : k # j => ret'[k] = ret[k],
           \A k \in Checked : k # j => data'[k] = data[k],
           \A b \in Blocks : data'[j][b] # Nothing => IsIssued(data'[j][b]),
           Answered(j)', ReadReady(j)', HashGoes(t)'
    PROVE  ReadInv'
<1>0. /\ StoredIsIssued /\ DiskIsNewest /\ BufferIsNewest /\ WriteJobs \subseteq Jobs /\ JobKinds
      /\ Checked \subseteq Jobs /\ Checked \intersect WriteJobs = {} /\ ListTypes /\ OnePlace(Held)
  BY DiskAssumption DEF DInv, BufferInv, ReadInv, Jobs, Checked
<1>1. Stable /\ \A w \in WriteJobs : ret'[w] = ret[w]
  BY <1>0 DEF Stable
<1>2. \A k \in Jobs : IsIssued(k)' <=> IsIssued(k)
  BY DEF IsIssued
<1>3. StoredIsIssued'
  <2>1. \A k \in Checked, b \in Blocks : data'[k][b] # Nothing => IsIssued(data'[k][b])
    BY <1>0 DEF StoredIsIssued
  <2> QED
    BY <1>0, <2>1 DEF StoredIsIssued, IsIssued
<1>4. DiskIsNewest' /\ BufferIsNewest'
  BY <1>0, <1>1, <1>2, StoredKept
<1>5. \A u \in Threads : (thr'[u] = thr[u] /\ thr[u].jobs # <<j>>) \/ HashGoes(u)'
  <2>1. j \in ToSet(thr[t].jobs) /\ ToSet(<<j>>) = {j}
    BY <1>0, ToSetIs DEF Running
  <2> QED
    BY <1>0, <2>1, Alone
<1>6. (\A k \in Checked : Answered(k)' /\ ReadReady(k)') /\ \A u \in Threads : HashGoes(u)'
  <2>1. \A k \in Checked : k # j => /\ data'[k] = data[k] /\ (IsIssued(k) \/ ~ IsIssued(k)')
                                    /\ ret'[k] = ret[k]
    BY <1>0, <1>2
  <2> QED
    BY <1>1, <1>5, <2>1, OthersKept
<1> QED
  BY <1>3, <1>4, <1>6 DEF ReadInv

(* do_read: a block that async_read did not find is on disk.               *)
LEMMA ReadBlocksReads ==
    ASSUME DInv, FileTypes, BufferInv, ReadInv, NEW t, t \in Threads, NEW j, ReadBlocks(t, j),
           ret' = [ret EXCEPT ![j] = "ok"],
           data' = [data EXCEPT ![j] = [b \in Blocks |-> IF b \in BlocksOf[j] /\ @[b] = Nothing
                                                         THEN disk[b] ELSE @[b]]]
    PROVE  ReadInv'
<1>0. /\ thr \in [Threads -> ThreadState] /\ thr[t] \in ThreadState /\ ret \in [Jobs -> Results]
      /\ StoredIsIssued /\ DiskIsNewest /\ ResultsExact /\ WriteJobs \subseteq Jobs
  BY DEF DInv, ListTypes, ReadInv, Jobs
<1>1. /\ j \in ReadJobs /\ j \in Checked /\ j \in Jobs /\ j \notin WriteJobs /\ Running(t, j) /\ thr[t].pc = "exec"
      /\ GoesOn(t, "complete") /\ UNCHANGED <<issued, m_store_buffer, disk>> /\ thr[t].jobs = <<j>>
      /\ BlocksOf[j] \subseteq Blocks
  BY DiskAssumption DEF ReadBlocks, execUnchanged, Checked, Jobs, Running
<1>2. thr'[t].pc = "complete" /\ \A u \in Threads : u # t => thr'[u] = thr[u]
  BY <1>0, <1>1 DEF GoesOn, ThreadState
<1>3. ret[j] = "none"
  <2>1. j \in WaitingOf(thr[t])
    BY <1>1, ToSetIs DEF WaitingOf, Early
  <2>2. j \in Waiting
    BY <2>1 DEF Waiting
  <2> QED
    BY <1>0, <1>1, <2>2 DEF ResultsExact
<1>4. /\ \A b \in Blocks : data'[j][b] = IF b \in BlocksOf[j] /\ data[j][b] = Nothing THEN disk[b] ELSE data[j][b]
      /\ \A k \in Checked : k # j => data'[k] = data[k]
  BY <1>1 DEF FileTypes, Checked
<1>5. \A b \in Blocks : data'[j][b] # Nothing => IsIssued(data'[j][b])
  BY <1>0, <1>1, <1>4 DEF StoredIsIssued
<1>6. ASSUME NEW b \in BlocksOf[j], NEW w \in WriteJobs, Earlier(w, j), ret'[w] \in {"none", "ok"}, b \in BlocksOf[w]
      PROVE  Sees(data'[j][b], w)
  <2>1. ret'[w] = ret[w] /\ b \in Blocks
    BY <1>0, <1>1, <1>6
  <2>2. Good(j, b) \/ (data[j][b] = Nothing /\ OnDisk(j, b))
    BY <1>1, <1>3 DEF ReadInv, ReadReady
  <2>3. CASE Good(j, b)
    <3>1. Sees(data[j][b], w)
      BY <1>6, <2>1, <2>3 DEF Good
    <3>2. data'[j][b] = data[j][b]
      BY <1>4, <2>1, <3>1 DEF Sees
    <3> QED
      BY <3>1, <3>2
  <2>4. CASE data[j][b] = Nothing /\ OnDisk(j, b)
    <3>1. ret[w] = "ok" /\ data'[j][b] = disk[b]
      BY <1>4, <1>6, <2>1, <2>4 DEF OnDisk
    <3> QED
      BY <1>0, <1>6, <2>1, <3>1 DEF DiskIsNewest
  <2> QED
    BY <2>2, <2>3, <2>4
<1>7. \A b \in BlocksOf[j] : Good(j, b)'
  BY <1>1, <1>6 DEF Good, Sees, Pos, Earlier, IsIssued
<1>8. Answered(j)' /\ ReadReady(j)' /\ HashGoes(t)'
  BY <1>0, <1>1, <1>2, <1>7 DEF Answered, ReadReady, HashGoes
<1> QED
  BY <1>0, <1>1, <1>2, <1>4, <1>5, <1>8, LookingKeeps

(* do_hash goes on to the next block with a value that is good.            *)
LEMMA HashedReads ==
    ASSUME DInv, FileTypes, BufferInv, ReadInv, HashHasBlock, NEW t, t \in Threads, NEW j, Running(t, j),
           thr[t].pc \in {"hash", "hash_file"}, UNCHANGED <<issued, m_store_buffer, disk>>,
           NEW v, HashedAs(t, j, v), v # Nothing => IsIssued(v),
           \A w \in WriteJobs :
               Earlier(w, j) /\ ret[w] \in {"none", "ok"} /\ NextBlock(t) \in BlocksOf[w] => Sees(v, w)
    PROVE  ReadInv'
<1>0. /\ thr \in [Threads -> ThreadState] /\ thr[t] \in ThreadState /\ ret \in [Jobs -> Results]
      /\ StoredIsIssued /\ JobKinds /\ HashGoes(t) /\ thr[t].left \subseteq Blocks /\ WriteJobs \subseteq Jobs
  BY DEF DInv, ListTypes, ReadInv, BufferInv, Jobs, ThreadState
<1>1. /\ j \in HashJobs /\ j \in Checked /\ j \in Jobs /\ ret[j] = "none" /\ thr[t].jobs[1] = j /\ j \notin ReadJobs
      /\ j \notin WriteJobs
  BY <1>0, HashingJob, DiskAssumption DEF Running, Checked, Jobs
<1>2. PICK b : b = NextBlock(t)
  OBVIOUS
<1>3. b \in thr[t].left /\ b \in Blocks
  BY <1>0, <1>2, NextBlockIs DEF HashHasBlock
<1>4. PICK rest : rest = thr[t].left \ {b}
  OBVIOUS
<1>5. /\ data' = [data EXCEPT ![j][b] = v]
      /\ ret' = [ret EXCEPT ![j] = IF rest = {} THEN "ok" ELSE @]
      /\ thr' = [thr EXCEPT ![t].left = rest, ![t].pc = IF rest = {} THEN "complete" ELSE "hash"]
  BY <1>2, <1>4 DEF HashedAs
<1>6. /\ data'[j][b] = v /\ \A c \in Blocks : c # b => data'[j][c] = data[j][c]
      /\ \A k \in Checked : k # j => data'[k] = data[k]
  BY <1>1, <1>3, <1>5 DEF FileTypes, Checked
<1>7. /\ ret'[j] = (IF rest = {} THEN "ok" ELSE "none") /\ \A k \in Jobs : k # j => ret'[k] = ret[k]
  BY <1>0, <1>1, <1>5
<1>8. /\ thr'[t].left = rest /\ thr'[t].pc = (IF rest = {} THEN "complete" ELSE "hash")
      /\ thr'[t].jobs = thr[t].jobs /\ \A u \in Threads : u # t => thr'[u] = thr[u]
  BY <1>0, <1>5 DEF ThreadState
<1>9. \A c \in Blocks : data'[j][c] # Nothing => IsIssued(data'[j][c])
  BY <1>0, <1>1, <1>6 DEF StoredIsIssued
<1>10. ASSUME NEW c \in BlocksOf[j] \ rest, NEW w \in WriteJobs, Earlier(w, j), ret'[w] \in {"none", "ok"},
              c \in BlocksOf[w]
       PROVE  Sees(data'[j][c], w)
  <2>1. ret[w] = ret'[w] /\ c \in Blocks
    BY <1>0, <1>1, <1>7, <1>10, DiskAssumption
  <2>2. CASE c = b
    BY <1>2, <1>6, <1>10, <2>1, <2>2
  <2>3. CASE c # b
    <3>1. Good(j, c)
      BY <1>0, <1>1, <1>4, <1>10, <2>3 DEF HashGoes
    <3> QED
      BY <1>6, <1>10, <2>1, <2>3, <3>1 DEF Good
  <2> QED
    BY <2>2, <2>3
<1>11. \A c \in BlocksOf[j] \ rest : Good(j, c)'
  BY <1>10 DEF Good, Sees, Pos, Earlier, IsIssued
<1>12. Answered(j)'
  BY <1>7, <1>11 DEF Answered
<1>13. ReadReady(j)' /\ HashGoes(t)'
  BY <1>1, <1>8, <1>11 DEF ReadReady, HashGoes
<1> QED
  BY <1>1, <1>6, <1>7, <1>8, <1>9, <1>12, <1>13, LookingKeeps

(* do_hash takes its next block from the store buffer, or else from the    *)
(* file.                                                                   *)
LEMMA HashReads ==
    ASSUME DInv, FileTypes, BufferInv, ReadInv, HashHasBlock, NEW t, t \in Threads, NEW j, j \in Jobs,
           HashLookup(t, j) \/ HashFile(t, j)
    PROVE  ReadInv'
<1>0. /\ thr \in [Threads -> ThreadState] /\ thr[t] \in ThreadState /\ ret \in [Jobs -> Results] /\ HashGoes(t)
      /\ StoredIsIssued /\ DiskIsNewest /\ BufferIsNewest /\ BufferIs /\ JobKinds /\ thr[t].left \subseteq Blocks
      /\ thr[t].jobs = <<j>> /\ thr[t].jobs[1] = j /\ Running(t, j) /\ thr[t].pc \in {"hash", "hash_file"}
      /\ UNCHANGED <<issued, m_store_buffer, disk>>
  BY DEF DInv, ListTypes, ReadInv, BufferInv, ThreadState, HashLookup, HashFile, Running, execUnchanged
<1>1. PICK b : b = NextBlock(t)
  OBVIOUS
<1>2. b \in Blocks
  BY <1>0, <1>1, NextBlockIs DEF HashHasBlock
<1>3. CASE HashLookup(t, j) /\ m_store_buffer[b] = Nothing
  BY <1>1, <1>3, LookupMisses
<1>4. CASE HashLookup(t, j) /\ m_store_buffer[b] # Nothing
  <2>1. HashedAs(t, j, m_store_buffer[b])
    BY <1>1, <1>4 DEF HashLookup
  <2>2. IsIssued(m_store_buffer[b])
    <3>1. m_store_buffer[b] \in WriteJobs
      BY <1>2, <1>4 DEF FileTypes, Stored
    <3> QED
      BY <1>0, <1>2, <3>1 DEF BufferIs, Pending
  <2>3. \A w \in WriteJobs :
            Earlier(w, j) /\ ret[w] \in {"none", "ok"} /\ NextBlock(t) \in BlocksOf[w] => Sees(m_store_buffer[b], w)
    BY <1>0, <1>1, <1>2, <1>4 DEF BufferIsNewest, Earlier
  <2> QED
    BY <1>0, <2>1, <2>2, <2>3, HashedReads
<1>5. CASE HashFile(t, j) /\ HashedAs(t, j, disk[b])
  <2>1. \A w \in WriteJobs :
            Earlier(w, j) /\ ret[w] \in {"none", "ok"} /\ NextBlock(t) \in BlocksOf[w] => Sees(disk[b], w)
    <3>1. OnDisk(j, b)
      BY <1>0, <1>1, <1>5 DEF HashFile, HashGoes
    <3> QED
      BY <1>0, <1>1, <1>2, <3>1 DEF OnDisk, DiskIsNewest
  <2>2. disk[b] # Nothing => IsIssued(disk[b])
    BY <1>0, <1>2 DEF StoredIsIssued
  <2> QED
    BY <1>0, <1>5, <2>1, <2>2, HashedReads
<1>6. CASE HashFile(t, j) /\ ret' = [ret EXCEPT ![j] = "failed"] /\ GoesOn(t, "complete") /\ UNCHANGED data
  <2>1. j \notin WriteJobs
    BY <1>0, HashingJob, DiskAssumption
  <2> QED
    BY <1>0, <1>6, <2>1, ExecuteQuietly
<1> QED
  BY <1>1, <1>3, <1>4, <1>5, <1>6 DEF HashFile

(* A job is issued.                                                        *)
LEMMA IssueReads ==
    ASSUME DInv, FileTypes, BufferInv, ReadInv, NEW x, x \in Jobs, Issue(x), disk' = disk,
           \A w \in WriteJobs : ret'[w] = ret[w],
           \A j \in Checked : j # x => data'[j] = data[j] /\ ret'[j] = ret[j],
           NetGoes("add", <<x>>) \/ UNCHANGED thr,
           x \in Checked => /\ Answered(x)' /\ ReadReady(x)'
                            /\ \A b \in Blocks : data'[x][b] # Nothing => IsIssued(data'[x][b]),
           BufferIsNewest'
    PROVE  ReadInv'
<1>0. /\ thr \in [Threads -> ThreadState] /\ Net \in Threads /\ ListTypes /\ ResultsExact
      /\ StoredIsIssued /\ DiskIsNewest /\ WriteJobs \subseteq Jobs /\ Checked \subseteq Jobs
      /\ ~ IsIssued(x) /\ issued' = Append(issued, x) /\ JobsIn(Held) = ToSet(issued) /\ issued \in Seq(Jobs)
  BY ThreadSets DEF DInv, ListTypes, ReadInv, Jobs, Checked, Issue
<1>1. Stable
  BY <1>0 DEF Stable
<1>2. ToSet(issued') = ToSet(issued) \union {x}
  BY <1>0, JoinIs
<1>3. StoredIsIssued'
  <2>1. \A j \in Checked, b \in Blocks : data'[j][b] # Nothing => IsIssued(data'[j][b])
    BY <1>0 DEF StoredIsIssued
  <2> QED
    BY <1>0, <1>2, <2>1 DEF StoredIsIssued, IsIssued
<1>4. DiskIsNewest'
  <2>1. ASSUME NEW w \in WriteJobs, NEW b \in Blocks, b \in BlocksOf[w], ret'[w] = "ok"
        PROVE  Sees(disk[b], w)'
    <3>1. PICK y : y = disk[b]
      OBVIOUS
    <3>2. Sees(y, w) /\ y \in Stored /\ (y \in WriteJobs => IsIssued(y)) /\ IsIssued(w)
      BY <1>0, <2>1, <3>1, DiskAssumption DEF DiskIsNewest, FileTypes, StoredIsIssued, ResultsExact
    <3>3. Sees(y, w)'
      BY <1>1, <3>2, SeesKept
    <3> QED
      BY <3>1, <3>3 DEF Sees
  <2> QED
    BY <2>1 DEF DiskIsNewest
<1>5. \A t \in Threads : (thr'[t] = thr[t] /\ thr[t].jobs # <<x>>) \/ HashGoes(t)'
  <2>1. ASSUME NEW t \in Threads PROVE thr[t].jobs # <<x>>
    <3>1. <<t, "jobs">> \in Lists /\ Held[<<t, "jobs">>] = thr[t].jobs /\ DOMAIN Held = Lists
      BY <1>0, HeldAre, ListsAre, HeldType
    <3>2. ToSet(thr[t].jobs) \subseteq ToSet(issued)
      BY <1>0, <3>1 DEF JobsIn
    <3>3. ToSet(<<x>>) = {x}
      BY ToSetIs
    <3> QED
      BY <1>0, <3>2, <3>3 DEF IsIssued
  <2>2. CASE UNCHANGED thr
    BY <2>1, <2>2
  <2>3. CASE NetGoes("add", <<x>>)
    <3>1. thr'[Net].pc = "add" /\ \A t \in Threads : t # Net => thr'[t] = thr[t]
      BY <1>0, <2>3 DEF NetGoes, At
    <3>2. HashGoes(Net)'
      BY <3>1 DEF HashGoes
    <3> QED
      BY <2>1, <3>1, <3>2
  <2> QED
    BY <2>2, <2>3
<1>6. \A j \in Checked : j # x => IsIssued(j) \/ ~ IsIssued(j)'
  BY <1>2 DEF IsIssued
<1>7. (\A j \in Checked : Answered(j)' /\ ReadReady(j)') /\ \A t \in Threads : HashGoes(t)'
  BY <1>1, <1>5, <1>6, OthersKept
<1> QED
  BY <1>3, <1>4, <1>7 DEF ReadInv

(* async_write: the block replaces nothing in the store buffer.            *)
LEMMA AsyncWriteReads ==
    ASSUME DInv, FileTypes, BufferInv, ReadInv, NEW w, w \in WriteJobs, AsyncWrite(w)
    PROVE  ReadInv'
<1>0. /\ BufferIs /\ BufferIsNewest /\ WriteJobs \subseteq Jobs /\ w \in Jobs /\ w # Nothing /\ w \notin Checked
  BY DiskAssumption DEF BufferInv, ReadInv, Jobs, Checked
<1>1. /\ Issue(w) /\ UNCHANGED <<disk, data, ret>> /\ NetGoes("add", <<w>>)
      /\ ~ IsIssued(w) /\ issued' = Append(issued, w)
  BY DEF AsyncWrite, Issue
<1>2. /\ \A b \in BlocksOf[w] : m_store_buffer[b] = Nothing /\ m_store_buffer'[b] = w
      /\ \A b \in Blocks \ BlocksOf[w] : m_store_buffer'[b] = m_store_buffer[b]
  BY AsyncWriteBuffer
<1>3. Stable
  BY <1>0, <1>1 DEF Stable
<1>4. \A v \in Jobs : IsIssued(v)' => IsIssued(v) \/ v = w
  BY <1>0, <1>1, PosJoin DEF IsIssued
<1>5. ASSUME NEW v \in WriteJobs, NEW b \in Blocks, b \in BlocksOf[v], IsIssued(v)', m_store_buffer'[b] # Nothing
      PROVE  Sees(m_store_buffer[b], v)'
  <2>1. PICK x : x = m_store_buffer'[b]
    OBVIOUS
  <2>2. CASE b \in BlocksOf[w]
    <3>1. \A j \in Jobs : IsIssued(j)' => Pos(j)' <= Pos(w)'
      BY <1>0, <1>1, LastIsLatest
    <3>2. \A j \in Jobs : IsIssued(j)' => Pos(j)' \in Nat
      <4>1. /\ \A j \in ToSet(issued) : Pos(j)' = Pos(j) /\ Pos(j) \in 1..Len(issued)
            /\ Pos(w)' = Len(issued) + 1 /\ Len(issued) \in Nat
            /\ ToSet(issued') = ToSet(issued) \union {w}
        BY <1>0, <1>1, PosJoin
      <4> QED
        BY <4>1 DEF IsIssued
    <3>3. IsIssued(w)'
      BY <1>0, <1>1, PosJoin DEF IsIssued
    <3>4. Pos(v)' \in Nat /\ Pos(w)' \in Nat /\ Pos(v)' <= Pos(w)'
      BY <1>0, <1>5, <3>1, <3>2, <3>3
    <3>5. Pos(w)' >= Pos(v)'
      BY <3>4
    <3>6. x = w
      BY <1>2, <2>1, <2>2
    <3> QED
      BY <1>0, <2>1, <3>5, <3>6 DEF Sees
  <2>3. CASE b \notin BlocksOf[w]
    <3>1. x = m_store_buffer[b] /\ IsIssued(v) /\ x # Nothing
      BY <1>0, <1>2, <1>4, <1>5, <2>1, <2>3
    <3>2. Sees(x, v) /\ x \in Stored /\ (x \in WriteJobs => IsIssued(x))
      BY <1>0, <1>5, <3>1 DEF BufferIsNewest, FileTypes, BufferIs, Pending
    <3>3. Sees(x, v)'
      BY <1>3, <3>1, <3>2, SeesKept
    <3> QED
      BY <2>1, <3>3 DEF Sees
  <2> QED
    BY <2>2, <2>3
<1>6. BufferIsNewest'
  BY <1>5 DEF BufferIsNewest
<1> QED
  BY <1>0, <1>1, <1>6, IssueReads

(* A job that is not a write leaves the store buffer as it is.             *)
LEMMA IssueLeavesBuffer ==
    ASSUME DInv, FileTypes, BufferInv, ReadInv, NEW x, x \in Jobs, x \notin WriteJobs, Issue(x),
           UNCHANGED <<m_store_buffer, disk>>, \A w \in WriteJobs : ret'[w] = ret[w]
    PROVE  BufferIsNewest' /\ Stable /\ \A w \in WriteJobs : IsIssued(w)' => IsIssued(w)
<1>0. ~ IsIssued(x) /\ issued' = Append(issued, x) /\ WriteJobs \subseteq Jobs
  BY DEF Issue, Jobs
<1>1. Stable
  BY <1>0 DEF Stable
<1>2. \A w \in WriteJobs : IsIssued(w)' => IsIssued(w)
  BY <1>0, PosJoin DEF IsIssued
<1>3. StoredIsIssued /\ DiskIsNewest /\ BufferIsNewest
  BY DEF ReadInv
<1> QED
  BY <1>1, <1>2, <1>3, StoredKept

(* Hash and fence jobs start with no block seen.                           *)
LEMMA AsyncHashReads ==
    ASSUME DInv, FileTypes, BufferInv, ReadInv, NEW h, \/ h \in HashJobs /\ AsyncHash(h)
                                                       \/ h \in FenceJobs /\ AsyncFence(h)
    PROVE  ReadInv'
<1>0. h \in Jobs /\ h \notin WriteJobs /\ h \notin ReadJobs /\ ResultsExact /\ StoredIsIssued
  BY DiskAssumption DEF Jobs, DInv, ReadInv
<1>1. /\ Issue(h) /\ UNCHANGED <<disk, data, ret, m_store_buffer>> /\ NetGoes("add", <<h>>)
      /\ ~ IsIssued(h)
  BY DEF AsyncHash, AsyncFence, fileVars, Issue
<1>2. ret[h] = "none"
  BY <1>0, <1>1 DEF ResultsExact
<1>3. Answered(h)' /\ ReadReady(h)'
  BY <1>0, <1>1, <1>2 DEF Answered, ReadReady
<1>4. BufferIsNewest'
  BY <1>0, <1>1, IssueLeavesBuffer
<1>5. h \in Checked => \A b \in Blocks : data'[h][b] # Nothing => IsIssued(data'[h][b])
  BY <1>0, <1>1 DEF StoredIsIssued
<1> QED
  BY <1>0, <1>1, <1>3, <1>4, <1>5, IssueReads

(* async_read: what is in the store buffer is the last write; all writes   *)
(* of a block that is not there are done.                                  *)
LEMMA AsyncReadReads ==
    ASSUME DInv, FileTypes, BufferInv, ReadInv, NEW r, r \in ReadJobs, AsyncRead(r)
    PROVE  ReadInv'
<1> DEFINE found == {b \in BlocksOf[r] : m_store_buffer[b] # Nothing}
           copied == [b \in Blocks |-> IF b \in found THEN m_store_buffer[b] ELSE Nothing]
<1>0. /\ r \in Jobs /\ r \notin WriteJobs /\ r \in Checked /\ ResultsExact /\ StoredIsIssued /\ BufferIs
      /\ BufferIsNewest /\ ret \in [Jobs -> Results] /\ WriteJobs \subseteq Jobs /\ BlocksOf[r] \subseteq Blocks
      /\ Checked \subseteq Jobs
  BY DiskAssumption DEF Jobs, DInv, ReadInv, BufferInv, Checked
<1>1. /\ Issue(r) /\ UNCHANGED <<disk, m_store_buffer>> /\ (NetGoes("add", <<r>>) \/ UNCHANGED thr)
      /\ ~ IsIssued(r)
      /\ \/ ret' = ret /\ data' = [data EXCEPT ![r] = copied]
         \/ found = BlocksOf[r] /\ ret' = [ret EXCEPT ![r] = "ok"] /\ data' = [data EXCEPT ![r] = copied]
         \/ ret' = [ret EXCEPT ![r] = "failed"] /\ data' = data
  BY DEF AsyncRead, Issue
<1>2. ret[r] = "none"
  BY <1>0, <1>1 DEF ResultsExact
<1>3. /\ \A w \in WriteJobs : ret'[w] = ret[w]
      /\ \A j \in Checked : j # r => data'[j] = data[j] /\ ret'[j] = ret[j]
      /\ data' = data \/ data'[r] = copied
  BY <1>0, <1>1 DEF FileTypes, Checked
<1>4. BufferIsNewest' /\ Stable /\ \A w \in WriteJobs : IsIssued(w)' => IsIssued(w)
  BY <1>0, <1>1, <1>3, IssueLeavesBuffer
<1>5. \A b \in Blocks : m_store_buffer[b] # Nothing => IsIssued(m_store_buffer[b]) /\ m_store_buffer[b] \in WriteJobs
  BY <1>0 DEF FileTypes, Stored, BufferIs, Pending
<1>6. \A b \in Blocks : data'[r][b] # Nothing => IsIssued(data'[r][b])
  BY <1>0, <1>3, <1>5 DEF StoredIsIssued
<1>7. ASSUME NEW b \in found, data'[r] = copied PROVE Good(r, b)'
  <2>1. PICK x : x = m_store_buffer[b]
    OBVIOUS
  <2>2. data'[r][b] = x /\ b \in Blocks /\ x # Nothing /\ IsIssued(x) /\ x \in Stored
    BY <1>0, <1>5, <1>7, <2>1 DEF Stored
  <2>3. ASSUME NEW w \in WriteJobs, Earlier(w, r)', b \in BlocksOf[w] PROVE Sees(x, w)'
    <3>1. IsIssued(w)
      BY <1>4, <2>3 DEF Earlier
    <3>2. Sees(x, w)
      BY <1>0, <2>1, <2>2, <2>3, <3>1 DEF BufferIsNewest
    <3> QED
      BY <1>4, <2>2, <3>1, <3>2, SeesKept
  <2> QED
    BY <2>2, <2>3 DEF Good, Sees
<1>8. ASSUME NEW b \in BlocksOf[r] \ found PROVE OnDisk(r, b)'
  <2>1. ASSUME NEW w \in WriteJobs, Earlier(w, r)', b \in BlocksOf[w] PROVE ret'[w] # "none"
    <3>1. IsIssued(w) /\ m_store_buffer[b] # w /\ b \in Blocks
      BY <1>0, <1>4, <1>8, <2>1, DiskAssumption DEF Earlier
    <3> QED
      BY <1>0, <1>3, <2>1, <3>1 DEF BufferIs, Pending
  <2> QED
    BY <2>1 DEF OnDisk
<1>9. \A b \in BlocksOf[r] \ found : data'[r] = copied => data'[r][b] = Nothing
  BY <1>0
<1> HIDE DEF found, copied
<1>10. ret'[r] = "ok" => found = BlocksOf[r] /\ data'[r] = copied
  BY <1>0, <1>1, <1>2 DEF FileTypes, Checked
<1>11. ret'[r] = "none" => data'[r] = copied
  BY <1>0, <1>1 DEF FileTypes, Checked
<1>12. Answered(r)'
  BY <1>7, <1>10 DEF Answered
<1>13. ReadReady(r)'
  BY <1>7, <1>8, <1>9, <1>11 DEF ReadReady
<1> QED
  BY <1>0, <1>1, <1>3, <1>4, <1>6, <1>12, <1>13, IssueReads

(* The steps of a thread keep the invariant.                               *)
LEMMA ThreadReads ==
    ASSUME Undisturbed, DInv, FileTypes, HashHasBlock, BufferInv, ReadInv, NEW t, t \in Threads, ThreadStep(t)
    PROVE  ReadInv'
<1>1. CASE \/ t \in Workers /\ (TakeJob(t) \/ WaitOrExit(t))
           \/ CleanUp(t) \/ LeaveFence(t) \/ RouteReleased(t) \/ AppendReleased(t) \/ PostCompleted(t)
  BY <1>1, WorkerFrame, QuietReads
<1>2. CASE NotifyReleased(t)
  BY <1>2, NotifyFrame, QuietReads
<1>3. ASSUME NEW j \in Jobs, Execute(t, j) PROVE ReadInv'
  <2>1. CASE WriteBlock(t, j)
    <3>1. CASE /\ disk' = [b \in Blocks |-> IF b \in BlocksOf[j] THEN j ELSE disk[b]]
               /\ ret' = [ret EXCEPT ![j] = "ok"] /\ GoesOn(t, "erase")
      BY <2>1, <3>1, WriteReads
    <3>2. CASE /\ ret' = [ret EXCEPT ![j] = "failed"] /\ UNCHANGED disk
               /\ \E e \in DiskFaults : GoesOn(t, IF e = "error" THEN "erase" ELSE "complete")
      <4>1. PICK pc \in {"erase", "complete"} : GoesOn(t, pc)
        BY <3>2
      <4>2. ret[j] = "none" /\ j \in WriteJobs /\ j \notin Checked
        BY <2>1, WriteBuffer, DiskAssumption DEF Checked
      <4>3. UNCHANGED <<issued, data, m_store_buffer>>
        BY <2>1 DEF WriteBlock, execUnchanged
      <4> QED
        BY <3>2, <4>1, <4>2, <4>3, ExecuteQuietly
    <3> QED
      BY <2>1, <3>1, <3>2 DEF WriteBlock
  <2>2. CASE EraseBuffer(t, j)
    <3>1. /\ GoesOn(t, "complete") /\ UNCHANGED <<issued, disk, data, ret>>
          /\ \A b \in Blocks : m_store_buffer'[b] = m_store_buffer[b] \/ m_store_buffer'[b] = Nothing
      BY <2>2 DEF EraseBuffer, execUnchanged
    <3> QED
      BY <3>1, ExecuteQuietly
  <2>3. CASE SkipAborted(t, j)
    <3>1. /\ GoesOn(t, "complete") /\ UNCHANGED <<issued, disk, data, m_store_buffer>> /\ j \in aborted
          /\ ret' = [ret EXCEPT ![j] = "aborted"]
      BY <2>3 DEF SkipAborted, execUnchanged, fileVars
    <3>2. j \notin WriteJobs
      BY <3>1, DiskAssumption DEF BufferInv, NoShutdown
    <3> QED
      BY <3>1, <3>2, ExecuteQuietly
  <2>4. CASE PerformFence(t, j)
    <3>1. /\ GoesOn(t, "complete") /\ UNCHANGED <<issued, disk, data, m_store_buffer>> /\ j \in FenceJobs
          /\ \E x : ret' = [ret EXCEPT ![j] = x]
      BY <2>4 DEF PerformFence, execUnchanged, fileVars
    <3>2. j \notin WriteJobs /\ j \notin Checked
      BY <3>1, DiskAssumption DEF Checked
    <3> QED
      BY <3>1, <3>2, ExecuteQuietly
  <2>5. CASE ReadBlocks(t, j)
    <3>1. CASE ret' = [ret EXCEPT ![j] = "failed"] /\ UNCHANGED data
      <4>1. GoesOn(t, "complete") /\ UNCHANGED <<issued, disk, m_store_buffer>> /\ j \notin WriteJobs
        BY <2>5, DiskAssumption DEF ReadBlocks, execUnchanged
      <4> QED
        BY <3>1, <4>1, ExecuteQuietly
    <3>2. CASE ~ (ret' = [ret EXCEPT ![j] = "failed"] /\ UNCHANGED data)
      <4>1. /\ ret' = [ret EXCEPT ![j] = "ok"]
            /\ data' = [data EXCEPT ![j] = [b \in Blocks |-> IF b \in BlocksOf[j] /\ @[b] = Nothing
                                                             THEN disk[b] ELSE @[b]]]
        BY <2>5, <3>2 DEF ReadBlocks
      <4> QED
        BY <2>5, <4>1, ReadBlocksReads
    <3> QED
      BY <3>1, <3>2
  <2>6. CASE StartHash(t, j)
    BY <2>6, StartHashReads
  <2>7. CASE HashLookup(t, j) \/ HashFile(t, j)
    BY <2>7, HashReads
  <2> QED
    BY <1>3, <2>1, <2>2, <2>3, <2>4, <2>5, <2>6, <2>7 DEF Execute
<1> QED
  BY <1>1, <1>2, <1>3 DEF ThreadStep, CompleteJobs

(* Every step keeps the invariant.                                         *)
LEMMA NextReads ==
    ASSUME Undisturbed, DInv, FileTypes, HashHasBlock, BufferInv, ReadInv, [Next]_vars
    PROVE  ReadInv'
<1>0. NoShutdown /\ ~ m_abort /\ ~ MayAbort
  BY DEF BufferInv, NoShutdown, Undisturbed
<1>1. CASE \/ CallJobHandlers \/ ImmediateExecute \/ UNCHANGED vars
           \/ (\E s \in Settings : SettingsUpdated(s)) \/ (\E q \in Pools : Reap(q))
  BY <1>1, NetFrame, QuietReads
<1>2. CASE SubmitJobs
  BY <1>2, NotifyFrame, QuietReads
<1>3. CASE Client
  <2>1. ASSUME NEW w \in WriteJobs, AsyncWrite(w) PROVE ReadInv'
    BY <2>1, AsyncWriteReads
  <2>2. ASSUME NEW r \in ReadJobs, AsyncRead(r) PROVE ReadInv'
    BY <2>2, AsyncReadReads
  <2>3. ASSUME NEW h \in HashJobs, AsyncHash(h) PROVE ReadInv'
    BY <2>3, AsyncHashReads
  <2>4. ASSUME NEW f \in FenceJobs, AsyncFence(f) PROVE ReadInv'
    BY <2>4, AsyncHashReads
  <2>5. ~ AbortSubmits
    BY <1>0 DEF AbortSubmits
  <2> QED
    BY <1>1, <1>3, <2>1, <2>2, <2>3, <2>4, <2>5 DEF Client
<1>4. CASE NetStep
  <2>1. ASSUME NEW j \in Jobs, JobFailAdd(j) PROVE FALSE
    BY <1>0, <2>1 DEF JobFailAdd
  <2>2. ASSUME NEW j \in Jobs, AddJob(j) \/ AddFenceJob(j) PROVE ReadInv'
    BY <2>2, NetPassesJob, QuietReads
  <2>3. ASSUME PushJob PROVE ReadInv'
    <3>1. thr[Net].jobs[1] \in Jobs
      BY <2>3, NetJob DEF PushJob
    <3> QED
      BY <2>3, <3>1, NetPassesJob, QuietReads
  <2>4. ~ AbortStarts /\ ~ AbortPools
    BY <1>0 DEF AbortStarts, AbortPools, NoShutdown
  <2>5. ASSUME ThreadStep(Net) PROVE ReadInv'
    BY <2>5, ThreadReads, ThreadSets
  <2> QED
    BY <1>1, <1>4, <2>1, <2>2, <2>3, <2>4, <2>5 DEF NetStep
<1>5. CASE \E t \in Workers : ThreadStep(t)
  BY <1>5, ThreadReads, ThreadSets
<1> QED
  BY <1>1, <1>2, <1>3, <1>4, <1>5 DEF Next

(* The invariant holds initially.                                          *)
LEMMA InitReads == Init => ReadInv
<1> SUFFICES ASSUME Init PROVE ReadInv
  OBVIOUS
<1>1. /\ \A t \in Threads : thr[t].pc = "none"
      /\ \A j \in Jobs : ret[j] = "none" /\ ~ IsIssued(j)
  BY ToSetIs DEF Init, Threads, Stopped, At, IsIssued
<1>2. StoredIsIssued
  BY DEF Init, StoredIsIssued, Checked
<1>3. DiskIsNewest /\ BufferIsNewest
  BY <1>1 DEF DiskIsNewest, BufferIsNewest, Jobs
<1>4. ASSUME NEW j \in Checked PROVE Answered(j) /\ ReadReady(j)
  <2>1. ret[j] = "none" /\ ~ IsIssued(j)
    BY <1>1, <1>4 DEF Checked, Jobs
  <2> QED
    BY <2>1 DEF Answered, ReadReady, Good, Earlier
<1>5. \A t \in Threads : HashGoes(t)
  BY <1>1 DEF HashGoes
<1> QED
  BY <1>2, <1>3, <1>4, <1>5 DEF ReadInv

(* The same, as an implication.                                            *)
LEMMA StepReads ==
    ASSUME Undisturbed
    PROVE  DInv /\ DiskTypes /\ BufferInv /\ ReadInv /\ [Next]_vars => ReadInv'
  BY NextReads DEF DiskTypes

(* Reads and hashes see the writes issued before them, wherever these have *)
(* got to on their way to the files; while the session is not shut down    *)
(* and no file operation throws.                                           *)
THEOREM ReadsSeeEarlierWrites ==
    ASSUME Undisturbed
    PROVE  Spec => []ReadsSeeWrites
<1>1. DInv /\ DiskTypes /\ BufferInv /\ [Next]_vars => BufferInv'
  BY StepBuffer
<1>2. DInv /\ DiskTypes /\ BufferInv /\ ReadInv /\ [Next]_vars => ReadInv'
  BY StepReads
<1>3. ReadInv => ReadsSeeWrites
  BY ReadInvSees
<1> QED
  BY <1>1, <1>2, <1>3, InitBuffer, InitReads, DiskTypesHold, PTL DEF Spec

-----------------------------------------------------------------------------
(***************************************************************************)
(* Shutdown: the files are closed.                                         *)
(***************************************************************************)
LiveThreads == {t \in Workers : thr[t].pc \notin {"none", "cleanup"}}

(* The vectors of the pools hold threads that will still see m_abort, and  *)
(* once it is set the files are closed or somebody is left to do it.       *)
ReleaseInv ==
    /\ \A q \in Pools : /\ pools[q].m_threads \subseteq LiveThreads
                        /\ pools[q].m_abort => m_abort /\ pools[q].m_threads = {}
    /\ thr[Net].pc \in {"abort_generic", "abort_hash"} => m_abort
    /\ m_abort => released \/ \E t \in Workers : thr[t].pc # "none"

(* A step in which no thread leaves.                                       *)
LEMMA QuietRelease ==
    ASSUME ReleaseInv, LiveThreads \subseteq LiveThreads',
           \A u \in Workers : thr[u].pc # "none" => thr'[u].pc # "none",
           \A q \in Pools : /\ pools'[q].m_threads \subseteq pools[q].m_threads \union LiveThreads'
                            /\ pools'[q].m_abort = pools[q].m_abort
                            /\ pools[q].m_abort => pools'[q].m_threads = {},
           UNCHANGED <<m_abort, released>>,
           thr'[Net].pc \in {"abort_generic", "abort_hash"} => thr'[Net].pc = thr[Net].pc
    PROVE  ReleaseInv'
<1>1. ASSUME NEW q \in Pools
      PROVE  pools'[q].m_threads \subseteq LiveThreads' /\ (pools'[q].m_abort => m_abort' /\ pools'[q].m_threads = {})
  BY <1>1 DEF ReleaseInv
<1>2. thr'[Net].pc \in {"abort_generic", "abort_hash"} => m_abort'
  BY DEF ReleaseInv
<1>3. m_abort' => released' \/ \E t \in Workers : thr'[t].pc # "none"
  BY DEF ReleaseInv
<1> QED
  BY <1>1, <1>2, <1>3 DEF ReleaseInv

(* The same, where the pools keep their threads.                           *)
LEMMA SamePoolsRelease ==
    ASSUME ReleaseInv, LiveThreads \subseteq LiveThreads',
           \A u \in Workers : thr[u].pc # "none" => thr'[u].pc # "none",
           \A q \in Pools : pools'[q].m_threads = pools[q].m_threads /\ pools'[q].m_abort = pools[q].m_abort,
           UNCHANGED <<m_abort, released>>,
           thr'[Net].pc \in {"abort_generic", "abort_hash"} => thr'[Net].pc = thr[Net].pc
    PROVE  ReleaseInv'
<1>1. \A q \in Pools : pools[q].m_abort => pools[q].m_threads = {}
  BY DEF ReleaseInv
<1> QED
  BY <1>1, QuietRelease

(* The network thread issues jobs, queues them or turns to the next.       *)
LEMMA IssueRelease ==
    ASSUME DInv, ReleaseInv, NEW j, \/ AsyncWrite(j) \/ AsyncRead(j) \/ AsyncHash(j) \/ AsyncFence(j)
                                    \/ JobFailAdd(j) \/ AddJob(j) \/ AddFenceJob(j) \/ CallJobHandlers
                                    \/ PushJob \/ ImmediateExecute
    PROVE  ReleaseInv'
<1>0. /\ thr \in [Threads -> ThreadState] /\ Net \in Threads /\ Net \notin Workers /\ Workers \subseteq Threads
  BY ThreadSets DEF DInv, ListTypes
<1>1. UNCHANGED <<pools, m_abort, released>>
  BY DEF AsyncWrite, AsyncRead, AsyncHash, AsyncFence, JobFailAdd, AddJob, AddFenceJob, CallJobHandlers,
         PushJob, ImmediateExecute, poolVars
<1>2. thr' = thr \/ \E pc \in {"none", "add", "push", "loop", "exec"} : \E s : thr' = [thr EXCEPT ![Net] = At(pc, s)]
  <2>1. CASE AsyncWrite(j) \/ AsyncRead(j) \/ AsyncHash(j) \/ AsyncFence(j)
    BY <2>1 DEF AsyncWrite, AsyncRead, AsyncHash, AsyncFence, NetGoes
  <2>2. CASE JobFailAdd(j) \/ AddJob(j) \/ CallJobHandlers
    BY <2>2 DEF JobFailAdd, AddJob, CallJobHandlers, NetGoes
  <2>3. CASE AddFenceJob(j)
    BY <2>3 DEF AddFenceJob, NetGoes
  <2>4. CASE PushJob \/ ImmediateExecute
    BY <2>4 DEF PushJob, ImmediateExecute, NetGoes
  <2> QED
    BY <2>1, <2>2, <2>3, <2>4
<1>3. /\ \A u \in Workers : thr'[u] = thr[u]
      /\ thr' = thr \/ thr'[Net].pc \in {"none", "add", "push", "loop", "exec"}
  <2>1. \A pc, s : At(pc, s).pc = pc
    BY DEF At
  <2> QED
    BY <1>0, <1>2, <2>1
<1>4. LiveThreads' = LiveThreads
  BY <1>3 DEF LiveThreads
<1> QED
  BY <1>1, <1>3, <1>4, SamePoolsRelease

(* Execution and completion of jobs.                                       *)
LEMMA WorkRelease ==
    ASSUME DInv, ReleaseInv, NEW t, t \in Threads,
           \/ \E j \in Jobs : Execute(t, j)
           \/ LeaveFence(t) \/ RouteReleased(t) \/ AppendReleased(t) \/ PostCompleted(t)
    PROVE  ReleaseInv'
<1>1. /\ thr[t].pc \in Executing \union Passing
      /\ thr'[t].pc \in Executing \union Passing \union {"loop"}
      /\ \A u \in Threads : u # t => thr'[u] = thr[u]
  BY WorkMoves
<1>2. UNCHANGED <<pools, m_abort, released>>
  BY DEF Execute, SkipAborted, WriteBlock, EraseBuffer, ReadBlocks, StartHash, HashLookup, poolVars,
         HashFile, PerformFence, execUnchanged, LeaveFence, RouteReleased, AppendReleased, PostCompleted
<1>3. thr'[t].pc \notin {"none", "cleanup", "abort_generic", "abort_hash"}
  BY <1>1 DEF Executing, Passing
<1>4. Workers \subseteq Threads /\ Net \in Threads
  BY ThreadSets
<1>5. LiveThreads \subseteq LiveThreads'
  BY <1>1, <1>3, <1>4 DEF LiveThreads
<1>6. \A u \in Workers : thr[u].pc # "none" => thr'[u].pc # "none"
  BY <1>1, <1>3, <1>4
<1>7. thr'[Net].pc \in {"abort_generic", "abort_hash"} => thr'[Net].pc = thr[Net].pc
  BY <1>1, <1>3, <1>4
<1> QED
  BY <1>2, <1>5, <1>6, <1>7, SamePoolsRelease

(* A thread takes a job.                                                   *)
LEMMA TakeRelease ==
    ASSUME DInv, PoolInv, ReleaseInv, NEW t, t \in Workers, TakeJob(t)
    PROVE  ReleaseInv'
<1>0. /\ thr \in [Threads -> ThreadState] /\ pools \in [Pools -> PoolObject(Workers)]
      /\ t \in Threads /\ t # Net /\ Workers \subseteq Threads /\ Net \in Threads /\ PoolOf(t) \in Pools
  BY ThreadSets DEF DInv, ListTypes, PoolInv
<1>1. /\ UNCHANGED <<m_abort, released>>
      /\ pools' = [pools EXCEPT ![PoolOf(t)] = IF thr[t].pc = "idle" THEN ThreadActive(@) ELSE @]
      /\ \E s : thr' = [thr EXCEPT ![t] = At("exec", s)]
  BY DEF TakeJob
<1>2. thr'[t].pc = "exec" /\ \A u \in Threads : u # t => thr'[u] = thr[u]
  BY <1>0, <1>1 DEF At
<1>3. ASSUME NEW q \in Pools
      PROVE  pools'[q].m_threads = pools[q].m_threads /\ pools'[q].m_abort = pools[q].m_abort
  <2>1. PICK p \in PoolObject(Workers) : p = pools[q]
    BY <1>0
  <2>2. ThreadActive(p).m_threads = p.m_threads /\ ThreadActive(p).m_abort = p.m_abort
    BY DEF ThreadActive, PoolObject
  <2>3. pools'[q] = p \/ pools'[q] = ThreadActive(p)
    BY <1>0, <1>1, <2>1
  <2> QED
    BY <2>1, <2>2, <2>3
<1>4. LiveThreads \subseteq LiveThreads' /\ \A u \in Workers : thr[u].pc # "none" => thr'[u].pc # "none"
  BY <1>0, <1>2 DEF LiveThreads
<1>5. thr'[Net] = thr[Net]
  BY <1>0, <1>2
<1> QED
  BY <1>1, <1>3, <1>4, <1>5, SamePoolsRelease

(* job_queued may start threads, but not in a pool that was aborted.       *)
LEMMA NotifyRelease ==
    ASSUME DInv, PoolInv, ReleaseInv, SubmitJobs \/ AbortSubmits \/ \E t \in Threads : NotifyReleased(t)
    PROVE  ReleaseInv'
<1>0. /\ thr \in [Threads -> ThreadState] /\ m_queued_jobs \in [Pools -> Seq(Jobs)] /\ DOMAIN thr = Threads
      /\ Net \in Threads /\ Net \notin Workers /\ Workers \subseteq Threads /\ IsFiniteSet(Workers)
      /\ pools \in [Pools -> PoolObject(Workers)]
  BY ThreadSets DEF DInv, ListTypes, PoolInv
<1>1. UNCHANGED <<m_abort, released>>
  BY DEF SubmitJobs, AbortSubmits, NotifyReleased
<1>2. \E S, base : /\ S \subseteq Pools /\ NotifyQueues(S, base)
                   /\ \A u \in Workers : base[u] = thr[u] \/ (thr[u].pc = "notify" /\ base[u].pc = "post")
                   /\ base[Net] = thr[Net] \/ base[Net].pc \in {"abort", "post"}
  <2>1. CASE SubmitJobs
    <3>1. NotifyQueues(NonEmptyQueues, thr) /\ NonEmptyQueues \subseteq Pools
      BY <2>1 DEF SubmitJobs, NonEmptyQueues
    <3> QED
      BY <3>1
  <2>2. CASE AbortSubmits
    <3> DEFINE base == [thr EXCEPT ![Net] = At("abort", <<>>)]
    <3>1. NotifyQueues(NonEmptyQueues, base) /\ NonEmptyQueues \subseteq Pools
      BY <2>2 DEF AbortSubmits, NonEmptyQueues
    <3>2. base[Net].pc = "abort" /\ \A u \in Workers : base[u] = thr[u]
      BY <1>0 DEF At
    <3> HIDE DEF base
    <3> QED
      BY <3>1, <3>2
  <2>3. CASE \E t \in Threads : NotifyReleased(t)
    <3>1. PICK t \in Threads : NotifyReleased(t)
      BY <2>3
    <3> DEFINE base == [thr EXCEPT ![t].pc = "post"]
    <3>2. NotifyQueues({"generic"}, base) /\ thr[t].pc = "notify" /\ thr[t] \in ThreadState /\ {"generic"} \subseteq Pools
      BY <1>0, <3>1 DEF NotifyReleased, Pools
    <3>3. base[t].pc = "post" /\ \A u \in Threads : u # t => base[u] = thr[u]
      BY <1>0, <3>2 DEF ThreadState
    <3> HIDE DEF base
    <3>4. \A u \in Workers : base[u] = thr[u] \/ (thr[u].pc = "notify" /\ base[u].pc = "post")
      BY <1>0, <3>2, <3>3
    <3>5. base[Net] = thr[Net] \/ base[Net].pc \in {"abort", "post"}
      BY <1>0, <3>3
    <3> QED
      BY <3>2, <3>4, <3>5
  <2> QED
    BY <2>1, <2>2, <2>3
<1>3. PICK S, base : /\ S \subseteq Pools /\ NotifyQueues(S, base)
                     /\ \A u \in Workers : base[u] = thr[u] \/ (thr[u].pc = "notify" /\ base[u].pc = "post")
                     /\ base[Net] = thr[Net] \/ base[Net].pc \in {"abort", "post"}
  BY <1>2
<1>4. PICK new \in [S -> SUBSET {t \in Workers : thr[t].pc = "none"}] :
        /\ \A q \in S : /\ new[q] \subseteq ThreadsOf(q)
                        /\ Cardinality(new[q]) = NumToStart(pools[q], Len(m_queued_jobs[q]))
        /\ pools' = [q \in Pools |-> IF q \in S THEN JobQueued(pools[q], Len(m_queued_jobs[q]), new[q])
                                               ELSE pools[q]]
        /\ thr' = [t \in DOMAIN thr |->
                     IF \E q \in S : t \in new[q] THEN At("start", <<>>) ELSE base[t]]
  BY <1>3 DEF NotifyQueues
<1>5. At("start", <<>>).pc = "start"
  BY DEF At
<1>6. ASSUME NEW u \in Workers
      PROVE  \/ thr'[u].pc = "start" /\ thr[u].pc = "none"
             \/ ~ (\E q \in S : u \in new[q]) /\ (thr'[u] = thr[u] \/ (thr[u].pc = "notify" /\ thr'[u].pc = "post"))
  <2>1. CASE \E q \in S : u \in new[q]
    BY <1>0, <1>4, <1>5, <2>1
  <2>2. CASE ~ \E q \in S : u \in new[q]
    <3>1. thr'[u] = base[u]
      BY <1>0, <1>4, <2>2
    <3> QED
      BY <1>3, <2>2, <3>1
  <2> QED
    BY <2>1, <2>2
<1>7. LiveThreads \subseteq LiveThreads' /\ \A u \in Workers : thr[u].pc # "none" => thr'[u].pc # "none"
  BY <1>6 DEF LiveThreads
<1>8. ASSUME NEW q \in S PROVE new[q] \subseteq LiveThreads'
  BY <1>4, <1>6, <1>8 DEF LiveThreads
<1>9. thr'[Net].pc \in {"abort_generic", "abort_hash"} => thr'[Net].pc = thr[Net].pc
  <2>1. thr'[Net] = base[Net]
    BY <1>0, <1>4
  <2> QED
    BY <1>3, <2>1
<1>10. ASSUME NEW q \in Pools
       PROVE  /\ pools'[q].m_threads \subseteq pools[q].m_threads \union LiveThreads'
              /\ pools'[q].m_abort = pools[q].m_abort
              /\ pools[q].m_abort => pools'[q].m_threads = {}
  <2>0. pools[q].m_abort => pools[q].m_threads = {}
    BY DEF ReleaseInv
  <2>1. CASE q \notin S
    BY <1>4, <2>0, <2>1
  <2>2. CASE q \in S
    <3>1. PICK p \in PoolObject(Workers) : p = pools[q]
      BY <1>0
    <3>2. PICK n \in Nat : n = Len(m_queued_jobs[q])
      BY <1>0
    <3>3. PICK N \in SUBSET Workers : N = new[q]
      BY <1>4, <2>2
    <3>4. Cardinality(N) = NumToStart(p, n) /\ pools'[q] = JobQueued(p, n, N)
      BY <1>4, <2>2, <3>1, <3>2, <3>3
    <3>5. JobQueued(p, n, N).m_threads = p.m_threads \union N /\ JobQueued(p, n, N).m_abort = p.m_abort
      BY <1>0, <3>4, JobQueuedPool
    <3>6. p.m_abort => JobQueued(p, n, N) = p
      BY DEF JobQueued, QueuedIsServed
    <3> QED
      BY <1>8, <2>0, <2>2, <3>1, <3>3, <3>4, <3>5, <3>6
  <2> QED
    BY <2>1, <2>2
<1> QED
  BY <1>1, <1>7, <1>9, <1>10, QuietRelease

(* Changed settings and the timer leave the vectors of the pools alone.    *)
LEMMA SettingsRelease ==
    ASSUME DInv, PoolInv, ReleaseInv,
           (\E s \in Settings : SettingsUpdated(s)) \/ (\E q \in Pools : Reap(q))
    PROVE  ReleaseInv'
<1>0. {"generic", "hash"} = Pools /\ pools \in [Pools -> PoolObject(Workers)] /\ IsFiniteSet(Workers)
  BY ThreadSets DEF Pools, PoolInv
<1>1. UNCHANGED <<m_abort, released, thr>>
  BY DEF SettingsUpdated, Reap
<1>2. \A q \in Pools : pools'[q].m_threads = pools[q].m_threads /\ pools'[q].m_abort = pools[q].m_abort
  <2>1. ASSUME NEW s \in Settings, SettingsUpdated(s), NEW q \in Pools
        PROVE  pools'[q].m_threads = pools[q].m_threads /\ pools'[q].m_abort = pools[q].m_abort
    <3>1. PICK i : pools'[q] = SetMaxThreads(pools[q], i)
      BY <1>0, <2>1 DEF SettingsUpdated
    <3>2. PICK p \in PoolObject(Workers) : p = pools[q]
      BY <1>0
    <3>3. SetMaxThreads(p, i).m_threads = p.m_threads /\ SetMaxThreads(p, i).m_abort = p.m_abort
      BY DEF SetMaxThreads, StopThreads, PoolObject
    <3> QED
      BY <3>1, <3>2, <3>3
  <2>2. ASSUME NEW r \in Pools, Reap(r), NEW q \in Pools
        PROVE  pools'[q].m_threads = pools[q].m_threads /\ pools'[q].m_abort = pools[q].m_abort
    <3>1. /\ pools' = [pools EXCEPT ![r] = pools'[r]]
          /\ pools'[r].m_threads = pools[r].m_threads /\ pools'[r].m_abort = pools[r].m_abort
      BY <1>0, <2>2, ReapIs
    <3>2. q # r => pools'[q] = pools[q]
      BY <1>0, <3>1
    <3> QED
      BY <3>1, <3>2
  <2> QED
    BY <2>1, <2>2
<1>3. LiveThreads' = LiveThreads
  BY <1>1 DEF LiveThreads
<1> QED
  BY <1>1, <1>2, <1>3, SamePoolsRelease

(* abort() sets m_abort and, under the same mutex, looks for threads.      *)
LEMMA AbortStartsRelease ==
    ASSUME DInv, ReleaseInv, AbortStarts
    PROVE  ReleaseInv'
<1>0. thr \in [Threads -> ThreadState] /\ Net \in Threads /\ Net \notin Workers /\ Workers \subseteq Threads
  BY ThreadSets DEF DInv, ListTypes
<1>1. /\ m_abort' = TRUE /\ pools' = pools /\ thr' = [thr EXCEPT ![Net] = At("abort_generic", <<>>)]
      /\ released' = (released \/ \A q \in Pools : pools[q].m_threads = {})
  BY DEF AbortStarts, NetGoes, poolVars
<1>2. \A u \in Workers : thr'[u] = thr[u]
  BY <1>0, <1>1
<1>3. LiveThreads' = LiveThreads
  BY <1>2 DEF LiveThreads
<1>4. released' \/ \E t \in Workers : thr'[t].pc # "none"
  <2>1. ASSUME NEW q \in Pools, NEW t \in pools[q].m_threads PROVE t \in Workers /\ thr[t].pc # "none"
    BY <2>1 DEF ReleaseInv, LiveThreads
  <2>2. released' = TRUE \/ \E q \in Pools : \E t \in pools[q].m_threads : TRUE
    BY <1>1
  <2> QED
    BY <1>2, <2>1, <2>2
<1> QED
  BY <1>1, <1>3, <1>4 DEF ReleaseInv

(* The pools are aborted after that.                                       *)
LEMMA AbortPoolsRelease ==
    ASSUME DInv, PoolInv, ReleaseInv, AbortPools
    PROVE  ReleaseInv'
<1>0. /\ thr \in [Threads -> ThreadState] /\ Net \in Threads /\ Net \notin Workers /\ Workers \subseteq Threads
      /\ pools \in [Pools -> PoolObject(Workers)] /\ IsFiniteSet(Workers) /\ {"generic", "hash"} = Pools
  BY ThreadSets DEF DInv, ListTypes, PoolInv, Pools
<1>1. m_abort /\ UNCHANGED <<m_abort, released>>
  BY DEF AbortPools, ReleaseInv
<1>2. PICK r \in Pools : pools' = [pools EXCEPT ![r] = Abort(@)]
  BY <1>0 DEF AbortPools
<1>3. \A u \in Workers : thr'[u] = thr[u]
  <2>1. \E h : thr' = [thr EXCEPT ![Net] = h]
    BY DEF AbortPools, NetGoes
  <2> QED
    BY <1>0, <2>1
<1>4. LiveThreads' = LiveThreads
  BY <1>3 DEF LiveThreads
<1>5. ASSUME NEW q \in Pools
      PROVE  pools'[q].m_threads \subseteq LiveThreads /\ (pools'[q].m_abort => pools'[q].m_threads = {})
  <2>1. CASE q # r
    <3>1. pools'[q] = pools[q]
      BY <1>0, <1>2, <2>1
    <3> QED
      BY <3>1 DEF ReleaseInv
  <2>2. CASE q = r
    <3>1. PICK p \in PoolObject(Workers) : p = pools[q]
      BY <1>0
    <3>2. pools'[q] = Abort(p)
      BY <1>0, <1>2, <2>2, <3>1
    <3>3. p.m_abort => Abort(p) = p /\ p.m_threads = {}
      BY <3>1 DEF Abort, ReleaseInv
    <3>4. ~ p.m_abort => Abort(p).m_threads = {}
      BY <1>0, AbortPoolObject
    <3> QED
      BY <3>2, <3>3, <3>4
  <2> QED
    BY <2>1, <2>2
<1>6. m_abort => released \/ \E t \in Workers : thr[t].pc # "none"
  BY DEF ReleaseInv
<1> QED
  BY <1>1, <1>3, <1>4, <1>5, <1>6 DEF ReleaseInv

(* A thread that finds no job waits or leaves; the last one to leave after *)
(* abort() cleans up.                                                      *)
LEMMA WaitRelease ==
    ASSUME DInv, PoolInv, PoolInv', ReleaseInv, NEW t, t \in Workers, WaitOrExit(t)
    PROVE  ReleaseInv'
<1>0. /\ thr \in [Threads -> ThreadState] /\ pools \in [Pools -> PoolObject(Workers)] /\ IsFiniteSet(Workers)
      /\ t \in Threads /\ Net \in Threads /\ t # Net /\ Workers \subseteq Threads /\ PoolOf(t) \in Pools
      /\ t \in ThreadsOf(PoolOf(t))
      /\ \A q \in Pools : q # PoolOf(t) => t \notin ThreadsOf(q)
      /\ \A q \in Pools : pools[q].m_threads \subseteq ThreadsOf(q)
  BY ThreadSets DEF DInv, ListTypes, PoolInv, PoolIs
<1>1. PICK q : q = PoolOf(t)
  OBVIOUS
<1>2. PICK p \in PoolObject(Workers) : p = pools[q]
  BY <1>0, <1>1
<1> DEFINE idle == IF thr[t].pc = "idle" THEN p ELSE ThreadIdle(p)
<1>3. /\ UNCHANGED <<m_abort, released>> /\ thr[t].pc \in {"start", "loop", "idle"}
      /\ \/ /\ ShouldExit(idle)
            /\ pools' = [pools EXCEPT ![q] = ThreadActive(Unregister(ClaimExit(idle), t))]
            /\ \/ thr' = [thr EXCEPT ![t] = At("none", <<>>)] /\ (m_num_running_threads' # 0 \/ ~ m_abort)
               \/ thr' = [thr EXCEPT ![t] = At("cleanup", <<>>)]
         \/ /\ pools' = [pools EXCEPT ![q] = idle]
            /\ thr' = [thr EXCEPT ![t] = At("idle", <<>>)]
  BY <1>1, <1>2 DEF WaitOrExit, Stopped, CleansUp
<1>4. idle \in PoolObject(Workers) /\ idle.m_threads = p.m_threads /\ idle.m_abort = p.m_abort
  <2>1. /\ ThreadIdle(p) \in PoolObject(Workers) /\ ThreadIdle(p).m_threads = p.m_threads
        /\ ThreadIdle(p).m_abort = p.m_abort
    BY <1>2 DEF ThreadIdle, PoolObject
  <2> QED
    BY <2>1
<1> HIDE DEF idle
<1>5. CASE pools' = [pools EXCEPT ![q] = idle] /\ thr' = [thr EXCEPT ![t] = At("idle", <<>>)]
  <2>1. thr'[t].pc = "idle" /\ \A u \in Threads : u # t => thr'[u] = thr[u]
    BY <1>0, <1>5 DEF At
  <2>2. LiveThreads \subseteq LiveThreads' /\ (\A u \in Workers : thr[u].pc # "none" => thr'[u].pc # "none")
        /\ thr'[Net] = thr[Net]
    BY <1>0, <2>1 DEF LiveThreads
  <2>3. \A r \in Pools : pools'[r].m_threads = pools[r].m_threads /\ pools'[r].m_abort = pools[r].m_abort
    BY <1>0, <1>1, <1>2, <1>4, <1>5
  <2> QED
    BY <1>3, <2>2, <2>3, SamePoolsRelease
<1>6. CASE /\ ShouldExit(idle)
           /\ pools' = [pools EXCEPT ![q] = ThreadActive(Unregister(ClaimExit(idle), t))]
           /\ \/ thr' = [thr EXCEPT ![t] = At("none", <<>>)] /\ (m_num_running_threads' # 0 \/ ~ m_abort)
              \/ thr' = [thr EXCEPT ![t] = At("cleanup", <<>>)]
  <2>1. /\ thr'[t].pc \in {"none", "cleanup"} /\ \A u \in Threads : u # t => thr'[u] = thr[u]
        /\ thr'[t].pc = "none" => m_num_running_threads' # 0 \/ ~ m_abort
    <3>1. At("none", <<>>).pc = "none" /\ At("cleanup", <<>>).pc = "cleanup"
      BY DEF At
    <3>2. \E h : thr' = [thr EXCEPT ![t] = h]
      BY <1>6
    <3>3. \A u \in Threads : u # t => thr'[u] = thr[u]
      BY <1>0, <3>2
    <3>4. CASE thr' = [thr EXCEPT ![t] = At("none", <<>>)] /\ (m_num_running_threads' # 0 \/ ~ m_abort)
      BY <1>0, <3>1, <3>3, <3>4
    <3>5. CASE thr' = [thr EXCEPT ![t] = At("cleanup", <<>>)]
      BY <1>0, <3>1, <3>3, <3>5
    <3> QED
      BY <1>6, <3>4, <3>5
  <2>2. /\ pools'[q].m_abort = p.m_abort
        /\ IF p.m_abort THEN pools'[q].m_threads \subseteq p.m_threads ELSE pools'[q].m_threads = p.m_threads \ {t}
        /\ \A r \in Pools : r # q => pools'[r] = pools[r]
    <3>1. PICK c : c = ClaimExit(idle)
      OBVIOUS
    <3>2. c \in PoolObject(Workers) /\ c.m_threads = idle.m_threads /\ c.m_abort = idle.m_abort
      BY <1>4, <1>6, <3>1 DEF ClaimExit, ShouldExit, PoolObject
    <3>3. PICK r : r = Unregister(c, t)
      OBVIOUS
    <3>4. /\ r \in PoolObject(Workers) /\ r.m_abort = c.m_abort /\ r.m_threads \subseteq c.m_threads
          /\ ~ c.m_abort => r.m_threads = c.m_threads \ {t}
      BY <1>0, <3>2, <3>3, UnregisterPool
    <3>5. ThreadActive(r).m_abort = r.m_abort /\ ThreadActive(r).m_threads = r.m_threads
      BY <3>4 DEF ThreadActive, PoolObject
    <3>6. pools'[q] = ThreadActive(r) /\ \A x \in Pools : x # q => pools'[x] = pools[x]
      BY <1>0, <1>1, <1>6, <3>1, <3>3
    <3> QED
      BY <1>4, <3>2, <3>4, <3>5, <3>6
  <2>3. LiveThreads' = LiveThreads \ {t}
    BY <1>0, <2>1 DEF LiveThreads
  <2>4. ASSUME NEW r \in Pools
        PROVE  /\ pools'[r].m_threads \subseteq LiveThreads'
               /\ pools'[r].m_abort => m_abort' /\ pools'[r].m_threads = {}
    <3>1. pools[r].m_threads \subseteq LiveThreads /\ (pools[r].m_abort => m_abort /\ pools[r].m_threads = {})
      BY DEF ReleaseInv
    <3>2. CASE r = q
      BY <1>2, <1>3, <2>2, <2>3, <3>1, <3>2
    <3>3. CASE r # q
      <4>1. t \notin pools[r].m_threads /\ pools'[r] = pools[r]
        BY <1>0, <1>1, <2>2, <3>3
      <4> QED
        BY <1>3, <2>3, <3>1, <4>1
    <3> QED
      BY <3>2, <3>3
  <2>5. thr'[Net].pc \in {"abort_generic", "abort_hash"} => m_abort'
    BY <1>0, <1>3, <2>1 DEF ReleaseInv
  <2>6. ASSUME m_abort', ~ released' PROVE \E u \in Workers : thr'[u].pc # "none"
    <3>1. CASE thr'[t].pc = "cleanup"
      BY <3>1
    <3>2. CASE thr'[t].pc = "none"
      <4>1. m_num_running_threads' # 0
        BY <1>3, <2>1, <2>6, <3>2
      <4>2. Cardinality(CountedThreads') # 0
        BY <4>1 DEF PoolInv
      <4>3. CountedThreads' # {}
        BY <4>2, FS_EmptySet
      <4>4. PICK u \in Workers : thr'[u].pc \in Counted
        BY <4>3 DEF CountedThreads
      <4> QED
        BY <4>4 DEF Counted, Executing, Passing
    <3> QED
      BY <2>1, <3>1, <3>2
  <2> QED
    BY <2>4, <2>5, <2>6 DEF ReleaseInv
<1> QED
  BY <1>3, <1>5, <1>6

(* The last thread closes the files.                                       *)
LEMMA CleanUpRelease ==
    ASSUME DInv, ReleaseInv, NEW t, t \in Threads, CleanUp(t)
    PROVE  ReleaseInv'
<1>0. thr \in [Threads -> ThreadState] /\ Workers \subseteq Threads /\ Net \in Threads
  BY ThreadSets DEF DInv, ListTypes
<1>1. /\ thr[t].pc = "cleanup" /\ thr' = [thr EXCEPT ![t] = Stopped] /\ released' = TRUE
      /\ UNCHANGED <<pools, m_abort>>
  BY DEF CleanUp, poolVars
<1>2. thr'[t].pc = "none" /\ \A u \in Threads : u # t => thr'[u] = thr[u]
  BY <1>0, <1>1 DEF Stopped, At
<1>3. LiveThreads' = LiveThreads
  BY <1>0, <1>1, <1>2 DEF LiveThreads
<1>4. thr'[Net].pc \in {"abort_generic", "abort_hash"} => m_abort
  BY <1>0, <1>2 DEF ReleaseInv
<1> QED
  BY <1>1, <1>3, <1>4 DEF ReleaseInv

(* Every step keeps the invariant.                                         *)
LEMMA NextRelease == DInv /\ DiskTypes /\ ReleaseInv /\ [Next]_vars => ReleaseInv'
<1> SUFFICES ASSUME DInv, DiskTypes, ReleaseInv, [Next]_vars PROVE ReleaseInv'
  OBVIOUS
<1>0. PoolInv /\ Net \in Threads /\ Workers \subseteq Threads
  BY ThreadSets DEF DiskTypes
<1>1. ASSUME NEW t \in Threads, ThreadStep(t) PROVE ReleaseInv'
  <2>1. CASE t \in Workers /\ TakeJob(t)
    BY <1>0, <2>1, TakeRelease
  <2>2. CASE t \in Workers /\ WaitOrExit(t)
    BY <1>0, <2>2, WaitOrExitPool, WaitRelease
  <2>3. CASE CleanUp(t)
    BY <2>3, CleanUpRelease
  <2>4. CASE \/ \E j \in Jobs : Execute(t, j)
             \/ LeaveFence(t) \/ RouteReleased(t) \/ AppendReleased(t) \/ PostCompleted(t)
    BY <2>4, WorkRelease
  <2>5. CASE NotifyReleased(t)
    BY <1>0, <2>5, NotifyRelease
  <2> QED
    BY <1>1, <2>1, <2>2, <2>3, <2>4, <2>5 DEF ThreadStep, CompleteJobs
<1>2. CASE Client
  <2>1. ASSUME NEW j, AsyncWrite(j) \/ AsyncRead(j) \/ AsyncHash(j) \/ AsyncFence(j) PROVE ReleaseInv'
    BY <2>1, IssueRelease
  <2>2. ASSUME (\E s \in Settings : SettingsUpdated(s)) \/ (\E q \in Pools : Reap(q)) PROVE ReleaseInv'
    BY <1>0, <2>2, SettingsRelease
  <2>3. ASSUME AbortSubmits PROVE ReleaseInv'
    BY <1>0, <2>3, NotifyRelease
  <2> QED
    BY <1>2, <2>1, <2>2, <2>3 DEF Client
<1>3. CASE NetStep
  <2>1. ASSUME NEW j \in Jobs, JobFailAdd(j) \/ AddJob(j) \/ AddFenceJob(j) PROVE ReleaseInv'
    BY <2>1, IssueRelease
  <2>2. ASSUME PushJob \/ ImmediateExecute PROVE ReleaseInv'
    BY <2>2, IssueRelease
  <2>3. ASSUME AbortStarts PROVE ReleaseInv'
    BY <2>3, AbortStartsRelease
  <2>4. ASSUME AbortPools PROVE ReleaseInv'
    BY <1>0, <2>4, AbortPoolsRelease
  <2> QED
    BY <1>0, <1>1, <1>3, <2>1, <2>2, <2>3, <2>4 DEF NetStep
<1>4. CASE SubmitJobs
  BY <1>0, <1>4, NotifyRelease
<1>5. CASE CallJobHandlers
  BY <1>5, IssueRelease
<1>6. CASE UNCHANGED vars
  <2>1. UNCHANGED <<pools, m_abort, released, thr>>
    BY <1>6 DEF vars
  <2> QED
    BY <2>1 DEF ReleaseInv, LiveThreads
<1> QED
  BY <1>0, <1>1, <1>2, <1>3, <1>4, <1>5, <1>6 DEF Next

(* It holds initially.                                                     *)
LEMMA InitRelease == Init => ReleaseInv
<1> SUFFICES ASSUME Init PROVE ReleaseInv
  OBVIOUS
<1>1. ~ m_abort /\ thr[Net].pc = "none"
  BY DEF Init, Stopped, At
<1>2. PICK s \in Settings :
          pools = [q \in Pools |-> SetMaxThreads(NewPool, s[IF q = "generic" THEN 1 ELSE 2])]
  BY DEF Init
<1>3. \A i : SetMaxThreads(NewPool, i).m_threads = {} /\ ~ SetMaxThreads(NewPool, i).m_abort
  BY DEF SetMaxThreads, StopThreads, NewPool
<1>4. \A q \in Pools : pools[q].m_threads = {} /\ ~ pools[q].m_abort
  BY <1>2, <1>3
<1> QED
  BY <1>1, <1>4 DEF ReleaseInv

(* When the disk threads are gone after abort() the files have been        *)
(* closed, for any number of threads of both kinds and any settings, jobs  *)
(* and disk faults: m_num_running_threads counts exactly the threads that  *)
(* run, so that the last one to leave knows it, and abort() closes the     *)
(* files itself only if no thread is registered.                           *)
THEOREM FilesAreReleased == Spec => []FilesReleased
<1>1. DInv /\ ReleaseInv => FilesReleased
  <2> SUFFICES ASSUME DInv, ReleaseInv, Gone PROVE released
    BY DEF FilesReleased
  <2>1. DOMAIN thr = Threads /\ Workers \subseteq Threads /\ "generic" \in Pools
    BY ThreadSets DEF DInv, ListTypes, Pools
  <2>2. m_abort /\ \A t \in Workers : thr[t].pc = "none"
    BY <2>1 DEF Gone, ReleaseInv
  <2> QED
    BY <2>2 DEF ReleaseInv
<1> QED
  BY <1>1, NextRelease, InitRelease, DiskTypesHold, PTL DEF Spec

-----------------------------------------------------------------------------
(***************************************************************************)
(* Shutdown: every job is answered.                                        *)
(***************************************************************************)

(* aio_threads is not lowered to 0, and there are no hashing threads       *)
(* without generic ones: jobs that are queued for threads that are told to *)
(* exit, or for the network thread when a hashing thread is expected to do *)
(* the work, are left behind.                                              *)
ThreadsRemain ==
    /\ \A s \in Settings : s[1] = 0 => s[2] = 0
    /\ \A c \in SettingsChanges : c[1][1] > 0 => c[2][1] > 0

(* As long as there is no full check the hashing threads are not used.     *)
NoHashing ==
    /\ m_queued_jobs["hash"] = <<>> /\ (MaxThreads("generic") = 0 => MaxThreads("hash") = 0)
    /\ \A t \in HashThreads : thr[t].pc = "none"

(* Until the pool is aborted its vector holds the threads there are.       *)
Registered == ~ pools["generic"].m_abort => pools["generic"].m_threads = LiveThreads

(* Where the network thread is in a shutdown: it runs no jobs any more.    *)
NetStage ==
    /\ thr[Net].pc \notin {"start", "idle", "cleanup"}
    /\ m_abort => thr[Net].pc \in {"none", "add", "abort_generic", "abort_hash"}
    /\ thr[Net].pc \in {"abort_generic", "abort_hash"} => m_abort
    /\ pools["generic"].m_abort => m_abort

(* Without threads the network thread leaves no job in the queue when it   *)
(* turns to something else.                                                *)
ElsewherePcs == {"none", "add", "push", "abort", "abort_generic", "abort_hash"}

NoThreads ==
    MaxThreads("generic") = 0 =>
        LiveThreads = {} /\ (thr[Net].pc \in ElsewherePcs => m_queued_jobs["generic"] = <<>>)

(* Jobs that are queued when the session shuts down have a thread.         *)
QueueServed ==
    (m_abort \/ thr[Net].pc = "abort") /\ m_queued_jobs["generic"] # <<>> => LiveThreads # {}

ShutInv == NoHashing /\ Registered /\ NetStage /\ NoThreads /\ QueueServed

(* What a step may do to the generic pool without starting or ending a     *)
(* thread.                                                                 *)
PoolsLike ==
    /\ pools'["generic"].m_threads = pools["generic"].m_threads
    /\ pools'["generic"].m_abort = pools["generic"].m_abort
    /\ pools'["generic"].m_max_threads = 0 => pools["generic"].m_max_threads = 0
    /\ pools'["generic"].m_max_threads = 0 => pools'["hash"].m_max_threads = 0

(* A step of the network thread that starts or ends nothing.               *)
LEMMA NetKeepsShut ==
    ASSUME ShutInv, \A u \in Workers : thr'[u] = thr[u], PoolsLike, UNCHANGED m_abort,
           m_queued_jobs'["hash"] = <<>>,
           thr'[Net].pc \notin {"start", "idle", "cleanup"},
           m_abort => /\ thr'[Net].pc \in {"none", "add", "abort_generic", "abort_hash"}
                      /\ m_queued_jobs'["generic"] = m_queued_jobs["generic"],
           thr'[Net].pc \in {"abort_generic", "abort_hash"} => m_abort,
           thr'[Net].pc = "abort" => thr[Net].pc = "abort" /\ m_queued_jobs'["generic"] = m_queued_jobs["generic"],
           pools'["generic"].m_max_threads = 0 /\ thr'[Net].pc \in ElsewherePcs => m_queued_jobs'["generic"] = <<>>
    PROVE  ShutInv'
<1>0. NoHashing /\ Registered /\ NetStage /\ NoThreads /\ QueueServed
  BY DEF ShutInv
<1>1. LiveThreads' = LiveThreads /\ HashThreads \subseteq Workers
  BY DEF LiveThreads, Workers
<1>2. NoHashing'
  BY <1>0, <1>1 DEF NoHashing, PoolsLike, MaxThreads
<1>3. Registered'
  BY <1>0, <1>1 DEF Registered, PoolsLike
<1>4. NetStage'
  BY <1>0 DEF NetStage, PoolsLike
<1>5. NoThreads'
  BY <1>0, <1>1 DEF NoThreads, PoolsLike, MaxThreads
<1>6. QueueServed'
  BY <1>0, <1>1 DEF QueueServed
<1> QED
  BY <1>2, <1>3, <1>4, <1>5, <1>6 DEF ShutInv

(* A step of a thread that has something to do and goes on.                *)
LEMMA BusyKeepsShut ==
    ASSUME ShutInv, NEW t, t \in Workers, \A u \in Threads : u # t => thr'[u] = thr[u],
           thr[t].pc \notin {"none", "cleanup"}, thr'[t].pc \notin {"none", "cleanup"},
           PoolsLike, UNCHANGED m_abort, m_queued_jobs'["hash"] = m_queued_jobs["hash"]
    PROVE  ShutInv'
<1>0. /\ NoHashing /\ Registered /\ NetStage /\ NoThreads /\ QueueServed
      /\ Workers \subseteq Threads /\ Net \in Threads /\ Net # t /\ HashThreads \subseteq Workers
  BY ThreadSets DEF ShutInv, Workers
<1>1. LiveThreads' = LiveThreads /\ t \in LiveThreads /\ thr'[Net] = thr[Net] /\ t \notin HashThreads
  BY <1>0 DEF LiveThreads, NoHashing
<1>2. NoHashing'
  BY <1>0, <1>1 DEF NoHashing, PoolsLike, MaxThreads
<1>3. Registered'
  BY <1>0, <1>1 DEF Registered, PoolsLike
<1>4. NetStage'
  BY <1>0, <1>1 DEF NetStage, PoolsLike
<1>5. NoThreads'
  BY <1>0, <1>1 DEF NoThreads, PoolsLike, MaxThreads
<1>6. QueueServed'
  BY <1>0, <1>1 DEF QueueServed
<1> QED
  BY <1>2, <1>3, <1>4, <1>5, <1>6 DEF ShutInv

(* Execution and completion of jobs keep the invariant.                    *)
LEMMA WorkKeepsShut ==
    ASSUME DInv, ShutInv, NEW t, t \in Threads,
           \/ \E j \in Jobs : Execute(t, j)
           \/ LeaveFence(t) \/ RouteReleased(t) \/ AppendReleased(t) \/ PostCompleted(t)
    PROVE  ShutInv'
<1>0. NoHashing /\ NetStage /\ m_queued_jobs \in [Pools -> Seq(Jobs)] /\ {"generic", "hash"} = Pools
  BY DEF ShutInv, DInv, ListTypes, Pools
<1>1. /\ thr[t].pc \in Executing \union Passing
      /\ thr'[t].pc \in Executing \union Passing \union {"loop"}
      /\ \A u \in Threads : u # t => thr'[u] = thr[u]
  BY WorkMoves
<1>2. UNCHANGED <<pools, m_abort, released>>
  BY DEF Execute, SkipAborted, WriteBlock, EraseBuffer, ReadBlocks, StartHash, HashLookup, poolVars,
         HashFile, PerformFence, execUnchanged, LeaveFence, RouteReleased, AppendReleased, PostCompleted
<1>3. m_queued_jobs'["hash"] = m_queued_jobs["hash"]
  <2>1. m_queued_jobs' = m_queued_jobs \/ \E s : m_queued_jobs' = [m_queued_jobs EXCEPT !["generic"] = s]
    BY DEF Execute, SkipAborted, WriteBlock, EraseBuffer, ReadBlocks, StartHash, HashLookup,
           HashFile, PerformFence, execUnchanged, LeaveFence, RouteReleased, AppendReleased, PostCompleted
  <2> QED
    BY <1>0, <2>1
<1>4. PoolsLike
  BY <1>0, <1>2 DEF PoolsLike, NoHashing, MaxThreads
<1>5. CASE t \in Workers
  <2>1. thr[t].pc \notin {"none", "cleanup", "start", "loop", "idle"} /\ thr'[t].pc \notin {"none", "cleanup"}
    BY <1>1 DEF Executing, Passing
  <2> QED
    BY <1>1, <1>2, <1>3, <1>4, <1>5, <2>1, BusyKeepsShut
<1>6. CASE t = Net
  <2>1. \A u \in Workers : thr'[u] = thr[u]
    BY <1>1, <1>6, ThreadSets
  <2>2. ~ m_abort
    BY <1>0, <1>1, <1>6 DEF NetStage, Executing, Passing
  <2>3. thr'[Net].pc \notin {"start", "idle", "cleanup"} \union ElsewherePcs
    BY <1>1, <1>6 DEF Executing, Passing, ElsewherePcs
  <2>4. m_queued_jobs'["hash"] = <<>>
    BY <1>0, <1>3 DEF NoHashing
  <2> QED
    BY <1>2, <1>4, <2>1, <2>2, <2>3, <2>4, NetKeepsShut DEF ElsewherePcs
<1> QED
  BY <1>5, <1>6 DEF Threads

(* The operations on a pool that do not change the maximum.                *)
LEMMA MaxKept ==
    ASSUME NEW T, NEW p \in PoolObject(T), NEW t, NEW n, NEW new
    PROVE  /\ ThreadIdle(p).m_max_threads = p.m_max_threads
           /\ ThreadActive(p).m_max_threads = p.m_max_threads
           /\ ClaimExit(p).m_max_threads = p.m_max_threads
           /\ Unregister(p, t).m_max_threads = p.m_max_threads
           /\ JobQueued(p, n, new).m_max_threads = p.m_max_threads
           /\ Abort(p).m_max_threads = p.m_max_threads
<1>1. /\ ThreadIdle(p).m_max_threads = p.m_max_threads
      /\ ThreadActive(p).m_max_threads = p.m_max_threads
      /\ ClaimExit(p).m_max_threads = p.m_max_threads
      /\ Unregister(p, t).m_max_threads = p.m_max_threads
  BY DEF ThreadIdle, ThreadActive, ClaimExit, Unregister, PoolObject
<1>2. JobQueued(p, n, new).m_max_threads = p.m_max_threads
  BY DEF JobQueued, PoolObject
<1>3. Abort(p).m_max_threads = p.m_max_threads
  BY DEF Abort, StopThreads, PoolObject
<1> QED
  BY <1>1, <1>2, <1>3

(* set_max_threads changes it.                                             *)
LEMMA MaxSet ==
    ASSUME NEW T, NEW p \in PoolObject(T), NEW i \in Nat
    PROVE  SetMaxThreads(p, i).m_max_threads = i
  BY DEF SetMaxThreads, StopThreads, PoolObject

(* A thread is started for a job when none is registered and there may be  *)
(* one; none is if there may be none.                                      *)
LEMMA StartsOne ==
    ASSUME NEW T, IsFiniteSet(T), NEW p \in PoolObject(T), NEW n \in Nat
    PROVE  /\ NumToStart(p, n) \in Nat
           /\ n > 0 /\ p.m_threads = {} /\ ~ p.m_abort /\ p.m_num_idle_threads = 0 /\ p.m_max_threads > 0
              => NumToStart(p, n) > 0
           /\ p.m_max_threads = 0 => NumToStart(p, n) = 0
<1> DEFINE size == Cardinality(p.m_threads)
           a == n - p.m_num_idle_threads
           b == p.m_max_threads - size
<1>1. size \in Nat /\ p.m_num_idle_threads \in Nat /\ p.m_max_threads \in Nat
  BY FS_Subset, FS_CardinalityType DEF PoolObject
<1>2. p.m_threads = {} => size = 0
  BY FS_EmptySet
<1>3. NumToStart(p, n) = IF QueuedIsServed(p, n) THEN 0 ELSE Max({0, Min({a, b})})
  BY DEF NumToStart
<1> HIDE DEF size
<1>4. Min({a, b}) = IF a <= b THEN a ELSE b
  BY <1>1, MinMaxOfTwo
<1>5. PICK m \in Int : m = Min({a, b})
  BY <1>1, <1>4
<1>6. Max({0, m}) = IF 0 >= m THEN 0 ELSE m
  BY MinMaxOfTwo
<1> QED
  BY <1>1, <1>2, <1>3, <1>4, <1>5, <1>6 DEF QueuedIsServed

(* The thread takes a job.                                                 *)
LEMMA TakeKeepsShut ==
    ASSUME DInv, PoolInv, ShutInv, NEW t, t \in Workers, TakeJob(t)
    PROVE  ShutInv'
<1>0. /\ NoHashing /\ m_queued_jobs \in [Pools -> Seq(Jobs)] /\ {"generic", "hash"} = Pools
      /\ thr \in [Threads -> ThreadState] /\ pools \in [Pools -> PoolObject(Workers)] /\ IsFiniteSet(Workers)
      /\ t \in Threads
  BY ThreadSets DEF ShutInv, DInv, ListTypes, Pools, PoolInv
<1>1. thr[t].pc \in {"start", "loop", "idle"}
  BY DEF TakeJob
<1>2. PoolOf(t) = "generic"
  BY <1>0, <1>1 DEF NoHashing, PoolOf
<1>3. /\ m_queued_jobs["generic"] # <<>> /\ m_queued_jobs'["hash"] = m_queued_jobs["hash"]
      /\ UNCHANGED <<m_abort, released>>
      /\ pools' = [pools EXCEPT !["generic"] = IF thr[t].pc = "idle" THEN ThreadActive(@) ELSE @]
      /\ \E s : thr' = [thr EXCEPT ![t] = At("exec", s)]
  BY <1>0, <1>2 DEF TakeJob
<1>4. thr'[t].pc = "exec" /\ \A u \in Threads : u # t => thr'[u] = thr[u]
  BY <1>0, <1>3 DEF At
<1>5. PoolsLike
  <2>1. PICK p : p = pools["generic"] /\ p \in PoolObject(Workers)
    BY <1>0
  <2>2. pools'["hash"] = pools["hash"] /\ (pools'["generic"] = p \/ pools'["generic"] = ThreadActive(p))
    BY <1>0, <1>3, <2>1
  <2>3. ThreadActive(p).m_max_threads = p.m_max_threads
    BY <2>1, MaxKept
  <2>4. ThreadActive(p).m_threads = p.m_threads /\ ThreadActive(p).m_abort = p.m_abort
    BY <2>1 DEF ThreadActive, PoolObject
  <2> QED
    BY <1>0, <2>1, <2>2, <2>3, <2>4 DEF PoolsLike, NoHashing, MaxThreads
<1> QED
  BY <1>1, <1>3, <1>4, <1>5, BusyKeepsShut

(* The last thread closes the files.                                       *)
LEMMA CleanUpKeepsShut ==
    ASSUME DInv, ShutInv, NEW t, t \in Threads, CleanUp(t)
    PROVE  ShutInv'
<1>0. /\ NoHashing /\ Registered /\ NetStage /\ NoThreads /\ QueueServed
      /\ thr \in [Threads -> ThreadState] /\ HashThreads \subseteq Workers /\ Workers \subseteq Threads
  BY ThreadSets DEF ShutInv, DInv, ListTypes, Workers
<1>1. /\ thr[t].pc = "cleanup" /\ thr' = [thr EXCEPT ![t] = Stopped] /\ released' = TRUE
      /\ UNCHANGED <<pools, m_queued_jobs, m_abort>>
  BY DEF CleanUp, poolVars
<1>2. t \in Workers /\ t # Net
  BY <1>0, <1>1, ThreadSets DEF NetStage, Threads
<1>3. thr'[t].pc = "none" /\ thr'[Net] = thr[Net] /\ \A u \in Workers : u # t => thr'[u] = thr[u]
  BY <1>0, <1>1, <1>2, ThreadSets DEF Stopped, At
<1>4. LiveThreads' = LiveThreads
  BY <1>1, <1>3 DEF LiveThreads
<1>5. NoHashing' /\ NoThreads' /\ QueueServed'
  BY <1>0, <1>1, <1>2, <1>3, <1>4 DEF NoHashing, NoThreads, QueueServed, MaxThreads
<1>6. Registered' /\ NetStage'
  BY <1>0, <1>1, <1>3, <1>4 DEF Registered, NetStage
<1> QED
  BY <1>5, <1>6 DEF ShutInv

(* abort sets m_abort, and closes the files if there are no threads.       *)
LEMMA AbortStartsShut ==
    ASSUME DInv, ShutInv, AbortStarts
    PROVE  ShutInv'
<1>0. /\ NoHashing /\ Registered /\ NetStage /\ NoThreads /\ QueueServed
      /\ thr \in [Threads -> ThreadState] /\ HashThreads \subseteq Workers /\ Workers \subseteq Threads
      /\ Net \in Threads /\ Net \notin Workers /\ "generic" \in Pools
  BY ThreadSets DEF ShutInv, DInv, ListTypes, Workers, Pools
<1>1. /\ thr[Net].pc = "abort" /\ m_abort' /\ UNCHANGED <<pools, m_queued_jobs>>
      /\ thr' = [thr EXCEPT ![Net] = At("abort_generic", <<>>)]
  BY <1>0 DEF AbortStarts, NetGoes, poolVars
<1>2. thr'[Net].pc = "abort_generic" /\ \A u \in Workers : thr'[u] = thr[u]
  BY <1>0, <1>1 DEF At
<1>3. LiveThreads' = LiveThreads
  BY <1>2 DEF LiveThreads
<1>5. NoHashing' /\ NoThreads' /\ QueueServed'
  BY <1>0, <1>1, <1>2, <1>3 DEF NoHashing, NoThreads, QueueServed, MaxThreads, ElsewherePcs
<1>6. Registered' /\ NetStage'
  BY <1>0, <1>1, <1>2, <1>3 DEF Registered, NetStage
<1> QED
  BY <1>5, <1>6 DEF ShutInv

(* abort of the two pools.                                                 *)
LEMMA AbortPoolsShut ==
    ASSUME DInv, PoolInv, ShutInv, AbortPools
    PROVE  ShutInv'
<1>0. /\ NoHashing /\ Registered /\ NetStage /\ NoThreads /\ QueueServed
      /\ thr \in [Threads -> ThreadState] /\ HashThreads \subseteq Workers /\ Workers \subseteq Threads
      /\ Net \in Threads /\ Net \notin Workers /\ {"generic", "hash"} = Pools
      /\ pools \in [Pools -> PoolObject(Workers)]
  BY ThreadSets DEF ShutInv, DInv, ListTypes, Workers, Pools, PoolInv
<1>1. /\ UNCHANGED <<m_queued_jobs, m_abort, released>> /\ m_abort
      /\ thr[Net].pc \in {"abort_generic", "abort_hash"}
  BY <1>0 DEF AbortPools, NetStage
<1>2. \E pc \in {"abort_hash", "none"} : thr' = [thr EXCEPT ![Net] = At(pc, <<>>)]
  BY DEF AbortPools, NetGoes
<1>3. thr'[Net].pc \in {"abort_hash", "none"} /\ \A u \in Workers : thr'[u] = thr[u]
  BY <1>0, <1>2 DEF At
<1>4. LiveThreads' = LiveThreads
  BY <1>3 DEF LiveThreads
<1>5. /\ pools'["generic"].m_max_threads = pools["generic"].m_max_threads
      /\ pools'["hash"].m_max_threads = pools["hash"].m_max_threads
      /\ pools'["generic"] = pools["generic"] \/ pools'["generic"].m_abort
  <2>1. PICK r \in Pools : pools' = [pools EXCEPT ![r] = Abort(@)]
    BY <1>0 DEF AbortPools
  <2>2. PICK p : p = pools[r] /\ p \in PoolObject(Workers)
    BY <1>0
  <2>3. Abort(p).m_max_threads = p.m_max_threads
    BY <2>2, MaxKept
  <2>4. Abort(p).m_abort
    BY <2>2 DEF Abort, StopThreads, PoolObject
  <2>5. pools'[r] = Abort(p) /\ \A q \in Pools : q # r => pools'[q] = pools[q]
    BY <1>0, <2>1, <2>2
  <2> QED
    BY <1>0, <2>2, <2>3, <2>4, <2>5
<1>6. NoHashing' /\ NoThreads' /\ QueueServed'
  BY <1>0, <1>1, <1>3, <1>4, <1>5 DEF NoHashing, NoThreads, QueueServed, MaxThreads, ElsewherePcs
<1>7. Registered' /\ NetStage'
  BY <1>0, <1>1, <1>3, <1>4, <1>5 DEF Registered, NetStage
<1> QED
  BY <1>6, <1>7 DEF ShutInv

(* The thread finds no job: it waits, or exits and leaves nothing behind.  *)
LEMMA WaitKeepsShut ==
    ASSUME DInv, PoolInv, ShutInv, NEW t, t \in Workers, WaitOrExit(t)
    PROVE  ShutInv'
<1>0. /\ NoHashing /\ Registered /\ NetStage /\ NoThreads /\ QueueServed
      /\ m_queued_jobs \in [Pools -> Seq(Jobs)] /\ {"generic", "hash"} = Pools
      /\ thr \in [Threads -> ThreadState] /\ pools \in [Pools -> PoolObject(Workers)] /\ IsFiniteSet(Workers)
      /\ t \in Threads /\ Net \in Threads /\ t # Net /\ HashThreads \subseteq Workers /\ Workers \subseteq Threads
      /\ Net \notin Workers
  BY ThreadSets DEF ShutInv, DInv, ListTypes, Pools, PoolInv, Workers
<1>1. thr[t].pc \in {"start", "loop", "idle"} /\ t \in LiveThreads /\ t \notin HashThreads
  BY <1>0 DEF WaitOrExit, LiveThreads, NoHashing
<1>2. PoolOf(t) = "generic"
  BY <1>1 DEF PoolOf
<1> DEFINE idle == IF thr[t].pc = "idle" THEN pools["generic"] ELSE ThreadIdle(pools["generic"])
<1>3. /\ m_queued_jobs["generic"] = <<>> /\ UNCHANGED <<m_queued_jobs, m_abort, released>>
      /\ \/ /\ ShouldExit(idle)
            /\ pools' = [pools EXCEPT !["generic"] = ThreadActive(Unregister(ClaimExit(idle), t))]
            /\ thr' = [thr EXCEPT ![t] = At("none", <<>>)] \/ thr' = [thr EXCEPT ![t] = At("cleanup", <<>>)]
         \/ /\ pools' = [pools EXCEPT !["generic"] = idle]
            /\ thr' = [thr EXCEPT ![t] = At("idle", <<>>)]
  BY <1>2 DEF WaitOrExit, Stopped, CleansUp
<1>4. /\ idle \in PoolObject(Workers) /\ idle.m_threads = pools["generic"].m_threads
      /\ idle.m_abort = pools["generic"].m_abort /\ idle.m_max_threads = pools["generic"].m_max_threads
  <2>1. PICK p : p = pools["generic"] /\ p \in PoolObject(Workers)
    BY <1>0
  <2>2. /\ ThreadIdle(p) \in PoolObject(Workers) /\ ThreadIdle(p).m_threads = p.m_threads
        /\ ThreadIdle(p).m_abort = p.m_abort /\ ThreadIdle(p).m_max_threads = p.m_max_threads
    BY <2>1 DEF ThreadIdle, PoolObject
  <2> QED
    BY <2>1, <2>2
<1> HIDE DEF idle
<1>5. NoThreads => pools["generic"].m_max_threads # 0
  BY <1>1 DEF NoThreads, MaxThreads
<1>6. CASE /\ pools' = [pools EXCEPT !["generic"] = idle]
           /\ thr' = [thr EXCEPT ![t] = At("idle", <<>>)]
  <2>1. thr'[t].pc = "idle" /\ \A u \in Threads : u # t => thr'[u] = thr[u]
    BY <1>0, <1>6 DEF At
  <2>2. pools'["generic"] = idle /\ pools'["hash"] = pools["hash"]
    BY <1>0, <1>6
  <2>3. LiveThreads' = LiveThreads
    BY <1>0, <1>1, <2>1 DEF LiveThreads
  <2>4. NoHashing' /\ NoThreads' /\ QueueServed'
    BY <1>0, <1>1, <1>3, <1>4, <1>5, <2>1, <2>2, <2>3 DEF NoHashing, NoThreads, QueueServed, MaxThreads
  <2>5. Registered' /\ NetStage'
    BY <1>0, <1>3, <1>4, <2>1, <2>2, <2>3 DEF Registered, NetStage
  <2> QED
    BY <2>4, <2>5 DEF ShutInv
<1>7. CASE /\ ShouldExit(idle)
           /\ pools' = [pools EXCEPT !["generic"] = ThreadActive(Unregister(ClaimExit(idle), t))]
           /\ thr' = [thr EXCEPT ![t] = At("none", <<>>)] \/ thr' = [thr EXCEPT ![t] = At("cleanup", <<>>)]
  <2>1. /\ thr'[t].pc \in {"none", "cleanup"} /\ \A u \in Threads : u # t => thr'[u] = thr[u]
    <3>1. At("none", <<>>).pc = "none" /\ At("cleanup", <<>>).pc = "cleanup"
      BY DEF At
    <3>2. \E h : thr' = [thr EXCEPT ![t] = h]
      BY <1>7
    <3>3. \A u \in Threads : u # t => thr'[u] = thr[u]
      BY <1>0, <3>2
    <3>4. CASE thr' = [thr EXCEPT ![t] = At("none", <<>>)]
      BY <1>0, <3>1, <3>3, <3>4
    <3>5. CASE thr' = [thr EXCEPT ![t] = At("cleanup", <<>>)]
      BY <1>0, <3>1, <3>3, <3>5
    <3> QED
      BY <1>7, <3>4, <3>5
  <2>2. /\ pools'["hash"] = pools["hash"] /\ pools'["generic"].m_abort = idle.m_abort
        /\ pools'["generic"].m_max_threads = idle.m_max_threads
        /\ ~ idle.m_abort => pools'["generic"].m_threads = idle.m_threads \ {t}
    <3>1. PICK c : c = ClaimExit(idle)
      OBVIOUS
    <3>2. /\ c \in PoolObject(Workers) /\ c.m_threads = idle.m_threads /\ c.m_abort = idle.m_abort
          /\ c.m_max_threads = idle.m_max_threads
      BY <1>4, <1>7, <3>1 DEF ClaimExit, ShouldExit, PoolObject
    <3>3. PICK r : r = Unregister(c, t)
      OBVIOUS
    <3>4. /\ r \in PoolObject(Workers) /\ r.m_abort = c.m_abort /\ r.m_max_threads = c.m_max_threads
          /\ ~ c.m_abort => r.m_threads = c.m_threads \ {t}
      BY <1>0, <3>2, <3>3, UnregisterPool, MaxKept
    <3>5. /\ ThreadActive(r).m_abort = r.m_abort /\ ThreadActive(r).m_threads = r.m_threads
          /\ ThreadActive(r).m_max_threads = r.m_max_threads
      BY <3>4 DEF ThreadActive, PoolObject
    <3>6. pools'["generic"] = ThreadActive(r) /\ pools'["hash"] = pools["hash"]
      BY <1>0, <1>7, <3>1, <3>3
    <3> QED
      BY <3>2, <3>4, <3>5, <3>6
  <2>3. LiveThreads' = LiveThreads \ {t}
    BY <1>0, <2>1 DEF LiveThreads
  <2>4. NoHashing' /\ NoThreads' /\ QueueServed'
    BY <1>0, <1>1, <1>3, <1>4, <1>5, <2>1, <2>2 DEF NoHashing, NoThreads, QueueServed, MaxThreads
  <2>5. Registered' /\ NetStage'
    BY <1>0, <1>3, <1>4, <2>1, <2>2, <2>3 DEF Registered, NetStage
  <2> QED
    BY <2>4, <2>5 DEF ShutInv
<1> QED
  BY <1>3, <1>6, <1>7

(* job_queued for the queues in S starts the threads `new'.                *)
Starts(S, base, new) ==
    /\ \A u \in new : thr[u].pc = "none" /\ thr'[u].pc = "start"
    /\ \A u \in Threads : u \notin new => thr'[u] = base[u]
    /\ pools'["hash"] = pools["hash"]
    /\ pools'["generic"].m_threads = pools["generic"].m_threads \union new
    /\ pools'["generic"].m_abort = pools["generic"].m_abort
    /\ pools'["generic"].m_max_threads = pools["generic"].m_max_threads
    /\ pools["generic"].m_max_threads = 0 => new = {}
    /\ "generic" \in S /\ m_queued_jobs["generic"] # <<>> /\ ~ pools["generic"].m_abort
       /\ pools["generic"].m_threads \union new = {} /\ pools["generic"].m_max_threads > 0
       => pools["generic"].m_num_idle_threads > 0

(* What job_queued does for the generic queue.                             *)
LEMMA NotifyStarts ==
    ASSUME DInv, PoolInv, NoHashing, NEW S, S \subseteq {"generic"}, NEW base,
           base \in [Threads -> ThreadState], NotifyQueues(S, base)
    PROVE  \E X \in SUBSET GenericThreads : Starts(S, base, X)
<1>0. /\ thr \in [Threads -> ThreadState] /\ m_queued_jobs \in [Pools -> Seq(Jobs)] /\ DOMAIN thr = Threads
      /\ pools \in [Pools -> PoolObject(Workers)] /\ IsFiniteSet(Workers) /\ {"generic", "hash"} = Pools
      /\ Workers \subseteq Threads /\ ThreadsOf("generic") = GenericThreads
  BY ThreadSets DEF DInv, ListTypes, PoolInv, Pools, ThreadsOf
<1>1. PICK new \in [S -> SUBSET {t \in Workers : thr[t].pc = "none"}] :
        /\ \A q \in S : /\ new[q] \subseteq ThreadsOf(q)
                        /\ Cardinality(new[q]) = NumToStart(pools[q], Len(m_queued_jobs[q]))
        /\ pools' = [q \in Pools |-> IF q \in S THEN JobQueued(pools[q], Len(m_queued_jobs[q]), new[q])
                                               ELSE pools[q]]
        /\ thr' = [t \in DOMAIN thr |->
                     IF \E q \in S : t \in new[q] THEN At("start", <<>>) ELSE base[t]]
  BY DEF NotifyQueues
<1>2. pools'["hash"] = pools["hash"]
  BY <1>0, <1>1
<1>3. CASE S = {}
  <2>1. thr' = [t \in Threads |-> base[t]] /\ pools'["generic"] = pools["generic"]
    BY <1>0, <1>1, <1>3
  <2>2. {} \in SUBSET GenericThreads
    OBVIOUS
  <2>3. Starts(S, base, {})
    BY <1>2, <1>3, <2>1 DEF Starts
  <2> QED
    BY <2>2, <2>3
<1>4. CASE "generic" \in S
  <2>1. S = {"generic"}
    BY <1>4
  <2>2. PICK N : N = new["generic"]
    OBVIOUS
  <2>3. PICK n \in Nat : n = Len(m_queued_jobs["generic"])
    BY <1>0
  <2>4. PICK p \in PoolObject(Workers) : p = pools["generic"]
    BY <1>0
  <2>5. /\ N \in SUBSET Workers /\ N \subseteq GenericThreads /\ (\A u \in N : thr[u].pc = "none")
        /\ Cardinality(N) = NumToStart(p, n) /\ pools'["generic"] = JobQueued(p, n, N)
    BY <1>0, <1>1, <2>1, <2>2, <2>3, <2>4
  <2>6. \A u \in Threads : thr'[u] = IF u \in N THEN At("start", <<>>) ELSE base[u]
    BY <1>0, <1>1, <2>1, <2>2
  <2>7. At("start", <<>>).pc = "start"
    BY DEF At
  <2>8. /\ JobQueued(p, n, N).m_threads = p.m_threads \union N
        /\ JobQueued(p, n, N).m_abort = p.m_abort /\ JobQueued(p, n, N).m_max_threads = p.m_max_threads
    <3>1. JobQueued(p, n, N).m_max_threads = p.m_max_threads
      BY MaxKept
    <3> QED
      BY <1>0, <2>5, <3>1, JobQueuedPool
  <2>9. /\ NumToStart(p, n) \in Nat
        /\ n > 0 /\ p.m_threads = {} /\ ~ p.m_abort /\ p.m_num_idle_threads = 0 /\ p.m_max_threads > 0
              => NumToStart(p, n) > 0
        /\ p.m_max_threads = 0 => NumToStart(p, n) = 0
    BY <1>0, StartsOne
  <2>10. N = {} <=> NumToStart(p, n) = 0
    <3>1. IsFiniteSet(N)
      BY <1>0, <2>5, FS_Subset
    <3> QED
      BY <2>5, <3>1, FS_EmptySet
  <2>11. m_queued_jobs["generic"] # <<>> => n > 0
    BY <1>0, <2>3
  <2>12. p.m_num_idle_threads \in Nat
    BY DEF PoolObject
  <2>13. \A u \in N : thr'[u].pc = "start"
    BY <1>0, <2>5, <2>6, <2>7
  <2>14. N \in SUBSET GenericThreads
    BY <2>5
  <2>15. n > 0 /\ ~ p.m_abort /\ p.m_threads \union N = {} /\ p.m_max_threads > 0 => p.m_num_idle_threads > 0
    BY <2>9, <2>10, <2>12
  <2>16. p.m_max_threads = 0 => N = {}
    BY <2>9, <2>10
  <2>17. Starts(S, base, N)
    BY <1>2, <2>4, <2>5, <2>6, <2>8, <2>11, <2>13, <2>15, <2>16 DEF Starts
  <2> QED
    BY <2>14, <2>17
<1>5. S = {} \/ "generic" \in S
  OBVIOUS
<1> QED
  BY <1>3, <1>4, <1>5

(* The jobs that are notified of.                                          *)
LEMMA NotifyKeepsShut ==
    ASSUME DInv, PoolInv, ShutInv, SubmitJobs \/ AbortSubmits \/ \E t \in Threads : NotifyReleased(t)
    PROVE  ShutInv'
<1>0. /\ NoHashing /\ Registered /\ NetStage /\ NoThreads /\ QueueServed
      /\ thr \in [Threads -> ThreadState] /\ HashThreads \subseteq Workers /\ Workers \subseteq Threads
      /\ Net \in Threads /\ Net \notin Workers /\ {"generic", "hash"} = Pools
      /\ HashThreads \intersect GenericThreads = {} /\ GenericThreads \subseteq Workers
  BY ThreadSets, DiskAssumption DEF ShutInv, DInv, ListTypes, Workers, Pools
<1>1. UNCHANGED <<m_queued_jobs, m_abort>>
  BY DEF SubmitJobs, AbortSubmits, NotifyReleased
<1>2. \E S, base : /\ S \subseteq {"generic"} /\ base \in [Threads -> ThreadState] /\ NotifyQueues(S, base)
                   /\ \A u \in Workers : /\ base[u].pc \in {"none", "cleanup"} <=> thr[u].pc \in {"none", "cleanup"}
                                         /\ u \in HashThreads => base[u].pc = "none"
                   /\ \/ base[Net] = thr[Net]
                      \/ base[Net].pc = "post" /\ ~ m_abort
                      \/ /\ base[Net].pc = "abort" /\ ~ m_abort /\ thr[Net].pc = "none"
                         /\ m_queued_jobs["generic"] # <<>> => "generic" \in S
  <2>0. NonEmptyQueues \subseteq {"generic"} /\ (m_queued_jobs["generic"] # <<>> => "generic" \in NonEmptyQueues)
    BY <1>0 DEF NonEmptyQueues, NoHashing
  <2>1. CASE SubmitJobs
    <3>1. NotifyQueues(NonEmptyQueues, thr)
      BY <2>1 DEF SubmitJobs
    <3>2. \A u \in HashThreads : thr[u].pc = "none"
      BY <1>0 DEF NoHashing
    <3> QED
      BY <1>0, <2>0, <3>1, <3>2
  <2>2. CASE AbortSubmits
    <3> DEFINE base == [thr EXCEPT ![Net] = At("abort", <<>>)]
    <3>1. NotifyQueues(NonEmptyQueues, base) /\ ~ m_abort /\ thr[Net].pc = "none"
      BY <2>2 DEF AbortSubmits
    <3>2. At("abort", <<>>) \in ThreadState /\ At("abort", <<>>).pc = "abort"
      BY AtEmpty DEF Pcs
    <3>3. base \in [Threads -> ThreadState] /\ base[Net].pc = "abort" /\ \A u \in Workers : base[u] = thr[u]
      BY <1>0, <3>2
    <3> HIDE DEF base
    <3>4. \A u \in HashThreads : thr[u].pc = "none"
      BY <1>0 DEF NoHashing
    <3> QED
      BY <2>0, <3>1, <3>3, <3>4
  <2>3. CASE \E t \in Threads : NotifyReleased(t)
    <3>1. PICK t \in Threads : NotifyReleased(t)
      BY <2>3
    <3> DEFINE base == [thr EXCEPT ![t].pc = "post"]
    <3>2. NotifyQueues({"generic"}, base) /\ thr[t].pc = "notify" /\ thr[t] \in ThreadState
      BY <1>0, <3>1 DEF NotifyReleased
    <3>3. [thr[t] EXCEPT !.pc = "post"] \in ThreadState /\ [thr[t] EXCEPT !.pc = "post"].pc = "post"
      BY <3>2 DEF ThreadState
    <3>4. base \in [Threads -> ThreadState] /\ base[t].pc = "post" /\ \A u \in Threads : u # t => base[u] = thr[u]
      BY <1>0, <3>3
    <3> HIDE DEF base
    <3>5. t = Net => ~ m_abort
      BY <1>0, <3>2 DEF NetStage
    <3>6. \A u \in HashThreads : thr[u].pc = "none"
      BY <1>0 DEF NoHashing
    <3>7. t \notin HashThreads
      BY <1>0, <3>2 DEF NoHashing
    <3>8. \A u \in Workers : /\ base[u].pc \in {"none", "cleanup"} <=> thr[u].pc \in {"none", "cleanup"}
                             /\ u \in HashThreads => base[u].pc = "none"
      BY <1>0, <3>2, <3>4, <3>6, <3>7
    <3>9. base[Net] = thr[Net] \/ (base[Net].pc = "post" /\ ~ m_abort)
      BY <1>0, <3>4, <3>5
    <3> QED
      BY <3>2, <3>4, <3>8, <3>9
  <2> QED
    BY <2>1, <2>2, <2>3
<1>3. PICK S, base : /\ S \subseteq {"generic"} /\ base \in [Threads -> ThreadState] /\ NotifyQueues(S, base)
                     /\ \A u \in Workers : /\ base[u].pc \in {"none", "cleanup"} <=> thr[u].pc \in {"none", "cleanup"}
                                           /\ u \in HashThreads => base[u].pc = "none"
                     /\ \/ base[Net] = thr[Net]
                        \/ base[Net].pc = "post" /\ ~ m_abort
                        \/ /\ base[Net].pc = "abort" /\ ~ m_abort /\ thr[Net].pc = "none"
                           /\ m_queued_jobs["generic"] # <<>> => "generic" \in S
  BY <1>2
<1>4. PICK new \in SUBSET GenericThreads : Starts(S, base, new)
  BY <1>0, <1>3, NotifyStarts
<1>5. /\ \A u \in new : thr[u].pc = "none" /\ thr'[u].pc = "start"
      /\ \A u \in Threads : u \notin new => thr'[u] = base[u]
      /\ pools'["hash"] = pools["hash"]
      /\ pools'["generic"].m_threads = pools["generic"].m_threads \union new
      /\ pools'["generic"].m_abort = pools["generic"].m_abort
      /\ pools'["generic"].m_max_threads = pools["generic"].m_max_threads
      /\ pools["generic"].m_max_threads = 0 => new = {}
      /\ "generic" \in S /\ m_queued_jobs["generic"] # <<>> /\ ~ pools["generic"].m_abort
         /\ pools["generic"].m_threads \union new = {} /\ pools["generic"].m_max_threads > 0
         => pools["generic"].m_num_idle_threads > 0
  BY <1>4 DEF Starts
<1>6. LiveThreads' = LiveThreads \union new
  <2>1. ASSUME NEW u \in Workers PROVE u \in LiveThreads' <=> u \in LiveThreads \union new
    <3>1. CASE u \in new
      BY <1>5, <3>1 DEF LiveThreads
    <3>2. CASE u \notin new
      BY <1>0, <1>3, <1>5, <3>2 DEF LiveThreads
    <3> QED
      BY <3>1, <3>2
  <2>2. LiveThreads \subseteq Workers /\ LiveThreads' \subseteq Workers /\ new \subseteq Workers
    BY <1>0, <1>5 DEF LiveThreads
  <2> QED
    BY <2>1, <2>2
<1>7. thr'[Net] = base[Net]
  BY <1>0, <1>5
<1>8. NoHashing'
  BY <1>0, <1>1, <1>3, <1>5 DEF NoHashing, MaxThreads
<1>9. Registered'
  BY <1>0, <1>5, <1>6 DEF Registered
<1>10. NetStage'
  BY <1>0, <1>1, <1>3, <1>5, <1>7 DEF NetStage
<1>11. NoThreads'
  BY <1>0, <1>1, <1>3, <1>5, <1>6, <1>7 DEF NoThreads, MaxThreads, ElsewherePcs
<1>12. QueueServed'
  <2>1. CASE m_abort \/ thr[Net].pc = "abort"
    BY <1>0, <1>1, <1>6, <2>1 DEF QueueServed
  <2>2. CASE ~ m_abort /\ thr[Net].pc # "abort"
    <3> SUFFICES ASSUME thr'[Net].pc = "abort", m_queued_jobs["generic"] # <<>>, LiveThreads' = {}
                 PROVE  FALSE
      BY <1>1, <2>2 DEF QueueServed
    <3>1. thr[Net].pc = "none" /\ "generic" \in S
      BY <1>3, <1>7, <2>2
    <3>2. pools["generic"].m_max_threads # 0
      BY <1>0, <3>1 DEF NoThreads, MaxThreads, ElsewherePcs
    <3>3. pools["generic"].m_max_threads \in Nat /\ "generic" \in Pools /\ PoolIs("generic", pools["generic"])
      BY <1>0 DEF PoolInv, PoolObject
    <3>4. ~ pools["generic"].m_abort /\ pools["generic"].m_threads = LiveThreads
      BY <1>0, <2>2 DEF NetStage, Registered
    <3>5. pools["generic"].m_num_idle_threads > 0
      BY <1>5, <1>6, <3>1, <3>2, <3>3, <3>4
    <3>6. IdleOf("generic") \subseteq LiveThreads
      BY <1>0 DEF IdleOf, ThreadsOf, LiveThreads
    <3>7. IdleOf("generic") = {}
      BY <1>6, <3>6
    <3>8. Cardinality(IdleOf("generic")) = 0
      BY <3>7, FS_EmptySet
    <3> QED
      BY <3>3, <3>5, <3>8 DEF PoolIs
  <2> QED
    BY <2>1, <2>2
<1> QED
  BY <1>8, <1>9, <1>10, <1>11, <1>12 DEF ShutInv

(* The other steps of the network thread, up to the job queue.             *)
LEMMA IssueKeepsShut ==
    ASSUME DInv, ShutInv, NEW j, \/ AsyncWrite(j) \/ AsyncRead(j) \/ AsyncHash(j) \/ AsyncFence(j)
                                 \/ JobFailAdd(j) \/ AddJob(j) \/ AddFenceJob(j) \/ CallJobHandlers
    PROVE  ShutInv'
<1>0. /\ NoHashing /\ NetStage /\ NoThreads /\ thr \in [Threads -> ThreadState]
      /\ Net \in Threads /\ Net \notin Workers /\ Workers \subseteq Threads
  BY ThreadSets DEF ShutInv, DInv, ListTypes
<1>1. UNCHANGED <<pools, m_queued_jobs, m_abort, released>>
  BY DEF AsyncWrite, AsyncRead, AsyncHash, AsyncFence, JobFailAdd, AddJob, AddFenceJob, CallJobHandlers,
         poolVars
<1>2. /\ thr[Net].pc \in {"none", "add"}
      /\ \/ thr' = thr
         \/ \E s : thr' = [thr EXCEPT ![Net] = At("add", s)]
         \/ \E s : thr' = [thr EXCEPT ![Net] = At("none", s)]
         \/ ~ m_abort /\ \E pc \in {"push", "loop"} : \E s : thr' = [thr EXCEPT ![Net] = At(pc, s)]
  <2>1. CASE AsyncWrite(j) \/ AsyncRead(j) \/ AsyncHash(j) \/ AsyncFence(j)
    BY <2>1 DEF AsyncWrite, AsyncRead, AsyncHash, AsyncFence, Issue, NetGoes
  <2>2. CASE JobFailAdd(j) \/ AddJob(j) \/ CallJobHandlers
    BY <2>2 DEF JobFailAdd, AddJob, CallJobHandlers, Adding, NetGoes
  <2>3. CASE AddFenceJob(j)
    BY <2>3 DEF AddFenceJob, Adding, NetGoes
  <2> QED
    BY <2>1, <2>2, <2>3
<1>3. /\ \A u \in Workers : thr'[u] = thr[u]
      /\ \/ thr'[Net].pc \in {"none", "add"}
         \/ ~ m_abort /\ thr'[Net].pc \in {"push", "loop"}
  <2>1. \A pc, s : At(pc, s).pc = pc
    BY DEF At
  <2> QED
    BY <1>0, <1>2, <2>1
<1>4. PoolsLike /\ m_queued_jobs'["hash"] = <<>>
  BY <1>0, <1>1 DEF PoolsLike, NoHashing, MaxThreads
<1>5. pools'["generic"].m_max_threads = 0 => m_queued_jobs'["generic"] = <<>>
  BY <1>0, <1>1, <1>2 DEF NoThreads, MaxThreads, ElsewherePcs
<1> QED
  BY <1>1, <1>3, <1>4, <1>5, NetKeepsShut

(* The job joins its queue, or the network thread goes through the queue.  *)
LEMMA PushKeepsShut ==
    ASSUME DInv, PoolInv, ~ FullCheck, ShutInv, PushJob \/ ImmediateExecute
    PROVE  ShutInv'
<1>0. /\ NoHashing /\ NetStage /\ NoThreads /\ thr \in [Threads -> ThreadState]
      /\ Net \in Threads /\ Net \notin Workers /\ Workers \subseteq Threads
      /\ m_queued_jobs \in [Pools -> Seq(Jobs)] /\ {"generic", "hash"} = Pools
      /\ \A q \in Pools : pools[q].m_max_threads \in Nat
  BY ThreadSets DEF ShutInv, DInv, ListTypes, Pools, PoolInv, PoolObject
<1>1. UNCHANGED <<pools, m_abort, released>> /\ thr[Net].pc \in {"push", "loop"}
  BY DEF PushJob, ImmediateExecute, poolVars
<1>2. ~ m_abort
  BY <1>0, <1>1 DEF NetStage
<1>3. \A pc, s : At(pc, s).pc = pc
  BY DEF At
<1>4. CASE PushJob
  <2> DEFINE j == thr[Net].jobs[1]
             immediate == IF j \in FenceJobs THEN num_threads = 0 ELSE MaxThreads(PoolForJob(j)) = 0
  <2>0. IsIssued(j)
    <3>1. ListTypes /\ ThreadShape /\ JobsIn(Held) = ToSet(issued)
      BY DEF DInv
    <3>2. Len(thr[Net].jobs) = 1 /\ thr[Net].jobs \in Seq(Jobs)
      BY <1>0, <1>4, <3>1 DEF PushJob, ThreadShape, InShape, Early, ThreadState
    <3>3. j \in ToSet(thr[Net].jobs)
      BY <3>2, ToSetIs
    <3>4. <<Net, "jobs">> \in Lists /\ DOMAIN Held = Lists /\ Held[<<Net, "jobs">>] = thr[Net].jobs
      BY <1>0, <3>1, HeldType, ListsAre, HeldAre
    <3> QED
      BY <3>1, <3>3, <3>4 DEF JobsIn, IsIssued
  <2>1. /\ QueueForJob(j) = "generic"
        /\ PoolForJob(j) \in Pools /\ (MaxThreads("generic") = 0 => PoolForJob(j) = "generic")
    BY <1>0, <2>0 DEF QueueForJob, PoolForJob, NoHashing, FullCheck
  <2>2. /\ m_queued_jobs' = [m_queued_jobs EXCEPT !["generic"] = Append(@, j)]
        /\ thr' = [thr EXCEPT ![Net] = At(IF immediate THEN "loop" ELSE "none", <<>>)]
    BY <1>4, <2>1 DEF PushJob, NetGoes
  <2>3. m_queued_jobs'["hash"] = <<>>
    BY <1>0, <2>2 DEF NoHashing
  <2>4. pools["generic"].m_max_threads = 0 => immediate
    BY <1>0, <2>1 DEF MaxThreads, num_threads, NoHashing
  <2>5. /\ \A u \in Workers : thr'[u] = thr[u]
        /\ thr'[Net].pc = IF immediate THEN "loop" ELSE "none"
    BY <1>0, <1>3, <2>2
  <2> HIDE DEF immediate
  <2>6. PoolsLike
    BY <1>0, <1>1 DEF PoolsLike, NoHashing, MaxThreads
  <2>7. pools'["generic"].m_max_threads = 0 => thr'[Net].pc = "loop"
    BY <1>1, <2>4, <2>5
  <2>8. thr'[Net].pc \in {"loop", "none"}
    BY <2>5
  <2> QED
    BY <1>1, <1>2, <2>3, <2>5, <2>6, <2>7, <2>8, NetKeepsShut DEF ElsewherePcs
<1>5. CASE ImmediateExecute
  <2>1. /\ \A u \in Workers : thr'[u] = thr[u]
        /\ m_queued_jobs'["hash"] = <<>>
        /\ \/ thr'[Net].pc = "none" /\ m_queued_jobs'["generic"] = <<>>
           \/ thr'[Net].pc = "exec"
    <3>1. CASE m_queued_jobs["generic"] = <<>>
      <4>1. thr' = [thr EXCEPT ![Net] = At("none", <<>>)] /\ m_queued_jobs' = m_queued_jobs
        BY <1>5, <3>1 DEF ImmediateExecute, NetGoes
      <4> QED
        BY <1>0, <1>3, <3>1, <4>1 DEF NoHashing
    <3>2. CASE m_queued_jobs["generic"] # <<>>
      <4>1. /\ \E s : thr' = [thr EXCEPT ![Net] = At("exec", s)]
            /\ m_queued_jobs' = [m_queued_jobs EXCEPT !["generic"] = Tail(@)]
        BY <1>5, <3>2 DEF ImmediateExecute, NetGoes
      <4> QED
        BY <1>0, <1>3, <4>1 DEF NoHashing
    <3> QED
      BY <3>1, <3>2
  <2>2. PoolsLike
    BY <1>0, <1>1 DEF PoolsLike, NoHashing, MaxThreads
  <2> QED
    BY <1>1, <1>2, <2>1, <2>2, NetKeepsShut DEF ElsewherePcs
<1> QED
  BY <1>4, <1>5

(* Changed settings and the timer that reaps threads.                      *)
LEMMA SettingsKeepShut ==
    ASSUME ThreadsRemain, DInv, PoolInv, ShutInv,
           (\E s \in Settings : SettingsUpdated(s)) \/ (\E q \in Pools : Reap(q))
    PROVE  ShutInv'
<1>0. /\ NoHashing /\ NetStage /\ NoThreads /\ thr \in [Threads -> ThreadState]
      /\ {"generic", "hash"} = Pools /\ pools \in [Pools -> PoolObject(Workers)] /\ IsFiniteSet(Workers)
      /\ \A q \in Pools : pools[q].m_max_threads \in Nat
  BY ThreadSets DEF ShutInv, DInv, ListTypes, Pools, PoolInv, PoolObject
<1>1. UNCHANGED <<m_queued_jobs, m_abort, released, thr>> /\ thr[Net].pc = "none"
  BY DEF SettingsUpdated, Reap
<1>2. PoolsLike
  <2>1. ASSUME NEW s \in Settings, SettingsUpdated(s) PROVE PoolsLike
    <3>1. s[1] \in Nat /\ s[2] \in Nat /\ (s[1] = 0 => s[2] = 0)
      <4>1. s \in (0..Cardinality(GenericThreads)) \X (0..Cardinality(HashThreads))
        BY DiskAssumption
      <4>2. IsFiniteSet(GenericThreads) /\ IsFiniteSet(HashThreads)
        BY <1>0, FS_Subset DEF Workers
      <4>3. Cardinality(GenericThreads) \in Nat /\ Cardinality(HashThreads) \in Nat
        BY <4>2, FS_CardinalityType
      <4> QED
        BY <4>1, <4>3 DEF ThreadsRemain
    <3>2. /\ pools'["generic"] = SetMaxThreads(pools["generic"], s[1])
          /\ pools'["hash"] = SetMaxThreads(pools["hash"], s[2])
      BY <1>0, <2>1 DEF SettingsUpdated
    <3>3. s[1] = 0 => pools["generic"].m_max_threads = 0
      <4> DEFINE old == <<MaxThreads("generic"), MaxThreads("hash")>>
      <4>1. s = old \/ <<old, s>> \in SettingsChanges
        BY <2>1 DEF SettingsUpdated
      <4>2. s = old => s[1] = pools["generic"].m_max_threads
        BY DEF MaxThreads
      <4>3. <<old, s>>[1][1] = pools["generic"].m_max_threads /\ <<old, s>>[2][1] = s[1]
        BY DEF MaxThreads
      <4> HIDE DEF old
      <4>4. <<old, s>> \in SettingsChanges /\ pools["generic"].m_max_threads > 0 => s[1] > 0
        BY <4>3 DEF ThreadsRemain
      <4> QED
        BY <1>0, <3>1, <4>1, <4>2, <4>4
    <3>4. PICK p, r \in PoolObject(Workers) : p = pools["generic"] /\ r = pools["hash"]
      BY <1>0
    <3>5. /\ SetMaxThreads(p, s[1]).m_threads = p.m_threads /\ SetMaxThreads(p, s[1]).m_abort = p.m_abort
      BY <1>0, <3>1, SetMaxThreadsPool
    <3>6. SetMaxThreads(p, s[1]).m_max_threads = s[1] /\ SetMaxThreads(r, s[2]).m_max_threads = s[2]
      BY <3>1, MaxSet
    <3> QED
      BY <3>1, <3>2, <3>3, <3>4, <3>5, <3>6 DEF PoolsLike
  <2>2. ASSUME NEW q \in Pools, Reap(q) PROVE PoolsLike
    <3>1. /\ pools' = [pools EXCEPT ![q] = pools'[q]]
          /\ pools'[q].m_threads = pools[q].m_threads /\ pools'[q].m_abort = pools[q].m_abort
          /\ pools'[q].m_max_threads = pools[q].m_max_threads
      BY <1>0, <2>2, ReapIs
    <3>2. \A r \in Pools : r # q => pools'[r] = pools[r]
      BY <1>0, <3>1
    <3> QED
      BY <1>0, <3>1, <3>2 DEF PoolsLike, NoHashing, MaxThreads
  <2> QED
    BY <2>1, <2>2
<1>3. pools'["generic"].m_max_threads = 0 => m_queued_jobs'["generic"] = <<>>
  BY <1>0, <1>1, <1>2 DEF NoThreads, MaxThreads, ElsewherePcs, PoolsLike
<1> QED
  BY <1>0, <1>1, <1>2, <1>3, NetKeepsShut DEF NoHashing

(* Every step keeps the invariant.                                         *)
LEMMA NextShut ==
    ASSUME ThreadsRemain, DInv, DiskTypes, ~ FullCheck, ShutInv, [Next]_vars
    PROVE  ShutInv'
<1>0. PoolInv /\ Net \in Threads /\ Workers \subseteq Threads
  BY ThreadSets DEF DiskTypes
<1>1. ASSUME NEW t \in Threads, ThreadStep(t) PROVE ShutInv'
  <2>1. CASE t \in Workers /\ TakeJob(t)
    BY <1>0, <2>1, TakeKeepsShut
  <2>2. CASE t \in Workers /\ WaitOrExit(t)
    BY <1>0, <2>2, WaitKeepsShut
  <2>3. CASE CleanUp(t)
    BY <2>3, CleanUpKeepsShut
  <2>4. CASE \/ \E j \in Jobs : Execute(t, j)
             \/ LeaveFence(t) \/ RouteReleased(t) \/ AppendReleased(t) \/ PostCompleted(t)
    BY <2>4, WorkKeepsShut
  <2>5. CASE NotifyReleased(t)
    BY <1>0, <2>5, NotifyKeepsShut
  <2> QED
    BY <1>1, <2>1, <2>2, <2>3, <2>4, <2>5 DEF ThreadStep, CompleteJobs
<1>2. CASE Client
  <2>1. ASSUME NEW j, AsyncWrite(j) \/ AsyncRead(j) \/ AsyncHash(j) \/ AsyncFence(j) PROVE ShutInv'
    BY <2>1, IssueKeepsShut
  <2>2. ASSUME (\E s \in Settings : SettingsUpdated(s)) \/ (\E q \in Pools : Reap(q)) PROVE ShutInv'
    BY <1>0, <2>2, SettingsKeepShut
  <2>3. ASSUME AbortSubmits PROVE ShutInv'
    BY <1>0, <2>3, NotifyKeepsShut
  <2> QED
    BY <1>2, <2>1, <2>2, <2>3 DEF Client
<1>3. CASE NetStep
  <2>1. ASSUME NEW j \in Jobs, JobFailAdd(j) \/ AddJob(j) \/ AddFenceJob(j) PROVE ShutInv'
    BY <2>1, IssueKeepsShut
  <2>2. ASSUME PushJob \/ ImmediateExecute PROVE ShutInv'
    BY <1>0, <2>2, PushKeepsShut
  <2>3. ASSUME AbortStarts PROVE ShutInv'
    BY <2>3, AbortStartsShut
  <2>4. ASSUME AbortPools PROVE ShutInv'
    BY <1>0, <2>4, AbortPoolsShut
  <2> QED
    BY <1>0, <1>1, <1>3, <2>1, <2>2, <2>3, <2>4 DEF NetStep
<1>4. CASE SubmitJobs
  BY <1>0, <1>4, NotifyKeepsShut
<1>5. CASE CallJobHandlers
  BY <1>5, IssueKeepsShut
<1>6. CASE UNCHANGED vars
  <2>1. UNCHANGED <<pools, m_queued_jobs, m_abort, thr>>
    BY <1>6 DEF vars
  <2> QED
    BY <2>1 DEF ShutInv, NoHashing, Registered, NetStage, NoThreads, QueueServed, LiveThreads, MaxThreads
<1> QED
  BY <1>0, <1>1, <1>2, <1>3, <1>4, <1>5, <1>6 DEF Next

(* The invariant holds initially.                                          *)
LEMMA InitShut ==
    ASSUME ThreadsRemain
    PROVE  Init => ShutInv
<1> SUFFICES ASSUME Init PROVE ShutInv
  OBVIOUS
<1>1. (\A u \in Threads : thr[u].pc = "none") /\ Net \in Threads /\ Workers \subseteq Threads
      /\ HashThreads \subseteq Workers /\ {"generic", "hash"} = Pools
  BY ThreadSets DEF Init, Threads, Workers, Stopped, At, Pools
<1>2. LiveThreads = {}
  BY <1>1 DEF LiveThreads
<1>3. ~ m_abort /\ m_queued_jobs["generic"] = <<>> /\ m_queued_jobs["hash"] = <<>>
  BY <1>1 DEF Init
<1>4. NewPool \in PoolObject(Workers) /\ NewPool.m_threads = {} /\ ~ NewPool.m_abort
  BY DEF NewPool, PoolObject
<1>5. PICK s \in Settings :
          pools = [q \in Pools |-> SetMaxThreads(NewPool, s[IF q = "generic" THEN 1 ELSE 2])]
  BY DEF Init
<1>6. pools["generic"] = SetMaxThreads(NewPool, s[1]) /\ pools["hash"] = SetMaxThreads(NewPool, s[2])
  BY <1>1, <1>5
<1>7. SetMaxThreads(NewPool, s[1]).m_max_threads = s[1] /\ SetMaxThreads(NewPool, s[2]).m_max_threads = s[2]
  BY DEF SetMaxThreads, StopThreads, NewPool
<1>8. pools["generic"].m_max_threads = 0 => pools["hash"].m_max_threads = 0
  BY <1>6, <1>7 DEF ThreadsRemain
<1>9. pools["generic"].m_threads = {} /\ ~ pools["generic"].m_abort
  BY <1>4, <1>6 DEF SetMaxThreads, StopThreads, PoolObject, NewPool
<1> QED
  BY <1>1, <1>2, <1>3, <1>8, <1>9
     DEF ShutInv, NoHashing, Registered, NetStage, NoThreads, QueueServed, MaxThreads

(* Jobs that were issued stay issued.                                      *)
LEMMA IssuedGrows ==
    ASSUME issued \in Seq(Jobs), [Next]_vars, ~ FullCheck'
    PROVE  ~ FullCheck
<1>1. issued' = issued \/ \E j \in Jobs : issued' = Append(issued, j)
  <2>1. ASSUME NEW t, ThreadStep(t) PROVE issued' = issued
    BY <2>1 DEF ThreadStep, TakeJob, WaitOrExit, CleanUp, Execute, SkipAborted, WriteBlock, EraseBuffer,
                ReadBlocks, StartHash, HashLookup, HashFile, PerformFence, execUnchanged, CompleteJobs,
                LeaveFence, RouteReleased, AppendReleased, NotifyReleased, PostCompleted
  <2>2. CASE Client
    <3>1. ASSUME NEW w \in WriteJobs, AsyncWrite(w) PROVE issued' = Append(issued, w) /\ w \in Jobs
      BY <3>1 DEF AsyncWrite, Issue, Jobs
    <3>2. ASSUME NEW r \in ReadJobs, AsyncRead(r) PROVE issued' = Append(issued, r) /\ r \in Jobs
      BY <3>2 DEF AsyncRead, Issue, Jobs
    <3>3. ASSUME NEW h \in HashJobs, AsyncHash(h) PROVE issued' = Append(issued, h) /\ h \in Jobs
      BY <3>3 DEF AsyncHash, Issue, Jobs
    <3>4. ASSUME NEW f \in FenceJobs, AsyncFence(f) PROVE issued' = Append(issued, f) /\ f \in Jobs
      BY <3>4 DEF AsyncFence, Issue, Jobs
    <3>5. ASSUME \/ \E s \in Settings : SettingsUpdated(s)
                 \/ \E q \in Pools : Reap(q)
                 \/ AbortSubmits
          PROVE  issued' = issued
      BY <3>5 DEF SettingsUpdated, Reap, AbortSubmits
    <3> QED
      BY <2>2, <3>1, <3>2, <3>3, <3>4, <3>5 DEF Client
  <2>3. CASE NetStep
    <3>1. ASSUME NEW j, JobFailAdd(j) \/ AddJob(j) \/ AddFenceJob(j) PROVE issued' = issued
      BY <3>1 DEF JobFailAdd, AddJob, AddFenceJob
    <3>2. ASSUME PushJob \/ ImmediateExecute \/ AbortStarts \/ AbortPools PROVE issued' = issued
      BY <3>2 DEF PushJob, ImmediateExecute, AbortStarts, AbortPools
    <3> QED
      BY <2>1, <2>3, <3>1, <3>2 DEF NetStep
  <2>4. CASE SubmitJobs \/ CallJobHandlers \/ UNCHANGED vars
    BY <2>4 DEF SubmitJobs, CallJobHandlers, vars
  <2> QED
    BY <2>1, <2>2, <2>3, <2>4 DEF Next
<1>2. ToSet(issued) \subseteq ToSet(issued')
  <2>1. CASE issued' = issued
    BY <2>1
  <2>2. ASSUME NEW j \in Jobs, issued' = Append(issued, j) PROVE ToSet(issued) \subseteq ToSet(issued')
    BY <2>2 DEF ToSet
  <2> QED
    BY <1>1, <2>1, <2>2
<1> QED
  BY <1>2 DEF FullCheck, IsIssued

(* The same for the invariant that holds until there is a full check.      *)
LEMMA StepShut ==
    ASSUME ThreadsRemain
    PROVE  DInv /\ DiskTypes /\ (~ FullCheck => ShutInv) /\ [Next]_vars => (~ FullCheck' => ShutInv')
<1>1. DInv => issued \in Seq(Jobs)
  BY DEF DInv
<1> QED
  BY <1>1, NextShut, IssuedGrows

(* When the threads are gone no job is left in a list, and the fence has   *)
(* nothing parked since nothing is in progress to lower it.                *)
LEMMA GoneAnswersAll ==
    ASSUME DInv, ~ FullCheck => ShutInv
    PROVE  ShutdownCallsHandlers
<1> SUFFICES ASSUME Gone, FullCheck => \A q \in Pools : m_queued_jobs[q] = <<>>
             PROVE  ToSet(called) = ToSet(issued)
  BY DEF ShutdownCallsHandlers
<1>0. /\ ListTypes /\ ThreadShape /\ JobsIn(Held) = ToSet(issued) /\ {"generic", "hash"} = Pools
      /\ DOMAIN thr = Threads /\ Workers \subseteq Threads
      /\ m_completed_jobs # <<>> => m_job_completions_in_flight
  BY ThreadSets DEF DInv, ListTypes, Pools
<1>1. \A u \in Threads : thr[u].pc = "none"
  BY <1>0 DEF Gone
<1>2. LiveThreads = {} /\ \A q \in Pools : pools[q].m_abort
  BY <1>0, <1>1 DEF LiveThreads, Gone
<1>3. m_queued_jobs["generic"] = <<>> /\ m_queued_jobs["hash"] = <<>> /\ m_completed_jobs = <<>>
  <2>1. CASE FullCheck
    BY <1>0, <2>1 DEF Gone
  <2>2. CASE ~ FullCheck
    <3>1. NoHashing /\ NetStage /\ QueueServed
      BY <2>2 DEF ShutInv
    <3> QED
      BY <1>0, <1>2, <3>1 DEF QueueServed, NoHashing, NetStage, Gone
  <2> QED
    BY <2>1, <2>2
<1>4. \A u \in Threads : thr[u].jobs = <<>> /\ thr[u].todo = <<>> /\ thr[u].new = <<>> /\ thr[u].failed = <<>>
  BY <1>0, <1>1 DEF ThreadShape, InShape, EmptyHanded, Passing
<1>5. ToSet(<<>>) = {}
  BY ToSetIs
<1>6. Active = {}
  <2>1. \A u \in Threads : ActiveOf(thr[u]) = {}
    BY <1>1, <1>4, <1>5 DEF ActiveOf
  <2> QED
    BY <1>3, <1>5, <2>1 DEF Active, Queued
<1>7. fence.m_blocked_jobs = <<>>
  BY <1>6 DEF DInv, F!IInv, F!NoLostWakeup
<1>8. \A x \in Lists : x = <<Net, "called">> \/ Held[x] = <<>>
  BY <1>3, <1>4, <1>7, HeldAre, ListsAre
<1>9. DOMAIN Held = Lists /\ <<Net, "called">> \in Lists /\ Held[<<Net, "called">>] = called
  BY <1>0, HeldType, ListsAre, HeldAre
<1> QED
  BY <1>0, <1>5, <1>8, <1>9 DEF JobsIn

(* When the disk threads are gone after abort(), every job that was issued *)
(* has had its handler called, those parked behind a fence and those that  *)
(* were issued after abort() included: with the default settings, and for  *)
(* any others that do not take the last generic thread away, any jobs,     *)
(* disk faults, reaped and restarted threads, and abort() at any moment.   *)
(* If there were hash jobs of a full check, it holds unless one is left in *)
(* a queue.                                                                *)
THEOREM ShutdownAnswersAll ==
    ASSUME ThreadsRemain
    PROVE  Spec => []ShutdownCallsHandlers
<1>1. Init => ShutInv
  BY InitShut
<1>2. DInv /\ DiskTypes /\ (~ FullCheck => ShutInv) /\ [Next]_vars => (~ FullCheck' => ShutInv')
  BY StepShut
<1>3. DInv /\ (~ FullCheck => ShutInv) => ShutdownCallsHandlers
  BY GoneAnswersAll
<1> QED
  BY <1>1, <1>2, <1>3, DiskTypesHold, PTL DEF Spec

=============================================================================

--------------------------- MODULE PartFileProofs ---------------------------
(***************************************************************************)
(* Proofs about PartFile, for any files, pieces, layout and bounds.        *)
(*                                                                         *)
(*   - the slots: what the constructor, allocate_slot and the end of       *)
(*     export_file do to the map and the free list (GoodPart), kept by     *)
(*     every step together with the types (Parted): SlotsAreExact;         *)
(*   - the data: the last write of every unit is where the storage looks   *)
(*     for it (Stored): ReadsAreLastWrites, whatever the disk does;        *)
(*   - until the disk reports an error, an existing file is used, the      *)
(*     priorities agree, and the header has the slots of what resume data  *)
(*     protect (Safe): DataSurvives and ResumeDataProtect.                 *)
(*                                                                         *)
(* PartFileInvariant puts the three together.                              *)
(***************************************************************************)
EXTENDS PartFile, FiniteSetTheorems, WellFoundedInduction, TLAPS

-----------------------------------------------------------------------------
(***************************************************************************)
(* Sets of numbers.                                                        *)
(***************************************************************************)

(* A set of numbers has a least element.                                   *)
LEMMA Least ==
    ASSUME NEW S, S \subseteq Nat, S # {}
    PROVE  \E b \in S : \A c \in S : b <= c
<1>1. \E b \in S : \A c \in S : ~ (<<c, b>> \in OpToRel(<, Nat))
  BY NatLessThanWellFounded, WFMin
<1>2. PICK b \in S : \A c \in S : ~ (<<c, b>> \in OpToRel(<, Nat))
  BY <1>1
<1>3. ASSUME NEW c \in S PROVE b <= c
  <2>1. c \in Nat /\ b \in Nat /\ ~ (<<c, b>> \in OpToRel(<, Nat))
    BY <1>2
  <2>2. ~ (c < b)
    BY <2>1 DEF OpToRel
  <2>3. c \in Nat /\ b \in Nat
    BY <2>1
  <2> QED
    BY <2>2, <2>3
<1> QED
  BY <1>3

(* A bounded set of numbers has a greatest element.                        *)
LEMMA MaxIs ==
    ASSUME NEW k \in Nat, NEW S, S \subseteq 0 .. k, S # {}
    PROVE  Max(S) \in S /\ \A s \in S : s <= Max(S)
<1> DEFINE B == {m \in Nat : \A s \in S : s <= m}
<1>1. k \in B
  OBVIOUS
<1>2. PICK m \in B : \A c \in B : m <= c
  BY <1>1, Least
<1>3. m \in S
  <2> SUFFICES ASSUME m \notin S PROVE FALSE
    OBVIOUS
  <2>1. m \in Nat /\ \A s \in S : s \in Nat /\ s < m
    OBVIOUS
  <2>2. PICK s \in S : s \in Nat /\ s < m
    BY <2>1
  <2>3. m - 1 \in Nat /\ \A t \in S : t <= m - 1
    BY <2>1, <2>2
  <2> QED
    BY <1>2, <2>1, <2>3
<1> QED
  BY <1>2, <1>3 DEF Max

Sorted(q) == \A i, k \in DOMAIN q : i < k => q[i] < q[k]

(* Every finite set of numbers can be put in ascending order.              *)
LEMMA SortedExists ==
    ASSUME NEW n \in Nat
    PROVE  \A S \in SUBSET (0 .. n - 1) : \E q \in [1 .. Cardinality(S) -> S] : Sorted(q)
<1> DEFINE Good(m) == \A S \in SUBSET (0 .. m - 1) : \E q \in [1 .. Cardinality(S) -> S] : Sorted(q)
           Bad == {m \in Nat : ~ Good(m)}
<1> SUFFICES Bad = {}
  OBVIOUS
<1> SUFFICES ASSUME Bad # {} PROVE FALSE
  OBVIOUS
<1>1. PICK m \in Bad : \A c \in Bad : m <= c
  BY Least
<1>2. m \in Nat /\ ~ Good(m)
  OBVIOUS
<1>3. PICK S \in SUBSET (0 .. m - 1) : ~ \E q \in [1 .. Cardinality(S) -> S] : Sorted(q)
  BY <1>2
<1>4. IsFiniteSet(S)
  <2>1. IsFiniteSet(0 .. m - 1)
    BY FS_Interval
  <2> QED
    BY <2>1, FS_Subset
<1>5. S # {}
  <2> SUFFICES ASSUME S = {} PROVE FALSE
    OBVIOUS
  <2>1. Cardinality(S) = 0
    BY FS_EmptySet
  <2> DEFINE q == [i \in 1 .. Cardinality(S) |-> 0]
  <2>2. q \in [1 .. Cardinality(S) -> S] /\ Sorted(q)
    BY <2>1 DEF Sorted
  <2> QED
    BY <1>3, <2>2
<1>6. m > 0 /\ m - 1 \in Nat
  <2>1. PICK s \in S : s \in 0 .. m - 1
    BY <1>3, <1>5
  <2> QED
    BY <1>2, <2>1
<1>7. Good(m - 1)
  <2>1. \A c \in Bad : m <= c
    BY <1>1
  <2>2. ~ (m <= m - 1)
    BY <1>2
  <2>3. m - 1 \notin Bad
    BY <2>1, <2>2
  <2> QED
    BY <1>6, <2>3
<1>8. CASE m - 1 \notin S
  <2>1. S \in SUBSET (0 .. (m - 1) - 1)
    BY <1>6, <1>8
  <2> QED
    BY <1>3, <1>7, <2>1
<1>9. CASE m - 1 \in S
  <2> DEFINE T == S \ {m - 1}
             c == Cardinality(T)
  <2>1. T \in SUBSET (0 .. (m - 1) - 1)
    BY <1>6
  <2>2. IsFiniteSet(T) /\ Cardinality(S) = c + 1 /\ c \in Nat
    <3>1. IsFiniteSet(T) /\ c = Cardinality(S) - 1
      BY <1>4, <1>9, FS_RemoveElement
    <3>2. c \in Nat /\ Cardinality(S) \in Nat
      BY <1>4, <3>1, FS_CardinalityType
    <3> QED
      BY <3>1, <3>2
  <2>3. PICK r \in [1 .. c -> T] : Sorted(r)
    BY <1>7, <2>1
  <2> DEFINE q == [i \in 1 .. c + 1 |-> IF i = c + 1 THEN m - 1 ELSE r[i]]
  <2> HIDE DEF c
  <2>4. \A i \in 1 .. c + 1 : i = c + 1 \/ i \in 1 .. c
    BY <2>2
  <2>5. \A i \in 1 .. c : r[i] \in T /\ r[i] < m - 1
    <3>1. \A x \in T : x < m - 1
      BY <1>2, <2>1
    <3> QED
      BY <2>3, <3>1
  <2>6. q \in [1 .. Cardinality(S) -> S]
    BY <1>9, <2>2, <2>4, <2>5
  <2>7. Sorted(q)
    <3>1. ASSUME NEW i \in 1 .. c + 1, NEW k \in 1 .. c + 1, i < k PROVE q[i] < q[k]
      <4>1. i \in 1 .. c /\ q[i] = r[i] /\ r[i] < m - 1
        BY <2>2, <2>5, <3>1
      <4>2. CASE k = c + 1
        BY <4>1, <4>2
      <4>3. CASE k \in 1 .. c
        BY <2>2, <2>3, <3>1, <4>1, <4>3 DEF Sorted
      <4> QED
        BY <2>4, <4>2, <4>3
    <3> QED
      BY <3>1 DEF Sorted
  <2> QED
    BY <1>3, <2>6, <2>7
<1> QED
  BY <1>8, <1>9

(* Ascending(S) lists the elements of S, each once.                        *)
LEMMA AscendingIs ==
    ASSUME NEW n \in Nat, NEW S, S \subseteq 0 .. n - 1
    PROVE  Ascending(S) \in Seq(Nat) /\ IsInjective(Ascending(S)) /\ ToSet(Ascending(S)) = S
<1> DEFINE q == Ascending(S)
           c == Cardinality(S)
<1>1. q \in [1 .. c -> S] /\ \A i, k \in DOMAIN q : i < k => q[i] < q[k]
  <2>1. \E r \in [1 .. c -> S] : \A i, k \in DOMAIN r : i < k => r[i] < r[k]
    BY SortedExists DEF Sorted
  <2> QED
    BY <2>1 DEF Ascending
<1>2. IsFiniteSet(S) /\ c \in Nat
  <2>1. IsFiniteSet(0 .. n - 1)
    BY FS_Interval
  <2>2. IsFiniteSet(S)
    BY <2>1, FS_Subset
  <2> QED
    BY <2>2, FS_CardinalityType
<1> HIDE DEF q, c
<1>3. \A i \in 1 .. c : q[i] \in Nat /\ q[i] \in S
  <2>1. \A x \in S : x \in Nat
    OBVIOUS
  <2> QED
    BY <1>1, <2>1
<1>4. IsInjective(q)
  <2>1. ASSUME NEW i \in 1 .. c, NEW k \in 1 .. c, q[i] = q[k], i # k PROVE FALSE
    <3>1. i \in Nat /\ k \in Nat /\ (i < k \/ k < i)
      BY <1>2, <2>1
    <3>2. q[i] < q[k] \/ q[k] < q[i]
      BY <1>1, <3>1
    <3> QED
      BY <1>3, <2>1, <3>2
  <2> QED
    BY <1>1, <2>1 DEF IsInjective
<1>5. q \in Seq(Nat)
  BY <1>1, <1>2, <1>3
<1>6. ToSet(q) = S
  <2>1. q \in Injection(1 .. c, S)
    BY <1>1, <1>4 DEF Injection, IsInjective
  <2>2. Cardinality(1 .. c) = c
    BY <1>2, FS_Interval
  <2>3. q \in Surjection(1 .. c, S)
    BY <1>2, <2>1, <2>2, FS_Injection DEF c
  <2> QED
    BY <1>1, <2>3 DEF ToSet, Surjection
<1> QED
  BY <1>4, <1>5, <1>6 DEF q

-----------------------------------------------------------------------------
(***************************************************************************)
(* The slots of a part file.                                               *)
(***************************************************************************)
Taken(m) == {m[p] : p \in DOMAIN m}

GoodPart(pf) ==
    /\ pf \in [open : BOOLEAN, map : {pf.map}, free : Seq(Nat), num_allocated : Nat, dirty : BOOLEAN]
    /\ SlotMap(pf.map)
    /\ IsInjective(pf.free) /\ ToSet(pf.free) \cap Taken(pf.map) = {}
    /\ Taken(pf.map) \union ToSet(pf.free) = 0 .. pf.num_allocated - 1
    /\ pf.num_allocated <= NumPieces

(* Pieces are finitely many.                                               *)
LEMMA PiecesAre == NumPieces \in Nat /\ IsFiniteSet(Pieces) /\ Cardinality(Pieces) = NumPieces
<1>1. NumPieces \in Nat
  BY PartFileAssumption
<1> QED
  BY <1>1, FS_Interval DEF Pieces

(* The empty list, and intervals.                                          *)
LEMMA EmptyIs == ToSet(<<>>) = {} /\ IsInjective(<<>>) /\ <<>> \in Seq(Nat) /\ DOMAIN <<>> = {}
  BY DEF ToSet, IsInjective

LEMMA CountsFromZero ==
    ASSUME NEW n \in Nat
    PROVE  /\ IsFiniteSet(0 .. n - 1) /\ Cardinality(0 .. n - 1) = n
           /\ (0 .. n - 1) \union {n} = 0 .. (n + 1) - 1
<1>1. 0 \in Int /\ n - 1 \in Int
  OBVIOUS
<1>2. IsFiniteSet(0 .. n - 1) /\ Cardinality(0 .. n - 1) = IF 0 > n - 1 THEN 0 ELSE (n - 1) - 0 + 1
  BY <1>1, FS_Interval, ZenonT(30)
<1>3. (0 .. n - 1) \union {n} = 0 .. (n + 1) - 1
  OBVIOUS
<1> QED
  BY <1>2, <1>3

(* A map from pieces to slots has as many slots as pieces.                 *)
LEMMA TakenAre ==
    ASSUME NEW m, SlotMap(m)
    PROVE  /\ IsFiniteSet(DOMAIN m) /\ Cardinality(DOMAIN m) \in Nat
           /\ Cardinality(Taken(m)) = Cardinality(DOMAIN m)
<1>1. IsFiniteSet(DOMAIN m)
  BY PiecesAre, FS_Subset DEF SlotMap
<1> DEFINE g == [p \in DOMAIN m |-> m[p]]
<1>2. g \in Surjection(DOMAIN m, Taken(m)) /\ g \in Injection(DOMAIN m, Taken(m))
  BY DEF SlotMap, Surjection, Injection, IsInjective, Taken
<1> QED
  BY <1>1, <1>2, FS_Surjection, FS_CardinalityType

(* No part file: nothing is allocated.                                     *)
LEMMA NoPartIs == GoodPart(NoPartFile)
<1>1. ToSet(<<>>) = {} /\ IsInjective(<<>>) /\ <<>> \in Seq(Nat) /\ DOMAIN <<>> = {}
  BY EmptyIs
<1>2. SlotMap(<<>>) /\ Taken(<<>>) = {}
  BY <1>1 DEF SlotMap, Taken
<1> QED
  BY <1>1, <1>2, PiecesAre DEF NoPartFile, GoodPart

(* The constructor.                                                        *)
LEMMA LoadIs ==
    ASSUME NEW h, SlotMap(h)
    PROVE  GoodPart(Load(h)) /\ Load(h).map = h /\ Load(h).open /\ ~ Load(h).dirty
<1> DEFINE t == Taken(h)
           n == IF t = {} THEN 0 ELSE Max(t) + 1
           free == Ascending((0 .. n - 1) \ t)
<1>1. t \subseteq 0 .. NumPieces - 1
  BY DEF SlotMap, Taken
<1>2. n \in Nat /\ n <= NumPieces /\ t \subseteq 0 .. n - 1
  <2>1. CASE t = {}
    BY <2>1, PiecesAre
  <2>2. CASE t # {}
    <3>1. NumPieces - 1 \in Nat
      BY <1>1, <2>2, PiecesAre
    <3>2. Max(t) \in t /\ \A s \in t : s <= Max(t)
      BY <1>1, <2>2, <3>1, MaxIs
    <3> HIDE DEF t
    <3>3. \A s \in t : s \in Nat /\ s <= NumPieces - 1
      BY <1>1, PiecesAre
    <3> QED
      BY <2>2, <3>2, <3>3, PiecesAre
  <2> QED
    BY <2>1, <2>2
<1> HIDE DEF n, t
<1>3. free \in Seq(Nat) /\ IsInjective(free) /\ ToSet(free) = (0 .. n - 1) \ t
  BY <1>2, AscendingIs
<1> HIDE DEF free
<1>4. Load(h) = [open |-> TRUE, map |-> h, num_allocated |-> n, dirty |-> FALSE, free |-> free]
  BY DEF Load, n, t, free, Taken
<1> QED
  BY <1>2, <1>3, <1>4 DEF GoodPart, t

(* allocate_slot.                                                          *)
LEMMA AllocateIs ==
    ASSUME NEW pf, GoodPart(pf), NEW p \in Pieces, p \notin DOMAIN pf.map
    PROVE  LET a == Allocate(pf, p) IN
           /\ GoodPart(a) /\ a.open = pf.open /\ a.dirty
           /\ DOMAIN a.map = DOMAIN pf.map \union {p}
           /\ \A q \in DOMAIN pf.map : a.map[q] = pf.map[q]
<1> DEFINE a == Allocate(pf, p)
           s == IF pf.free # <<>> THEN Head(pf.free) ELSE pf.num_allocated
           m == With(pf.map, p, s)
<1> USE DEF GoodPart
<1>1. /\ DOMAIN m = DOMAIN pf.map \union {p} /\ m[p] = s
      /\ \A q \in DOMAIN pf.map : m[q] = pf.map[q]
  BY DEF With, Over
<1>2. pf.num_allocated \in Nat /\ pf.free \in Seq(Nat)
  OBVIOUS
<1>3. \A q \in DOMAIN pf.map : pf.map[q] \in 0 .. pf.num_allocated - 1
  BY DEF Taken
<1>4. s \notin Taken(pf.map)
  <2>1. CASE pf.free # <<>>
    BY <1>2, <2>1 DEF ToSet
  <2>2. CASE pf.free = <<>>
    BY <1>2, <1>3, <2>2 DEF Taken
  <2> QED
    BY <2>1, <2>2
<1>5. s \in 0 .. NumPieces - 1
  <2>1. CASE pf.free # <<>>
    <3>1. s \in 0 .. pf.num_allocated - 1
      BY <1>2, <2>1 DEF ToSet
    <3> QED
      BY <1>2, <3>1, PiecesAre
  <2>2. CASE pf.free = <<>>
    <3>1. Taken(pf.map) = 0 .. pf.num_allocated - 1
      BY <2>2, EmptyIs
    <3>2. Cardinality(0 .. pf.num_allocated - 1) = pf.num_allocated
      BY <1>2, CountsFromZero
    <3>3. Cardinality(DOMAIN pf.map) = pf.num_allocated
      BY <3>1, <3>2, TakenAre
    <3>4. Cardinality(DOMAIN pf.map) <= NumPieces /\ (Cardinality(DOMAIN pf.map) = NumPieces => DOMAIN pf.map = Pieces)
      BY PiecesAre, FS_Subset DEF SlotMap
    <3>5. pf.num_allocated < NumPieces
      BY <1>2, <3>3, <3>4, PiecesAre
    <3> QED
      BY <1>2, <2>2, <3>5, PiecesAre
  <2> QED
    BY <2>1, <2>2
<1>6. SlotMap(m)
  <2>1. m \in [DOMAIN m -> 0 .. NumPieces - 1]
    <3>1. \A q \in DOMAIN m : m[q] \in 0 .. NumPieces - 1
      BY <1>1, <1>5 DEF SlotMap
    <3> QED
      BY <3>1 DEF With, Over
  <2>2. \A q, r \in DOMAIN m : m[q] = m[r] => q = r
    BY <1>1, <1>4 DEF SlotMap, Taken
  <2> QED
    BY <1>1, <2>1, <2>2 DEF SlotMap
<1>7. Taken(m) = Taken(pf.map) \union {s}
  BY <1>1 DEF Taken
<1>8. CASE pf.free # <<>>
  <2> DEFINE t == Tail(pf.free)
  <2>1. a = [pf EXCEPT !.map = m, !.free = t, !.dirty = TRUE]
    BY <1>8 DEF Allocate
  <2>2. a \in [open : BOOLEAN, map : {m}, free : Seq(Nat), num_allocated : Nat, dirty : BOOLEAN]
    <3>1. t \in Seq(Nat)
      BY <1>2, <1>8
    <3> HIDE DEF t, m, a
    <3> QED
      BY <2>1, <3>1
  <2>3. /\ a.map = m /\ a.free = t /\ a.num_allocated = pf.num_allocated /\ a.open = pf.open /\ a.dirty
    BY <2>1
  <2>4. IsInjective(t) /\ ToSet(t) = ToSet(pf.free) \ {s}
    <3>1. \A i \in DOMAIN t : i + 1 \in DOMAIN pf.free /\ t[i] = pf.free[i + 1]
      BY <1>2, <1>8
    <3>2. \A i \in DOMAIN pf.free : i = 1 \/ (i - 1 \in DOMAIN t /\ t[i - 1] = pf.free[i])
      BY <1>2, <1>8
    <3>3. s = pf.free[1] /\ 1 \in DOMAIN pf.free
      BY <1>2, <1>8
    <3>4. \A i \in DOMAIN t : i \in Nat /\ i # 0
      BY <1>2, <1>8
    <3> HIDE DEF t
    <3>5. IsInjective(t)
      <4>1. ASSUME NEW i \in DOMAIN t, NEW k \in DOMAIN t, t[i] = t[k] PROVE i = k
        <5>1. i + 1 = k + 1
          BY <3>1, <4>1 DEF IsInjective
        <5> QED
          BY <3>4, <5>1
      <4> QED
        BY <4>1 DEF IsInjective
    <3>6. ToSet(t) \subseteq ToSet(pf.free) \ {s}
      <4>1. ASSUME NEW i \in DOMAIN t PROVE t[i] \in ToSet(pf.free) /\ t[i] # s
        <5>1. i + 1 # 1
          BY <3>4
        <5> QED
          BY <3>1, <3>3, <5>1 DEF IsInjective, ToSet
      <4> QED
        BY <4>1 DEF ToSet
    <3>7. ToSet(pf.free) \ {s} \subseteq ToSet(t)
      BY <3>2, <3>3 DEF ToSet
    <3> QED
      BY <3>5, <3>6, <3>7
  <2>5. s \in ToSet(pf.free)
    BY <1>2, <1>8 DEF ToSet
  <2> HIDE DEF t, m, s, a
  <2> QED
    BY <1>1, <1>4, <1>6, <1>7, <2>2, <2>3, <2>4, <2>5 DEF a
<1>9. CASE pf.free = <<>>
  <2>1. a = [pf EXCEPT !.map = m, !.num_allocated = pf.num_allocated + 1, !.dirty = TRUE]
    BY <1>9 DEF Allocate
  <2>2. a \in [open : BOOLEAN, map : {m}, free : Seq(Nat), num_allocated : Nat, dirty : BOOLEAN]
    <3>1. pf.num_allocated + 1 \in Nat
      BY <1>2
    <3> HIDE DEF m, a
    <3> QED
      BY <2>1, <3>1
  <2>3. /\ a.map = m /\ a.free = pf.free /\ a.num_allocated = pf.num_allocated + 1 /\ a.open = pf.open /\ a.dirty
    BY <2>1
  <2>4. ToSet(pf.free) = {} /\ s = pf.num_allocated
    BY <1>9 DEF ToSet
  <2>5. Taken(m) = 0 .. (pf.num_allocated + 1) - 1
    <3>1. Taken(pf.map) = 0 .. pf.num_allocated - 1
      BY <2>4
    <3> HIDE DEF m, s
    <3> QED
      BY <1>2, <1>7, <2>4, <3>1, CountsFromZero
  <2>6. pf.num_allocated + 1 <= NumPieces
    BY <1>2, <1>5, <2>4, PiecesAre
  <2> HIDE DEF m, s, a
  <2> QED
    BY <1>1, <1>6, <2>2, <2>3, <2>4, <2>5, <2>6 DEF a
<1> QED
  BY <1>8, <1>9

(* free_piece.                                                             *)
LEMMA FreedIs ==
    ASSUME NEW pf, GoodPart(pf), NEW p \in DOMAIN pf.map
    PROVE  LET a == Freed(pf, p) IN
           /\ GoodPart(a) /\ a.open = pf.open /\ a.dirty
           /\ DOMAIN a.map = DOMAIN pf.map \ {p}
           /\ \A q \in DOMAIN a.map : a.map[q] = pf.map[q]
<1> DEFINE a == Freed(pf, p)
           s == pf.map[p]
           m == Without(pf.map, p)
           t == Append(pf.free, s)
<1> USE DEF GoodPart
<1>1. DOMAIN m = DOMAIN pf.map \ {p} /\ \A q \in DOMAIN m : m[q] = pf.map[q]
  BY DEF Without
<1>2. pf.num_allocated \in Nat /\ pf.free \in Seq(Nat) /\ s \in Nat /\ s \in Taken(pf.map)
  BY PiecesAre DEF SlotMap, Taken
<1>3. SlotMap(m)
  <2>1. m \in [DOMAIN m -> 0 .. NumPieces - 1]
    BY DEF SlotMap, Without
  <2> QED
    BY <1>1, <2>1 DEF SlotMap
<1>4. Taken(m) = Taken(pf.map) \ {s}
  BY <1>1 DEF Taken, SlotMap
<1>5. a = [pf EXCEPT !.map = m, !.free = t, !.dirty = TRUE]
  BY DEF Freed
<1>6. t \in Seq(Nat)
  BY <1>2
<1>7. a \in [open : BOOLEAN, map : {m}, free : Seq(Nat), num_allocated : Nat, dirty : BOOLEAN]
  BY <1>5, <1>6
<1>8. a.map = m /\ a.free = t /\ a.num_allocated = pf.num_allocated /\ a.open = pf.open /\ a.dirty
  BY <1>5
<1>9. IsInjective(t) /\ ToSet(t) = ToSet(pf.free) \union {s}
  <2> DEFINE l == Len(pf.free)
  <2>1. /\ DOMAIN t = 1 .. l + 1 /\ DOMAIN pf.free = 1 .. l /\ t[l + 1] = s
        /\ \A i \in 1 .. l : t[i] = pf.free[i] /\ l \in Nat
    BY <1>2
  <2>2. l \in Nat /\ \A i \in 1 .. l + 1 : i \in 1 .. l \/ i = l + 1
    BY <1>2
  <2>3. s \notin ToSet(pf.free)
    BY <1>2
  <2> HIDE DEF t, l, s
  <2>4. IsInjective(t)
    <3>1. ASSUME NEW i \in DOMAIN t, NEW k \in DOMAIN t, t[i] = t[k] PROVE i = k
      <4>1. CASE i \in 1 .. l /\ k \in 1 .. l
        BY <2>1, <3>1, <4>1 DEF IsInjective
      <4>2. CASE i = l + 1 \/ k = l + 1
        BY <2>1, <2>2, <2>3, <3>1, <4>2 DEF ToSet
      <4> QED
        BY <2>1, <2>2, <4>1, <4>2
    <3> QED
      BY <3>1 DEF IsInjective
  <2>5. ToSet(t) \subseteq ToSet(pf.free) \union {s}
    BY <2>1, <2>2 DEF ToSet
  <2>6. ToSet(pf.free) \union {s} \subseteq ToSet(t)
    <3>1. \A i \in 1 .. l : i \in 1 .. l + 1
      BY <2>2
    <3>2. l + 1 \in 1 .. l + 1
      BY <2>2
    <3> QED
      BY <2>1, <3>1, <3>2 DEF ToSet
  <2> QED
    BY <2>4, <2>5, <2>6
<1> HIDE DEF a, s, m, t
<1> QED
  BY <1>1, <1>2, <1>3, <1>4, <1>7, <1>8, <1>9 DEF a

-----------------------------------------------------------------------------
(***************************************************************************)
(* The invariant of the slots, in four parts.                              *)
(***************************************************************************)
PartIs ==
    /\ GoodPart(part)
    /\ DOMAIN writing \subseteq Units
    /\ \A u \in DOMAIN writing : u[1] \in DOMAIN part.map /\ part.map[u[1]] = writing[u]

DiskObject ==
    /\ disk \in [header : {disk.header}, cells : {disk.cells}, files : [Files -> BOOLEAN],
                 data : [Units -> Nat]]
    /\ SlotMap(disk.header)
    /\ disk.cells \in [DOMAIN disk.cells -> Units \X Nat]

Numbered ==
    /\ budget \in [writes : Nat, changes : Nat, faults : Nat, restarts : Nat]
    /\ last \in [Units -> Nat] /\ durable \in [Units -> Nat]
    /\ \A u \in Units : UpTo(last[u]) /\ UpTo(durable[u]) /\ UpTo(disk.data[u])
    /\ \A c \in DOMAIN disk.cells : UpTo(disk.cells[c][2])

Settings ==
    /\ priority \in [Files -> Priorities] /\ saved \in [Files -> Priorities]
    /\ prio \in [Files -> Priorities] /\ wanted \in [Files -> Priorities]
    /\ use \in [Files -> BOOLEAN] /\ outstanding \in BOOLEAN
    /\ broken \subseteq Files

Parted == PartIs /\ DiskObject /\ Numbered /\ Settings /\ JobTypes

(* SlotInv is made of these parts.                                         *)
LEMMA SlotInvIs == (SlotInv <=> Parted) /\ (SlotInv' <=> Parted')
<1> USE DEF Parted, PartIs, DiskObject, Numbered, Settings
<1>1. MaxWrites \in Nat
  BY PartFileAssumption
<1>2. SlotInv => Parted
  BY DEF SlotInv, SlotsExact, TypeOK, StorageTypes, GoodPart, Taken
<1>3. Parted => SlotInv
  <2> SUFFICES ASSUME Parted PROVE SlotInv
    OBVIOUS
  <2>1. disk.data \in [Units -> 0 .. MaxWrites]
    <3>1. \A u \in Units : disk.data[u] \in 0 .. MaxWrites
      BY <1>1 DEF UpTo
    <3> QED
      BY <3>1
  <2>2. TypeOK
    BY <2>1 DEF TypeOK, GoodPart, SlotMap
  <2>3. Cardinality(Taken(part.map)) = Cardinality(DOMAIN part.map)
    BY TakenAre DEF GoodPart
  <2>4. SlotsExact
    BY <2>2, <2>3 DEF SlotsExact, GoodPart, Taken
  <2>5. StorageTypes
    BY DEF StorageTypes, GoodPart
  <2> QED
    BY <2>4, <2>5 DEF SlotInv
<1>4. SlotInv' => Parted'
  BY DEF SlotInv, SlotsExact, TypeOK, StorageTypes, GoodPart, Taken
<1>5. Parted' => SlotInv'
  <2> SUFFICES ASSUME Parted' PROVE SlotInv'
    OBVIOUS
  <2>1. disk'.data \in [Units -> 0 .. MaxWrites]
    <3>1. \A u \in Units : disk'.data[u] \in 0 .. MaxWrites
      BY <1>1 DEF UpTo
    <3> QED
      BY <3>1
  <2>2. TypeOK'
    BY <2>1 DEF TypeOK, GoodPart, SlotMap
  <2>3. Cardinality(Taken(part'.map)) = Cardinality(DOMAIN part'.map)
    BY TakenAre DEF GoodPart
  <2>4. SlotsExact'
    BY <2>2, <2>3 DEF SlotsExact, GoodPart, Taken
  <2>5. StorageTypes'
    BY DEF StorageTypes, GoodPart
  <2> QED
    BY <2>4, <2>5 DEF SlotInv
<1> QED
  BY <1>2, <1>3, <1>4, <1>5

-----------------------------------------------------------------------------
(***************************************************************************)
(* What a slot and a storage hold.                                         *)
(***************************************************************************)
AtIn(cells, s, u) ==
    LET from == {IF <<s, k>> \in DOMAIN cells THEN cells[<<s, k>>] ELSE <<u, 0>> : k \in Layout[u]}
    IN  IF \E n \in 0 .. MaxWrites : from = {<<u, n>>} THEN (CHOOSE c \in from : TRUE)[2] ELSE 0

Holds(cells, s, u, n) == \A k \in Layout[u] : <<s, k>> \in DOMAIN cells /\ cells[<<s, k>>] = <<u, n>>

(* A unit is found in a slot if all its parts come from one write of it.   *)
LEMMA AtHolds ==
    ASSUME NEW cells, NEW s, NEW u \in Units, NEW n \in 1 .. MaxWrites
    PROVE  AtIn(cells, s, u) = n <=> Holds(cells, s, u, n)
<1> DEFINE part_of(k) == IF <<s, k>> \in DOMAIN cells THEN cells[<<s, k>>] ELSE <<u, 0>>
           from == {part_of(k) : k \in Layout[u]}
           w == CHOOSE c \in from : TRUE
<1>0. AtIn(cells, s, u) = IF \E m \in 0 .. MaxWrites : from = {<<u, m>>}
                          THEN w[2] ELSE 0
  BY Zenon DEF AtIn
<1>1. MaxWrites \in Nat /\ Layout[u] # {}
  BY PartFileAssumption
<1>2. ASSUME AtIn(cells, s, u) = n PROVE Holds(cells, s, u, n)
  <2> HIDE DEF from, w
  <2>1. PICK m \in 0 .. MaxWrites : from = {<<u, m>>}
    BY <1>0, <1>1, <1>2
  <2>2. w = <<u, m>>
    BY <2>1 DEF w
  <2>3. AtIn(cells, s, u) = w[2]
    BY <1>0, <2>1
  <2>4. m = n
    BY <1>2, <2>2, <2>3
  <2>5. \A k \in Layout[u] : part_of(k) = <<u, n>>
    BY <2>1, <2>4 DEF from
  <2>6. <<u, 0>> # <<u, n>>
    BY <1>1
  <2> QED
    BY <2>5, <2>6 DEF Holds
<1>3. ASSUME Holds(cells, s, u, n) PROVE AtIn(cells, s, u) = n
  <2>1. from = {<<u, n>>}
    <3>1. \A k \in Layout[u] : part_of(k) = <<u, n>>
      BY <1>3 DEF Holds
    <3> HIDE DEF part_of
    <3> QED
      BY <1>1, <3>1
  <2> HIDE DEF from, w
  <2>2. w = <<u, n>> /\ n \in 0 .. MaxWrites
    BY <1>1, <2>1 DEF w
  <2> QED
    BY <1>0, <2>1, <2>2
<1> QED
  BY <1>2, <1>3

(* What is found in a slot was written.                                    *)
LEMMA AtValue ==
    ASSUME NEW cells, NEW s, NEW u \in Units
    PROVE  /\ AtIn(cells, s, u) \in 0 .. MaxWrites
           /\ AtIn(cells, s, u) = 0 \/ \E c \in DOMAIN cells : cells[c] = <<u, AtIn(cells, s, u)>>
<1> DEFINE part_of(k) == IF <<s, k>> \in DOMAIN cells THEN cells[<<s, k>>] ELSE <<u, 0>>
           from == {part_of(k) : k \in Layout[u]}
           w == CHOOSE c \in from : TRUE
           v == AtIn(cells, s, u)
<1>0. AtIn(cells, s, u) = IF \E m \in 0 .. MaxWrites : from = {<<u, m>>}
                          THEN w[2] ELSE 0
  BY Zenon DEF AtIn
<1>1. MaxWrites \in Nat /\ Layout[u] # {}
  BY PartFileAssumption
<1>2. v \in 0 .. MaxWrites
  <2> HIDE DEF from, w
  <2>1. CASE \E m \in 0 .. MaxWrites : from = {<<u, m>>}
    <3>1. PICK m \in 0 .. MaxWrites : from = {<<u, m>>}
      BY <2>1
    <3>2. w = <<u, m>>
      BY <3>1 DEF w
    <3>3. v = w[2]
      BY <1>0, <3>1
    <3> QED
      BY <3>2, <3>3
  <2>2. CASE ~ \E m \in 0 .. MaxWrites : from = {<<u, m>>}
    BY <1>0, <1>1, <2>2
  <2> QED
    BY <2>1, <2>2
<1> HIDE DEF v
<1>3. ASSUME v # 0 PROVE \E c \in DOMAIN cells : cells[c] = <<u, v>>
  <2>1. v \in 1 .. MaxWrites
    BY <1>1, <1>2, <1>3
  <2>2. Holds(cells, s, u, v)
    BY <2>1, AtHolds DEF v
  <2> QED
    BY <1>1, <2>2 DEF Holds
<1> QED
  BY <1>2, <1>3 DEF v

Uses(pr, us, f) == pr[f] = 0 /\ us[f]

SeenIn(pr, us, pf, d, u) ==
    IF Uses(pr, us, u[2])
    THEN IF u[1] \in DOMAIN pf.map THEN AtIn(d.cells, pf.map[u[1]], u) ELSE 0
    ELSE IF d.files[u[2]] THEN d.data[u] ELSE 0

FoundIn(pr, us, pf, d, u, n) ==
    IF Uses(pr, us, u[2])
    THEN u[1] \in DOMAIN pf.map /\ Holds(d.cells, pf.map[u[1]], u, n)
    ELSE d.files[u[2]] /\ d.data[u] = n

(* These are the model's At and Seen.                                      *)
LEMMA SeenInIs ==
    /\ \A s, u : At(s, u) = AtIn(disk.cells, s, u) /\ At(s, u)' = AtIn(disk'.cells, s, u)
    /\ \A u : Seen(u) = SeenIn(prio, use, part, disk, u) /\ Seen(u)' = SeenIn(prio', use', part', disk', u)
    /\ \A f : UsesPartFile(f) = Uses(prio, use, f) /\ UsesPartFile(f)' = Uses(prio', use', f)
<1>1. \A s, u : At(s, u) = AtIn(disk.cells, s, u)
  BY DEF At, AtIn
<1>2. \A s, u : At(s, u)' = AtIn(disk'.cells, s, u)
  BY DEF At, AtIn
<1>3. \A f : UsesPartFile(f) = Uses(prio, use, f) /\ UsesPartFile(f)' = Uses(prio', use', f)
  BY DEF UsesPartFile, Uses
<1>4. \A u : Seen(u) = SeenIn(prio, use, part, disk, u)
  BY <1>1, <1>3 DEF Seen, SeenIn
<1>5. \A u : Seen(u)' = SeenIn(prio', use', part', disk', u)
  BY <1>2, <1>3 DEF Seen, SeenIn
<1> QED
  BY <1>1, <1>2, <1>3, <1>4, <1>5

(* What the storage finds, in terms of what the parts of a unit hold.      *)
LEMMA SeenFound ==
    ASSUME NEW pr, NEW us, NEW pf, NEW d, NEW u \in Units, NEW n \in 1 .. MaxWrites
    PROVE  SeenIn(pr, us, pf, d, u) = n <=> FoundIn(pr, us, pf, d, u, n)
<1>1. n # 0
  BY PartFileAssumption
<1> QED
  BY <1>1, AtHolds DEF SeenIn, FoundIn

(* What the storage finds was written.                                     *)
LEMMA SeenValue ==
    ASSUME NEW pr, NEW us, NEW pf, NEW d, NEW u \in Units
    PROVE  LET v == SeenIn(pr, us, pf, d, u) IN
           v = 0 \/ v = d.data[u] \/ (v \in Nat /\ \E c \in DOMAIN d.cells : d.cells[c] = <<u, v>>)
  BY AtValue DEF SeenIn

-----------------------------------------------------------------------------
(***************************************************************************)
(* What the steps do to the part file and the disk.                        *)
(***************************************************************************)

(* flush_metadata.                                                         *)
LEMMA FlushIs ==
    ASSUME PartIs, DiskObject, NEW ok \in BOOLEAN, FlushMetadata(ok)
    PROVE  /\ GoodPart(part') /\ part'.map = part.map /\ part'.open = part.open
           /\ DiskObject' /\ disk'.files = disk.files /\ disk'.data = disk.data
           /\ disk'.cells = disk.cells \/ (DOMAIN disk'.cells = {} /\ DOMAIN part.map = {})
           /\ disk'.header \in {disk.header, part.map}
           /\ ok /\ (~ part.dirty => disk.header = part.map) => disk'.header = part.map
           /\ ~ part'.dirty => ~ part.dirty \/ ok
<1>1. GoodPart(part)
  BY DEF PartIs
<1>2. /\ part' \in [open : BOOLEAN, map : {part.map}, free : Seq(Nat), num_allocated : Nat, dirty : BOOLEAN]
      /\ part'.map = part.map /\ part'.open = part.open /\ part'.free = part.free
      /\ part'.num_allocated = part.num_allocated /\ (~ part'.dirty => ~ part.dirty \/ ok)
  BY <1>1 DEF GoodPart, FlushMetadata
<1>3. GoodPart(part')
  BY <1>1, <1>2 DEF GoodPart
<1>4. CASE disk' = disk /\ (ok => ~ part.dirty)
  BY <1>2, <1>3, <1>4 DEF DiskObject
<1>5. CASE ok /\ part.map = <<>> /\ disk' = [disk EXCEPT !.header = <<>>, !.cells = <<>>]
  <2>1. DOMAIN part.map = {} /\ SlotMap(<<>>) /\ <<>> \in [DOMAIN <<>> -> Units \X Nat] /\ DOMAIN <<>> = {}
    BY <1>5, EmptyIs DEF SlotMap
  <2>2. /\ disk' \in [header : {<<>>}, cells : {<<>>}, files : [Files -> BOOLEAN], data : [Units -> Nat]]
        /\ disk'.header = <<>> /\ disk'.cells = <<>> /\ disk'.files = disk.files /\ disk'.data = disk.data
    BY <1>5 DEF DiskObject
  <2> QED
    BY <1>2, <1>3, <1>5, <2>1, <2>2 DEF DiskObject
<1>6. CASE ok /\ disk' = [disk EXCEPT !.header = part.map]
  <2>1. /\ disk' \in [header : {part.map}, cells : {disk.cells}, files : [Files -> BOOLEAN], data : [Units -> Nat]]
        /\ disk'.header = part.map /\ disk'.cells = disk.cells /\ disk'.files = disk.files
        /\ disk'.data = disk.data
    BY <1>6 DEF DiskObject
  <2> QED
    BY <1>1, <1>2, <1>3, <1>6, <2>1 DEF DiskObject, GoodPart
<1> QED
  BY <1>4, <1>5, <1>6 DEF FlushMetadata, Flushed

(* mmap_storage::initialize after a stop or a crash.                       *)
LEMMA RestartIs ==
    ASSUME DiskObject', NEW to \in [Files -> Priorities], Restart(to)
    PROVE  /\ GoodPart(part') /\ DOMAIN writing' = {} /\ job' = NoJob
           /\ prio' = to /\ priority' = to /\ saved' = to
           /\ \A f \in Files : Uses(prio', use', f) <=> to[f] = 0 /\ ~ disk'.files[f]
           /\ \A f \in Files : Uses(prio', use', f) => part'.open
           /\ part'.open => part'.map = disk'.header
           /\ ~ part'.open => DOMAIN part'.map = {}
           /\ last' = [u \in Units |-> SeenIn(prio', use', part', disk', u)] /\ durable' = durable
<1>1. SlotMap(disk'.header)
  BY DEF DiskObject
<1>2. prio' = to /\ use' = [f \in Files |-> ~ (to[f] = 0 /\ disk'.files[f])]
  BY DEF Restart, Initialize
<1>3. CASE \E f \in Files : to[f] = 0 /\ ~ disk'.files[f]
  <2>1. part' = Load(disk'.header)
    BY <1>3 DEF Restart, Initialize
  <2> QED
    BY <1>1, <1>2, <2>1, LoadIs, SeenInIs, EmptyIs DEF Restart, Uses
<1>4. CASE ~ \E f \in Files : to[f] = 0 /\ ~ disk'.files[f]
  <2>1. part' = NoPartFile
    BY <1>4 DEF Restart, Initialize
  <2>2. ~ part'.open /\ DOMAIN part'.map = {}
    BY <2>1, EmptyIs DEF NoPartFile
  <2> QED
    BY <1>2, <1>4, <2>1, <2>2, NoPartIs, SeenInIs, EmptyIs DEF Restart, Uses
<1> QED
  BY <1>3, <1>4

(* A step of the set_file_priority job that sets the priority of a file.   *)
LEMMA SetPriorityIs ==
    ASSUME PartIs, DiskObject, Settings, JobTypes, NEW f \in Files, Changing, f = job.file,
           NEW newUse \in BOOLEAN, SetPriority(f, part, newUse)
    PROVE  /\ GoodPart(part')
           /\ part.open => part' = part
           /\ ~ part.open => part' = part \/ (part' = Load(disk.header) /\ part'.map = disk.header /\ part'.open
                                                /\ ~ part'.dirty)
           /\ job.to[f] = 0 /\ newUse => part'.open
           /\ prio' = [prio EXCEPT ![f] = job.to[f]] /\ prio' \in [Files -> Priorities]
           /\ use' = [use EXCEPT ![f] = newUse] /\ use' \in [Files -> BOOLEAN]
           /\ job' = [job EXCEPT !.at = "file", !.file = f + 1]
           /\ job.to \in [Files -> Priorities]
<1>1. job.to \in [Files -> Priorities]
  BY DEF JobTypes, Changing, Exporting
<1>2. GoodPart(part) /\ SlotMap(disk.header)
  BY DEF PartIs, DiskObject
<1>3. part.open \in BOOLEAN
  BY <1>2 DEF GoodPart
<1>4. part' = part \/ (~ part.open /\ part' = Load(disk.header))
  BY DEF SetPriority, NeedPartFile
<1>5. GoodPart(part')
  BY <1>2, <1>4, LoadIs
<1>6. job.to[f] = 0 /\ newUse => part'.open
  <2> SUFFICES ASSUME job.to[f] = 0, newUse PROVE part'.open
    OBVIOUS
  <2>1. part' = NeedPartFile(part, disk)
    BY DEF SetPriority
  <2> QED
    BY <1>2, <2>1, LoadIs DEF NeedPartFile
<1> QED
  BY <1>1, <1>2, <1>4, <1>5, <1>6, LoadIs DEF SetPriority, Settings

-----------------------------------------------------------------------------
(***************************************************************************)
(* Every step keeps the invariant of the slots.                            *)
(***************************************************************************)
Bounds == [writes : Nat, changes : Nat, faults : Nat, restarts : Nat]

(* What is spent of the bounds.                                            *)
LEMMA SpendIs ==
    ASSUME budget \in Bounds
    PROVE  /\ Spend("writes") => /\ budget' \in Bounds /\ budget.writes > 0
                                 /\ budget'.writes = budget.writes - 1 /\ budget'.faults = budget.faults
           /\ Spend("changes") => budget' \in Bounds /\ budget'.writes = budget.writes /\ budget'.faults = budget.faults
           /\ Spend("restarts") => budget' \in Bounds /\ budget'.writes = budget.writes /\ budget'.faults = budget.faults
           /\ Spend("faults") => /\ budget' \in Bounds /\ budget'.writes = budget.writes
                                 /\ budget'.faults < budget.faults
<1>1. budget.writes \in Nat /\ budget.changes \in Nat /\ budget.faults \in Nat /\ budget.restarts \in Nat
  BY DEF Bounds
<1>2. ASSUME Spend("writes")
      PROVE  /\ budget' \in Bounds /\ budget.writes > 0
             /\ budget'.writes = budget.writes - 1 /\ budget'.faults = budget.faults
  <2>1. budget' = [budget EXCEPT !.writes = budget.writes - 1] /\ budget.writes > 0
    BY <1>2, Zenon DEF Spend
  <2>2. budget.writes - 1 \in Nat /\ budget.writes - 1 < budget.writes
    BY <1>1, <2>1
  <2> QED
    BY <2>1, <2>2 DEF Bounds
<1>3. ASSUME Spend("changes")
      PROVE  budget' \in Bounds /\ budget'.writes = budget.writes /\ budget'.faults = budget.faults
  <2>1. budget' = [budget EXCEPT !.changes = budget.changes - 1] /\ budget.changes > 0
    BY <1>3, Zenon DEF Spend
  <2>2. budget.changes - 1 \in Nat /\ budget.changes - 1 < budget.changes
    BY <1>1, <2>1
  <2> QED
    BY <2>1, <2>2 DEF Bounds
<1>4. ASSUME Spend("restarts")
      PROVE  budget' \in Bounds /\ budget'.writes = budget.writes /\ budget'.faults = budget.faults
  <2>1. budget' = [budget EXCEPT !.restarts = budget.restarts - 1] /\ budget.restarts > 0
    BY <1>4, Zenon DEF Spend
  <2>2. budget.restarts - 1 \in Nat /\ budget.restarts - 1 < budget.restarts
    BY <1>1, <2>1
  <2> QED
    BY <2>1, <2>2 DEF Bounds
<1>5. ASSUME Spend("faults")
      PROVE  budget' \in Bounds /\ budget'.writes = budget.writes /\ budget'.faults < budget.faults
  <2>1. budget' = [budget EXCEPT !.faults = budget.faults - 1] /\ budget.faults > 0
    BY <1>5, Zenon DEF Spend
  <2>2. budget.faults - 1 \in Nat /\ budget.faults - 1 < budget.faults
    BY <1>1, <2>1
  <2> QED
    BY <2>1, <2>2 DEF Bounds
<1> QED
  BY <1>2, <1>3, <1>4, <1>5

(* A step that writes nothing keeps the numbers of the writes.             *)
LEMMA NumberedKept ==
    ASSUME Numbered, budget' \in Bounds, budget'.writes = budget.writes, UNCHANGED <<last, durable>>,
           disk'.data = disk.data,
           disk'.cells = disk.cells \/ DOMAIN disk'.cells = {}
    PROVE  Numbered'
  BY DEF Numbered, Bounds, UpTo

(* A completed write has a number that no other has.                       *)
LEMMA NrIs ==
    ASSUME Numbered, NEW u \in Units, Spend("writes")
    PROVE  /\ Nr \in 1 .. MaxWrites /\ Nr \in 0 .. MaxWrites - budget'.writes
           /\ \A n : UpTo(n) => UpTo(n)' /\ n < Nr /\ n \in Nat
<1>1. MaxWrites \in Nat
  BY PartFileAssumption
<1>2. budget.writes \in Nat /\ budget.writes > 0 /\ budget'.writes = budget.writes - 1
  BY SpendIs DEF Numbered, Bounds
<1>3. budget.writes <= MaxWrites
  BY <1>1, <1>2 DEF Numbered, UpTo
<1>4. Nr \in 1 .. MaxWrites /\ Nr \in 0 .. MaxWrites - budget'.writes
  BY <1>1, <1>2, <1>3 DEF Nr, UpTo
<1>5. ASSUME NEW n, UpTo(n) PROVE UpTo(n)' /\ n < Nr /\ n \in Nat
  BY <1>1, <1>2, <1>3, <1>5 DEF Nr, UpTo
<1> QED
  BY <1>4, <1>5

Deferred ==
    DOMAIN deferred \subseteq Files /\ \A f \in DOMAIN deferred : deferred[f] \in Priorities

(* A step beside the job keeps it as it is.                                *)
LEMMA JobKept ==
    ASSUME JobTypes, job' = job, deferred' = deferred,
           Exporting => DOMAIN writing' \subseteq DOMAIN writing /\ part'.map = part.map
    PROVE  JobTypes'
<1>1. Exporting' = Exporting /\ Changing' = Changing /\ Unit' = Unit
  BY DEF Exporting, Changing, Unit
<1>2. job.at = "copied" => HasUnit'
  BY <1>1 DEF JobTypes, HasUnit, Exporting
<1>3. Exporting => DOMAIN writing' = {}
  BY DEF JobTypes
<1> QED
  BY <1>1, <1>2, <1>3 DEF JobTypes

(* No job is running, one starts, one ends.                                *)
LEMMA NoJobIs ==
    ASSUME Deferred', job' = NoJob
    PROVE  JobTypes' /\ ~ Exporting' /\ ~ Changing'
<1>1. job'.at = "idle"
  BY DEF NoJob
<1>2. ~ Exporting' /\ ~ Changing'
  BY <1>1 DEF Exporting, Changing
<1> QED
  BY <1>1, <1>2 DEF JobTypes, NoJob, Deferred

LEMMA StartIs ==
    ASSUME Deferred', NEW to \in [Files -> Priorities], job' = [NoJob EXCEPT !.at = "file", !.to = to]
    PROVE  JobTypes' /\ ~ Exporting' /\ Changing' /\ job'.at = "file" /\ job'.file = 1 /\ job'.to = to
<1>1. /\ job'.at = "file" /\ job'.to = to /\ job'.file = 1
      /\ job' \in [at : {"idle", "file", "export", "copied", "done"}, to : {to}, file : Nat,
                   piece : Nat, err : BOOLEAN]
  BY DEF NoJob
<1>2. ~ Exporting' /\ Changing'
  BY <1>1 DEF Exporting, Changing
<1>3. 1 \in 1 .. NumFiles + 1
  BY PartFileAssumption
<1> QED
  BY <1>1, <1>2, <1>3 DEF JobTypes, Deferred

LEMMA DoneIs ==
    ASSUME Deferred', NEW e \in BOOLEAN, NEW to \in [Files -> Priorities], Done(e, to)
    PROVE  JobTypes' /\ ~ Exporting' /\ ~ Changing' /\ job'.at = "done" /\ job'.to = to
<1>1. /\ job'.at = "done" /\ job'.to = to
      /\ job' \in [at : {"idle", "file", "export", "copied", "done"}, to : {to}, file : Nat,
                   piece : Nat, err : BOOLEAN]
  BY DEF Done, NoJob
<1>2. ~ Exporting' /\ ~ Changing'
  BY <1>1 DEF Exporting, Changing
<1> QED
  BY <1>1, <1>2 DEF JobTypes, Deferred

LEMMA InitParted == Init => Parted
<1> SUFFICES ASSUME Init PROVE Parted
  OBVIOUS
<1> USE DEF Init
<1>1. MaxWrites \in Nat /\ MaxChanges \in Nat /\ MaxFaults \in Nat /\ MaxRestarts \in Nat
  BY PartFileAssumption
<1>2. SlotMap(<<>>) /\ <<>> \in [DOMAIN <<>> -> Units \X Nat] /\ DOMAIN <<>> = {}
  BY EmptyIs DEF SlotMap
<1>3. GoodPart(part)
  <2>1. part = Load(<<>>) \/ part = NoPartFile
    OBVIOUS
  <2> QED
    BY <1>2, <2>1, LoadIs, NoPartIs
<1>4. PartIs
  BY <1>2, <1>3 DEF PartIs
<1>5. DiskObject
  BY <1>2 DEF DiskObject
<1>6. Numbered
  <2>1. budget.writes = MaxWrites /\ budget \in [writes : Nat, changes : Nat, faults : Nat, restarts : Nat]
    BY <1>1
  <2>2. UpTo(0)
    BY <1>1, <2>1 DEF UpTo
  <2>3. last = [u \in Units |-> 0] /\ durable = [u \in Units |-> 0] /\ disk.data = [u \in Units |-> 0]
    OBVIOUS
  <2>4. DOMAIN disk.cells = {}
    BY <1>2
  <2> QED
    BY <2>1, <2>2, <2>3, <2>4 DEF Numbered
<1>7. Settings
  <2>1. priority \in [Files -> Priorities]
    BY PartFileAssumption
  <2> QED
    BY <2>1 DEF Settings
<1>8. JobTypes
  <2>1. job.at = "idle" /\ ~ Exporting /\ ~ Changing
    BY DEF Exporting, Changing, NoJob
  <2>2. DOMAIN deferred = {}
    BY <1>2
  <2> QED
    BY <2>1, <2>2 DEF JobTypes, NoJob
<1> QED
  BY <1>4, <1>5, <1>6, <1>7, <1>8 DEF Parted

LEMMA UnitsAre == \A u \in Units : u = <<u[1], u[2]>> /\ u[1] \in Pieces /\ u[2] \in Files
  BY PartFileAssumption

(* The numbers of the writes after one of them.                            *)
LEMMA WroteIs ==
    ASSUME Numbered, NEW u \in Units, Spend("writes"), last' = [last EXCEPT ![u] = Nr], durable' = durable,
           \A v \in Units : disk'.data[v] \in {disk.data[v], Nr},
           \A c \in DOMAIN disk'.cells :
               disk'.cells[c][2] = Nr \/ (c \in DOMAIN disk.cells /\ disk'.cells[c] = disk.cells[c])
    PROVE  Numbered'
<1>1. budget' \in Bounds
  BY SpendIs DEF Numbered, Bounds
<1>2. /\ Nr \in Nat /\ Nr \in 0 .. MaxWrites - budget'.writes
      /\ \A n : UpTo(n) => n \in 0 .. MaxWrites - budget'.writes
  BY NrIs DEF UpTo
<1>3. last' \in [Units -> Nat] /\ \A v \in Units : last'[v] \in {last[v], Nr}
  BY <1>2 DEF Numbered
<1>4. \A v \in Units : UpTo(last[v]) /\ UpTo(durable[v]) /\ UpTo(disk.data[v])
  BY DEF Numbered
<1>5. \A v \in Units : UpTo(last[v])' /\ UpTo(durable[v])' /\ UpTo(disk.data[v])'
  BY <1>2, <1>3, <1>4 DEF UpTo
<1>6. \A c \in DOMAIN disk'.cells : UpTo(disk.cells[c][2])'
  <2>1. \A c \in DOMAIN disk.cells : UpTo(disk.cells[c][2])
    BY DEF Numbered
  <2> QED
    BY <1>2, <2>1 DEF UpTo
<1> QED
  BY <1>1, <1>3, <1>5, <1>6 DEF Numbered, Bounds

LEMMA WriteFileKeeps ==
    ASSUME Parted, NEW u \in Units, WriteFile(u)
    PROVE  Parted'
<1> USE DEF Parted
<1>1. /\ Spend("writes") /\ last' = [last EXCEPT ![u] = Nr] /\ durable' = durable
      /\ disk' = [disk EXCEPT !.files[u[2]] = TRUE, !.data[u] = Nr]
      /\ UNCHANGED <<torrentVars, prio, use, part, writing, job, durable, broken>>
  BY DEF WriteFile
<1>2. Nr \in Nat /\ u[2] \in Files
  BY <1>1, NrIs, UnitsAre
<1>3. /\ DiskObject' /\ disk'.cells = disk.cells /\ \A v \in Units : disk'.data[v] \in {disk.data[v], Nr}
  BY <1>1, <1>2 DEF DiskObject
<1>4. Numbered'
  BY <1>1, <1>3, WroteIs
<1>5. JobTypes'
  BY <1>1, JobKept DEF torrentVars
<1> QED
  BY <1>1, <1>3, <1>4, <1>5 DEF PartIs, Settings, torrentVars

LEMMA TakeSlotKeeps ==
    ASSUME Parted, NEW u \in Units, TakeSlot(u)
    PROVE  /\ Parted' /\ part'.open = part.open /\ u[1] \in DOMAIN part'.map
           /\ \A p \in DOMAIN part.map : p \in DOMAIN part'.map /\ part'.map[p] = part.map[p]
<1> USE DEF Parted
<1>1. /\ ~ Exporting /\ part' = WithSlot(part, u[1]) /\ writing' = With(writing, u, part'.map[u[1]])
      /\ UNCHANGED <<torrentVars, prio, use, disk, job, tick, ghosts, budget>>
  BY DEF TakeSlot, NoFence, Exporting
<1>2. /\ GoodPart(part') /\ part'.open = part.open /\ u[1] \in DOMAIN part'.map
      /\ \A p \in DOMAIN part.map : p \in DOMAIN part'.map /\ part'.map[p] = part.map[p]
  <2>1. GoodPart(part) /\ u[1] \in Pieces
    BY UnitsAre DEF PartIs
  <2>2. CASE u[1] \in DOMAIN part.map
    BY <1>1, <2>1, <2>2 DEF WithSlot
  <2>3. CASE u[1] \notin DOMAIN part.map
    BY <1>1, <2>1, <2>3, AllocateIs DEF WithSlot
  <2> QED
    BY <2>2, <2>3
<1>3. PartIs'
  <2>1. /\ DOMAIN writing' = DOMAIN writing \union {u} /\ writing'[u] = part'.map[u[1]]
        /\ \A v \in DOMAIN writing : v # u => writing'[v] = writing[v]
    BY <1>1 DEF With, Over
  <2> QED
    BY <1>2, <2>1 DEF PartIs
<1>4. DiskObject' /\ Numbered' /\ Settings'
  BY <1>1 DEF DiskObject, Numbered, Settings, UpTo, torrentVars, ghosts
<1>5. JobTypes'
  BY <1>1, JobKept DEF torrentVars
<1> QED
  BY <1>2, <1>3, <1>4, <1>5

(* What a write to a slot changes.                                         *)
Cells(s, u) == {s} \X Layout[u]
Entry(u, n) == <<u, n>>

(* The cells w have the write n of unit u, and else what the disk has.     *)
HaveWrite(w, s, u, n) ==
    /\ DOMAIN w = DOMAIN disk.cells \union Cells(s, u) /\ w \in [DOMAIN w -> Units \X Nat]
    /\ \A c \in Cells(s, u) : w[c] = Entry(u, n)
    /\ \A c \in DOMAIN disk.cells : c \notin Cells(s, u) => w[c] = disk.cells[c]

LEMMA WrittenIs ==
    ASSUME DiskObject, NEW s, NEW u \in Units, NEW n \in Nat
    PROVE  HaveWrite(Written(s, u, n), s, u, n)
<1> DEFINE w == Written(s, u, n)
           new == [c \in Cells(s, u) |-> Entry(u, n)]
<1>1. w = Over(new, disk.cells)
  BY DEF Written, Cells, Entry
<1>2. DOMAIN new = Cells(s, u) /\ \A c \in Cells(s, u) : new[c] = Entry(u, n)
  OBVIOUS
<1> HIDE DEF new, w
<1>3. /\ DOMAIN w = DOMAIN disk.cells \union Cells(s, u)
      /\ \A c \in Cells(s, u) : w[c] = Entry(u, n)
      /\ \A c \in DOMAIN disk.cells : c \notin Cells(s, u) => w[c] = disk.cells[c]
  BY <1>1, <1>2 DEF Over
<1>4. Entry(u, n) \in Units \X Nat /\ \A c \in DOMAIN disk.cells : disk.cells[c] \in Units \X Nat
  BY DEF DiskObject, Entry
<1>5. w \in [DOMAIN w -> Units \X Nat]
  <2>1. \A c \in DOMAIN w : w[c] \in Units \X Nat
    BY <1>3, <1>4
  <2> QED
    BY <1>1, <2>1 DEF Over
<1> QED
  BY <1>3, <1>5 DEF w, HaveWrite

LEMMA SlotCells ==
    ASSUME DiskObject, NEW s, NEW u \in Units, NEW n \in Nat
    PROVE  LET w == Written(s, u, n) IN
               /\ w \in [DOMAIN w -> Units \X Nat]
               /\ \A c \in DOMAIN w : w[c] = Entry(u, n) \/ (c \in DOMAIN disk.cells /\ w[c] = disk.cells[c])
<1> DEFINE w == Written(s, u, n)
<1>1. HaveWrite(w, s, u, n)
  BY WrittenIs
<1> HIDE DEF w
<1>2. /\ w \in [DOMAIN w -> Units \X Nat]
      /\ \A c \in DOMAIN w : w[c] = Entry(u, n) \/ (c \in DOMAIN disk.cells /\ w[c] = disk.cells[c])
  BY <1>1 DEF HaveWrite
<1> QED
  BY <1>2 DEF w

LEMMA WriteSlotKeeps ==
    ASSUME Parted, NEW u \in Units, WriteSlot(u)
    PROVE  Parted'
<1> USE DEF Parted
<1>1. /\ u \in DOMAIN writing /\ writing' = Without(writing, u)
      /\ UNCHANGED <<torrentVars, prio, use, part, job, durable, broken>>
  BY DEF WriteSlot
<1>2. /\ DOMAIN writing' = DOMAIN writing \ {u} /\ \A v \in DOMAIN writing' : writing'[v] = writing[v]
  BY <1>1 DEF Without
<1>3. PartIs'
  BY <1>1, <1>2 DEF PartIs
<1>4. JobTypes'
  BY <1>1, <1>2, JobKept DEF torrentVars
<1>5. /\ Spend("writes") /\ disk' = [disk EXCEPT !.cells = Written(writing[u], u, Nr)]
      /\ last' = [last EXCEPT ![u] = Nr]
  BY DEF WriteSlot
<1>6. PICK n \in Nat : n = Nr
  BY <1>5, NrIs
<1> DEFINE w == Written(writing[u], u, n)
<1>7. /\ w \in [DOMAIN w -> Units \X Nat]
      /\ \A c \in DOMAIN w : w[c] = Entry(u, n) \/ (c \in DOMAIN disk.cells /\ w[c] = disk.cells[c])
  BY SlotCells
<1> HIDE DEF w
<1>8. DiskObject' /\ disk'.cells = w /\ disk'.data = disk.data
  BY <1>5, <1>6, <1>7 DEF DiskObject, w
<1>9. Numbered'
  <2>1. \A c \in DOMAIN disk'.cells :
             disk'.cells[c][2] = Nr \/ (c \in DOMAIN disk.cells /\ disk'.cells[c] = disk.cells[c])
    BY <1>6, <1>7, <1>8 DEF Entry
  <2> QED
    BY <1>1, <1>5, <1>8, <2>1, WroteIs
<1> QED
  BY <1>1, <1>3, <1>4, <1>8, <1>9 DEF Settings, torrentVars

LEMMA WriteSlotFailsKeeps ==
    ASSUME Parted, NEW u \in Units, WriteSlotFails(u)
    PROVE  Parted'
<1> USE DEF Parted
<1>1. /\ u \in DOMAIN writing /\ writing' = Without(writing, u)
      /\ UNCHANGED <<torrentVars, prio, use, part, job, broken>> /\ Spend("faults")
      /\ last' = [last EXCEPT ![u] = 0] /\ durable' = [durable EXCEPT ![u] = 0]
      /\ disk' \in {disk, [disk EXCEPT !.cells = Written(writing[u], u, 0)]}
  BY DEF WriteSlotFails
<1>2. /\ DOMAIN writing' = DOMAIN writing \ {u} /\ \A v \in DOMAIN writing' : writing'[v] = writing[v]
  BY <1>1 DEF Without
<1>3. PartIs'
  BY <1>1, <1>2 DEF PartIs
<1>4. JobTypes'
  BY <1>1, <1>2, JobKept DEF torrentVars
<1> DEFINE w == Written(writing[u], u, 0)
<1>5. /\ w \in [DOMAIN w -> Units \X Nat]
      /\ \A c \in DOMAIN w : w[c] = Entry(u, 0) \/ (c \in DOMAIN disk.cells /\ w[c] = disk.cells[c])
  BY SlotCells
<1> HIDE DEF w
<1>6. DiskObject' /\ disk'.cells \in {disk.cells, w} /\ disk'.data = disk.data
  <2>1. CASE disk' = disk
    BY <2>1 DEF DiskObject
  <2>2. CASE disk' = [disk EXCEPT !.cells = w]
    BY <1>5, <2>2 DEF DiskObject
  <2> QED
    BY <1>1, <2>1, <2>2 DEF w
<1>7. budget' \in Bounds /\ budget'.writes = budget.writes
  BY <1>1, SpendIs DEF Numbered, Bounds
<1>8. Numbered'
  <2>1. \A n : UpTo(n)' <=> UpTo(n)
    BY <1>7 DEF UpTo
  <2>2. UpTo(0)
    BY SpendIs, PartFileAssumption DEF Numbered, UpTo, Bounds
  <2>3. /\ last' \in [Units -> Nat] /\ durable' \in [Units -> Nat]
        /\ \A v \in Units : last'[v] \in {last[v], 0} /\ durable'[v] \in {durable[v], 0}
    BY <1>1 DEF Numbered
  <2>4. \A v \in Units : UpTo(last[v])' /\ UpTo(durable[v])' /\ UpTo(disk.data[v])'
    BY <1>6, <2>1, <2>2, <2>3 DEF Numbered
  <2>5. \A c \in DOMAIN disk'.cells : disk'.cells[c][2] = 0 \/ (c \in DOMAIN disk.cells /\ disk'.cells[c] = disk.cells[c])
    BY <1>5, <1>6 DEF Entry
  <2>6. \A c \in DOMAIN disk'.cells : UpTo(disk.cells[c][2])'
    BY <2>1, <2>2, <2>5 DEF Numbered
  <2> QED
    BY <1>7, <2>3, <2>4, <2>6 DEF Numbered, Bounds
<1> QED
  BY <1>1, <1>3, <1>4, <1>6, <1>8 DEF Settings, torrentVars

(* A step that may flush the header, and no more.                          *)
LEMMA FlushKeeps ==
    ASSUME Parted, NEW ok \in BOOLEAN,
           \/ FlushMetadata(ok) /\ UNCHANGED budget
           \/ Spend("faults") /\ UNCHANGED <<disk, part>>,
           UNCHANGED writing
    PROVE  /\ PartIs' /\ DiskObject' /\ part'.map = part.map /\ disk'.data = disk.data
           /\ budget' \in Bounds /\ budget'.writes = budget.writes
           /\ disk'.cells = disk.cells \/ DOMAIN disk'.cells = {}
<1> USE DEF Parted
<1>1. CASE FlushMetadata(ok) /\ UNCHANGED budget
  BY <1>1, FlushIs DEF PartIs, Numbered, Bounds
<1>2. CASE Spend("faults") /\ UNCHANGED <<disk, part>>
  <2>1. budget' \in Bounds /\ budget'.writes = budget.writes
    BY <1>2, SpendIs DEF Numbered, Bounds
  <2> QED
    BY <1>2, <2>1 DEF PartIs, DiskObject
<1> QED
  BY <1>1, <1>2

LEMMA TickKeeps ==
    ASSUME Parted, Tick
    PROVE  Parted'
<1> USE DEF Parted
<1>1. UNCHANGED <<torrentVars, prio, use, writing, job, ghosts>>
  BY DEF Tick
<1>2. part.open \in BOOLEAN
  BY DEF PartIs, GoodPart
<1>3. /\ PartIs' /\ DiskObject' /\ part'.map = part.map /\ disk'.data = disk.data
      /\ budget' \in Bounds /\ budget'.writes = budget.writes
      /\ disk'.cells = disk.cells \/ DOMAIN disk'.cells = {}
  BY <1>1, <1>2, FlushKeeps DEF Tick
<1>4. Numbered'
  BY <1>1, <1>3, NumberedKept DEF ghosts
<1>5. JobTypes'
  BY <1>1, <1>3, JobKept DEF torrentVars
<1> QED
  BY <1>1, <1>3, <1>4, <1>5 DEF Settings, torrentVars, ghosts

LEMMA SaveKeeps ==
    ASSUME Parted, SaveResumeData
    PROVE  Parted'
<1> USE DEF Parted
<1>1. /\ saved' = priority /\ durable' \in {durable, last}
      /\ UNCHANGED <<priority, outstanding, deferred, wanted, prio, use, writing, job, tick, last, broken>>
  BY DEF SaveResumeData
<1>2. part.open \in BOOLEAN
  BY DEF PartIs, GoodPart
<1>3. /\ PartIs' /\ DiskObject' /\ part'.map = part.map /\ disk'.data = disk.data
      /\ budget' \in Bounds /\ budget'.writes = budget.writes
      /\ disk'.cells = disk.cells \/ DOMAIN disk'.cells = {}
  BY <1>1, <1>2, FlushKeeps DEF SaveResumeData
<1>4. Numbered'
  BY <1>1, <1>3 DEF Numbered, Bounds, UpTo
<1>5. JobTypes'
  BY <1>1, <1>3, JobKept
<1> QED
  BY <1>1, <1>3, <1>4, <1>5 DEF Settings

(* The job's steps write nothing.                                          *)
LEMMA OnlyJobKeeps ==
    ASSUME Parted, OnlyJob, writing = <<>>, GoodPart(part'), DiskObject', budget' \in Bounds,
           budget'.writes = budget.writes, disk'.cells = disk.cells \/ DOMAIN disk'.cells = {},
           \A v \in Units : disk'.data[v] = disk.data[v] \/ UpTo(disk'.data[v])
    PROVE  PartIs' /\ Numbered' /\ Deferred' /\ DOMAIN writing' = {}
<1> USE DEF Parted
<1>1. UNCHANGED <<torrentVars, writing, tick, last, durable>> /\ DOMAIN writing' = {}
  BY EmptyIs DEF OnlyJob
<1>2. PartIs'
  BY <1>1 DEF PartIs
<1>3. Numbered'
  BY <1>1 DEF Numbered, Bounds, UpTo
<1> QED
  BY <1>1, <1>2, <1>3 DEF JobTypes, Deferred, torrentVars

(* A file is done: the job goes to the next.                               *)
LEMMA SetPriorityKeeps ==
    ASSUME Parted, OnlyJob, writing = <<>>, Changing, job.file \in Files, NEW newUse \in BOOLEAN,
           SetPriority(job.file, part, newUse), UNCHANGED budget, broken' \subseteq Files,
           DiskObject', disk'.cells = disk.cells, disk'.data = disk.data
    PROVE  Parted' /\ ~ Exporting' /\ Changing'
<1> DEFINE f == job.file
<1> USE DEF Parted
<1>1. /\ GoodPart(part') /\ prio' \in [Files -> Priorities] /\ use' \in [Files -> BOOLEAN]
      /\ job' = [job EXCEPT !.at = "file", !.file = f + 1] /\ job.to \in [Files -> Priorities]
  BY SetPriorityIs
<1>2. budget' \in Bounds
  BY DEF Numbered, Bounds
<1>3. PartIs' /\ Numbered' /\ Deferred' /\ DOMAIN writing' = {}
  BY <1>1, <1>2, OnlyJobKeeps
<1>4. Settings'
  BY <1>1 DEF Settings, OnlyJob, torrentVars
<1>5. f \in Nat /\ f + 1 \in Nat /\ f + 1 \in 1 .. NumFiles + 1
  BY PartFileAssumption DEF Files
<1>6. /\ job' \in [at : {"idle", "file", "export", "copied", "done"}, to : {job.to}, file : Nat,
                   piece : Nat, err : BOOLEAN]
      /\ job'.at = "file" /\ job'.to = job.to /\ job'.file = f + 1
  BY <1>1, <1>5 DEF JobTypes
<1>7. ~ Exporting' /\ Changing'
  BY <1>6 DEF Exporting, Changing
<1>8. JobTypes'
  BY <1>1, <1>3, <1>5, <1>6, <1>7 DEF JobTypes, Deferred
<1> QED
  BY <1>3, <1>4, <1>7, <1>8

(* The job ends.                                                           *)
LEMMA DoneKeeps ==
    ASSUME Parted, OnlyJob, writing = <<>>, NEW e \in BOOLEAN, NEW to \in [Files -> Priorities], Done(e, to),
           UNCHANGED <<prio, use>>, broken' \subseteq Files, GoodPart(part'), DiskObject', budget' \in Bounds,
           budget'.writes = budget.writes, disk'.cells = disk.cells \/ DOMAIN disk'.cells = {},
           disk'.data = disk.data
    PROVE  Parted'
<1> USE DEF Parted
<1>1. PartIs' /\ Numbered' /\ Deferred'
  BY OnlyJobKeeps
<1>2. JobTypes'
  BY <1>1, DoneIs
<1> QED
  BY <1>1, <1>2 DEF Settings, OnlyJob, torrentVars

(* The job exports a piece, or passes it.                                  *)
LEMMA ExportKeeps ==
    ASSUME Parted, OnlyJob, writing = <<>>, UNCHANGED <<prio, use, budget, broken>>,
           GoodPart(part'), DiskObject', disk'.cells = disk.cells,
           \A v \in Units : disk'.data[v] = disk.data[v] \/ UpTo(disk'.data[v]),
           Changing, job.file \in Files, NEW n \in 0 .. NumPieces, NEW at \in {"export", "copied"},
           job' = [job EXCEPT !.at = at, !.piece = n],
           at = "copied" => HasUnit /\ n = job.piece /\ part' = part
    PROVE  Parted' /\ Exporting' /\ Changing' /\ job'.file = job.file /\ job'.piece = n /\ job'.at = at
<1> USE DEF Parted
<1>1. budget' \in Bounds
  BY DEF Numbered, Bounds
<1>2. PartIs' /\ Numbered' /\ Deferred' /\ DOMAIN writing' = {}
  BY <1>1, OnlyJobKeeps
<1>3. n \in Nat
  BY PiecesAre
<1>4. /\ job' \in [at : {"idle", "file", "export", "copied", "done"}, to : {job.to}, file : Nat,
                   piece : Nat, err : BOOLEAN]
      /\ job'.at = at /\ job'.to = job.to /\ job'.file = job.file /\ job'.piece = n
  BY <1>3 DEF JobTypes
<1>5. Exporting' /\ Changing'
  BY <1>4 DEF Exporting, Changing
<1>6. job.to \in [Files -> Priorities] /\ job.file \in 1 .. NumFiles + 1
  BY DEF JobTypes, Changing, Exporting
<1>7. at = "copied" => HasUnit'
  BY <1>4 DEF HasUnit, Unit
<1>8. JobTypes'
  BY <1>2, <1>4, <1>5, <1>6, <1>7 DEF JobTypes, Deferred
<1> QED
  BY <1>2, <1>4, <1>5, <1>8 DEF Settings, OnlyJob, torrentVars

(* What is found in a slot has the number of a write.                      *)
LEMMA AtUpTo ==
    ASSUME Numbered, NEW s, NEW u \in Units
    PROVE  UpTo(At(s, u)) /\ At(s, u) \in Nat
<1> DEFINE v == AtIn(disk.cells, s, u)
<1>1. At(s, u) = v
  BY SeenInIs
<1>2. v \in 0 .. MaxWrites /\ (v = 0 \/ \E c \in DOMAIN disk.cells : disk.cells[c] = <<u, v>>)
  BY AtValue
<1> HIDE DEF v
<1>3. UpTo(last[u]) /\ budget.writes \in Nat /\ MaxWrites \in Nat
  BY PartFileAssumption DEF Numbered
<1>4. UpTo(0)
  BY <1>3 DEF UpTo
<1>5. v # 0 => UpTo(v)
  BY <1>2 DEF Numbered
<1>6. v \in Nat
  BY <1>2, <1>3
<1> QED
  BY <1>1, <1>4, <1>5, <1>6

LEMMA RaiseKeeps ==
    ASSUME Parted, RaiseFile
    PROVE  Parted'
<1> USE DEF Parted
<1>1. /\ job.at = "file" /\ writing = <<>> /\ job.file <= NumFiles /\ OnlyJob /\ UNCHANGED <<broken, budget>>
      /\ disk' = [disk EXCEPT !.files[job.file] = TRUE]
  BY DEF RaiseFile, Running
<1>2. Changing /\ job.file \in Files
  BY <1>1, PartFileAssumption DEF Changing, JobTypes, Files
<1>3. DiskObject' /\ disk'.cells = disk.cells /\ disk'.data = disk.data
  BY <1>1, <1>2 DEF DiskObject
<1>4. GoodPart(part) /\ use[job.file] \in BOOLEAN /\ broken' \subseteq Files
  BY <1>1, <1>2 DEF PartIs, Settings
<1>5. CASE part.open /\ use[job.file]
  <2>1. job' = [job EXCEPT !.at = "export", !.piece = 0] /\ UNCHANGED <<prio, use, part>>
    BY <1>5 DEF RaiseFile
  <2>2. 0 \in 0 .. NumPieces
    BY PiecesAre
  <2> QED
    BY <1>1, <1>2, <1>3, <1>4, <2>1, <2>2, ExportKeeps
<1>6. CASE ~ (part.open /\ use[job.file])
  <2>1. SetPriority(job.file, part, use[job.file])
    BY <1>6 DEF RaiseFile
  <2> QED
    BY <1>1, <1>2, <1>3, <1>4, <2>1, SetPriorityKeeps
<1> QED
  BY <1>5, <1>6

LEMMA KeepOrLowerKeeps ==
    ASSUME Parted, KeepOrLowerFile
    PROVE  Parted'
<1> USE DEF Parted
<1>1. /\ job.at = "file" /\ writing = <<>> /\ job.file <= NumFiles /\ OnlyJob /\ UNCHANGED <<disk, broken, budget>>
      /\ SetPriority(job.file, part, UseAfter(job.file))
  BY DEF KeepOrLowerFile, Running
<1>2. Changing /\ job.file \in Files
  BY <1>1, PartFileAssumption DEF Changing, JobTypes, Files
<1>3. UseAfter(job.file) \in BOOLEAN
  BY <1>2 DEF UseAfter, Settings, DiskObject
<1>4. DiskObject' /\ disk'.cells = disk.cells /\ disk'.data = disk.data /\ broken' \subseteq Files
  BY <1>1 DEF DiskObject, Settings
<1> QED
  BY <1>1, <1>2, <1>3, <1>4, SetPriorityKeeps

LEMMA FileFailsKeeps ==
    ASSUME Parted, FileFails
    PROVE  Parted'
<1> USE DEF Parted
<1>1. /\ writing = <<>> /\ OnlyJob /\ UNCHANGED <<prio, use, part, disk, broken>> /\ Done(TRUE, prio)
  BY DEF FileFails, Running
<1>2. budget' \in Bounds /\ budget'.writes = budget.writes
  BY SpendIs DEF FileFails, Numbered, Bounds
<1>3. GoodPart(part') /\ DiskObject' /\ prio \in [Files -> Priorities] /\ broken' \subseteq Files
  BY <1>1 DEF DiskObject, Settings, PartIs
<1> QED
  BY <1>1, <1>2, <1>3, DoneKeeps

LEMMA ExportSkipKeeps ==
    ASSUME Parted, ExportSkip
    PROVE  Parted'
<1> USE DEF Parted
<1>1. /\ job.at = "export" /\ writing = <<>> /\ job.piece < NumPieces /\ OnlyJob
      /\ job' = [job EXCEPT !.piece = @ + 1]
      /\ UNCHANGED <<prio, use, part, disk, broken, budget>>
  BY DEF ExportSkip, Running
<1>2. Changing /\ Exporting /\ job.file \in Files /\ job.piece \in Nat
  BY <1>1, PiecesAre DEF Changing, Exporting, JobTypes
<1>3. job' = [job EXCEPT !.at = "export", !.piece = job.piece + 1] /\ job.piece + 1 \in 0 .. NumPieces
  <2>1. job.piece + 1 \in 0 .. NumPieces
    BY <1>1, <1>2, PiecesAre
  <2> DEFINE n == job.piece + 1
  <2>2. job' = [job EXCEPT !.piece = n]
    BY <1>1
  <2> HIDE DEF n
  <2>3. job' = [job EXCEPT !.at = "export", !.piece = n]
    BY <1>1, <2>2 DEF JobTypes
  <2> QED
    BY <2>1, <2>3 DEF n
<1>4. GoodPart(part') /\ DiskObject' /\ disk'.cells = disk.cells /\ \A v \in Units : disk'.data[v] = disk.data[v]
  BY <1>1 DEF DiskObject, PartIs
<1> QED
  BY <1>1, <1>2, <1>3, <1>4, ExportKeeps

LEMMA ExportCopyKeeps ==
    ASSUME Parted, ExportCopy
    PROVE  Parted'
<1> USE DEF Parted
<1> DEFINE v == At(part.map[job.piece], Unit)
<1>1. /\ job.at = "export" /\ writing = <<>> /\ HasUnit /\ OnlyJob
      /\ job' = [job EXCEPT !.at = "copied"] /\ disk' = [disk EXCEPT !.data[Unit] = v]
      /\ UNCHANGED <<prio, use, part, broken, budget>>
  BY DEF ExportCopy, Running
<1>2. Changing /\ Exporting /\ job.file \in Files /\ job.piece \in 0 .. NumPieces
  BY <1>1 DEF Changing, Exporting, JobTypes
<1>3. job' = [job EXCEPT !.at = "copied", !.piece = job.piece]
  BY <1>1 DEF JobTypes
<1>4. UpTo(v) /\ v \in Nat /\ Unit \in Units
  BY <1>1, AtUpTo DEF HasUnit
<1> HIDE DEF v
<1>5. /\ DiskObject' /\ disk'.cells = disk.cells
      /\ \A w \in Units : disk'.data[w] = disk.data[w] \/ disk'.data[w] = v
  BY <1>1, <1>4 DEF DiskObject
<1>6. GoodPart(part')
  BY <1>1 DEF PartIs
<1> QED
  BY <1>1, <1>2, <1>3, <1>4, <1>5, <1>6, ExportKeeps

LEMMA ExportFreeKeeps ==
    ASSUME Parted, ExportFree
    PROVE  Parted'
<1> USE DEF Parted
<1>1. /\ job.at = "copied" /\ writing = <<>> /\ OnlyJob
      /\ job' = [job EXCEPT !.at = "export", !.piece = @ + 1]
      /\ UNCHANGED <<prio, use, disk, broken, budget>>
      /\ part' = IF WholeInFile(job.piece, job.file) THEN Freed(part, job.piece) ELSE part
  BY DEF ExportFree, Running
<1>2. Changing /\ Exporting /\ job.file \in Files /\ job.piece \in 0 .. NumPieces /\ HasUnit
  BY <1>1 DEF Changing, Exporting, JobTypes
<1>3. job.piece \in Pieces /\ job.piece \in DOMAIN part.map
  BY <1>2 DEF HasUnit, PartIs, GoodPart, SlotMap
<1>4. job' = [job EXCEPT !.at = "export", !.piece = job.piece + 1] /\ job.piece + 1 \in 0 .. NumPieces
  BY <1>1, <1>3, PiecesAre DEF JobTypes, Pieces
<1>5. GoodPart(part')
  BY <1>1, <1>3, FreedIs DEF PartIs
<1>6. DiskObject' /\ disk'.cells = disk.cells /\ \A v \in Units : disk'.data[v] = disk.data[v]
  BY <1>1 DEF DiskObject
<1> QED
  BY <1>1, <1>2, <1>4, <1>5, <1>6, ExportKeeps

(* The export ends after the last piece.                                   *)
LEMMA ExportedKeeps ==
    ASSUME Parted, Exported
    PROVE  Parted'
<1> USE DEF Parted
<1>1. /\ job.at = "export" /\ writing = <<>> /\ OnlyJob /\ UNCHANGED <<disk, budget>>
      /\ SetPriority(job.file, part, use[job.file]) /\ broken' = broken
  BY DEF Exported, Running
<1>2. Changing /\ Exporting /\ job.file \in Files
  BY <1>1 DEF Changing, Exporting, JobTypes
<1>3. use[job.file] \in BOOLEAN /\ broken' \subseteq Files
  BY <1>1, <1>2 DEF Settings
<1>4. DiskObject' /\ disk'.cells = disk.cells /\ disk'.data = disk.data
  BY <1>1 DEF DiskObject
<1> QED
  BY <1>1, <1>2, <1>3, <1>4, SetPriorityKeeps

(* It ends before, with an error.                                          *)
ExportEnds == ExportReadsShort \/ ExportReadFails \/ ExportWriteFails

LEMMA ExportEndsIs ==
    ASSUME Parted, ExportEnds
    PROVE  /\ job.at = "export" /\ writing = <<>> /\ OnlyJob /\ UNCHANGED <<prio, use, part, disk>>
           /\ Done(TRUE, prio) \/ Done(TRUE, job.to)
           /\ broken \subseteq broken' /\ broken' \subseteq Files /\ (Raised(job.file) => job.file \in broken')
           /\ budget' \in Bounds /\ budget'.writes = budget.writes
<1>1. /\ job.at = "export" /\ writing = <<>> /\ OnlyJob /\ UNCHANGED <<prio, use, part, disk>>
      /\ Done(TRUE, prio) \/ Done(TRUE, job.to)
  BY DEF ExportEnds, ExportReadsShort, ExportReadFails, ExportWriteFails, Running
<1>2. Exporting /\ job.file \in Files /\ broken \subseteq Files /\ budget \in Bounds
  BY <1>1 DEF Parted, Exporting, JobTypes, Settings, Numbered, Bounds
<1>3. budget' \in Bounds /\ budget'.writes = budget.writes
  BY <1>2, SpendIs DEF ExportEnds, ExportReadsShort, ExportReadFails, ExportWriteFails
<1>4. job.file \in Int
  BY <1>2, PartFileAssumption DEF Files
<1>5. broken \subseteq broken' /\ broken' \subseteq Files /\ (Raised(job.file) => job.file \in broken')
  <2>1. \/ broken' = broken \union {job.file}
        \/ broken' = broken \union {f \in Files : f >= job.file /\ Raised(f)}
    BY DEF ExportEnds, ExportReadsShort, ExportReadFails, ExportWriteFails
  <2> HIDE DEF ExportEnds
  <2>2. job.file >= job.file
    BY <1>4
  <2> QED
    BY <1>2, <2>1, <2>2
<1> QED
  BY <1>1, <1>3, <1>5

LEMMA ExportEndsKeeps ==
    ASSUME Parted, ExportEnds
    PROVE  Parted'
<1> USE DEF Parted
<1>1. /\ job.at = "export" /\ writing = <<>> /\ OnlyJob /\ UNCHANGED <<prio, use, part, disk>>
      /\ Done(TRUE, prio) \/ Done(TRUE, job.to)
      /\ broken' \subseteq Files /\ budget' \in Bounds /\ budget'.writes = budget.writes
  BY ExportEndsIs
<1>2. Exporting /\ job.file \in Files /\ job.to \in [Files -> Priorities]
  BY <1>1 DEF Exporting, JobTypes
<1>3. GoodPart(part') /\ DiskObject' /\ prio \in [Files -> Priorities]
  BY <1>1 DEF DiskObject, Settings, PartIs
<1> QED
  BY <1>1, <1>2, <1>3, DoneKeeps

LEMMA FlushPrioritiesKeeps ==
    ASSUME Parted, FlushPriorities
    PROVE  Parted'
<1> USE DEF Parted
<1>1. /\ job.at = "file" /\ writing = <<>> /\ OnlyJob /\ UNCHANGED <<prio, use, broken>>
      /\ \E e \in BOOLEAN : Done(e, job.to)
  BY DEF FlushPriorities, Running
<1>2. part.open \in BOOLEAN
  BY DEF PartIs, GoodPart
<1>3. /\ PartIs' /\ DiskObject' /\ disk'.data = disk.data
      /\ budget' \in Bounds /\ budget'.writes = budget.writes
      /\ disk'.cells = disk.cells \/ DOMAIN disk'.cells = {}
  BY <1>1, <1>2, FlushKeeps DEF FlushPriorities, OnlyJob
<1>4. job.to \in [Files -> Priorities] /\ broken' \subseteq Files /\ GoodPart(part')
  BY <1>1, <1>3 DEF JobTypes, Settings, PartIs
<1> QED
  BY <1>1, <1>3, <1>4, DoneKeeps

LEMMA SetFilePriorityKeeps ==
    ASSUME Parted, NEW f \in Files, NEW n \in Priorities, SetFilePriority(f, n)
    PROVE  Parted'
<1> USE DEF Parted
<1>1. /\ Spend("changes") /\ wanted' = [wanted EXCEPT ![f] = n] /\ UNCHANGED <<priority, saved>>
      /\ UNCHANGED <<prio, use, part, disk, writing, tick, last, durable, broken>>
  BY DEF SetFilePriority, StorageUnchanged, ghosts
<1>2. budget' \in Bounds /\ budget'.writes = budget.writes
  BY <1>1, SpendIs DEF Numbered, Bounds
<1>3. PartIs' /\ DiskObject'
  BY <1>1 DEF PartIs, DiskObject
<1>4. Numbered'
  BY <1>1, <1>2, NumberedKept
<1>5. CASE outstanding
  <2>1. deferred' = With(deferred, f, n) /\ UNCHANGED <<outstanding, job>>
    BY <1>5 DEF SetFilePriority
  <2>2. /\ DOMAIN deferred' = DOMAIN deferred \union {f} /\ deferred'[f] = n
        /\ \A g \in DOMAIN deferred : g # f => deferred'[g] = deferred[g]
    BY <2>1 DEF With, Over
  <2>3. Deferred'
    BY <2>2 DEF JobTypes, Deferred
  <2>4. Exporting' = Exporting /\ Changing' = Changing /\ HasUnit' = HasUnit
    BY <1>1, <2>1 DEF Exporting, Changing, HasUnit, Unit
  <2>5. JobTypes'
    BY <1>1, <2>1, <2>3, <2>4 DEF JobTypes, Deferred
  <2> QED
    BY <1>1, <1>3, <1>4, <2>1, <2>5 DEF Settings
<1>6. CASE ~ outstanding
  <2> DEFINE to == [priority EXCEPT ![f] = n]
  <2>1. outstanding' = TRUE /\ job' = [NoJob EXCEPT !.at = "file", !.to = to] /\ UNCHANGED deferred
    BY <1>6 DEF SetFilePriority, Start
  <2>2. to \in [Files -> Priorities] /\ Deferred'
    BY <2>1 DEF Settings, JobTypes, Deferred
  <2>3. JobTypes'
    BY <2>1, <2>2, StartIs
  <2> QED
    BY <1>1, <1>3, <1>4, <2>1, <2>3 DEF Settings
<1> QED
  BY <1>5, <1>6

LEMMA OnFilePriorityKeeps ==
    ASSUME Parted, OnFilePriority
    PROVE  Parted'
<1> USE DEF Parted
<1>1. /\ job.at = "done" /\ priority' = job.to /\ UNCHANGED <<saved, wanted, budget>>
      /\ UNCHANGED <<prio, use, part, disk, writing, tick, last, durable, broken>>
  BY DEF OnFilePriority, StorageUnchanged, ghosts
<1>2. job.to \in [Files -> Priorities]
  BY <1>1 DEF JobTypes
<1>3. PartIs' /\ DiskObject'
  BY <1>1 DEF PartIs, DiskObject
<1>4. Numbered'
  BY <1>1 DEF Numbered, UpTo
<1>5. CASE ~ job.err /\ deferred # <<>>
  <2> DEFINE over == Over(deferred, job.to)
             to == FixPriorities(over)
  <2>1. outstanding' = TRUE /\ job' = [NoJob EXCEPT !.at = "file", !.to = to] /\ deferred' = <<>>
    BY <1>5 DEF OnFilePriority, Start
  <2>2. to \in [Files -> Priorities]
    <3>1. \A f \in Files : over[f] \in Priorities
      BY <1>2 DEF JobTypes, Over
    <3>2. 0 \in Priorities
      BY DEF Priorities
    <3> HIDE DEF over
    <3> QED
      BY <3>1, <3>2 DEF FixPriorities
  <2>3. Deferred'
    BY <2>1, EmptyIs DEF Deferred
  <2> HIDE DEF to
  <2>4. JobTypes'
    BY <2>1, <2>2, <2>3, StartIs
  <2> QED
    BY <1>1, <1>2, <1>3, <1>4, <2>1, <2>4 DEF Settings
<1>6. CASE ~ (~ job.err /\ deferred # <<>>)
  <2>1. outstanding' = FALSE /\ job' = NoJob /\ UNCHANGED deferred
    BY <1>6 DEF OnFilePriority
  <2>2. Deferred'
    BY <2>1 DEF Deferred, JobTypes
  <2>3. JobTypes'
    BY <2>1, <2>2, NoJobIs
  <2> QED
    BY <1>1, <1>2, <1>3, <1>4, <2>1, <2>3 DEF Settings
<1> QED
  BY <1>5, <1>6

(* Stops and crashes.                                                      *)
LEMMA RestartKeeps ==
    ASSUME Parted, NEW to \in [Files -> Priorities], Restart(to), DiskObject', broken' \subseteq Files,
           disk'.data = disk.data, disk'.cells = disk.cells \/ DOMAIN disk'.cells = {}
    PROVE  Parted'
<1> USE DEF Parted
<1>1. /\ GoodPart(part') /\ DOMAIN writing' = {} /\ job' = NoJob
      /\ prio' = to /\ priority' = to /\ saved' = to
      /\ last' = [u \in Units |-> SeenIn(prio', use', part', disk', u)] /\ durable' = durable
  BY RestartIs
<1>2. /\ wanted' = to /\ outstanding' = FALSE /\ deferred' = <<>> /\ Spend("restarts")
      /\ use' = [f \in Files |-> ~ (to[f] = 0 /\ disk'.files[f])]
  BY DEF Restart, Initialize
<1>3. budget' \in Bounds /\ budget'.writes = budget.writes
  BY <1>2, SpendIs DEF Numbered, Bounds
<1>4. PartIs'
  BY <1>1 DEF PartIs
<1>5. JobTypes'
  BY <1>1, <1>2, EmptyIs, NoJobIs DEF Deferred
<1>6. Numbered'
  <2>1. ASSUME NEW u \in Units
        PROVE  LET v == SeenIn(prio', use', part', disk', u) IN UpTo(v) /\ v \in Nat
    <3> DEFINE v == SeenIn(prio', use', part', disk', u)
    <3>1. \/ v = 0 \/ v = disk'.data[u]
          \/ v \in Nat /\ \E c \in DOMAIN disk'.cells : disk'.cells[c] = <<u, v>>
      BY SeenValue
    <3> HIDE DEF v
    <3>2. UpTo(last[u]) /\ budget.writes \in Nat /\ MaxWrites \in Nat
      BY PartFileAssumption DEF Numbered
    <3>3. UpTo(0) /\ 0 \in Nat
      BY <3>2 DEF UpTo
    <3>4. UpTo(disk.data[u]) /\ disk.data[u] \in Nat
      BY DEF Numbered, DiskObject
    <3>5. ASSUME NEW c \in DOMAIN disk'.cells, disk'.cells[c] = <<u, v>> PROVE UpTo(v)
      <4>1. c \in DOMAIN disk.cells /\ disk.cells[c] = <<u, v>>
        BY <3>5
      <4> QED
        BY <4>1 DEF Numbered
    <3> QED
      BY <3>1, <3>3, <3>4, <3>5 DEF v
  <2>2. last' \in [Units -> Nat] /\ \A u \in Units : UpTo(last'[u])
    BY <1>1, <2>1
  <2>3. \A u \in Units : UpTo(durable'[u]) /\ UpTo(disk'.data[u])
    BY <1>1 DEF Numbered
  <2>4. \A c \in DOMAIN disk'.cells : UpTo(disk'.cells[c][2])
    BY DEF Numbered
  <2> QED
    BY <1>1, <1>3, <2>2, <2>3, <2>4 DEF Numbered, Bounds, UpTo
<1>7. Settings'
  BY <1>1, <1>2 DEF Settings
<1> QED
  BY <1>4, <1>5, <1>6, <1>7

LEMMA StopKeeps ==
    ASSUME Parted, Stop
    PROVE  Parted'
<1> USE DEF Parted
<1>1. /\ disk' = IF part.open THEN Flushed(part, disk) ELSE disk
      /\ Restart(priority) /\ UNCHANGED broken /\ priority \in [Files -> Priorities] /\ broken' \subseteq Files
  BY DEF Stop, Settings
<1>2. /\ DiskObject' /\ disk'.data = disk.data /\ disk'.files = disk.files
      /\ disk'.cells = disk.cells \/ DOMAIN disk'.cells = {}
  <2>1. CASE disk' = disk
    BY <2>1 DEF DiskObject
  <2>2. CASE disk' = [disk EXCEPT !.header = <<>>, !.cells = <<>>]
    <3>1. SlotMap(<<>>) /\ <<>> \in [DOMAIN <<>> -> Units \X Nat] /\ DOMAIN <<>> = {}
      BY EmptyIs DEF SlotMap
    <3>2. /\ disk' \in [header : {<<>>}, cells : {<<>>}, files : [Files -> BOOLEAN], data : [Units -> Nat]]
          /\ disk'.header = <<>> /\ disk'.cells = <<>> /\ disk'.files = disk.files /\ disk'.data = disk.data
      BY <2>2 DEF DiskObject
    <3> QED
      BY <3>1, <3>2 DEF DiskObject
  <2>3. CASE disk' = [disk EXCEPT !.header = part.map]
    <3>1. /\ disk' \in [header : {part.map}, cells : {disk.cells}, files : [Files -> BOOLEAN], data : [Units -> Nat]]
          /\ disk'.header = part.map /\ disk'.cells = disk.cells /\ disk'.files = disk.files
          /\ disk'.data = disk.data
      BY <2>3 DEF DiskObject
    <3> QED
      BY <3>1 DEF DiskObject, PartIs, GoodPart
  <2> QED
    BY <1>1, <2>1, <2>2, <2>3 DEF Flushed
<1> QED
  BY <1>1, <1>2, RestartKeeps

LEMMA CrashKeeps ==
    ASSUME Parted, Crash
    PROVE  Parted'
<1> USE DEF Parted
<1>1. disk' = disk /\ Restart(saved) /\ saved \in [Files -> Priorities]
  BY DEF Crash, Settings
<1>2. broken' \subseteq Files
  BY DEF Crash, Settings, JobTypes, Exporting
<1>3. DiskObject'
  BY <1>1 DEF DiskObject
<1> QED
  BY <1>1, <1>2, <1>3, RestartKeeps

(* Every step keeps the invariant.                                         *)
LEMMA PartedKept ==
    ASSUME Parted, [Next]_vars
    PROVE  Parted'
<1>1. CASE UNCHANGED vars
  BY <1>1 DEF vars, torrentVars, ghosts, Parted, PartIs, DiskObject, Numbered, Settings, JobTypes, UpTo,
              Exporting, Changing, HasUnit, Unit
<1>2. CASE \E u \in Units : WriteFile(u) \/ TakeSlot(u) \/ WriteSlot(u) \/ WriteSlotFails(u)
  BY <1>2, WriteFileKeeps, TakeSlotKeeps, WriteSlotKeeps, WriteSlotFailsKeeps
<1>3. CASE \E f \in Files, n \in Priorities : SetFilePriority(f, n)
  BY <1>3, SetFilePriorityKeeps
<1>4. CASE SetFilePriorityJob
  BY <1>4, RaiseKeeps, KeepOrLowerKeeps, FileFailsKeeps, ExportSkipKeeps, ExportCopyKeeps, ExportFreeKeeps,
     ExportedKeeps, ExportEndsKeeps, FlushPrioritiesKeeps DEF SetFilePriorityJob, ExportEnds
<1>5. CASE OnFilePriority \/ SaveResumeData \/ Tick \/ Stop \/ Crash
  BY <1>5, OnFilePriorityKeeps, SaveKeeps, TickKeeps, StopKeeps, CrashKeeps
<1> QED
  BY <1>1, <1>2, <1>3, <1>4, <1>5 DEF Next

(* Every allocated slot of the part file is free or belongs to one piece,  *)
(* there are no more slots than pieces, and a running write owns its slot: *)
(* across allocate_slot, exports, frees, flushes that fail, crashes and    *)
(* reloads of an old header.                                               *)
THEOREM SlotsAreExact == Spec => []SlotsExact
<1>1. Init => Parted
  BY InitParted
<1>2. Parted /\ [Next]_vars => Parted'
  BY PartedKept
<1>3. Parted => SlotsExact
  BY SlotInvIs DEF SlotInv
<1> QED
  BY <1>1, <1>2, <1>3, PTL DEF Spec

-----------------------------------------------------------------------------
(***************************************************************************)
(* Every step keeps what was written where the storage looks for it.       *)
(***************************************************************************)
Kept(u) == IF Copied(u) THEN disk.data[u] = last[u] ELSE FoundIn(prio, use, part, disk, u, last[u])

AllKept == \A u \in Units : u[2] \notin broken /\ last[u] # 0 => Kept(u)

LEMMA LastIs ==
    ASSUME Numbered, NEW u \in Units, last[u] # 0
    PROVE  last[u] \in 1 .. MaxWrites
  BY PartFileAssumption DEF Numbered, UpTo

LEMMA LastIsNext ==
    ASSUME Numbered', NEW u \in Units, last'[u] # 0
    PROVE  last'[u] \in 1 .. MaxWrites
  BY PartFileAssumption DEF Numbered, UpTo

(* Found, in terms of what the parts of a unit hold.                       *)
LEMMA KeptIs ==
    /\ Numbered => (AllFound <=> AllKept)
    /\ Numbered' => (AllFound' <=> AllKept')
<1>1. ASSUME Numbered, NEW u \in Units, last[u] # 0 PROVE Found(u) <=> Kept(u)
  <2>1. last[u] \in 1 .. MaxWrites
    BY <1>1, LastIs
  <2>2. Seen(u) = SeenIn(prio, use, part, disk, u)
    BY SeenInIs
  <2> QED
    BY <2>1, <2>2, SeenFound DEF Found, Kept
<1>2. ASSUME Numbered', NEW u \in Units, last'[u] # 0 PROVE Found(u)' <=> Kept(u)'
  <2>1. last'[u] \in 1 .. MaxWrites
    BY <1>2, LastIsNext
  <2>2. Seen(u)' = SeenIn(prio', use', part', disk', u)
    BY SeenInIs
  <2>3. SeenIn(prio', use', part', disk', u) = last'[u] <=> FoundIn(prio', use', part', disk', u, last'[u])
    BY <2>1, SeenFound
  <2> QED
    BY <2>2, <2>3 DEF Found, Kept
<1> QED
  BY <1>1, <1>2 DEF AllFound, AllKept

(* A step that does not touch what is found of a unit.                     *)
Untouched(u) ==
    /\ Uses(prio', use', u[2]) <=> Uses(prio, use, u[2])
    /\ Uses(prio, use, u[2]) /\ u[1] \in DOMAIN part.map =>
           /\ u[1] \in DOMAIN part'.map /\ part'.map[u[1]] = part.map[u[1]]
           /\ \A k \in Layout[u] : <<part.map[u[1]], k>> \in DOMAIN disk.cells =>
                  /\ <<part.map[u[1]], k>> \in DOMAIN disk'.cells
                  /\ disk'.cells[<<part.map[u[1]], k>>] = disk.cells[<<part.map[u[1]], k>>]
    /\ ~ Uses(prio, use, u[2]) =>
           (disk.files[u[2]] => disk'.files[u[2]]) /\ disk'.data[u] = disk.data[u]

LEMMA UntouchedIs ==
    ASSUME NEW u \in Units, NEW n, FoundIn(prio, use, part, disk, u, n), Untouched(u)
    PROVE  FoundIn(prio', use', part', disk', u, n)
<1>1. CASE Uses(prio, use, u[2])
  BY <1>1 DEF FoundIn, Untouched, Holds
<1>2. CASE ~ Uses(prio, use, u[2])
  BY <1>2 DEF FoundIn, Untouched
<1> QED
  BY <1>1, <1>2

(* Steps beside an export: what no step touches stays where it is.         *)
LEMMA UntouchedKept ==
    ASSUME Parted, AllKept, ~ Exporting \/ UNCHANGED job, Exporting' => Exporting, last' = last,
           broken' = broken,
           \A u \in Units : u[2] \notin broken /\ last[u] # 0 /\ Kept(u) => Untouched(u),
           Exporting => disk'.data = disk.data
    PROVE  AllKept'
<1>1. \A u \in Units : Copied(u)' <=> Copied(u)
  BY DEF Copied, Exporting
<1>2. ASSUME NEW u \in Units, u[2] \notin broken, last[u] # 0 PROVE Kept(u)'
  <2>1. Kept(u) /\ Untouched(u)
    BY <1>2 DEF AllKept
  <2>2. CASE Copied(u)
    BY <1>1, <2>1, <2>2 DEF Kept, Copied
  <2>3. CASE ~ Copied(u)
    <3>1. FoundIn(prio', use', part', disk', u, last[u])
      BY <2>1, <2>3, UntouchedIs DEF Kept
    <3> QED
      BY <1>1, <2>3, <3>1 DEF Kept
  <2> QED
    BY <2>2, <2>3
<1> QED
  BY <1>2 DEF AllKept

Stored == Parted /\ OpenWhenUsed /\ AllKept

(* A step that changes no priority.                                        *)
LEMMA OpenKept ==
    ASSUME OpenWhenUsed, UNCHANGED <<prio, use>>, part'.open = part.open,
           ~ part.open => DOMAIN part'.map = DOMAIN part.map, DOMAIN writing' \subseteq DOMAIN writing,
           outstanding' = (job'.at # "idle"),
           Exporting' => /\ Exporting /\ job'.file = job.file /\ job'.to = job.to
                         /\ disk.files[job.file] => disk'.files[job.file]
    PROVE  OpenWhenUsed'
<1>1. \A f : UsesPartFile(f)' <=> UsesPartFile(f)
  BY DEF UsesPartFile
<1>2. Exporting' => Raised(job.file)' /\ use'[job'.file] /\ disk'.files[job'.file]
  BY DEF OpenWhenUsed, Raised
<1>3. \A u \in DOMAIN writing' : UsesPartFile(u[2])'
  BY <1>1 DEF OpenWhenUsed
<1>4. \A f \in Files : UsesPartFile(f)' => part'.open
  BY <1>1 DEF OpenWhenUsed
<1> QED
  BY <1>2, <1>3, <1>4 DEF OpenWhenUsed

(* The job stays as it is.                                                 *)
LEMMA OpenBeside ==
    ASSUME OpenWhenUsed, UNCHANGED <<prio, use, job, outstanding>>, part'.open = part.open,
           ~ part.open => DOMAIN part'.map = DOMAIN part.map, DOMAIN writing' \subseteq DOMAIN writing,
           \A f : disk.files[f] => disk'.files[f]
    PROVE  OpenWhenUsed'
<1>1. Exporting' = Exporting
  BY DEF Exporting
<1>2. outstanding' = (job'.at # "idle")
  BY DEF OpenWhenUsed
<1> QED
  BY <1>1, <1>2, OpenKept

LEMMA WriteFileStores ==
    ASSUME Stored, NEW w \in Units, WriteFile(w)
    PROVE  OpenWhenUsed' /\ AllKept'
<1> USE DEF Stored, Parted
<1>1. /\ Spend("writes") /\ last' = [last EXCEPT ![w] = Nr] /\ ~ UsesPartFile(w[2])
      /\ disk' = [disk EXCEPT !.files[w[2]] = TRUE, !.data[w] = Nr]
      /\ UNCHANGED <<torrentVars, prio, use, part, writing, job, durable, broken>>
  BY DEF WriteFile
<1>2. PICK n \in 1 .. MaxWrites : n = Nr
  BY <1>1, NrIs
<1>3. /\ disk'.cells = disk.cells /\ disk'.data = [disk.data EXCEPT ![w] = n]
      /\ disk'.files = [disk.files EXCEPT ![w[2]] = TRUE]
      /\ disk.data \in [Units -> Nat] /\ disk.files \in [Files -> BOOLEAN] /\ w[2] \in Files
  BY <1>1, <1>2, UnitsAre DEF DiskObject
<1>4. \A f : disk.files[f] => disk'.files[f]
  BY <1>3
<1>5. OpenWhenUsed'
  BY <1>1, <1>4, OpenBeside DEF torrentVars
<1>6. ~ Exporting /\ ~ Exporting'
  BY <1>1 DEF WriteFile, NoFence, Exporting
<1>7. last \in [Units -> Nat] /\ last' = [last EXCEPT ![w] = n]
  BY <1>1, <1>2 DEF Numbered
<1>8. ASSUME NEW u \in Units, u[2] \notin broken, last'[u] # 0 PROVE Kept(u)'
  <2>1. ~ Copied(u)'
    BY <1>6 DEF Copied
  <2>2. CASE u = w
    <3>1. FoundIn(prio', use', part', disk', u, last'[u])
      BY <1>1, <1>3, <1>7, <2>2, SeenInIs DEF FoundIn
    <3> QED
      BY <2>1, <3>1 DEF Kept
  <2>3. CASE u # w
    <3>1. FoundIn(prio, use, part, disk, u, last[u]) /\ last'[u] = last[u]
      BY <1>6, <1>7, <1>8, <2>3 DEF AllKept, Kept, Copied
    <3>2. Untouched(u)
      BY <1>1, <1>3, <1>4, <2>3 DEF Untouched
    <3>3. FoundIn(prio', use', part', disk', u, last[u])
      BY <3>1, <3>2, UntouchedIs
    <3> QED
      BY <2>1, <3>1, <3>3 DEF Kept
  <2> QED
    BY <2>2, <2>3
<1> QED
  BY <1>1, <1>5, <1>8 DEF AllKept

LEMMA TakeSlotStores ==
    ASSUME Stored, NEW w \in Units, TakeSlot(w)
    PROVE  OpenWhenUsed' /\ AllKept'
<1> USE DEF Stored
<1>1. /\ writing' = With(writing, w, part'.map[w[1]]) /\ UsesPartFile(w[2])
      /\ UNCHANGED <<torrentVars, prio, use, disk, job, tick, ghosts, budget>>
  BY DEF TakeSlot
<1>2. /\ part'.open = part.open
      /\ \A p \in DOMAIN part.map : p \in DOMAIN part'.map /\ part'.map[p] = part.map[p]
  BY TakeSlotKeeps
<1>3. part.open
  BY <1>1, UnitsAre DEF OpenWhenUsed
<1>4. \A f : UsesPartFile(f)' <=> UsesPartFile(f)
  BY <1>1 DEF UsesPartFile
<1>5. OpenWhenUsed'
  <2>1. DOMAIN writing' = DOMAIN writing \union {w}
    BY <1>1 DEF With, Over
  <2>2. \A u \in DOMAIN writing' : UsesPartFile(u[2])'
    BY <1>1, <1>4, <2>1 DEF OpenWhenUsed
  <2>3. Exporting' => Raised(job.file)' /\ use'[job'.file] /\ disk'.files[job'.file]
    BY <1>1 DEF OpenWhenUsed, Raised, Exporting
  <2> QED
    BY <1>1, <1>2, <1>3, <1>4, <2>2, <2>3 DEF OpenWhenUsed, torrentVars
<1>6. \A u \in Units : Untouched(u)
  BY <1>1, <1>2 DEF Untouched
<1>7. AllKept'
  BY <1>1, <1>6, UntouchedKept DEF Exporting, ghosts
<1> QED
  BY <1>5, <1>7

(* A write to the slot of its piece touches no other unit.                 *)
LEMMA SlotsApart ==
    ASSUME PartIs, NEW w \in Units, w \in DOMAIN writing, NEW u \in Units, u # w, u[1] \in DOMAIN part.map,
           NEW k \in Layout[u]
    PROVE  <<part.map[u[1]], k>> \notin Cells(writing[w], w)
<1> DEFINE t == part.map[u[1]]
           s == writing[w]
<1>1. s = part.map[w[1]] /\ w[1] \in DOMAIN part.map
  BY DEF PartIs
<1>2. s = t => u[1] = w[1]
  BY <1>1 DEF PartIs, GoodPart, SlotMap
<1>3. u[1] = w[1] => k \notin Layout[w]
  BY PartFileAssumption
<1>4. s = t => k \notin Layout[w]
  BY <1>2, <1>3
<1> HIDE DEF s, t
<1>5. <<t, k>> \notin Cells(s, w)
  BY <1>4 DEF Cells
<1> QED
  BY <1>5 DEF s, t

(* The slot of a unit's piece, and what it holds of the unit, stay.        *)
SlotStays(u) ==
    u[1] \in DOMAIN part.map =>
        /\ u[1] \in DOMAIN part'.map /\ part'.map[u[1]] = part.map[u[1]]
        /\ \A k \in Layout[u] : <<part.map[u[1]], k>> \in DOMAIN disk.cells =>
               /\ <<part.map[u[1]], k>> \in DOMAIN disk'.cells
               /\ disk'.cells[<<part.map[u[1]], k>>] = disk.cells[<<part.map[u[1]], k>>]

(* A write of a unit to its slot, and what it leaves alone.                *)
LEMMA SlotWrite ==
    ASSUME PartIs, DiskObject, NEW w \in Units, w \in DOMAIN writing, NEW n \in Nat, part' = part,
           disk' = [disk EXCEPT !.cells = Written(writing[w], w, n)]
    PROVE  /\ Holds(disk'.cells, writing[w], w, n)
           /\ disk'.data = disk.data /\ disk'.files = disk.files /\ disk'.header = disk.header
           /\ \A u \in Units : u # w => SlotStays(u)
<1> DEFINE c == Written(writing[w], w, n)
           new == Cells(writing[w], w)
<1>4. HaveWrite(c, writing[w], w, n)
  BY WrittenIs
<1> HIDE DEF c
<1>5. /\ DOMAIN c = DOMAIN disk.cells \union new /\ c \in [DOMAIN c -> Units \X Nat]
      /\ \A x \in new : c[x] = Entry(w, n)
      /\ \A x \in DOMAIN disk.cells : x \notin new => c[x] = disk.cells[x]
  BY <1>4 DEF HaveWrite
<1>6. disk'.cells = c /\ disk'.data = disk.data /\ disk'.files = disk.files /\ disk'.header = disk.header
  BY DEF DiskObject, c
<1>7. Holds(c, writing[w], w, n)
  <2>1. \A k \in Layout[w] : <<writing[w], k>> \in new
    BY DEF Cells
  <2> HIDE DEF new
  <2> QED
    BY <1>5, <2>1 DEF Holds, Entry
<1>9. ASSUME NEW u \in Units, u # w PROVE SlotStays(u)
  <2>1. ASSUME u[1] \in DOMAIN part.map, NEW k \in Layout[u], <<part.map[u[1]], k>> \in DOMAIN disk.cells
        PROVE  /\ <<part.map[u[1]], k>> \in DOMAIN disk'.cells
               /\ disk'.cells[<<part.map[u[1]], k>>] = disk.cells[<<part.map[u[1]], k>>]
    <3> DEFINE x == <<part.map[u[1]], k>>
    <3>1. x \notin new
      BY <1>9, <2>1, SlotsApart
    <3> HIDE DEF x, new
    <3>2. x \in DOMAIN disk.cells
      BY <2>1 DEF x
    <3>3. x \in DOMAIN disk'.cells /\ disk'.cells[x] = disk.cells[x]
      BY <1>5, <1>6, <3>1, <3>2
    <3> QED
      BY <3>3 DEF x
  <2> QED
    BY <2>1 DEF SlotStays
<1> QED
  BY <1>6, <1>7, <1>9

LEMMA WriteSlotIs ==
    ASSUME Stored, NEW w \in Units, WriteSlot(w)
    PROVE  /\ FoundIn(prio', use', part', disk', w, last'[w])
           /\ disk'.data = disk.data /\ disk'.files = disk.files /\ disk'.header = disk.header
           /\ \A u \in Units : u # w => last'[u] = last[u] /\ SlotStays(u)
<1>1. PartIs /\ DiskObject /\ Numbered /\ OpenWhenUsed
  BY DEF Stored, Parted
<1>2. /\ w \in DOMAIN writing /\ UNCHANGED <<prio, use, part>> /\ UsesPartFile(w[2]) /\ Spend("writes")
      /\ disk' = [disk EXCEPT !.cells = Written(writing[w], w, Nr)] /\ last' = [last EXCEPT ![w] = Nr]
  BY <1>1 DEF WriteSlot, OpenWhenUsed
<1>3. PICK n \in Nat : n = Nr
  BY <1>1, <1>2, NrIs
<1>4. /\ Holds(disk'.cells, writing[w], w, n)
      /\ disk'.data = disk.data /\ disk'.files = disk.files /\ disk'.header = disk.header
      /\ \A u \in Units : u # w => SlotStays(u)
  <2>1. disk' = [disk EXCEPT !.cells = Written(writing[w], w, n)] /\ part' = part
    BY <1>2, <1>3
  <2> QED
    BY <1>1, <1>2, <2>1, SlotWrite
<1>5. last'[w] = n /\ \A u \in Units : u # w => last'[u] = last[u]
  BY <1>1, <1>2, <1>3 DEF Numbered
<1>6. part'.map[w[1]] = writing[w] /\ w[1] \in DOMAIN part'.map
  BY <1>1, <1>2 DEF PartIs
<1>7. FoundIn(prio', use', part', disk', w, last'[w])
  BY <1>2, <1>4, <1>5, <1>6, SeenInIs DEF FoundIn
<1> QED
  BY <1>4, <1>5, <1>7

LEMMA WriteSlotFailsIs ==
    ASSUME Stored, NEW w \in Units, WriteSlotFails(w)
    PROVE  /\ last'[w] = 0 /\ durable'[w] = 0
           /\ disk'.data = disk.data /\ disk'.files = disk.files /\ disk'.header = disk.header
           /\ \A u \in Units : u # w => last'[u] = last[u] /\ durable'[u] = durable[u] /\ SlotStays(u)
<1>1. PartIs /\ DiskObject /\ Numbered
  BY DEF Stored, Parted
<1>2. /\ w \in DOMAIN writing /\ UNCHANGED <<prio, use, part>>
      /\ disk' = disk \/ disk' = [disk EXCEPT !.cells = Written(writing[w], w, 0)]
      /\ last' = [last EXCEPT ![w] = 0] /\ durable' = [durable EXCEPT ![w] = 0]
  BY DEF WriteSlotFails
<1>3. /\ last'[w] = 0 /\ durable'[w] = 0
      /\ \A u \in Units : u # w => last'[u] = last[u] /\ durable'[u] = durable[u]
  BY <1>1, <1>2 DEF Numbered
<1>4. /\ disk'.data = disk.data /\ disk'.files = disk.files /\ disk'.header = disk.header
      /\ \A u \in Units : u # w => SlotStays(u)
  <2>1. CASE disk' = disk
    BY <1>2, <2>1 DEF SlotStays
  <2>2. CASE disk' = [disk EXCEPT !.cells = Written(writing[w], w, 0)]
    BY <1>1, <1>2, <2>2, SlotWrite
  <2> QED
    BY <1>2, <2>1, <2>2
<1> QED
  BY <1>3, <1>4

(* A write to a slot, as what it does to the other units shows.            *)
LEMMA OtherSlots ==
    ASSUME Stored, NEW w \in Units, w \in DOMAIN writing, writing' = Without(writing, w),
           UNCHANGED <<torrentVars, prio, use, part, job, broken>>,
           disk'.data = disk.data, disk'.files = disk.files,
           \A u \in Units : u # w => last'[u] = last[u] /\ SlotStays(u),
           last'[w] # 0 => FoundIn(prio', use', part', disk', w, last'[w])
    PROVE  OpenWhenUsed' /\ AllKept'
<1> USE DEF Stored, Parted
<1>1. ~ Exporting /\ ~ Exporting' /\ UsesPartFile(w[2])
  BY DEF JobTypes, Exporting, OpenWhenUsed
<1>2. DOMAIN writing' \subseteq DOMAIN writing
  BY DEF Without
<1>3. OpenWhenUsed'
  BY <1>1, <1>2, OpenBeside DEF torrentVars
<1>4. ASSUME last'[w] # 0 PROVE Kept(w)'
  BY <1>1, <1>4 DEF Copied, Kept
<1>5. ASSUME NEW u \in Units, u # w, u[2] \notin broken, last'[u] # 0 PROVE Kept(u)'
  <2>1. last'[u] = last[u] /\ ~ Copied(u) /\ ~ Copied(u)'
    BY <1>1, <1>5 DEF Copied
  <2>2. FoundIn(prio, use, part, disk, u, last[u])
    BY <1>5, <2>1 DEF AllKept, Kept
  <2>3. Untouched(u)
    BY <1>5 DEF Untouched, SlotStays
  <2>4. FoundIn(prio', use', part', disk', u, last[u])
    BY <2>2, <2>3, UntouchedIs
  <2> QED
    BY <2>1, <2>4 DEF Kept
<1> QED
  BY <1>3, <1>4, <1>5 DEF AllKept

LEMMA WriteSlotStores ==
    ASSUME Stored, NEW w \in Units, WriteSlot(w)
    PROVE  OpenWhenUsed' /\ AllKept'
<1>1. /\ w \in DOMAIN writing /\ writing' = Without(writing, w)
      /\ UNCHANGED <<torrentVars, prio, use, part, job, broken>>
  BY DEF WriteSlot
<1> QED
  BY <1>1, WriteSlotIs, OtherSlots

LEMMA WriteSlotFailsStores ==
    ASSUME Stored, NEW w \in Units, WriteSlotFails(w)
    PROVE  OpenWhenUsed' /\ AllKept'
<1>1. /\ w \in DOMAIN writing /\ writing' = Without(writing, w)
      /\ UNCHANGED <<torrentVars, prio, use, part, job, broken>>
  BY DEF WriteSlotFails
<1> QED
  BY <1>1, WriteSlotFailsIs, OtherSlots

(* Flushing the header moves nothing that a piece of the map has.          *)
LEMMA FlushStores ==
    ASSUME Stored, NEW ok \in BOOLEAN,
           \/ FlushMetadata(ok)
           \/ UNCHANGED <<disk, part>>,
           UNCHANGED <<prio, use>>
    PROVE  /\ \A u \in Units : Untouched(u)
           /\ part'.open = part.open /\ part'.map = part.map
           /\ disk'.files = disk.files /\ disk'.data = disk.data
<1> USE DEF Stored, Parted
<1>1. /\ part'.open = part.open /\ part'.map = part.map
      /\ disk'.files = disk.files /\ disk'.data = disk.data
      /\ disk'.cells = disk.cells \/ (DOMAIN disk'.cells = {} /\ DOMAIN part.map = {})
  BY FlushIs
<1>2. \A u \in Units : Untouched(u)
  BY <1>1 DEF Untouched
<1> QED
  BY <1>1, <1>2

LEMMA TickStores ==
    ASSUME Stored, Tick
    PROVE  OpenWhenUsed' /\ AllKept'
<1> USE DEF Stored
<1>1. UNCHANGED <<torrentVars, prio, use, writing, job, ghosts>>
  BY DEF Tick
<1>2. part.open \in BOOLEAN
  BY DEF Parted, PartIs, GoodPart
<1>3. /\ \A u \in Units : Untouched(u)
      /\ part'.open = part.open /\ part'.map = part.map
      /\ disk'.files = disk.files /\ disk'.data = disk.data
  BY <1>1, <1>2, FlushStores DEF Tick
<1>4. OpenWhenUsed'
  BY <1>1, <1>3, OpenBeside DEF torrentVars
<1>5. AllKept'
  BY <1>1, <1>3, UntouchedKept DEF ghosts, Exporting
<1> QED
  BY <1>4, <1>5

LEMMA SaveStores ==
    ASSUME Stored, SaveResumeData
    PROVE  OpenWhenUsed' /\ AllKept'
<1> USE DEF Stored
<1>1. UNCHANGED <<priority, outstanding, deferred, wanted, prio, use, writing, job, tick, last, broken>>
  BY DEF SaveResumeData
<1>2. part.open \in BOOLEAN
  BY DEF Parted, PartIs, GoodPart
<1>3. /\ \A u \in Units : Untouched(u)
      /\ part'.open = part.open /\ part'.map = part.map
      /\ disk'.files = disk.files /\ disk'.data = disk.data
  BY <1>1, <1>2, FlushStores DEF SaveResumeData
<1>4. OpenWhenUsed'
  BY <1>1, <1>3, OpenBeside
<1>5. AllKept'
  BY <1>1, <1>3, UntouchedKept DEF Exporting
<1> QED
  BY <1>4, <1>5

LEMMA FlushPrioritiesStores ==
    ASSUME Stored, FlushPriorities
    PROVE  OpenWhenUsed' /\ AllKept'
<1> USE DEF Stored
<1>1. /\ job.at = "file" /\ OnlyJob /\ UNCHANGED <<prio, use, broken>> /\ \E e \in BOOLEAN : Done(e, job.to)
  BY DEF FlushPriorities, Running
<1>2. UNCHANGED <<torrentVars, writing, tick, last, durable>> /\ job'.at = "done"
  BY <1>1 DEF OnlyJob, Done, NoJob
<1>3. part.open \in BOOLEAN
  BY DEF Parted, PartIs, GoodPart
<1>4. /\ \A u \in Units : Untouched(u)
      /\ part'.open = part.open /\ part'.map = part.map
      /\ disk'.files = disk.files /\ disk'.data = disk.data
  BY <1>1, <1>3, FlushStores DEF FlushPriorities
<1>5. ~ Exporting /\ ~ Exporting' /\ outstanding' = (job'.at # "idle")
  BY <1>1, <1>2 DEF Exporting, OpenWhenUsed, torrentVars
<1>6. OpenWhenUsed'
  BY <1>1, <1>2, <1>4, <1>5, OpenKept
<1>7. AllKept'
  BY <1>1, <1>2, <1>4, <1>5, UntouchedKept
<1> QED
  BY <1>6, <1>7

(* The job sets the priority of a file: the other files are not touched.   *)
LEMMA SetPriorityStores ==
    ASSUME Stored, OnlyJob, writing = <<>>, Changing, job.file \in Files, NEW newUse \in BOOLEAN,
           SetPriority(job.file, part, newUse),
           disk'.cells = disk.cells, disk'.data = disk.data, \A g : disk.files[g] => disk'.files[g]
    PROVE  /\ OpenWhenUsed' /\ ~ Exporting' /\ last' = last
           /\ prio'[job.file] = job.to[job.file] /\ use'[job.file] = newUse
           /\ \A u \in Units : u[2] # job.file => Untouched(u)
           /\ part.open => part' = part
<1> USE DEF Stored, Parted
<1> DEFINE f == job.file
<1>1. /\ part.open \in BOOLEAN
      /\ part.open => part' = part
      /\ ~ part.open => part' = part \/ part'.open
      /\ job.to[f] = 0 /\ newUse => part'.open
      /\ prio' = [prio EXCEPT ![f] = job.to[f]]
      /\ use' = [use EXCEPT ![f] = newUse]
      /\ job' = [job EXCEPT !.at = "file", !.file = f + 1]
  <2>1. part.open \in BOOLEAN
    BY DEF PartIs, GoodPart
  <2> QED
    BY <2>1, SetPriorityIs, ZenonT(60)
<1>2. job'.at = "file" /\ ~ Exporting'
  BY <1>1 DEF Exporting, JobTypes
<1>3. UNCHANGED <<torrentVars, writing, tick, last, durable>> /\ DOMAIN writing' = {}
  BY EmptyIs DEF OnlyJob
<1>4. outstanding' = (job'.at # "idle")
  BY <1>2, <1>3 DEF OpenWhenUsed, Changing, Exporting, torrentVars
<1>5. \A g \in Files : g # f => prio'[g] = prio[g] /\ use'[g] = use[g]
  BY <1>1 DEF Settings
<1>6. prio'[f] = job.to[f] /\ use'[f] = newUse
  BY <1>1 DEF Settings
<1>7. \A g \in Files : UsesPartFile(g)' => part'.open
  <2>1. ASSUME NEW g \in Files, UsesPartFile(g)' PROVE part'.open
    <3>1. CASE g = f
      BY <1>1, <1>6, <2>1, <3>1 DEF UsesPartFile
    <3>2. CASE g # f
      <4>1. UsesPartFile(g)
        BY <1>5, <2>1, <3>2 DEF UsesPartFile
      <4> QED
        BY <1>1, <4>1 DEF OpenWhenUsed
    <3> QED
      BY <3>1, <3>2
  <2> QED
    BY <2>1
<1>8. OpenWhenUsed'
  <2>1. ~ part'.open => DOMAIN part'.map = {}
    BY <1>1 DEF OpenWhenUsed
  <2> QED
    BY <1>2, <1>3, <1>4, <1>7, <2>1 DEF OpenWhenUsed
<1>9. ASSUME NEW u \in Units, u[2] # f PROVE Untouched(u)
  <2>1. prio'[u[2]] = prio[u[2]] /\ use'[u[2]] = use[u[2]]
    BY <1>5, <1>9, UnitsAre
  <2>2. Uses(prio', use', u[2]) <=> Uses(prio, use, u[2])
    BY <2>1 DEF Uses
  <2>3. Uses(prio, use, u[2]) => part' = part
    BY <1>1, UnitsAre, SeenInIs DEF OpenWhenUsed
  <2> QED
    BY <2>2, <2>3 DEF Untouched
<1> QED
  BY <1>1, <1>2, <1>3, <1>6, <1>8, <1>9

LEMMA RaiseStores ==
    ASSUME Stored, RaiseFile
    PROVE  OpenWhenUsed' /\ AllKept'
<1> USE DEF Stored, Parted
<1> DEFINE f == job.file
<1>1. /\ job.at = "file" /\ writing = <<>> /\ f <= NumFiles /\ OnlyJob /\ UNCHANGED <<broken, budget>>
      /\ disk' = [disk EXCEPT !.files[f] = TRUE] /\ Raised(f)
  BY DEF RaiseFile, Running
<1>2. Changing /\ f \in Files /\ ~ Exporting
  BY <1>1, PartFileAssumption DEF Changing, JobTypes, Files, Exporting
<1>3. /\ disk'.cells = disk.cells /\ disk'.data = disk.data /\ disk'.files[f]
      /\ \A g : disk.files[g] => disk'.files[g]
  BY <1>1, <1>2 DEF DiskObject
<1>4. UNCHANGED <<torrentVars, writing, tick, last, durable>>
  BY <1>1 DEF OnlyJob
<1>5. CASE part.open /\ use[f]
  <2>1. job' = [job EXCEPT !.at = "export", !.piece = 0] /\ UNCHANGED <<prio, use, part>>
    BY <1>5 DEF RaiseFile
  <2>2. job'.at = "export" /\ job'.piece = 0 /\ job'.file = f /\ job'.to = job.to
    BY <2>1 DEF JobTypes
  <2>3. OpenWhenUsed'
    <3>1. Raised(job.file)' /\ use'[job'.file] /\ disk'.files[job'.file]
      BY <1>1, <1>3, <1>5, <2>1, <2>2 DEF Raised
    <3>2. outstanding' = (job'.at # "idle")
      BY <1>1, <1>4, <2>2 DEF OpenWhenUsed, torrentVars
    <3>3. \A g : UsesPartFile(g)' <=> UsesPartFile(g)
      BY <2>1 DEF UsesPartFile
    <3> QED
      BY <1>4, <2>1, <3>1, <3>2, <3>3 DEF OpenWhenUsed
  <2>4. \A u \in Units : ~ Copied(u) /\ ~ Copied(u)'
    <3>1. \A u \in Units : ~ (u[1] < 0)
      BY UnitsAre, PiecesAre DEF Pieces
    <3> QED
      BY <1>2, <2>2, <3>1 DEF Copied
  <2>5. \A u \in Units : Untouched(u)
    BY <1>3, <2>1 DEF Untouched
  <2>6. AllKept'
    BY <1>1, <1>4, <2>4, <2>5, UntouchedIs DEF AllKept, Kept
  <2> QED
    BY <2>3, <2>6
<1>6. CASE ~ (part.open /\ use[f])
  <2>1. SetPriority(f, part, use[f]) /\ use[f] \in BOOLEAN
    BY <1>2, <1>6 DEF RaiseFile, Settings
  <2>2. /\ OpenWhenUsed' /\ ~ Exporting'
        /\ prio'[f] = job.to[f] /\ use'[f] = use[f]
        /\ \A u \in Units : u[2] # f => Untouched(u)
    BY <1>1, <1>2, <1>3, <2>1, SetPriorityStores
  <2>3. ~ Uses(prio, use, f) /\ ~ Uses(prio', use', f)
    BY <1>1, <1>2, <1>6, <2>2, SeenInIs DEF OpenWhenUsed, Raised, Uses
  <2>4. \A u \in Units : Untouched(u)
    <3>1. ASSUME NEW u \in Units, u[2] = f PROVE Untouched(u)
      BY <1>3, <2>3, <3>1 DEF Untouched
    <3> QED
      BY <2>2, <3>1
  <2>5. AllKept'
    BY <1>1, <1>2, <1>4, <2>2, <2>4, UntouchedKept
  <2> QED
    BY <2>2, <2>5
<1> QED
  BY <1>5, <1>6

LEMMA KeepOrLowerStores ==
    ASSUME Stored, KeepOrLowerFile
    PROVE  OpenWhenUsed' /\ AllKept'
<1> USE DEF Stored, Parted
<1> DEFINE f == job.file
<1>1. /\ job.at = "file" /\ writing = <<>> /\ f <= NumFiles /\ OnlyJob /\ UNCHANGED <<disk, broken, budget>>
      /\ SetPriority(f, part, UseAfter(f)) /\ ~ Raised(f)
  BY DEF KeepOrLowerFile, Running
<1>2. Changing /\ f \in Files /\ ~ Exporting
  BY <1>1, PartFileAssumption DEF Changing, JobTypes, Files, Exporting
<1>3. UseAfter(f) \in BOOLEAN
  BY <1>2 DEF UseAfter, Settings, DiskObject
<1>4. /\ OpenWhenUsed' /\ ~ Exporting' /\ last' = last
      /\ prio'[f] = job.to[f] /\ use'[f] = UseAfter(f)
      /\ \A u \in Units : u[2] # f => Untouched(u)
      /\ part.open => part' = part
  BY <1>1, <1>2, <1>3, SetPriorityStores
<1>5. ASSUME NEW u \in Units, u[2] = f, u[2] \notin broken, last[u] # 0, Kept(u) PROVE Untouched(u)
  <2>1. FoundIn(prio, use, part, disk, u, last[u])
    BY <1>2, <1>5 DEF Kept, Copied
  <2>2. CASE Lowered(f)
    <3>1. ~ Uses(prio, use, f)
      BY <2>2 DEF Lowered, Uses
    <3>2. disk.files[f]
      BY <1>5, <2>1, <3>1 DEF FoundIn
    <3>3. ~ Uses(prio', use', f)
      BY <1>4, <2>2, <3>2 DEF Uses, UseAfter
    <3> QED
      BY <1>1, <1>5, <3>1, <3>3 DEF Untouched
  <2>3. CASE ~ Lowered(f)
    <3>1. use'[f] = use[f] /\ (prio'[f] = 0 <=> prio[f] = 0)
      BY <1>1, <1>4, <2>3 DEF UseAfter, Lowered, Raised
    <3>2. Uses(prio', use', f) <=> Uses(prio, use, f)
      BY <3>1 DEF Uses
    <3>3. Uses(prio, use, f) => part' = part
      BY <1>2, <1>4, SeenInIs DEF OpenWhenUsed
    <3> QED
      BY <1>1, <1>5, <3>2, <3>3 DEF Untouched
  <2> QED
    BY <2>2, <2>3
<1>6. AllKept'
  BY <1>1, <1>2, <1>4, <1>5, UntouchedKept
<1> QED
  BY <1>4, <1>6

LEMMA FileFailsStores ==
    ASSUME Stored, FileFails
    PROVE  OpenWhenUsed' /\ AllKept'
<1> USE DEF Stored
<1>1. /\ job.at = "file" /\ OnlyJob /\ UNCHANGED <<prio, use, part, disk, broken>> /\ Done(TRUE, prio)
  BY DEF FileFails, Running
<1>2. UNCHANGED <<torrentVars, writing, tick, last, durable>> /\ job'.at = "done"
  BY <1>1 DEF OnlyJob, Done, NoJob
<1>3. ~ Exporting /\ ~ Exporting' /\ outstanding' = (job'.at # "idle")
  BY <1>1, <1>2 DEF Exporting, OpenWhenUsed, torrentVars
<1>4. OpenWhenUsed'
  BY <1>1, <1>2, <1>3, OpenKept
<1>5. \A u \in Units : Untouched(u)
  BY <1>1 DEF Untouched
<1>6. AllKept'
  BY <1>1, <1>2, <1>3, <1>5, UntouchedKept
<1> QED
  BY <1>4, <1>6

LEMMA ExportSkipStores ==
    ASSUME Stored, ExportSkip
    PROVE  OpenWhenUsed' /\ AllKept'
<1> USE DEF Stored, Parted
<1>1. /\ job.at = "export" /\ ~ HasUnit /\ OnlyJob /\ job' = [job EXCEPT !.piece = @ + 1]
      /\ UNCHANGED <<prio, use, part, disk, broken, budget>>
  BY DEF ExportSkip, Running
<1>2. Exporting /\ job.piece \in 0 .. NumPieces /\ NumPieces \in Nat
  BY <1>1, PiecesAre DEF Exporting, JobTypes
<1>3. /\ job'.at = "export" /\ job'.file = job.file /\ job'.to = job.to /\ job'.piece = job.piece + 1
      /\ UNCHANGED <<torrentVars, writing, tick, last, durable>> /\ Exporting'
  BY <1>1 DEF JobTypes, OnlyJob, Exporting
<1>4. OpenWhenUsed'
  <2>1. outstanding' = (job'.at # "idle")
    BY <1>1, <1>3 DEF OpenWhenUsed, torrentVars
  <2> QED
    BY <1>1, <1>2, <1>3, <2>1, OpenKept
<1>5. ASSUME NEW u \in Units, u[2] \notin broken, last[u] # 0 PROVE Kept(u)'
  <2>1. Kept(u) /\ u[1] \in Int
    BY <1>5, UnitsAre DEF AllKept, Pieces
  <2>2. CASE u = Unit
    <3>1. u[1] = job.piece /\ u[2] = job.file /\ u[1] \notin DOMAIN part.map
      BY <1>1, <2>2 DEF Unit, HasUnit
    <3>2. ~ Copied(u)
      BY <1>1, <1>2, <3>1 DEF Copied
    <3>3. Uses(prio, use, u[2])
      BY <1>2, <3>1 DEF OpenWhenUsed, Raised, Uses
    <3> QED
      BY <2>1, <3>1, <3>2, <3>3 DEF Kept, FoundIn
  <2>3. CASE u # Unit
    <3>1. u[2] = job.file => u[1] # job.piece
      BY <2>3, UnitsAre DEF Unit
    <3>2. Copied(u)' <=> Copied(u)
      BY <1>1, <1>2, <1>3, <2>1, <3>1 DEF Copied
    <3> QED
      BY <1>1, <1>3, <2>1, <3>2 DEF Kept
  <2> QED
    BY <2>2, <2>3
<1> QED
  BY <1>1, <1>3, <1>4, <1>5 DEF AllKept

LEMMA ExportCopyStores ==
    ASSUME Stored, ExportCopy
    PROVE  OpenWhenUsed' /\ AllKept'
<1> USE DEF Stored, Parted
<1>1. /\ job.at = "export" /\ HasUnit /\ OnlyJob /\ job' = [job EXCEPT !.at = "copied"]
      /\ disk' = [disk EXCEPT !.data[Unit] = At(part.map[job.piece], Unit)]
      /\ UNCHANGED <<prio, use, part, broken, budget>>
  BY DEF ExportCopy, Running
<1>2. Exporting /\ job.piece \in 0 .. NumPieces /\ NumPieces \in Nat
  BY <1>1, PiecesAre DEF Exporting, JobTypes
<1>3. /\ job'.at = "copied" /\ job'.file = job.file /\ job'.to = job.to /\ job'.piece = job.piece
      /\ UNCHANGED <<torrentVars, writing, tick, last, durable>> /\ Exporting'
  BY <1>1 DEF JobTypes, OnlyJob, Exporting
<1>4. PICK w \in Units : w = Unit
  BY <1>1 DEF HasUnit
<1>5. /\ disk'.cells = disk.cells /\ disk'.files = disk.files
      /\ disk'.data[w] = At(part.map[w[1]], w) /\ \A u \in Units : u # w => disk'.data[u] = disk.data[u]
      /\ w[1] = job.piece /\ w[2] = job.file
  BY <1>1, <1>4 DEF DiskObject, Unit
<1>6. OpenWhenUsed'
  <2>1. outstanding' = (job'.at # "idle")
    BY <1>1, <1>3 DEF OpenWhenUsed, torrentVars
  <2> QED
    BY <1>1, <1>2, <1>3, <1>5, <2>1, OpenKept
<1>7. ASSUME NEW u \in Units, u[2] \notin broken, last[u] # 0 PROVE Kept(u)'
  <2>1. Kept(u) /\ u[1] \in Int
    BY <1>7, UnitsAre DEF AllKept, Pieces
  <2>2. CASE u = w
    <3>1. Copied(u)' /\ ~ Copied(u)
      BY <1>1, <1>2, <1>3, <1>5, <2>2 DEF Copied
    <3>2. Uses(prio, use, u[2])
      BY <1>2, <1>5, <2>2 DEF OpenWhenUsed, Raised, Uses
    <3>3. Holds(disk.cells, part.map[u[1]], u, last[u])
      BY <2>1, <3>1, <3>2 DEF Kept, FoundIn
    <3>4. AtIn(disk.cells, part.map[u[1]], u) = last[u]
      BY <1>7, <3>3, LastIs, AtHolds
    <3>5. disk'.data[u] = last[u]
      BY <1>5, <2>2, <3>4, SeenInIs
    <3> QED
      BY <1>3, <3>1, <3>5 DEF Kept
  <2>3. CASE u # w
    <3>1. u[2] = job.file => u[1] # job.piece
      BY <1>4, <2>3, UnitsAre DEF Unit
    <3>2. Copied(u)' <=> Copied(u)
      BY <1>1, <1>2, <1>3, <2>1, <3>1 DEF Copied
    <3>3. CASE Copied(u)
      BY <1>3, <1>5, <2>1, <2>3, <3>2, <3>3 DEF Kept
    <3>4. CASE ~ Copied(u)
      <4>1. Untouched(u)
        BY <1>1, <1>5, <2>3 DEF Untouched
      <4>2. FoundIn(prio', use', part', disk', u, last[u])
        BY <2>1, <3>4, <4>1, UntouchedIs DEF Kept
      <4> QED
        BY <1>3, <3>2, <3>4, <4>2 DEF Kept
    <3> QED
      BY <3>3, <3>4
  <2> QED
    BY <2>2, <2>3
<1> QED
  BY <1>1, <1>3, <1>6, <1>7 DEF AllKept

LEMMA ExportFreeStores ==
    ASSUME Stored, ExportFree
    PROVE  OpenWhenUsed' /\ AllKept'
<1> USE DEF Stored, Parted
<1>1. /\ job.at = "copied" /\ OnlyJob /\ job' = [job EXCEPT !.at = "export", !.piece = @ + 1]
      /\ UNCHANGED <<prio, use, disk, broken, budget>>
      /\ part' = IF WholeInFile(job.piece, job.file) THEN Freed(part, job.piece) ELSE part
  BY DEF ExportFree, Running
<1>2. Exporting /\ job.piece \in 0 .. NumPieces /\ NumPieces \in Nat /\ HasUnit
  BY <1>1, PiecesAre DEF Exporting, JobTypes
<1>3. /\ job'.at = "export" /\ job'.file = job.file /\ job'.to = job.to /\ job'.piece = job.piece + 1
      /\ UNCHANGED <<torrentVars, writing, tick, last, durable>> /\ Exporting'
  BY <1>1 DEF JobTypes, OnlyJob, Exporting
<1>4. /\ part'.open = part.open
      /\ \A p \in DOMAIN part.map :
            \/ p \in DOMAIN part'.map /\ part'.map[p] = part.map[p]
            \/ p = job.piece /\ WholeInFile(job.piece, job.file)
  <2>1. GoodPart(part) /\ job.piece \in DOMAIN part.map
    BY <1>2 DEF PartIs, HasUnit
  <2> QED
    BY <1>1, <2>1, FreedIs
<1>5. OpenWhenUsed'
  <2>1. outstanding' = (job'.at # "idle")
    BY <1>1, <1>3 DEF OpenWhenUsed, torrentVars
  <2>2. part.open
    BY <1>2 DEF OpenWhenUsed, HasUnit
  <2> QED
    BY <1>1, <1>2, <1>3, <1>4, <2>1, <2>2, OpenKept
<1>6. ASSUME NEW u \in Units, u[2] \notin broken, last[u] # 0 PROVE Kept(u)'
  <2>1. Kept(u) /\ u[1] \in Int
    BY <1>6, UnitsAre DEF AllKept, Pieces
  <2>2. Copied(u)' <=> Copied(u)
    BY <1>1, <1>2, <1>3, <2>1 DEF Copied
  <2>3. CASE Copied(u)
    BY <1>1, <1>3, <2>1, <2>2, <2>3 DEF Kept
  <2>4. CASE ~ Copied(u)
    <3>1. ~ (u[1] = job.piece /\ WholeInFile(job.piece, job.file))
      BY <1>1, <1>2, <2>4 DEF Copied, WholeInFile
    <3>2. Untouched(u)
      BY <1>1, <1>4, <3>1 DEF Untouched
    <3>3. FoundIn(prio', use', part', disk', u, last[u])
      BY <2>1, <2>4, <3>2, UntouchedIs DEF Kept
    <3> QED
      BY <1>3, <2>2, <2>4, <3>3 DEF Kept
  <2> QED
    BY <2>3, <2>4
<1> QED
  BY <1>1, <1>3, <1>5, <1>6 DEF AllKept

LEMMA ExportedStores ==
    ASSUME Stored, Exported
    PROVE  OpenWhenUsed' /\ AllKept'
<1> USE DEF Stored, Parted
<1> DEFINE f == job.file
<1>1. /\ job.at = "export" /\ writing = <<>> /\ OnlyJob /\ UNCHANGED <<disk, budget>>
      /\ SetPriority(f, part, use[f]) /\ broken' = broken /\ job.piece = NumPieces
  BY DEF Exported, Running
<1>2. Changing /\ Exporting /\ f \in Files /\ job.piece \in 0 .. NumPieces /\ NumPieces \in Nat
  BY <1>1, PiecesAre DEF Changing, Exporting, JobTypes
<1>3. use[f] \in BOOLEAN
  BY <1>2 DEF Settings
<1>4. /\ OpenWhenUsed' /\ ~ Exporting' /\ last' = last
      /\ prio'[f] = job.to[f]
      /\ \A u \in Units : u[2] # f => Untouched(u)
  BY <1>1, <1>2, <1>3, SetPriorityStores
<1>5. ASSUME NEW u \in Units, u[2] \notin broken', last[u] # 0 PROVE Kept(u)'
  <2>1. Kept(u) /\ u[1] \in Int /\ ~ Copied(u)'
    BY <1>1, <1>4, <1>5, UnitsAre DEF AllKept, Pieces, Copied
  <2>2. CASE u[2] = f
    <3>1. u[1] < job.piece
      BY <1>1, <1>5, <2>2, UnitsAre, PiecesAre DEF Pieces
    <3>2. disk'.data[u] = last[u] /\ disk'.files[u[2]]
      BY <1>1, <1>2, <2>1, <2>2, <3>1 DEF Kept, Copied, OpenWhenUsed
    <3>3. ~ Uses(prio', use', u[2])
      BY <1>2, <1>4, <2>2 DEF Uses, OpenWhenUsed, Raised
    <3> QED
      BY <1>4, <2>1, <3>2, <3>3 DEF Kept, FoundIn
  <2>3. CASE u[2] # f
    <3>1. ~ Copied(u)
      BY <2>3 DEF Copied
    <3>2. FoundIn(prio', use', part', disk', u, last[u])
      BY <1>4, <2>1, <2>3, <3>1, UntouchedIs DEF Kept
    <3> QED
      BY <1>4, <2>1, <3>2 DEF Kept
  <2> QED
    BY <2>2, <2>3
<1> QED
  BY <1>4, <1>5 DEF AllKept

LEMMA ExportEndsStores ==
    ASSUME Stored, ExportEnds
    PROVE  OpenWhenUsed' /\ AllKept'
<1> USE DEF Stored
<1>1. /\ job.at = "export" /\ OnlyJob /\ UNCHANGED <<prio, use, part, disk>>
      /\ Done(TRUE, prio) \/ Done(TRUE, job.to)
      /\ broken \subseteq broken' /\ job.file \in broken'
  BY ExportEndsIs DEF OpenWhenUsed, Exporting
<1>2. UNCHANGED <<torrentVars, writing, tick, last, durable>> /\ job'.at = "done"
  BY <1>1 DEF OnlyJob, Done, NoJob
<1>3. ~ Exporting' /\ outstanding' = (job'.at # "idle")
  BY <1>1, <1>2 DEF Exporting, OpenWhenUsed, torrentVars
<1>4. OpenWhenUsed'
  BY <1>1, <1>2, <1>3, OpenKept
<1>5. ASSUME NEW u \in Units, u[2] \notin broken', last[u] # 0 PROVE Kept(u)'
  <2>1. Kept(u) /\ ~ Copied(u) /\ ~ Copied(u)'
    BY <1>1, <1>3, <1>5 DEF AllKept, Copied
  <2> QED
    BY <1>1, <1>2, <2>1 DEF Kept
<1> QED
  BY <1>2, <1>4, <1>5 DEF AllKept

LEMMA SetFilePriorityStores ==
    ASSUME Stored, NEW f \in Files, NEW n \in Priorities, SetFilePriority(f, n)
    PROVE  OpenWhenUsed' /\ AllKept'
<1> USE DEF Stored
<1>1. UNCHANGED <<prio, use, part, disk, writing, tick, last, durable, broken>>
  BY DEF SetFilePriority, StorageUnchanged, ghosts
<1>2. \A u \in Units : Untouched(u)
  BY <1>1 DEF Untouched
<1>3. CASE outstanding
  <2>1. UNCHANGED <<outstanding, job>>
    BY <1>3 DEF SetFilePriority
  <2>2. OpenWhenUsed'
    BY <1>1, <2>1, OpenBeside
  <2>3. AllKept'
    BY <1>1, <1>2, <2>1, UntouchedKept DEF Exporting
  <2> QED
    BY <2>2, <2>3
<1>4. CASE ~ outstanding
  <2>1. outstanding' = TRUE /\ job'.at = "file" /\ job.at = "idle"
    BY <1>4 DEF SetFilePriority, Start, NoJob, OpenWhenUsed
  <2>2. ~ Exporting /\ ~ Exporting' /\ outstanding' = (job'.at # "idle")
    BY <2>1 DEF Exporting
  <2>3. OpenWhenUsed'
    BY <1>1, <2>2, OpenKept
  <2>4. AllKept'
    BY <1>1, <1>2, <2>2, UntouchedKept
  <2> QED
    BY <2>3, <2>4
<1> QED
  BY <1>3, <1>4

LEMMA OnFilePriorityStores ==
    ASSUME Stored, OnFilePriority
    PROVE  OpenWhenUsed' /\ AllKept'
<1> USE DEF Stored
<1>1. /\ UNCHANGED <<prio, use, part, disk, writing, tick, last, durable, broken>>
      /\ job.at = "done"
      /\ (outstanding' = TRUE /\ job'.at = "file") \/ (outstanding' = FALSE /\ job'.at = "idle")
  <2>1. CASE ~ job.err /\ deferred # <<>>
    <3>1. PICK to : Start(to)
      BY <2>1 DEF OnFilePriority
    <3> QED
      BY <3>1 DEF OnFilePriority, StorageUnchanged, ghosts, Start, NoJob
  <2>2. CASE ~ (~ job.err /\ deferred # <<>>)
    BY <2>2 DEF OnFilePriority, StorageUnchanged, ghosts, NoJob
  <2> QED
    BY <2>1, <2>2
<1>2. \A u \in Units : Untouched(u)
  BY <1>1 DEF Untouched
<1>3. ~ Exporting /\ ~ Exporting' /\ outstanding' = (job'.at # "idle")
  BY <1>1 DEF Exporting
<1>4. OpenWhenUsed'
  BY <1>1, <1>3, OpenKept
<1>5. AllKept'
  BY <1>1, <1>2, <1>3, UntouchedKept
<1> QED
  BY <1>4, <1>5

(* After a restart what the storage finds counts as written.               *)
LEMMA RestartStores ==
    ASSUME Parted', NEW to \in [Files -> Priorities], Restart(to)
    PROVE  OpenWhenUsed' /\ AllKept'
<1>1. DiskObject' /\ Numbered'
  BY DEF Parted
<1>2. /\ DOMAIN writing' = {} /\ job' = NoJob
      /\ \A f \in Files : Uses(prio', use', f) => part'.open
      /\ ~ part'.open => DOMAIN part'.map = {}
      /\ last' = [u \in Units |-> SeenIn(prio', use', part', disk', u)]
  BY <1>1, RestartIs
<1>3. job'.at = "idle" /\ ~ Exporting' /\ outstanding' = FALSE
  BY <1>2 DEF NoJob, Exporting, Restart
<1>4. OpenWhenUsed'
  BY <1>2, <1>3, SeenInIs DEF OpenWhenUsed
<1>5. AllFound'
  BY <1>2, <1>3, SeenInIs DEF AllFound, Found, Copied
<1> QED
  BY <1>1, <1>4, <1>5, KeptIs

LEMMA InitStored == Init => Stored
<1> SUFFICES ASSUME Init PROVE Stored
  OBVIOUS
<1>1. Parted
  BY InitParted
<1>2. last = [u \in Units |-> 0] /\ job.at = "idle" /\ outstanding = FALSE /\ DOMAIN writing = {}
  BY EmptyIs DEF Init, NoJob
<1>3. AllKept
  BY <1>2 DEF AllKept
<1>4. (\A f \in Files : UsesPartFile(f) => part.open) /\ (~ part.open => DOMAIN part.map = {})
  <2>1. SlotMap(<<>>)
    BY EmptyIs DEF SlotMap
  <2>2. CASE \E f \in Files : prio[f] = 0
    <3>1. part = Load(<<>>)
      BY <2>2 DEF Init
    <3> QED
      BY <2>1, <3>1, LoadIs
  <2>3. CASE ~ \E f \in Files : prio[f] = 0
    <3>1. part = NoPartFile
      BY <2>3 DEF Init
    <3> QED
      BY <2>3, <3>1, EmptyIs DEF NoPartFile, UsesPartFile
  <2> QED
    BY <2>2, <2>3
<1> QED
  BY <1>1, <1>2, <1>3, <1>4 DEF Stored, OpenWhenUsed, Exporting

LEMMA StoredKept ==
    ASSUME Stored, [Next]_vars
    PROVE  Stored'
<1>1. Parted'
  BY PartedKept DEF Stored
<1> SUFFICES OpenWhenUsed' /\ AllKept'
  BY <1>1 DEF Stored
<1>2. CASE UNCHANGED vars
  <2>1. UNCHANGED <<prio, use, part, disk, writing, job, outstanding, last, broken>>
    BY <1>2 DEF vars, torrentVars, ghosts
  <2>2. \A u \in Units : Untouched(u)
    BY <2>1 DEF Untouched
  <2>3. OpenWhenUsed'
    BY <2>1, OpenBeside DEF Stored
  <2>4. AllKept'
    BY <2>1, <2>2, UntouchedKept DEF Exporting, Stored
  <2> QED
    BY <2>3, <2>4
<1>3. CASE \E u \in Units : WriteFile(u) \/ TakeSlot(u) \/ WriteSlot(u) \/ WriteSlotFails(u)
  BY <1>3, WriteFileStores, TakeSlotStores, WriteSlotStores, WriteSlotFailsStores
<1>4. CASE \E f \in Files, n \in Priorities : SetFilePriority(f, n)
  BY <1>4, SetFilePriorityStores
<1>5. CASE SetFilePriorityJob
  BY <1>5, RaiseStores, KeepOrLowerStores, FileFailsStores, ExportSkipStores, ExportCopyStores,
     ExportFreeStores, ExportedStores, ExportEndsStores, FlushPrioritiesStores
  DEF SetFilePriorityJob, ExportEnds
<1>6. CASE OnFilePriority \/ SaveResumeData \/ Tick
  BY <1>6, OnFilePriorityStores, SaveStores, TickStores
<1>7. CASE Stop \/ Crash
  <2>1. Settings
    BY DEF Stored, Parted
  <2>2. \E to \in [Files -> Priorities] : Restart(to)
    BY <1>7, <2>1 DEF Stop, Crash, Settings
  <2> QED
    BY <1>1, <2>2, RestartStores
<1> QED
  BY <1>2, <1>3, <1>4, <1>5, <1>6, <1>7 DEF Next

(* The last completed write of a unit is read from where mmap_storage      *)
(* looks for it, in the file or in its slot of the part file, whatever the *)
(* priorities were changed to, however many disk errors, stops and crashes *)
(* there were, unless an export of its file was not completed.             *)
THEOREM ReadsAreLastWrites == Spec => []ReadsSeeWrites
<1>1. Init => Stored
  BY InitStored
<1>2. Stored /\ [Next]_vars => Stored'
  BY StoredKept
<1>3. Stored => ReadsSeeWrites
  <2>1. Stored => AllFound
    BY KeptIs DEF Stored, Parted
  <2> QED
    BY <2>1 DEF AllFound, Found, Copied, Exporting, ReadsSeeWrites
<1> QED
  BY <1>1, <1>2, <1>3, PTL DEF Spec

-----------------------------------------------------------------------------
(***************************************************************************)
(* Nothing is destroyed, and what resume data was saved for survives a     *)
(* crash.                                                                  *)
(***************************************************************************)
Safe ==
    ExistingAreUsed /\ PrioritiesAgree /\ HeaderProtects /\ InSlots /\ NothingDestroyed /\ SavedIsKept

(* These steps change no priority, and no file appears.                    *)
Quiet ==
    \/ UNCHANGED vars
    \/ \E u \in Units : TakeSlot(u) \/ WriteSlot(u) \/ WriteSlotFails(u)
    \/ \E f \in Files, n \in Priorities : SetFilePriority(f, n)
    \/ FileFails \/ ExportSkip \/ ExportCopy \/ ExportFree \/ FlushPriorities
    \/ OnFilePriority \/ SaveResumeData \/ Tick

LEMMA QuietIs ==
    ASSUME Stored, Quiet
    PROVE  /\ UNCHANGED <<prio, use, broken>> /\ disk'.files = disk.files
           /\ Exporting => Exporting' /\ job'.file = job.file
<1> USE DEF Stored, Parted
<1>1. CASE UNCHANGED vars
  BY <1>1 DEF vars, ghosts, Exporting
<1>2. ASSUME NEW u \in Units, TakeSlot(u)
      PROVE  UNCHANGED <<prio, use, broken, job>> /\ disk'.files = disk.files
  BY <1>2 DEF TakeSlot, ghosts
<1>3. ASSUME NEW u \in Units, WriteSlot(u) \/ WriteSlotFails(u)
      PROVE  UNCHANGED <<prio, use, broken, job>> /\ disk'.files = disk.files
  BY <1>3, WriteSlotIs, WriteSlotFailsIs DEF WriteSlot, WriteSlotFails
<1>4. ASSUME NEW f \in Files, NEW n \in Priorities, SetFilePriority(f, n)
      PROVE  /\ UNCHANGED <<prio, use, broken>> /\ disk'.files = disk.files
             /\ Exporting => Exporting' /\ job'.file = job.file
  <2>1. UNCHANGED <<prio, use, broken, disk>> /\ (outstanding => UNCHANGED job)
    BY <1>4 DEF SetFilePriority, StorageUnchanged, ghosts
  <2> QED
    BY <2>1 DEF Exporting, OpenWhenUsed
<1>5. CASE ExportSkip \/ ExportFree
  <2>1. /\ UNCHANGED <<prio, use, broken, disk>> /\ job'.file = job.file /\ job'.at = "export"
    BY <1>5 DEF ExportSkip, ExportFree, Running, JobTypes
  <2> QED
    BY <2>1 DEF Exporting
<1>6. CASE ExportCopy
  <2>1. /\ UNCHANGED <<prio, use, broken>> /\ job'.file = job.file /\ job'.at = "copied"
    BY <1>6 DEF ExportCopy, JobTypes
  <2>2. disk'.files = disk.files
    BY <1>6 DEF ExportCopy, DiskObject
  <2> QED
    BY <2>1, <2>2 DEF Exporting
<1>7. CASE Tick \/ SaveResumeData \/ FlushPriorities
  <2>1. UNCHANGED <<prio, use, broken>> /\ (UNCHANGED job \/ ~ Exporting)
    BY <1>7 DEF Tick, SaveResumeData, FlushPriorities, Running, Exporting, ghosts
  <2>2. part.open \in BOOLEAN
    BY DEF PartIs, GoodPart
  <2>3. FlushMetadata(part.open) \/ UNCHANGED <<disk, part>>
    BY <1>7 DEF Tick, SaveResumeData, FlushPriorities
  <2>4. disk'.files = disk.files
    BY <2>1, <2>2, <2>3, FlushStores
  <2> QED
    BY <2>1, <2>4 DEF Exporting
<1>8. CASE OnFilePriority
  BY <1>8 DEF OnFilePriority, StorageUnchanged, ghosts, Exporting
<1>9. CASE FileFails
  BY <1>9 DEF FileFails, Running, Exporting
<1> QED
  BY <1>1, <1>2, <1>3, <1>4, <1>5, <1>6, <1>7, <1>8, <1>9 DEF Quiet, Exporting

(* An export begins.                                                       *)
Begins == RaiseFile /\ part.open /\ use[job.file]

LEMMA BeginsIs ==
    ASSUME Stored, Begins
    PROVE  /\ job.file \in Files /\ Changing /\ ~ Exporting /\ Exporting' /\ Changing'
           /\ job'.file = job.file /\ job'.to = job.to /\ job'.at # "done" /\ job.at # "done"
           /\ UNCHANGED <<prio, use, part, broken, torrentVars, last, durable>>
           /\ disk'.header = disk.header /\ disk'.cells = disk.cells /\ disk'.data = disk.data
           /\ \A g \in Files : disk'.files[g] <=> g = job.file \/ disk.files[g]
<1> USE DEF Stored, Parted
<1> DEFINE f == job.file
<1>1. /\ job.at = "file" /\ f <= NumFiles /\ OnlyJob /\ UNCHANGED <<broken, budget>>
      /\ disk' = [disk EXCEPT !.files[f] = TRUE]
      /\ job' = [job EXCEPT !.at = "export", !.piece = 0] /\ UNCHANGED <<prio, use, part>>
  BY DEF Begins, RaiseFile, Running
<1>2. Changing /\ f \in Files /\ ~ Exporting
  BY <1>1, PartFileAssumption DEF Changing, JobTypes, Files, Exporting
<1>3. job'.at = "export" /\ job'.file = f /\ job'.to = job.to
  BY <1>1 DEF JobTypes
<1>4. /\ disk'.header = disk.header /\ disk'.cells = disk.cells /\ disk'.data = disk.data
      /\ \A g \in Files : disk'.files[g] <=> g = f \/ disk.files[g]
  BY <1>1, <1>2 DEF DiskObject
<1> QED
  BY <1>1, <1>2, <1>3, <1>4 DEF OnlyJob, Exporting, Changing

(* The job sets the priority of a file.                                    *)
Sets ==
    \/ RaiseFile /\ ~ (part.open /\ use[job.file])
    \/ KeepOrLowerFile \/ Exported

LEMMA SetsIs ==
    ASSUME Stored, ExistingAreUsed, Sets
    PROVE  /\ job.file \in Files /\ Changing /\ ~ Exporting' /\ Changing' /\ job.at # "done"
           /\ job'.at = "file" /\ job'.file = job.file + 1 /\ job'.to = job.to
           /\ prio' = [prio EXCEPT ![job.file] = job.to[job.file]]
           /\ \A g \in Files : g # job.file => (Uses(prio', use', g) <=> Uses(prio, use, g))
           /\ Uses(prio', use', job.file) => ~ disk'.files[job.file] \/ job.file \in broken
           /\ Uses(prio', use', job.file) /\ ~ Uses(prio, use, job.file) => ~ disk.files[job.file]
           /\ Uses(prio, use, job.file) /\ ~ Uses(prio', use', job.file) => disk'.files[job.file]
           /\ \A g \in Files : disk.files[g] => disk'.files[g]
           /\ \A g \in Files : g # job.file /\ disk'.files[g] => disk.files[g]
           /\ disk'.header = disk.header /\ disk'.cells = disk.cells /\ disk'.data = disk.data
           /\ part.open \in BOOLEAN
           /\ part.open => part' = part
           /\ ~ part.open => part' = part \/ (part'.open /\ ~ part'.dirty /\ part'.map = disk.header)
           /\ UNCHANGED <<torrentVars, writing, last, durable, broken>>
<1> USE DEF Stored, Parted
<1> DEFINE f == job.file
<1>1. /\ job.at \in {"file", "export"} /\ OnlyJob /\ f \in Files
      /\ \E b \in BOOLEAN : SetPriority(f, part, b)
  <2>1. CASE RaiseFile \/ KeepOrLowerFile
    <3>1. job.at = "file" /\ f <= NumFiles /\ OnlyJob
      BY <2>1 DEF RaiseFile, KeepOrLowerFile, Running
    <3>2. f \in Files
      BY <3>1, PartFileAssumption DEF Changing, JobTypes, Files
    <3>3. use[f] \in BOOLEAN /\ UseAfter(f) \in BOOLEAN
      BY <3>2 DEF UseAfter, Settings, DiskObject
    <3> QED
      BY <2>1, <3>1, <3>2, <3>3 DEF RaiseFile, KeepOrLowerFile, Sets, Exported, Running
  <2>2. CASE Exported
    <3>1. job.at = "export" /\ OnlyJob /\ SetPriority(f, part, use[f])
      BY <2>2 DEF Exported, Running
    <3>2. f \in Files
      BY <3>1 DEF JobTypes, Exporting
    <3> QED
      BY <3>1, <3>2 DEF Settings
  <2> QED
    BY <2>1, <2>2 DEF Sets
<1>2. PICK b \in BOOLEAN : SetPriority(f, part, b)
  BY <1>1
<1>3. Changing /\ job.at # "done"
  BY <1>1 DEF Changing, Exporting
<1>4. /\ part.open => part' = part
      /\ ~ part.open => part' = part \/ (part'.open /\ ~ part'.dirty /\ part'.map = disk.header)
      /\ prio' = [prio EXCEPT ![f] = job.to[f]] /\ use' = [use EXCEPT ![f] = b]
      /\ job' = [job EXCEPT !.at = "file", !.file = f + 1]
  BY <1>1, <1>2, <1>3, SetPriorityIs, ZenonT(60)
<1>5. job'.at = "file" /\ job'.file = f + 1 /\ job'.to = job.to
  BY <1>4 DEF JobTypes
<1>6. ~ Exporting' /\ Changing'
  BY <1>5 DEF Exporting, Changing
<1>7. \A g \in Files : g # f => (Uses(prio', use', g) <=> Uses(prio, use, g))
  BY <1>4 DEF Uses, Settings
<1>8. prio'[f] = job.to[f] /\ use'[f] = b
  BY <1>1, <1>4 DEF Settings
<1>9. /\ disk'.header = disk.header /\ disk'.cells = disk.cells /\ disk'.data = disk.data
      /\ \A g \in Files : disk.files[g] => disk'.files[g]
      /\ \A g \in Files : g # f /\ disk'.files[g] => disk.files[g]
  <2>1. CASE RaiseFile
    <3>1. disk' = [disk EXCEPT !.files[f] = TRUE]
      BY <2>1 DEF RaiseFile
    <3> QED
      BY <1>1, <3>1 DEF DiskObject
  <2>2. CASE KeepOrLowerFile \/ Exported
    BY <2>2 DEF KeepOrLowerFile, Exported
  <2> QED
    BY <2>1, <2>2 DEF Sets
<1>10. /\ Uses(prio', use', f) => ~ disk'.files[f] \/ f \in broken
       /\ Uses(prio', use', f) /\ ~ Uses(prio, use, f) => ~ disk.files[f]
       /\ Uses(prio, use, f) /\ ~ Uses(prio', use', f) => disk'.files[f]
  <2>1. CASE RaiseFile
    <3>1. disk' = [disk EXCEPT !.files[f] = TRUE] /\ Raised(f)
      BY <2>1 DEF RaiseFile
    <3>2. disk'.files[f]
      BY <1>1, <3>1 DEF DiskObject
    <3> QED
      BY <1>8, <3>1, <3>2 DEF Raised, Uses
  <2>2. CASE Exported
    <3>1. Exporting /\ disk' = disk
      BY <2>2 DEF Exported, Running, Exporting
    <3> QED
      BY <1>8, <3>1 DEF OpenWhenUsed, Raised, Uses
  <2>3. CASE KeepOrLowerFile
    <3>1. disk' = disk /\ ~ Raised(f) /\ ~ Exporting /\ SetPriority(f, part, UseAfter(f))
      BY <2>3 DEF KeepOrLowerFile, Running, Exporting
    <3>2. use'[f] = UseAfter(f)
      BY <1>1, <3>1 DEF SetPriority, Settings
    <3>3. CASE Lowered(f)
      BY <1>8, <3>1, <3>2, <3>3 DEF UseAfter, Uses, Lowered
    <3>4. CASE ~ Lowered(f)
      <4>1. Uses(prio', use', f) <=> Uses(prio, use, f)
        BY <1>8, <3>1, <3>2, <3>4 DEF UseAfter, Lowered, Raised, Uses
      <4>2. Uses(prio, use, f) => ~ disk.files[f] \/ f \in broken
        BY <1>1, <3>1, SeenInIs DEF ExistingAreUsed
      <4> QED
        BY <3>1, <4>1, <4>2
    <3> QED
      BY <3>3, <3>4
  <2> QED
    BY <2>1, <2>2, <2>3 DEF Sets
<1>11. broken' = broken
  BY DEF Sets, RaiseFile, KeepOrLowerFile, Exported
<1>12. part.open \in BOOLEAN
  BY DEF PartIs, GoodPart
<1>13. UNCHANGED <<torrentVars, writing, last, durable>>
  BY <1>1 DEF OnlyJob
<1> QED
  BY <1>1, <1>3, <1>4, <1>5, <1>6, <1>7, <1>9, <1>10, <1>11, <1>12, <1>13

(* The process stops or is killed, and the torrent is added again.         *)
Restarted(to) ==
    /\ to \in [Files -> Priorities] /\ Restart(to) /\ DiskObject'
    /\ disk'.files = disk.files /\ disk'.data = disk.data
    /\ disk'.header = disk.header \/ disk'.header = part.map
    /\ disk'.cells = disk.cells \/ DOMAIN part.map = {}

LEMMA StopIs ==
    ASSUME Stored, Stop, Stored'
    PROVE  Restarted(priority) /\ job.at = "idle" /\ broken' = broken
<1> USE DEF Stored, Parted
<1>1. /\ disk' = IF part.open THEN Flushed(part, disk) ELSE disk
      /\ Restart(priority) /\ broken' = broken /\ job.at = "idle" /\ priority \in [Files -> Priorities]
  BY DEF Stop, Settings
<1>2. CASE disk' = disk
  BY <1>1, <1>2 DEF Restarted
<1>3. CASE part.map = <<>> /\ disk' = [disk EXCEPT !.header = <<>>, !.cells = <<>>]
  <2>1. disk'.files = disk.files /\ disk'.data = disk.data /\ disk'.header = part.map
    BY <1>3 DEF DiskObject
  <2>2. DOMAIN part.map = {}
    BY <1>3, EmptyIs
  <2> QED
    BY <1>1, <2>1, <2>2 DEF Restarted
<1>4. CASE disk' = [disk EXCEPT !.header = part.map]
  <2>1. disk'.files = disk.files /\ disk'.data = disk.data /\ disk'.header = part.map /\ disk'.cells = disk.cells
    BY <1>4 DEF DiskObject
  <2> QED
    BY <1>1, <2>1 DEF Restarted
<1> QED
  BY <1>1, <1>2, <1>3, <1>4 DEF Flushed

LEMMA CrashIs ==
    ASSUME Stored, Crash, Stored'
    PROVE  /\ Restarted(saved) /\ disk' = disk
           /\ broken' = IF Exporting THEN broken \union {job.file} ELSE broken
  BY DEF Stored, Parted, Crash, Restarted, Settings, Exporting

LEMMA StepIs ==
    ASSUME [Next]_vars
    PROVE  Quiet \/ (\E u \in Units : WriteFile(u)) \/ Begins \/ Sets \/ ExportEnds \/ Stop \/ Crash
<1>1. CASE SetFilePriorityJob
  BY <1>1 DEF SetFilePriorityJob, Quiet, Begins, Sets, ExportEnds
<1> QED
  BY <1>1 DEF Next, Quiet

(* An export that ends with an error leaves everything where it is.        *)
LEMMA EndsIs ==
    ASSUME Stored, ExportEnds
    PROVE  /\ UNCHANGED <<prio, use, part, disk, writing, torrentVars, last, durable>>
           /\ broken \subseteq broken' /\ job.file \in broken' /\ job.file \in Files
           /\ Exporting /\ job'.at = "done" /\ ~ Exporting'
<1>1. /\ job.at = "export" /\ OnlyJob /\ UNCHANGED <<prio, use, part, disk>>
      /\ Done(TRUE, prio) \/ Done(TRUE, job.to)
      /\ broken \subseteq broken' /\ (Raised(job.file) => job.file \in broken')
  BY ExportEndsIs DEF Stored
<1>2. Exporting
  BY <1>1 DEF Exporting
<1>3. Raised(job.file) /\ job.file \in Files
  BY <1>2 DEF Stored, Parted, OpenWhenUsed, JobTypes
<1>4. job'.at = "done"
  BY <1>1 DEF Done, NoJob
<1> QED
  BY <1>1, <1>2, <1>3, <1>4 DEF OnlyJob, Exporting

(* What a quiet step does to the last writes.                              *)
LEMMA QuietWrites ==
    ASSUME Stored, Quiet, NEW u \in Units
    PROVE  last'[u] = last[u] \/ last'[u] = 0 \/ Uses(prio, use, u[2])
<1>1. ASSUME NEW w \in Units, WriteSlot(w) PROVE last'[u] = last[u] \/ Uses(prio, use, u[2])
  <2>1. UsesPartFile(w[2])
    BY <1>1 DEF WriteSlot, Stored, OpenWhenUsed
  <2>2. u # w => last'[u] = last[u]
    BY <1>1, WriteSlotIs
  <2> QED
    BY <2>1, <2>2, SeenInIs
<1>2. ASSUME NEW w \in Units, WriteSlotFails(w) PROVE last'[u] = last[u] \/ last'[u] = 0
  BY <1>2, WriteSlotFailsIs
<1>3. CASE ~ \E w \in Units : WriteSlot(w) \/ WriteSlotFails(w)
  BY <1>3 DEF Quiet, vars, ghosts, TakeSlot, SetFilePriority, StorageUnchanged, FileFails, ExportSkip, ExportCopy,
              ExportFree, FlushPriorities, OnlyJob, OnFilePriority, SaveResumeData, Tick
<1> QED
  BY <1>1, <1>2, <1>3

(* A file that exists does not use the part file, unless its export failed. *)
ExistsIn(f) == disk.files[f] /\ Uses(prio, use, f) => f \in broken \/ (Exporting /\ job.file = f)
InFile(u) == last[u] # 0 /\ ~ Uses(prio, use, u[2]) => disk.files[u[2]]

LEMMA ExistingIs ==
    /\ ExistingAreUsed <=> (\A f \in Files : ExistsIn(f)) /\ \A u \in Units : InFile(u)
    /\ ExistingAreUsed' <=> (\A f \in Files : ExistsIn(f)') /\ \A u \in Units : InFile(u)'
  BY SeenInIs DEF ExistingAreUsed, ExistsIn, InFile

LEMMA ExistingKept ==
    ASSUME Stored, Stored', ExistingAreUsed, [Next]_vars
    PROVE  ExistingAreUsed'
<1> USE DEF Stored, Parted
<1>1. (\A f \in Files : ExistsIn(f)) /\ \A u \in Units : InFile(u)
  BY ExistingIs
<1> SUFFICES (\A f \in Files : ExistsIn(f)') /\ \A u \in Units : InFile(u)'
  BY ExistingIs
<1>0. \A u \in Units : u[2] \in Files
  BY UnitsAre
<1>2. CASE Quiet
  <2>1. /\ UNCHANGED <<prio, use, broken>> /\ disk'.files = disk.files
        /\ Exporting => Exporting' /\ job'.file = job.file
    BY <1>2, QuietIs
  <2>2. \A u \in Units : last'[u] = last[u] \/ last'[u] = 0 \/ Uses(prio, use, u[2])
    BY <1>2, QuietWrites
  <2> QED
    BY <1>1, <2>1, <2>2 DEF ExistsIn, InFile
<1>3. ASSUME NEW w \in Units, WriteFile(w)
      PROVE  (\A f \in Files : ExistsIn(f)') /\ \A u \in Units : InFile(u)'
  <2>1. /\ UNCHANGED <<prio, use, broken, job>> /\ ~ Uses(prio, use, w[2]) /\ w[2] \in Files
        /\ disk' = [disk EXCEPT !.files[w[2]] = TRUE, !.data[w] = Nr] /\ Exporting' = Exporting
        /\ last' = [last EXCEPT ![w] = Nr]
    BY <1>3, SeenInIs, UnitsAre DEF WriteFile, Exporting
  <2>2. \A f \in Files : disk'.files[f] <=> f = w[2] \/ disk.files[f]
    BY <2>1 DEF DiskObject
  <2>3. \A u \in Units : u # w => last'[u] = last[u]
    BY <2>1 DEF Numbered
  <2> QED
    BY <1>0, <1>1, <2>1, <2>2, <2>3 DEF ExistsIn, InFile
<1>4. CASE Begins
  <2>1. /\ job.file \in Files /\ ~ Exporting /\ Exporting' /\ job'.file = job.file
        /\ UNCHANGED <<prio, use, broken, last>>
        /\ \A g \in Files : disk'.files[g] <=> g = job.file \/ disk.files[g]
    BY <1>4, BeginsIs
  <2> QED
    BY <1>0, <1>1, <2>1 DEF ExistsIn, InFile
<1>5. CASE Sets
  <2>1. /\ job.file \in Files /\ ~ Exporting'
        /\ \A g \in Files : g # job.file => (Uses(prio', use', g) <=> Uses(prio, use, g))
        /\ Uses(prio', use', job.file) => ~ disk'.files[job.file] \/ job.file \in broken
        /\ Uses(prio, use, job.file) /\ ~ Uses(prio', use', job.file) => disk'.files[job.file]
        /\ \A g \in Files : disk.files[g] => disk'.files[g]
        /\ \A g \in Files : g # job.file /\ disk'.files[g] => disk.files[g]
        /\ broken' = broken /\ last' = last
    BY <1>5, SetsIs
  <2> QED
    BY <1>0, <1>1, <2>1 DEF ExistsIn, InFile
<1>6. CASE Stop \/ Crash
  <2>1. \E to : Restarted(to)
    BY <1>6, StopIs, CrashIs
  <2>2. PICK to : Restarted(to)
    BY <2>1
  <2>3. /\ \A f \in Files : Uses(prio', use', f) => ~ disk'.files[f]
        /\ last' = [u \in Units |-> SeenIn(prio', use', part', disk', u)]
    BY <2>2, RestartIs DEF Restarted
  <2> QED
    BY <1>0, <2>3 DEF ExistsIn, InFile, SeenIn
<1>7. CASE ExportEnds
  <2>1. UNCHANGED <<prio, use, disk, last>> /\ broken \subseteq broken' /\ job.file \in broken'
    BY <1>7, EndsIs
  <2> QED
    BY <1>1, <2>1 DEF ExistsIn, InFile
<1> QED
  BY <1>2, <1>3, <1>4, <1>5, <1>6, <1>7, StepIs

(* The torrent does not take a file for wanted that the storage does not.  *)
LEMMA AgreeKept ==
    ASSUME Stored, Stored', ExistingAreUsed, PrioritiesAgree, [Next]_vars
    PROVE  PrioritiesAgree'
<1> USE DEF Stored, Parted
<1>1. \A f \in Files : f \in Nat /\ f >= 1 /\ f <= NumFiles /\ NumFiles \in Nat
  BY PartFileAssumption DEF Files
<1>2. ASSUME UNCHANGED <<prio, priority, broken>>, Changing' = Changing, job'.at # "done", job.at # "done",
             job'.to = job.to, job'.file = job.file
      PROVE  PrioritiesAgree'
  BY <1>2 DEF PrioritiesAgree
<1>3. ASSUME UNCHANGED <<prio, priority, job, broken>> PROVE PrioritiesAgree'
  BY <1>3 DEF PrioritiesAgree, Changing, Exporting
<1>4. ASSUME \A f \in Files \ broken' : prio'[f] = 0 => priority'[f] = 0,
             job'.at = "idle" \/ (job'.at = "file" /\ job'.file = 1)
      PROVE  PrioritiesAgree'
  <2>1. job'.at # "done" /\ \A f \in Files : ~ (Changing' /\ f < job'.file)
    BY <1>1, <1>4 DEF Changing, Exporting
  <2> QED
    BY <1>4, <2>1 DEF PrioritiesAgree
<1>5. CASE UNCHANGED vars \/ SaveResumeData \/ Tick
           \/ (\E u \in Units : WriteFile(u) \/ TakeSlot(u) \/ WriteSlot(u) \/ WriteSlotFails(u))
  <2>1. UNCHANGED <<prio, priority, job, broken>>
    BY <1>5 DEF vars, torrentVars, ghosts, WriteFile, TakeSlot, WriteSlot, WriteSlotFails, SaveResumeData, Tick
  <2> QED
    BY <1>3, <2>1
<1>6. ASSUME NEW g \in Files, NEW n \in Priorities, SetFilePriority(g, n) PROVE PrioritiesAgree'
  <2>1. UNCHANGED <<prio, priority, broken>>
    BY <1>6 DEF SetFilePriority, StorageUnchanged, ghosts
  <2>2. CASE outstanding
    BY <1>3, <1>6, <2>1, <2>2 DEF SetFilePriority
  <2>3. CASE ~ outstanding
    <3>1. job.at = "idle" /\ job'.at = "file" /\ job'.file = 1
      BY <1>6, <2>3 DEF SetFilePriority, Start, NoJob, OpenWhenUsed
    <3>2. \A f \in Files \ broken : prio[f] = 0 => priority[f] = 0
      BY <3>1 DEF PrioritiesAgree, Changing, Exporting
    <3> QED
      BY <1>4, <2>1, <3>1, <3>2
  <2> QED
    BY <2>2, <2>3
<1>7. CASE ExportSkip \/ ExportCopy \/ ExportFree
  <2>1. /\ job.at \in {"export", "copied"} /\ job'.at \in {"export", "copied"}
        /\ job'.to = job.to /\ job'.file = job.file /\ UNCHANGED <<prio, priority, broken>>
    BY <1>7 DEF ExportSkip, ExportCopy, ExportFree, Running, OnlyJob, torrentVars, JobTypes
  <2> QED
    BY <1>2, <2>1 DEF Changing, Exporting
<1>8. CASE FlushPriorities
  <2>1. job.at = "file" /\ job.file > NumFiles /\ UNCHANGED <<prio, broken>> /\ \E e \in BOOLEAN : Done(e, job.to)
    BY <1>8 DEF FlushPriorities, Running
  <2>2. job'.at = "done" /\ job'.to = job.to
    BY <2>1 DEF Done, NoJob
  <2>3. job.file \in Nat
    BY DEF JobTypes
  <2>4. \A f \in Files \ broken : prio[f] = 0 => job.to[f] = 0
    BY <1>1, <2>1, <2>3 DEF PrioritiesAgree, Changing
  <2> QED
    BY <2>1, <2>2, <2>4 DEF PrioritiesAgree
<1>9. CASE OnFilePriority
  <2>1. job.at = "done" /\ priority' = job.to /\ UNCHANGED <<prio, broken>>
    BY <1>9 DEF OnFilePriority, StorageUnchanged, ghosts
  <2>2. \A f \in Files \ broken' : prio'[f] = 0 => priority'[f] = 0
    BY <2>1 DEF PrioritiesAgree
  <2>3. job'.at = "idle" \/ (job'.at = "file" /\ job'.file = 1)
    <3>1. CASE ~ job.err /\ deferred # <<>>
      <4>1. PICK to : Start(to)
        BY <1>9, <3>1 DEF OnFilePriority
      <4> QED
        BY <4>1 DEF Start, NoJob
    <3>2. CASE ~ (~ job.err /\ deferred # <<>>)
      BY <1>9, <3>2 DEF OnFilePriority, NoJob
    <3> QED
      BY <3>1, <3>2
  <2> QED
    BY <1>4, <2>2, <2>3
<1>10. CASE Begins
  <2>1. /\ Changing /\ Changing' /\ UNCHANGED <<prio, broken, torrentVars>> /\ job'.file = job.file /\ job'.to = job.to
        /\ job'.at # "done" /\ job.at # "done"
    BY <1>10, BeginsIs
  <2>2. UNCHANGED priority
    BY <2>1 DEF torrentVars
  <2> QED
    BY <1>2, <2>1, <2>2
<1>11. CASE Sets
  <2>1. /\ job.file \in Files /\ Changing /\ Changing' /\ job.at # "done"
        /\ job'.at = "file" /\ job'.file = job.file + 1 /\ job'.to = job.to
        /\ prio' = [prio EXCEPT ![job.file] = job.to[job.file]] /\ UNCHANGED <<torrentVars, broken>>
    BY <1>11, SetsIs
  <2>2. priority' = priority
    BY <2>1 DEF torrentVars
  <2>3. ASSUME NEW f \in Files \ broken, prio'[f] = 0
        PROVE  0 = IF f < job'.file THEN job'.to[f] ELSE priority'[f]
    <3>1. prio[f] = 0 => 0 = IF f < job.file THEN job.to[f] ELSE priority[f]
      BY <2>1 DEF PrioritiesAgree
    <3>2. f \in Nat /\ job.file \in Nat
      BY <1>1, <2>1
    <3>3. CASE f = job.file
      BY <2>1, <2>3, <3>2, <3>3 DEF Settings
    <3>4. CASE f # job.file
      <4>1. prio'[f] = prio[f]
        BY <2>1, <3>4 DEF Settings
      <4>2. f < job'.file <=> f < job.file
        BY <2>1, <3>2, <3>4
      <4> QED
        BY <2>1, <2>2, <2>3, <3>1, <4>1, <4>2
    <3> QED
      BY <3>3, <3>4
  <2> QED
    BY <2>1, <2>3 DEF PrioritiesAgree
<1>12. CASE Stop \/ Crash
  <2>1. PICK to : Restarted(to)
    BY <1>12, StopIs, CrashIs
  <2>2. prio' = to /\ priority' = to /\ job' = NoJob
    BY <2>1, RestartIs DEF Restarted
  <2>3. job'.at = "idle"
    BY <2>2 DEF NoJob
  <2> QED
    BY <1>4, <2>2, <2>3
<1>13. CASE FileFails \/ ExportReadsShort \/ ExportReadFails
  <2>1. Done(TRUE, prio) /\ UNCHANGED prio
    BY <1>13 DEF FileFails, ExportReadsShort, ExportReadFails
  <2>2. job'.at = "done" /\ job'.to = prio
    BY <2>1 DEF Done, NoJob
  <2> QED
    BY <2>1, <2>2 DEF PrioritiesAgree
<1>14. CASE ExportWriteFails
  <2>1. /\ job.at = "export" /\ Done(TRUE, job.to) /\ UNCHANGED prio
        /\ broken' = broken \union {f \in Files : f >= job.file /\ Raised(f)}
    BY <1>14 DEF ExportWriteFails, Running
  <2>2. job'.at = "done" /\ job'.to = job.to /\ Changing /\ job.file \in Nat
    BY <2>1 DEF Done, NoJob, Changing, Exporting, JobTypes
  <2>3. ASSUME NEW f \in Files \ broken', prio[f] = 0 PROVE job.to[f] = 0
    <3>1. CASE f < job.file
      BY <2>1, <2>2, <2>3, <3>1 DEF PrioritiesAgree
    <3>2. CASE ~ f < job.file
      <4>1. f >= job.file
        BY <1>1, <2>2, <3>2
      <4> QED
        BY <2>1, <2>3, <4>1 DEF Raised
    <3> QED
      BY <3>1, <3>2
  <2> QED
    BY <2>1, <2>2, <2>3 DEF PrioritiesAgree
<1> QED
  BY <1>5, <1>6, <1>7, <1>8, <1>9, <1>10, <1>11, <1>12, <1>13, <1>14, StepIs DEF Quiet, ExportEnds

(* What was written of a unit is in the file or in the slot of its piece.  *)
Whole(u) ==
    \/ last[u] = 0 \/ last[u] = disk.data[u]
    \/ u[1] \in DOMAIN part.map /\ Holds(disk.cells, part.map[u[1]], u, last[u])

LEMMA WholeIs ==
    /\ Numbered => (NothingDestroyed <=> \A u \in Units : Whole(u))
    /\ Numbered' => (NothingDestroyed' <=> \A u \in Units : Whole(u)')
<1>1. ASSUME Numbered, NEW u \in Units
      PROVE  Whole(u) <=> \/ last[u] \in {0, disk.data[u]}
                          \/ u[1] \in DOMAIN part.map /\ At(part.map[u[1]], u) = last[u]
  <2>1. CASE last[u] = 0
    BY <2>1 DEF Whole
  <2>2. CASE last[u] # 0
    <3>1. last[u] \in 1 .. MaxWrites
      BY <1>1, <2>2, LastIs
    <3>2. At(part.map[u[1]], u) = last[u] <=> Holds(disk.cells, part.map[u[1]], u, last[u])
      BY <3>1, AtHolds, SeenInIs
    <3> QED
      BY <3>2 DEF Whole
  <2> QED
    BY <2>1, <2>2
<1>2. ASSUME Numbered', NEW u \in Units
      PROVE  Whole(u)' <=> \/ last'[u] \in {0, disk'.data[u]}
                           \/ u[1] \in DOMAIN part'.map /\ At(part.map[u[1]], u)' = last'[u]
  <2>1. CASE last'[u] = 0
    BY <2>1 DEF Whole
  <2>2. CASE last'[u] # 0
    <3>1. last'[u] \in 1 .. MaxWrites
      BY <1>2, <2>2, LastIsNext
    <3>2. At(part.map[u[1]], u)' = AtIn(disk'.cells, part'.map[u[1]], u)
      BY DEF At, AtIn
    <3>3. AtIn(disk'.cells, part'.map[u[1]], u) = last'[u] <=> Holds(disk'.cells, part'.map[u[1]], u, last'[u])
      BY <3>1, AtHolds
    <3> QED
      BY <3>2, <3>3 DEF Whole
  <2> QED
    BY <2>1, <2>2
<1> QED
  BY <1>1, <1>2 DEF NothingDestroyed

(* What is found is whole.                                                 *)
LEMMA KeptIsWhole ==
    ASSUME AllKept', NEW u \in Units, u[2] \notin broken'
    PROVE  Whole(u)'
  BY DEF AllKept, Kept, FoundIn, Whole

(* A step that leaves a unit's data and slot as they are.                  *)
LEMMA WholeStays ==
    ASSUME NEW u \in Units, Whole(u), last'[u] = last[u], disk'.data[u] = disk.data[u], SlotStays(u)
    PROVE  Whole(u)'
  BY DEF Whole, SlotStays, Holds

(* What a slot has of a unit.                                              *)
Slotted(u) ==
    last[u] # 0 /\ Uses(prio, use, u[2]) /\ u \notin DOMAIN writing =>
        IF u[1] \in DOMAIN part.map THEN Holds(disk.cells, part.map[u[1]], u, last[u])
        ELSE WholeInFile(u[1], u[2])

CopyIsMade == job.at = "copied" => last[Unit] \in {0, disk.data[Unit]}

LEMMA SlottedIs ==
    /\ Numbered => (InSlots <=> (\A u \in Units : Slotted(u)) /\ CopyIsMade)
    /\ Numbered' => (InSlots' <=> (\A u \in Units : Slotted(u)') /\ CopyIsMade')
<1>1. ASSUME Numbered, NEW u \in Units, last[u] # 0
      PROVE  At(part.map[u[1]], u) = last[u] <=> Holds(disk.cells, part.map[u[1]], u, last[u])
  <2>1. last[u] \in 1 .. MaxWrites
    BY <1>1, LastIs
  <2> QED
    BY <2>1, AtHolds, SeenInIs
<1>2. ASSUME Numbered', NEW u \in Units, last'[u] # 0
      PROVE  At(part.map[u[1]], u)' = last'[u] <=> Holds(disk'.cells, part'.map[u[1]], u, last'[u])
  <2>1. last'[u] \in 1 .. MaxWrites
    BY <1>2, LastIsNext
  <2>2. At(part.map[u[1]], u)' = AtIn(disk'.cells, part'.map[u[1]], u)
    BY DEF At, AtIn
  <2>3. AtIn(disk'.cells, part'.map[u[1]], u) = last'[u] <=> Holds(disk'.cells, part'.map[u[1]], u, last'[u])
    BY <2>1, AtHolds
  <2> QED
    BY <2>2, <2>3
<1>3. ASSUME Numbered PROVE InSlots <=> (\A u \in Units : Slotted(u)) /\ CopyIsMade
  BY <1>1, <1>3, SeenInIs DEF InSlots, Slotted, CopyIsMade
<1>4. \A u \in Units : WholeInFile(u[1], u[2])' <=> WholeInFile(u[1], u[2])
  BY DEF WholeInFile
<1>5. ASSUME Numbered' PROVE InSlots' <=> (\A u \in Units : Slotted(u)') /\ CopyIsMade'
  BY <1>2, <1>4, <1>5, SeenInIs DEF InSlots, Slotted, CopyIsMade
<1> QED
  BY <1>3, <1>5

(* A step that leaves a unit's slot as it is.                              *)
LEMMA SlottedStays ==
    ASSUME NEW u \in Units, Slotted(u), last'[u] = last[u], Uses(prio', use', u[2]) => Uses(prio, use, u[2]),
           u \in DOMAIN writing => u \in DOMAIN writing', SlotStays(u),
           u[1] \in DOMAIN part'.map => u[1] \in DOMAIN part.map
    PROVE  Slotted(u)'
  BY DEF Slotted, SlotStays, Holds, WholeInFile

LEMMA CopyKept ==
    ASSUME Stored, Stored', InSlots, [Next]_vars
    PROVE  CopyIsMade'
<1> USE DEF Stored, Parted
<1> SUFFICES ASSUME job'.at = "copied" PROVE last'[Unit'] \in {0, disk'.data[Unit']}
  BY DEF CopyIsMade
<1>1. CopyIsMade /\ \A u \in Units : Slotted(u)
  BY SlottedIs
<1>2. ASSUME UNCHANGED <<job, last>>, disk'.data = disk.data PROVE last'[Unit'] \in {0, disk'.data[Unit']}
  BY <1>1, <1>2 DEF CopyIsMade, Unit
<1>3. CASE UNCHANGED vars
  BY <1>2, <1>3 DEF vars, ghosts
<1>4. ASSUME NEW w \in Units, WriteFile(w) \/ TakeSlot(w) \/ WriteSlot(w) \/ WriteSlotFails(w) PROVE FALSE
  <2>1. job.at # "copied"
    BY <1>4 DEF WriteFile, TakeSlot, WriteSlot, WriteSlotFails, NoFence, JobTypes, Exporting
  <2>2. job' = job
    BY <1>4 DEF WriteFile, TakeSlot, WriteSlot, WriteSlotFails
  <2> QED
    BY <2>1, <2>2
<1>5. ASSUME NEW f \in Files, NEW n \in Priorities, SetFilePriority(f, n)
      PROVE  last'[Unit'] \in {0, disk'.data[Unit']}
  <2>1. UNCHANGED <<disk, last>> /\ (outstanding => UNCHANGED job)
    BY <1>5 DEF SetFilePriority, StorageUnchanged, ghosts
  <2>2. outstanding
    <3>1. CASE ~ outstanding
      <4>1. job'.at = "file"
        BY <1>5, <3>1 DEF SetFilePriority, Start, NoJob
      <4> QED
        BY <4>1
    <3> QED
      BY <3>1
  <2> QED
    BY <1>2, <2>1, <2>2
<1>6. CASE Tick \/ SaveResumeData
  <2>1. UNCHANGED <<job, last>> /\ (FlushMetadata(part.open) \/ UNCHANGED <<disk, part>>)
    BY <1>6 DEF Tick, SaveResumeData, ghosts
  <2>2. part.open \in BOOLEAN
    BY DEF PartIs, GoodPart
  <2>3. disk'.data = disk.data
    BY <2>1, <2>2, FlushIs
  <2> QED
    BY <1>2, <2>1, <2>3
<1>7. CASE ExportCopy
  <2>1. /\ disk' = [disk EXCEPT !.data[Unit] = At(part.map[job.piece], Unit)] /\ UNCHANGED <<part, last>>
        /\ Exporting /\ HasUnit /\ job' = [job EXCEPT !.at = "copied"]
    BY <1>7 DEF ExportCopy, OnlyJob, Running, Exporting
  <2>2. Unit' = Unit /\ Unit \in Units
    BY <2>1 DEF Unit, JobTypes, HasUnit
  <2>3. disk'.data[Unit] = At(part.map[job.piece], Unit)
    BY <2>1, <2>2 DEF DiskObject
  <2>4. ASSUME last[Unit] # 0 PROVE At(part.map[job.piece], Unit) = last[Unit]
    <3>1. PICK u \in Units : u = Unit
      BY <2>2
    <3>2. /\ Uses(prio, use, u[2]) /\ u \notin DOMAIN writing /\ u[1] \in DOMAIN part.map /\ u[1] = job.piece
      BY <2>1, <3>1 DEF OpenWhenUsed, Raised, Uses, JobTypes, Unit, HasUnit
    <3>3. Holds(disk.cells, part.map[u[1]], u, last[u])
      BY <1>1, <2>4, <3>1, <3>2 DEF Slotted
    <3>4. last[u] \in 1 .. MaxWrites
      BY <2>4, <3>1, LastIs
    <3>5. At(part.map[u[1]], u) = last[u]
      BY <3>3, <3>4, AtHolds, SeenInIs
    <3> QED
      BY <3>1, <3>2, <3>5
  <2> QED
    BY <2>1, <2>2, <2>3, <2>4
<1>8. CASE ExportSkip \/ ExportFree \/ FileFails \/ FlushPriorities \/ ExportEnds
  <2>1. CASE ExportSkip
    BY <2>1 DEF ExportSkip, Running, JobTypes
  <2>2. CASE ExportFree
    BY <2>2 DEF ExportFree, JobTypes
  <2>3. CASE FileFails
    <3>1. Done(TRUE, prio)
      BY <2>3 DEF FileFails
    <3> QED
      BY <3>1 DEF Done, NoJob
  <2>4. CASE FlushPriorities
    <3>1. \E e \in BOOLEAN : Done(e, job.to)
      BY <2>4 DEF FlushPriorities
    <3> QED
      BY <3>1 DEF Done, NoJob
  <2> QED
    BY <1>8, <2>1, <2>2, <2>3, <2>4, EndsIs
<1>9. CASE OnFilePriority
  <2>1. CASE ~ job.err /\ deferred # <<>>
    <3>1. PICK to : Start(to)
      BY <1>9, <2>1 DEF OnFilePriority
    <3> QED
      BY <3>1 DEF Start, NoJob
  <2>2. CASE ~ (~ job.err /\ deferred # <<>>)
    BY <1>9, <2>2 DEF OnFilePriority, NoJob
  <2> QED
    BY <2>1, <2>2
<1>10. CASE Begins
  <2>1. job' = [job EXCEPT !.at = "export", !.piece = 0]
    BY <1>10 DEF Begins, RaiseFile
  <2> QED
    BY <2>1 DEF JobTypes
<1>11. CASE Sets
  <2>1. job'.at = "file"
    BY <1>11 DEF Sets, RaiseFile, KeepOrLowerFile, Exported, SetPriority, JobTypes
  <2> QED
    BY <2>1
<1>12. CASE Stop \/ Crash
  <2>1. job'.at = "idle"
    BY <1>12 DEF Stop, Crash, Restart, NoJob
  <2> QED
    BY <2>1
<1> QED
  BY <1>3, <1>4, <1>5, <1>6, <1>7, <1>8, <1>9, <1>10, <1>11, <1>12, StepIs DEF Quiet

(* A slot has the last write of a unit, even if an export failed.          *)
LEMMA InSlotsKept ==
    ASSUME Stored, Stored', ExistingAreUsed, InSlots, [Next]_vars
    PROVE  InSlots'
<1> USE DEF Stored, Parted
<1>1. \A u \in Units : Slotted(u)
  BY SlottedIs
<1> SUFFICES ASSUME NEW u \in Units PROVE Slotted(u)'
  BY SlottedIs, CopyKept
<1>2. ASSUME UNCHANGED <<prio, use, writing, part>>, last'[u] = last[u], disk'.cells = disk.cells
      PROVE  Slotted(u)'
  BY <1>1, <1>2, SlottedStays DEF SlotStays
<1>3. CASE UNCHANGED vars \/ FileFails \/ ExportSkip \/ OnFilePriority
           \/ (\E f \in Files, n \in Priorities : SetFilePriority(f, n))
  <2>1. UNCHANGED <<prio, use, writing, part, last, disk>>
    BY <1>3 DEF vars, ghosts, FileFails, ExportSkip, OnlyJob, OnFilePriority, SetFilePriority, StorageUnchanged
  <2> QED
    BY <1>2, <2>1
<1>4. ASSUME NEW w \in Units, TakeSlot(w) PROVE Slotted(u)'
  <2>1. /\ UNCHANGED <<prio, use, disk, last>> /\ writing' = With(writing, w, part'.map[w[1]])
        /\ part' = WithSlot(part, w[1])
    BY <1>4 DEF TakeSlot, ghosts
  <2>2. DOMAIN writing' = DOMAIN writing \union {w}
    BY <2>1 DEF With, Over
  <2>3. CASE u = w
    BY <2>2, <2>3 DEF Slotted
  <2>4. CASE u # w
    <3>1. SlotStays(u)
      BY <1>4, <2>1, TakeSlotKeeps DEF SlotStays
    <3>2. DOMAIN part'.map = DOMAIN part.map \union {w[1]}
      <4>1. GoodPart(part) /\ w[1] \in Pieces
        BY UnitsAre DEF PartIs
      <4>2. CASE w[1] \in DOMAIN part.map
        BY <2>1, <4>2 DEF WithSlot
      <4>3. CASE w[1] \notin DOMAIN part.map
        BY <2>1, <4>1, <4>3, AllocateIs DEF WithSlot
      <4> QED
        BY <4>2, <4>3
    <3>3. CASE u[1] \in DOMAIN part.map \/ u[1] # w[1]
      <4>1. u[1] \in DOMAIN part'.map => u[1] \in DOMAIN part.map
        BY <3>2, <3>3
      <4> QED
        BY <1>1, <2>1, <2>2, <3>1, <4>1, SlottedStays
    <3>4. CASE u[1] \notin DOMAIN part.map /\ u[1] = w[1]
      <4>1. ~ WholeInFile(u[1], u[2])
        BY <2>4, <3>4, UnitsAre DEF WholeInFile
      <4>2. ~ (last[u] # 0 /\ Uses(prio, use, u[2]) /\ u \notin DOMAIN writing)
        BY <1>1, <3>4, <4>1 DEF Slotted
      <4> QED
        BY <2>1, <2>2, <4>2 DEF Slotted
    <3> QED
      BY <3>3, <3>4
  <2> QED
    BY <2>3, <2>4
<1>5. ASSUME NEW w \in Units, WriteSlot(w) PROVE Slotted(u)'
  <2>1. UNCHANGED <<prio, use, part>> /\ writing' = Without(writing, w)
    BY <1>5 DEF WriteSlot
  <2>2. CASE u = w
    <3>1. FoundIn(prio', use', part', disk', u, last'[u])
      BY <1>5, <2>2, WriteSlotIs
    <3> QED
      BY <3>1 DEF FoundIn, Slotted
  <2>3. CASE u # w
    <3>1. last'[u] = last[u] /\ SlotStays(u)
      BY <1>5, <2>3, WriteSlotIs
    <3>2. u \in DOMAIN writing => u \in DOMAIN writing'
      BY <2>1, <2>3 DEF Without
    <3> QED
      BY <1>1, <2>1, <3>1, <3>2, SlottedStays
  <2> QED
    BY <2>2, <2>3
<1>6. ASSUME NEW w \in Units, WriteSlotFails(w) PROVE Slotted(u)'
  <2>1. UNCHANGED <<prio, use, part>> /\ writing' = Without(writing, w)
    BY <1>6 DEF WriteSlotFails
  <2>2. CASE u = w
    BY <1>6, <2>2, WriteSlotFailsIs DEF Slotted
  <2>3. CASE u # w
    <3>1. last'[u] = last[u] /\ SlotStays(u)
      BY <1>6, <2>3, WriteSlotFailsIs
    <3>2. u \in DOMAIN writing => u \in DOMAIN writing'
      BY <2>1, <2>3 DEF Without
    <3> QED
      BY <1>1, <2>1, <3>1, <3>2, SlottedStays
  <2> QED
    BY <2>2, <2>3
<1>7. CASE ExportCopy
  <2>1. UNCHANGED <<prio, use, writing, part, last>> /\ disk'.cells = disk.cells
    BY <1>7 DEF ExportCopy, OnlyJob, DiskObject
  <2> QED
    BY <1>2, <2>1
<1>8. CASE ExportFree
  <2>1. /\ part' = IF WholeInFile(job.piece, job.file) THEN Freed(part, job.piece) ELSE part
        /\ UNCHANGED <<prio, use, writing, disk, last>> /\ HasUnit
    BY <1>8 DEF ExportFree, OnlyJob, Running, JobTypes
  <2>2. GoodPart(part) /\ job.piece \in DOMAIN part.map
    BY <2>1 DEF HasUnit, PartIs
  <2>3. CASE WholeInFile(job.piece, job.file) /\ u[1] = job.piece
    <3>1. u[2] = job.file
      BY <2>3 DEF WholeInFile
    <3>2. u[1] \notin DOMAIN part'.map
      BY <2>1, <2>2, <2>3, FreedIs
    <3> QED
      BY <2>3, <3>1, <3>2 DEF Slotted, WholeInFile
  <2>4. CASE ~ (WholeInFile(job.piece, job.file) /\ u[1] = job.piece)
    <3>1. u[1] \in DOMAIN part.map => u[1] \in DOMAIN part'.map /\ part'.map[u[1]] = part.map[u[1]]
      BY <2>1, <2>2, <2>4, FreedIs
    <3>2. u[1] \in DOMAIN part'.map => u[1] \in DOMAIN part.map
      BY <2>1, <2>2, FreedIs
    <3>3. SlotStays(u)
      BY <2>1, <3>1 DEF SlotStays
    <3> QED
      BY <1>1, <2>1, <3>2, <3>3, SlottedStays
  <2> QED
    BY <2>3, <2>4
<1>9. CASE Tick \/ SaveResumeData \/ FlushPriorities
  <2>1. UNCHANGED <<prio, use, writing, last>> /\ (FlushMetadata(part.open) \/ UNCHANGED <<disk, part>>)
    BY <1>9 DEF Tick, SaveResumeData, FlushPriorities, OnlyJob, ghosts
  <2>2. part.open \in BOOLEAN
    BY DEF PartIs, GoodPart
  <2>3. /\ part'.map = part.map
        /\ disk'.cells = disk.cells \/ DOMAIN part.map = {}
    BY <2>1, <2>2, FlushIs
  <2>4. SlotStays(u)
    BY <2>3 DEF SlotStays
  <2> QED
    BY <1>1, <2>1, <2>3, <2>4, SlottedStays
<1>10. ASSUME NEW w \in Units, WriteFile(w) PROVE Slotted(u)'
  <2>1. /\ UNCHANGED <<prio, use, writing, part>> /\ last' = [last EXCEPT ![w] = Nr] /\ ~ Uses(prio, use, w[2])
        /\ disk' = [disk EXCEPT !.files[w[2]] = TRUE, !.data[w] = Nr]
    BY <1>10, SeenInIs DEF WriteFile
  <2>2. disk'.cells = disk.cells
    BY <2>1 DEF DiskObject
  <2>3. CASE u = w
    BY <2>1, <2>3 DEF Slotted
  <2>4. CASE u # w
    <3>1. last'[u] = last[u]
      BY <2>1, <2>4 DEF Numbered
    <3> QED
      BY <1>2, <2>1, <2>2, <3>1
  <2> QED
    BY <2>3, <2>4
<1>11. CASE Begins
  <2>1. UNCHANGED <<prio, use, part, last>> /\ disk'.cells = disk.cells
    BY <1>11, BeginsIs
  <2>2. UNCHANGED writing
    BY <1>11 DEF Begins, RaiseFile, OnlyJob
  <2> QED
    BY <1>2, <2>1, <2>2
<1>12. CASE Sets
  <2>1. /\ UNCHANGED <<writing, last>> /\ disk'.cells = disk.cells
        /\ part.open \in BOOLEAN /\ (part.open => part' = part)
        /\ \A g \in Files : g # job.file => (Uses(prio', use', g) <=> Uses(prio, use, g))
        /\ Uses(prio', use', job.file) /\ ~ Uses(prio, use, job.file) => ~ disk.files[job.file]
    BY <1>12, SetsIs
  <2>2. u[2] \in Files
    BY UnitsAre
  <2>3. CASE Uses(prio, use, u[2])
    <3>1. part' = part
      BY <2>1, <2>2, <2>3, SeenInIs DEF OpenWhenUsed
    <3>2. SlotStays(u)
      BY <2>1, <3>1 DEF SlotStays
    <3> QED
      BY <1>1, <2>1, <2>3, <3>1, <3>2, SlottedStays
  <2>4. CASE ~ Uses(prio, use, u[2])
    <3>1. last[u] # 0 => disk.files[u[2]]
      BY <2>4, SeenInIs DEF ExistingAreUsed
    <3> QED
      BY <2>1, <2>2, <2>4, <3>1 DEF Slotted
  <2> QED
    BY <2>3, <2>4
<1>13. CASE Stop \/ Crash
  <2>1. PICK to : Restarted(to)
    BY <1>13, StopIs, CrashIs
  <2>2. last' = [v \in Units |-> SeenIn(prio', use', part', disk', v)]
    BY <2>1, RestartIs DEF Restarted
  <2>3. last'[u] # 0 => FoundIn(prio', use', part', disk', u, last'[u])
    BY <2>2, LastIsNext, SeenFound
  <2> QED
    BY <2>3 DEF Slotted, FoundIn
<1>14. CASE ExportEnds
  BY <1>2, <1>14, EndsIs
<1> QED
  BY <1>3, <1>4, <1>5, <1>6, <1>7, <1>8, <1>9, <1>10, <1>11, <1>12, <1>13, <1>14, StepIs DEF Quiet

(* An incomplete export destroys nothing.                                  *)
LEMMA NothingKept ==
    ASSUME Stored, Stored', InSlots, NothingDestroyed, ExistingAreUsed, [Next]_vars
    PROVE  NothingDestroyed'
<1> USE DEF Stored, Parted
<1>1. \A u \in Units : Whole(u)
  BY WholeIs
<1> SUFFICES ASSUME NEW u \in Units, u[2] \in broken' PROVE Whole(u)'
  BY WholeIs, KeptIsWhole
<1>2. Slotted(u) /\ (job.at = "copied" => last[Unit] \in {0, disk.data[Unit]})
  BY SlottedIs DEF CopyIsMade
<1>3. ASSUME UNCHANGED <<last, disk, part>> PROVE Whole(u)'
  BY <1>1, <1>3 DEF Whole
<1>4. CASE Quiet
  <2>2. CASE UNCHANGED vars \/ FileFails \/ ExportSkip \/ OnFilePriority
             \/ (\E f \in Files, n \in Priorities : SetFilePriority(f, n))
    <3>1. UNCHANGED <<last, disk, part>>
      BY <2>2 DEF vars, ghosts, FileFails, ExportSkip, OnlyJob, OnFilePriority, SetFilePriority, StorageUnchanged
    <3> QED
      BY <1>3, <3>1
  <2>3. ASSUME NEW w \in Units, TakeSlot(w) PROVE Whole(u)'
    <3>1. UNCHANGED <<last, disk>>
      BY <2>3 DEF TakeSlot, ghosts
    <3>2. SlotStays(u)
      BY <2>3, <3>1, TakeSlotKeeps DEF SlotStays
    <3> QED
      BY <1>1, <3>1, <3>2, WholeStays
  <2>4. ASSUME NEW w \in Units, WriteSlot(w) PROVE Whole(u)'
    <3>1. CASE w = u
      <4>1. FoundIn(prio', use', part', disk', u, last'[u])
        BY <2>4, <3>1, WriteSlotIs
      <4> QED
        BY <4>1 DEF FoundIn, Whole
    <3>2. CASE w # u
      <4>1. last'[u] = last[u] /\ disk'.data[u] = disk.data[u] /\ SlotStays(u)
        BY <2>4, <3>2, WriteSlotIs
      <4> QED
        BY <1>1, <4>1, WholeStays
    <3> QED
      BY <3>1, <3>2
  <2>8. ASSUME NEW w \in Units, WriteSlotFails(w) PROVE Whole(u)'
    <3>1. CASE w = u
      BY <2>8, <3>1, WriteSlotFailsIs DEF Whole
    <3>2. CASE w # u
      <4>1. last'[u] = last[u] /\ disk'.data[u] = disk.data[u] /\ SlotStays(u)
        BY <2>8, <3>2, WriteSlotFailsIs
      <4> QED
        BY <1>1, <4>1, WholeStays
    <3> QED
      BY <3>1, <3>2
  <2>5. CASE ExportCopy
    <3>1. /\ disk' = [disk EXCEPT !.data[Unit] = At(part.map[job.piece], Unit)] /\ UNCHANGED <<part, last>>
          /\ Exporting /\ HasUnit
      BY <2>5 DEF ExportCopy, OnlyJob, Running, Exporting
    <3>2. disk'.cells = disk.cells
      BY <3>1 DEF DiskObject
    <3>3. CASE u = Unit
      <4>1. Uses(prio, use, u[2]) /\ u \notin DOMAIN writing /\ u[1] \in DOMAIN part.map
        BY <3>1, <3>3 DEF OpenWhenUsed, Raised, Uses, JobTypes, Unit, HasUnit
      <4> QED
        BY <1>2, <3>1, <3>2, <4>1 DEF Slotted, Whole
    <3>4. CASE u # Unit
      <4>1. disk'.data[u] = disk.data[u]
        BY <3>1, <3>4 DEF DiskObject
      <4>2. SlotStays(u)
        BY <3>1, <3>2 DEF SlotStays
      <4> QED
        BY <1>1, <3>1, <4>1, <4>2, WholeStays
    <3> QED
      BY <3>3, <3>4
  <2>6. CASE ExportFree
    <3>1. /\ part' = IF WholeInFile(job.piece, job.file) THEN Freed(part, job.piece) ELSE part
          /\ UNCHANGED <<disk, last>> /\ job.at = "copied" /\ HasUnit
      BY <2>6 DEF ExportFree, OnlyJob, Running, Exporting, JobTypes
    <3>2. CASE WholeInFile(job.piece, job.file) /\ u[1] = job.piece
      <4>1. u = Unit
        BY <3>2, UnitsAre DEF WholeInFile, Unit
      <4> QED
        BY <1>2, <3>1, <4>1 DEF Whole
    <3>3. CASE ~ (WholeInFile(job.piece, job.file) /\ u[1] = job.piece)
      <4>1. GoodPart(part) /\ job.piece \in DOMAIN part.map
        BY <3>1 DEF HasUnit, PartIs
      <4>2. u[1] \in DOMAIN part.map => u[1] \in DOMAIN part'.map /\ part'.map[u[1]] = part.map[u[1]]
        BY <3>1, <3>3, <4>1, FreedIs
      <4>3. SlotStays(u)
        BY <3>1, <4>2 DEF SlotStays
      <4> QED
        BY <1>1, <3>1, <4>3, WholeStays
    <3> QED
      BY <3>2, <3>3
  <2>7. CASE Tick \/ SaveResumeData \/ FlushPriorities
    <3>1. UNCHANGED last
      BY <2>7 DEF Tick, SaveResumeData, FlushPriorities, OnlyJob, ghosts
    <3>2. part.open \in BOOLEAN
      BY DEF PartIs, GoodPart
    <3>3. FlushMetadata(part.open) \/ UNCHANGED <<disk, part>>
      BY <2>7 DEF Tick, SaveResumeData, FlushPriorities
    <3>4. /\ part'.map = part.map /\ disk'.data = disk.data
          /\ disk'.cells = disk.cells \/ DOMAIN part.map = {}
      BY <3>2, <3>3, FlushIs
    <3>5. SlotStays(u)
      BY <3>4 DEF SlotStays
    <3> QED
      BY <1>1, <3>1, <3>4, <3>5, WholeStays
  <2> QED
    BY <1>4, <2>2, <2>3, <2>4, <2>5, <2>6, <2>7, <2>8 DEF Quiet
<1>5. ASSUME NEW w \in Units, WriteFile(w) PROVE Whole(u)'
  <2>1. /\ UNCHANGED part /\ last' = [last EXCEPT ![w] = Nr]
        /\ disk' = [disk EXCEPT !.files[w[2]] = TRUE, !.data[w] = Nr]
    BY <1>5 DEF WriteFile
  <2>2. disk'.cells = disk.cells /\ disk'.data = [disk.data EXCEPT ![w] = Nr]
    BY <2>1 DEF DiskObject
  <2>3. CASE u = w
    <3>1. last'[u] = disk'.data[u]
      BY <2>1, <2>2, <2>3 DEF DiskObject, Numbered
    <3> QED
      BY <3>1 DEF Whole
  <2>4. CASE u # w
    <3>1. last'[u] = last[u] /\ disk'.data[u] = disk.data[u] /\ SlotStays(u)
      BY <2>1, <2>2, <2>4 DEF SlotStays, DiskObject, Numbered
    <3> QED
      BY <1>1, <3>1, WholeStays
  <2> QED
    BY <2>3, <2>4
<1>6. CASE Begins
  <2>1. UNCHANGED <<part, last>> /\ disk'.cells = disk.cells /\ disk'.data = disk.data
    BY <1>6, BeginsIs
  <2>2. SlotStays(u)
    BY <2>1 DEF SlotStays
  <2> QED
    BY <1>1, <2>1, <2>2, WholeStays
<1>7. CASE Sets
  <2>1. /\ UNCHANGED last /\ disk'.cells = disk.cells /\ disk'.data = disk.data
        /\ part.open \in BOOLEAN /\ (part.open => part' = part)
    BY <1>7, SetsIs
  <2>2. SlotStays(u)
    BY <2>1 DEF SlotStays, OpenWhenUsed
  <2> QED
    BY <1>1, <2>1, <2>2, WholeStays
<1>8. CASE Stop \/ Crash
  <2>1. PICK to : Restarted(to)
    BY <1>8, StopIs, CrashIs
  <2>2. last' = [v \in Units |-> SeenIn(prio', use', part', disk', v)]
    BY <2>1, RestartIs DEF Restarted
  <2>3. last'[u] # 0 => FoundIn(prio', use', part', disk', u, last'[u])
    BY <2>2, LastIsNext, SeenFound
  <2> QED
    BY <2>3 DEF Whole, FoundIn
<1>9. CASE ExportEnds
  BY <1>3, <1>9, EndsIs
<1> QED
  BY <1>4, <1>5, <1>6, <1>7, <1>8, <1>9, StepIs

(* The units that resume data protect and that only the part file has.     *)
AtRisk(u) ==
    u[2] \notin broken /\ durable[u] # 0 /\ Uses(prio, use, u[2]) /\ ~ disk.files[u[2]]

Protected(u) ==
    /\ saved[u[2]] = 0
    /\ u[1] \in DOMAIN disk.header /\ u[1] \in DOMAIN part.map
    /\ disk.header[u[1]] = part.map[u[1]]

HeaderIsMap == part.open /\ ~ part.dirty => disk.header = part.map

LEMMA HeaderIs ==
    /\ HeaderProtects <=> HeaderIsMap /\ \A u \in Units : AtRisk(u) => Protected(u)
    /\ HeaderProtects' <=> HeaderIsMap' /\ \A u \in Units : AtRisk(u)' => Protected(u)'
  BY SeenInIs DEF HeaderProtects, HeaderIsMap, AtRisk, Protected

(* What resume data protect is somewhere.                                  *)
LEMMA PresentIs ==
    ASSUME Stored, SavedIsKept, NEW u \in Units, u[2] \notin broken, durable[u] # 0
    PROVE  last[u] \in 1 .. MaxWrites /\ Kept(u) /\ (Uses(prio, use, u[2]) \/ disk.files[u[2]])
<1> USE DEF Stored, Parted
<1>1. last[u] # 0
  BY DEF SavedIsKept, Numbered
<1>2. Kept(u)
  BY <1>1 DEF AllKept
<1>3. Uses(prio, use, u[2]) \/ disk.files[u[2]]
  BY <1>2 DEF Kept, Copied, FoundIn, OpenWhenUsed
<1> QED
  BY <1>1, <1>2, <1>3, LastIs

(* A step that protects no more than before puts no more at risk.          *)
LEMMA RiskIs ==
    ASSUME Stored, SavedIsKept, durable' = durable, broken \subseteq broken',
           \A f \in Files : disk.files[f] => disk'.files[f], NEW u \in Units, AtRisk(u)'
    PROVE  AtRisk(u)
<1>1. u[2] \notin broken /\ durable[u] # 0 /\ ~ disk.files[u[2]]
  BY UnitsAre DEF AtRisk
<1> QED
  BY <1>1, PresentIs DEF AtRisk

(* A header that needs not be written is the map.                          *)
LEMMA HeaderIsMapKept ==
    ASSUME Stored, Stored', ExistingAreUsed, HeaderIsMap, [Next]_vars
    PROVE  HeaderIsMap'
<1> USE DEF Stored, Parted
<1>1. ASSUME part' = part, disk'.header = disk.header PROVE HeaderIsMap'
  BY <1>1 DEF HeaderIsMap
<1>2. CASE UNCHANGED vars \/ FileFails \/ ExportSkip \/ OnFilePriority \/ ExportEnds
           \/ (\E f \in Files, n \in Priorities : SetFilePriority(f, n))
  BY <1>1, <1>2, EndsIs DEF vars, FileFails, ExportSkip, OnFilePriority, SetFilePriority, StorageUnchanged
<1>3. CASE (\E w \in Units : WriteFile(w) \/ WriteSlot(w) \/ WriteSlotFails(w)) \/ ExportCopy
  <2>1. part' = part /\ disk'.header = disk.header
    BY <1>3, WriteSlotFailsIs DEF WriteFile, WriteSlot, WriteSlotFails, ExportCopy, DiskObject
  <2> QED
    BY <1>1, <2>1
<1>4. ASSUME NEW w \in Units, TakeSlot(w) PROVE HeaderIsMap'
  <2>1. part' = part \/ part'.dirty
    <3>1. GoodPart(part) /\ w[1] \in Pieces
      BY UnitsAre DEF PartIs
    <3> QED
      BY <1>4, <3>1, AllocateIs DEF TakeSlot, WithSlot
  <2> QED
    BY <1>1, <1>4, <2>1 DEF TakeSlot, HeaderIsMap
<1>5. CASE ExportFree
  <2>1. part' = part \/ part'.dirty
    <3>1. GoodPart(part) /\ job.piece \in DOMAIN part.map
      BY <1>5 DEF PartIs, ExportFree, Running, JobTypes, HasUnit
    <3> QED
      BY <1>5, <3>1, FreedIs DEF ExportFree
  <2> QED
    BY <1>1, <1>5, <2>1 DEF ExportFree, HeaderIsMap
<1>6. CASE Tick \/ SaveResumeData \/ FlushPriorities
  <2>1. FlushMetadata(part.open) \/ UNCHANGED <<disk, part>>
    BY <1>6 DEF Tick, SaveResumeData, FlushPriorities
  <2>2. part.open \in BOOLEAN
    BY DEF PartIs, GoodPart
  <2>3. CASE FlushMetadata(part.open)
    BY <2>2, <2>3, FlushIs DEF HeaderIsMap
  <2> QED
    BY <1>1, <2>1, <2>3
<1>7. CASE Begins
  BY <1>1, <1>7, BeginsIs
<1>8. CASE Sets
  <2>1. /\ disk'.header = disk.header
        /\ part' = part \/ (part'.open /\ ~ part'.dirty /\ part'.map = disk.header)
    BY <1>8, SetsIs
  <2> QED
    BY <1>1, <2>1 DEF HeaderIsMap
<1>9. CASE Stop \/ Crash
  <2>1. PICK to : Restarted(to)
    BY <1>9, StopIs, CrashIs
  <2>2. part'.open => part'.map = disk'.header
    BY <2>1, RestartIs DEF Restarted
  <2> QED
    BY <2>2 DEF HeaderIsMap
<1> QED
  BY <1>2, <1>3, <1>4, <1>5, <1>6, <1>7, <1>8, <1>9, StepIs DEF Quiet

(* The header keeps the slots of the units at risk.                        *)
LEMMA ProtectedKept ==
    ASSUME Stored, Stored', Safe, [Next]_vars, NEW u \in Units, AtRisk(u)'
    PROVE  Protected(u)'
<1> USE DEF Stored, Parted
<1>1. /\ HeaderIsMap /\ ExistingAreUsed /\ PrioritiesAgree /\ SavedIsKept
      /\ AtRisk(u) => Protected(u)
  BY HeaderIs DEF Safe
<1>2. CASE Quiet /\ ~ SaveResumeData
  <2>1. UNCHANGED <<prio, use, broken>> /\ disk'.files = disk.files
    BY <1>2, QuietIs
  <2>2. saved' = saved /\ durable'[u] \in {durable[u], 0}
    <3>1. CASE \E w \in Units : WriteSlotFails(w)
      BY <3>1, WriteSlotFailsIs DEF WriteSlotFails, torrentVars
    <3>2. CASE ~ \E w \in Units : WriteSlotFails(w)
      BY <1>2, <3>2 DEF Quiet, vars, torrentVars, ghosts, TakeSlot, WriteSlot, SetFilePriority, StorageUnchanged,
                FileFails, ExportSkip, ExportCopy, ExportFree, FlushPriorities, OnlyJob, OnFilePriority, Tick
    <3> QED
      BY <3>1, <3>2
  <2>3. AtRisk(u) /\ Protected(u)
    BY <1>1, <2>1, <2>2 DEF AtRisk
  <2>4. CASE UNCHANGED vars \/ FileFails \/ ExportSkip \/ OnFilePriority
             \/ (\E f \in Files, n \in Priorities : SetFilePriority(f, n))
    <3>1. UNCHANGED <<disk, part>>
      BY <2>4 DEF vars, FileFails, ExportSkip, OnFilePriority, SetFilePriority, StorageUnchanged
    <3> QED
      BY <2>2, <2>3, <3>1 DEF Protected
  <2>5. CASE (\E w \in Units : WriteSlot(w) \/ WriteSlotFails(w)) \/ ExportCopy
    <3>1. part' = part /\ disk'.header = disk.header
      BY <2>5, WriteSlotFailsIs DEF WriteSlot, WriteSlotFails, ExportCopy, DiskObject
    <3> QED
      BY <2>2, <2>3, <3>1 DEF Protected
  <2>6. ASSUME NEW w \in Units, TakeSlot(w) PROVE Protected(u)'
    <3>1. disk' = disk /\ \A p \in DOMAIN part.map : p \in DOMAIN part'.map /\ part'.map[p] = part.map[p]
      BY <2>6, TakeSlotKeeps DEF TakeSlot
    <3> QED
      BY <2>2, <2>3, <3>1 DEF Protected
  <2>7. CASE ExportFree
    <3>1. /\ part' = IF WholeInFile(job.piece, job.file) THEN Freed(part, job.piece) ELSE part
          /\ disk' = disk /\ Exporting /\ HasUnit
      BY <2>7 DEF ExportFree, Running, Exporting, JobTypes
    <3>2. WholeInFile(job.piece, job.file) => u[1] # job.piece
      BY <2>3, <3>1 DEF WholeInFile, OpenWhenUsed, AtRisk
    <3>3. GoodPart(part) /\ job.piece \in DOMAIN part.map
      BY <3>1 DEF HasUnit, PartIs
    <3>4. u[1] \in DOMAIN part.map => u[1] \in DOMAIN part'.map /\ part'.map[u[1]] = part.map[u[1]]
      BY <3>1, <3>2, <3>3, FreedIs
    <3> QED
      BY <2>2, <2>3, <3>1, <3>4 DEF Protected
  <2>8. CASE Tick \/ FlushPriorities
    <3>1. part.open \in BOOLEAN
      BY DEF PartIs, GoodPart
    <3>2. FlushMetadata(part.open) \/ UNCHANGED <<disk, part>>
      BY <2>8 DEF Tick, FlushPriorities
    <3>3. part'.map = part.map /\ disk'.header \in {disk.header, part.map}
      BY <3>1, <3>2, FlushIs
    <3> QED
      BY <2>2, <2>3, <3>3 DEF Protected
  <2> QED
    BY <1>2, <2>4, <2>5, <2>6, <2>7, <2>8 DEF Quiet
<1>9. CASE SaveResumeData /\ UNCHANGED <<disk, part, durable>>
  <2>1. job.at = "idle" /\ saved' = priority /\ UNCHANGED <<prio, use, broken>>
    BY <1>9 DEF SaveResumeData
  <2>2. AtRisk(u) /\ Protected(u)
    BY <1>1, <1>9, <2>1 DEF AtRisk
  <2>3. priority[u[2]] = 0
    BY <1>1, <2>1, <2>2, UnitsAre DEF PrioritiesAgree, Changing, Exporting, Uses, AtRisk
  <2> QED
    BY <1>9, <2>1, <2>2, <2>3 DEF Protected
<1>3. CASE SaveResumeData /\ ~ UNCHANGED <<disk, part, durable>>
  <2>1. /\ job.at = "idle" /\ saved' = priority /\ UNCHANGED <<prio, use, last, broken>>
        /\ FlushMetadata(part.open) /\ durable' = last
    BY <1>3 DEF SaveResumeData
  <2>2. part.open \in BOOLEAN /\ ~ Exporting
    BY <2>1 DEF PartIs, GoodPart, Exporting
  <2>3. /\ part'.map = part.map /\ disk'.files = disk.files
        /\ part.open => disk'.header = part.map
    BY <1>1, <2>1, <2>2, FlushIs DEF HeaderIsMap
  <2>4. u[2] \notin broken /\ last[u] # 0 /\ Uses(prio, use, u[2])
    BY <2>1, <2>3 DEF AtRisk
  <2>5. part.open
    BY <2>4, SeenInIs, UnitsAre DEF OpenWhenUsed
  <2>6. u[1] \in DOMAIN part.map
    BY <2>2, <2>4 DEF AllKept, Kept, Copied, FoundIn
  <2>7. priority[u[2]] = 0
    BY <1>1, <2>1, <2>4, UnitsAre DEF PrioritiesAgree, Changing, Exporting, Uses
  <2> QED
    BY <2>1, <2>3, <2>5, <2>6, <2>7 DEF Protected
<1>4. ASSUME durable' = durable, broken \subseteq broken', \A f \in Files : disk.files[f] => disk'.files[f]
      PROVE  AtRisk(u) /\ Protected(u)
  BY <1>1, <1>4, RiskIs
<1>5. ASSUME NEW w \in Units, WriteFile(w) PROVE Protected(u)'
  <2>1. /\ UNCHANGED <<durable, broken, part, saved>> /\ w[2] \in Files
        /\ disk' = [disk EXCEPT !.files[w[2]] = TRUE, !.data[w] = Nr]
    BY <1>5, UnitsAre DEF WriteFile, torrentVars
  <2>2. disk'.header = disk.header /\ \A f \in Files : disk.files[f] => disk'.files[f]
    BY <2>1 DEF DiskObject
  <2> QED
    BY <1>4, <2>1, <2>2 DEF Protected
<1>6. CASE Begins
  <2>1. /\ UNCHANGED <<part, broken, torrentVars, durable>> /\ disk'.header = disk.header
        /\ \A g \in Files : disk.files[g] => disk'.files[g]
    BY <1>6, BeginsIs
  <2> QED
    BY <1>4, <2>1 DEF Protected, torrentVars
<1>7. CASE Sets
  <2>1. /\ \A g \in Files : disk.files[g] => disk'.files[g]
        /\ broken \subseteq broken' /\ disk'.header = disk.header
        /\ part.open => part' = part
        /\ UNCHANGED <<torrentVars, durable>>
    BY <1>1, <1>7, SetsIs
  <2>2. AtRisk(u) /\ Protected(u)
    BY <1>4, <2>1
  <2>3. part.open
    BY <2>2, SeenInIs, UnitsAre DEF OpenWhenUsed, AtRisk
  <2> QED
    BY <2>1, <2>2, <2>3 DEF Protected, torrentVars
<1>8. CASE Stop \/ Crash
  <2>1. PICK to : Restarted(to)
    BY <1>8, StopIs, CrashIs
  <2>2. broken \subseteq broken'
    BY <1>8, StopIs, CrashIs
  <2>3. /\ \A f \in Files : Uses(prio', use', f) <=> to[f] = 0 /\ ~ disk'.files[f]
        /\ \A f \in Files : Uses(prio', use', f) => part'.open
        /\ part'.open => part'.map = disk'.header
        /\ durable' = durable /\ saved' = to /\ disk'.files = disk.files
        /\ disk'.header = disk.header \/ disk'.header = part.map
    BY <2>1, RestartIs DEF Restarted
  <2>4. Protected(u)
    BY <1>4, <2>2, <2>3
  <2>5. u[2] \in Files /\ Uses(prio', use', u[2])
    BY UnitsAre DEF AtRisk
  <2> QED
    BY <2>3, <2>4, <2>5 DEF Protected
<1>10. CASE ExportEnds
  <2>1. UNCHANGED <<disk, part, durable, torrentVars>> /\ broken \subseteq broken'
    BY <1>10, EndsIs
  <2> QED
    BY <1>4, <2>1 DEF Protected, torrentVars
<1> QED
  BY <1>2, <1>3, <1>5, <1>6, <1>7, <1>8, <1>9, <1>10, StepIs

(* What a restart finds of what resume data protect.                       *)
LEMMA RestartFinds ==
    ASSUME Stored, Stored', Safe, Stop \/ Crash, NEW u \in Units, u[2] \notin broken', durable[u] # 0
    PROVE  durable' = durable /\ last'[u] = last[u]
<1> USE DEF Stored, Parted
<1>1. /\ ExistingAreUsed /\ PrioritiesAgree /\ SavedIsKept
      /\ AtRisk(u) => Protected(u)
  BY HeaderIs DEF Safe
<1>2. \E to : Restarted(to) /\ ((to = priority /\ job.at = "idle") \/ to = saved)
  BY StopIs, CrashIs
<1>3. PICK to : Restarted(to) /\ ((to = priority /\ job.at = "idle") \/ to = saved)
  BY <1>2
<1>4. u[2] \notin broken /\ ~ (Exporting /\ u[2] = job.file)
  BY StopIs, CrashIs DEF Exporting
<1>5. /\ \A f \in Files : Uses(prio', use', f) <=> to[f] = 0 /\ ~ disk'.files[f]
      /\ \A f \in Files : Uses(prio', use', f) => part'.open
      /\ part'.open => part'.map = disk'.header
      /\ disk'.files = disk.files /\ disk'.data = disk.data
      /\ disk'.header = disk.header \/ disk'.header = part.map
      /\ disk'.cells = disk.cells \/ DOMAIN part.map = {}
      /\ last' = [v \in Units |-> SeenIn(prio', use', part', disk', v)] /\ durable' = durable
  BY <1>3, RestartIs DEF Restarted
<1>6. last[u] \in 1 .. MaxWrites /\ Kept(u) /\ (Uses(prio, use, u[2]) \/ disk.files[u[2]])
  BY <1>1, <1>4, PresentIs
<1>7. FoundIn(prio, use, part, disk, u, last[u])
  BY <1>4, <1>6 DEF Kept, Copied
<1>8. FoundIn(prio', use', part', disk', u, last[u])
  <2>1. CASE disk.files[u[2]]
    <3>1. ~ Uses(prio, use, u[2])
      BY <1>1, <1>4, <2>1, SeenInIs, UnitsAre DEF ExistingAreUsed
    <3>2. ~ Uses(prio', use', u[2])
      BY <1>5, <2>1, UnitsAre
    <3> QED
      BY <1>5, <1>7, <3>1, <3>2 DEF FoundIn
  <2>2. CASE ~ disk.files[u[2]]
    <3>1. Uses(prio, use, u[2]) /\ Protected(u)
      BY <1>1, <1>4, <1>6, <2>2 DEF AtRisk
    <3>2. to[u[2]] = 0
      <4>1. job.at = "idle" /\ prio[u[2]] = 0 => priority[u[2]] = 0
        BY <1>1, <1>4, UnitsAre DEF PrioritiesAgree, Changing, Exporting
      <4> QED
        BY <1>3, <3>1, <4>1 DEF Protected, Uses
    <3>3. Uses(prio', use', u[2]) /\ part'.map = disk'.header
      BY <1>5, <2>2, <3>2, UnitsAre
    <3>4. u[1] \in DOMAIN part'.map /\ part'.map[u[1]] = part.map[u[1]] /\ disk'.cells = disk.cells
      BY <1>5, <3>1, <3>3 DEF Protected
    <3>5. Holds(disk.cells, part.map[u[1]], u, last[u])
      BY <1>7, <3>1 DEF FoundIn
    <3> QED
      BY <3>3, <3>4, <3>5 DEF FoundIn
  <2> QED
    BY <2>1, <2>2
<1>9. SeenIn(prio', use', part', disk', u) = last[u]
  BY <1>6, <1>8, SeenFound
<1> QED
  BY <1>5, <1>9

(* What was written when resume data was saved is not lost.                *)
LEMMA SavedKept ==
    ASSUME Stored, Stored', Safe, [Next]_vars
    PROVE  SavedIsKept'
<1> USE DEF Stored, Parted
<1>1. SavedIsKept /\ ExistingAreUsed
  BY DEF Safe
<1> SUFFICES ASSUME NEW u \in Units, u[2] \notin broken' PROVE last'[u] >= durable'[u]
  BY DEF SavedIsKept
<1>2. last[u] \in Nat /\ durable[u] \in Nat /\ last'[u] \in Nat /\ durable'[u] \in Nat
  BY DEF Numbered
<1>3. ASSUME UNCHANGED <<last, durable>>, broken \subseteq broken' PROVE last'[u] >= durable'[u]
  BY <1>1, <1>3 DEF SavedIsKept
<1>4. CASE UNCHANGED vars \/ FileFails \/ ExportSkip \/ ExportCopy \/ ExportFree \/ FlushPriorities
           \/ OnFilePriority \/ Tick
           \/ (\E w \in Units : TakeSlot(w)) \/ (\E f \in Files, n \in Priorities : SetFilePriority(f, n))
  <2>1. UNCHANGED <<last, durable, broken>>
    BY <1>4 DEF vars, ghosts, FileFails, ExportSkip, ExportCopy, ExportFree, FlushPriorities, OnlyJob,
                OnFilePriority, Tick, TakeSlot, SetFilePriority, StorageUnchanged
  <2> QED
    BY <1>3, <2>1
<1>5. CASE SaveResumeData
  BY <1>2, <1>3, <1>5 DEF SaveResumeData
<1>6. ASSUME NEW w \in Units, WriteFile(w) \/ WriteSlot(w) PROVE last'[u] >= durable'[u]
  <2>1. Spend("writes") /\ last' = [last EXCEPT ![w] = Nr] /\ UNCHANGED <<durable, broken>>
    BY <1>6 DEF WriteFile, WriteSlot
  <2>2. CASE u = w
    <3>1. durable[u] < Nr /\ Nr \in 1 .. MaxWrites
      BY <2>1, NrIs DEF Numbered
    <3>2. last'[u] = Nr
      BY <2>1, <2>2 DEF Numbered
    <3> QED
      BY <1>2, <2>1, <3>1, <3>2
  <2>3. CASE u # w
    <3>1. last'[u] = last[u]
      BY <2>1, <2>3 DEF Numbered
    <3> QED
      BY <1>1, <2>1, <3>1 DEF SavedIsKept
  <2> QED
    BY <2>2, <2>3
<1>7. CASE Begins
  BY <1>3, <1>7, BeginsIs
<1>8. CASE Sets
  BY <1>1, <1>3, <1>8, SetsIs
<1>9. CASE Stop \/ Crash
  <2>1. durable' = durable /\ broken \subseteq broken'
    <3>1. PICK to : Restarted(to)
      BY <1>9, StopIs, CrashIs
    <3>2. durable' = durable
      BY <3>1, RestartIs DEF Restarted
    <3> QED
      BY <1>9, <3>2, StopIs, CrashIs
  <2>2. CASE durable[u] = 0
    BY <1>2, <2>1, <2>2
  <2>3. CASE durable[u] # 0
    BY <1>1, <1>9, <2>1, <2>3, RestartFinds DEF SavedIsKept
  <2> QED
    BY <2>2, <2>3
<1>10. ASSUME NEW w \in Units, WriteSlotFails(w) PROVE last'[u] >= durable'[u]
  <2>1. broken' = broken
    BY <1>10 DEF WriteSlotFails
  <2>2. CASE u = w
    BY <1>10, <2>2, WriteSlotFailsIs
  <2>3. CASE u # w
    <3>1. last'[u] = last[u] /\ durable'[u] = durable[u]
      BY <1>10, <2>3, WriteSlotFailsIs
    <3> QED
      BY <1>1, <2>1, <3>1 DEF SavedIsKept
  <2> QED
    BY <2>2, <2>3
<1>11. CASE ExportEnds
  BY <1>3, <1>11, EndsIs
<1> QED
  BY <1>4, <1>5, <1>6, <1>7, <1>8, <1>9, <1>10, <1>11, StepIs DEF Quiet

-----------------------------------------------------------------------------
LEMMA InitSafe == Init => Safe
<1> SUFFICES ASSUME Init PROVE Safe
  OBVIOUS
<1>2. /\ \A f \in Files : ~ disk.files[f]
      /\ broken = {} /\ prio = priority /\ job.at = "idle" /\ disk.header = <<>>
      /\ last = [u \in Units |-> 0] /\ durable = last
  BY DEF Init, NoJob
<1>3. ExistingAreUsed /\ PrioritiesAgree
  BY <1>2 DEF ExistingAreUsed, PrioritiesAgree, Changing, Exporting
<1>4. HeaderProtects
  <2>1. part = Load(<<>>) \/ part = NoPartFile
    BY DEF Init
  <2>2. SlotMap(<<>>)
    BY EmptyIs DEF SlotMap
  <2>3. part.open => part.map = <<>>
    BY <2>1, <2>2, LoadIs DEF NoPartFile
  <2> QED
    BY <1>2, <2>3 DEF HeaderProtects
<1>5. NothingDestroyed /\ SavedIsKept
  BY <1>2 DEF NothingDestroyed, SavedIsKept
<1>6. InSlots
  BY <1>2 DEF InSlots
<1> QED
  BY <1>3, <1>4, <1>5, <1>6 DEF Safe

LEMMA SafeKept ==
    ASSUME Stored, Stored', Safe, [Next]_vars
    PROVE  Safe'
<1>1. ExistingAreUsed' /\ PrioritiesAgree' /\ InSlots' /\ NothingDestroyed'
  BY ExistingKept, AgreeKept, InSlotsKept, NothingKept DEF Safe
<1>2. HeaderProtects'
  <2>1. HeaderIsMap'
    BY HeaderIsMapKept, HeaderIs DEF Safe
  <2>2. \A u \in Units : AtRisk(u)' => Protected(u)'
    BY ProtectedKept
  <2> QED
    BY <2>1, <2>2, HeaderIs
<1>3. SavedIsKept'
  BY SavedKept
<1> QED
  BY <1>1, <1>2, <1>3 DEF Safe

(* The inductive invariant of the part file.                               *)
THEOREM PartFileInvariant == Spec => []IInv
<1>1. Init => Stored /\ Safe
  BY InitStored, InitSafe
<1>2. Stored /\ Safe /\ [Next]_vars => (Stored /\ Safe)'
  BY StoredKept, SafeKept
<1>3. Stored /\ Safe => IInv
  BY SlotInvIs, KeptIs DEF Stored, Parted, Safe, IInv
<1> QED
  BY <1>1, <1>2, <1>3, PTL DEF Spec

(* No order of writes, changes of priorities, exports that end early,      *)
(* flushes, disk errors, stops and crashes destroys what was written and   *)
(* not spoiled by a failed write: export_file frees or copies over no data *)
(* that is nowhere else.                                                   *)
THEOREM DataSurvives == Spec => []NothingDestroyed
<1>1. IInv => NothingDestroyed
  BY DEF IInv
<1> QED
  BY <1>1, PartFileInvariant, PTL

(* What was written when save_resume_data flushed the part file's header   *)
(* is found again after any number of disk errors and crashes, unless an   *)
(* export of its file was not completed.                                   *)
THEOREM ResumeDataProtect == Spec => []SavedIsKept
<1>1. IInv => SavedIsKept
  BY DEF IInv
<1> QED
  BY <1>1, PartFileInvariant, PTL
=============================================================================

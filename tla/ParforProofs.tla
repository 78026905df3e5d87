------------------------------ MODULE ParforProofs ------------------------------
(***************************************************************************)
(* Theorems about Parfor, for all arrays, bodies, ranges and numbers of    *)
(* threads.  The argument: Means(f, k, j) says that the arrays f hold, in  *)
(* every slot, the last write of the steps before the position (k, j) of   *)
(* the sequential order.  Merging the writes of an iteration moves it one  *)
(* iteration on (IterationFacts); a task keeps that its writes move it     *)
(* from where its chunk starts to where the task is (Task); the chunks     *)
(* follow each other (ChunkFacts), so the merge moves it from the start of *)
(* the loop to its end, where it is Meaning (MergedTasks, MeansEnd).  The  *)
(* steps of the sequential loop move it in the same way when no two of     *)
(* them touch one slot (ForStepMeans).                                     *)
(***************************************************************************)
EXTENDS Parfor, SequenceTheorems, FiniteSetTheorems, WellFoundedInduction, TLAPS
-----------------------------------------------------------------------------
(* Induction over the naturals, through least elements. *)
LEMMA LeastElement ==
  ASSUME NEW T \in SUBSET Nat, T # {}
  PROVE  \E m \in T : \A n \in T : m <= n
<1> DEFINE R == OpToRel(<, Nat)
<1>1. IsWellFoundedOn(R, Nat)
  BY NatLessThanWellFounded
<1>2. \A y, x \in Nat : y < x => <<y, x>> \in R
  BY DEF OpToRel
<1> HIDE DEF R
<1>3. PICK m \in T : \A y \in T : ~(<<y, m>> \in R)
  BY <1>1, WFMin
<1>4. \A n \in T : m <= n
  <2> TAKE n \in T
  <2>1. n \in Nat /\ m \in Nat
    OBVIOUS
  <2>2. ~(n < m)
    BY <1>2, <1>3, <2>1, Zenon
  <2> QED BY <2>1, <2>2
<1> QED BY <1>4

(* A set of naturals that holds 0 and each next number up to n. *)
LEMMA UpTo ==
  ASSUME NEW n \in Nat, NEW T, 0 \in T, \A k \in Nat : k < n /\ k \in T => k + 1 \in T
  PROVE  \A k \in 0..n : k \in T
<1> DEFINE bad == {k \in 0..n : k \notin T}
<1> SUFFICES ASSUME bad # {} PROVE FALSE
  OBVIOUS
<1>0. bad \in SUBSET Nat /\ bad # {}
  OBVIOUS
<1>1. PICK m \in bad : \A k \in bad : m <= k
  <2> HIDE DEF bad
  <2> QED BY <1>0, LeastElement
<1>2. m \in 0..n /\ m \notin T /\ m # 0
  OBVIOUS
<1>3. m - 1 \in Nat /\ m - 1 \in 0..n /\ m - 1 < n /\ (m - 1) + 1 = m /\ ~(m <= m - 1)
  BY <1>2
<1>4. m - 1 \in T
  BY <1>1, <1>3
<1> QED BY <1>2, <1>3, <1>4
-----------------------------------------------------------------------------
(* The pieces of a sequence of sequences, put together up to n: what the   *)
(* recursive function inside FlattenSeq is.                                *)
FlatStep(h, s, i) == IF i = 1 THEN s[i] ELSE h[i - 1] \o s[i]
Solves(h, s, n) == h = [i \in 1..n |-> FlatStep(h, s, i)]

LEMMA SolvesExists ==
  ASSUME NEW s, NEW n \in Nat
  PROVE  \E h : Solves(h, s, n)
<1> DEFINE T == {k \in Nat : \E h : Solves(h, s, k)}
<1>1. 0 \in T
  <2> DEFINE h == [i \in 1..0 |-> FlatStep(<<>>, s, i)]
  <2>1. h = [i \in 1..0 |-> FlatStep(h, s, i)]
    OBVIOUS
  <2> HIDE DEF h
  <2>2. Solves(h, s, 0)
    BY <2>1 DEF Solves
  <2> QED BY <2>2
<1>2. ASSUME NEW k \in Nat, k \in T PROVE k + 1 \in T
  <2>1. PICK h : Solves(h, s, k)
    BY <1>2
  <2> DEFINE e == [i \in 1..(k + 1) |-> IF i <= k THEN h[i] ELSE FlatStep(h, s, i)]
  <2>2. \A i \in 1..k : e[i] = h[i] /\ h[i] = FlatStep(h, s, i)
    <3>1. \A i \in 1..k : h[i] = FlatStep(h, s, i)
      BY <2>1 DEF Solves
    <3> QED BY <3>1
  <2>3. e[k + 1] = FlatStep(h, s, k + 1)
    OBVIOUS
  <2>4. DOMAIN e = 1..(k + 1) /\ e = [i \in 1..(k + 1) |-> e[i]]
    OBVIOUS
  <2> HIDE DEF e
  <2>5. ASSUME NEW i \in 1..(k + 1) PROVE e[i] = FlatStep(e, s, i)
    <3>1. i = 1 \/ (i - 1 \in 1..k)
      OBVIOUS
    <3>2. i = 1 \/ e[i - 1] = h[i - 1]
      BY <2>2, <3>1
    <3>3. FlatStep(e, s, i) = FlatStep(h, s, i)
      BY <3>2 DEF FlatStep
    <3>4. i \in 1..k \/ i = k + 1
      OBVIOUS
    <3> QED BY <2>2, <2>3, <3>3, <3>4
  <2>6. Solves(e, s, k + 1)
    BY <2>4, <2>5 DEF Solves
  <2> QED BY <2>6
<1> HIDE DEF T
<1>3. n \in T
  BY <1>1, <1>2, UpTo
<1> QED BY <1>3 DEF T

(* It only depends on the pieces below. *)
LEMMA SolvesSame ==
  ASSUME NEW s, NEW t, NEW e, NEW h, NEW m \in Nat, NEW n \in Nat, m <= n,
         Solves(e, s, m), Solves(h, t, n), \A i \in 1..m : s[i] = t[i]
  PROVE  \A i \in 1..m : e[i] = h[i]
<1> DEFINE T == {k \in Nat : k \in 1..m => e[k] = h[k]}
<1>1. 0 \in T
  OBVIOUS
<1>2. ASSUME NEW k \in Nat, k < m, k \in T PROVE k + 1 \in T
  <2>1. k + 1 \in 1..m /\ k + 1 \in 1..n /\ (k + 1) - 1 = k
    BY <1>2
  <2>2. e[k + 1] = FlatStep(e, s, k + 1)
    BY <2>1 DEF Solves
  <2>3. h[k + 1] = FlatStep(h, t, k + 1)
    BY <2>1 DEF Solves
  <2>4. k = 0 \/ e[k] = h[k]
    BY <1>2
  <2>5. FlatStep(e, s, k + 1) = FlatStep(h, t, k + 1)
    BY <2>1, <2>4 DEF FlatStep
  <2> QED BY <2>2, <2>3, <2>5
<1> HIDE DEF T
<1>3. \A k \in 0..m : k \in T
  BY <1>1, <1>2, UpTo
<1> QED BY <1>3 DEF T

LEMMA FlattenUnfold ==
  ASSUME NEW s, Len(s) \in Nat, Len(s) # 0
  PROVE  \E h : Solves(h, s, Len(s)) /\ FlattenSeq(s) = h[Len(s)]
<1> DEFINE h == CHOOSE h : h = [i \in 1..Len(s) |-> IF i = 1 THEN s[i] ELSE h[i - 1] \o s[i]]
<1>1. FlattenSeq(s) = h[Len(s)]
  BY Zenon DEF FlattenSeq
<1>2. \E k : k = [i \in 1..Len(s) |-> IF i = 1 THEN s[i] ELSE k[i - 1] \o s[i]]
  <2>1. PICK k : Solves(k, s, Len(s))
    BY SolvesExists
  <2>2. k = [i \in 1..Len(s) |-> IF i = 1 THEN s[i] ELSE k[i - 1] \o s[i]]
    BY <2>1, Zenon DEF Solves, FlatStep
  <2> QED BY <2>2
<1>3. h = [i \in 1..Len(s) |-> IF i = 1 THEN s[i] ELSE h[i - 1] \o s[i]]
  BY <1>2, Zenon
<1> HIDE DEF h
<1>4. Solves(h, s, Len(s))
  BY <1>3, Zenon DEF Solves, FlatStep
<1> QED BY <1>1, <1>4

(* The pieces up to k, put together. *)
Joined(F, k) == FlattenSeq([i \in 1..k |-> F[i]])

LEMMA JoinedLen ==
  ASSUME NEW F, NEW k \in Nat
  PROVE  Len([i \in 1..k |-> F[i]]) = k
OBVIOUS

LEMMA JoinedNone == ASSUME NEW F PROVE Joined(F, 0) = <<>>
<1>1. [i \in 1..0 |-> F[i]] = <<>>
  OBVIOUS
<1> QED BY <1>1, EmptySeq DEF Joined, FlattenSeq

LEMMA JoinedOne ==
  ASSUME NEW F
  PROVE  Joined(F, 1) = F[1]
<1> DEFINE s == [i \in 1..1 |-> F[i]]
<1>1. Len(s) = 1 /\ s[1] = F[1]
  OBVIOUS
<1> HIDE DEF s
<1>2. PICK h : Solves(h, s, 1) /\ FlattenSeq(s) = h[1]
  <2>0. Len(s) \in Nat /\ Len(s) # 0
    BY <1>1
  <2>1. \E h : Solves(h, s, Len(s)) /\ FlattenSeq(s) = h[Len(s)]
    BY <2>0, FlattenUnfold, Zenon
  <2> QED BY <1>1, <2>1
<1>3. h[1] = FlatStep(h, s, 1)
  BY <1>2 DEF Solves
<1>4. FlattenSeq(s) = F[1]
  BY <1>1, <1>2, <1>3 DEF FlatStep
<1> QED BY <1>4 DEF Joined, s

LEMMA JoinedMore ==
  ASSUME NEW F, NEW k \in Nat, k # 0
  PROVE  Joined(F, k + 1) = Joined(F, k) \o F[k + 1]
<1> DEFINE s == [i \in 1..k |-> F[i]]
<1> DEFINE t == [i \in 1..(k + 1) |-> F[i]]
<1>1. Len(s) = k /\ Len(t) = k + 1 /\ t[k + 1] = F[k + 1] /\ \A i \in 1..k : s[i] = t[i]
  OBVIOUS
<1> HIDE DEF s, t
<1>2. PICK e : Solves(e, s, k) /\ FlattenSeq(s) = e[k]
  BY <1>1, FlattenUnfold
<1>3. PICK h : Solves(h, t, k + 1) /\ FlattenSeq(t) = h[k + 1]
  BY <1>1, FlattenUnfold
<1>4. e[k] = h[k]
  BY <1>1, <1>2, <1>3, SolvesSame
<1>5. h[k + 1] = FlatStep(h, t, k + 1)
  BY <1>3 DEF Solves
<1>6. FlatStep(h, t, k + 1) = h[k] \o F[k + 1]
  <2>1. k + 1 # 1 /\ (k + 1) - 1 = k
    OBVIOUS
  <2> QED BY <1>1, <2>1, Zenon DEF FlatStep
<1>7. FlattenSeq(t) = FlattenSeq(s) \o F[k + 1]
  BY <1>2, <1>3, <1>4, <1>5, <1>6
<1> QED BY <1>7 DEF Joined, s, t

(* One more piece, and the type of the whole. *)
LEMMA JoinedNext ==
  ASSUME NEW T, NEW F, NEW n \in Nat, \A i \in 1..n : F[i] \in Seq(T)
  PROVE  /\ \A k \in 0..n : Joined(F, k) \in Seq(T)
         /\ \A k \in Nat : k < n => Joined(F, k + 1) = Joined(F, k) \o F[k + 1]
<1>1. ASSUME NEW k \in Nat, k < n PROVE Joined(F, k + 1) = Joined(F, k) \o F[k + 1]
  <2>1. CASE k = 0
    <3>1. Joined(F, k) = <<>> /\ Joined(F, k + 1) = F[1] /\ F[1] \in Seq(T)
      BY <1>1, <2>1, JoinedNone, JoinedOne
    <3> QED BY <2>1, <3>1, ConcatEmptySeq
  <2>2. CASE k # 0
    BY <2>2, JoinedMore
  <2> QED BY <2>1, <2>2
<1> DEFINE P == {k \in Nat : Joined(F, k) \in Seq(T)}
<1>2. 0 \in P
  BY JoinedNone, EmptySeq
<1>3. ASSUME NEW k \in Nat, k < n, k \in P PROVE k + 1 \in P
  <2>1. Joined(F, k) \in Seq(T) /\ F[k + 1] \in Seq(T) /\ k + 1 \in Nat
    BY <1>3
  <2> QED BY <1>1, <1>3, <2>1, ConcatProperties
<1> HIDE DEF P
<1>4. \A k \in 0..n : k \in P
  BY <1>2, <1>3, UpTo
<1> QED BY <1>1, <1>4 DEF P
-----------------------------------------------------------------------------

(* Quotients: what the closed form of the count and the chunks rest on. *)
LEMMA DivBounds ==
  ASSUME NEW a \in Nat, NEW b \in Nat, b # 0
  PROVE  /\ a \div b \in Nat
         /\ b * (a \div b) \in Nat
         /\ b * (a \div b) <= a
         /\ a < b * (a \div b) + b
OBVIOUS

LEMMA Monotone ==
  ASSUME NEW b \in Nat, NEW q \in Nat, NEW k \in Nat, q <= k
  PROVE  b * q <= b * k
OBVIOUS

LEMMA DivLargest ==
  ASSUME NEW a \in Nat, NEW b \in Nat, b # 0, NEW k \in Nat
  PROVE  b * k <= a <=> k <= a \div b
<1> DEFINE q == a \div b
<1>1. q \in Nat /\ b * q \in Nat /\ b * q <= a /\ a < b * q + b
  BY DivBounds
<1> HIDE DEF q
<1>2. b * (q + 1) = b * q + b /\ b * k \in Nat
  BY <1>1
<1>3. CASE k <= q
  <2>1. b * k <= b * q
    BY <1>1, <1>3, Monotone
  <2> QED BY <1>1, <1>2, <1>3, <2>1 DEF q
<1>4. CASE q + 1 <= k
  <2>1. b * (q + 1) <= b * k
    BY <1>1, <1>4, Monotone
  <2> QED BY <1>1, <1>2, <1>4, <2>1 DEF q
<1> QED BY <1>1, <1>3, <1>4

LEMMA RangeFacts ==
  ASSUME NEW r \in Ranges
  PROVE  /\ r.start \in Int /\ r.end \in Int /\ r.step \in Int /\ MaxIndex \in Nat
         /\ r.end - r.start <= 2 * MaxIndex /\ r.start - r.end <= 2 * MaxIndex
BY ParforAssumption DEF Indexes

(* The multiples that lie inside the range are the first ones, as many as  *)
(* the closed form says.                                                   *)
LEMMA InsideFacts ==
  ASSUME NEW r \in Ranges, r.step # 0
  PROVE  /\ Count(r) \in Nat
         /\ {k \in 0..(2 * MaxIndex) : IF r.step > 0 THEN r.start + k * r.step < r.end
                                      ELSE r.start + k * r.step > r.end} = 0..(Count(r) - 1)
<1> DEFINE inside == {k \in 0..(2 * MaxIndex) : IF r.step > 0 THEN r.start + k * r.step < r.end
                                               ELSE r.start + k * r.step > r.end}
<1> DEFINE b == IF r.step > 0 THEN r.step ELSE -r.step
<1> DEFINE d == IF r.step > 0 THEN r.end - r.start ELSE r.start - r.end
<1>1. b \in Nat /\ b # 0 /\ d \in Int /\ d <= 2 * MaxIndex /\ MaxIndex \in Nat
  BY RangeFacts
<1>2. Count(r) = IF d <= 0 THEN 0 ELSE (d - 1) \div b + 1
  <2>1. CASE r.step > 0
    BY <2>1, RangeFacts DEF Count
  <2>2. CASE ~(r.step > 0)
    BY <2>2, RangeFacts DEF Count
  <2> QED BY <2>1, <2>2
<1>3. ASSUME NEW k \in Nat
      PROVE  (IF r.step > 0 THEN r.start + k * r.step < r.end
              ELSE r.start + k * r.step > r.end) <=> b * k < d
  <2>1. CASE r.step > 0
    <3>1. k * r.step = b * k
      BY <2>1, RangeFacts
    <3> QED BY <2>1, <3>1, RangeFacts
  <2>2. CASE ~(r.step > 0)
    <3>1. k * r.step = -(b * k) /\ b * k \in Int
      BY <2>2, RangeFacts
    <3> HIDE DEF b
    <3>2. r.start \in Int /\ r.end \in Int /\ d = r.start - r.end
      BY <2>2, RangeFacts
    <3>3. r.start + k * r.step > r.end <=> b * k < d
      BY <3>1, <3>2
    <3> QED BY <2>2, <3>3
  <2> QED BY <2>1, <2>2
<1> HIDE DEF b, d
<1>4. inside = {k \in 0..(2 * MaxIndex) : b * k < d}
  BY <1>1, <1>3
<1> HIDE DEF inside
<1>5. CASE d <= 0
  <2>1. Count(r) = 0
    BY <1>2, <1>5
  <2>2. ASSUME NEW k \in Nat, b * k < d PROVE FALSE
    <3>1. b * k \in Nat
      BY <1>1
    <3> QED BY <1>1, <1>5, <2>2, <3>1
  <2>3. inside = {} /\ 0..(Count(r) - 1) = {}
    BY <1>1, <1>4, <2>1, <2>2
  <2> QED BY <2>1, <2>3 DEF inside
<1>6. CASE d > 0
  <2> DEFINE q == (d - 1) \div b
  <2>1. d - 1 \in Nat /\ q \in Nat /\ Count(r) = q + 1
    BY <1>1, <1>2, <1>6, DivBounds
  <2>2. \A k \in Nat : b * k <= d - 1 <=> k <= q
    BY <1>1, <2>1, DivLargest
  <2>3. q <= d - 1
    <3>1. b * q \in Nat /\ b * q <= d - 1
      BY <1>1, <2>1, DivBounds
    <3> HIDE DEF q
    <3>2. q * 1 <= q * b
      BY <1>1, <2>1, Monotone
    <3>3. q * 1 = q /\ q * b = b * q
      BY <1>1, <2>1
    <3> QED BY <1>1, <2>1, <3>1, <3>2, <3>3
  <2> HIDE DEF q
  <2>4. \A k \in Nat : b * k < d <=> k <= q
    <3> TAKE k \in Nat
    <3>1. b * k \in Nat
      BY <1>1
    <3>2. b * k < d <=> b * k <= d - 1
      BY <1>1, <3>1
    <3> QED BY <2>2, <3>2
  <2>5. inside = {k \in 0..(2 * MaxIndex) : k <= q}
    BY <1>1, <1>4, <2>4
  <2>6. inside = 0..q
    BY <1>1, <2>1, <2>3, <2>5
  <2>7. 0..(Count(r) - 1) = 0..q /\ Count(r) \in Nat
    BY <2>1
  <2> QED BY <2>6, <2>7 DEF inside
<1> QED BY <1>1, <1>5, <1>6

(* The indices: how many, and which. *)
LEMMA IndexFacts ==
  ASSUME NEW r \in Ranges, r.step # 0
  PROVE  /\ Indices(r) \in Seq(Int)
         /\ Len(Indices(r)) = Count(r)
         /\ Count(r) \in Nat
<1> DEFINE inside == {k \in 0..(2 * MaxIndex) : IF r.step > 0 THEN r.start + k * r.step < r.end
                                               ELSE r.start + k * r.step > r.end}
<1>1. Count(r) \in Nat /\ inside = 0..(Count(r) - 1)
  BY InsideFacts
<1> HIDE DEF inside
<1>2. Cardinality(inside) = Count(r)
  <2>1. Cardinality(0..(Count(r) - 1)) = IF 0 <= Count(r) - 1 THEN (Count(r) - 1) - 0 + 1 ELSE 0
    BY <1>1, FS_Interval
  <2> QED BY <1>1, <2>1
<1>3. Indices(r) = [k \in 1..Count(r) |-> r.start + (k - 1) * r.step]
  BY <1>2 DEF Indices, inside
<1>4. \A k \in 1..Count(r) : r.start + (k - 1) * r.step \in Int
  BY <1>1, RangeFacts
<1> QED BY <1>1, <1>3, <1>4
-----------------------------------------------------------------------------
(* The chunks are consecutive: chunk c starts after Offset(s, c) indices.  *)
Offset(s, c) == ChunkLen(Len(s)) * (c - 1)

Finish(s, c) == IF c < Len(Chunks(s)) THEN Offset(s, c + 1) ELSE Len(s)

LEMMA ChunkLenFacts ==
  ASSUME NEW n \in Nat
  PROVE  ChunkLen(n) \in Nat /\ ChunkLen(n) # 0
<1>1. NumThreads \in Nat /\ NumThreads # 0
  BY ParforAssumption
<1>2. ASSUME NEW m \in Nat PROVE m \div NumThreads \in Nat
  BY <1>1, DivBounds
<1> QED BY <1>2 DEF ChunkLen

LEMMA ChunkCount ==
  ASSUME NEW n \in Nat, NEW len \in Nat, len # 0
  PROVE  /\ NumChunks(n, len) \in Nat
         /\ \A c \in 1..NumChunks(n, len) : len * (c - 1) \in Nat /\ len * (c - 1) < n
         /\ n <= len * NumChunks(n, len) /\ len * NumChunks(n, len) \in Nat
         /\ n = 0 => NumChunks(n, len) = 0
<1> DEFINE q == NumChunks(n, len)
<1>1. n + len - 1 \in Nat
  OBVIOUS
<1>2. q \in Nat /\ len * q \in Nat /\ len * q <= n + len - 1 /\ n + len - 1 < len * q + len
  <2>1. q = (n + len - 1) \div len
    BY DEF NumChunks
  <2> HIDE DEF q
  <2> QED BY <1>1, <2>1, DivBounds
<1> HIDE DEF q
<1>3. ASSUME NEW c \in 1..q PROVE len * (c - 1) \in Nat /\ len * (c - 1) < n
  <2>1. len * (c - 1) <= len * (q - 1)
    BY <1>2, Monotone
  <2>2. len * (q - 1) = len * q - len /\ len * (c - 1) \in Nat
    BY <1>2
  <2> QED BY <1>2, <2>1, <2>2
<1>4. n = 0 => q = 0
  <2> SUFFICES ASSUME n = 0, q # 0 PROVE FALSE
    OBVIOUS
  <2>1. q \in 1..q
    BY <1>2
  <2>2. len * (q - 1) \in Nat /\ len * (q - 1) < n
    BY <1>3, <2>1
  <2> QED BY <2>2
<1> QED BY <1>2, <1>3, <1>4 DEF q

LEMMA PieceFacts ==
  ASSUME NEW s \in Seq(Int), NEW o \in Nat, NEW z \in Nat, o < z, z <= Len(s)
  PROVE  /\ SubSeq(s, o + 1, z) \in Seq(Int)
         /\ Len(SubSeq(s, o + 1, z)) = z - o
         /\ \A p \in 1..Len(SubSeq(s, o + 1, z)) : SubSeq(s, o + 1, z)[p] = s[o + p]
<1>1. \A i \in (o + 1)..z : s[i] \in Int
  OBVIOUS
<1>2. /\ SubSeq(s, o + 1, z) \in Seq(Int)
      /\ Len(SubSeq(s, o + 1, z)) = z - (o + 1) + 1
      /\ \A p \in 1..(z - (o + 1) + 1) : SubSeq(s, o + 1, z)[p] = s[(o + 1) + p - 1]
  BY <1>1, SubSeqProperties
<1>3. z - (o + 1) + 1 = z - o /\ \A p \in Int : (o + 1) + p - 1 = o + p
  OBVIOUS
<1> QED BY <1>2, <1>3

LEMMA ChunkFacts ==
  ASSUME NEW s \in Seq(Int)
  PROVE  /\ Chunks(s) \in Seq(Seq(Int))
         /\ Offset(s, 1) = 0
         /\ Len(s) = 0 => Len(Chunks(s)) = 0
         /\ Len(s) # 0 => Len(Chunks(s)) # 0
         /\ \A c \in 1..Len(Chunks(s)) :
              /\ Offset(s, c) \in Nat /\ Finish(s, c) \in Nat
              /\ Offset(s, c) < Finish(s, c) /\ Finish(s, c) <= Len(s)
              /\ Len(Chunks(s)[c]) = Finish(s, c) - Offset(s, c)
              /\ \A p \in 1..Len(Chunks(s)[c]) : Chunks(s)[c][p] = s[Offset(s, c) + p]
<1> DEFINE n == Len(s)
<1> DEFINE len == ChunkLen(n)
<1> DEFINE q == NumChunks(n, len)
<1>1. n \in Nat /\ len \in Nat /\ len # 0
  BY ChunkLenFacts
<1>2. /\ q \in Nat
      /\ \A c \in 1..q : len * (c - 1) \in Nat /\ len * (c - 1) < n
      /\ n <= len * q /\ len * q \in Nat
      /\ n = 0 => q = 0
  <2> HIDE DEF n, len
  <2> QED BY <1>1, ChunkCount
<1> DEFINE piece(c) == SubSeq(s, (c - 1) * len + 1, IF c * len <= n THEN c * len ELSE n)
<1>3. Chunks(s) = [c \in 1..q |-> piece(c)]
  BY DEF Chunks
<1>4. \A c : Offset(s, c) = len * (c - 1)
  BY DEF Offset
<1> HIDE DEF len, q
<1>5. ASSUME NEW c \in 1..q
      PROVE  /\ Offset(s, c) \in Nat /\ Offset(s, c) < n
             /\ (c - 1) * len = Offset(s, c) /\ c * len = Offset(s, c) + len
             /\ c < q => Offset(s, c + 1) = Offset(s, c) + len /\ Offset(s, c + 1) < n
             /\ c = q => n <= Offset(s, c) + len
  <2>1. len * (c - 1) = (c - 1) * len /\ c * len = len * (c - 1) + len
        /\ len * ((c + 1) - 1) = len * (c - 1) + len
    BY <1>1
  <2>2. len * (c - 1) \in Nat /\ len * (c - 1) < n
    BY <1>2
  <2>3. c < q => len * ((c + 1) - 1) < n
    <3>1. c < q => c + 1 \in 1..q
      BY <1>2
    <3> QED BY <1>2, <3>1
  <2>4. c = q => n <= len * (c - 1) + len
    <3>1. len * c = len * (c - 1) + len
      BY <1>1
    <3> QED BY <1>2, <3>1
  <2> QED BY <1>4, <2>1, <2>2, <2>3, <2>4
<1>6. Len(Chunks(s)) = q /\ DOMAIN Chunks(s) = 1..q
  BY <1>2, <1>3
<1>7. ASSUME NEW c \in 1..q
      PROVE  /\ Offset(s, c) \in Nat /\ Finish(s, c) \in Nat
             /\ Offset(s, c) < Finish(s, c) /\ Finish(s, c) <= n
             /\ piece(c) = SubSeq(s, Offset(s, c) + 1, Finish(s, c))
  <2> DEFINE o == Offset(s, c)
  <2>1. /\ o \in Nat /\ o < n
        /\ (c - 1) * len = o /\ c * len = o + len
        /\ c < q => Offset(s, c + 1) = o + len /\ Offset(s, c + 1) < n
        /\ c = q => n <= o + len
    BY <1>5
  <2>2. Finish(s, c) = IF c < q THEN Offset(s, c + 1) ELSE n
    BY <1>6 DEF Finish
  <2> HIDE DEF o, n
  <2>3. c < q \/ c = q
    BY <1>2
  <2>4. Finish(s, c) = IF c * len <= n THEN c * len ELSE n
    BY <1>1, <2>1, <2>2, <2>3
  <2>5. Finish(s, c) \in Nat /\ o < Finish(s, c) /\ Finish(s, c) <= n
    BY <1>1, <2>1, <2>4
  <2> QED BY <2>1, <2>4, <2>5 DEF o
<1>8. ASSUME NEW c \in 1..q
      PROVE  /\ piece(c) \in Seq(Int)
             /\ Len(piece(c)) = Finish(s, c) - Offset(s, c)
             /\ \A p \in 1..Len(piece(c)) : piece(c)[p] = s[Offset(s, c) + p]
  <2>1. /\ Offset(s, c) \in Nat /\ Finish(s, c) \in Nat /\ Offset(s, c) < Finish(s, c)
        /\ Finish(s, c) <= Len(s)
        /\ piece(c) = SubSeq(s, Offset(s, c) + 1, Finish(s, c))
    BY <1>7
  <2>2. PICK w : w = SubSeq(s, Offset(s, c) + 1, Finish(s, c))
    OBVIOUS
  <2>3. /\ w \in Seq(Int)
        /\ Len(w) = Finish(s, c) - Offset(s, c)
        /\ \A p \in 1..Len(w) : w[p] = s[Offset(s, c) + p]
    BY <2>1, <2>2, PieceFacts
  <2>4. piece(c) = w
    BY <2>1, <2>2
  <2> QED BY <2>3, <2>4
<1>9. \A c \in 1..q : Chunks(s)[c] = piece(c)
  BY <1>3
<1> HIDE DEF piece
<1>10. Chunks(s) \in Seq(Seq(Int))
  <2>1. \A c \in 1..q : piece(c) \in Seq(Int)
    BY <1>8
  <2> QED BY <1>2, <1>3, <2>1
<1>11. Offset(s, 1) = 0 /\ (n = 0 => q = 0) /\ (n # 0 => q # 0)
  BY <1>1, <1>2, <1>4
<1> QED BY <1>6, <1>7, <1>8, <1>9, <1>10, <1>11

(* Where a chunk ends the next one starts, and each index is in one.       *)
LEMMA ChunkCover ==
  ASSUME NEW s \in Seq(Int), NEW k \in 1..Len(s)
  PROVE  \E c \in 1..Len(Chunks(s)) : \E p \in 1..Len(Chunks(s)[c]) : k = Offset(s, c) + p
<1> DEFINE q == Len(Chunks(s))
<1> DEFINE T == {c \in Nat : c \in 1..q /\ k <= Finish(s, c)}
<1>1. q \in Nat /\ q # 0 /\ k \in Nat
  BY ChunkFacts
<1>2. q \in T
  BY <1>1 DEF Finish
<1>3. T \in SUBSET Nat /\ T # {}
  BY <1>2
<1>4. PICK c \in T : \A d \in T : c <= d
  <2> HIDE DEF T
  <2> QED BY <1>3, LeastElement
<1>5. c \in 1..q /\ k <= Finish(s, c)
  BY <1>4
<1>6. Offset(s, c) \in Nat /\ Finish(s, c) \in Nat /\ Len(Chunks(s)[c]) = Finish(s, c) - Offset(s, c)
  BY <1>5, ChunkFacts
<1>7. Offset(s, c) < k
  <2>1. CASE c = 1
    BY <1>1, <2>1, ChunkFacts
  <2>2. CASE c # 1
    <3>1. c - 1 \in 1..q /\ c - 1 < q /\ (c - 1) + 1 = c /\ ~(c <= c - 1) /\ c - 1 \in Nat
      BY <1>1, <1>5, <2>2
    <3>2. Finish(s, c - 1) = Offset(s, c)
      BY <3>1 DEF Finish
    <3>3. ~(k <= Finish(s, c - 1))
      BY <1>4, <3>1
    <3> QED BY <1>1, <1>6, <3>2, <3>3
  <2> QED BY <2>1, <2>2
<1>8. k - Offset(s, c) \in 1..Len(Chunks(s)[c]) /\ k = Offset(s, c) + (k - Offset(s, c))
  BY <1>1, <1>5, <1>6, <1>7
<1> QED BY <1>5, <1>8
-----------------------------------------------------------------------------
(* Stores: values of the arrays.  Writes: what the tasks compute.          *)
Stores == {f \in [Arrays -> Seq(Int)] : \A a \in Arrays : Len(f[a]) = Len(Initial[a])}

Writes == [arr : Arrays, slot : Nat, val : Int]

LEMMA InitialStore == Initial \in Stores
BY ParforAssumption DEF Stores

LEMMA StoreEqual ==
  ASSUME NEW f \in Stores, NEW g \in Stores,
         \A a \in Arrays : \A n \in 1..Len(Initial[a]) : f[a][n] = g[a][n]
  PROVE  f = g
<1>1. ASSUME NEW a \in Arrays PROVE f[a] = g[a]
  <2>1. f[a] \in Seq(Int) /\ g[a] \in Seq(Int) /\ Len(f[a]) = Len(Initial[a])
        /\ Len(g[a]) = Len(Initial[a])
    BY DEF Stores
  <2>2. \A n \in 1..Len(f[a]) : f[a][n] = g[a][n]
    BY <2>1
  <2> QED BY <2>1, <2>2, SeqEqual
<1>2. f \in [Arrays -> Seq(Int)] /\ g \in [Arrays -> Seq(Int)]
  BY DEF Stores
<1> QED BY <1>1, <1>2

(* Setting a slot, in bounds or not. *)
LEMMA SetFacts ==
  ASSUME NEW f \in Stores, NEW arr \in Arrays, NEW slot \in Nat, NEW val \in Int,
         NEW g, g = [f EXCEPT ![arr][slot + 1] = val]
  PROVE  /\ g \in Stores
         /\ \A a \in Arrays : \A n \in 1..Len(Initial[a]) :
              g[a][n] = IF a = arr /\ n = slot + 1 THEN val ELSE f[a][n]
<1>1. f \in [Arrays -> Seq(Int)] /\ \A a \in Arrays : f[a] \in Seq(Int) /\ Len(f[a]) = Len(Initial[a])
  BY DEF Stores
<1>2. PICK s : s = [f[arr] EXCEPT ![slot + 1] = val]
  OBVIOUS
<1>3. s \in Seq(Int) /\ Len(s) = Len(f[arr])
      /\ \A n \in 1..Len(f[arr]) : s[n] = IF n = slot + 1 THEN val ELSE f[arr][n]
  <2>1. f[arr] \in Seq(Int) /\ f[arr] \in [1..Len(f[arr]) -> Int] /\ Len(f[arr]) \in Nat
    BY <1>1
  <2>2. s \in [1..Len(f[arr]) -> Int]
    BY <1>2, <2>1
  <2>3. s \in Seq(Int) /\ Len(s) = Len(f[arr])
    BY <2>1, <2>2
  <2> QED BY <1>2, <2>1, <2>3
<1>5. g = [f EXCEPT ![arr] = s]
  BY <1>2
<1>6. g \in [Arrays -> Seq(Int)] /\ \A a \in Arrays : g[a] = IF a = arr THEN s ELSE f[a]
  BY <1>1, <1>3, <1>5
<1>7. \A a \in Arrays : Len(g[a]) = Len(Initial[a])
  BY <1>1, <1>3, <1>6
<1>8. \A a \in Arrays : \A n \in 1..Len(Initial[a]) :
        g[a][n] = IF a = arr /\ n = slot + 1 THEN val ELSE f[a][n]
  <2> TAKE a \in Arrays
  <2> TAKE n \in 1..Len(Initial[a])
  <2>1. CASE a = arr
    <3>1. n \in 1..Len(f[arr]) /\ g[a] = s
      BY <1>1, <1>6, <2>1
    <3> QED BY <1>3, <2>1, <3>1
  <2>2. CASE a # arr
    BY <1>6, <2>2
  <2> QED BY <2>1, <2>2
<1> QED BY <1>6, <1>7, <1>8 DEF Stores

LEMMA ApplyFacts ==
  ASSUME NEW f \in Stores, NEW w \in Writes
  PROVE  /\ Apply(f, w) \in Stores
         /\ \A a \in Arrays : \A n \in 1..Len(Initial[a]) :
              Apply(f, w)[a][n] = IF a = w.arr /\ n = w.slot + 1 THEN w.val ELSE f[a][n]
<1>1. w.arr \in Arrays /\ w.slot \in Nat /\ w.val \in Int
  BY DEF Writes
<1> QED BY <1>1, SetFacts DEF Apply
-----------------------------------------------------------------------------
(* The recursive function inside Merged. *)
Merging(h, f, ws, n) == h = [k \in 0..n |-> IF k = 0 THEN f ELSE Apply(h[k - 1], ws[k])]

LEMMA MergingExists ==
  ASSUME NEW f, NEW ws, NEW n \in Nat
  PROVE  \E h : Merging(h, f, ws, n)
<1> DEFINE T == {k \in Nat : \E h : Merging(h, f, ws, k)}
<1>1. 0 \in T
  <2> DEFINE h == [k \in 0..0 |-> f]
  <2>1. h = [k \in 0..0 |-> IF k = 0 THEN f ELSE Apply(h[k - 1], ws[k])]
    OBVIOUS
  <2> HIDE DEF h
  <2> QED BY <2>1 DEF Merging
<1>2. ASSUME NEW k \in Nat, k < n, k \in T PROVE k + 1 \in T
  <2>1. PICK h : Merging(h, f, ws, k)
    BY <1>2
  <2>2. h = [i \in 0..k |-> IF i = 0 THEN f ELSE Apply(h[i - 1], ws[i])]
    BY <2>1 DEF Merging
  <2>3. PICK g : g = [i \in 0..(k + 1) |-> IF i <= k THEN h[i] ELSE Apply(h[k], ws[k + 1])]
    OBVIOUS
  <2>4. \A i \in 0..k : g[i] = h[i] /\ h[i] = (IF i = 0 THEN f ELSE Apply(h[i - 1], ws[i]))
    BY <2>2, <2>3
  <2>5. g[k + 1] = Apply(h[k], ws[k + 1])
    BY <2>3
  <2>6. ASSUME NEW i \in 0..(k + 1) PROVE g[i] = IF i = 0 THEN f ELSE Apply(g[i - 1], ws[i])
    <3>1. CASE i = 0
      BY <2>4, <3>1
    <3>2. CASE i \in 1..k
      <4>1. i - 1 \in 0..k /\ i \in 0..k /\ i # 0
        BY <3>2
      <4> QED BY <2>4, <4>1
    <3>3. CASE i = k + 1
      <4>1. i - 1 = k /\ k \in 0..k /\ i # 0
        BY <3>3
      <4> QED BY <2>4, <2>5, <3>3, <4>1
    <3> QED BY <3>1, <3>2, <3>3
  <2>7. g = [i \in 0..(k + 1) |-> g[i]]
    BY <2>3
  <2>8. g = [i \in 0..(k + 1) |-> IF i = 0 THEN f ELSE Apply(g[i - 1], ws[i])]
    BY <2>6, <2>7
  <2> QED BY <2>8 DEF Merging
<1> HIDE DEF T
<1>3. n \in T
  BY <1>1, <1>2, UpTo
<1> QED BY <1>3 DEF T

LEMMA MergingSame ==
  ASSUME NEW f, NEW ws, NEW vs, NEW g, NEW h, NEW m \in Nat, NEW n \in Nat, m <= n,
         Merging(g, f, ws, m), Merging(h, f, vs, n), \A i \in 1..m : ws[i] = vs[i]
  PROVE  \A i \in 0..m : g[i] = h[i]
<1> DEFINE T == {k \in Nat : k \in 0..m => g[k] = h[k]}
<1>1. 0 \in T
  <2>1. g[0] = f /\ h[0] = f
    BY DEF Merging
  <2> QED BY <2>1
<1>2. ASSUME NEW k \in Nat, k < m, k \in T PROVE k + 1 \in T
  <2>1. k + 1 \in 1..m /\ k + 1 \in 0..m /\ k + 1 \in 0..n /\ (k + 1) - 1 = k /\ k + 1 # 0
    BY <1>2
  <2>2. g[k + 1] = Apply(g[k], ws[k + 1])
    BY <2>1 DEF Merging
  <2>3. h[k + 1] = Apply(h[k], vs[k + 1])
    BY <2>1 DEF Merging
  <2>4. g[k] = h[k]
    BY <1>2
  <2> QED BY <2>1, <2>2, <2>3, <2>4
<1> HIDE DEF T
<1>3. \A k \in 0..m : k \in T
  BY <1>1, <1>2, UpTo
<1> QED BY <1>3 DEF T

LEMMA MergedUnfold ==
  ASSUME NEW f, NEW ws, Len(ws) \in Nat
  PROVE  \E h : Merging(h, f, ws, Len(ws)) /\ Merged(f, ws) = h[Len(ws)]
<1> DEFINE h == CHOOSE h : h = [k \in 0..Len(ws) |-> IF k = 0 THEN f ELSE Apply(h[k - 1], ws[k])]
<1>1. Merged(f, ws) = h[Len(ws)]
  BY Zenon DEF Merged
<1>2. \E k : k = [i \in 0..Len(ws) |-> IF i = 0 THEN f ELSE Apply(k[i - 1], ws[i])]
  <2>1. PICK k : Merging(k, f, ws, Len(ws))
    BY MergingExists
  <2> QED BY <2>1, Zenon DEF Merging
<1>3. h = [k \in 0..Len(ws) |-> IF k = 0 THEN f ELSE Apply(h[k - 1], ws[k])]
  BY <1>2, Zenon
<1> HIDE DEF h
<1>4. Merging(h, f, ws, Len(ws))
  BY <1>3, Zenon DEF Merging
<1> QED BY <1>1, <1>4

LEMMA MergedNone == ASSUME NEW f PROVE Merged(f, <<>>) = f
<1>1. Len(<<>>) = 0
  OBVIOUS
<1>2. PICK h : Merging(h, f, <<>>, 0) /\ Merged(f, <<>>) = h[0]
  BY <1>1, MergedUnfold
<1> QED BY <1>2 DEF Merging

LEMMA MergedAppend ==
  ASSUME NEW f, NEW ws \in Seq(Writes), NEW w \in Writes
  PROVE  Merged(f, Append(ws, w)) = Apply(Merged(f, ws), w)
<1>1. PICK n \in Nat : n = Len(ws)
  OBVIOUS
<1>2. PICK vs : vs = Append(ws, w)
  OBVIOUS
<1>3. Len(vs) = n + 1 /\ vs[n + 1] = w /\ \A i \in 1..n : ws[i] = vs[i]
  BY <1>1, <1>2
<1>4. PICK g : Merging(g, f, ws, n) /\ Merged(f, ws) = g[n]
  BY <1>1, MergedUnfold
<1>5. PICK h : Merging(h, f, vs, n + 1) /\ Merged(f, vs) = h[n + 1]
  BY <1>3, MergedUnfold
<1>6. g[n] = h[n]
  <2>1. \A i \in 0..n : g[i] = h[i]
    BY <1>3, <1>4, <1>5, MergingSame
  <2> QED BY <2>1
<1>7. h[n + 1] = Apply(h[n], vs[n + 1])
  <2>1. n + 1 \in 0..(n + 1) /\ n + 1 # 0 /\ (n + 1) - 1 = n
    OBVIOUS
  <2> QED BY <1>5, <2>1 DEF Merging
<1> QED BY <1>2, <1>3, <1>4, <1>5, <1>6, <1>7

LEMMA MergedStore ==
  ASSUME NEW f \in Stores, NEW ws \in Seq(Writes)
  PROVE  Merged(f, ws) \in Stores
<1>1. PICK n \in Nat : n = Len(ws)
  OBVIOUS
<1>2. PICK h : Merging(h, f, ws, n) /\ Merged(f, ws) = h[n]
  BY <1>1, MergedUnfold
<1> DEFINE T == {k \in Nat : h[k] \in Stores}
<1>3. 0 \in T
  BY <1>2 DEF Merging
<1>4. ASSUME NEW k \in Nat, k < n, k \in T PROVE k + 1 \in T
  <2>1. k + 1 \in 0..n /\ k + 1 # 0 /\ (k + 1) - 1 = k /\ k + 1 \in 1..Len(ws)
    BY <1>1, <1>4
  <2>2. h[k + 1] = Apply(h[k], ws[k + 1])
    BY <1>2, <2>1 DEF Merging
  <2>3. h[k] \in Stores /\ ws[k + 1] \in Writes
    BY <1>4, <2>1
  <2> QED BY <2>2, <2>3, ApplyFacts
<1> HIDE DEF T
<1>5. \A k \in 0..n : k \in T
  BY <1>3, <1>4, UpTo
<1>6. n \in T
  BY <1>5
<1> QED BY <1>2, <1>6 DEF T

LEMMA MergedOne ==
  ASSUME NEW f, NEW w \in Writes
  PROVE  Merged(f, <<w>>) = Apply(f, w)
<1>1. <<w>> = Append(<<>>, w) /\ <<>> \in Seq(Writes)
  OBVIOUS
<1> QED BY <1>1, MergedAppend, MergedNone

LEMMA MergedConcat ==
  ASSUME NEW f, NEW ws \in Seq(Writes), NEW vs \in Seq(Writes)
  PROVE  Merged(f, ws \o vs) = Merged(Merged(f, ws), vs)
<1> DEFINE T == {k \in Nat : Merged(f, ws \o SubSeq(vs, 1, k)) = Merged(Merged(f, ws), SubSeq(vs, 1, k))}
<1>1. 0 \in T
  <2>1. SubSeq(vs, 1, 0) = <<>> /\ ws \o <<>> = ws
    BY SubSeqEmpty, ConcatEmptySeq
  <2> QED BY <2>1, MergedNone
<1>2. ASSUME NEW k \in Nat, k < Len(vs), k \in T PROVE k + 1 \in T
  <2>1. PICK x : x = SubSeq(vs, 1, k)
    OBVIOUS
  <2>2. x \in Seq(Writes) /\ vs[k + 1] \in Writes
    <3>1. \A i \in 1..k : vs[i] \in Writes
      BY <1>2
    <3> QED BY <1>2, <2>1, <3>1, SubSeqProperties
  <2>3. SubSeq(vs, 1, k + 1) = Append(x, vs[k + 1])
    BY <1>2, <2>1
  <2>4. ws \o Append(x, vs[k + 1]) = Append(ws \o x, vs[k + 1]) /\ ws \o x \in Seq(Writes)
    BY <2>2
  <2>5. Merged(f, ws \o x) = Merged(Merged(f, ws), x)
    BY <1>2, <2>1
  <2>6. Merged(f, Append(ws \o x, vs[k + 1])) = Apply(Merged(f, ws \o x), vs[k + 1])
    BY <2>2, <2>4, MergedAppend
  <2>7. PICK g : g = Merged(f, ws)
    OBVIOUS
  <2>8. Merged(g, Append(x, vs[k + 1])) = Apply(Merged(g, x), vs[k + 1])
    BY <2>2, MergedAppend
  <2>9. Merged(f, Append(ws \o x, vs[k + 1])) = Merged(g, Append(x, vs[k + 1]))
    BY <2>5, <2>6, <2>7, <2>8
  <2>10. k + 1 \in Nat
    OBVIOUS
  <2> QED BY <2>3, <2>4, <2>7, <2>9, <2>10
<1> HIDE DEF T
<1>3. PICK n \in Nat : n = Len(vs)
  OBVIOUS
<1>4. \A k \in 0..n : k \in T
  BY <1>1, <1>2, <1>3, UpTo
<1>5. Len(vs) \in T
  BY <1>3, <1>4
<1>6. SubSeq(vs, 1, Len(vs)) = vs
  OBVIOUS
<1> QED BY <1>5, <1>6 DEF T
-----------------------------------------------------------------------------
(* A loop past the checks that refuse one. *)
Runs ==
  /\ body \in Bodies /\ range \in Ranges /\ range.step # 0
  /\ Targets(body) \subseteq Arrays

LEMMA BodyFacts ==
  ASSUME Runs
  PROVE  /\ body \in Seq(Steps) /\ Len(body) \in Nat
         /\ Indices(range) \in Seq(Int) /\ Len(Indices(range)) \in Nat
         /\ \A k \in 1..Len(Indices(range)) : Indices(range)[k] \in Int
         /\ \A j \in 1..Len(body) :
              /\ body[j].at.arr \in STRING /\ body[j].from.arr \in STRING
              /\ Assigns(body[j]) => body[j].at.arr \in Arrays
              /\ \A i \in Int : Slot(body[j].at, i) \in Int /\ Slot(body[j].from, i) \in Int
<1>1. body \in Seq(Steps) /\ Indices(range) \in Seq(Int)
  BY ParforAssumption, IndexFacts DEF Runs
<1>2. ASSUME NEW j \in 1..Len(body)
      PROVE  /\ body[j].at.arr \in STRING /\ body[j].from.arr \in STRING
             /\ Assigns(body[j]) => body[j].at.arr \in Arrays
             /\ \A i \in Int : Slot(body[j].at, i) \in Int /\ Slot(body[j].from, i) \in Int
  <2>1. body[j] \in Steps
    BY <1>1
  <2>2. body[j].at \in Refs /\ body[j].from \in Refs
    BY <2>1 DEF Steps
  <2>3. \A r \in Refs : r.arr \in STRING /\ r.mul \in Int /\ r.add \in Int
    BY DEF Refs
  <2>4. \A r \in Refs : \A i \in Int : Slot(r, i) \in Int
    BY <2>3 DEF Slot
  <2>5. Assigns(body[j]) => body[j].at.arr \in Targets(body)
    BY DEF Targets
  <2> QED BY <2>2, <2>3, <2>4, <2>5 DEF Runs
<1>3. Len(body) \in Nat /\ Len(Indices(range)) \in Nat
      /\ \A k \in 1..Len(Indices(range)) : Indices(range)[k] \in Int
  BY <1>1
<1> QED BY <1>1, <1>2, <1>3

LEMMA InitialSlot ==
  ASSUME NEW a \in Arrays, NEW n \in 0..(Len(Initial[a]) - 1)
  PROVE  Initial[a][n + 1] \in Int /\ n + 1 \in 1..Len(Initial[a])
<1>1. Initial[a] \in Seq(Int) /\ Len(Initial[a]) \in Nat
  BY ParforAssumption
<1>2. n + 1 \in 1..Len(Initial[a])
  BY <1>1
<1> QED BY <1>1, <1>2

(* What a step that does not fail reads is an integer. *)
LEMMA ReadFacts ==
  ASSUME NEW r, NEW i, CanRead(r, i), Slot(r, i) \in Int
  PROVE  /\ r.arr \in Arrays /\ ReadSlot(r, i) + 1 \in 1..Len(Initial[r.arr])
         /\ At(Initial, r, i) \in Int
<1>1. r.arr \in Arrays /\ ReadSlot(r, i) \in 0..(Len(Initial[r.arr]) - 1)
  BY DEF CanRead
<1> QED BY <1>1, InitialSlot DEF At

LEMMA WriteFacts ==
  ASSUME Runs, NEW j \in 1..Len(body), NEW i \in Int, Assigns(body[j]), ~Fails(body[j], i)
  PROVE  /\ WriteOf(body[j], i) \in Writes
         /\ WriteOf(body[j], i).arr = body[j].at.arr
         /\ WriteOf(body[j], i).slot = Slot(body[j].at, i)
<1> DEFINE s == body[j]
<1>1. s.at.arr \in Arrays /\ Slot(s.at, i) \in Nat /\ Slot(s.from, i) \in Int
  <2>1. s.at.arr \in Arrays /\ Slot(s.at, i) \in Int /\ Slot(s.from, i) \in Int
    BY BodyFacts
  <2>2. ~(Slot(s.at, i) < 0)
    BY DEF Fails
  <2>3. \A x \in Int : ~(x < 0) => x \in Nat
    OBVIOUS
  <2> QED BY <2>1, <2>2, <2>3
<1>2. Value(Initial, s, i) \in Int
  <2>1. CASE s.from = Nothing
    BY <2>1 DEF Value
  <2>2. CASE s.from # Nothing
    <3>1. CanRead(s.from, i)
      BY <2>2 DEF Fails
    <3>2. At(Initial, s.from, i) \in Int
      BY <1>1, <3>1, ReadFacts
    <3> QED BY <2>2, <3>2 DEF Value
  <2> QED BY <2>1, <2>2
<1>3. s.kind = "add" => At(Initial, s.at, i) \in Int
  <2> SUFFICES ASSUME s.kind = "add" PROVE At(Initial, s.at, i) \in Int
    OBVIOUS
  <2>1. InBounds(s.at, i)
    BY DEF Fails
  <2>2. CanRead(s.at, i)
    BY <1>1, <2>1 DEF InBounds, CanRead, ReadSlot
  <2> QED BY <1>1, <2>2, ReadFacts
<1> DEFINE v == IF s.kind = "add" THEN At(Initial, s.at, i) + Value(Initial, s, i) ELSE Value(Initial, s, i)
<1>4. v \in Int
  BY <1>2, <1>3
<1>5. WriteOf(s, i) = [arr |-> s.at.arr, slot |-> Slot(s.at, i), val |-> v]
  BY DEF WriteOf
<1> HIDE DEF s, v
<1> QED BY <1>1, <1>4, <1>5 DEF Writes, s
-----------------------------------------------------------------------------
(* The meaning of the loop, up to a position of Order: k iterations before *)
(* and j steps of the next one.  A slot holds the last write to it.        *)
Reached(p, k, j) == p[1] < k \/ (p[1] = k /\ p[2] <= j)

Wrote(p) == WriteOf(body[p[2]], Indices(range)[p[1]])

Untouched(a, n, k, j) == \A p \in Order : Reached(p, k, j) => ~Hits(p, a, n - 1)

LastHit(p, a, n, k, j) ==
  /\ p \in Order /\ Reached(p, k, j) /\ Hits(p, a, n - 1)
  /\ \A q \in Order : Reached(q, k, j) /\ Hits(q, a, n - 1) => p = q \/ Later(p, q)

SlotMeans(v, a, n, k, j) ==
  \/ v = Initial[a][n] /\ Untouched(a, n, k, j)
  \/ \E p : LastHit(p, a, n, k, j) /\ v = Wrote(p).val

Means(f, k, j) ==
  f \in Stores /\ \A a \in Arrays : \A n \in 1..Len(Initial[a]) : SlotMeans(f[a][n], a, n, k, j)

LEMMA OrderFacts ==
  ASSUME Runs
  PROVE  /\ \A p \in Order : /\ p[1] \in 1..Len(Indices(range)) /\ p[2] \in 1..Len(body)
                             /\ p = <<p[1], p[2]>> /\ p[1] \in Nat /\ p[2] \in Nat
         /\ \A k \in 1..Len(Indices(range)), j \in 1..Len(body) : <<k, j>> \in Order
<1>1. Len(Indices(range)) \in Nat /\ Len(body) \in Nat
  BY BodyFacts
<1>2. ASSUME NEW p \in Order
      PROVE  /\ p[1] \in 1..Len(Indices(range)) /\ p[2] \in 1..Len(body)
             /\ p = <<p[1], p[2]>> /\ p[1] \in Nat /\ p[2] \in Nat
  <2>1. PICK k \in 1..Len(Indices(range)), j \in 1..Len(body) : p = <<k, j>>
    BY DEF Order
  <2>2. k \in Nat /\ j \in Nat
    BY <1>1
  <2> QED BY <2>1, <2>2
<1>3. \A k \in 1..Len(Indices(range)), j \in 1..Len(body) : <<k, j>> \in Order
  BY DEF Order
<1> QED BY <1>2, <1>3

LEMMA MeansStart == ASSUME Runs PROVE Means(Initial, 1, 0)
<1>1. ASSUME NEW a \in Arrays, NEW n \in 1..Len(Initial[a]) PROVE Untouched(a, n, 1, 0)
  <2>1. \A p \in Order : ~Reached(p, 1, 0)
    BY OrderFacts DEF Reached
  <2> QED BY <2>1 DEF Untouched
<1> QED BY <1>1, InitialStore DEF Means, SlotMeans

(* The two ways to name the same position. *)
LEMMA MeansNext ==
  ASSUME Runs, NEW f, NEW k \in Nat
  PROVE  Means(f, k, Len(body)) <=> Means(f, k + 1, 0)
<1>1. \A p \in Order : Reached(p, k, Len(body)) <=> Reached(p, k + 1, 0)
  BY OrderFacts DEF Reached
<1>2. \A a, n : Untouched(a, n, k, Len(body)) <=> Untouched(a, n, k + 1, 0)
  BY <1>1 DEF Untouched
<1>3. \A p, a, n : LastHit(p, a, n, k, Len(body)) <=> LastHit(p, a, n, k + 1, 0)
  BY <1>1 DEF LastHit
<1>4. \A v, a, n : SlotMeans(v, a, n, k, Len(body)) <=> SlotMeans(v, a, n, k + 1, 0)
  BY <1>2, <1>3 DEF SlotMeans
<1> QED BY <1>4 DEF Means

(* One more position is reached. *)
LEMMA ReachedMore ==
  ASSUME Runs, NEW k \in 1..Len(Indices(range)), NEW j \in Nat, NEW p \in Order
  PROVE  /\ Reached(p, k, j + 1) <=> Reached(p, k, j) \/ p = <<k, j + 1>>
         /\ Reached(p, k, j) => Later(<<k, j + 1>>, p) /\ p # <<k, j + 1>>
<1>1. p[1] \in Nat /\ p[2] \in Nat /\ p = <<p[1], p[2]>> /\ k \in Nat
  BY OrderFacts
<1>2. PICK x \in Nat, y \in Nat : p = <<x, y>>
  BY <1>1
<1>3. p[1] = x /\ p[2] = y
  BY <1>2
<1>4. p = <<k, j + 1>> <=> x = k /\ y = j + 1
  BY <1>2
<1>5. Later(<<k, j + 1>>, p) <=> k > x \/ (k = x /\ j + 1 > y)
  BY <1>3 DEF Later
<1>6. Reached(p, k, j + 1) <=> x < k \/ (x = k /\ y <= j + 1)
  BY <1>3 DEF Reached
<1>7. Reached(p, k, j) <=> x < k \/ (x = k /\ y <= j)
  BY <1>3 DEF Reached
<1>8. (x < k \/ (x = k /\ y <= j + 1)) <=> ((x < k \/ (x = k /\ y <= j)) \/ (x = k /\ y = j + 1))
  BY <1>1
<1>9. (x < k \/ (x = k /\ y <= j)) => (k > x \/ (k = x /\ j + 1 > y)) /\ ~(x = k /\ y = j + 1)
  BY <1>1
<1> QED BY <1>4, <1>5, <1>6, <1>7, <1>8, <1>9

LEMMA SlotStep ==
  ASSUME Runs, NEW k \in 1..Len(Indices(range)), NEW j \in Nat, j + 1 \in 1..Len(body),
         NEW v, NEW a, NEW n, SlotMeans(v, a, n, k, j)
  PROVE  /\ ~Hits(<<k, j + 1>>, a, n - 1) => SlotMeans(v, a, n, k, j + 1)
         /\ Hits(<<k, j + 1>>, a, n - 1) => SlotMeans(Wrote(<<k, j + 1>>).val, a, n, k, j + 1)
<1>1. PICK e : e = <<k, j + 1>>
  OBVIOUS
<1>2. e \in Order
  BY <1>1, OrderFacts
<1>3. \A p \in Order : /\ Reached(p, k, j + 1) <=> Reached(p, k, j) \/ p = e
                       /\ Reached(p, k, j) => Later(e, p)
  BY <1>1, ReachedMore
<1>4. ASSUME ~Hits(e, a, n - 1) PROVE SlotMeans(v, a, n, k, j + 1)
  <2>1. Untouched(a, n, k, j) => Untouched(a, n, k, j + 1)
    BY <1>3, <1>4 DEF Untouched
  <2>2. ASSUME NEW p, LastHit(p, a, n, k, j) PROVE LastHit(p, a, n, k, j + 1)
    BY <1>3, <1>4, <2>2 DEF LastHit
  <2> QED BY <2>1, <2>2 DEF SlotMeans
<1>5. ASSUME Hits(e, a, n - 1) PROVE SlotMeans(Wrote(e).val, a, n, k, j + 1)
  <2>1. LastHit(e, a, n, k, j + 1)
    BY <1>2, <1>3, <1>5 DEF LastHit
  <2> QED BY <2>1 DEF SlotMeans
<1> QED BY <1>1, <1>4, <1>5

LEMMA MeansSkip ==
  ASSUME Runs, NEW k \in 1..Len(Indices(range)), NEW j \in Nat, j + 1 \in 1..Len(body),
         NEW f, Means(f, k, j), ~Assigns(body[j + 1])
  PROVE  Means(f, k, j + 1)
<1>1. ASSUME NEW a \in Arrays, NEW n \in 1..Len(Initial[a]) PROVE SlotMeans(f[a][n], a, n, k, j + 1)
  <2>1. ~Hits(<<k, j + 1>>, a, n - 1)
    BY DEF Hits
  <2>2. SlotMeans(f[a][n], a, n, k, j)
    BY DEF Means
  <2> QED BY <2>1, <2>2, SlotStep
<1> QED BY <1>1 DEF Means

LEMMA MeansWrite ==
  ASSUME Runs, NEW k \in 1..Len(Indices(range)), NEW j \in Nat, j + 1 \in 1..Len(body),
         NEW f, Means(f, k, j), Assigns(body[j + 1]), ~Fails(body[j + 1], Indices(range)[k])
  PROVE  Means(Apply(f, WriteOf(body[j + 1], Indices(range)[k])), k, j + 1)
<1>1. PICK i : i = Indices(range)[k]
  OBVIOUS
<1>2. i \in Int
  BY <1>1, BodyFacts
<1>3. PICK w : w = WriteOf(body[j + 1], i)
  OBVIOUS
<1>4. w \in Writes /\ w.arr = body[j + 1].at.arr /\ w.slot = Slot(body[j + 1].at, i)
  BY <1>1, <1>2, <1>3, WriteFacts
<1>5. Wrote(<<k, j + 1>>) = w
  BY <1>1, <1>3 DEF Wrote
<1>6. f \in Stores
  BY DEF Means
<1>7. PICK g : g = Apply(f, w)
  OBVIOUS
<1>8. g \in Stores /\ \A a \in Arrays : \A n \in 1..Len(Initial[a]) :
        g[a][n] = IF a = w.arr /\ n = w.slot + 1 THEN w.val ELSE f[a][n]
  BY <1>4, <1>6, <1>7, ApplyFacts
<1>9. ASSUME NEW a \in Arrays, NEW n \in 1..Len(Initial[a]) PROVE SlotMeans(g[a][n], a, n, k, j + 1)
  <2>1. SlotMeans(f[a][n], a, n, k, j)
    BY DEF Means
  <2>2. Hits(<<k, j + 1>>, a, n - 1) <=> w.arr = a /\ w.slot = n - 1
    BY <1>1, <1>4 DEF Hits
  <2>3. w.slot = n - 1 <=> n = w.slot + 1
    <3>1. w.slot \in Nat /\ n \in Int
      BY <1>4 DEF Writes
    <3> QED BY <3>1
  <2>4. g[a][n] = IF a = w.arr /\ n = w.slot + 1 THEN w.val ELSE f[a][n]
    BY <1>8
  <2>5. CASE Hits(<<k, j + 1>>, a, n - 1)
    <3>1. g[a][n] = w.val
      BY <2>2, <2>3, <2>4, <2>5
    <3> QED BY <1>5, <2>1, <2>5, <3>1, SlotStep
  <2>6. CASE ~Hits(<<k, j + 1>>, a, n - 1)
    <3>1. g[a][n] = f[a][n]
      BY <2>2, <2>3, <2>4, <2>6
    <3> QED BY <2>1, <2>6, <3>1, SlotStep
  <2> QED BY <2>5, <2>6
<1>10. Means(g, k, j + 1)
  BY <1>8, <1>9 DEF Means
<1> QED BY <1>1, <1>3, <1>7, <1>10

(* After the last index it is Meaning. *)
LEMMA MeansEnd ==
  ASSUME Runs, NEW f, Means(f, Len(Indices(range)) + 1, 0)
  PROVE  f = Meaning
<1> DEFINE N == Len(Indices(range)) + 1
<1>1. \A p \in Order : Reached(p, N, 0)
  BY OrderFacts, BodyFacts DEF Reached
<1> HIDE DEF N
<1>2. f \in Stores /\ \A a \in Arrays : \A n \in 1..Len(Initial[a]) : SlotMeans(f[a][n], a, n, N, 0)
  BY DEF Means, N
<1>3. ASSUME NEW a \in Arrays, NEW n \in 1..Len(Initial[a])
      PROVE  f[a][n] = Meaning[a][n]
  <2> DEFINE ps == {p \in Order : Hits(p, a, n - 1)}
  <2> DEFINE last == CHOOSE p \in ps : \A q \in ps : p = q \/ Later(p, q)
  <2>1. Meaning[a][n] = IF ps = {} THEN Initial[a][n]
                        ELSE WriteOf(body[last[2]], Indices(range)[last[1]]).val
    BY DEF Meaning
  <2>2. CASE f[a][n] = Initial[a][n] /\ Untouched(a, n, N, 0)
    <3>1. ps = {}
      BY <1>1, <2>2 DEF Untouched
    <3> QED BY <2>1, <2>2, <3>1
  <2>3. CASE \E p : LastHit(p, a, n, N, 0) /\ f[a][n] = Wrote(p).val
    <3>1. PICK p : LastHit(p, a, n, N, 0) /\ f[a][n] = Wrote(p).val
      BY <2>3
    <3>2. p \in ps /\ \A q \in ps : p = q \/ Later(p, q)
      BY <1>1, <3>1 DEF LastHit
    <3>3. last \in ps /\ \A q \in ps : last = q \/ Later(last, q)
      <4> HIDE DEF ps
      <4> QED BY <3>2
    <3>4. last = p
      <4> HIDE DEF last
      <4>1. p \in Order /\ last \in Order
        BY <3>2, <3>3
      <4>2. p[1] \in Nat /\ p[2] \in Nat /\ last[1] \in Nat /\ last[2] \in Nat
        BY <4>1, OrderFacts
      <4>3. ~(Later(p, last) /\ Later(last, p))
        BY <4>2 DEF Later
      <4>4. (p = last \/ Later(p, last)) /\ (last = p \/ Later(last, p))
        BY <3>2, <3>3
      <4> QED BY <4>3, <4>4
    <3>5. ps # {}
      BY <3>2
    <3> QED BY <2>1, <3>1, <3>4, <3>5 DEF Wrote
  <2>4. SlotMeans(f[a][n], a, n, N, 0)
    BY <1>2
  <2> QED BY <2>2, <2>3, <2>4 DEF SlotMeans
<1>4. f \in [Arrays -> Seq(Int)] /\ \A a \in Arrays : Len(f[a]) = Len(Initial[a])
  BY <1>2 DEF Stores
<1>5. ASSUME NEW a \in Arrays PROVE f[a] = Meaning[a]
  <2>1. f[a] \in Seq(Int) /\ Len(f[a]) = Len(Initial[a]) /\ Len(f[a]) \in Nat
    BY <1>4
  <2>2. f[a] = [n \in 1..Len(Initial[a]) |-> f[a][n]]
    BY <2>1
  <2>3. PICK m : m = Meaning[a]
    OBVIOUS
  <2>4. m = [n \in 1..Len(Initial[a]) |-> m[n]]
    BY <2>3 DEF Meaning
  <2>5. \A n \in 1..Len(Initial[a]) : f[a][n] = m[n]
    BY <1>3, <2>3
  <2> QED BY <2>2, <2>3, <2>4, <2>5
<1>6. Meaning = [a \in Arrays |-> Meaning[a]]
  BY DEF Meaning
<1>7. f = [a \in Arrays |-> f[a]]
  BY <1>4
<1> QED BY <1>5, <1>6, <1>7
-----------------------------------------------------------------------------
Assigning == {j \in 1..Len(body) : Assigns(body[j])}

LEMMA ToSetFacts ==
  ASSUME NEW T
  PROVE  /\ ToSet(<<>>) = {}
         /\ \A w : ToSet(<<w>>) = {w}
         /\ \A s \in Seq(T), t \in Seq(T) : ToSet(s \o t) = ToSet(s) \cup ToSet(t)
         /\ \A s \in Seq(T) : ToSet(s) = {s[i] : i \in 1..Len(s)}
<1>1. ToSet(<<>>) = {} /\ \A w : ToSet(<<w>>) = {w}
  BY DEF ToSet
<1>2. \A s \in Seq(T) : ToSet(s) = {s[i] : i \in 1..Len(s)}
  BY DEF ToSet
<1>3. ASSUME NEW s \in Seq(T), NEW t \in Seq(T) PROVE ToSet(s \o t) = ToSet(s) \cup ToSet(t)
  <2>1. PICK u : u = s \o t
    OBVIOUS
  <2>2. /\ u \in Seq(T) /\ Len(u) = Len(s) + Len(t) /\ Len(s) \in Nat /\ Len(t) \in Nat
        /\ \A i \in 1..Len(s) : u[i] = s[i]
        /\ \A i \in 1..Len(t) : u[Len(s) + i] = t[i]
    BY <2>1
  <2>3. ToSet(u) = {u[i] : i \in 1..Len(u)} /\ ToSet(s) = {s[i] : i \in 1..Len(s)}
        /\ ToSet(t) = {t[i] : i \in 1..Len(t)}
    BY <1>2, <2>2
  <2>4. \A x \in ToSet(u) : x \in ToSet(s) \/ x \in ToSet(t)
    <3> TAKE x \in ToSet(u)
    <3>1. PICK i \in 1..Len(u) : x = u[i]
      BY <2>3
    <3>2. CASE i <= Len(s)
      BY <2>2, <2>3, <3>1, <3>2
    <3>3. CASE i > Len(s)
      <4>1. i - Len(s) \in 1..Len(t) /\ Len(s) + (i - Len(s)) = i
        BY <2>2, <3>3
      <4> QED BY <2>2, <2>3, <3>1, <4>1
    <3> QED BY <2>2, <3>2, <3>3
  <2>5. \A x \in ToSet(s) : x \in ToSet(u)
    BY <2>2, <2>3
  <2>6. \A x \in ToSet(t) : x \in ToSet(u)
    <3> TAKE x \in ToSet(t)
    <3>1. PICK i \in 1..Len(t) : x = t[i]
      BY <2>3
    <3>2. Len(s) + i \in 1..Len(u) /\ u[Len(s) + i] = x
      BY <2>2, <3>1
    <3> QED BY <2>3, <3>2
  <2> QED BY <2>1, <2>4, <2>5, <2>6
<1> QED BY <1>1, <1>2, <1>3

(* The writes of an iteration: which they are, and what merging them does. *)
LEMMA IterationFacts ==
  ASSUME Runs, NEW k \in 1..Len(Indices(range)),
         \A j \in 1..Len(body) : ~Fails(body[j], Indices(range)[k])
  PROVE  /\ IterationWrites(Indices(range)[k]) \in Seq(Writes)
         /\ ToSet(IterationWrites(Indices(range)[k]))
              = {WriteOf(body[j], Indices(range)[k]) : j \in Assigning}
         /\ \A f : Means(f, k, 0) => Means(Merged(f, IterationWrites(Indices(range)[k])), k + 1, 0)
<1>0. \A s \in Seq(Writes), t \in Seq(Writes) : ToSet(s \o t) = ToSet(s) \cup ToSet(t)
  BY ToSetFacts
<1>1. PICK i : i = Indices(range)[k]
  OBVIOUS
<1>2. PICK n \in Nat : n = Len(body)
  BY BodyFacts
<1>3. i \in Int
  BY <1>1, BodyFacts
<1>4. PICK F : F = [j \in 1..n |-> StepWrites(body[j], i)]
  OBVIOUS
<1>5. ASSUME NEW j \in 1..n, Assigns(body[j])
      PROVE  F[j] = <<WriteOf(body[j], i)>> /\ WriteOf(body[j], i) \in Writes /\ F[j] \in Seq(Writes)
  <2>1. WriteOf(body[j], i) \in Writes
    BY <1>1, <1>2, <1>3, <1>5, WriteFacts
  <2>2. F[j] = <<WriteOf(body[j], i)>>
    BY <1>4, <1>5 DEF StepWrites
  <2> QED BY <2>1, <2>2
<1>6. ASSUME NEW j \in 1..n, ~Assigns(body[j]) PROVE F[j] = <<>> /\ F[j] \in Seq(Writes)
  BY <1>4, <1>6 DEF StepWrites
<1>7. \A j \in 1..n : F[j] \in Seq(Writes)
  BY <1>5, <1>6
<1>8. /\ \A j \in 0..n : Joined(F, j) \in Seq(Writes)
      /\ \A j \in Nat : j < n => Joined(F, j + 1) = Joined(F, j) \o F[j + 1]
  BY <1>7, JoinedNext
<1>9. IterationWrites(i) = Joined(F, n)
  <2>1. [j \in 1..n |-> StepWrites(body[j], i)] = [j \in 1..n |-> F[j]]
    BY <1>4
  <2>2. IterationWrites(i) = FlattenSeq([j \in 1..n |-> StepWrites(body[j], i)])
    BY <1>2 DEF IterationWrites
  <2> QED BY <2>1, <2>2 DEF Joined
<1> DEFINE Good(j) == /\ ToSet(Joined(F, j)) = {WriteOf(body[m], i) : m \in {m \in Assigning : m <= j}}
                      /\ \A f : Means(f, k, 0) => Means(Merged(f, Joined(F, j)), k, j)
<1> DEFINE T == {j \in Nat : Good(j)}
<1>10. 0 \in T
  <2>1. Joined(F, 0) = <<>>
    BY JoinedNone
  <2>2. {m \in Assigning : m <= 0} = {}
    BY <1>2 DEF Assigning
  <2> QED BY <2>1, <2>2, ToSetFacts, MergedNone
<1>11. ASSUME NEW j \in Nat, j < n, j \in T PROVE j + 1 \in T
  <2>1. j + 1 \in 1..n /\ j \in 0..n /\ j + 1 \in 1..Len(body)
    BY <1>2, <1>11
  <2>2. PICK ws : ws = Joined(F, j)
    OBVIOUS
  <2>3. ws \in Seq(Writes) /\ Joined(F, j + 1) = ws \o F[j + 1]
    BY <1>8, <1>11, <2>1, <2>2
  <2>4. /\ ToSet(ws) = {WriteOf(body[m], i) : m \in {m \in Assigning : m <= j}}
        /\ \A f : Means(f, k, 0) => Means(Merged(f, ws), k, j)
    BY <1>11, <2>2
  <2>5. CASE ~Assigns(body[j + 1])
    <3>1. Joined(F, j + 1) = ws
      BY <1>6, <2>1, <2>3, <2>5, ConcatEmptySeq
    <3>2. {m \in Assigning : m <= j + 1} = {m \in Assigning : m <= j}
      BY <1>2, <2>5 DEF Assigning
    <3>3. ASSUME NEW f, Means(f, k, 0) PROVE Means(Merged(f, ws), k, j + 1)
      <4>1. Means(Merged(f, ws), k, j)
        BY <2>4, <3>3
      <4> QED BY <2>1, <2>5, <4>1, MeansSkip
    <3> QED BY <2>4, <3>1, <3>2, <3>3
  <2>6. CASE Assigns(body[j + 1])
    <3>1. PICK w : w = WriteOf(body[j + 1], i)
      OBVIOUS
    <3>2. w \in Writes /\ F[j + 1] = <<w>>
      BY <1>5, <2>1, <2>6, <3>1
    <3>3. <<w>> \in Seq(Writes)
      BY <3>2
    <3>4. ToSet(Joined(F, j + 1)) = ToSet(ws) \cup {w}
      <4>1. ToSet(ws \o <<w>>) = ToSet(ws) \cup ToSet(<<w>>)
        BY <1>0, <2>3, <3>3
      <4>2. ToSet(<<w>>) = {w}
        BY ToSetFacts
      <4> QED BY <2>3, <3>2, <4>1, <4>2
    <3>5. {m \in Assigning : m <= j + 1} = {m \in Assigning : m <= j} \cup {j + 1}
      BY <1>2, <2>1, <2>6 DEF Assigning
    <3>6. ASSUME NEW f, Means(f, k, 0) PROVE Means(Merged(f, ws \o <<w>>), k, j + 1)
      <4>1. PICK g : g = Merged(f, ws)
        OBVIOUS
      <4>2. Means(g, k, j)
        BY <2>4, <3>6, <4>1
      <4>3. Merged(f, ws \o <<w>>) = Merged(g, <<w>>)
        BY <2>3, <3>3, <4>1, MergedConcat
      <4>4. Merged(g, <<w>>) = Apply(g, w)
        BY <3>2, MergedOne
      <4>5. Means(Apply(g, w), k, j + 1)
        BY <1>1, <2>1, <2>6, <3>1, <4>2, MeansWrite
      <4> QED BY <4>3, <4>4, <4>5
    <3>7. ToSet(Joined(F, j + 1)) = {WriteOf(body[m], i) : m \in {m \in Assigning : m <= j + 1}}
      <4>1. {WriteOf(body[m], i) : m \in {m \in Assigning : m <= j} \cup {j + 1}}
              = {WriteOf(body[m], i) : m \in {m \in Assigning : m <= j}} \cup {w}
        BY <3>1
      <4> QED BY <2>4, <3>4, <3>5, <4>1
    <3>8. \A f : Means(f, k, 0) => Means(Merged(f, Joined(F, j + 1)), k, j + 1)
      BY <2>3, <3>2, <3>6
    <3> QED BY <3>7, <3>8
  <2> QED BY <2>5, <2>6
<1> HIDE DEF T
<1>12. \A j \in 0..n : j \in T
  BY <1>10, <1>11, UpTo
<1>13. Good(n)
  BY <1>12 DEF T
<1>14. {m \in Assigning : m <= n} = Assigning
  BY <1>2 DEF Assigning
<1>15. \A f : Means(f, k, 0) => Means(Merged(f, Joined(F, n)), k + 1, 0)
  BY <1>2, <1>13, MeansNext
<1> QED BY <1>1, <1>8, <1>9, <1>13, <1>14, <1>15
-----------------------------------------------------------------------------
(* What is true of a task: its writes are those of the indices it has      *)
(* done, none of which fails, and merging them into arrays that mean the   *)
(* loop up to its chunk gives arrays that mean it up to where it is.       *)
Task(c) ==
  /\ writes[c] \in Seq(Writes)
  /\ \A p \in 1..(next[c] - 1) : \A j \in 1..Len(body) : ~Fails(body[j], chunks[c][p])
  /\ ToSet(writes[c]) = {WriteOf(body[j], chunks[c][p]) : p \in 1..(next[c] - 1), j \in Assigning}
  /\ \A f, g, m, k :
       /\ m = Offset(Indices(range), c) + 1 /\ k = Offset(Indices(range), c) + next[c]
       /\ Means(f, m, 0) /\ g = Merged(f, writes[c])
       => Means(g, k, 0)
  /\ status[c] = "ok" => next[c] = Len(chunks[c]) + 1
  /\ status[c] = "error" =>
       next[c] <= Len(chunks[c]) /\ \E j \in 1..Len(body) : Fails(body[j], chunks[c][next[c]])
  /\ status[c] = "interrupted" => cancelled

IInv ==
  /\ TypeOK
  /\ AllOrNothing
  /\ phase = "tasks" =>
       /\ Runs /\ chunks = Chunks(Indices(range))
       /\ writes \in [DOMAIN chunks -> Seq(Writes)]
       /\ \A c \in 1..Len(chunks) : Task(c)
  /\ phase = "done" =>
       /\ Runs /\ ~HasError
       /\ \A f, k : f = arrays /\ k = Len(Indices(range)) + 1 => Means(f, k, 0)
  /\ phase = "failed" => (why = "error" => HasError) /\ (why = "interrupted" => cancelled)

LEMMA SameLoop ==
  ASSUME body' = body, range' = range
  PROVE  /\ Runs' <=> Runs
         /\ HasError' <=> HasError
         /\ Assigning' = Assigning
         /\ \A f, k, j : Means(f, k, j)' <=> Means(f, k, j)
<1>1. Order' = Order /\ Assigning' = Assigning
  BY DEF Order, Assigning
<1>2. \A p, a, s : Hits(p, a, s)' <=> Hits(p, a, s)
  BY DEF Hits
<1>3. \A p : Wrote(p)' = Wrote(p)
  BY DEF Wrote
<1>4. \A a, n, k, j : Untouched(a, n, k, j)' <=> Untouched(a, n, k, j)
  BY <1>1, <1>2 DEF Untouched
<1>5. \A p, a, n, k, j : LastHit(p, a, n, k, j)' <=> LastHit(p, a, n, k, j)
  BY <1>1, <1>2 DEF LastHit
<1>6. \A v, a, n, k, j : SlotMeans(v, a, n, k, j)' <=> SlotMeans(v, a, n, k, j)
  BY <1>3, <1>4, <1>5 DEF SlotMeans
<1>7. \A f, k, j : Means(f, k, j)' <=> Means(f, k, j)
  BY <1>6 DEF Means
<1>8. Runs' <=> Runs
  BY DEF Runs
<1>9. HasError' <=> HasError
  BY <1>1 DEF HasError
<1> QED BY <1>1, <1>7, <1>8, <1>9

LEMMA SameTask ==
  ASSUME NEW c, Task(c), body' = body, range' = range, chunks' = chunks,
         writes'[c] = writes[c], next'[c] = next[c],
         status'[c] = status[c], cancelled => cancelled'
  PROVE  Task(c)'
<1>1. \A f, k, j : Means(f, k, j)' <=> Means(f, k, j)
  BY SameLoop
<1>2. Assigning' = Assigning
  BY SameLoop
<1>3. \A f, g, m, k :
        /\ m = Offset(Indices(range'), c) + 1 /\ k = Offset(Indices(range'), c) + next'[c]
        /\ Means(f, m, 0)' /\ g = Merged(f, writes'[c])
        => Means(g, k, 0)'
  BY <1>1 DEF Task
<1>4. \A p \in 1..(next'[c] - 1) : \A j \in 1..Len(body') : ~Fails(body'[j], chunks'[c][p])
  BY DEF Task
<1>5. ToSet(writes'[c]) = {WriteOf(body'[j], chunks'[c][p]) : p \in 1..(next'[c] - 1), j \in Assigning'}
  BY <1>2 DEF Task
<1>6. /\ writes'[c] \in Seq(Writes)
      /\ status'[c] = "ok" => next'[c] = Len(chunks'[c]) + 1
      /\ status'[c] = "error" =>
           next'[c] <= Len(chunks'[c]) /\ \E j \in 1..Len(body') : Fails(body'[j], chunks'[c][next'[c]])
      /\ status'[c] = "interrupted" => cancelled'
  BY DEF Task
<1> QED BY <1>3, <1>4, <1>5, <1>6 DEF Task

LEMMA InitIInv == Init => IInv
<1> SUFFICES ASSUME Init PROVE IInv
  OBVIOUS
<1>1. TypeOK
  <2>1. \A a \in Arrays : Initial[a] \in Seq(Int)
    BY ParforAssumption
  <2>2. chunks \in Seq(Seq(Int)) /\ DOMAIN chunks = {} /\ DOMAIN next = DOMAIN chunks
        /\ DOMAIN writes = DOMAIN chunks /\ status \in [DOMAIN chunks -> Statuses]
    <3>1. <<>> \in Seq(Seq(Int)) /\ DOMAIN <<>> = {} /\ <<>> \in [{} -> Statuses]
      BY EmptySeq
    <3> QED BY <3>1 DEF Init
  <2>3. /\ body \in Bodies /\ range \in Ranges /\ arrays = Initial /\ cancelled \in BOOLEAN
        /\ phase = "start" /\ why = "none"
    BY DEF Init
  <2>4. DOMAIN arrays = Arrays /\ \A a \in Arrays : arrays[a] \in Seq(Int) /\ Len(arrays[a]) = Len(Initial[a])
    BY <2>1, <2>3 DEF Arrays
  <2>5. \A c \in DOMAIN chunks : chunks[c] # <<>> /\ next[c] \in 1..(Len(chunks[c]) + 1)
    BY <2>2
  <2> QED BY <2>2, <2>3, <2>4, <2>5 DEF TypeOK
<1> QED BY <1>1 DEF Init, IInv, AllOrNothing

LEMMA CancelKeeps == ASSUME IInv, Cancel PROVE IInv'
<1> USE DEF IInv
<1>1. /\ UNCHANGED <<body, range, arrays, chunks, next, writes, status, phase, why>>
      /\ cancelled' = TRUE
  BY DEF Cancel, tasks
<1>2. TypeOK' /\ AllOrNothing'
  BY <1>1 DEF TypeOK, AllOrNothing
<1>3. phase' = "tasks" => /\ Runs' /\ chunks' = Chunks(Indices(range'))
                          /\ writes' \in [DOMAIN chunks' -> Seq(Writes)]
                          /\ \A c \in 1..Len(chunks') : Task(c)'
  BY <1>1, SameLoop, SameTask
<1>4. phase' \notin {"done", "failed"}
  BY <1>1 DEF Cancel
<1> QED BY <1>2, <1>3, <1>4

LEMMA RefusalFacts ==
  /\ Refusal \in {"zero step", "E0082", "not an array", "overflow", "interrupted", "none"}
  /\ Refusal = "none" => range.step # 0 /\ Targets(body) \subseteq Arrays
  /\ Refusal = "interrupted" => cancelled
<1>1. CASE range.step = 0
  BY <1>1 DEF Refusal
<1>2. CASE range.step # 0 /\ ~Accepted(body)
  BY <1>2 DEF Refusal
<1>3. CASE range.step # 0 /\ Accepted(body) /\ ~(Targets(body) \subseteq Arrays)
  BY <1>3 DEF Refusal
<1>4. CASE range.step # 0 /\ Accepted(body) /\ Targets(body) \subseteq Arrays
  <2>1. Refusal = IF Count(range) > MaxElems \/ IndexOverflows(range) THEN "overflow"
                  ELSE IF cancelled THEN "interrupted" ELSE "none"
    BY <1>4 DEF Refusal
  <2> QED BY <1>4, <2>1
<1> QED BY <1>1, <1>2, <1>3, <1>4

LEMMA StartKeeps == ASSUME IInv, Start PROVE IInv'
<1> USE DEF IInv
<1>1. /\ phase = "start" /\ why' = Refusal /\ arrays = Initial
      /\ UNCHANGED <<body, range, arrays, cancelled>>
  BY DEF Start, AllOrNothing
<1>2. /\ body' \in Bodies /\ range' \in Ranges
      /\ DOMAIN arrays' = Arrays
      /\ \A a \in Arrays : arrays'[a] \in Seq(Int) /\ Len(arrays'[a]) = Len(Initial[a])
      /\ cancelled' \in BOOLEAN
  BY <1>1 DEF TypeOK
<1>3. CASE Refusal # "none"
  <2>1. phase' = "failed" /\ UNCHANGED tasks
    BY <1>3 DEF Start
  <2>2. /\ why' \in Statuses \cup {"none", "zero step", "E0082", "not an array", "overflow"}
        /\ why' # "error" /\ (why' = "interrupted" => cancelled')
    BY <1>1, RefusalFacts DEF Statuses
  <2>3. TypeOK'
    BY <1>2, <2>1, <2>2 DEF TypeOK, tasks
  <2> QED BY <1>1, <2>1, <2>2, <2>3 DEF AllOrNothing
<1>4. CASE Refusal = "none"
  <2>1. /\ phase' = "tasks"
        /\ chunks' = Chunks(Indices(range))
        /\ next' = [c \in DOMAIN chunks' |-> 1]
        /\ writes' = [c \in DOMAIN chunks' |-> <<>>]
        /\ status' = [c \in DOMAIN chunks' |-> "running"]
    BY <1>4 DEF Start
  <2>2. Runs /\ Runs'
    BY <1>1, <1>4, RefusalFacts, SameLoop DEF Runs, TypeOK
  <2>3. Indices(range) \in Seq(Int)
    BY <2>2, BodyFacts
  <2>4. PICK n \in Nat : n = Len(chunks') /\ DOMAIN chunks' = 1..n
    BY <2>1, <2>3, ChunkFacts
  <2>5. chunks' \in Seq(Seq(Int)) /\ \A c \in 1..n : Len(chunks'[c]) \in Nat /\ Len(chunks'[c]) # 0
    <3>1. \A c \in 1..n : Len(chunks'[c]) = Finish(Indices(range), c) - Offset(Indices(range), c)
                         /\ Finish(Indices(range), c) \in Nat /\ Offset(Indices(range), c) \in Nat
                         /\ Offset(Indices(range), c) < Finish(Indices(range), c)
      BY <2>1, <2>3, <2>4, ChunkFacts
    <3>2. \A x, y \in Nat : x < y => y - x \in Nat /\ y - x # 0
      OBVIOUS
    <3>3. chunks' \in Seq(Seq(Int))
      BY <2>1, <2>3, ChunkFacts
    <3> QED BY <3>1, <3>2, <3>3
  <2>6. \A c \in 1..n : next'[c] = 1 /\ writes'[c] = <<>> /\ status'[c] = "running"
    BY <2>1, <2>4
  <2>7. why' = "none"
    BY <1>1, <1>4
  <2>8. TypeOK'
    <3>1. \A c \in DOMAIN chunks' : chunks'[c] # <<>>
      BY <2>4, <2>5
    <3>2. \A c \in DOMAIN chunks' : next'[c] \in 1..(Len(chunks'[c]) + 1)
      BY <2>4, <2>5, <2>6
    <3>3. status' \in [DOMAIN chunks' -> Statuses] /\ DOMAIN next' = DOMAIN chunks'
          /\ DOMAIN writes' = DOMAIN chunks'
      BY <2>1 DEF Statuses
    <3> QED BY <1>2, <2>1, <2>5, <2>7, <3>1, <3>2, <3>3 DEF TypeOK
  <2>9. ASSUME NEW c \in 1..n PROVE Task(c)'
    <3>1. next'[c] = 1 /\ writes'[c] = <<>> /\ status'[c] = "running" /\ 1..(next'[c] - 1) = {}
      BY <2>6
    <3>2. ToSet(writes'[c]) = {} /\ writes'[c] \in Seq(Writes)
      BY <3>1, ToSetFacts
    <3>3. {WriteOf(body'[j], chunks'[c][p]) : p \in 1..(next'[c] - 1), j \in Assigning'} = {}
      BY <3>1
    <3>4. \A f, g, m, k :
            /\ m = Offset(Indices(range'), c) + 1 /\ k = Offset(Indices(range'), c) + next'[c]
            /\ Means(f, m, 0)' /\ g = Merged(f, writes'[c])
            => Means(g, k, 0)'
      BY <3>1, MergedNone
    <3> QED BY <3>1, <3>2, <3>3, <3>4 DEF Task
  <2>10. writes' \in [DOMAIN chunks' -> Seq(Writes)]
    <3>1. <<>> \in Seq(Writes)
      BY EmptySeq
    <3> QED BY <2>1, <3>1
  <2> QED BY <1>1, <2>1, <2>2, <2>4, <2>8, <2>9, <2>10 DEF AllOrNothing
<1> QED BY <1>3, <1>4

LEMMA TaskTypes ==
  ASSUME TypeOK
  PROVE  /\ DOMAIN chunks = 1..Len(chunks) /\ Len(chunks) \in Nat
         /\ \A c \in DOMAIN chunks : /\ chunks[c] \in Seq(Int) /\ Len(chunks[c]) \in Nat
                                    /\ next[c] \in 1..(Len(chunks[c]) + 1) /\ next[c] \in Nat
<1>1. chunks \in Seq(Seq(Int))
  BY DEF TypeOK
<1>2. DOMAIN chunks = 1..Len(chunks) /\ Len(chunks) \in Nat
  BY <1>1
<1>3. \A c \in DOMAIN chunks : chunks[c] \in Seq(Int)
  BY <1>1, <1>2
<1>4. \A c \in DOMAIN chunks : Len(chunks[c]) \in Nat
  BY <1>3
<1>5. \A c \in DOMAIN chunks : next[c] \in 1..(Len(chunks[c]) + 1)
  BY DEF TypeOK
<1> QED BY <1>2, <1>3, <1>4, <1>5

(* A task changes nothing but its own entries. *)
LEMMA OneTask ==
  ASSUME IInv, NEW c \in DOMAIN chunks, phase = "tasks",
         UNCHANGED <<body, range, arrays, chunks, cancelled, phase, why>>,
         \A d \in DOMAIN chunks : d # c =>
           writes'[d] = writes[d] /\ next'[d] = next[d] /\ status'[d] = status[d],
         writes' \in [DOMAIN chunks -> Seq(Writes)], TypeOK', Task(c)'
  PROVE  IInv'
<1> USE DEF IInv
<1>1. DOMAIN chunks = 1..Len(chunks)
  BY TaskTypes
<1>2. ASSUME NEW d \in 1..Len(chunks') PROVE Task(d)'
  <2>1. CASE d = c
    BY <2>1
  <2>2. CASE d # c
    <3>1. d \in DOMAIN chunks /\ Task(d)
      BY <1>1, <1>2
    <3> QED BY <2>2, <3>1, SameTask
  <2> QED BY <2>1, <2>2
<1>3. Runs' /\ chunks' = Chunks(Indices(range')) /\ writes' \in [DOMAIN chunks' -> Seq(Writes)]
  BY SameLoop
<1>4. AllOrNothing'
  BY DEF AllOrNothing
<1>5. phase' = "tasks"
  OBVIOUS
<1> QED BY <1>2, <1>3, <1>4, <1>5

LEMMA StatusKeeps ==
  ASSUME IInv, NEW c \in DOMAIN chunks, phase = "tasks",
         NEW x \in {"ok", "interrupted", "error"},
         status' = [status EXCEPT ![c] = x],
         UNCHANGED <<body, range, arrays, chunks, next, writes, cancelled, phase, why>>,
         x = "ok" => next[c] = Len(chunks[c]) + 1,
         x = "error" => next[c] <= Len(chunks[c]) /\ \E j \in 1..Len(body) : Fails(body[j], chunks[c][next[c]]),
         x = "interrupted" => cancelled
  PROVE  IInv'
<1>1. TypeOK
  BY DEF IInv
<1>2. status'[c] = x /\ \A d \in DOMAIN chunks : d # c => status'[d] = status[d]
  BY <1>1 DEF TypeOK
<1>3. TypeOK'
  BY <1>1 DEF TypeOK, Statuses
<1>4. Task(c)
  BY <1>1, TaskTypes DEF IInv
<1>5. Task(c)'
  <2>1. \A f, k, j : Means(f, k, j)' <=> Means(f, k, j)
    BY SameLoop
  <2>2. Assigning' = Assigning
    BY SameLoop
  <2>3. \A f, g, m, k :
          /\ m = Offset(Indices(range'), c) + 1 /\ k = Offset(Indices(range'), c) + next'[c]
          /\ Means(f, m, 0)' /\ g = Merged(f, writes'[c])
          => Means(g, k, 0)'
    BY <1>4, <2>1 DEF Task
  <2>4. ToSet(writes'[c]) = {WriteOf(body'[j], chunks'[c][p]) : p \in 1..(next'[c] - 1), j \in Assigning'}
    BY <1>4, <2>2 DEF Task
  <2>5. /\ writes'[c] \in Seq(Writes)
        /\ \A p \in 1..(next'[c] - 1) : \A j \in 1..Len(body') : ~Fails(body'[j], chunks'[c][p])
    BY <1>4 DEF Task
  <2>6. /\ status'[c] = "ok" => next'[c] = Len(chunks'[c]) + 1
        /\ status'[c] = "error" =>
             next'[c] <= Len(chunks'[c]) /\ \E j \in 1..Len(body') : Fails(body'[j], chunks'[c][next'[c]])
        /\ status'[c] = "interrupted" => cancelled'
    BY <1>2
  <2> QED BY <2>3, <2>4, <2>5, <2>6 DEF Task
<1>6. writes' \in [DOMAIN chunks -> Seq(Writes)]
  BY DEF IInv
<1> QED BY <1>2, <1>3, <1>5, <1>6, OneTask

LEMMA InterruptedKeeps == ASSUME IInv, NEW c \in DOMAIN chunks, Interrupted(c) PROVE IInv'
BY StatusKeeps DEF Interrupted, Active

LEMMA TaskEndsKeeps == ASSUME IInv, NEW c \in DOMAIN chunks, TaskEnds(c) PROVE IInv'
<1>1. next[c] \in 1..(Len(chunks[c]) + 1) /\ Len(chunks[c]) \in Nat
  BY TaskTypes DEF IInv
<1>2. next[c] = Len(chunks[c]) + 1
  BY <1>1 DEF TaskEnds
<1> QED BY <1>2, StatusKeeps DEF TaskEnds, Active

(* Where a task is, in the sequence of indices. *)
LEMMA TaskIndex ==
  ASSUME TypeOK, Runs, chunks = Chunks(Indices(range)), NEW c \in DOMAIN chunks,
         NEW p \in 1..Len(chunks[c])
  PROVE  /\ Offset(Indices(range), c) \in Nat
         /\ Offset(Indices(range), c) + p \in 1..Len(Indices(range))
         /\ chunks[c][p] = Indices(range)[Offset(Indices(range), c) + p]
<1>1. PICK s : s = Indices(range)
  OBVIOUS
<1>2. s \in Seq(Int) /\ Len(s) \in Nat
  BY <1>1, BodyFacts
<1>3. c \in 1..Len(Chunks(s))
  BY <1>1, TaskTypes
<1>4. /\ Offset(s, c) \in Nat /\ Finish(s, c) \in Nat
      /\ Finish(s, c) <= Len(s)
      /\ Len(Chunks(s)[c]) = Finish(s, c) - Offset(s, c)
      /\ \A x \in 1..Len(Chunks(s)[c]) : Chunks(s)[c][x] = s[Offset(s, c) + x]
  BY <1>2, <1>3, ChunkFacts
<1>5. Offset(s, c) + p \in 1..Len(s)
  <2>1. p \in 1..(Finish(s, c) - Offset(s, c))
    BY <1>1, <1>4
  <2> QED BY <1>2, <1>4, <2>1
<1> QED BY <1>1, <1>4, <1>5

LEMMA IterateKeeps == ASSUME IInv, NEW c \in DOMAIN chunks, Iterate(c) PROVE IInv'
<1>1. /\ phase = "tasks" /\ status[c] = "running" /\ next[c] <= Len(chunks[c])
      /\ UNCHANGED <<body, range, arrays, chunks, cancelled, phase, why>>
  BY DEF Iterate, Active
<1>2. PICK i : i = chunks[c][next[c]]
  OBVIOUS
<1>3. CASE \E j \in 1..Len(body) : Fails(body[j], i)
  <2>1. status' = [status EXCEPT ![c] = "error"] /\ UNCHANGED <<next, writes>>
    BY <1>2, <1>3 DEF Iterate
  <2> QED BY <1>1, <1>2, <1>3, <2>1, StatusKeeps
<1>4. CASE ~\E j \in 1..Len(body) : Fails(body[j], i)
  <2>1. /\ writes' = [writes EXCEPT ![c] = writes[c] \o IterationWrites(i)]
        /\ next' = [next EXCEPT ![c] = next[c] + 1]
        /\ UNCHANGED status
    BY <1>2, <1>4 DEF Iterate
  <2>2. TypeOK /\ Runs /\ chunks = Chunks(Indices(range)) /\ Task(c)
    BY <1>1, TaskTypes DEF IInv
  <2>3. DOMAIN next = DOMAIN chunks /\ DOMAIN writes = DOMAIN chunks
    BY <2>2 DEF TypeOK
  <2>4. PICK n \in Nat : n = next[c] /\ n \in 1..Len(chunks[c]) /\ Len(chunks[c]) \in Nat
    BY <1>1, <2>2, TaskTypes
  <2>5. PICK o : o = Offset(Indices(range), c)
    OBVIOUS
  <2>6. o \in Nat /\ o + n \in 1..Len(Indices(range)) /\ i = Indices(range)[o + n]
    BY <1>2, <2>2, <2>4, <2>5, TaskIndex
  <2>7. PICK ws : ws = IterationWrites(i)
    OBVIOUS
  <2>8. /\ ws \in Seq(Writes)
        /\ ToSet(ws) = {WriteOf(body[j], i) : j \in Assigning}
        /\ \A f : Means(f, o + n, 0) => Means(Merged(f, ws), (o + n) + 1, 0)
    BY <1>4, <2>2, <2>6, <2>7, IterationFacts
  <2>9. /\ next'[c] = n + 1 /\ writes'[c] = writes[c] \o ws /\ status'[c] = "running"
        /\ \A d \in DOMAIN chunks : d # c =>
             writes'[d] = writes[d] /\ next'[d] = next[d] /\ status'[d] = status[d]
    BY <1>1, <2>1, <2>3, <2>4, <2>7
  <2>10. TypeOK'
    <3>1. \A d \in DOMAIN chunks : next'[d] \in 1..(Len(chunks[d]) + 1)
      <4>1. n + 1 \in 1..(Len(chunks[c]) + 1)
        BY <2>4
      <4> QED BY <2>2, <2>9, <4>1, TaskTypes
    <3>2. DOMAIN next' = DOMAIN chunks /\ DOMAIN writes' = DOMAIN chunks
      BY <2>1, <2>3
    <3> QED BY <1>1, <2>1, <2>2, <3>1, <3>2 DEF TypeOK
  <2>11. PICK old : old = writes[c]
    OBVIOUS
  <2>12. /\ old \in Seq(Writes)
         /\ \A p \in 1..(n - 1) : \A j \in 1..Len(body) : ~Fails(body[j], chunks[c][p])
         /\ ToSet(old) = {WriteOf(body[j], chunks[c][p]) : p \in 1..(n - 1), j \in Assigning}
         /\ \A f, g, m, k : m = o + 1 /\ k = o + n /\ Means(f, m, 0) /\ g = Merged(f, old) => Means(g, k, 0)
    BY <2>2, <2>4, <2>5, <2>11 DEF Task
  <2>13. old \o ws \in Seq(Writes) /\ ToSet(old \o ws) = ToSet(old) \cup ToSet(ws)
    <3>1. \A s \in Seq(Writes), t \in Seq(Writes) : ToSet(s \o t) = ToSet(s) \cup ToSet(t)
      BY ToSetFacts
    <3> QED BY <2>8, <2>12, <3>1
  <2>14. 1..((n + 1) - 1) = 1..(n - 1) \cup {n}
    BY <2>4
  <2>15. \A p \in 1..((n + 1) - 1) : \A j \in 1..Len(body) : ~Fails(body[j], chunks[c][p])
    BY <1>2, <1>4, <2>4, <2>12, <2>14
  <2>16. ToSet(old \o ws) = {WriteOf(body[j], chunks[c][p]) : p \in 1..((n + 1) - 1), j \in Assigning}
    <3> DEFINE all == {WriteOf(body[j], chunks[c][p]) : p \in 1..((n + 1) - 1), j \in Assigning}
    <3>1. ASSUME NEW w \in all PROVE w \in ToSet(old \o ws)
      <4>1. PICK p \in 1..((n + 1) - 1), j \in Assigning : w = WriteOf(body[j], chunks[c][p])
        OBVIOUS
      <4>2. CASE p = n
        <5>1. w = WriteOf(body[j], i)
          BY <1>2, <2>4, <4>1, <4>2
        <5> QED BY <2>8, <2>13, <5>1
      <4>3. CASE p \in 1..(n - 1)
        <5>1. w \in ToSet(old)
          BY <2>12, <4>1, <4>3
        <5> QED BY <2>13, <5>1
      <4> QED BY <2>14, <4>2, <4>3
    <3>2. ASSUME NEW w \in ToSet(old \o ws) PROVE w \in all
      <4>1. CASE w \in ToSet(old)
        <5>1. PICK p \in 1..(n - 1), j \in Assigning : w = WriteOf(body[j], chunks[c][p])
          BY <2>12, <4>1
        <5>2. p \in 1..((n + 1) - 1)
          BY <2>14
        <5> QED BY <5>1, <5>2
      <4>2. CASE w \in ToSet(ws)
        <5>1. PICK j \in Assigning : w = WriteOf(body[j], i)
          BY <2>8, <4>2
        <5>2. n \in 1..((n + 1) - 1) /\ w = WriteOf(body[j], chunks[c][n])
          BY <1>2, <2>4, <5>1
        <5> QED BY <5>1, <5>2
      <4> QED BY <2>13, <4>1, <4>2
    <3> QED BY <3>1, <3>2
  <2>17. \A f, g, m, k : m = o + 1 /\ k = o + (n + 1) /\ Means(f, m, 0) /\ g = Merged(f, old \o ws)
           => Means(g, k, 0)
    <3> TAKE f, g, m, k
    <3> HAVE m = o + 1 /\ k = o + (n + 1) /\ Means(f, m, 0) /\ g = Merged(f, old \o ws)
    <3>1. PICK h : h = Merged(f, old)
      OBVIOUS
    <3>2. Means(h, o + n, 0)
      BY <2>12, <3>1
    <3>3. Means(Merged(h, ws), (o + n) + 1, 0)
      BY <2>8, <3>2
    <3>4. g = Merged(h, ws)
      BY <2>8, <2>12, <3>1, MergedConcat
    <3>5. (o + n) + 1 = o + (n + 1)
      BY <2>4, <2>6
    <3> QED BY <3>3, <3>4, <3>5
  <2>18. Task(c)'
    <3>1. \A f, k, j : Means(f, k, j)' <=> Means(f, k, j)
      BY <1>1, SameLoop
    <3>2. Assigning' = Assigning
      BY <1>1, SameLoop
    <3>3. /\ next'[c] = n + 1 /\ writes'[c] = old \o ws /\ status'[c] = "running"
          /\ body' = body /\ range' = range /\ chunks' = chunks
      BY <1>1, <2>9, <2>11
    <3>4. \A f, g, m, k :
            /\ m = Offset(Indices(range'), c) + 1 /\ k = Offset(Indices(range'), c) + next'[c]
            /\ Means(f, m, 0)' /\ g = Merged(f, writes'[c])
            => Means(g, k, 0)'
      BY <2>5, <2>17, <3>1, <3>3
    <3>5. ToSet(writes'[c]) = {WriteOf(body'[j], chunks'[c][p]) : p \in 1..(next'[c] - 1), j \in Assigning'}
      BY <2>16, <3>2, <3>3
    <3>6. /\ writes'[c] \in Seq(Writes)
          /\ \A p \in 1..(next'[c] - 1) : \A j \in 1..Len(body') : ~Fails(body'[j], chunks'[c][p])
      BY <2>13, <2>15, <3>3
    <3> QED BY <3>3, <3>4, <3>5, <3>6 DEF Task
  <2>19. writes' \in [DOMAIN chunks -> Seq(Writes)]
    <3>1. writes \in [DOMAIN chunks -> Seq(Writes)]
      BY <1>1 DEF IInv
    <3> QED BY <2>1, <2>7, <2>11, <2>13, <3>1
  <2> QED BY <1>1, <2>9, <2>10, <2>18, <2>19, OneTask
<1> QED BY <1>3, <1>4

LEMMA FirstStoppedFacts ==
  ASSUME DOMAIN status = 1..Len(chunks), Len(chunks) \in Nat
  PROVE  /\ FirstStopped = 0 => \A c \in 1..Len(chunks) : status[c] = "ok"
         /\ FirstStopped # 0 => FirstStopped \in 1..Len(chunks) /\ status[FirstStopped] # "ok"
<1> DEFINE bad == {c \in DOMAIN status : status[c] # "ok"}
<1>1. CASE bad = {}
  <2>1. FirstStopped = 0
    BY <1>1 DEF FirstStopped
  <2> QED BY <1>1, <2>1
<1>2. CASE bad # {}
  <2>1. bad \in SUBSET Nat
    OBVIOUS
  <2>2. \E c \in bad : \A d \in bad : c <= d
    <3> HIDE DEF bad
    <3> QED BY <1>2, <2>1, LeastElement
  <2>3. FirstStopped = CHOOSE c \in bad : \A d \in bad : c <= d
    BY <1>2 DEF FirstStopped
  <2>4. FirstStopped \in bad
    <3> HIDE DEF bad
    <3> QED BY <2>2, <2>3
  <2>5. FirstStopped \in 1..Len(chunks) /\ status[FirstStopped] # "ok"
    BY <2>4
  <2>6. FirstStopped # 0
    BY <2>5
  <2> QED BY <2>5, <2>6
<1> QED BY <1>1, <1>2

(* A write out of bounds is an error of the loop. *)
LEMMA OutIsError ==
  ASSUME IInv, phase = "tasks", NEW c \in DOMAIN chunks, NEW x \in 1..Len(writes[c]),
         OutOfBounds(writes[c][x])
  PROVE  HasError
<1>1. TypeOK /\ Runs /\ chunks = Chunks(Indices(range)) /\ Task(c)
  BY TaskTypes DEF IInv
<1>2. writes[c][x] \in ToSet(writes[c])
  <2>1. \A s \in Seq(Writes) : ToSet(s) = {s[i] : i \in 1..Len(s)}
    BY ToSetFacts
  <2> QED BY <1>1, <2>1 DEF Task
<1>3. PICK p \in 1..(next[c] - 1), j \in Assigning : writes[c][x] = WriteOf(body[j], chunks[c][p])
  BY <1>1, <1>2 DEF Task
<1>4. PICK w : w = writes[c][x]
  OBVIOUS
<1>5. p \in 1..Len(chunks[c])
  BY <1>1, TaskTypes
<1>6. PICK k \in 1..Len(Indices(range)) : chunks[c][p] = Indices(range)[k]
  BY <1>1, <1>5, TaskIndex
<1>7. PICK i : i = Indices(range)[k]
  OBVIOUS
<1>8. j \in 1..Len(body) /\ Assigns(body[j]) /\ i \in Int
  BY <1>1, <1>7, BodyFacts DEF Assigning
<1>9. w.arr = body[j].at.arr /\ w.slot = Slot(body[j].at, i)
  BY <1>3, <1>4, <1>6, <1>7 DEF WriteOf
<1>10. ~InBounds(body[j].at, i)
  <2>1. body[j].at.arr \in Arrays /\ Slot(body[j].at, i) \in Int
    BY <1>1, <1>8, BodyFacts
  <2>2. Len(Initial[body[j].at.arr]) \in Nat
    BY <2>1, ParforAssumption
  <2>3. Slot(body[j].at, i) >= Len(Initial[body[j].at.arr])
    BY <1>4, <1>9 DEF OutOfBounds
  <2> QED BY <2>1, <2>2, <2>3 DEF InBounds
<1>11. PICK q : q = <<k, j>>
  OBVIOUS
<1>12. q \in Order /\ q[1] = k /\ q[2] = j
  BY <1>1, <1>8, <1>11, OrderFacts
<1> QED BY <1>7, <1>8, <1>10, <1>12 DEF HasError

(* A step that fails is one too. *)
LEMMA FailIsError ==
  ASSUME IInv, phase = "tasks", NEW c \in DOMAIN chunks, status[c] = "error"
  PROVE  HasError
<1>1. TypeOK /\ Runs /\ chunks = Chunks(Indices(range)) /\ Task(c)
  BY TaskTypes DEF IInv
<1>2. next[c] \in 1..Len(chunks[c])
  BY <1>1, TaskTypes DEF Task
<1>3. PICK j \in 1..Len(body) : Fails(body[j], chunks[c][next[c]])
  BY <1>1 DEF Task
<1>4. PICK k \in 1..Len(Indices(range)) : chunks[c][next[c]] = Indices(range)[k]
  BY <1>1, <1>2, TaskIndex
<1>5. PICK q : q = <<k, j>>
  OBVIOUS
<1>6. q \in Order /\ q[1] = k /\ q[2] = j
  BY <1>1, <1>5, OrderFacts
<1> QED BY <1>3, <1>4, <1>6 DEF HasError

(* When all tasks have ended well and all writes are in bounds, there is   *)
(* none.                                                                   *)
LEMMA NoError ==
  ASSUME IInv, phase = "tasks", \A c \in DOMAIN chunks : status[c] = "ok",
         \A c \in DOMAIN chunks : \A x \in 1..Len(writes[c]) : ~OutOfBounds(writes[c][x])
  PROVE  ~HasError
<1>1. TypeOK /\ Runs /\ chunks = Chunks(Indices(range)) /\ \A c \in DOMAIN chunks : Task(c)
  BY TaskTypes DEF IInv
<1>2. ASSUME NEW q \in Order
      PROVE  LET s == body[q[2]]
                 i == Indices(range)[q[1]]
             IN  ~Fails(s, i) /\ (Assigns(s) => InBounds(s.at, i))
  <2>1. q[1] \in 1..Len(Indices(range)) /\ q[2] \in 1..Len(body)
    BY <1>1, OrderFacts
  <2>2. PICK k \in 1..Len(Indices(range)), j \in 1..Len(body) : k = q[1] /\ j = q[2]
    BY <2>1
  <2>3. PICK i : i = Indices(range)[k]
    OBVIOUS
  <2>4. PICK c \in 1..Len(chunks) : \E p \in 1..Len(chunks[c]) : k = Offset(Indices(range), c) + p
    BY <1>1, <2>2, ChunkCover, BodyFacts
  <2>5. PICK p \in 1..Len(chunks[c]) : k = Offset(Indices(range), c) + p
    BY <2>4
  <2>6. c \in DOMAIN chunks /\ Task(c) /\ next[c] = Len(chunks[c]) + 1 /\ Len(chunks[c]) \in Nat
    <3>1. c \in DOMAIN chunks
      BY <1>1, TaskTypes
    <3>2. Task(c) /\ status[c] = "ok" /\ Len(chunks[c]) \in Nat
      BY <1>1, <3>1, TaskTypes
    <3> QED BY <3>1, <3>2 DEF Task
  <2>7. chunks[c][p] = i
    BY <1>1, <2>3, <2>5, <2>6, TaskIndex
  <2>8. p \in 1..(next[c] - 1)
    BY <2>6
  <2>9. ~Fails(body[j], i)
    BY <2>6, <2>7, <2>8 DEF Task
  <2>10. ASSUME Assigns(body[j]) PROVE InBounds(body[j].at, i)
    <3>1. PICK w : w = WriteOf(body[j], i)
      OBVIOUS
    <3>2. w \in ToSet(writes[c])
      <4>1. j \in Assigning
        BY <2>10 DEF Assigning
      <4> QED BY <2>6, <2>7, <2>8, <3>1, <4>1 DEF Task
    <3>3. PICK x \in 1..Len(writes[c]) : w = writes[c][x]
      <4>1. \A s \in Seq(Writes) : ToSet(s) = {s[m] : m \in 1..Len(s)}
        BY ToSetFacts
      <4> QED BY <2>6, <3>2, <4>1 DEF Task
    <3>4. ~OutOfBounds(w)
      BY <2>6, <3>3
    <3>5. i \in Int
      BY <1>1, <2>3, BodyFacts
    <3>6. w \in Writes /\ w.arr = body[j].at.arr /\ w.slot = Slot(body[j].at, i)
      BY <1>1, <2>9, <2>10, <3>1, <3>5, WriteFacts
    <3>7. w.arr \in Arrays /\ w.slot \in Nat
      BY <3>6 DEF Writes
    <3>8. Len(Initial[w.arr]) \in Nat
      BY <3>7, ParforAssumption
    <3>9. w.slot \in 0..(Len(Initial[w.arr]) - 1)
      BY <3>4, <3>7, <3>8 DEF OutOfBounds
    <3> QED BY <3>6, <3>9 DEF InBounds
  <2> QED BY <2>2, <2>3, <2>9, <2>10
<1> QED BY <1>2 DEF HasError

(* Merging the writes of the tasks, one after the other, gives arrays that *)
(* mean the loop up to the end of each chunk.                              *)
LEMMA MergedTasks ==
  ASSUME IInv, phase = "tasks", \A c \in DOMAIN chunks : status[c] = "ok"
  PROVE  Means(Merged(Initial, AllWrites), Len(Indices(range)) + 1, 0)
<1>1. TypeOK /\ Runs /\ chunks = Chunks(Indices(range)) /\ writes \in [DOMAIN chunks -> Seq(Writes)]
  BY DEF IInv
<1>2. PICK s : s = Indices(range)
  OBVIOUS
<1>3. s \in Seq(Int) /\ Len(s) \in Nat
  BY <1>1, <1>2, BodyFacts
<1>4. PICK n \in Nat : n = Len(chunks) /\ DOMAIN chunks = 1..n
  BY <1>1, TaskTypes
<1>5. PICK F : F = writes
  OBVIOUS
<1>6. F \in [1..n -> Seq(Writes)]
  BY <1>1, <1>4, <1>5
<1>7. /\ \A c \in 0..n : Joined(F, c) \in Seq(Writes)
      /\ \A c \in Nat : c < n => Joined(F, c + 1) = Joined(F, c) \o F[c + 1]
  <2>1. \A c \in 1..n : F[c] \in Seq(Writes)
    BY <1>6
  <2> QED BY <2>1, JoinedNext
<1>8. AllWrites = Joined(F, n)
  <2>1. F = [c \in 1..n |-> F[c]]
    BY <1>6
  <2> QED BY <1>5, <2>1 DEF AllWrites, Joined
<1>9. ASSUME NEW c \in 1..n
      PROVE  /\ Offset(s, c) \in Nat /\ Finish(s, c) \in Nat
             /\ \A f : Means(f, Offset(s, c) + 1, 0) => Means(Merged(f, F[c]), Finish(s, c) + 1, 0)
  <2>1. c \in DOMAIN chunks /\ Task(c)
    BY <1>4 DEF IInv
  <2>2. next[c] = Len(chunks[c]) + 1
    BY <2>1 DEF Task
  <2>3. Offset(s, c) \in Nat /\ Finish(s, c) \in Nat /\ Len(chunks[c]) = Finish(s, c) - Offset(s, c)
    BY <1>1, <1>2, <1>3, <1>4, ChunkFacts
  <2>4. Offset(s, c) + next[c] = Finish(s, c) + 1
    BY <2>2, <2>3
  <2>5. ASSUME NEW f, Means(f, Offset(s, c) + 1, 0) PROVE Means(Merged(f, F[c]), Finish(s, c) + 1, 0)
    <3>1. \A f1, g, m, k :
            m = Offset(s, c) + 1 /\ k = Offset(s, c) + next[c] /\ Means(f1, m, 0) /\ g = Merged(f1, F[c])
            => Means(g, k, 0)
      BY <1>2, <1>5, <2>1 DEF Task
    <3> QED BY <2>4, <2>5, <3>1
  <2> QED BY <2>3, <2>5
<1> DEFINE reached(c) == IF c = 0 THEN 0 ELSE Finish(s, c)
<1> DEFINE T == {c \in Nat : Means(Merged(Initial, Joined(F, c)), reached(c) + 1, 0)}
<1>10. 0 \in T
  <2>1. Merged(Initial, Joined(F, 0)) = Initial
    BY JoinedNone, MergedNone
  <2> QED BY <1>1, <2>1, MeansStart
<1>11. ASSUME NEW c \in Nat, c < n, c \in T PROVE c + 1 \in T
  <2>1. c + 1 \in 1..n /\ c \in 0..n /\ c + 1 # 0
    BY <1>11
  <2>2. reached(c) = Offset(s, c + 1)
    <3>1. CASE c = 0
      BY <1>3, <3>1, ChunkFacts
    <3>2. CASE c # 0
      BY <1>1, <1>2, <1>4, <1>11, <3>2 DEF Finish
    <3> QED BY <3>1, <3>2
  <2>3. PICK f : f = Merged(Initial, Joined(F, c))
    OBVIOUS
  <2>4. Means(f, Offset(s, c + 1) + 1, 0)
    BY <1>11, <2>2, <2>3
  <2>5. Means(Merged(f, F[c + 1]), Finish(s, c + 1) + 1, 0)
    BY <1>9, <2>1, <2>4
  <2>6. Merged(Initial, Joined(F, c + 1)) = Merged(f, F[c + 1])
    <3>1. Joined(F, c) \in Seq(Writes) /\ F[c + 1] \in Seq(Writes)
      BY <1>6, <1>7, <2>1
    <3>2. Joined(F, c + 1) = Joined(F, c) \o F[c + 1]
      BY <1>7, <1>11
    <3>3. PICK x \in Seq(Writes), y \in Seq(Writes) : x = Joined(F, c) /\ y = F[c + 1]
      BY <3>1
    <3>4. Merged(Initial, x \o y) = Merged(Merged(Initial, x), y)
      BY MergedConcat
    <3> QED BY <2>3, <3>2, <3>3, <3>4
  <2>7. reached(c + 1) = Finish(s, c + 1)
    BY <2>1
  <2> QED BY <2>5, <2>6, <2>7
<1>12. reached(n) = Len(s)
  <2>1. CASE n = 0
    BY <1>1, <1>2, <1>3, <1>4, <2>1, ChunkFacts
  <2>2. CASE n # 0
    BY <1>1, <1>2, <1>4, <2>2 DEF Finish
  <2> QED BY <2>1, <2>2
<1> HIDE DEF T
<1>13. \A c \in 0..n : c \in T
  BY <1>10, <1>11, UpTo
<1>14. n \in T
  BY <1>13
<1>15. Means(Merged(Initial, Joined(F, n)), reached(n) + 1, 0)
  BY <1>14 DEF T
<1> QED BY <1>2, <1>8, <1>12, <1>15

LEMMA JoinKeeps == ASSUME IInv, Join PROVE IInv'
<1>1. /\ phase = "tasks" /\ \A c \in DOMAIN status : status[c] # "running"
      /\ why' = MergeError
      /\ UNCHANGED <<body, range, chunks, next, writes, status, cancelled>>
  BY DEF Join, Joinable, tasks
<1>2. TypeOK /\ Runs /\ writes \in [DOMAIN chunks -> Seq(Writes)] /\ arrays = Initial
  BY <1>1 DEF IInv, AllOrNothing
<1>3. status \in [DOMAIN chunks -> Statuses] /\ DOMAIN writes = DOMAIN chunks
      /\ DOMAIN status = 1..Len(chunks) /\ DOMAIN chunks = 1..Len(chunks) /\ Len(chunks) \in Nat
  BY <1>2, TaskTypes DEF TypeOK
<1>4. /\ FirstStopped = 0 => \A c \in DOMAIN chunks : status[c] = "ok"
      /\ FirstStopped # 0 => FirstStopped \in DOMAIN chunks /\ status[FirstStopped] \in {"error", "interrupted"}
  <2>1. /\ FirstStopped = 0 => \A c \in 1..Len(chunks) : status[c] = "ok"
        /\ FirstStopped # 0 => FirstStopped \in 1..Len(chunks) /\ status[FirstStopped] # "ok"
    BY <1>3, FirstStoppedFacts
  <2>2. \A c \in DOMAIN chunks : status[c] \in {"ok", "error", "interrupted"}
    BY <1>1, <1>3 DEF Statuses
  <2> QED BY <1>3, <2>1, <2>2
<1> DEFINE reached == IF FirstStopped = 0 THEN DOMAIN writes ELSE 1..(FirstStopped - 1)
<1> DEFINE out == \E c \in reached : \E k \in 1..Len(writes[c]) : OutOfBounds(writes[c][k])
<1>5. MergeError = IF out THEN "error" ELSE IF FirstStopped = 0 THEN "none" ELSE status[FirstStopped]
  BY DEF MergeError
<1>6. \A c \in reached : c \in DOMAIN chunks
  <2>1. CASE FirstStopped = 0
    BY <1>3, <2>1
  <2>2. CASE FirstStopped # 0
    BY <1>3, <1>4, <2>2
  <2> QED BY <2>1, <2>2
<1>7. MergeError \in {"none", "error", "interrupted"}
  BY <1>4, <1>5
<1>8. MergeError = "error" => HasError
  <2> SUFFICES ASSUME MergeError = "error" PROVE HasError
    OBVIOUS
  <2>1. CASE out
    <3>1. PICK c \in reached : \E k \in 1..Len(writes[c]) : OutOfBounds(writes[c][k])
      BY <2>1
    <3> QED BY <1>1, <1>6, <3>1, OutIsError
  <2>2. CASE ~out
    <3>1. FirstStopped \in DOMAIN chunks /\ status[FirstStopped] = "error"
      BY <1>4, <1>5, <2>2
    <3> QED BY <1>1, <3>1, FailIsError
  <2> QED BY <2>1, <2>2
<1>9. MergeError = "interrupted" => cancelled
  <2> SUFFICES ASSUME MergeError = "interrupted" PROVE cancelled
    OBVIOUS
  <2>1. FirstStopped \in DOMAIN chunks /\ status[FirstStopped] = "interrupted"
    BY <1>4, <1>5
  <2>2. Task(FirstStopped)
    BY <1>1, <1>3, <2>1 DEF IInv
  <2> QED BY <2>1, <2>2 DEF Task
<1>10. MergeError = "none" => ~out /\ \A c \in DOMAIN chunks : status[c] = "ok"
  BY <1>4, <1>5
<1>11. why' \in Statuses \cup {"none", "zero step", "E0082", "not an array", "overflow"}
  BY <1>1, <1>7 DEF Statuses
<1>12. CASE MergeError = "none"
  <2>1. phase' = "done" /\ arrays' = Merged(Initial, AllWrites)
    BY <1>12 DEF Join
  <2>2. \A c \in DOMAIN chunks : \A x \in 1..Len(writes[c]) : ~OutOfBounds(writes[c][x])
    <3>1. FirstStopped = 0
      BY <1>4, <1>5, <1>12
    <3>2. reached = DOMAIN chunks
      BY <1>3, <3>1
    <3> QED BY <1>10, <1>12, <3>2
  <2>3. ~HasError
    BY <1>1, <1>10, <1>12, <2>2, NoError
  <2>4. PICK f : f = Merged(Initial, AllWrites)
    OBVIOUS
  <2>5. PICK k : k = Len(Indices(range)) + 1
    OBVIOUS
  <2>6. Means(f, k, 0)
    BY <1>1, <1>10, <1>12, <2>4, <2>5, MergedTasks
  <2>7. Runs' /\ ~HasError' /\ Means(f, k, 0)'
    BY <1>1, <1>2, <2>3, <2>6, SameLoop
  <2>8. \A g, m : g = arrays' /\ m = Len(Indices(range')) + 1 => Means(g, m, 0)'
    BY <1>1, <2>1, <2>4, <2>5, <2>7
  <2>9. DOMAIN arrays' = Arrays
        /\ \A a \in Arrays : arrays'[a] \in Seq(Int) /\ Len(arrays'[a]) = Len(Initial[a])
    <3>1. f \in Stores
      BY <2>6 DEF Means
    <3> QED BY <2>1, <2>4, <3>1 DEF Stores
  <2>10. TypeOK'
    BY <1>1, <1>2, <1>11, <2>1, <2>9 DEF TypeOK
  <2> QED BY <2>1, <2>7, <2>8, <2>10 DEF IInv, AllOrNothing
<1>13. CASE MergeError # "none"
  <2>1. phase' = "failed" /\ UNCHANGED arrays
    BY <1>13 DEF Join
  <2>2. TypeOK'
    BY <1>1, <1>2, <1>11, <2>1 DEF TypeOK
  <2>3. (why' = "error" => HasError') /\ (why' = "interrupted" => cancelled')
    BY <1>1, <1>8, <1>9, SameLoop
  <2> QED BY <1>2, <2>1, <2>2, <2>3 DEF IInv, AllOrNothing
<1> QED BY <1>12, <1>13
-----------------------------------------------------------------------------
LEMMA UntouchedSlot ==
  ASSUME NEW v, NEW a, NEW n, NEW k, NEW j, SlotMeans(v, a, n, k, j), Untouched(a, n, k, j)
  PROVE  v = Initial[a][n]
BY DEF SlotMeans, Untouched, LastHit

(* When no two steps touch one slot, a step of the sequential loop finds   *)
(* in the slots it reads, and in the one it adds to, what they held before *)
(* the loop: it writes what the task writes.                               *)
LEMMA ForStepWrites ==
  ASSUME Runs, ~HasError, Independent,
         NEW k \in 1..Len(Indices(range)), NEW j \in Nat, j + 1 \in 1..Len(body),
         NEW f, Means(f, k, j), Assigns(body[j + 1])
  PROVE  ForStep(f, body[j + 1], Indices(range)[k]) = Apply(f, WriteOf(body[j + 1], Indices(range)[k]))
<1>1. PICK i : i = Indices(range)[k]
  OBVIOUS
<1>2. PICK s : s = body[j + 1]
  OBVIOUS
<1>3. PICK e : e = <<k, j + 1>>
  OBVIOUS
<1>4. e \in Order /\ e[1] = k /\ e[2] = j + 1
  BY <1>3, OrderFacts
<1>5. ~Fails(s, i) /\ InBounds(s.at, i) /\ Assigns(s)
  BY <1>1, <1>2, <1>4 DEF HasError
<1>6. i \in Int /\ s.at.arr \in Arrays /\ Slot(s.at, i) \in Int /\ Slot(s.from, i) \in Int
  BY <1>1, <1>2, BodyFacts
<1>7. ASSUME NEW a \in Arrays, NEW x \in 0..(Len(Initial[a]) - 1),
             \A p \in Order : Hits(p, a, x) /\ p # e => Clash(p, e)
      PROVE  f[a][x + 1] = Initial[a][x + 1]
  <2>1. x + 1 \in 1..Len(Initial[a])
    BY InitialSlot
  <2>2. SlotMeans(f[a][x + 1], a, x + 1, k, j)
    BY <2>1 DEF Means
  <2>3. (x + 1) - 1 = x
    OBVIOUS
  <2>4. ASSUME NEW p \in Order, Reached(p, k, j), Hits(p, a, x) PROVE FALSE
    <3>1. p # e
      BY <1>3, <2>4, ReachedMore
    <3>2. Clash(p, e)
      BY <1>7, <2>4, <3>1
    <3> QED BY <1>4, <3>2 DEF Independent
  <2>5. Untouched(a, x + 1, k, j)
    BY <2>3, <2>4 DEF Untouched
  <2> QED BY <2>2, <2>5, UntouchedSlot
<1>8. Value(f, s, i) = Value(Initial, s, i)
  <2>1. CASE s.from = Nothing
    BY <2>1 DEF Value
  <2>2. CASE s.from # Nothing
    <3>1. CanRead(s.from, i)
      BY <1>5, <2>2 DEF Fails
    <3>2. PICK a, x : a = s.from.arr /\ x = ReadSlot(s.from, i)
      OBVIOUS
    <3>3. a \in Arrays /\ x \in 0..(Len(Initial[a]) - 1)
      BY <3>1, <3>2 DEF CanRead
    <3>4. ASSUME NEW p \in Order, Hits(p, a, x), p # e PROVE Clash(p, e)
      BY <1>1, <1>2, <1>4, <2>2, <3>2, <3>4 DEF Hits, Clash
    <3>5. f[a][x + 1] = Initial[a][x + 1]
      BY <1>7, <3>3, <3>4
    <3> QED BY <2>2, <3>2, <3>5 DEF Value, At
  <2> QED BY <2>1, <2>2
<1>9. f[s.at.arr][Slot(s.at, i) + 1] = At(Initial, s.at, i)
  <2>1. PICK a, x : a = s.at.arr /\ x = Slot(s.at, i)
    OBVIOUS
  <2>2. a \in Arrays /\ x \in 0..(Len(Initial[a]) - 1)
    BY <1>5, <1>6, <2>1 DEF InBounds
  <2>3. ASSUME NEW p \in Order, Hits(p, a, x), p # e PROVE Clash(p, e)
    BY <1>1, <1>2, <1>4, <1>5, <2>1, <2>3 DEF Hits, Clash
  <2>4. f[a][x + 1] = Initial[a][x + 1]
    BY <1>7, <2>2, <2>3
  <2>5. ReadSlot(s.at, i) = x
    BY <2>1, <2>2 DEF ReadSlot
  <2> QED BY <2>1, <2>4, <2>5 DEF At
<1>10. PICK v : v = IF s.kind = "add" THEN At(Initial, s.at, i) + Value(Initial, s, i) ELSE Value(Initial, s, i)
  OBVIOUS
<1>11. ForStep(f, s, i) = [f EXCEPT ![s.at.arr][Slot(s.at, i) + 1] = v]
  <2>1. ForStep(f, s, i)
          = [f EXCEPT ![s.at.arr] = [f[s.at.arr] EXCEPT ![Slot(s.at, i) + 1] =
               IF s.kind = "add" THEN f[s.at.arr][Slot(s.at, i) + 1] + Value(f, s, i) ELSE Value(f, s, i)]]
    BY <1>5 DEF ForStep
  <2> QED BY <1>8, <1>9, <1>10, <2>1
<1>12. Apply(f, WriteOf(s, i)) = [f EXCEPT ![s.at.arr][Slot(s.at, i) + 1] = v]
  <2>1. WriteOf(s, i) = [arr |-> s.at.arr, slot |-> Slot(s.at, i), val |-> v]
    BY <1>10 DEF WriteOf
  <2> QED BY <2>1 DEF Apply
<1> QED BY <1>1, <1>2, <1>11, <1>12

LEMMA ForStepMeans ==
  ASSUME Runs, ~HasError, Independent,
         NEW k \in 1..Len(Indices(range)), NEW j \in Nat, j + 1 \in 1..Len(body),
         NEW f, Means(f, k, j)
  PROVE  Means(ForStep(f, body[j + 1], Indices(range)[k]), k, j + 1)
<1>1. CASE Assigns(body[j + 1])
  <2>1. PICK e : e = <<k, j + 1>>
    OBVIOUS
  <2>2. e \in Order /\ e[1] = k /\ e[2] = j + 1
    BY <2>1, OrderFacts
  <2>3. ~Fails(body[j + 1], Indices(range)[k])
    BY <2>2 DEF HasError
  <2> QED BY <1>1, <2>3, ForStepWrites, MeansWrite
<1>2. CASE ~Assigns(body[j + 1])
  <2>1. ForStep(f, body[j + 1], Indices(range)[k]) = f
    BY <1>2 DEF ForStep
  <2> QED BY <1>2, <2>1, MeansSkip
<1> QED BY <1>1, <1>2
-----------------------------------------------------------------------------
(* The recursive function inside ForBody. *)
Stepping(h, f, i, n) == h = [k \in 0..n |-> IF k = 0 THEN f ELSE ForStep(h[k - 1], body[k], i)]

LEMMA SteppingExists ==
  ASSUME NEW f, NEW i, NEW n \in Nat
  PROVE  \E h : Stepping(h, f, i, n)
<1> DEFINE T == {k \in Nat : \E h : Stepping(h, f, i, k)}
<1>1. 0 \in T
  <2> DEFINE h == [k \in 0..0 |-> f]
  <2>1. h = [k \in 0..0 |-> IF k = 0 THEN f ELSE ForStep(h[k - 1], body[k], i)]
    OBVIOUS
  <2> HIDE DEF h
  <2> QED BY <2>1 DEF Stepping
<1>2. ASSUME NEW k \in Nat, k < n, k \in T PROVE k + 1 \in T
  <2>1. PICK h : Stepping(h, f, i, k)
    BY <1>2
  <2>2. h = [m \in 0..k |-> IF m = 0 THEN f ELSE ForStep(h[m - 1], body[m], i)]
    BY <2>1 DEF Stepping
  <2>3. PICK g : g = [m \in 0..(k + 1) |-> IF m <= k THEN h[m] ELSE ForStep(h[k], body[k + 1], i)]
    OBVIOUS
  <2>4. \A m \in 0..k : g[m] = h[m] /\ h[m] = (IF m = 0 THEN f ELSE ForStep(h[m - 1], body[m], i))
    BY <2>2, <2>3
  <2>5. g[k + 1] = ForStep(h[k], body[k + 1], i)
    BY <2>3
  <2>6. ASSUME NEW m \in 0..(k + 1) PROVE g[m] = IF m = 0 THEN f ELSE ForStep(g[m - 1], body[m], i)
    <3>1. CASE m = 0
      BY <2>4, <3>1
    <3>2. CASE m \in 1..k
      <4>1. m - 1 \in 0..k /\ m \in 0..k /\ m # 0
        BY <3>2
      <4> QED BY <2>4, <4>1
    <3>3. CASE m = k + 1
      <4>1. m - 1 = k /\ k \in 0..k /\ m # 0
        BY <3>3
      <4> QED BY <2>4, <2>5, <3>3, <4>1
    <3> QED BY <3>1, <3>2, <3>3
  <2>7. g = [m \in 0..(k + 1) |-> g[m]]
    BY <2>3
  <2>8. g = [m \in 0..(k + 1) |-> IF m = 0 THEN f ELSE ForStep(g[m - 1], body[m], i)]
    BY <2>6, <2>7
  <2> QED BY <2>8 DEF Stepping
<1> HIDE DEF T
<1>3. \A k \in 0..n : k \in T
  BY <1>1, <1>2, UpTo
<1> QED BY <1>3 DEF T

LEMMA ForBodyMeans ==
  ASSUME Runs, ~HasError, Independent, NEW k \in 1..Len(Indices(range)), NEW f, Means(f, k, 0)
  PROVE  Means(ForBody(f, Indices(range)[k]), k + 1, 0)
<1>1. PICK i : i = Indices(range)[k]
  OBVIOUS
<1>2. PICK n \in Nat : n = Len(body)
  BY BodyFacts
<1> DEFINE h == CHOOSE h : h = [m \in 0..n |-> IF m = 0 THEN f ELSE ForStep(h[m - 1], body[m], i)]
<1>3. ForBody(f, i) = h[n]
  BY <1>2, Zenon DEF ForBody
<1>4. \E g : g = [m \in 0..n |-> IF m = 0 THEN f ELSE ForStep(g[m - 1], body[m], i)]
  <2>1. PICK g : Stepping(g, f, i, n)
    BY SteppingExists
  <2> QED BY <2>1, Zenon DEF Stepping
<1>5. h = [m \in 0..n |-> IF m = 0 THEN f ELSE ForStep(h[m - 1], body[m], i)]
  BY <1>4, Zenon
<1> HIDE DEF h
<1> DEFINE T == {j \in Nat : Means(h[j], k, j)}
<1>6. 0 \in T
  BY <1>5
<1>7. ASSUME NEW j \in Nat, j < n, j \in T PROVE j + 1 \in T
  <2>1. j + 1 \in 0..n /\ j + 1 # 0 /\ (j + 1) - 1 = j /\ j + 1 \in 1..Len(body)
    BY <1>2, <1>7
  <2>2. h[j + 1] = ForStep(h[j], body[j + 1], i)
    BY <1>5, <2>1
  <2>3. PICK g : g = h[j]
    OBVIOUS
  <2>4. Means(g, k, j)
    BY <1>7, <2>3
  <2>5. Means(ForStep(g, body[j + 1], i), k, j + 1)
    BY <1>1, <2>1, <2>4, ForStepMeans
  <2> QED BY <2>2, <2>3, <2>5
<1> HIDE DEF T
<1>8. \A j \in 0..n : j \in T
  BY <1>6, <1>7, UpTo
<1>9. n \in T
  BY <1>8
<1>10. Means(h[n], k, Len(body))
  BY <1>2, <1>9 DEF T
<1>11. PICK g : g = h[n]
  OBVIOUS
<1>12. Means(g, k + 1, 0)
  BY <1>10, <1>11, MeansNext
<1> QED BY <1>1, <1>3, <1>11, <1>12

(* The recursive function inside ForLoop. *)
Looping(h, is, n) == h = [k \in 0..n |-> IF k = 0 THEN Initial ELSE ForBody(h[k - 1], is[k])]

LEMMA LoopingExists ==
  ASSUME NEW is, NEW n \in Nat
  PROVE  \E h : Looping(h, is, n)
<1> DEFINE T == {k \in Nat : \E h : Looping(h, is, k)}
<1>1. 0 \in T
  <2> DEFINE h == [k \in 0..0 |-> Initial]
  <2>1. h = [k \in 0..0 |-> IF k = 0 THEN Initial ELSE ForBody(h[k - 1], is[k])]
    OBVIOUS
  <2> HIDE DEF h
  <2> QED BY <2>1 DEF Looping
<1>2. ASSUME NEW k \in Nat, k < n, k \in T PROVE k + 1 \in T
  <2>1. PICK h : Looping(h, is, k)
    BY <1>2
  <2>2. h = [m \in 0..k |-> IF m = 0 THEN Initial ELSE ForBody(h[m - 1], is[m])]
    BY <2>1 DEF Looping
  <2>3. PICK g : g = [m \in 0..(k + 1) |-> IF m <= k THEN h[m] ELSE ForBody(h[k], is[k + 1])]
    OBVIOUS
  <2>4. \A m \in 0..k : g[m] = h[m] /\ h[m] = (IF m = 0 THEN Initial ELSE ForBody(h[m - 1], is[m]))
    BY <2>2, <2>3
  <2>5. g[k + 1] = ForBody(h[k], is[k + 1])
    BY <2>3
  <2>6. ASSUME NEW m \in 0..(k + 1) PROVE g[m] = IF m = 0 THEN Initial ELSE ForBody(g[m - 1], is[m])
    <3>1. CASE m = 0
      BY <2>4, <3>1
    <3>2. CASE m \in 1..k
      <4>1. m - 1 \in 0..k /\ m \in 0..k /\ m # 0
        BY <3>2
      <4> QED BY <2>4, <4>1
    <3>3. CASE m = k + 1
      <4>1. m - 1 = k /\ k \in 0..k /\ m # 0
        BY <3>3
      <4> QED BY <2>4, <2>5, <3>3, <4>1
    <3> QED BY <3>1, <3>2, <3>3
  <2>7. g = [m \in 0..(k + 1) |-> g[m]]
    BY <2>3
  <2>8. g = [m \in 0..(k + 1) |-> IF m = 0 THEN Initial ELSE ForBody(g[m - 1], is[m])]
    BY <2>6, <2>7
  <2> QED BY <2>8 DEF Looping
<1> HIDE DEF T
<1>3. \A k \in 0..n : k \in T
  BY <1>1, <1>2, UpTo
<1> QED BY <1>3 DEF T

LEMMA ForLoopMeans ==
  ASSUME Runs, ~HasError, Independent
  PROVE  Means(ForLoop, Len(Indices(range)) + 1, 0)
<1>1. PICK is : is = Indices(range)
  OBVIOUS
<1>2. PICK n \in Nat : n = Len(is)
  BY <1>1, BodyFacts
<1> DEFINE h == CHOOSE h : h = [k \in 0..n |-> IF k = 0 THEN Initial ELSE ForBody(h[k - 1], is[k])]
<1>3. ForLoop = h[n]
  BY <1>1, <1>2, Zenon DEF ForLoop
<1>4. \E g : g = [k \in 0..n |-> IF k = 0 THEN Initial ELSE ForBody(g[k - 1], is[k])]
  <2>1. PICK g : Looping(g, is, n)
    BY LoopingExists
  <2> QED BY <2>1, Zenon DEF Looping
<1>5. h = [k \in 0..n |-> IF k = 0 THEN Initial ELSE ForBody(h[k - 1], is[k])]
  BY <1>4, Zenon
<1> HIDE DEF h
<1> DEFINE T == {k \in Nat : Means(h[k], k + 1, 0)}
<1>6. 0 \in T
  BY <1>5, MeansStart
<1>7. ASSUME NEW k \in Nat, k < n, k \in T PROVE k + 1 \in T
  <2>1. k + 1 \in 0..n /\ k + 1 # 0 /\ (k + 1) - 1 = k /\ k + 1 \in 1..Len(is)
    BY <1>2, <1>7
  <2>2. h[k + 1] = ForBody(h[k], is[k + 1])
    BY <1>5, <2>1
  <2>3. PICK g : g = h[k]
    OBVIOUS
  <2>4. Means(g, k + 1, 0)
    BY <1>7, <2>3
  <2>5. Means(ForBody(g, is[k + 1]), (k + 1) + 1, 0)
    BY <1>1, <2>1, <2>4, ForBodyMeans
  <2> QED BY <2>2, <2>3, <2>5
<1> HIDE DEF T
<1>8. \A k \in 0..n : k \in T
  BY <1>6, <1>7, UpTo
<1>9. n \in T
  BY <1>8
<1>10. Means(h[n], n + 1, 0)
  BY <1>9 DEF T
<1> QED BY <1>1, <1>2, <1>3, <1>10

LEMMA StepIInv == IInv /\ [Next]_vars => IInv'
<1> SUFFICES ASSUME IInv, [Next]_vars PROVE IInv'
  OBVIOUS
<1>1. CASE Start
  BY <1>1, StartKeeps
<1>2. CASE Join
  BY <1>2, JoinKeeps
<1>3. CASE \E c \in DOMAIN chunks : Iterate(c) \/ Interrupted(c) \/ TaskEnds(c)
  BY <1>3, IterateKeeps, InterruptedKeeps, TaskEndsKeeps
<1>4. CASE Cancel
  BY <1>4, CancelKeeps
<1>5. CASE UNCHANGED vars
  <2>1. UNCHANGED <<body, range, arrays, chunks, next, writes, status, cancelled, phase, why>>
    BY <1>5 DEF vars
  <2>2. TypeOK' /\ AllOrNothing'
    BY <2>1 DEF IInv, TypeOK, AllOrNothing
  <2>3. phase' = "tasks" => /\ Runs' /\ chunks' = Chunks(Indices(range'))
                            /\ writes' \in [DOMAIN chunks' -> Seq(Writes)]
                            /\ \A c \in 1..Len(chunks') : Task(c)'
    BY <2>1, SameLoop, SameTask DEF IInv
  <2>4. phase' = "done" => /\ Runs' /\ ~HasError'
                           /\ \A f, k : f = arrays' /\ k = Len(Indices(range')) + 1 => Means(f, k, 0)'
    BY <2>1, SameLoop DEF IInv
  <2>5. phase' = "failed" => (why' = "error" => HasError') /\ (why' = "interrupted" => cancelled')
    BY <2>1, SameLoop DEF IInv
  <2> QED BY <2>2, <2>3, <2>4, <2>5 DEF IInv
<1> QED BY <1>1, <1>2, <1>3, <1>4, <1>5 DEF Next, Work, Ended

LEMMA Inductive == Spec => []IInv
BY InitIInv, StepIInv, PTL DEF Spec

(* The state of a loop has the types of the Rust values: the arrays keep   *)
(* their length, every task has a chunk of its own and a place in it.      *)
THEOREM LoopTypes == Spec => []TypeOK
BY Inductive, PTL DEF IInv

(* A loop that fails or is interrupted, at any moment and in any task, has *)
(* not changed the arrays: eval_parfor merges into a copy.                 *)
THEOREM NothingHalfDone == Spec => []AllOrNothing
BY Inductive, PTL DEF IInv

(* The closed form the limit of a loop is checked on is the number of      *)
(* indices it then materializes, whatever the bounds and the step.         *)
THEOREM ExactCount == Spec => []CountIsExact
<1>1. IInv => CountIsExact
  BY IndexFacts DEF IInv, TypeOK, CountIsExact
<1> QED BY <1>1, Inductive, PTL

(* Whatever the number of threads, the chunks and the order the tasks run  *)
(* in, a loop that ends has given every slot the last write in index       *)
(* order; it fails only on a step that fails or is out of bounds, and is   *)
(* interrupted only when the host asked, and then has written nothing.     *)
THEOREM OrderOfTasksDoesNotShow == Spec => []ResultIsMeaning
<1>1. IInv => ResultIsMeaning
  <2> SUFFICES ASSUME IInv PROVE ResultIsMeaning
    OBVIOUS
  <2>1. ASSUME phase = "done" PROVE ~HasError /\ arrays = Meaning
    <3>1. Runs /\ ~HasError /\ Means(arrays, Len(Indices(range)) + 1, 0)
      BY <2>1 DEF IInv
    <3> QED BY <3>1, MeansEnd
  <2>2. AllOrNothing
    BY DEF IInv
  <2> QED BY <2>1, <2>2 DEF IInv, ResultIsMeaning
<1> QED BY <1>1, Inductive, PTL

(* When no step of the loop touches a slot another step writes, a loop     *)
(* that ends has computed what the sequential `for` computes.              *)
THEOREM LikeTheForLoop == Spec => []IndependentIsSequential
<1>1. IInv => IndependentIsSequential
  <2> SUFFICES ASSUME IInv, phase = "done", Independent PROVE arrays = ForLoop
    BY DEF IndependentIsSequential
  <2>1. Runs /\ ~HasError /\ Means(arrays, Len(Indices(range)) + 1, 0)
    BY DEF IInv
  <2>2. Means(ForLoop, Len(Indices(range)) + 1, 0)
    BY <2>1, ForLoopMeans
  <2>3. arrays = Meaning
    BY <2>1, MeansEnd
  <2>4. ForLoop = Meaning
    BY <2>1, <2>2, MeansEnd
  <2> QED BY <2>3, <2>4
<1> QED BY <1>1, Inductive, PTL
=============================================================================

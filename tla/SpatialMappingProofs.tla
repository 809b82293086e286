------------------------- MODULE SpatialMappingProofs -------------------------
(***************************************************************************)
(* Proofs about SpatialMapping and MeshExecution, for all kernels, meshes, *)
(* splits, priorities and distributions.                                   *)
(*                                                                         *)
(* The inductive invariant MapInv says that the loops made are the first   *)
(* ones of the claims, that each iterator has been divided by the cores it *)
(* is spread over so far, and that an index without a clamp needs none.    *)
(* What a mapped kernel runs follows from it: the claims give every        *)
(* iterator one loop or two (ClaimsShape), the cores on them are numbered  *)
(* without a gap or a repetition (EveryIteratorNumbered), and the numbers  *)
(* with the waves are the iterations (CyclicCovers, BlockedCovers,         *)
(* CyclicRunsOnce).  PlaceInv adds that the levels of an axis multiply to  *)
(* its cores: positions are numbers in mixed radix.  A rectangle is then   *)
(* the cores that agree outside the overridden loops (RegionIsCores), of   *)
(* which GatherInv makes the gather's, and MeshInv those that the mesh     *)
(* starts with.  The operations of a core have keys, the order it comes to *)
(* them (ProgramListed); RunsInStep says that the cores of a rectangle     *)
(* have an operation at the same key and are past it together, so that the *)
(* one with the first key of all can always be carried out.                *)
(***************************************************************************)
EXTENDS MeshExecution, SequenceFacts, TLAPS

-----------------------------------------------------------------------------
(* The index arithmetic of module WaveIndex, for every extent and every     *)
(* number of cores. The two distributions are positional notations, cyclic  *)
(* with the core as the low digit and blocked with the wave as the low      *)
(* digit, so both rest on PlaceValueUnique and PlaceValueExists; the trip   *)
(* counts rest on CeilDivBounds, which determines a rounded-up quotient     *)
(* (CeilDivUnique).                                                         *)

\* Euclidean division, in the form the other lemmas use.
LEMMA Division ==
  ASSUME NEW a \in Nat, NEW b \in Nat \ {0}
  PROVE  /\ a \div b \in Nat
         /\ a % b \in 0 .. b - 1
         /\ a = b * (a \div b) + (a % b)
  BY SMT

\* A positive factor can be cancelled from a strict inequality.
LEMMA LessByOneStep ==
  ASSUME NEW b \in Nat \ {0}, NEW p \in Int, NEW q \in Int, p * b < q * b
  PROVE  p < q
  BY SMT

\* A factor can be multiplied to an inequality.
LEMMA ProductMonotone ==
  ASSUME NEW b \in Nat, NEW p \in Int, NEW q \in Int, p <= q
  PROVE  p * b <= q * b
  BY SMT

\* The trip count covers the extent, and would not with one trip less.
LEMMA CeilDivBounds ==
  ASSUME NEW a \in Nat, NEW b \in Nat \ {0}
  PROVE  /\ CeilDiv(a, b) \in Nat
         /\ a <= CeilDiv(a, b) * b
         /\ CeilDiv(a, b) * b < a + b
<1> DEFINE n == a + b - 1
           q == n \div b
<1>1. n \in Nat
  BY SMT
<1>2. q \in Nat /\ n % b \in 0 .. b - 1 /\ n = b * q + (n % b)
  <2> HIDE DEF n
  <2> QED BY <1>1, Division
<1>3. CeilDiv(a, b) = q
  BY DEF CeilDiv
<1>4. b * q = q * b
  BY <1>2, SMT
<1> HIDE DEF q
<1> QED BY <1>2, <1>3, <1>4, SMT

\* Only the trip count has these bounds.
LEMMA CeilDivUnique ==
  ASSUME NEW a \in Nat, NEW b \in Nat \ {0}, NEW q \in Nat,
         a <= q * b, q * b < a + b
  PROVE  q = CeilDiv(a, b)
<1> DEFINE c == CeilDiv(a, b)
<1>1. c \in Nat /\ a <= c * b /\ c * b < a + b
  BY CeilDivBounds
<1> HIDE DEF c
<1>2. q * b < (c + 1) * b
  BY <1>1, SMT
<1>3. c * b < (q + 1) * b
  BY <1>1, SMT
<1>4. q < c + 1 /\ c < q + 1
  BY <1>1, <1>2, <1>3, LessByOneStep
<1> QED BY <1>1, <1>4 DEF c

\* Two digits determine the number and are determined by it.
LEMMA PlaceValueUnique ==
  ASSUME NEW b \in Nat \ {0}, NEW h \in Nat, NEW k \in Nat,
         NEW d \in 0 .. b - 1, NEW e \in 0 .. b - 1, d + h * b = e + k * b
  PROVE  d = e /\ h = k
<1>1. h * b < (k + 1) * b /\ k * b < (h + 1) * b
  BY SMT
<1>2. h < k + 1 /\ k < h + 1
  BY <1>1, LessByOneStep
<1>3. h = k
  BY <1>2, SMT
<1> QED BY <1>3, SMT

\* Every number below m * b has its two digits.
LEMMA PlaceValueExists ==
  ASSUME NEW b \in Nat \ {0}, NEW m \in Nat, NEW n \in Nat, n < m * b
  PROVE  \E h \in 0 .. m - 1, d \in 0 .. b - 1 : n = d + h * b
<1> DEFINE h == n \div b
           d == n % b
<1>1. h \in Nat /\ d \in 0 .. b - 1 /\ n = b * h + d
  BY Division
<1> HIDE DEF h, d
<1>2. n = d + h * b
  BY <1>1, SMT
<1>3. h * b < m * b
  BY <1>1, <1>2, SMT
<1>4. h < m
  BY <1>1, <1>3, LessByOneStep
<1> QED BY <1>1, <1>2, <1>4, SMT

\* Merging the nested ceildivs of a loop that was tiled twice leaves its trip
\* count as it was: the wave loop's bound (flattenNestedCeilDiv) is the wave count
\* that the blocked index multiplies with (affine_utils.cpp:309-331).
THEOREM FlattenedTrips ==
  ASSUME NEW N \in Nat, NEW A \in Nat \ {0}, NEW B \in Nat \ {0}
  PROVE  FlatTrips(N, A, B) = CeilDiv(CeilDiv(N, A), B)
<1> DEFINE c == CeilDiv(N, A)
           d == CeilDiv(c, B)
<1>1. c \in Nat /\ N <= c * A /\ c * A < N + A
  BY CeilDivBounds
<1>2. d \in Nat /\ c <= d * B /\ d * B <= c + B - 1
  <2> HIDE DEF c
  <2>1. d \in Nat /\ c <= d * B /\ d * B < c + B
    BY <1>1, CeilDivBounds
  <2> QED BY <1>1, <2>1, SMT
<1> HIDE DEF c, d
<1>3. A * B \in Nat \ {0}
  BY SMT
<1>4. N <= d * (A * B)
  <2>1. c * A <= (d * B) * A
    BY <1>1, <1>2, ProductMonotone
  <2>2. (d * B) * A = d * (A * B)
    BY <1>2, SMT
  <2>3. N <= (d * B) * A
    BY <1>1, <1>2, <2>1, SMT
  <2> QED BY <2>2, <2>3
<1>5. d * (A * B) < N + A * B
  <2>1. (d * B) * A <= (c + B - 1) * A
    BY <1>1, <1>2, ProductMonotone
  <2>2. (c + B - 1) * A = c * A + A * B - A
    BY <1>1, SMT
  <2>3. (d * B) * A = d * (A * B)
    BY <1>2, SMT
  <2> QED BY <1>1, <1>2, <2>1, <2>2, <2>3, SMT
<1>6. d = CeilDiv(N, A * B)
  BY <1>2, <1>3, <1>4, <1>5, CeilDivUnique
<1> QED BY <1>6 DEF FlatTrips, c, d

\* The numbers of the cores on two levels: each is in range, each number is a
\* core's, and no two cores share one.
LEMMA RowMajorPlaces ==
  ASSUME NEW O \in Nat \ {0}, NEW S \in Nat \ {0}
  PROVE  /\ \A o \in 0 .. O - 1, i \in 0 .. S - 1 : RowMajor(o, i, S) \in 0 .. O * S - 1
         /\ \A n \in 0 .. O * S - 1 :
              \E o \in 0 .. O - 1, i \in 0 .. S - 1 : n = RowMajor(o, i, S)
         /\ \A o, p \in 0 .. O - 1, i, j \in 0 .. S - 1 :
              RowMajor(o, i, S) = RowMajor(p, j, S) => o = p /\ i = j
<1>1. \A o \in 0 .. O - 1, i \in 0 .. S - 1 : RowMajor(o, i, S) \in 0 .. O * S - 1
  <2> TAKE o \in 0 .. O - 1, i \in 0 .. S - 1
  <2>1. o * S <= (O - 1) * S
    BY ProductMonotone, SMT
  <2>2. (O - 1) * S = O * S - S
    BY SMT
  <2>3. o * S \in Nat /\ O * S \in Nat
    BY SMT
  <2> QED BY <2>1, <2>2, <2>3, SMT DEF RowMajor
<1>2. \A n \in 0 .. O * S - 1 :
        \E o \in 0 .. O - 1, i \in 0 .. S - 1 : n = RowMajor(o, i, S)
  <2> TAKE n \in 0 .. O * S - 1
  <2>1. n \in Nat /\ n < O * S
    BY SMT
  <2>2. PICK o \in 0 .. O - 1, i \in 0 .. S - 1 : n = i + o * S
    BY <2>1, PlaceValueExists
  <2>3. n = RowMajor(o, i, S)
    BY <2>2, SMT DEF RowMajor
  <2> QED BY <2>3
<1>3. ASSUME NEW o \in 0 .. O - 1, NEW p \in 0 .. O - 1,
             NEW i \in 0 .. S - 1, NEW j \in 0 .. S - 1,
             RowMajor(o, i, S) = RowMajor(p, j, S)
      PROVE  o = p /\ i = j
  <2>1. i + o * S = j + p * S
    BY <1>3, SMT DEF RowMajor
  <2>2. o \in Nat /\ p \in Nat
    BY SMT
  <2> QED BY <2>1, <2>2, PlaceValueUnique
<1> QED BY <1>1, <1>2, <1>3

\* Row-major numbering gives the O * S cores of two levels the numbers below
\* O * S, each to one core (emitGlobalIndex2d, index_mapping.cpp:19-21).
THEOREM RowMajorNumbers ==
  ASSUME NEW O \in Nat \ {0}, NEW S \in Nat \ {0}
  PROVE  /\ {RowMajor(o, i, S) : o \in 0 .. O - 1, i \in 0 .. S - 1} = 0 .. O * S - 1
         /\ \A o, p \in 0 .. O - 1, i, j \in 0 .. S - 1 :
              RowMajor(o, i, S) = RowMajor(p, j, S) => o = p /\ i = j
<1>1. \A o \in 0 .. O - 1, i \in 0 .. S - 1 : RowMajor(o, i, S) \in 0 .. O * S - 1
  BY RowMajorPlaces
<1>2. \A n \in 0 .. O * S - 1 :
        \E o \in 0 .. O - 1, i \in 0 .. S - 1 : n = RowMajor(o, i, S)
  BY RowMajorPlaces
<1>3. \A o, p \in 0 .. O - 1, i, j \in 0 .. S - 1 :
        RowMajor(o, i, S) = RowMajor(p, j, S) => o = p /\ i = j
  BY RowMajorPlaces
<1>4. {RowMajor(o, i, S) : o \in 0 .. O - 1, i \in 0 .. S - 1} = 0 .. O * S - 1
  <2> DEFINE A == 0 .. O - 1
             B == 0 .. S - 1
             R == 0 .. O * S - 1
  <2>1. \A o \in A, i \in B : RowMajor(o, i, S) \in R
    BY <1>1
  <2>2. \A n \in R : \E o \in A, i \in B : n = RowMajor(o, i, S)
    BY <1>2
  <2> HIDE DEF A, B, R
  <2>3. {RowMajor(o, i, S) : o \in A, i \in B} = R
    BY <2>1, <2>2
  <2> QED
    BY <2>3 DEF A, B, R
<1> QED BY <1>3, <1>4

------------------------------------------------------------------------------
\* All iterations that C cores run of N, under either distribution.
CyclicIndices(N, C) ==
  {Clamped(CyclicIndex(c, w, C), N) : c \in 0 .. C - 1, w \in 0 .. CeilDiv(N, C) - 1}

BlockedIndices(N, C) ==
  {Clamped(BlockedIndex(c, w, CeilDiv(N, C)), N) :
     c \in 0 .. C - 1, w \in 0 .. CeilDiv(N, C) - 1}

\* The clamp leaves an index in range alone and brings every other one into it.
LEMMA ClampedInRange ==
  ASSUME NEW N \in Nat \ {0}, NEW x \in Nat
  PROVE  Clamped(x, N) \in 0 .. N - 1 /\ (x < N => Clamped(x, N) = x)
  BY SMT DEF Clamped

\* The cyclic distribution runs every iteration and none outside the extent,
\* whether or not the core count divides it (hardware_mapping.cpp:297-356).
THEOREM CyclicCovers ==
  ASSUME NEW N \in Nat \ {0}, NEW C \in Nat \ {0}
  PROVE  CyclicIndices(N, C) = 0 .. N - 1
<1> DEFINE W == CeilDiv(N, C)
<1>1. W \in Nat /\ N <= W * C
  BY CeilDivBounds
<1> HIDE DEF W
<1>2. CyclicIndices(N, C) = {Clamped(CyclicIndex(c, w, C), N) :
                               c \in 0 .. C - 1, w \in 0 .. W - 1}
  BY DEF CyclicIndices, W
<1>3. ASSUME NEW n \in CyclicIndices(N, C)
      PROVE  n \in 0 .. N - 1
  <2>1. PICK c \in 0 .. C - 1, w \in 0 .. W - 1 : n = Clamped(CyclicIndex(c, w, C), N)
    BY <1>2
  <2>2. CyclicIndex(c, w, C) \in Nat
    BY SMT DEF CyclicIndex
  <2> QED BY <2>1, <2>2, ClampedInRange
<1>4. ASSUME NEW n \in 0 .. N - 1
      PROVE  n \in CyclicIndices(N, C)
  <2>1. n \in Nat /\ n < W * C
    BY <1>1, SMT
  <2>2. PICK w \in 0 .. W - 1, c \in 0 .. C - 1 : n = c + w * C
    BY <1>1, <2>1, PlaceValueExists
  <2>3. n = CyclicIndex(c, w, C)
    BY <2>2 DEF CyclicIndex
  <2>4. n = Clamped(CyclicIndex(c, w, C), N)
    BY <2>1, <2>3, SMT DEF Clamped
  <2> QED BY <1>2, <2>4
<1> QED BY <1>3, <1>4

\* So does the blocked distribution (hardware_mapping.cpp:269-296).
THEOREM BlockedCovers ==
  ASSUME NEW N \in Nat \ {0}, NEW C \in Nat \ {0}
  PROVE  BlockedIndices(N, C) = 0 .. N - 1
<1> DEFINE W == CeilDiv(N, C)
<1>1. W \in Nat /\ N <= W * C
  BY CeilDivBounds
<1> HIDE DEF W
<1>2. W # 0 /\ W * C = C * W
  BY <1>1, SMT
<1>3. BlockedIndices(N, C) = {Clamped(BlockedIndex(c, w, W), N) :
                                c \in 0 .. C - 1, w \in 0 .. W - 1}
  BY DEF BlockedIndices, W
<1>4. ASSUME NEW n \in BlockedIndices(N, C)
      PROVE  n \in 0 .. N - 1
  <2>1. PICK c \in 0 .. C - 1, w \in 0 .. W - 1 : n = Clamped(BlockedIndex(c, w, W), N)
    BY <1>3
  <2>2. BlockedIndex(c, w, W) \in Nat
    BY <1>1, SMT DEF BlockedIndex
  <2> QED BY <2>1, <2>2, ClampedInRange
<1>5. ASSUME NEW n \in 0 .. N - 1
      PROVE  n \in BlockedIndices(N, C)
  <2>1. n \in Nat /\ n < C * W
    BY <1>1, <1>2, SMT
  <2>2. PICK c \in 0 .. C - 1, w \in 0 .. W - 1 : n = w + c * W
    BY <1>1, <1>2, <2>1, PlaceValueExists
  <2>3. n = BlockedIndex(c, w, W)
    BY <1>1, <2>2, SMT DEF BlockedIndex
  <2>4. n = Clamped(BlockedIndex(c, w, W), N)
    BY <2>1, <2>3, SMT DEF Clamped
  <2> QED BY <1>3, <2>4
<1> QED BY <1>4, <1>5

\* Under the cyclic distribution an iteration that is run twice is the last one:
\* what the clamp redoes is never anything else (hardware_mapping.cpp:322-328).
THEOREM CyclicRunsOnce ==
  ASSUME NEW N \in Nat \ {0}, NEW C \in Nat \ {0},
         NEW b \in 0 .. C - 1, NEW c \in 0 .. C - 1, NEW v \in Nat, NEW w \in Nat,
         Clamped(CyclicIndex(b, v, C), N) = Clamped(CyclicIndex(c, w, C), N),
         Clamped(CyclicIndex(c, w, C), N) # N - 1
  PROVE  b = c /\ v = w
<1>1. CyclicIndex(b, v, C) \in Nat /\ CyclicIndex(c, w, C) \in Nat
  BY SMT DEF CyclicIndex
<1>2. CyclicIndex(b, v, C) = CyclicIndex(c, w, C)
  BY <1>1, SMT DEF Clamped
<1>3. b + v * C = c + w * C
  BY <1>2 DEF CyclicIndex
<1> QED BY <1>3, PlaceValueUnique

\* The same under the blocked distribution.
THEOREM BlockedRunsOnce ==
  ASSUME NEW N \in Nat \ {0}, NEW W \in Nat \ {0},
         NEW b \in Nat, NEW c \in Nat, NEW v \in 0 .. W - 1, NEW w \in 0 .. W - 1,
         Clamped(BlockedIndex(b, v, W), N) = Clamped(BlockedIndex(c, w, W), N),
         Clamped(BlockedIndex(c, w, W), N) # N - 1
  PROVE  b = c /\ v = w
<1>1. BlockedIndex(b, v, W) \in Nat /\ BlockedIndex(c, w, W) \in Nat
  BY SMT DEF BlockedIndex
<1>2. BlockedIndex(b, v, W) = BlockedIndex(c, w, W)
  BY <1>1, SMT DEF Clamped
<1>3. v + b * W = w + c * W
  BY <1>2, SMT DEF BlockedIndex
<1> QED BY <1>3, PlaceValueUnique

\* Where the core count divides the extent no index is outside it, so that
\* FoldDivisibleWaveClamps may drop the clamp
\* (loom_materialization_pipeline.cpp:71-74).
THEOREM DivisibleNeedsNoClamp ==
  ASSUME NEW N \in Nat \ {0}, NEW C \in Nat \ {0}, N % C = 0,
         NEW c \in 0 .. C - 1, NEW w \in 0 .. CeilDiv(N, C) - 1
  PROVE  CyclicIndex(c, w, C) < N /\ BlockedIndex(c, w, CeilDiv(N, C)) < N
<1> DEFINE W == CeilDiv(N, C)
<1>1. W \in Nat /\ N = W * C
  <2> DEFINE q == N \div C
  <2>1. q \in Nat /\ N = C * q + (N % C)
    BY Division
  <2> HIDE DEF q
  <2>2. N = q * C
    BY <2>1, SMT
  <2>3. q = W
    BY <2>1, <2>2, CeilDivUnique, SMT
  <2> QED BY <2>1, <2>2, <2>3
<1>2. w \in 0 .. W - 1
  OBVIOUS
<1> HIDE DEF W
<1>3. CyclicIndex(c, w, C) < N
  <2>1. w * C <= (W - 1) * C
    BY <1>1, <1>2, ProductMonotone, SMT
  <2>2. (W - 1) * C = W * C - C
    BY <1>1, SMT
  <2>3. w * C \in Nat /\ W * C \in Nat
    BY <1>1, <1>2, SMT
  <2> QED BY <1>1, <2>1, <2>2, <2>3, SMT DEF CyclicIndex
<1>4. BlockedIndex(c, w, W) < N
  <2>1. c * W <= (C - 1) * W
    BY <1>1, ProductMonotone, SMT
  <2>2. (C - 1) * W = W * C - W
    BY <1>1, SMT
  <2>3. c * W \in Nat /\ W * C \in Nat
    BY <1>1, SMT
  <2> QED BY <1>1, <1>2, <2>1, <2>2, <2>3, SMT DEF BlockedIndex
<1> QED BY <1>3, <1>4 DEF W

-----------------------------------------------------------------------------
(* A few loops in order. *)
LEMMA OutermostOfNone == Outermost({}) = <<>>
<1>1. Cardinality({}) = 0
  BY FS_EmptySet
<1>2. [1 .. 0 -> {}] = {<<>>}
  <2>1. \A f \in [1 .. 0 -> {}] : f = <<>>
    OBVIOUS
  <2>2. <<>> \in [1 .. 0 -> {}]
    OBVIOUS
  <2> QED
    BY <2>1, <2>2
<1>3. \A m, n \in DOMAIN <<>> : m < n => <<>>[m] < <<>>[n]
  OBVIOUS
<1> QED
  BY <1>1, <1>2, <1>3 DEF Outermost

\* One loop, in order, is itself.
LEMMA OutermostOfOne ==
  ASSUME NEW a
  PROVE  Outermost({a}) = <<a>>
<1>1. Cardinality({a}) = 1
  BY FS_Singleton
<1>2. \A l \in [1 .. 1 -> {a}] : l = <<a>>
  OBVIOUS
<1>3. <<a>> \in [1 .. 1 -> {a}] /\ \A m, n \in DOMAIN <<a>> : m < n => <<a>>[m] < <<a>>[n]
  OBVIOUS
<1> QED
  BY <1>1, <1>2, <1>3 DEF Outermost

\* Two loops, in order, are the lower one and the higher one.
LEMMA OutermostOfTwo ==
  ASSUME NEW a \in Nat, NEW b \in Nat, a < b
  PROVE  Outermost({a, b}) = <<a, b>>
<1> DEFINE Sorted(l) == \A m, n \in DOMAIN l : m < n => l[m] < l[n]
<1>1. Cardinality({a, b}) = 2
  <2>1. IsFiniteSet({a}) /\ Cardinality({a}) = 1 /\ b \notin {a}
    BY FS_Singleton
  <2>2. {a} \cup {b} = {a, b}
    OBVIOUS
  <2> QED
    BY <2>1, <2>2, FS_AddElement
<1>2. ASSUME NEW l \in [1 .. 2 -> {a, b}], Sorted(l) PROVE l = <<a, b>>
  <2>1. l[1] < l[2] /\ l[1] \in {a, b} /\ l[2] \in {a, b}
    BY <1>2
  <2>2. l[1] = a /\ l[2] = b
    BY <2>1
  <2> QED
    BY <2>2
<1>3. <<a, b>> \in [1 .. 2 -> {a, b}] /\ Sorted(<<a, b>>)
  OBVIOUS
<1> QED
  BY <1>1, <1>2, <1>3 DEF Outermost

(* What CoresOn and CoreNumber compute of one or two loops. *)
LEMMA SubsetsOfTwo ==
  /\ SUBSET (1 .. 1) = {{}, {1}} /\ SUBSET (1 .. 2) = {{}, {1}, {2}, {1, 2}}
  /\ Max({1}) = 1 /\ Max({2}) = 2 /\ Max({1, 2}) = 2
<1>1. 1 .. 1 = {1} /\ 1 .. 2 = {1, 2}
  OBVIOUS
<1>2. ASSUME NEW t \in SUBSET {1, 2} PROVE t \in {{}, {1}, {2}, {1, 2}}
  <2>1. CASE 1 \in t /\ 2 \in t
    BY <2>1
  <2>2. CASE 1 \in t /\ 2 \notin t
    BY <2>2
  <2>3. CASE 1 \notin t /\ 2 \in t
    BY <2>3
  <2>4. CASE 1 \notin t /\ 2 \notin t
    BY <2>4
  <2> QED
    BY <2>1, <2>2, <2>3, <2>4
<1>3. ASSUME NEW t \in SUBSET {1} PROVE t \in {{}, {1}}
  OBVIOUS
<1>4. {1} \in SUBSET (0 .. 2) /\ {2} \in SUBSET (0 .. 2) /\ {1, 2} \in SUBSET (0 .. 2) /\ 2 \in Nat
  OBVIOUS
<1>5. Max({1}) = 1 /\ Max({2}) = 2
  <2>1. Max({1}) \in {1} /\ Max({2}) \in {2}
    BY <1>4, MaxOf
  <2> QED
    BY <2>1
<1>6. Max({1, 2}) = 2
  <2>1. Max({1, 2}) \in {1, 2} /\ \A x \in {1, 2} : x <= Max({1, 2})
    BY <1>4, MaxOf
  <2> QED
    BY <2>1
<1> QED
  BY <1>1, <1>2, <1>3, <1>5, <1>6


(* What CoresOn and CoreNumber compute of the loops s of the sequence l. *)
CoresAlong(l, s) == FoldLeft(LAMBDA a, n : a * l[n].size, 1, s)
NumberAlong(l, c, s) == FoldLeft(LAMBDA a, n : RowMajor(a, c[n], l[n].size), 0, s)
LEMMA NumberOfOne ==
  ASSUME NEW l, NEW c, NEW a
  PROVE  NumberAlong(l, c, <<a>>) = RowMajor(0, c[a], l[a].size)
<1> DEFINE F(x, n) == RowMajor(x, c[n], l[n].size)
           s == <<a>>
           Sol(h) == h = [t \in SUBSET DOMAIN s |->
                            IF t = {} THEN 0 ELSE F(h[t \ {Max(t)}], s[Max(t)])]
           it == CHOOSE h : Sol(h)
           sol == [t \in {{}, {1}} |-> IF t = {} THEN 0 ELSE F(0, a)]
<1>1. FoldLeft(F, 0, s) = it[DOMAIN s]
  BY DEF FoldLeft, MapThenFoldSet
<1>2. DOMAIN s = 1 .. 1 /\ 1 .. 1 = {1} /\ s[1] = a
  OBVIOUS
<1> HIDE DEF F, s
<1>3. Sol(sol)
  <2>1. sol[{}] = 0 /\ sol[{1}] = F(0, a) /\ {1} \ {1} = {}
    OBVIOUS
  <2>2. \A t \in {{}, {1}} :
          sol[t] = IF t = {} THEN 0 ELSE F(sol[t \ {Max(t)}], s[Max(t)])
    BY <1>2, <2>1, SubsetsOfTwo
  <2>3. SUBSET DOMAIN s = {{}, {1}}
    BY <1>2, SubsetsOfTwo
  <2> QED
    BY <2>2, <2>3
<1> HIDE DEF sol
<1>4. Sol(it)
  BY <1>3
<1> HIDE DEF it
<1>5. /\ it[{}] = 0
      /\ it[{1}] = F(it[{}], a)
  <2>1. SUBSET DOMAIN s = {{}, {1}} /\ {1} \ {1} = {}
    BY <1>2, SubsetsOfTwo
  <2>2. \A t \in {{}, {1}} :
          it[t] = IF t = {} THEN 0 ELSE F(it[t \ {Max(t)}], s[Max(t)])
    BY <1>4, <2>1
  <2>3. it[{1}] = F(it[{1} \ {Max({1})}], s[Max({1})])
    BY <2>2
  <2> QED
    BY <1>2, <2>1, <2>2, <2>3, SubsetsOfTwo
<1> QED
  BY <1>1, <1>2, <1>5 DEF F, s, NumberAlong

\* The number of a core on two loops, the outer one's value first.
LEMMA NumberOfTwo ==
  ASSUME NEW l, NEW c, NEW a, NEW b
  PROVE  NumberAlong(l, c, <<a, b>>) = RowMajor(RowMajor(0, c[a], l[a].size), c[b], l[b].size)
<1> DEFINE F(x, n) == RowMajor(x, c[n], l[n].size)
           s == <<a, b>>
           Sol(h) == h = [t \in SUBSET DOMAIN s |->
                            IF t = {} THEN 0 ELSE F(h[t \ {Max(t)}], s[Max(t)])]
           it == CHOOSE h : Sol(h)
           sol == [t \in {{}, {1}, {2}, {1, 2}} |->
                     IF t = {} THEN 0
                     ELSE IF t = {1} THEN F(0, a)
                     ELSE IF t = {2} THEN F(0, b) ELSE F(F(0, a), b)]
<1>1. FoldLeft(F, 0, s) = it[DOMAIN s]
  BY DEF FoldLeft, MapThenFoldSet
<1>2. DOMAIN s = 1 .. 2 /\ 1 .. 2 = {1, 2} /\ s[1] = a /\ s[2] = b
  OBVIOUS
<1>3. {1} \ {1} = {} /\ {2} \ {2} = {} /\ {1, 2} \ {2} = {1} /\ {1} # {2} /\ {1, 2} # {1} /\ {1, 2} # {2}
  OBVIOUS
<1>4. SUBSET DOMAIN s = {{}, {1}, {2}, {1, 2}}
  BY <1>2, SubsetsOfTwo
<1> HIDE DEF F, s
<1>5. Sol(sol)
  <2>1. /\ sol[{}] = 0 /\ sol[{1}] = F(0, a) /\ sol[{2}] = F(0, b)
        /\ sol[{1, 2}] = F(F(0, a), b)
    BY <1>3
  <2>2. sol = [t \in {{}, {1}, {2}, {1, 2}} |-> sol[t]]
    OBVIOUS
  <2> HIDE DEF sol
  <2> DEFINE value(t) == IF t = {} THEN 0 ELSE F(sol[t \ {Max(t)}], s[Max(t)])
  <2>3. /\ sol[{}] = value({}) /\ sol[{1}] = value({1})
        /\ sol[{2}] = value({2}) /\ sol[{1, 2}] = value({1, 2})
    <3>1. /\ s[Max({1})] = a /\ {1} \ {Max({1})} = {}
          /\ s[Max({2})] = b /\ {2} \ {Max({2})} = {}
          /\ s[Max({1, 2})] = b /\ {1, 2} \ {Max({1, 2})} = {1}
      BY <1>2, <1>3, SubsetsOfTwo
    <3> QED
      BY <2>1, <3>1
  <2>4. \A t \in {{}, {1}, {2}, {1, 2}} : sol[t] = value(t)
    <3> HIDE DEF value
    <3> QED
      BY <2>3
  <2>5. [t \in SUBSET DOMAIN s |-> value(t)] = [t \in {{}, {1}, {2}, {1, 2}} |-> sol[t]]
    <3> HIDE DEF value
    <3> QED
      BY <1>4, <2>4
  <2> QED
    BY <2>2, <2>5
<1> HIDE DEF sol
<1>6. Sol(it)
  BY <1>5
<1> HIDE DEF it
<1>7. it[{}] = 0 /\ it[{1}] = F(it[{}], a) /\ it[{1, 2}] = F(it[{1}], b)
  <2>1. \A t \in {{}, {1}, {2}, {1, 2}} :
          it[t] = IF t = {} THEN 0 ELSE F(it[t \ {Max(t)}], s[Max(t)])
    BY <1>4, <1>6
  <2> QED
    BY <1>2, <1>3, <2>1, SubsetsOfTwo
<1> QED
  BY <1>1, <1>2, <1>7 DEF F, s, NumberAlong

\* The cores of one loop are its size.
LEMMA CoresOfOne ==
  ASSUME NEW l, NEW a
  PROVE  CoresAlong(l, <<a>>) = 1 * l[a].size
<1> DEFINE F(x, n) == x * l[n].size
           s == <<a>>
           Sol(h) == h = [t \in SUBSET DOMAIN s |->
                            IF t = {} THEN 1 ELSE F(h[t \ {Max(t)}], s[Max(t)])]
           it == CHOOSE h : Sol(h)
           sol == [t \in {{}, {1}} |-> IF t = {} THEN 1 ELSE F(1, a)]
<1>1. FoldLeft(F, 1, s) = it[DOMAIN s]
  BY DEF FoldLeft, MapThenFoldSet
<1>2. DOMAIN s = 1 .. 1 /\ 1 .. 1 = {1} /\ s[1] = a
  OBVIOUS
<1> HIDE DEF F, s
<1>3. Sol(sol)
  <2>1. sol[{}] = 1 /\ sol[{1}] = F(1, a) /\ {1} \ {1} = {}
    OBVIOUS
  <2>2. \A t \in {{}, {1}} :
          sol[t] = IF t = {} THEN 1 ELSE F(sol[t \ {Max(t)}], s[Max(t)])
    BY <1>2, <2>1, SubsetsOfTwo
  <2>3. SUBSET DOMAIN s = {{}, {1}}
    BY <1>2, SubsetsOfTwo
  <2> QED
    BY <2>2, <2>3
<1> HIDE DEF sol
<1>4. Sol(it)
  BY <1>3
<1> HIDE DEF it
<1>5. /\ it[{}] = 1
      /\ it[{1}] = F(it[{}], a)
  <2>1. SUBSET DOMAIN s = {{}, {1}} /\ {1} \ {1} = {}
    BY <1>2, SubsetsOfTwo
  <2>2. \A t \in {{}, {1}} :
          it[t] = IF t = {} THEN 1 ELSE F(it[t \ {Max(t)}], s[Max(t)])
    BY <1>4, <2>1
  <2>3. it[{1}] = F(it[{1} \ {Max({1})}], s[Max({1})])
    BY <2>2
  <2> QED
    BY <1>2, <2>1, <2>2, <2>3, SubsetsOfTwo
<1> QED
  BY <1>1, <1>2, <1>5 DEF F, s, CoresAlong

\* The cores of two loops are the product of their sizes.
LEMMA CoresOfTwo ==
  ASSUME NEW l, NEW a, NEW b
  PROVE  CoresAlong(l, <<a, b>>) = 1 * l[a].size * l[b].size
<1> DEFINE F(x, n) == x * l[n].size
           s == <<a, b>>
           Sol(h) == h = [t \in SUBSET DOMAIN s |->
                            IF t = {} THEN 1 ELSE F(h[t \ {Max(t)}], s[Max(t)])]
           it == CHOOSE h : Sol(h)
           sol == [t \in {{}, {1}, {2}, {1, 2}} |->
                     IF t = {} THEN 1
                     ELSE IF t = {1} THEN F(1, a)
                     ELSE IF t = {2} THEN F(1, b) ELSE F(F(1, a), b)]
<1>1. FoldLeft(F, 1, s) = it[DOMAIN s]
  BY DEF FoldLeft, MapThenFoldSet
<1>2. DOMAIN s = 1 .. 2 /\ 1 .. 2 = {1, 2} /\ s[1] = a /\ s[2] = b
  OBVIOUS
<1>3. {1} \ {1} = {} /\ {2} \ {2} = {} /\ {1, 2} \ {2} = {1} /\ {1} # {2} /\ {1, 2} # {1} /\ {1, 2} # {2}
  OBVIOUS
<1>4. SUBSET DOMAIN s = {{}, {1}, {2}, {1, 2}}
  BY <1>2, SubsetsOfTwo
<1> HIDE DEF F, s
<1>5. Sol(sol)
  <2>1. /\ sol[{}] = 1 /\ sol[{1}] = F(1, a) /\ sol[{2}] = F(1, b)
        /\ sol[{1, 2}] = F(F(1, a), b)
    BY <1>3
  <2>2. sol = [t \in {{}, {1}, {2}, {1, 2}} |-> sol[t]]
    OBVIOUS
  <2> HIDE DEF sol
  <2> DEFINE value(t) == IF t = {} THEN 1 ELSE F(sol[t \ {Max(t)}], s[Max(t)])
  <2>3. /\ sol[{}] = value({}) /\ sol[{1}] = value({1})
        /\ sol[{2}] = value({2}) /\ sol[{1, 2}] = value({1, 2})
    <3>1. /\ s[Max({1})] = a /\ {1} \ {Max({1})} = {}
          /\ s[Max({2})] = b /\ {2} \ {Max({2})} = {}
          /\ s[Max({1, 2})] = b /\ {1, 2} \ {Max({1, 2})} = {1}
      BY <1>2, <1>3, SubsetsOfTwo
    <3> QED
      BY <2>1, <3>1
  <2>4. \A t \in {{}, {1}, {2}, {1, 2}} : sol[t] = value(t)
    <3> HIDE DEF value
    <3> QED
      BY <2>3
  <2>5. [t \in SUBSET DOMAIN s |-> value(t)] = [t \in {{}, {1}, {2}, {1, 2}} |-> sol[t]]
    <3> HIDE DEF value
    <3> QED
      BY <1>4, <2>4
  <2> QED
    BY <2>2, <2>5
<1> HIDE DEF sol
<1>6. Sol(it)
  BY <1>5
<1> HIDE DEF it
<1>7. it[{}] = 1 /\ it[{1}] = F(it[{}], a) /\ it[{1, 2}] = F(it[{1}], b)
  <2>1. \A t \in {{}, {1}, {2}, {1, 2}} :
          it[t] = IF t = {} THEN 1 ELSE F(it[t \ {Max(t)}], s[Max(t)])
    BY <1>4, <1>6
  <2> QED
    BY <1>2, <1>3, <2>1, SubsetsOfTwo
<1> QED
  BY <1>1, <1>2, <1>7 DEF F, s, CoresAlong


\* No loop holds one core.
LEMMA CoresOfNone ==
  ASSUME NEW l, NEW s, s = <<>>
  PROVE  CoresAlong(l, s) = 1
<1> DEFINE F(x, n) == x * l[n].size
           Sol(h) == h = [t \in SUBSET DOMAIN s |->
                            IF t = {} THEN 1 ELSE F(h[t \ {Max(t)}], s[Max(t)])]
           it == CHOOSE h : Sol(h)
           sol == [t \in {{}} |-> 1]
<1>1. FoldLeft(F, 1, s) = it[DOMAIN s]
  BY DEF FoldLeft, MapThenFoldSet
<1>2. DOMAIN s = {} /\ SUBSET {} = {{}}
  OBVIOUS
<1> HIDE DEF F
<1>3. Sol(sol)
  BY <1>2
<1>4. Sol(it)
  <2> HIDE DEF sol
  <2> QED
    BY <1>3
<1> HIDE DEF it
<1>5. it[{}] = 1
  BY <1>2, <1>4
<1> QED
  BY <1>1, <1>2, <1>5 DEF F, CoresAlong
-----------------------------------------------------------------------------
(* The claims. *)
Before(d, e) == d[1] < e[1] \/ (d[1] = e[1] /\ d[2] < e[2])

(* A finite set of pairs can be put in order. *)
LEMMA PairsInOrder ==
  ASSUME NEW D \in SUBSET (Nat \X Nat), IsFiniteSet(D)
  PROVE  \E l \in [1 .. Cardinality(D) -> D] :
           \A m, n \in 1 .. Cardinality(D) : m < n => Before(l[m], l[n])
<1> DEFINE InOrder(T, l) == \A m, n \in 1 .. Cardinality(T) : m < n => Before(l[m], l[n])
           Ordered(T) == \E l \in [1 .. Cardinality(T) -> T] : InOrder(T, l)
           Bad == {T \in SUBSET D : ~ Ordered(T)}
<1>1. SUFFICES ASSUME Bad # {} PROVE FALSE
  <2>1. D \notin Bad => Ordered(D)
    OBVIOUS
  <2> QED
    BY <2>1
<1>2. PICK T \in Bad : \A k \in Bad : k \subseteq T => k = T
  <2>1. Bad \in SUBSET (SUBSET D)
    OBVIOUS
  <2> HIDE DEF Bad
  <2> QED
    BY <1>1, <2>1, LeastSubset
<1>3. T \in SUBSET D /\ ~ Ordered(T) /\ IsFiniteSet(T)
  <2>1. T \in SUBSET D /\ ~ Ordered(T)
    BY <1>2
  <2> QED
    BY <2>1, FS_Subset
<1>4. T # {}
  <2>1. ASSUME T = {} PROVE FALSE
    <3>1. Cardinality(T) = 0
      BY <2>1, FS_EmptySet
    <3>2. <<>> \in [1 .. Cardinality(T) -> T] /\ InOrder(T, <<>>)
      BY <2>1, <3>1
    <3> QED
      BY <1>3, <3>2
  <2> QED
    BY <2>1
<1>5. PICK x \in T : \A y \in T : x[1] < y[1] \/ (x[1] = y[1] /\ x[2] <= y[2])
  <2>1. T \in SUBSET (Nat \X Nat)
    BY <1>3
  <2> QED
    BY <1>4, <2>1, FirstPair
<1> DEFINE R == T \ {x}
           c == Cardinality(T)
<1>6. c \in Nat \ {0} /\ Cardinality(R) = c - 1 /\ IsFiniteSet(R)
  <2>1. c \in Nat /\ c # 0
    BY <1>3, <1>4, FS_CardinalityType, FS_EmptySet
  <2> QED
    BY <1>3, <1>5, <2>1, FS_RemoveElement
<1>7. Ordered(R)
  <2>1. R \in SUBSET D /\ R \subseteq T /\ R # T
    BY <1>3, <1>5
  <2>2. R \notin Bad
    <3> HIDE DEF Bad, R
    <3> QED
      BY <1>2, <2>1
  <2> QED
    BY <2>1, <2>2
<1>8. PICK l \in [1 .. c - 1 -> R] : \A m, n \in 1 .. c - 1 : m < n => Before(l[m], l[n])
  BY <1>6, <1>7
<1> DEFINE k == [n \in 1 .. c |-> IF n = 1 THEN x ELSE l[n - 1]]
<1> HIDE DEF c
<1>9. \A n \in 1 .. c : n # 1 => n - 1 \in 1 .. c - 1 /\ k[n] = l[n - 1] /\ k[n] \in R
  BY <1>6, <1>8
<1>10. k \in [1 .. c -> T]
  BY <1>5, <1>6, <1>9
<1>11. ASSUME NEW m \in 1 .. c, NEW n \in 1 .. c, m < n PROVE Before(k[m], k[n])
  <2>1. n # 1 /\ n - 1 \in 1 .. c - 1 /\ k[n] = l[n - 1] /\ k[n] \in R
    BY <1>6, <1>9, <1>11
  <2>2. CASE m = 1
    <3>1. k[m] = x
      BY <2>2
    <3>2. PICK y \in T : y = k[n] /\ y # x
      BY <2>1
    <3>3. x \in Nat \X Nat /\ y \in Nat \X Nat
      BY <1>3, <1>5
    <3>4. x = <<x[1], x[2]>> /\ y = <<y[1], y[2]>> /\ x[2] \in Nat /\ y[2] \in Nat
      BY <3>3
    <3>5. x[1] < y[1] \/ (x[1] = y[1] /\ x[2] <= y[2])
      BY <1>5
    <3>6. x[1] = y[1] => x[2] # y[2]
      BY <3>2, <3>4
    <3> HIDE DEF k, R
    <3> QED
      BY <3>1, <3>2, <3>4, <3>5, <3>6 DEF Before
  <2>3. CASE m # 1
    <3>1. m - 1 \in 1 .. c - 1 /\ k[m] = l[m - 1] /\ m - 1 < n - 1
      BY <1>9, <1>11, <2>3
    <3> QED
      BY <1>8, <2>1, <3>1
  <2> QED
    BY <2>2, <2>3
<1>12. Ordered(T)
  <2> HIDE DEF k
  <2> QED
    BY <1>10, <1>11 DEF c
<1> QED
  BY <1>3, <1>12

(* The number of the logical dimensions on two axes outside level 0. *)
LEMMA DimensionCount ==
  ASSUME NEW p \in Nat \ {0}, NEW q \in Nat \ {0}, NEW D,
         D = {d \in (1 .. p + q) \X Axes : d[1] < IF d[2] = 1 THEN p ELSE q}
  PROVE  IsFiniteSet(D) /\ Cardinality(D) = p + q - 2
<1> DEFINE A == 1 .. p + q - 2
           dim(n) == IF n < p THEN <<n, 1>> ELSE <<n - (p - 1), 2>>
           f == [n \in A |-> dim(n)]
<1>1. IsFiniteSet(A) /\ Cardinality(A) = p + q - 2
  <2>1. IsFiniteSet(A) /\ Cardinality(A) = IF 1 > p + q - 2 THEN 0 ELSE (p + q - 2) - 1 + 1
    BY FS_Interval
  <2> QED
    BY <2>1
<1>2. f \in Bijection(A, D)
  <2>1. \A n \in A : dim(n) \in D
    BY DEF Axes
  <2>2. \A m, n \in A : dim(m) = dim(n) => m = n
    OBVIOUS
  <2>3. ASSUME NEW d \in D PROVE \E n \in A : dim(n) = d
    <3>1. d = <<d[1], d[2]>> /\ d[1] \in Nat /\ 1 <= d[1] /\ d[2] \in {1, 2}
      BY DEF Axes
    <3>2. CASE d[2] = 1
      <4>1. d[1] < p
        BY <3>2
      <4>2. d[1] \in A /\ dim(d[1]) = d
        BY <3>1, <3>2, <4>1
      <4> QED
        BY <4>2
    <3>3. CASE d[2] = 2
      <4>1. d[1] < q
        BY <3>3
      <4>2. d[1] + (p - 1) \in A /\ dim(d[1] + (p - 1)) = d
        BY <3>1, <3>3, <4>1
      <4> QED
        BY <4>2
    <3> QED
      BY <3>1, <3>2, <3>3
  <2> HIDE DEF dim
  <2> QED
    BY <2>1, <2>2, <2>3 DEF Bijection, Injection, Surjection, IsInjective
<1>3. ExistsBijection(A, D)
  BY <1>2 DEF ExistsBijection
<1> QED
  BY <1>1, <1>3, FS_Bijection

(* A split: p logical dimensions on the first axis, the rest of the k + 1 on *)
(* the second, none of them empty.                                          *)
SplitOK(s, k) ==
  \E p \in 1 .. k : /\ s = <<s[1], s[2]>>
                    /\ s[1] \in [1 .. p -> Nat \ {0}]
                    /\ s[2] \in [1 .. k + 1 - p -> Nat \ {0}]

\* A logical dimension <<level, axis>> of the split s.
DimOf(s, d) == d \in Nat \X Axes /\ d[1] + 1 \in DOMAIN s[d[2]] /\ s[d[2]][d[1] + 1] \in Nat \ {0}

\* Every split that generateAllSplits offers has that shape.
LEMMA SplitsOK ==
  ASSUME NEW k \in Nat \ {0}, mesh \in [Axes -> Nat \ {0}], NEW s \in Splits(k + 1)
  PROVE  SplitOK(s, k)
<1>1. PICK p \in 1 .. (k + 1) - 1 :
        s \in {<<x, y>> : x \in OrderedFactorizations(mesh[1], p),
                          y \in OrderedFactorizations(mesh[2], (k + 1) - p)}
  BY DEF Splits
<1>2. PICK x \in OrderedFactorizations(mesh[1], p),
           y \in OrderedFactorizations(mesh[2], (k + 1) - p) : s = <<x, y>>
  BY <1>1
<1>3. ASSUME NEW n \in Nat, NEW m PROVE OrderedFactorizations(n, m) \subseteq [1 .. m -> Nat \ {0}]
  BY DEF OrderedFactorizations
<1>4. mesh[1] \in Nat /\ mesh[2] \in Nat
  BY DEF Axes
<1>5. x \in [1 .. p -> Nat \ {0}] /\ y \in [1 .. (k + 1) - p -> Nat \ {0}]
  BY <1>2, <1>3, <1>4
<1>6. p \in 1 .. k
  BY <1>1
<1> QED
  BY <1>2, <1>5, <1>6 DEF SplitOK

\* A split for k iterators has k - 1 dimensions outside level 0, each once.
LEMMA NonLevelZeroOnce ==
  ASSUME NEW k \in Nat \ {0}, NEW s, SplitOK(s, k)
  PROVE  /\ DOMAIN NonLevelZero(s) = 1 .. k - 1
         /\ \A n \in 1 .. k - 1 : DimOf(s, NonLevelZero(s)[n]) /\ NonLevelZero(s)[n][1] # 0
         /\ \A m, n \in 1 .. k - 1 : NonLevelZero(s)[m] = NonLevelZero(s)[n] => m = n
         /\ \A d : DimOf(s, d) /\ d[1] # 0 => \E n \in 1 .. k - 1 : NonLevelZero(s)[n] = d
<1>1. PICK p \in 1 .. k : /\ s = <<s[1], s[2]>>
                          /\ s[1] \in [1 .. p -> Nat \ {0}]
                          /\ s[2] \in [1 .. k + 1 - p -> Nat \ {0}]
  BY DEF SplitOK
<1> DEFINE q == k + 1 - p
           D == {d \in (1 .. Len(s[1]) + Len(s[2])) \X Axes : d[1] < Len(s[d[2]])}
<1>2. p \in Nat \ {0} /\ q \in Nat \ {0} /\ p + q - 2 = k - 1
  OBVIOUS
<1>3. Len(s[1]) = p /\ Len(s[2]) = q
  BY <1>1, <1>2
<1>4. D = {d \in (1 .. p + q) \X Axes : d[1] < IF d[2] = 1 THEN p ELSE q}
  <2>1. \A a \in Axes : Len(s[a]) = IF a = 1 THEN p ELSE q
    BY <1>3 DEF Axes
  <2> HIDE DEF q
  <2>2. \A d \in (1 .. p + q) \X Axes : Len(s[d[2]]) = IF d[2] = 1 THEN p ELSE q
    BY <2>1
  <2> QED
    BY <1>3, <2>2
<1>5. IsFiniteSet(D) /\ Cardinality(D) = k - 1
  <2> HIDE DEF q, D
  <2> QED
    BY <1>2, <1>4, DimensionCount
<1>6. D \in SUBSET (Nat \X Nat)
  <2> HIDE DEF q
  <2>1. (1 .. p + q) \X Axes \subseteq Nat \X Nat
    BY <1>2 DEF Axes
  <2> QED
    BY <1>4, <2>1
<1> DEFINE InOrder(l) == \A m, n \in DOMAIN l :
                           m < n => l[m][1] < l[n][1] \/ (l[m][1] = l[n][1] /\ l[m][2] < l[n][2])
<1>7. NonLevelZero(s) \in [1 .. Cardinality(D) -> D] /\ InOrder(NonLevelZero(s))
  <2>1. NonLevelZero(s) = CHOOSE l \in [1 .. Cardinality(D) -> D] : InOrder(l)
    BY DEF NonLevelZero
  <2> HIDE DEF D
  <2>2. \E l \in [1 .. Cardinality(D) -> D] : InOrder(l)
    <3>1. PICK l \in [1 .. Cardinality(D) -> D] :
                 \A m, n \in 1 .. Cardinality(D) : m < n => Before(l[m], l[n])
      BY <1>5, <1>6, PairsInOrder
    <3>2. InOrder(l)
      BY <3>1 DEF Before
    <3> QED
      BY <3>2
  <2> HIDE DEF InOrder
  <2> QED
    BY <2>1, <2>2
<1>8. ASSUME NEW d \in D PROVE DimOf(s, d) /\ d[1] # 0
  <2>1. d \in (1 .. p + q) \X Axes /\ d[1] < IF d[2] = 1 THEN p ELSE q
    BY <1>4, <1>8
  <2>2. d[1] \in 1 .. p + q /\ d[2] \in {1, 2} /\ d \in Nat \X Axes
    BY <1>2, <2>1 DEF Axes
  <2>5. d[1] # 0
    BY <1>2, <2>2
  <2>3. CASE d[2] = 1
    <3>1. d[1] + 1 \in 1 .. p
      BY <1>2, <2>1, <2>2, <2>3
    <3> QED
      BY <1>1, <2>2, <2>3, <3>1 DEF DimOf
  <2>4. CASE d[2] = 2
    <3>1. d[1] + 1 \in 1 .. q
      BY <1>2, <2>1, <2>2, <2>4
    <3> QED
      BY <1>1, <2>2, <2>4, <3>1 DEF DimOf
  <2> QED
    BY <2>2, <2>3, <2>4, <2>5
<1>10. ASSUME NEW d, DimOf(s, d), d[1] # 0 PROVE d \in D
  <2>1. d \in Nat \X Axes /\ d[1] + 1 \in DOMAIN s[d[2]]
    BY <1>10 DEF DimOf
  <2>2. d[1] \in Nat /\ d[2] \in {1, 2} /\ d[1] # 0 /\ d = <<d[1], d[2]>>
    BY <1>10, <2>1 DEF Axes
  <2>3. DOMAIN s[1] = 1 .. p /\ DOMAIN s[2] = 1 .. q
    BY <1>1
  <2>4. d[1] < (IF d[2] = 1 THEN p ELSE q) /\ d[1] \in 1 .. p + q
    BY <1>2, <2>1, <2>2, <2>3
  <2> HIDE DEF q, D
  <2>5. d \in (1 .. p + q) \X Axes
    BY <2>1, <2>2, <2>4
  <2> QED
    BY <1>4, <2>4, <2>5
<1> HIDE DEF D
<1>9. NonLevelZero(s) \in [1 .. k - 1 -> D]
  BY <1>5, <1>7
<1> DEFINE l == NonLevelZero(s)
<1>11. ASSUME NEW m \in 1 .. k - 1, NEW n \in 1 .. k - 1, l[m] = l[n] PROVE m = n
  <2>1. DOMAIN l = 1 .. k - 1 /\ \A x, y \in DOMAIN l :
                           x < y => l[x][1] < l[y][1] \/ (l[x][1] = l[y][1] /\ l[x][2] < l[y][2])
    BY <1>7, <1>9
  <2>2. l[m][1] \in Nat /\ l[m][2] \in Nat
    <3>1. l[m] \in D
      BY <1>9
    <3> QED
      BY <1>6, <3>1
  <2> HIDE DEF l
  <2>3. ~ (m < n) /\ ~ (n < m)
    BY <1>11, <2>1, <2>2
  <2> QED
    BY <2>3
<1>12. l \in Surjection(1 .. k - 1, D)
  <2>1. l \in Injection(1 .. k - 1, D)
    BY <1>9, <1>11 DEF Injection, IsInjective
  <2>2. Cardinality(1 .. k - 1) = k - 1
    <3>1. k - 1 \in Int /\ 1 \in Int
      OBVIOUS
    <3>2. Cardinality(1 .. k - 1) = IF 1 > k - 1 THEN 0 ELSE (k - 1) - 1 + 1
      BY <3>1, FS_Interval
    <3> QED
      BY <3>2
  <2> HIDE DEF l
  <2> QED
    BY <1>5, <2>1, <2>2, FS_Injection
<1>13. \A d \in D : \E n \in 1 .. k - 1 : l[n] = d
  BY <1>12 DEF Surjection
<1> QED
  BY <1>8, <1>9, <1>10, <1>11, <1>13


OrderOK(o) == o \in [Iters -> Iters] /\ \A a, b \in Iters : a # b => o[a] # o[b]

\* A priority order has a place for every iterator.
LEMMA OrderOnto ==
  ASSUME NEW k \in Nat, Iters = 1 .. k, NEW o, OrderOK(o), NEW i \in Iters
  PROVE  \E n \in Iters : o[n] = i
<1>1. IsFiniteSet(Iters)
  BY FS_Interval
<1>2. o \in Injection(Iters, Iters)
  BY DEF OrderOK, Injection, IsInjective
<1>3. o \in Surjection(Iters, Iters)
  BY <1>1, <1>2, FS_Injection
<1> QED
  BY <1>3 DEF Surjection

(* An iterator claims one or two dimensions of the split. *)
LEMMA BucketShape ==
  ASSUME NEW k \in Nat \ {0}, Iters = 1 .. k, NEW s, SplitOK(s, k), NEW o, OrderOK(o),
         NEW i \in Iters
  PROVE  \/ \E d : Bucket(s, o, i) = <<d>> /\ DimOf(s, d)
         \/ \E d, e : Bucket(s, o, i) = <<d, e>> /\ DimOf(s, d) /\ DimOf(s, e)
<1>1. CASE o[1] = i
  <2>1. Bucket(s, o, i) = << <<0, 1>>, <<0, 2>> >>
    BY <1>1 DEF Bucket
  <2>2. PICK p \in 1 .. k : /\ s = <<s[1], s[2]>>
                            /\ s[1] \in [1 .. p -> Nat \ {0}]
                            /\ s[2] \in [1 .. k + 1 - p -> Nat \ {0}]
    BY DEF SplitOK
  <2>3. 1 \in 1 .. p /\ 1 \in 1 .. k + 1 - p
    OBVIOUS
  <2>4. DimOf(s, <<0, 1>>) /\ DimOf(s, <<0, 2>>)
    BY <2>2, <2>3 DEF DimOf, Axes
  <2> QED
    BY <2>1, <2>4
<1>2. CASE o[1] # i
  <2> DEFINE n == CHOOSE m \in Iters : o[m] = i
  <2>1. n \in Iters /\ o[n] = i
    BY OrderOnto
  <2>2. n \in 1 .. k /\ n # 1
    BY <1>2, <2>1
  <2>3. Bucket(s, o, i) = << NonLevelZero(s)[n - 1] >>
    BY <1>2 DEF Bucket
  <2> HIDE DEF n
  <2>4. n - 1 \in 1 .. k - 1
    BY <2>2
  <2>5. DimOf(s, NonLevelZero(s)[n - 1])
    BY <2>4, NonLevelZeroOnce
  <2> QED
    BY <2>3, <2>5
<1> QED
  BY <1>1, <1>2

Claim == [iter : Nat, level : Nat, axis : Axes, size : Nat \ {0}]

\* The loops that iterator i has among the sequence of loops l.
LoopsIn(l, i) == {n \in 1 .. Len(l) : l[n].iter = i}

\* An iterator's loops once all of them are made: one or two.
OneOrTwo(S) ==
  \/ \E a \in Nat \ {0} : S = {a}
  \/ \E a, b \in Nat \ {0} : a < b /\ S = {a, b}

(* Every iterator claims one or two loops. *)
LEMMA ClaimsShape ==
  ASSUME NEW k \in Nat \ {0}, Iters = 1 .. k, NEW s, SplitOK(s, k), NEW o, OrderOK(o)
  PROVE  /\ Claims(s, o) \in Seq(Claim)
         /\ \A n \in 1 .. Len(Claims(s, o)) : Claims(s, o)[n].iter \in Iters
         /\ \A i \in Iters : OneOrTwo(LoopsIn(Claims(s, o), i))
<1> DEFINE claim(i, d) == [iter |-> i, level |-> d[1], axis |-> d[2],
                           size |-> s[d[2]][d[1] + 1]]
           part(i) == [n \in DOMAIN Bucket(s, o, i) |-> claim(i, Bucket(s, o, i)[n])]
           ss == [i \in Iters |-> part(i)]
           flat == FlattenSeq(ss)
<1>1. Claims(s, o) = flat
  BY DEF Claims
<1>2. ASSUME NEW i \in Iters, NEW d, DimOf(s, d)
      PROVE  claim(i, d) \in Claim /\ claim(i, d).iter = i
  <2>1. d[1] \in Nat /\ d[2] \in Axes /\ s[d[2]][d[1] + 1] \in Nat \ {0} /\ i \in Nat
    BY <1>2 DEF DimOf
  <2> QED
    BY <2>1 DEF Claim
<1>3. ASSUME NEW i \in Iters
      PROVE  /\ part(i) \in Seq(Claim) /\ (Len(part(i)) = 1 \/ Len(part(i)) = 2)
             /\ \A n \in 1 .. Len(part(i)) : part(i)[n].iter = i
  <2>1. CASE \E d : Bucket(s, o, i) = <<d>> /\ DimOf(s, d)
    <3>1. PICK d : Bucket(s, o, i) = <<d>> /\ DimOf(s, d)
      BY <2>1
    <3>2. part(i) = <<claim(i, d)>>
      <4> HIDE DEF claim
      <4> QED
        BY <3>1
    <3> QED
      BY <1>2, <3>1, <3>2
  <2>2. CASE \E d, e : Bucket(s, o, i) = <<d, e>> /\ DimOf(s, d) /\ DimOf(s, e)
    <3>1. PICK d, e : Bucket(s, o, i) = <<d, e>> /\ DimOf(s, d) /\ DimOf(s, e)
      BY <2>2
    <3>2. part(i) = <<claim(i, d), claim(i, e)>>
      <4> HIDE DEF claim
      <4> QED
        BY <3>1
    <3>3. claim(i, d) \in Claim /\ claim(i, d).iter = i /\ claim(i, e) \in Claim /\ claim(i, e).iter = i
      BY <1>2, <3>1
    <3> HIDE DEF claim
    <3> QED
      BY <3>2, <3>3
  <2> QED
    BY <2>1, <2>2, BucketShape
<1> HIDE DEF part
<1>4. ss \in Seq(Seq(Claim)) /\ Len(ss) = k /\ \A i \in Iters : ss[i] = part(i)
  BY <1>3
<1> HIDE DEF ss
<1>5. flat \in Seq(Claim) /\ \E h, q : Positions(flat, ss, k, h, q)
  BY <1>4, FlattenSeqPositions
<1> HIDE DEF flat
<1>6. PICK h, q : Positions(flat, ss, k, h, q)
  BY <1>5
<1>7. ASSUME NEW n \in 1 .. Len(flat)
      PROVE  h[n] \in Iters /\ q[n] \in 1 .. Len(part(h[n])) /\ flat[n] = part(h[n])[q[n]]
  <2>1. h[n] \in 1 .. k /\ q[n] \in 1 .. Len(ss[h[n]]) /\ flat[n] = ss[h[n]][q[n]]
    BY <1>6 DEF Positions
  <2> QED
    BY <1>4, <2>1
<1>8. /\ \A m, n \in 1 .. Len(flat) : h[m] = h[n] /\ q[m] = q[n] => m = n
      /\ \A i \in Iters : \A r \in 1 .. Len(part(i)) : \E n \in 1 .. Len(flat) : h[n] = i /\ q[n] = r
  <2>1. \A m, n \in 1 .. Len(flat) : h[m] = h[n] /\ q[m] = q[n] => m = n
    BY <1>6 DEF Positions
  <2>2. \A i \in 1 .. k : \A r \in 1 .. Len(ss[i]) : \E n \in 1 .. Len(flat) : h[n] = i /\ q[n] = r
    BY <1>6 DEF Positions
  <2> QED
    BY <1>4, <2>1, <2>2
<1>11. ASSUME NEW n \in 1 .. Len(flat) PROVE flat[n].iter = h[n]
  <2>1. PICK i \in Iters : i = h[n]
    BY <1>7
  <2>2. PICK r \in 1 .. Len(part(i)) : r = q[n]
    BY <1>7, <2>1
  <2>3. part(i)[r].iter = i
    BY <1>3
  <2>4. flat[n] = part(i)[r]
    BY <1>7, <2>1, <2>2
  <2> QED
    BY <2>1, <2>3, <2>4
<1>9. ASSUME NEW i \in Iters PROVE OneOrTwo(LoopsIn(flat, i))
  <2>1. LoopsIn(flat, i) = {n \in 1 .. Len(flat) : h[n] = i}
    BY <1>11 DEF LoopsIn
  <2>2. CASE Len(part(i)) = 1
    <3>0. 1 \in 1 .. Len(part(i))
      BY <2>2
    <3>1. PICK a \in 1 .. Len(flat) : h[a] = i /\ q[a] = 1
      BY <1>8, <3>0
    <3>2. \A n \in 1 .. Len(flat) : h[n] = i => n = a
      <4>1. \A n \in 1 .. Len(flat) : h[n] = i => q[n] = 1
        BY <1>7, <2>2
      <4> QED
        BY <1>8, <3>1, <4>1
    <3>3. LoopsIn(flat, i) = {a} /\ a \in Nat \ {0}
      BY <2>1, <3>1, <3>2
    <3> QED
      BY <3>3 DEF OneOrTwo
  <2>3. CASE Len(part(i)) = 2
    <3>0. 1 \in 1 .. Len(part(i)) /\ 2 \in 1 .. Len(part(i))
      BY <2>3
    <3>1. PICK a \in 1 .. Len(flat) : h[a] = i /\ q[a] = 1
      BY <1>8, <3>0
    <3>2. PICK b \in 1 .. Len(flat) : h[b] = i /\ q[b] = 2
      BY <1>8, <3>0
    <3>3. \A n \in 1 .. Len(flat) : h[n] = i => n = a \/ n = b
      <4>1. \A n \in 1 .. Len(flat) : h[n] = i => q[n] = 1 \/ q[n] = 2
        BY <1>7, <2>3
      <4> QED
        BY <1>8, <3>1, <3>2, <4>1
    <3>4. a # b
      BY <3>1, <3>2
    <3>5. LoopsIn(flat, i) = {a, b} /\ LoopsIn(flat, i) = {b, a}
      BY <2>1, <3>1, <3>2, <3>3
    <3>6. a \in Nat \ {0} /\ b \in Nat \ {0} /\ (a < b \/ b < a)
      BY <3>4
    <3> QED
      BY <3>5, <3>6 DEF OneOrTwo
  <2> QED
    BY <1>3, <2>2, <2>3
<1>10. \A n \in 1 .. Len(flat) : flat[n].iter \in Iters
  BY <1>7, <1>11
<1> QED
  BY <1>1, <1>5, <1>9, <1>10


(* The cores that the loops of iterator i in l spread it over. *)
CoresIn(l, i) == CoresAlong(l, Outermost(LoopsIn(l, i)))

\* The loops of an iterator are claims.
LEMMA ClaimAt ==
  ASSUME NEW l \in Seq(Claim), NEW i, NEW n \in LoopsIn(l, i)
  PROVE  /\ n \in Nat \ {0} /\ n <= Len(l) /\ l[n] \in Claim /\ l[n].iter = i
         /\ l[n].size \in Nat \ {0}
<1>1. n \in 1 .. Len(l) /\ l[n].iter = i
  BY DEF LoopsIn
<1>2. Len(l) \in Nat /\ \A m \in 1 .. Len(l) : l[m] \in Claim
  BY LenProperties, ElementOfSeq
<1>3. \A e \in Claim : e.size \in Nat \ {0}
  BY DEF Claim
<1> QED
  BY <1>1, <1>2, <1>3

\* The cores of the loops there can be.
LEMMA CoresInFew ==
  ASSUME NEW l \in Seq(Claim), NEW i
  PROVE  /\ LoopsIn(l, i) = {} => CoresIn(l, i) = 1
         /\ \A a \in Nat \ {0} : LoopsIn(l, i) = {a} => CoresIn(l, i) = l[a].size
         /\ \A a, b \in Nat \ {0} : a < b /\ LoopsIn(l, i) = {a, b} =>
              CoresIn(l, i) = l[a].size * l[b].size
<1>1. \A n \in LoopsIn(l, i) : l[n].size \in Nat
  BY ClaimAt
<1>2. ASSUME LoopsIn(l, i) = {} PROVE CoresIn(l, i) = 1
  <2>1. Outermost(LoopsIn(l, i)) = <<>>
    BY <1>2, OutermostOfNone
  <2> QED
    BY <2>1, CoresOfNone DEF CoresIn
<1>3. ASSUME NEW a \in Nat \ {0}, LoopsIn(l, i) = {a} PROVE CoresIn(l, i) = l[a].size
  <2>1. CoresIn(l, i) = 1 * l[a].size
    BY <1>3, OutermostOfOne, CoresOfOne DEF CoresIn
  <2> QED
    BY <1>1, <1>3, <2>1
<1>4. ASSUME NEW a \in Nat \ {0}, NEW b \in Nat \ {0}, a < b, LoopsIn(l, i) = {a, b}
      PROVE  CoresIn(l, i) = l[a].size * l[b].size
  <2>1. Outermost({a, b}) = <<a, b>>
    BY <1>4, OutermostOfTwo
  <2>2. CoresIn(l, i) = 1 * l[a].size * l[b].size
    BY <1>4, <2>1, CoresOfTwo DEF CoresIn
  <2> QED
    BY <1>1, <1>4, <2>2
<1> QED
  BY <1>2, <1>3, <1>4

AtMostTwo(S) == S = {} \/ OneOrTwo(S)

\* An iterator is spread over one core at least.
LEMMA CoresInPositive ==
  ASSUME NEW l \in Seq(Claim), NEW i, AtMostTwo(LoopsIn(l, i))
  PROVE  CoresIn(l, i) \in Nat \ {0}
<1>1. \A n \in LoopsIn(l, i) : l[n].size \in Nat \ {0}
  BY ClaimAt
<1>2. CASE LoopsIn(l, i) = {}
  BY <1>2, CoresInFew
<1>3. CASE \E a \in Nat \ {0} : LoopsIn(l, i) = {a}
  BY <1>1, <1>3, CoresInFew
<1>4. CASE \E a, b \in Nat \ {0} : a < b /\ LoopsIn(l, i) = {a, b}
  <2>1. PICK a \in Nat \ {0}, b \in Nat \ {0} : a < b /\ LoopsIn(l, i) = {a, b}
    BY <1>4
  <2>2. CoresIn(l, i) = l[a].size * l[b].size
    BY <2>1, CoresInFew
  <2>3. l[a].size \in Nat \ {0} /\ l[b].size \in Nat \ {0}
    BY <1>1, <2>1
  <2>4. \A x, y \in Nat \ {0} : x * y \in Nat \ {0}
    OBVIOUS
  <2> QED
    BY <2>2, <2>3, <2>4
<1> QED
  BY <1>2, <1>3, <1>4 DEF AtMostTwo, OneOrTwo

(* One loop more. *)
LEMMA LoopsInAppend ==
  ASSUME NEW l \in Seq(Claim), NEW e \in Claim
  PROVE  /\ Append(l, e) \in Seq(Claim)
         /\ \A n \in 1 .. Len(l) : Append(l, e)[n] = l[n]
         /\ LoopsIn(Append(l, e), e.iter) = LoopsIn(l, e.iter) \cup {Len(l) + 1}
         /\ \A j : j # e.iter => LoopsIn(Append(l, e), j) = LoopsIn(l, j)
<1>1. /\ Len(l) \in Nat /\ Len(Append(l, e)) = Len(l) + 1 /\ Append(l, e)[Len(l) + 1] = e
      /\ \A n \in 1 .. Len(l) : Append(l, e)[n] = l[n]
      /\ Append(l, e) \in Seq(Claim)
  BY AppendProperties, LenProperties
<1>2. 1 .. Len(l) + 1 = 1 .. Len(l) \cup {Len(l) + 1}
  BY <1>1
<1>3. ASSUME NEW j, NEW n \in 1 .. Len(l) PROVE n \in LoopsIn(Append(l, e), j) <=> n \in LoopsIn(l, j)
  BY <1>1, <1>2 DEF LoopsIn
<1>4. ASSUME NEW j PROVE Len(l) + 1 \in LoopsIn(Append(l, e), j) <=> j = e.iter
  BY <1>1, <1>2 DEF LoopsIn
<1>5. \A j : LoopsIn(l, j) \subseteq 1 .. Len(l) /\ LoopsIn(Append(l, e), j) \subseteq 1 .. Len(l) \cup {Len(l) + 1}
  BY <1>1, <1>2 DEF LoopsIn
<1>6. LoopsIn(Append(l, e), e.iter) = LoopsIn(l, e.iter) \cup {Len(l) + 1}
  BY <1>3, <1>4, <1>5
<1>7. ASSUME NEW j, j # e.iter PROVE LoopsIn(Append(l, e), j) = LoopsIn(l, j)
  BY <1>3, <1>4, <1>5, <1>7
<1> QED
  BY <1>1, <1>6, <1>7

\* One more loop multiplies the cores of its iterator and of no other.
LEMMA CoresInAppend ==
  ASSUME NEW l \in Seq(Claim), NEW e \in Claim, NEW i, AtMostTwo(LoopsIn(l, i)),
         i = e.iter => AtMostTwo(LoopsIn(Append(l, e), i))
  PROVE  CoresIn(Append(l, e), i) = IF i = e.iter THEN CoresIn(l, i) * e.size ELSE CoresIn(l, i)
<1> DEFINE m == Append(l, e)
           z == Len(l) + 1
<1>1. /\ m \in Seq(Claim) /\ (\A n \in 1 .. Len(l) : m[n] = l[n])
      /\ i = e.iter => LoopsIn(m, i) = LoopsIn(l, i) \cup {z}
      /\ i # e.iter => LoopsIn(m, i) = LoopsIn(l, i)
  BY LoopsInAppend
<1>2. z \in Nat \ {0} /\ m[z] = e /\ e.size \in Nat \ {0} /\ (\A n \in LoopsIn(l, i) : n \in Nat /\ n < z)
  <2>1. Len(l) \in Nat /\ m[z] = e
    BY AppendProperties, LenProperties
  <2>2. e.size \in Nat \ {0}
    BY DEF Claim
  <2>3. \A n \in LoopsIn(l, i) : n \in Nat /\ n <= Len(l)
    BY ClaimAt
  <2> QED
    BY <2>1, <2>2, <2>3
<1>3. \A n \in LoopsIn(l, i) : m[n] = l[n] /\ l[n].size \in Nat \ {0}
  <2>1. \A n \in LoopsIn(l, i) : n \in 1 .. Len(l)
    BY DEF LoopsIn
  <2> QED
    BY <1>1, <2>1, ClaimAt
<1> HIDE DEF m, z
<1>4. CASE LoopsIn(l, i) = {}
  <2>1. CoresIn(l, i) = 1
    BY <1>4, CoresInFew
  <2>2. CASE i = e.iter
    <3>1. LoopsIn(m, i) = {z}
      BY <1>1, <1>4, <2>2
    <3>2. CoresIn(m, i) = e.size
      BY <1>1, <1>2, <3>1, CoresInFew
    <3> QED
      BY <1>2, <2>1, <2>2, <3>2 DEF m
  <2>3. CASE i # e.iter
    <3>1. CoresIn(m, i) = 1
      BY <1>1, <1>4, <2>3, CoresInFew
    <3> QED
      BY <2>1, <2>3, <3>1 DEF m
  <2> QED
    BY <2>2, <2>3
<1>5. CASE \E a \in Nat \ {0} : LoopsIn(l, i) = {a}
  <2>1. PICK a \in Nat \ {0} : LoopsIn(l, i) = {a}
    BY <1>5
  <2>2. CoresIn(l, i) = l[a].size /\ m[a] = l[a] /\ a < z
    BY <1>2, <1>3, <2>1, CoresInFew
  <2>3. CASE i = e.iter
    <3>1. LoopsIn(m, i) = {a, z}
      BY <1>1, <2>1, <2>3
    <3>2. CoresIn(m, i) = m[a].size * m[z].size
      BY <1>1, <1>2, <2>2, <3>1, CoresInFew
    <3> QED
      BY <1>2, <2>2, <2>3, <3>2 DEF m
  <2>4. CASE i # e.iter
    <3>1. CoresIn(m, i) = m[a].size
      BY <1>1, <2>1, <2>4, CoresInFew
    <3> QED
      BY <2>2, <2>4, <3>1 DEF m
  <2> QED
    BY <2>3, <2>4
<1>6. CASE \E a, b \in Nat \ {0} : a < b /\ LoopsIn(l, i) = {a, b}
  <2>1. PICK a \in Nat \ {0}, b \in Nat \ {0} : a < b /\ LoopsIn(l, i) = {a, b}
    BY <1>6
  <2>2. CoresIn(l, i) = l[a].size * l[b].size /\ m[a] = l[a] /\ m[b] = l[b] /\ a < z /\ b < z
    BY <1>2, <1>3, <2>1, CoresInFew
  <2>3. i # e.iter
    <3>1. ASSUME i = e.iter PROVE FALSE
      <4>1. LoopsIn(m, i) = {a, b, z}
        BY <1>1, <2>1, <3>1
      <4>2. AtMostTwo({a, b, z})
        BY <3>1, <4>1 DEF m
      <4>3. a # b /\ a # z /\ b # z
        BY <1>2, <2>1, <2>2
      <4>4. \A x, y : {a, b, z} # {x, y}
        BY <4>3
      <4>5. \A x : {a, b, z} # {x}
        BY <4>3
      <4> QED
        BY <4>2, <4>4, <4>5 DEF AtMostTwo, OneOrTwo
    <3> QED
      BY <3>1
  <2>4. CoresIn(m, i) = m[a].size * m[b].size
    BY <1>1, <2>1, <2>3, CoresInFew
  <2> QED
    BY <2>2, <2>3, <2>4 DEF m
<1> QED
  BY <1>4, <1>5, <1>6 DEF AtMostTwo, OneOrTwo

(* The loops of an iterator in a prefix of the claims. *)
LEMMA LoopsInPrefix ==
  ASSUME NEW c \in Seq(Claim), NEW l \in Seq(Claim), Len(l) <= Len(c),
         \A n \in 1 .. Len(l) : l[n] = c[n], NEW i, OneOrTwo(LoopsIn(c, i))
  PROVE  /\ AtMostTwo(LoopsIn(l, i))
         /\ Len(l) = Len(c) => LoopsIn(l, i) = LoopsIn(c, i)
<1>1. Len(l) \in Nat /\ Len(c) \in Nat
  BY LenProperties
<1>2. LoopsIn(l, i) \subseteq LoopsIn(c, i)
  BY <1>1 DEF LoopsIn
<1>3. Len(l) = Len(c) => LoopsIn(l, i) = LoopsIn(c, i)
  BY <1>1 DEF LoopsIn
<1>4. CASE \E a \in Nat \ {0} : LoopsIn(c, i) = {a}
  <2>1. PICK a \in Nat \ {0} : LoopsIn(c, i) = {a}
    BY <1>4
  <2>2. LoopsIn(l, i) = {} \/ LoopsIn(l, i) = {a}
    BY <1>2, <2>1
  <2> QED
    BY <1>3, <2>2 DEF AtMostTwo, OneOrTwo
<1>5. CASE \E a, b \in Nat \ {0} : a < b /\ LoopsIn(c, i) = {a, b}
  <2>1. PICK a \in Nat \ {0}, b \in Nat \ {0} : a < b /\ LoopsIn(c, i) = {a, b}
    BY <1>5
  <2>2. \/ LoopsIn(l, i) = {} \/ LoopsIn(l, i) = {a} \/ LoopsIn(l, i) = {b}
        \/ LoopsIn(l, i) = {a, b}
    <3>1. CASE a \in LoopsIn(l, i) /\ b \in LoopsIn(l, i)
      BY <1>2, <2>1, <3>1
    <3>2. CASE a \notin LoopsIn(l, i)
      BY <1>2, <2>1, <3>2
    <3>3. CASE b \notin LoopsIn(l, i)
      BY <1>2, <2>1, <3>3
    <3> QED
      BY <3>1, <3>2, <3>3
  <2> QED
    BY <1>3, <2>1, <2>2 DEF AtMostTwo, OneOrTwo
<1> QED
  BY <1>4, <1>5 DEF OneOrTwo

-----------------------------------------------------------------------------
(* The inductive invariant. *)
Size == Len(kernel.ext)

\* Stages at which the split, the order and the wave loops are settled.
HasSplit == {"prioritise", "tile", "nest", "mapped", "ready", "dropped", "rejected"}
HasOrder == HasSplit \ {"prioritise"}
HasWaves == {"mapped", "ready", "rejected"}

\* What was chosen is a choice the code offers.
ChoicesOK ==
  /\ kernel \in Kernels /\ hw \in Meshes /\ blocked \in BOOLEAN
  /\ stage \in Stages \ {"running"}
  /\ mesh \in [Axes -> Nat \ {0}]
  /\ stage \in HasSplit => SplitOK(split, Size)
  /\ stage \in HasOrder => OrderOK(order)

\* The loops made are the first ones claimed.
LoopsMade ==
  /\ nest \in Seq(Claim)
  /\ stage \notin HasOrder => nest = <<>>
  /\ stage \in HasOrder =>
       /\ Len(nest) <= Len(Claims(split, order))
       /\ \A n \in 1 .. Len(nest) : nest[n] = Claims(split, order)[n]
  /\ stage \in {"nest"} \cup HasWaves => Len(nest) = Len(Claims(split, order))

\* What is left of an iterator is its extent over the cores it has been spread
\* over, and in the end that is its wave loop.
BoundsOK ==
  /\ ub = [i \in Iters |-> CeilDiv(kernel.ext[i], CoresIn(nest, i))]
  /\ stage \in HasWaves => waves = ub

\* An index is left as it is only if it is in range without the clamp.
ClampsOK ==
  /\ clamp \in [Iters -> BOOLEAN]
  /\ stage \in {"nest", "mapped"} =>
       \A i \in Iters : ~ clamp[i] => CoresIn(nest, i) = 1 \/ i = kernel.red
  /\ stage = "ready" =>
       \A i \in Iters : ~ clamp[i] => kernel.ext[i] % CoresIn(nest, i) = 0

MapInv == ChoicesOK /\ LoopsMade /\ BoundsOK /\ ClampsOK

\* What the assumption on kernels says of the one being mapped.
LEMMA KernelFacts ==
  ASSUME kernel \in Kernels
  PROVE  /\ Size \in Nat \ {0} /\ Iters = 1 .. Size /\ kernel.ext \in [Iters -> Nat \ {0}]
         /\ kernel.red \in {0} \cup Iters
<1>1. KernelOK(kernel)
  BY KernelsAssumption
<1>2. kernel.ext \in Seq(Nat \ {0}) /\ kernel.ext # <<>> /\ kernel.red \in {0} \cup DOMAIN kernel.ext
  BY <1>1 DEF KernelOK
<1>3. Size \in Nat /\ DOMAIN kernel.ext = 1 .. Size /\ kernel.ext \in [1 .. Size -> Nat \ {0}]
  BY <1>2, LenProperties DEF Size
<1>4. Size # 0
  BY <1>2, <1>3, EmptySeq DEF Size
<1> QED
  BY <1>2, <1>3, <1>4 DEF Iters

\* CoresOn is the cores of the nest's loops.
LEMMA CoresOnIn ==
  ASSUME NEW i
  PROVE  CoresOn(i) = CoresIn(nest, i)
BY DEF CoresOn, LoopsOf, CoresIn, CoresAlong, LoopsIn, Loops

(* The loops made so far, and what they spread each iterator over. *)
LEMMA LoopsSoFar ==
  ASSUME ChoicesOK, LoopsMade, NEW i \in Iters
  PROVE  /\ AtMostTwo(LoopsIn(nest, i)) /\ CoresIn(nest, i) \in Nat \ {0}
         /\ stage \in {"nest"} \cup HasWaves => OneOrTwo(LoopsIn(nest, i))
<1>1. nest \in Seq(Claim) /\ Size \in Nat \ {0} /\ Iters = 1 .. Size
  BY KernelFacts DEF ChoicesOK, LoopsMade
<1>2. CASE stage \notin HasOrder
  <2>1. Len(nest) = 0
    BY <1>2 DEF LoopsMade
  <2>2. LoopsIn(nest, i) = {}
    BY <2>1 DEF LoopsIn
  <2>3. stage \notin {"nest"} \cup HasWaves
    BY <1>2 DEF HasOrder, HasSplit, HasWaves
  <2>4. AtMostTwo(LoopsIn(nest, i))
    BY <2>2 DEF AtMostTwo
  <2> QED
    BY <1>1, <2>3, <2>4, CoresInPositive
<1>3. CASE stage \in HasOrder
  <2>1. SplitOK(split, Size) /\ OrderOK(order)
    BY <1>3 DEF ChoicesOK, HasOrder
  <2> DEFINE c == Claims(split, order)
  <2>2. c \in Seq(Claim) /\ OneOrTwo(LoopsIn(c, i))
    BY <1>1, <2>1, ClaimsShape
  <2>3. Len(nest) <= Len(c) /\ \A n \in 1 .. Len(nest) : nest[n] = c[n]
    BY <1>3 DEF LoopsMade
  <2>4. stage \in {"nest"} \cup HasWaves => Len(nest) = Len(c)
    BY DEF LoopsMade
  <2> HIDE DEF c
  <2>5. /\ AtMostTwo(LoopsIn(nest, i))
        /\ Len(nest) = Len(c) => LoopsIn(nest, i) = LoopsIn(c, i)
    BY <1>1, <2>2, <2>3, LoopsInPrefix
  <2> QED
    BY <1>1, <2>2, <2>4, <2>5, CoresInPositive
<1> QED
  BY <1>2, <1>3

\* It holds at the start.
LEMMA MapInit == Init => MapInv
<1> SUFFICES ASSUME Init PROVE MapInv
  OBVIOUS
<1>1. kernel \in Kernels /\ hw \in Meshes /\ mesh = hw /\ blocked \in BOOLEAN /\ stage = "occupy" /\ nest = <<>>
  BY DEF Init
<1>2. stage \notin HasSplit /\ stage \notin HasOrder /\ stage \notin HasWaves /\ stage # "nest"
      /\ stage # "mapped" /\ stage # "ready"
  BY <1>1 DEF HasSplit, HasOrder, HasWaves
<1>3. ChoicesOK
  BY <1>1, <1>2, MeshesAssumption DEF ChoicesOK, Stages
<1>4. LoopsMade
  BY <1>1, <1>2 DEF LoopsMade
<1>5. kernel.ext \in [Iters -> Nat \ {0}]
  BY <1>1, KernelFacts
<1>6. \A i \in Iters : CoresIn(nest, i) = 1
  <2> SUFFICES ASSUME NEW i \in Iters PROVE CoresIn(nest, i) = 1
    OBVIOUS
  <2>1. Len(nest) = 0 /\ nest \in Seq(Claim)
    BY <1>1
  <2>2. LoopsIn(nest, i) = {}
    BY <2>1 DEF LoopsIn
  <2> QED
    BY <2>1, <2>2, CoresInFew
<1>7. \A n \in Nat : CeilDiv(n, 1) = n
  BY DEF CeilDiv
<1>8. ub = kernel.ext
  BY DEF Init
<1>9. BoundsOK
  <2>1. \A i \in Iters : CeilDiv(kernel.ext[i], CoresIn(nest, i)) = kernel.ext[i]
    BY <1>5, <1>6, <1>7
  <2> QED
    BY <1>2, <1>5, <1>8, <2>1 DEF BoundsOK
<1>10. clamp \in [Iters -> BOOLEAN]
  BY DEF Init
<1> QED
  BY <1>2, <1>3, <1>4, <1>9, <1>10 DEF MapInv, ClampsOK

(* An occupied mesh has cores on both axes. *)
LEMMA OfferedMesh ==
  ASSUME hw \in Meshes, NEW m \in Offered
  PROVE  m \in [Axes -> Nat \ {0}]
<1>1. hw \in [Axes -> Nat \ {0}]
  BY MeshesAssumption
<1>2. ASSUME NEW n \in Nat \ {0} PROVE OccupancyChoices(n) \subseteq Nat \ {0}
  BY DEF OccupancyChoices
<1>3. CASE full
  BY <1>1, <1>3 DEF Offered
<1>4. CASE ~ full
  <2>1. m \in [Axes -> UNION {OccupancyChoices(hw[a]) : a \in Axes}]
    BY <1>4 DEF Offered
  <2>2. \A a \in Axes : m[a] \in OccupancyChoices(hw[a])
    BY <1>4 DEF Offered
  <2>3. \A a \in Axes : m[a] \in Nat \ {0}
    BY <1>1, <1>2, <2>2
  <2> QED
    BY <2>1, <2>3
<1> QED
  BY <1>3, <1>4

\* A step that makes no loop and leaves the kernel alone.
LEMMA NoLoopStep ==
  ASSUME MapInv, UNCHANGED <<kernel, hw, blocked, nest, ub>>
  PROVE  /\ \A i : CoresIn(nest, i)' = CoresIn(nest, i)
         /\ Iters' = Iters /\ Size' = Size
         /\ (ub = [i \in Iters |-> CeilDiv(kernel.ext[i], CoresIn(nest, i))])'
         /\ nest' \in Seq(Claim)
<1>1. ub = [i \in Iters |-> CeilDiv(kernel.ext[i], CoresIn(nest, i))] /\ nest \in Seq(Claim)
  BY DEF MapInv, BoundsOK, LoopsMade
<1>2. \A i : CoresIn(nest, i)' = CoresIn(nest, i)
  OBVIOUS
<1>3. Iters' = Iters /\ Size' = Size
  BY DEF Iters, Size
<1> QED
  BY <1>1, <1>2, <1>3

\* Occupy chooses a mesh of positive sizes.
LEMMA MapOccupy == MapInv /\ Occupy => MapInv'
<1> SUFFICES ASSUME MapInv, Occupy PROVE MapInv'
  OBVIOUS
<1>1. /\ stage = "occupy" /\ stage' = "split" /\ mesh' \in Offered
      /\ UNCHANGED <<kernel, hw, blocked, split, order, nest, ub, clamp, waves>>
  BY DEF Occupy
<1>2. /\ stage \notin HasOrder /\ stage' \notin HasSplit' /\ stage' \notin HasOrder'
      /\ stage' \notin HasWaves'
  BY <1>1 DEF HasSplit, HasOrder, HasWaves
<1>3. ChoicesOK'
  <2>1. mesh' \in [Axes -> Nat \ {0}]
    BY <1>1, OfferedMesh DEF MapInv, ChoicesOK
  <2> QED
    BY <1>1, <1>2, <2>1 DEF MapInv, ChoicesOK, Stages
<1>4. LoopsMade'
  BY <1>1, <1>2 DEF MapInv, LoopsMade
<1>5. BoundsOK'
  BY <1>1, <1>2, NoLoopStep DEF BoundsOK
<1>6. ClampsOK'
  BY <1>1, NoLoopStep DEF MapInv, ClampsOK
<1> QED
  BY <1>3, <1>4, <1>5, <1>6 DEF MapInv

\* Skip ends the kernel.
LEMMA MapSkip == MapInv /\ Skip => MapInv'
<1> SUFFICES ASSUME MapInv, Skip PROVE MapInv'
  OBVIOUS
<1>1. /\ stage = "occupy" /\ stage' = "unmapped"
      /\ UNCHANGED <<kernel, hw, blocked, mesh, split, order, nest, ub, clamp, waves>>
  BY DEF Skip
<1>2. /\ stage \notin HasOrder /\ stage' \notin HasSplit' /\ stage' \notin HasOrder'
      /\ stage' \notin HasWaves'
  BY <1>1 DEF HasSplit, HasOrder, HasWaves
<1>3. ChoicesOK'
  BY <1>1, <1>2 DEF MapInv, ChoicesOK, Stages
<1>4. LoopsMade'
  BY <1>1, <1>2 DEF MapInv, LoopsMade
<1>5. BoundsOK'
  BY <1>1, <1>2, NoLoopStep DEF BoundsOK
<1>6. ClampsOK'
  BY <1>1, NoLoopStep DEF MapInv, ClampsOK
<1> QED
  BY <1>3, <1>4, <1>5, <1>6 DEF MapInv

\* Split chooses a split of that mesh.
LEMMA MapSplit == MapInv /\ Split => MapInv'
<1> SUFFICES ASSUME MapInv, Split PROVE MapInv'
  OBVIOUS
<1>1. /\ stage = "split" /\ stage' = "prioritise" /\ split' \in Splits(Len(kernel.ext) + 1)
      /\ UNCHANGED <<kernel, hw, blocked, mesh, order, nest, ub, clamp, waves>>
  BY DEF Split
<1>2. /\ stage \notin HasOrder /\ stage' \notin HasOrder' /\ stage' \notin HasWaves'
  BY <1>1 DEF HasSplit, HasOrder, HasWaves
<1>3. ChoicesOK'
  <2>1. SplitOK(split', Size)
    <3>1. Size \in Nat \ {0} /\ mesh \in [Axes -> Nat \ {0}]
      BY KernelFacts DEF MapInv, ChoicesOK
    <3> QED
      BY <1>1, <3>1, SplitsOK DEF Size
  <2>2. Size' = Size
    BY <1>1, NoLoopStep
  <2> QED
    BY <1>1, <1>2, <2>1, <2>2 DEF MapInv, ChoicesOK, Stages, SplitOK
<1>4. LoopsMade'
  BY <1>1, <1>2 DEF MapInv, LoopsMade
<1>5. BoundsOK'
  BY <1>1, <1>2, NoLoopStep DEF BoundsOK
<1>6. ClampsOK'
  BY <1>1, NoLoopStep DEF MapInv, ClampsOK
<1> QED
  BY <1>3, <1>4, <1>5, <1>6 DEF MapInv

\* Prioritise chooses an order of the iterators.
LEMMA MapPrioritise == MapInv /\ Prioritise => MapInv'
<1> SUFFICES ASSUME MapInv, Prioritise PROVE MapInv'
  OBVIOUS
<1>1. /\ stage = "prioritise" /\ stage' = "tile" /\ order' \in PriorityOrderings
      /\ UNCHANGED <<kernel, hw, blocked, mesh, split, nest, ub, clamp, waves>>
  BY DEF Prioritise
<1>2. /\ stage \notin HasOrder /\ stage \in HasSplit /\ stage' \notin HasWaves' /\ stage' # "nest"
  BY <1>1 DEF HasSplit, HasOrder, HasWaves
<1>3. ChoicesOK'
  <2>1. OrderOK(order')
    BY <1>1 DEF PriorityOrderings, FrontByFront, OrderOK
  <2>2. Size' = Size /\ Iters' = Iters
    BY <1>1, NoLoopStep
  <2>3. (OrderOK(order))'
    BY <2>1, <2>2 DEF OrderOK
  <2>4. SplitOK(split, Size)
    BY <1>2 DEF MapInv, ChoicesOK
  <2>5. (SplitOK(split, Size))'
    BY <1>1, <2>2, <2>4
  <2> QED
    BY <1>1, <2>3, <2>5 DEF MapInv, ChoicesOK, Stages
<1>4. LoopsMade'
  <2>1. nest = <<>>
    BY <1>2 DEF MapInv, LoopsMade
  <2>2. nest' = <<>> /\ Len(nest') = 0
    BY <1>1, <2>1
  <2>3. Len(Claims(split, order))' \in Nat
    <3>1. Size \in Nat \ {0} /\ Iters = 1 .. Size /\ SplitOK(split, Size)
      BY <1>2, KernelFacts DEF MapInv, ChoicesOK
    <3>2. Iters' = Iters /\ Size' = Size
      BY <1>1, NoLoopStep
    <3>3. OrderOK(order')
      BY <1>1 DEF PriorityOrderings, FrontByFront, OrderOK
    <3>4. Claims(split, order)' = Claims(split, order')
      BY <1>1, <3>2 DEF Claims, Bucket
    <3>5. Claims(split, order') \in Seq(Claim)
      BY <3>1, <3>3, ClaimsShape
    <3> QED
      BY <3>4, <3>5, LenProperties
  <2> QED
    BY <1>2, <2>2, <2>3 DEF LoopsMade
<1>5. BoundsOK'
  BY <1>1, <1>2, NoLoopStep DEF BoundsOK
<1>6. ClampsOK'
  BY <1>1, NoLoopStep DEF MapInv, ClampsOK
<1> QED
  BY <1>3, <1>4, <1>5, <1>6 DEF MapInv

\* The claims do not change while the choices do not.
LEMMA SameClaims ==
  ASSUME UNCHANGED <<kernel, split, order>>
  PROVE  Claims(split, order)' = Claims(split, order)
BY DEF Claims, Bucket, Iters

\* Tile makes the next claimed loop and divides its iterator by the size.
LEMMA MapTile == MapInv /\ Tile => MapInv'
<1> SUFFICES ASSUME MapInv, Tile PROVE MapInv'
  OBVIOUS
<1> DEFINE c == Claims(split, order)
           e == c[Len(nest) + 1]
<1>1. /\ stage = "tile" /\ Len(nest) < Len(c)
      /\ nest' = Append(nest, e) /\ ub' = [ub EXCEPT ![e.iter] = CeilDiv(@, e.size)]
      /\ UNCHANGED <<kernel, hw, blocked, stage, mesh, split, order, clamp, waves>>
  BY DEF Tile
<1>2. /\ stage \in HasOrder /\ stage \in HasSplit /\ stage' = stage
      /\ stage \notin {"nest"} \cup HasWaves /\ stage # "mapped" /\ stage # "ready"
  BY <1>1 DEF HasSplit, HasOrder, HasWaves
<1>3. Size \in Nat \ {0} /\ Iters = 1 .. Size /\ kernel.ext \in [Iters -> Nat \ {0}]
  BY KernelFacts DEF MapInv, ChoicesOK
<1>4. SplitOK(split, Size) /\ OrderOK(order)
  BY <1>2 DEF MapInv, ChoicesOK
<1>5. /\ c \in Seq(Claim) /\ (\A n \in 1 .. Len(c) : c[n].iter \in Iters)
      /\ \A i \in Iters : OneOrTwo(LoopsIn(c, i))
  BY <1>3, <1>4, ClaimsShape
<1>6. c' = c /\ Iters' = Iters /\ Size' = Size
  BY <1>1, SameClaims DEF Iters, Size
<1>7. nest \in Seq(Claim) /\ \A n \in 1 .. Len(nest) : nest[n] = c[n]
  BY <1>2 DEF MapInv, LoopsMade
<1> HIDE DEF c
<1>8. Len(nest) \in Nat /\ Len(c) \in Nat /\ Len(nest) + 1 \in 1 .. Len(c)
  BY <1>1, <1>5, <1>7, LenProperties
<1>9. e \in Claim /\ e.iter \in Iters /\ e.size \in Nat \ {0}
  <2>1. e \in Claim
    BY <1>5, <1>8, ElementOfSeq
  <2>2. \A x \in Claim : x.size \in Nat \ {0}
    BY DEF Claim
  <2> QED
    BY <1>5, <1>8, <2>1, <2>2
<1>10. /\ nest' \in Seq(Claim) /\ Len(nest') = Len(nest) + 1 /\ nest'[Len(nest) + 1] = e
       /\ \A n \in 1 .. Len(nest) : nest'[n] = nest[n]
  BY <1>1, <1>7, <1>9, AppendProperties
<1>11. \A n \in 1 .. Len(nest') : nest'[n] = c[n]
  BY <1>7, <1>8, <1>10
<1> HIDE DEF e
<1>12. ASSUME NEW i \in Iters
       PROVE  CoresIn(nest', i) = IF i = e.iter THEN CoresIn(nest, i) * e.size ELSE CoresIn(nest, i)
  <2>1. AtMostTwo(LoopsIn(nest, i)) /\ OneOrTwo(LoopsIn(c, i))
    BY <1>5, LoopsSoFar DEF MapInv
  <2>2. AtMostTwo(LoopsIn(nest', i))
    <3>1. Len(nest') <= Len(c)
      BY <1>8, <1>10
    <3>2. PICK l \in Seq(Claim) : l = nest'
      BY <1>10
    <3> QED
      BY <1>5, <1>11, <2>1, <3>1, <3>2, LoopsInPrefix
  <2> QED
    BY <1>1, <1>7, <1>9, <2>1, <2>2, CoresInAppend
<1>13. ChoicesOK'
  <2>1. (SplitOK(split, Size))'
    BY <1>1, <1>4, <1>6
  <2>2. (OrderOK(order))'
    BY <1>1, <1>4, <1>6 DEF OrderOK
  <2> QED
    BY <1>1, <1>2, <2>1, <2>2 DEF MapInv, ChoicesOK, Stages
<1>14. LoopsMade'
  <2>1. Len(nest') <= Len(c)
    BY <1>8, <1>10
  <2>2. /\ stage' \in HasOrder' /\ stage' \notin ({"nest"} \cup HasWaves)'
    BY <1>2 DEF HasSplit, HasOrder, HasWaves
  <2> QED
    BY <1>6, <1>10, <1>11, <2>1, <2>2 DEF LoopsMade, c
<1>15. BoundsOK'
  <2>1. ub = [i \in Iters |-> CeilDiv(kernel.ext[i], CoresIn(nest, i))]
    BY DEF MapInv, BoundsOK
  <2>2. ASSUME NEW i \in Iters PROVE ub'[i] = CeilDiv(kernel.ext[i], CoresIn(nest', i))
    <3>1. CoresIn(nest, i) \in Nat \ {0} /\ kernel.ext[i] \in Nat \ {0}
      BY <1>3, LoopsSoFar DEF MapInv
    <3>2. CASE i = e.iter
      <4>1. ub'[i] = CeilDiv(CeilDiv(kernel.ext[i], CoresIn(nest, i)), e.size)
        BY <1>1, <2>1, <3>2
      <4>2. CeilDiv(CeilDiv(kernel.ext[i], CoresIn(nest, i)), e.size)
              = CeilDiv(kernel.ext[i], CoresIn(nest, i) * e.size)
        BY <1>9, <3>1, FlattenedTrips DEF FlatTrips
      <4> QED
        BY <1>12, <3>2, <4>1, <4>2
    <3>3. CASE i # e.iter
      <4>1. ub'[i] = CeilDiv(kernel.ext[i], CoresIn(nest, i))
        BY <1>1, <2>1, <3>3
      <4> QED
        BY <1>12, <3>3, <4>1
    <3> QED
      BY <3>2, <3>3
  <2>3. ub' = [i \in Iters |-> ub'[i]]
    BY <1>1, <2>1
  <2>4. ub' = [i \in Iters |-> CeilDiv(kernel.ext[i], CoresIn(nest', i))]
    BY <2>2, <2>3
  <2>5. stage' \notin HasWaves'
    BY <1>2 DEF HasWaves
  <2> QED
    BY <1>1, <1>6, <2>4, <2>5 DEF BoundsOK
<1>16. ClampsOK'
  BY <1>1, <1>2, <1>6 DEF MapInv, ClampsOK
<1> QED
  BY <1>13, <1>14, <1>15, <1>16 DEF MapInv

\* A later step that only decides what becomes of the loops made.
LEMMA LaterStep ==
  ASSUME MapInv, stage \in HasOrder, stage' \in HasOrder, stage' \in Stages \ {"running"},
         UNCHANGED <<kernel, hw, blocked, mesh, split, order, nest, ub>>,
         stage' \in {"nest"} \cup HasWaves => Len(nest) = Len(Claims(split, order))
  PROVE  ChoicesOK' /\ LoopsMade'
<1>1. Claims(split, order)' = Claims(split, order) /\ Iters' = Iters /\ Size' = Size
  BY SameClaims, NoLoopStep
<1>2. stage' \in HasOrder' /\ stage' \in HasSplit' /\ stage \in HasSplit
  BY DEF HasOrder, HasSplit
<1>3. ChoicesOK'
  <2>1. SplitOK(split, Size) /\ OrderOK(order)
    BY <1>2 DEF MapInv, ChoicesOK
  <2>2. (SplitOK(split, Size))' /\ (OrderOK(order))'
    BY <1>1, <2>1 DEF OrderOK
  <2> QED
    BY <2>2 DEF MapInv, ChoicesOK, Stages
<1>4. LoopsMade'
  <2>1. /\ nest \in Seq(Claim) /\ Len(nest) <= Len(Claims(split, order))
        /\ \A n \in 1 .. Len(nest) : nest[n] = Claims(split, order)[n]
    BY DEF MapInv, LoopsMade
  <2>2. (stage \in {"nest"} \cup HasWaves)' => Len(nest) = Len(Claims(split, order))
    BY DEF HasWaves
  <2> QED
    BY <1>1, <1>2, <2>1, <2>2 DEF LoopsMade
<1> QED
  BY <1>3, <1>4

\* Drop ends the candidate.
LEMMA MapDrop == MapInv /\ Drop => MapInv'
<1> SUFFICES ASSUME MapInv, Drop PROVE MapInv'
  OBVIOUS
<1>1. /\ stage = "tile" /\ stage' = "dropped"
      /\ UNCHANGED <<kernel, hw, blocked, mesh, split, order, nest, ub, clamp, waves>>
  BY DEF Drop
<1>2. /\ stage \in HasOrder /\ stage' \in HasOrder /\ stage' \in Stages \ {"running"}
      /\ stage' \notin {"nest"} \cup HasWaves /\ stage' \notin HasWaves'
  BY <1>1 DEF HasSplit, HasOrder, HasWaves, Stages
<1>3. ChoicesOK' /\ LoopsMade'
  BY <1>1, <1>2, LaterStep
<1>4. BoundsOK'
  BY <1>1, <1>2, NoLoopStep DEF BoundsOK
<1>5. ClampsOK'
  BY <1>1, NoLoopStep DEF MapInv, ClampsOK
<1> QED
  BY <1>3, <1>4, <1>5 DEF MapInv

\* Reconstruct clamps every iterator on several cores but the reduction.
LEMMA MapReconstruct == MapInv /\ Reconstruct => MapInv'
<1> SUFFICES ASSUME MapInv, Reconstruct PROVE MapInv'
  OBVIOUS
<1>1. /\ stage = "tile" /\ stage' = "nest" /\ Len(nest) = Len(Claims(split, order))
      /\ clamp' = [i \in Iters |-> CoresOn(i) > 1 /\ i # kernel.red]
      /\ UNCHANGED <<kernel, hw, blocked, mesh, split, order, nest, ub, waves>>
  BY DEF Reconstruct
<1>2. /\ stage \in HasOrder /\ stage' \in HasOrder /\ stage' \in Stages \ {"running"}
      /\ stage' \notin HasWaves'
  BY <1>1 DEF HasSplit, HasOrder, HasWaves, Stages
<1>3. ChoicesOK' /\ LoopsMade'
  BY <1>1, <1>2, LaterStep
<1>4. BoundsOK'
  BY <1>1, <1>2, NoLoopStep DEF BoundsOK
<1>5. ClampsOK'
  <2>1. ASSUME NEW i \in Iters, ~ clamp'[i] PROVE CoresIn(nest, i) = 1 \/ i = kernel.red
    <3>1. CoresIn(nest, i) \in Nat \ {0} /\ CoresOn(i) = CoresIn(nest, i)
      BY LoopsSoFar, CoresOnIn DEF MapInv
    <3>2. ~ (CoresOn(i) > 1 /\ i # kernel.red)
      BY <1>1, <2>1
    <3> QED
      BY <3>1, <3>2
  <2>2. clamp' \in [Iters -> BOOLEAN]
    BY <1>1
  <2> QED
    BY <1>1, <2>1, <2>2, NoLoopStep DEF ClampsOK
<1> QED
  BY <1>3, <1>4, <1>5 DEF MapInv

(* The merged wave loop is what was left to tile. *)
LEMMA WavesMerged ==
  ASSUME MapInv, NEW i \in Iters, OneOrTwo(LoopsIn(nest, i))
  PROVE  FlatTrips(kernel.ext[i], TiledBy(i)[1], TiledBy(i)[2])
           = CeilDiv(kernel.ext[i], CoresIn(nest, i))
<1>1. nest \in Seq(Claim)
  BY DEF MapInv, LoopsMade
<1>2. LoopsOf(i) = Outermost(LoopsIn(nest, i))
  BY DEF LoopsOf, LoopsIn, Loops
<1>3. CASE \E a \in Nat \ {0} : LoopsIn(nest, i) = {a}
  <2>1. PICK a \in Nat \ {0} : LoopsIn(nest, i) = {a}
    BY <1>3
  <2>2. LoopsOf(i) = <<a>> /\ CoresIn(nest, i) = nest[a].size /\ nest[a].size \in Nat
    <3>1. LoopsOf(i) = <<a>>
      BY <1>2, <2>1, OutermostOfOne
    <3>2. CoresIn(nest, i) = nest[a].size
      BY <1>1, <2>1, CoresInFew
    <3>3. a \in LoopsIn(nest, i)
      BY <2>1
    <3>4. nest[a].size \in Nat
      BY <1>1, <3>3, ClaimAt
    <3> QED
      BY <3>1, <3>2, <3>4
  <2>3. TiledBy(i) = <<nest[a].size, 1>>
    BY <2>2 DEF TiledBy
  <2>4. TiledBy(i)[1] * TiledBy(i)[2] = CoresIn(nest, i)
    BY <2>2, <2>3
  <2> QED
    BY <2>4 DEF FlatTrips
<1>4. CASE \E a, b \in Nat \ {0} : a < b /\ LoopsIn(nest, i) = {a, b}
  <2>1. PICK a \in Nat \ {0}, b \in Nat \ {0} : a < b /\ LoopsIn(nest, i) = {a, b}
    BY <1>4
  <2>2. LoopsOf(i) = <<a, b>>
    BY <1>2, <2>1, OutermostOfTwo
  <2>3. CoresIn(nest, i) = nest[a].size * nest[b].size
    BY <1>1, <2>1, CoresInFew
  <2>4. TiledBy(i) = <<nest[a].size, nest[b].size>>
    BY <2>2 DEF TiledBy
  <2>5. TiledBy(i)[1] * TiledBy(i)[2] = CoresIn(nest, i)
    BY <2>3, <2>4
  <2> QED
    BY <2>5 DEF FlatTrips
<1> QED
  BY <1>3, <1>4 DEF OneOrTwo

\* The merged ceildivs are the bound that is left (FlattenedTrips).
LEMMA MapConvert == MapInv /\ ConvertParallelToNested => MapInv'
<1> SUFFICES ASSUME MapInv, ConvertParallelToNested PROVE MapInv'
  OBVIOUS
<1>1. /\ stage = "nest" /\ stage' = "mapped"
      /\ waves' = [i \in Iters |->
                     FlatTrips(kernel.ext[i], TiledBy(i)[1], TiledBy(i)[2])]
      /\ UNCHANGED <<kernel, hw, blocked, mesh, split, order, nest, ub, clamp>>
  BY DEF ConvertParallelToNested
<1>2. /\ stage \in HasOrder /\ stage' \in HasOrder /\ stage' \in Stages \ {"running"}
  BY <1>1 DEF HasSplit, HasOrder, HasWaves, Stages
<1>3. ChoicesOK' /\ LoopsMade'
  <2>1. Len(nest) = Len(Claims(split, order))
    BY <1>1 DEF MapInv, LoopsMade
  <2> QED
    BY <1>1, <1>2, <2>1, LaterStep
<1>4. BoundsOK'
  <2>1. \A i \in Iters : OneOrTwo(LoopsIn(nest, i))
    BY <1>1, LoopsSoFar DEF MapInv
  <2>2. \A i \in Iters : FlatTrips(kernel.ext[i], TiledBy(i)[1], TiledBy(i)[2])
                           = CeilDiv(kernel.ext[i], CoresIn(nest, i))
    BY <2>1, WavesMerged
  <2>3. waves' = [i \in Iters |-> CeilDiv(kernel.ext[i], CoresIn(nest, i))]
    BY <1>1, <2>2
  <2>4. ub = [i \in Iters |-> CeilDiv(kernel.ext[i], CoresIn(nest, i))]
    BY DEF MapInv, BoundsOK
  <2> QED
    BY <1>1, <2>3, <2>4, NoLoopStep DEF BoundsOK
<1>5. ClampsOK'
  <2>1. clamp \in [Iters -> BOOLEAN]
        /\ \A i \in Iters : ~ clamp[i] => CoresIn(nest, i) = 1 \/ i = kernel.red
    BY <1>1 DEF MapInv, ClampsOK
  <2> QED
    BY <1>1, <2>1, NoLoopStep DEF ClampsOK
<1> QED
  BY <1>3, <1>4, <1>5 DEF MapInv

\* Reject ends the candidate.
LEMMA MapReject == MapInv /\ Reject => MapInv'
<1> SUFFICES ASSUME MapInv, Reject PROVE MapInv'
  OBVIOUS
<1>1. /\ stage = "mapped" /\ stage' = "rejected"
      /\ UNCHANGED <<kernel, hw, blocked, mesh, split, order, nest, ub, clamp, waves>>
  BY DEF Reject
<1>2. /\ stage \in HasOrder /\ stage' \in HasOrder /\ stage' \in Stages \ {"running"}
      /\ stage \in HasWaves
  BY <1>1 DEF HasSplit, HasOrder, HasWaves, Stages
<1>3. ChoicesOK' /\ LoopsMade'
  <2>1. Len(nest) = Len(Claims(split, order))
    BY <1>2 DEF MapInv, LoopsMade
  <2> QED
    BY <1>1, <1>2, <2>1, LaterStep
<1>4. BoundsOK'
  BY <1>1, <1>2, NoLoopStep DEF MapInv, BoundsOK
<1>5. ClampsOK'
  BY <1>1, NoLoopStep DEF MapInv, ClampsOK
<1> QED
  BY <1>3, <1>4, <1>5 DEF MapInv

\* Materialize drops a clamp where the cores divide the extent; the gather
\* constraint makes them divide the extent of the reduction.
LEMMA MapMaterialize == HardConstraints /\ MapInv /\ Materialize => MapInv'
<1> SUFFICES ASSUME HardConstraints, MapInv, Materialize PROVE MapInv'
  OBVIOUS
<1>1. /\ stage = "mapped" /\ stage' = "ready" /\ GatherConstraint
      /\ clamp' = [i \in Iters |-> clamp[i] /\ ~ Divisible(i)]
      /\ UNCHANGED <<kernel, hw, blocked, mesh, split, order, nest, ub, waves>>
  BY DEF Materialize
<1>2. /\ stage \in HasOrder /\ stage' \in HasOrder /\ stage' \in Stages \ {"running"}
      /\ stage \in HasWaves
  BY <1>1 DEF HasSplit, HasOrder, HasWaves, Stages
<1>3. ChoicesOK' /\ LoopsMade'
  <2>1. Len(nest) = Len(Claims(split, order))
    BY <1>2 DEF MapInv, LoopsMade
  <2> QED
    BY <1>1, <1>2, <2>1, LaterStep
<1>4. BoundsOK'
  BY <1>1, <1>2, NoLoopStep DEF MapInv, BoundsOK
<1>5. ClampsOK'
  <2>1. ASSUME NEW i \in Iters, ~ clamp'[i] PROVE kernel.ext[i] % CoresIn(nest, i) = 0
    <3>1. /\ CoresIn(nest, i) \in Nat \ {0} /\ CoresOn(i) = CoresIn(nest, i)
          /\ kernel.ext[i] \in Nat \ {0} /\ kernel.red \in {0} \cup Iters /\ i # 0
      BY LoopsSoFar, CoresOnIn, KernelFacts DEF MapInv, ChoicesOK
    <3>2. CASE Divisible(i)
      BY <3>1, <3>2 DEF Divisible
    <3>3. CASE CoresIn(nest, i) = 1
      BY <3>1, <3>3
    <3>4. CASE i = kernel.red
      <4>1. kernel.ext[i] = CoresIn(nest, i)
        BY <1>1, <3>1, <3>4 DEF GatherConstraint
      <4> QED
        BY <3>1, <4>1
    <3>5. ~ clamp[i] => CoresIn(nest, i) = 1 \/ i = kernel.red
      BY <1>1 DEF MapInv, ClampsOK
    <3>6. ~ clamp[i] \/ Divisible(i)
      BY <1>1, <2>1
    <3> QED
      BY <3>2, <3>3, <3>4, <3>5, <3>6
  <2>2. clamp' \in [Iters -> BOOLEAN]
    <3>1. \A i \in Iters : clamp[i] \in BOOLEAN
      BY DEF MapInv, ClampsOK
    <3> QED
      BY <1>1, <3>1
  <2> QED
    BY <1>1, <2>1, <2>2, NoLoopStep DEF ClampsOK
<1> QED
  BY <1>3, <1>4, <1>5 DEF MapInv

\* No step disturbs the invariant.
LEMMA MapStep == HardConstraints /\ MapInv /\ [Next]_vars => MapInv'
<1> SUFFICES ASSUME HardConstraints, MapInv, [Next]_vars PROVE MapInv'
  OBVIOUS
<1>1. CASE UNCHANGED vars
  <2>1. UNCHANGED <<kernel, hw, full, blocked, stage, mesh, split, order, nest, ub, clamp, waves>>
    BY <1>1 DEF vars
  <2>2. Claims(split, order)' = Claims(split, order)
    BY <2>1, SameClaims
  <2> QED
    BY <2>1, <2>2 DEF MapInv, ChoicesOK, LoopsMade, BoundsOK, ClampsOK, Iters, Size, HasSplit,
                      HasOrder, HasWaves, Stages, OrderOK
<1>2. CASE Mapping
  BY <1>2, MapOccupy, MapSkip, MapSplit, MapPrioritise, MapTile, MapDrop, MapReconstruct,
     MapConvert, MapMaterialize, MapReject DEF Mapping
<1>3. CASE Mapped
  BY <1>1, <1>3 DEF Mapped
<1> QED
  BY <1>1, <1>2, <1>3 DEF Next

(* A mapping under way is what was chosen so far: the loops are the first   *)
(* claims of the chosen split and order, each iterator's remaining bound is *)
(* its extent over the cores it has been given, and an unclamped index is   *)
(* in range (applyMappingToFunction, tileAffineParallel).                   *)
THEOREM MappingInvariant ==
  ASSUME HardConstraints
  PROVE  Spec => []MapInv
<1>1. Init => MapInv
  BY MapInit
<1>2. MapInv /\ [Next]_vars => MapInv'
  BY MapStep
<1> QED
  BY <1>1, <1>2, PTL DEF Spec

-----------------------------------------------------------------------------
(* The cores of an iterator are numbered from 0, each once. *)

\* The loops of iterator i that hold more than one core.
WideLoops(i) == {n \in LoopsIn(nest, i) : nest[n].size # 1}

\* The loops of more than one core are none, one or two.
LEMMA WideLoopsCases ==
  ASSUME nest \in Seq(Claim), NEW i, OneOrTwo(LoopsIn(nest, i))
  PROVE  \/ WideLoops(i) = {} /\ CoresIn(nest, i) = 1
         \/ \E a \in Nat : WideLoops(i) = {a} /\ CoresIn(nest, i) = nest[a].size
         \/ \E a, b \in Nat : /\ a < b /\ WideLoops(i) = {a, b} /\ LoopsIn(nest, i) = {a, b}
                              /\ CoresIn(nest, i) = nest[a].size * nest[b].size
<1>1. \A n \in LoopsIn(nest, i) : nest[n].size \in Nat \ {0}
  BY ClaimAt
<1>2. CASE \E a \in Nat \ {0} : LoopsIn(nest, i) = {a}
  <2>1. PICK a \in Nat \ {0} : LoopsIn(nest, i) = {a}
    BY <1>2
  <2>2. CoresIn(nest, i) = nest[a].size
    BY <2>1, CoresInFew
  <2>3. CASE nest[a].size = 1
    BY <2>1, <2>2, <2>3 DEF WideLoops
  <2>4. CASE nest[a].size # 1
    <3>1. WideLoops(i) = {a}
      BY <2>1, <2>4 DEF WideLoops
    <3> QED
      BY <2>2, <3>1
  <2> QED
    BY <2>3, <2>4
<1>3. CASE \E a, b \in Nat \ {0} : a < b /\ LoopsIn(nest, i) = {a, b}
  <2>1. PICK a \in Nat \ {0}, b \in Nat \ {0} : a < b /\ LoopsIn(nest, i) = {a, b}
    BY <1>3
  <2>2. /\ CoresIn(nest, i) = nest[a].size * nest[b].size
        /\ nest[a].size \in Nat \ {0} /\ nest[b].size \in Nat \ {0}
    BY <1>1, <2>1, CoresInFew
  <2>3. CASE nest[a].size = 1 /\ nest[b].size = 1
    <3>1. WideLoops(i) = {}
      BY <2>1, <2>3 DEF WideLoops
    <3> QED
      BY <2>2, <2>3, <3>1
  <2>4. CASE nest[a].size # 1 /\ nest[b].size = 1
    <3>1. WideLoops(i) = {a}
      BY <2>1, <2>4 DEF WideLoops
    <3>2. CoresIn(nest, i) = nest[a].size
      BY <2>2, <2>4
    <3> QED
      BY <3>1, <3>2
  <2>5. CASE nest[a].size = 1 /\ nest[b].size # 1
    <3>1. WideLoops(i) = {b}
      BY <2>1, <2>5 DEF WideLoops
    <3>2. CoresIn(nest, i) = nest[b].size
      BY <2>2, <2>5
    <3> QED
      BY <3>1, <3>2
  <2>6. CASE nest[a].size # 1 /\ nest[b].size # 1
    <3>1. WideLoops(i) = {a, b}
      BY <2>1, <2>6 DEF WideLoops
    <3> QED
      BY <2>1, <2>2, <3>1
  <2> QED
    BY <2>3, <2>4, <2>5, <2>6
<1> QED
  BY <1>2, <1>3 DEF OneOrTwo

\* A core has a value below the size on every loop.
LEMMA CoreAt ==
  ASSUME nest \in Seq(Claim), NEW c \in Cores, NEW n \in Loops
  PROVE  c[n] \in 0 .. nest[n].size - 1 /\ nest[n].size \in Nat \ {0}
<1>1. nest[n].size \in Nat \ {0}
  <2>1. n \in LoopsIn(nest, nest[n].iter)
    BY DEF LoopsIn, Loops
  <2> QED
    BY <2>1, ClaimAt
<1>2. c[n] \in 0 .. Max({nest[m].size : m \in Loops}) - 1 /\ c[n] < nest[n].size
  BY DEF Cores
<1>3. c[n] \in Int /\ 0 <= c[n]
  BY <1>2
<1> QED
  BY <1>1, <1>2, <1>3

\* The number of core c among those of iterator i.
Number(c, i) == IF NonUnit(i) = <<>> THEN 0 ELSE CoreNumber2d(c, i)

\* The cores of iterator i have the numbers below CoresIn(nest, i), two that
\* share a number do so on all of i's loops, and each number has a place.
Numbered(i) ==
  LET C == CoresIn(nest, i)
      L == LoopsIn(nest, i)
  IN  /\ NonUnit(i) = <<>> => C = 1
      /\ \A c \in Cores : NonUnit(i) # <<>> => CoreNumber(c, i) = CoreNumber2d(c, i)
      /\ \A c \in Cores : Number(c, i) \in 0 .. C - 1
      /\ \A c, d \in Cores : Number(c, i) = Number(d, i) => \A n \in L : c[n] = d[n]
      /\ \A m \in 0 .. C - 1 :
           \E x \in [L -> Nat] :
             /\ \A n \in L : x[n] < nest[n].size
             /\ \A c \in Cores : (\A n \in L : c[n] = x[n]) => Number(c, i) = m

\* One loop or two number their cores.
LEMMA EveryIteratorNumbered ==
  ASSUME nest \in Seq(Claim), NEW i, OneOrTwo(LoopsIn(nest, i))
  PROVE  Numbered(i)
<1> DEFINE C == CoresIn(nest, i)
           L == LoopsIn(nest, i)
<1>1. NonUnit(i) = Outermost(WideLoops(i))
  <2>1. {n \in Loops : nest[n].iter = i /\ nest[n].size # 1} = WideLoops(i)
    BY DEF WideLoops, LoopsIn, Loops
  <2> QED
    BY <2>1 DEF NonUnit
<1>2. \A c \in Cores, n \in L : /\ c[n] \in 0 .. nest[n].size - 1
                                /\ nest[n].size \in Nat \ {0}
  <2>1. L \subseteq Loops
    BY DEF LoopsIn, Loops
  <2> QED
    BY <2>1, CoreAt
<1>3. \A c \in Cores, n \in L : n \notin WideLoops(i) => c[n] = 0
  <2>1. \A n \in L : n \notin WideLoops(i) => nest[n].size = 1
    BY DEF WideLoops
  <2> QED
    BY <1>2, <2>1
<1>4. \A n \in L : n \notin WideLoops(i) => nest[n].size = 1
  BY DEF WideLoops
<1>5. WideLoops(i) \subseteq L /\ \A n \in L : nest[n].size \in Nat \ {0}
  BY ClaimAt DEF WideLoops
<1> HIDE DEF L
<1>6. CASE WideLoops(i) = {} /\ C = 1
  <2>1. NonUnit(i) = <<>>
    BY <1>1, <1>6, OutermostOfNone
  <2>2. \A c : Number(c, i) = 0
    BY <2>1 DEF Number
  <2>3. \A c, d \in Cores : \A n \in L : c[n] = d[n]
    BY <1>3, <1>6
  <2>4. ASSUME NEW m \in 0 .. C - 1
        PROVE  \E x \in [L -> Nat] :
                 /\ \A n \in L : x[n] < nest[n].size
                 /\ \A c \in Cores : (\A n \in L : c[n] = x[n]) => Number(c, i) = m
    <3>1. m = 0
      BY <1>6
    <3>2. [n \in L |-> 0] \in [L -> Nat] /\ \A n \in L : [k \in L |-> 0][n] < nest[n].size
      BY <1>5
    <3> QED
      BY <2>2, <3>1, <3>2
  <2> QED
    BY <1>6, <2>1, <2>2, <2>3, <2>4 DEF Numbered, L
<1>7. CASE \E a \in Nat : WideLoops(i) = {a} /\ C = nest[a].size
  <2>1. PICK a \in Nat : WideLoops(i) = {a} /\ C = nest[a].size
    BY <1>7
  <2>2. a \in L /\ nest[a].size \in Nat \ {0}
    <3>1. a \in L
      BY <1>5, <2>1
    <3> QED
      BY <1>5, <3>1
  <2>3. NonUnit(i) = <<a>> /\ NonUnit(i) # <<>>
    <3>1. NonUnit(i) = <<a>>
      BY <1>1, <2>1, OutermostOfOne
    <3>2. <<a>> # <<>>
      OBVIOUS
    <3> QED
      BY <3>1, <3>2
  <2>4. ASSUME NEW c \in Cores
        PROVE  /\ CoreNumber2d(c, i) = c[a] /\ CoreNumber(c, i) = c[a] /\ Number(c, i) = c[a]
    <3>1. CoreNumber2d(c, i) = c[a]
      BY <2>3 DEF CoreNumber2d
    <3>2. CoreNumber(c, i) = NumberAlong(nest, c, <<a>>)
      BY <2>3 DEF CoreNumber, NumberAlong
    <3>3. CoreNumber(c, i) = RowMajor(0, c[a], nest[a].size)
      BY <3>2, NumberOfOne
    <3>4. c[a] \in Nat
      BY <1>2, <2>2
    <3>5. RowMajor(0, c[a], nest[a].size) = c[a]
      BY <2>2, <3>4 DEF RowMajor
    <3> QED
      BY <2>3, <3>1, <3>3, <3>5 DEF Number
  <2>5. ASSUME NEW c \in Cores, NEW d \in Cores, Number(c, i) = Number(d, i), NEW n \in L
        PROVE  c[n] = d[n]
    <3>1. CASE n = a
      BY <2>4, <2>5, <3>1
    <3>2. CASE n # a
      BY <1>3, <2>1, <3>2
    <3> QED
      BY <3>1, <3>2
  <2>6. ASSUME NEW m \in 0 .. C - 1
        PROVE  \E x \in [L -> Nat] :
                 /\ \A n \in L : x[n] < nest[n].size
                 /\ \A c \in Cores : (\A n \in L : c[n] = x[n]) => Number(c, i) = m
    <3> DEFINE x == [n \in L |-> IF n = a THEN m ELSE 0]
    <3>1. x \in [L -> Nat] /\ x[a] = m
      BY <2>2
    <3>2. ASSUME NEW n \in L PROVE x[n] < nest[n].size
      <4>1. CASE n = a
        BY <2>1, <2>2, <4>1
      <4>2. CASE n # a
        BY <1>5, <4>2
      <4> QED
        BY <4>1, <4>2
    <3>3. ASSUME NEW c \in Cores, \A n \in L : c[n] = x[n] PROVE Number(c, i) = m
      BY <2>2, <2>4, <3>1, <3>3
    <3> QED
      BY <3>1, <3>2, <3>3
  <2>7. \A c \in Cores : Number(c, i) \in 0 .. C - 1
    BY <1>2, <2>1, <2>2, <2>4
  <2> QED
    BY <2>3, <2>4, <2>5, <2>6, <2>7 DEF Numbered, L
<1>8. CASE \E a, b \in Nat : /\ a < b /\ WideLoops(i) = {a, b} /\ L = {a, b}
                             /\ C = nest[a].size * nest[b].size
  <2>1. PICK a \in Nat, b \in Nat : /\ a < b /\ WideLoops(i) = {a, b} /\ L = {a, b}
                                    /\ C = nest[a].size * nest[b].size
    BY <1>8
  <2> DEFINE A == nest[a].size
             B == nest[b].size
  <2>2. A \in Nat \ {0} /\ B \in Nat \ {0} /\ a # b
    <3>1. a \in L /\ b \in L
      BY <2>1
    <3> QED
      BY <1>5, <2>1, <3>1
  <2>3. NonUnit(i) = <<a, b>> /\ NonUnit(i) # <<>>
    <3>1. NonUnit(i) = <<a, b>>
      BY <1>1, <2>1, OutermostOfTwo
    <3>2. <<a, b>> # <<>>
      OBVIOUS
    <3> QED
      BY <3>1, <3>2
  <2>4. \A c \in Cores : c[a] \in 0 .. A - 1 /\ c[b] \in 0 .. B - 1
    BY <1>2, <2>1
  <2>5. ASSUME NEW c \in Cores
        PROVE  /\ CoreNumber2d(c, i) = RowMajor(c[a], c[b], B)
               /\ CoreNumber(c, i) = RowMajor(c[a], c[b], B)
               /\ Number(c, i) = RowMajor(c[a], c[b], B)
    <3>1. CoreNumber2d(c, i) = RowMajor(c[a], c[b], B)
      BY <2>3 DEF CoreNumber2d
    <3>2. CoreNumber(c, i) = NumberAlong(nest, c, <<a, b>>)
      BY <2>3 DEF CoreNumber, NumberAlong
    <3>3. CoreNumber(c, i) = RowMajor(RowMajor(0, c[a], A), c[b], B)
      BY <3>2, NumberOfTwo
    <3>4. c[a] \in Nat
      BY <2>4
    <3>5. RowMajor(0, c[a], A) = c[a]
      BY <2>2, <3>4 DEF RowMajor
    <3> QED
      BY <2>3, <3>1, <3>3, <3>5 DEF Number
  <2> HIDE DEF A, B
  <2>6. /\ \A o \in 0 .. A - 1, j \in 0 .. B - 1 : RowMajor(o, j, B) \in 0 .. A * B - 1
        /\ \A m \in 0 .. A * B - 1 : \E o \in 0 .. A - 1, j \in 0 .. B - 1 : m = RowMajor(o, j, B)
        /\ \A o, p \in 0 .. A - 1, j, k \in 0 .. B - 1 :
              RowMajor(o, j, B) = RowMajor(p, k, B) => o = p /\ j = k
    BY <2>2, RowMajorPlaces
  <2>7. C = A * B
    BY <2>1 DEF A, B
  <2>8. ASSUME NEW c \in Cores PROVE Number(c, i) \in 0 .. C - 1
    <3>1. c[a] \in 0 .. A - 1 /\ c[b] \in 0 .. B - 1
      BY <2>4
    <3> QED
      BY <2>5, <2>6, <2>7, <3>1
  <2>9. ASSUME NEW c \in Cores, NEW d \in Cores, Number(c, i) = Number(d, i), NEW n \in L
        PROVE  c[n] = d[n]
    <3>1. c[a] \in 0 .. A - 1 /\ c[b] \in 0 .. B - 1 /\ d[a] \in 0 .. A - 1 /\ d[b] \in 0 .. B - 1
      BY <2>4
    <3>2. RowMajor(c[a], c[b], B) = RowMajor(d[a], d[b], B)
      BY <2>5, <2>9
    <3>3. c[a] = d[a] /\ c[b] = d[b]
      BY <2>6, <3>1, <3>2
    <3> QED
      BY <2>1, <3>3
  <2>10. ASSUME NEW m \in 0 .. C - 1
         PROVE  \E x \in [L -> Nat] :
                  /\ \A n \in L : x[n] < nest[n].size
                  /\ \A c \in Cores : (\A n \in L : c[n] = x[n]) => Number(c, i) = m
    <3>1. PICK o \in 0 .. A - 1, j \in 0 .. B - 1 : m = RowMajor(o, j, B)
      BY <2>6, <2>7
    <3> DEFINE x == [n \in L |-> IF n = a THEN o ELSE j]
    <3>2. x \in [L -> Nat] /\ x[a] = o /\ x[b] = j
      BY <2>1, <2>2
    <3>3. ASSUME NEW n \in L PROVE x[n] < nest[n].size
      <4>1. o < A /\ j < B
        BY <2>2
      <4> QED
        BY <2>1, <3>2, <4>1 DEF A, B
    <3>4. ASSUME NEW c \in Cores, \A n \in L : c[n] = x[n] PROVE Number(c, i) = m
      <4>1. c[a] = o /\ c[b] = j
        BY <2>1, <3>2, <3>4
      <4> QED
        BY <2>5, <3>1, <4>1
    <3> HIDE DEF x
    <3> QED
      BY <3>2, <3>3, <3>4
  <2> QED
    BY <2>3, <2>5, <2>8, <2>9, <2>10 DEF Numbered, L
<1> QED
  BY <1>6, <1>7, <1>8, WideLoopsCases DEF L

-----------------------------------------------------------------------------
(* Iterations. *)

(* The largest of finitely many numbers is at least each of them. *)
LEMMA MaxOfValues ==
  ASSUME NEW k \in Nat, NEW f \in [1 .. k -> Nat], NEW n \in 1 .. k
  PROVE  LET M == Max({f[m] : m \in 1 .. k}) IN M \in Nat /\ f[n] <= M
<1> DEFINE Below(j, b) == \A m \in 1 .. j : f[m] <= b
           D == {j \in 0 .. k : \A b \in Nat : ~ Below(j, b)}
<1>1. D = {}
  <2>1. SUFFICES ASSUME D # {} PROVE FALSE
    OBVIOUS
  <2>2. PICK j \in D : \A l \in D : j <= l
    <3>1. D \in SUBSET Nat
      OBVIOUS
    <3> HIDE DEF D
    <3> QED
      BY <2>1, <3>1, LeastOf
  <2>3. j \in 0 .. k /\ \A b \in Nat : ~ Below(j, b)
    BY <2>2
  <2>4. j # 0
    <3>1. Below(0, 0)
      OBVIOUS
    <3> QED
      BY <2>3, <3>1
  <2>5. j - 1 \in 0 .. k /\ j - 1 \notin D
    <3> HIDE DEF D
    <3> QED
      BY <2>2, <2>3, <2>4
  <2>6. PICK b \in Nat : Below(j - 1, b)
    BY <2>5
  <2>7. f[j] \in Nat
    BY <2>3, <2>4
  <2>8. Below(j, b + f[j])
    <3> SUFFICES ASSUME NEW m \in 1 .. j PROVE f[m] <= b + f[j]
      OBVIOUS
    <3>1. CASE m = j
      BY <2>7, <3>1
    <3>2. CASE m # j
      <4>1. m \in 1 .. j - 1 /\ m \in 1 .. k
        BY <2>3, <3>2
      <4>2. f[m] <= b /\ f[m] \in Nat
        BY <2>6, <4>1
      <4> QED
        BY <2>7, <4>2
    <3> QED
      BY <3>1, <3>2
  <2>9. b + f[j] \in Nat
    BY <2>7
  <2> HIDE DEF Below
  <2> QED
    BY <2>3, <2>8, <2>9
<1>2. PICK b \in Nat : Below(k, b)
  <2>1. k \notin D
    <3> HIDE DEF D
    <3> QED
      BY <1>1
  <2>2. k \in 0 .. k
    OBVIOUS
  <2> HIDE DEF Below
  <2> QED
    BY <2>1, <2>2
<1> DEFINE S == {f[m] : m \in 1 .. k}
<1>3. S \in SUBSET (0 .. b) /\ f[n] \in S
  BY <1>2
<1> HIDE DEF S
<1>4. Max(S) \in S /\ \A x \in S : x <= Max(S)
  BY <1>3, MaxOf
<1> QED
  BY <1>3, <1>4 DEF S

\* The iteration that the m'th core of iterator i runs in its w'th turn.
Turn(m, w, i) ==
  Clamped(IF blocked THEN BlockedIndex(m, w, ub[i]) ELSE CyclicIndex(m, w, CoresIn(nest, i)),
          kernel.ext[i])

\* The facts of a mapped kernel that an iteration depends on.
LEMMA ReadyFacts ==
  ASSUME MapInv, stage = "ready", NEW i \in Iters
  PROVE  LET N == kernel.ext[i]
             C == CoresIn(nest, i)
         IN  /\ N \in Nat \ {0} /\ C \in Nat \ {0} /\ blocked \in BOOLEAN /\ nest \in Seq(Claim)
             /\ ub[i] = CeilDiv(N, C) /\ waves[i] = CeilDiv(N, C) /\ ub[i] \in Nat \ {0}
             /\ clamp[i] \in BOOLEAN /\ (~ clamp[i] => N % C = 0)
             /\ OneOrTwo(LoopsIn(nest, i)) /\ Numbered(i)
<1> DEFINE N == kernel.ext[i]
           C == CoresIn(nest, i)
<1>1. kernel.ext \in [Iters -> Nat \ {0}] /\ blocked \in BOOLEAN /\ nest \in Seq(Claim)
  BY KernelFacts DEF MapInv, ChoicesOK, LoopsMade
<1>2. C \in Nat \ {0} /\ OneOrTwo(LoopsIn(nest, i))
  BY LoopsSoFar DEF MapInv, HasWaves
<1>3. N \in Nat \ {0}
  BY <1>1
<1>4. ub = [j \in Iters |-> CeilDiv(kernel.ext[j], CoresIn(nest, j))] /\ waves = ub
  BY DEF MapInv, BoundsOK, HasWaves
<1>5. ub[i] = CeilDiv(N, C) /\ waves[i] = CeilDiv(N, C)
  BY <1>4
<1>6. clamp[i] \in BOOLEAN /\ (~ clamp[i] => N % C = 0)
  BY DEF MapInv, ClampsOK
<1>7. Numbered(i)
  BY <1>1, <1>2, EveryIteratorNumbered
<1> HIDE DEF N, C
<1>8. ub[i] \in Nat \ {0}
  <2>1. ub[i] \in Nat /\ N <= ub[i] * C
    BY <1>2, <1>3, <1>5, CeilDivBounds
  <2>2. ub[i] # 0
    BY <1>2, <1>3, <2>1
  <2> QED
    BY <2>1, <2>2
<1> QED
  BY <1>1, <1>2, <1>3, <1>5, <1>6, <1>7, <1>8 DEF N, C

(* A core's index is its turn, clamped or not. *)
LEMMA IndexIsTurn ==
  ASSUME MapInv, stage = "ready", NEW i \in Iters, NEW c \in Cores, NEW w \in 0 .. waves[i] - 1
  PROVE  /\ IndexOf(c, w, i) = Turn(Number(c, i), w, i)
         /\ Number(c, i) \in 0 .. CoresIn(nest, i) - 1
         /\ IndexOf(c, w, i) \in 0 .. kernel.ext[i] - 1
         /\ clamp[i] \/ RawIndex(c, w, i) < kernel.ext[i]
         /\ RawIndex(c, w, i) = IF blocked THEN BlockedIndex(Number(c, i), w, ub[i])
                                ELSE CyclicIndex(Number(c, i), w, CoresIn(nest, i))
<1> DEFINE N == kernel.ext[i]
           C == CoresIn(nest, i)
           m == Number(c, i)
           raw == RawIndex(c, w, i)
<1>1. /\ N \in Nat \ {0} /\ C \in Nat \ {0} /\ blocked \in BOOLEAN
      /\ ub[i] = CeilDiv(N, C) /\ waves[i] = CeilDiv(N, C) /\ ub[i] \in Nat \ {0}
      /\ clamp[i] \in BOOLEAN /\ (~ clamp[i] => N % C = 0) /\ Numbered(i)
  BY ReadyFacts
<1>2. /\ m \in 0 .. C - 1 /\ (NonUnit(i) = <<>> => C = 1)
      /\ NonUnit(i) # <<>> => CoreNumber(c, i) = CoreNumber2d(c, i)
  BY <1>1 DEF Numbered
<1>3. w \in 0 .. CeilDiv(N, C) - 1 /\ w \in Nat
  BY <1>1
<1>4. raw = IF blocked THEN BlockedIndex(m, w, ub[i]) ELSE CyclicIndex(m, w, C)
  <2>1. CASE NonUnit(i) = <<>>
    <3>1. raw = w /\ m = 0 /\ C = 1
      BY <1>2, <2>1 DEF RawIndex, Number
    <3>2. BlockedIndex(0, w, ub[i]) = w /\ CyclicIndex(0, w, 1) = w
      BY <1>1, <1>3 DEF BlockedIndex, CyclicIndex
    <3> QED
      BY <3>1, <3>2
  <2>2. CASE NonUnit(i) # <<>>
    <3>1. m = CoreNumber2d(c, i) /\ CoreNumber(c, i) = m
      BY <1>2, <2>2 DEF Number
    <3> QED
      BY <2>2, <3>1, CoresOnIn DEF RawIndex
  <2> QED
    BY <2>1, <2>2
<1> HIDE DEF N, C, m, raw
<1>5. BlockedIndex(m, w, ub[i]) \in Nat /\ CyclicIndex(m, w, C) \in Nat
  <2>1. m \in Nat /\ w \in Nat /\ ub[i] \in Nat /\ C \in Nat
    BY <1>1, <1>2, <1>3
  <2> QED
    BY <2>1 DEF BlockedIndex, CyclicIndex
<1>6. ~ clamp[i] => raw < N
  <2>1. N % C = 0 => CyclicIndex(m, w, C) < N /\ BlockedIndex(m, w, CeilDiv(N, C)) < N
    BY <1>1, <1>2, <1>3, DivisibleNeedsNoClamp
  <2> QED
    BY <1>1, <1>4, <2>1
<1>7. raw \in Nat
  BY <1>4, <1>5
<1>8. Clamped(raw, N) \in 0 .. N - 1 /\ (raw < N => Clamped(raw, N) = raw)
  BY <1>1, <1>7, ClampedInRange
<1>9. IndexOf(c, w, i) = Clamped(raw, N)
  BY <1>6, <1>8 DEF IndexOf, raw, N
<1>10. Turn(m, w, i) = Clamped(raw, N)
  BY <1>4 DEF Turn, N, C
<1> QED
  BY <1>1, <1>2, <1>4, <1>6, <1>8, <1>9, <1>10 DEF N, C, m, raw

(* Every iteration of an iterator is some core's turn. *)
LEMMA EveryIterationATurn ==
  ASSUME MapInv, stage = "ready", NEW i \in Iters, NEW n \in 0 .. kernel.ext[i] - 1
  PROVE  \E m \in 0 .. CoresIn(nest, i) - 1, w \in 0 .. waves[i] - 1 : n = Turn(m, w, i)
<1> DEFINE N == kernel.ext[i]
           C == CoresIn(nest, i)
<1>1. /\ N \in Nat \ {0} /\ C \in Nat \ {0} /\ blocked \in BOOLEAN
      /\ ub[i] = CeilDiv(N, C) /\ waves[i] = CeilDiv(N, C)
  BY ReadyFacts
<1>2. CyclicIndices(N, C) = 0 .. N - 1 /\ BlockedIndices(N, C) = 0 .. N - 1
  BY <1>1, CyclicCovers, BlockedCovers
<1>3. CASE blocked
  <2>1. PICK m \in 0 .. C - 1, w \in 0 .. CeilDiv(N, C) - 1 :
               n = Clamped(BlockedIndex(m, w, CeilDiv(N, C)), N)
    BY <1>2 DEF BlockedIndices
  <2> QED
    BY <1>1, <1>3, <2>1 DEF Turn
<1>4. CASE ~ blocked
  <2>1. PICK m \in 0 .. C - 1, w \in 0 .. CeilDiv(N, C) - 1 :
               n = Clamped(CyclicIndex(m, w, C), N)
    BY <1>2 DEF CyclicIndices
  <2> QED
    BY <1>1, <1>4, <2>1 DEF Turn
<1> QED
  BY <1>3, <1>4

\* Where a mapped kernel's cores and waves are bounded.
LEMMA CoresAndWaves ==
  ASSUME MapInv, stage = "ready"
  PROVE  /\ \A c \in [Loops -> Nat] : (\A n \in Loops : c[n] < nest[n].size) => c \in Cores
         /\ \A w \in [Iters -> Nat] : (\A i \in Iters : w[i] < waves[i]) => w \in Waves
         /\ \A w \in Waves, i \in Iters : w[i] \in 0 .. waves[i] - 1
         /\ \A i \in Iters : kernel.ext[i] <= Max({kernel.ext[j] : j \in Iters})
         /\ Max({kernel.ext[j] : j \in Iters}) \in Nat
<1>1. nest \in Seq(Claim) /\ Len(nest) \in Nat /\ Loops = 1 .. Len(nest)
  BY LenProperties DEF MapInv, LoopsMade, Loops
<1>2. Size \in Nat \ {0} /\ Iters = 1 .. Size /\ kernel.ext \in [Iters -> Nat \ {0}]
  BY KernelFacts DEF MapInv, ChoicesOK
<1>3. \A i \in Iters : waves[i] \in Nat \ {0}
  BY ReadyFacts
<1>4. \A n \in Loops : nest[n].size \in Nat \ {0}
  <2> SUFFICES ASSUME NEW n \in Loops PROVE nest[n].size \in Nat \ {0}
    OBVIOUS
  <2>1. n \in LoopsIn(nest, nest[n].iter)
    BY DEF LoopsIn, Loops
  <2> QED
    BY <1>1, <2>1, ClaimAt
<1>5. ASSUME NEW c \in [Loops -> Nat], \A n \in Loops : c[n] < nest[n].size
      PROVE  c \in Cores
  <2> DEFINE f == [n \in 1 .. Len(nest) |-> nest[n].size]
             M == Max({nest[n].size : n \in Loops})
  <2>1. f \in [1 .. Len(nest) -> Nat]
    BY <1>1, <1>4
  <2>2. {f[n] : n \in 1 .. Len(nest)} = {nest[n].size : n \in Loops}
    BY <1>1
  <2>3. ASSUME NEW n \in Loops PROVE M \in Nat /\ nest[n].size <= M
    <3>1. n \in 1 .. Len(nest) /\ f[n] = nest[n].size
      BY <1>1
    <3> HIDE DEF f
    <3> QED
      BY <1>1, <2>1, <2>2, <3>1, MaxOfValues
  <2> HIDE DEF M, f
  <2>4. \A n \in Loops : c[n] \in 0 .. M - 1
    BY <1>4, <1>5, <2>3
  <2>5. c \in [Loops -> 0 .. M - 1]
    BY <2>4
  <2> QED
    BY <1>5, <2>5 DEF Cores, M
<1>6. ASSUME NEW w \in [Iters -> Nat], \A i \in Iters : w[i] < waves[i]
      PROVE  w \in Waves
  <2> DEFINE f == [i \in 1 .. Size |-> waves[i]]
             M == Max({waves[i] : i \in Iters})
  <2>1. f \in [1 .. Size -> Nat]
    BY <1>2, <1>3
  <2>2. {f[i] : i \in 1 .. Size} = {waves[i] : i \in Iters}
    BY <1>2
  <2>3. ASSUME NEW i \in Iters PROVE M \in Nat /\ waves[i] <= M
    <3>1. i \in 1 .. Size /\ f[i] = waves[i]
      BY <1>2
    <3> HIDE DEF f
    <3> QED
      BY <1>2, <2>1, <2>2, <3>1, MaxOfValues
  <2> HIDE DEF M, f
  <2>4. \A i \in Iters : w[i] \in 0 .. M - 1
    BY <1>3, <1>6, <2>3
  <2>5. w \in [Iters -> 0 .. M - 1]
    BY <2>4
  <2> QED
    BY <1>6, <2>5 DEF Waves, M
<1>7. ASSUME NEW w \in Waves, NEW i \in Iters PROVE w[i] \in 0 .. waves[i] - 1
  <2>1. w[i] \in 0 .. Max({waves[j] : j \in Iters}) - 1 /\ w[i] < waves[i]
    BY DEF Waves
  <2>2. w[i] \in Int /\ 0 <= w[i]
    BY <2>1
  <2> QED
    BY <1>3, <2>1, <2>2
<1>8. ASSUME NEW i \in Iters
      PROVE  /\ kernel.ext[i] <= Max({kernel.ext[j] : j \in Iters})
             /\ Max({kernel.ext[j] : j \in Iters}) \in Nat
  <2>1. kernel.ext \in [1 .. Size -> Nat] /\ i \in 1 .. Size
    BY <1>2
  <2>2. {kernel.ext[j] : j \in 1 .. Size} = {kernel.ext[j] : j \in Iters}
    BY <1>2
  <2> QED
    BY <1>2, <2>1, <2>2, MaxOfValues
<1>9. \E i \in Iters : TRUE
  BY <1>2
<1> QED
  BY <1>5, <1>6, <1>7, <1>8, <1>9

\* Every spatial loop belongs to an iterator of the kernel.
LEMMA LoopsOfIterators ==
  ASSUME MapInv, stage = "ready"
  PROVE  \A k \in Loops : nest[k].iter \in Iters /\ k \in LoopsIn(nest, nest[k].iter)
<1>1. /\ Size \in Nat \ {0} /\ Iters = 1 .. Size /\ SplitOK(split, Size) /\ OrderOK(order)
      /\ \A k \in Loops : nest[k] = Claims(split, order)[k]
      /\ Len(nest) = Len(Claims(split, order))
  BY KernelFacts DEF MapInv, ChoicesOK, LoopsMade, Loops, HasSplit, HasOrder, HasWaves
<1>2. \A k \in 1 .. Len(Claims(split, order)) : Claims(split, order)[k].iter \in Iters
  BY <1>1, ClaimsShape
<1> QED
  BY <1>1, <1>2 DEF LoopsIn, Loops

\* Any iteration of every iterator is run by one core in one wave.
LEMMA IterationHasACore ==
  ASSUME MapInv, stage = "ready", NEW n, n = [i \in Iters |-> n[i]],
         \A i \in Iters : n[i] \in 0 .. kernel.ext[i] - 1
  PROVE  \E c \in Cores, w \in Waves : IterationOf(c, w) = n
<1> DEFINE Place(i, x) == /\ x \in [LoopsIn(nest, i) -> Nat]
                          /\ \A k \in LoopsIn(nest, i) : x[k] < nest[k].size
           Runs(i, x, w) == \A c \in Cores : (\A k \in LoopsIn(nest, i) : c[k] = x[k]) =>
                              n[i] = Turn(Number(c, i), w, i)
           Good(i, r) == Place(i, r[1]) /\ r[2] \in 0 .. waves[i] - 1 /\ Runs(i, r[1], r[2])
<1>1. ASSUME NEW i \in Iters PROVE \E r : Good(i, r)
  <2>1. PICK m \in 0 .. CoresIn(nest, i) - 1, w \in 0 .. waves[i] - 1 : n[i] = Turn(m, w, i)
    BY EveryIterationATurn
  <2>2. Numbered(i)
    BY ReadyFacts
  <2>3. PICK x \in [LoopsIn(nest, i) -> Nat] :
               /\ \A k \in LoopsIn(nest, i) : x[k] < nest[k].size
               /\ \A c \in Cores : (\A k \in LoopsIn(nest, i) : c[k] = x[k]) => Number(c, i) = m
    BY <2>2 DEF Numbered
  <2>4. Runs(i, x, w)
    BY <2>1, <2>3
  <2>5. Good(i, <<x, w>>)
    <3> HIDE DEF Runs
    <3> QED
      BY <2>3, <2>4
  <2> QED
    BY <2>5
<1> DEFINE pick(i) == CHOOSE r : Good(i, r)
           w == [i \in Iters |-> pick(i)[2]]
           c == [k \in Loops |-> pick(nest[k].iter)[1][k]]
<1>2. \A i \in Iters : Good(i, pick(i))
  <2> HIDE DEF Good
  <2> QED
    BY <1>1
<1> HIDE DEF pick
<1>3. \A i \in Iters : Place(i, pick(i)[1]) /\ pick(i)[2] \in 0 .. waves[i] - 1 /\ Runs(i, pick(i)[1], pick(i)[2])
  BY <1>2
<1>4. w \in Waves /\ \A i \in Iters : w[i] = pick(i)[2]
  <2>1. \A i \in Iters : waves[i] \in Nat
    BY ReadyFacts
  <2>2. w \in [Iters -> Nat] /\ \A i \in Iters : w[i] < waves[i]
    <3> HIDE DEF Place, Runs
    <3> QED
      BY <1>3, <2>1
  <2> HIDE DEF w
  <2>3. w \in Waves
    BY <2>2, CoresAndWaves
  <2> QED
    BY <2>3 DEF w
<1>5. \A k \in Loops : nest[k].iter \in Iters /\ k \in LoopsIn(nest, nest[k].iter)
  BY LoopsOfIterators
<1>6. c \in Cores
  <2>1. \A k \in Loops : c[k] \in Nat /\ c[k] < nest[k].size
    <3> SUFFICES ASSUME NEW k \in Loops PROVE c[k] \in Nat /\ c[k] < nest[k].size
      OBVIOUS
    <3>1. Place(nest[k].iter, pick(nest[k].iter)[1]) /\ k \in LoopsIn(nest, nest[k].iter)
      <4> HIDE DEF Place, Runs
      <4> QED
        BY <1>3, <1>5
    <3>2. c[k] = pick(nest[k].iter)[1][k]
      OBVIOUS
    <3> HIDE DEF c
    <3> QED
      BY <3>1, <3>2
  <2>2. c \in [Loops -> Nat]
    BY <2>1
  <2> HIDE DEF c
  <2> QED
    BY <2>1, <2>2, CoresAndWaves
<1>7. ASSUME NEW i \in Iters PROVE IndexOf(c, w[i], i) = n[i]
  <2>1. w[i] \in 0 .. waves[i] - 1
    BY <1>3, <1>4
  <2>2. IndexOf(c, w[i], i) = Turn(Number(c, i), w[i], i)
    <3> HIDE DEF c, w
    <3> QED
      BY <1>6, <2>1, IndexIsTurn
  <2>3. \A k \in LoopsIn(nest, i) : c[k] = pick(i)[1][k]
    BY DEF LoopsIn, Loops
  <2>4. Runs(i, pick(i)[1], pick(i)[2])
    <3> HIDE DEF Runs, Place
    <3> QED
      BY <1>3
  <2>5. n[i] = Turn(Number(c, i), pick(i)[2], i)
    <3> HIDE DEF c, w
    <3> QED
      BY <1>6, <2>3, <2>4
  <2> HIDE DEF w
  <2> QED
    BY <1>4, <2>2, <2>5
<1>8. IterationOf(c, w) = n
  <2> HIDE DEF c, w
  <2>1. IterationOf(c, w) = [i \in Iters |-> IndexOf(c, w[i], i)]
    BY DEF IterationOf
  <2> QED
    BY <1>7, <2>1
<1> HIDE DEF c, w
<1> QED
  BY <1>4, <1>6, <1>8

\* What is run is in range, and what is in range is run.
LEMMA RunsAndOnlyRuns ==
  ASSUME MapInv, stage = "ready"
  PROVE  LET M == Max({kernel.ext[i] : i \in Iters})
         IN  /\ \A c \in Cores, w \in Waves :
                  /\ IterationOf(c, w) \in [Iters -> 0 .. M - 1]
                  /\ \A i \in Iters : IterationOf(c, w)[i] < kernel.ext[i]
             /\ \A n \in [Iters -> 0 .. M - 1] :
                  (\A i \in Iters : n[i] < kernel.ext[i]) =>
                    \E c \in Cores, w \in Waves : n = IterationOf(c, w)
<1> DEFINE M == Max({kernel.ext[i] : i \in Iters})
<1>1. /\ \A i \in Iters : kernel.ext[i] <= M /\ kernel.ext[i] \in Nat \ {0}
      /\ M \in Nat
  BY CoresAndWaves, ReadyFacts
<1> HIDE DEF M
<1>2. ASSUME NEW c \in Cores, NEW w \in Waves
      PROVE  /\ IterationOf(c, w) \in [Iters -> 0 .. M - 1]
             /\ \A i \in Iters : IterationOf(c, w)[i] < kernel.ext[i]
  <2>1. \A i \in Iters : IndexOf(c, w[i], i) \in 0 .. kernel.ext[i] - 1
    BY CoresAndWaves, IndexIsTurn
  <2>2. IterationOf(c, w) = [i \in Iters |-> IndexOf(c, w[i], i)]
    BY DEF IterationOf
  <2> QED
    BY <1>1, <2>1, <2>2
<1>3. ASSUME NEW n \in [Iters -> 0 .. M - 1], \A i \in Iters : n[i] < kernel.ext[i]
      PROVE  \E c \in Cores, w \in Waves : n = IterationOf(c, w)
  <2>1. n = [i \in Iters |-> n[i]]
    OBVIOUS
  <2>2. \A i \in Iters : n[i] \in 0 .. kernel.ext[i] - 1
    BY <1>1, <1>3
  <2> QED
    BY <2>1, <2>2, IterationHasACore
<1> QED
  BY <1>2, <1>3 DEF M

\* The invariant implies the property.
LEMMA MapInvRunsAll == MapInv => EveryIterationRuns
<1> SUFFICES ASSUME MapInv PROVE EveryIterationRuns
  OBVIOUS
<1>1. CASE stage = "ready"
  <2> DEFINE M == Max({kernel.ext[i] : i \in Iters})
             A == {IterationOf(c, w) : c \in Cores, w \in Waves}
             B == {n \in [Iters -> 0 .. M - 1] : \A i \in Iters : n[i] < kernel.ext[i]}
  <2>m. M = Max({kernel.ext[i] : i \in Iters})
    OBVIOUS
  <2> HIDE DEF M
  <2>a. A = {IterationOf(c, w) : c \in Cores, w \in Waves}
    OBVIOUS
  <2>b. B = {n \in [Iters -> 0 .. M - 1] : \A i \in Iters : n[i] < kernel.ext[i]}
    OBVIOUS
  <2> HIDE DEF A, B
  <2>1. /\ \A c \in Cores, w \in Waves :
             /\ IterationOf(c, w) \in [Iters -> 0 .. M - 1]
             /\ \A i \in Iters : IterationOf(c, w)[i] < kernel.ext[i]
        /\ \A n \in [Iters -> 0 .. M - 1] :
             (\A i \in Iters : n[i] < kernel.ext[i]) =>
               \E c \in Cores, w \in Waves : n = IterationOf(c, w)
    BY <1>1, <2>m, RunsAndOnlyRuns
  <2>2. A \subseteq B
    BY <2>1, <2>a, <2>b
  <2>3. B \subseteq A
    BY <2>1, <2>a, <2>b
  <2>4. A = B
    BY <2>2, <2>3
  <2> QED
    BY ONLY <2>m, <2>a, <2>b, <2>4, SMTT(60) DEF EveryIterationRuns
<1>2. CASE stage # "ready"
  BY <1>2, SMT DEF EveryIterationRuns
<1> QED
  BY <1>1, <1>2

(* Together the cores and their waves run every iteration of the kernel and *)
(* none outside it, whatever the mesh, the split, the priorities and the    *)
(* distribution (applyMappingToFunction, flattenNestedCeilDiv,              *)
(* FoldDivisibleWaveClamps).                                                *)
THEOREM EveryIterationAlwaysRuns ==
  ASSUME HardConstraints
  PROVE  Spec => []EveryIterationRuns
<1>1. Spec => []MapInv
  BY MappingInvariant
<1> QED
  BY <1>1, MapInvRunsAll, PTL

-----------------------------------------------------------------------------
(* What is run twice. *)

\* There are finitely many functions from an interval to a finite set.
LEMMA FiniteFunctions ==
  ASSUME NEW T, IsFiniteSet(T), NEW n \in Nat
  PROVE  IsFiniteSet([1 .. n -> T])
<1> DEFINE D == {k \in Nat : ~ IsFiniteSet([1 .. k -> T])}
<1>1. SUFFICES D = {}
  OBVIOUS
<1>2. SUFFICES ASSUME D # {} PROVE FALSE
  OBVIOUS
<1>3. PICK k \in D : \A l \in D : k <= l
  <2>1. D \in SUBSET Nat
    OBVIOUS
  <2> HIDE DEF D
  <2> QED
    BY <1>2, <2>1, LeastOf
<1>4. k \in Nat /\ ~ IsFiniteSet([1 .. k -> T])
  OBVIOUS
<1>5. k # 0
  <2>1. [1 .. 0 -> T] = {<<>>}
    <3>1. \A f \in [1 .. 0 -> T] : f = <<>>
      OBVIOUS
    <3>2. <<>> \in [1 .. 0 -> T]
      OBVIOUS
    <3> QED
      BY <3>1, <3>2
  <2>2. IsFiniteSet({<<>>})
    BY FS_Singleton
  <2> QED
    BY <1>4, <2>1, <2>2
<1> DEFINE S == [1 .. k - 1 -> T]
           P == S \X T
           cut == [f \in [1 .. k -> T] |-> <<[m \in 1 .. k - 1 |-> f[m]], f[k]>>]
<1>6. IsFiniteSet(S)
  <2>1. k - 1 \in Nat /\ k - 1 \notin D
    <3>1. k - 1 \in Nat /\ ~ (k <= k - 1)
      BY <1>4, <1>5
    <3> HIDE DEF D
    <3> QED
      BY <1>3, <3>1
  <2> QED
    BY <2>1
<1>7. IsFiniteSet(P)
  <2> HIDE DEF S
  <2> QED
    BY <1>6, FS_Product
<1>8. cut \in Injection([1 .. k -> T], P)
  <2>1. ASSUME NEW f \in [1 .. k -> T]
        PROVE  [m \in 1 .. k - 1 |-> f[m]] \in S /\ f[k] \in T
    BY <1>4, <1>5
  <2>2. cut \in [[1 .. k -> T] -> P]
    <3> HIDE DEF S
    <3> QED
      BY <2>1
  <2>3. ASSUME NEW f \in [1 .. k -> T], NEW g \in [1 .. k -> T], cut[f] = cut[g]
        PROVE  f = g
    <3>1. [m \in 1 .. k - 1 |-> f[m]] = [m \in 1 .. k - 1 |-> g[m]] /\ f[k] = g[k]
      BY <2>3
    <3>2. \A m \in 1 .. k - 1 : f[m] = g[m]
      <4> SUFFICES ASSUME NEW m \in 1 .. k - 1 PROVE f[m] = g[m]
        OBVIOUS
      <4>1. [l \in 1 .. k - 1 |-> f[l]][m] = [l \in 1 .. k - 1 |-> g[l]][m]
        BY <3>1
      <4> QED
        BY <4>1
    <3>3. \A m \in 1 .. k : f[m] = g[m]
      BY <1>4, <3>1, <3>2
    <3> QED
      BY <3>3
  <2> HIDE DEF cut, P
  <2> QED
    BY <2>2, <2>3 DEF Injection, IsInjective
<1>9. IsFiniteSet([1 .. k -> T])
  <2> HIDE DEF cut, P
  <2> QED
    BY <1>7, <1>8, FS_Injection
<1> QED
  BY <1>4, <1>9

\* A function that takes each value once has as many values as arguments.
LEMMA ValuesOfInjective ==
  ASSUME NEW S, IsFiniteSet(S), NEW f, f = [x \in S |-> f[x]],
         \A x, y \in S : f[x] = f[y] => x = y
  PROVE  Cardinality({f[x] : x \in S}) = Cardinality(S)
<1> DEFINE T == {f[x] : x \in S}
<1>1. f \in [S -> T]
  OBVIOUS
<1>2. \A t \in T : \E x \in S : f[x] = t
  OBVIOUS
<1> HIDE DEF T
<1>3. f \in Bijection(S, T)
  BY <1>1, <1>2 DEF Bijection, Injection, Surjection, IsInjective
<1>4. ExistsBijection(S, T)
  BY <1>3 DEF ExistsBijection
<1>5. Cardinality(T) = Cardinality(S)
  BY <1>4, FS_Bijection
<1> QED
  BY <1>5 DEF T

\* A mapped kernel has finitely many cores and waves.
LEMMA FiniteCoresAndWaves ==
  ASSUME MapInv, stage = "ready"
  PROVE  IsFiniteSet(Cores \X Waves)
<1>1. nest \in Seq(Claim) /\ Len(nest) \in Nat /\ Loops = 1 .. Len(nest)
  BY LenProperties DEF MapInv, LoopsMade, Loops
<1>2. Size \in Nat \ {0} /\ Iters = 1 .. Size
  BY KernelFacts DEF MapInv, ChoicesOK
<1>3. Max({nest[n].size : n \in Loops}) \in Nat
  <2>1. 1 \in Iters
    BY <1>2
  <2>2. OneOrTwo(LoopsIn(nest, 1))
    BY <2>1, ReadyFacts
  <2>3. PICK n \in Loops : TRUE
    BY <2>2 DEF OneOrTwo, LoopsIn, Loops
  <2> DEFINE f == [m \in 1 .. Len(nest) |-> nest[m].size]
  <2>4. f \in [1 .. Len(nest) -> Nat]
    <3>1. \A m \in 1 .. Len(nest) : m \in LoopsIn(nest, nest[m].iter)
      BY DEF LoopsIn
    <3>2. \A m \in 1 .. Len(nest) : nest[m].size \in Nat
      BY <1>1, <3>1, ClaimAt
    <3> QED
      BY <3>2
  <2>5. {f[m] : m \in 1 .. Len(nest)} = {nest[m].size : m \in Loops}
    BY <1>1
  <2>6. n \in 1 .. Len(nest)
    BY <1>1
  <2> HIDE DEF f
  <2> QED
    BY <1>1, <2>4, <2>5, <2>6, MaxOfValues
<1>4. Max({waves[i] : i \in Iters}) \in Nat
  <2> DEFINE f == [i \in 1 .. Size |-> waves[i]]
  <2>1. f \in [1 .. Size -> Nat]
    BY <1>2, ReadyFacts
  <2>2. {f[i] : i \in 1 .. Size} = {waves[i] : i \in Iters}
    BY <1>2
  <2>3. 1 \in 1 .. Size
    BY <1>2
  <2> HIDE DEF f
  <2> QED
    BY <1>2, <2>1, <2>2, <2>3, MaxOfValues
<1>5. IsFiniteSet(Cores)
  <2> DEFINE M == Max({nest[n].size : n \in Loops})
             F == [1 .. Len(nest) -> 0 .. M - 1]
  <2>1. Cores \subseteq F
    BY <1>1 DEF Cores
  <2>2. M \in Nat
    BY <1>3
  <2> HIDE DEF M
  <2>3. IsFiniteSet(0 .. M - 1)
    BY <2>2, FS_Interval
  <2>4. IsFiniteSet(F)
    BY <1>1, <2>3, FiniteFunctions
  <2> HIDE DEF F
  <2> QED
    BY <2>1, <2>4, FS_Subset
<1>6. IsFiniteSet(Waves)
  <2> DEFINE M == Max({waves[i] : i \in Iters})
             F == [1 .. Size -> 0 .. M - 1]
  <2>1. Waves \subseteq F
    BY <1>2 DEF Waves
  <2>2. M \in Nat
    BY <1>4
  <2> HIDE DEF M
  <2>3. IsFiniteSet(0 .. M - 1)
    BY <2>2, FS_Interval
  <2>4. IsFiniteSet(F)
    BY <1>2, <2>3, FiniteFunctions
  <2> HIDE DEF F
  <2> QED
    BY <2>1, <2>4, FS_Subset
<1> QED
  BY <1>5, <1>6, FS_Product

\* An iteration of i that is not the clamped last one is run by the cores of one
\* number only, in one wave.
LEMMA RunByOneNumber ==
  ASSUME MapInv, stage = "ready", NEW i \in Iters, NEW c \in Cores, NEW d \in Cores,
         NEW v \in 0 .. waves[i] - 1, NEW w \in 0 .. waves[i] - 1,
         IndexOf(c, v, i) = IndexOf(d, w, i),
         clamp[i] => IndexOf(d, w, i) # kernel.ext[i] - 1
  PROVE  Number(c, i) = Number(d, i) /\ v = w
<1> DEFINE N == kernel.ext[i]
           C == CoresIn(nest, i)
           W == CeilDiv(N, C)
           b == Number(c, i)
           e == Number(d, i)
<1>1. /\ N \in Nat \ {0} /\ C \in Nat \ {0} /\ blocked \in BOOLEAN
      /\ ub[i] = W /\ waves[i] = W /\ W \in Nat \ {0} /\ clamp[i] \in BOOLEAN
  BY ReadyFacts
<1>2. /\ IndexOf(c, v, i) = Turn(b, v, i) /\ b \in 0 .. C - 1
      /\ clamp[i] \/ RawIndex(c, v, i) < N
      /\ RawIndex(c, v, i) = IF blocked THEN BlockedIndex(b, v, ub[i]) ELSE CyclicIndex(b, v, C)
  BY IndexIsTurn
<1>3. /\ IndexOf(d, w, i) = Turn(e, w, i) /\ e \in 0 .. C - 1
      /\ clamp[i] \/ RawIndex(d, w, i) < N
      /\ RawIndex(d, w, i) = IF blocked THEN BlockedIndex(e, w, ub[i]) ELSE CyclicIndex(e, w, C)
  BY IndexIsTurn
<1>4. v \in 0 .. W - 1 /\ w \in 0 .. W - 1 /\ v \in Nat /\ w \in Nat
  BY <1>1
<1>5. /\ Turn(b, v, i) = Clamped(IF blocked THEN BlockedIndex(b, v, W) ELSE CyclicIndex(b, v, C), N)
      /\ Turn(e, w, i) = Clamped(IF blocked THEN BlockedIndex(e, w, W) ELSE CyclicIndex(e, w, C), N)
  BY <1>1 DEF Turn
<1>6. clamp[i] => Turn(e, w, i) # N - 1
  BY <1>3
<1>7. /\ Turn(b, v, i) = Turn(e, w, i)
      /\ ~ clamp[i] => RawIndex(c, v, i) = RawIndex(d, w, i)
  <2>1. Turn(b, v, i) = Turn(e, w, i)
    BY <1>2, <1>3
  <2>2. ~ clamp[i] => IndexOf(c, v, i) = RawIndex(c, v, i) /\ IndexOf(d, w, i) = RawIndex(d, w, i)
    BY DEF IndexOf
  <2> QED
    BY <2>1, <2>2
<1> HIDE DEF N, C, W, b, e
<1>8. RawIndex(c, v, i) = RawIndex(d, w, i)
  <2>1. CASE clamp[i]
    <3> DEFINE x == RawIndex(c, v, i)
               y == RawIndex(d, w, i)
    <3>1. Clamped(x, N) = Clamped(y, N) /\ Clamped(y, N) # N - 1
      BY <1>1, <1>2, <1>3, <1>5, <1>6, <1>7, <2>1
    <3>2. x \in Nat /\ y \in Nat
      BY <1>1, <1>2, <1>3, <1>4 DEF BlockedIndex, CyclicIndex
    <3> HIDE DEF x, y
    <3>3. x = y
      BY <1>1, <3>1, <3>2 DEF Clamped
    <3> QED
      BY <3>3 DEF x, y
  <2>2. CASE ~ clamp[i]
    BY <1>7, <2>2
  <2> QED
    BY <1>1, <2>1, <2>2
<1>9. CASE blocked
  <2>1. v + b * W = w + e * W
    <3>1. BlockedIndex(b, v, W) = BlockedIndex(e, w, W)
      BY <1>1, <1>2, <1>3, <1>8, <1>9
    <3>2. b \in Nat /\ e \in Nat /\ b * W \in Nat /\ e * W \in Nat
      BY <1>1, <1>2, <1>3
    <3> QED
      BY <1>4, <3>1, <3>2 DEF BlockedIndex
  <2>2. b \in Nat /\ e \in Nat
    BY <1>1, <1>2, <1>3
  <2>3. v = w /\ b = e
    BY <1>1, <1>4, <2>1, <2>2, PlaceValueUnique
  <2> QED
    BY <2>3 DEF b, e
<1>10. CASE ~ blocked
  <2>1. b + v * C = e + w * C
    BY <1>1, <1>2, <1>3, <1>8, <1>10 DEF CyclicIndex
  <2>2. b = e /\ v = w
    BY <1>1, <1>2, <1>3, <1>4, <2>1, PlaceValueUnique
  <2> QED
    BY <2>2 DEF b, e
<1> QED
  BY <1>1, <1>9, <1>10

\* No two cores and waves run one iteration unless it is a clamped last one.
LEMMA RunByOneCore ==
  ASSUME MapInv, stage = "ready", NEW c \in Cores, NEW d \in Cores, NEW v \in Waves, NEW w \in Waves,
         IterationOf(c, v) = IterationOf(d, w),
         \A i \in Iters : clamp[i] => IndexOf(d, w[i], i) # kernel.ext[i] - 1
  PROVE  c = d /\ v = w
<1>1. ASSUME NEW i \in Iters
      PROVE  v[i] = w[i] /\ \A n \in LoopsIn(nest, i) : c[n] = d[n]
  <2>1. IndexOf(c, v[i], i) = IndexOf(d, w[i], i)
    <3>1. IterationOf(c, v)[i] = IterationOf(d, w)[i]
      OBVIOUS
    <3> QED
      BY <3>1 DEF IterationOf
  <2>2. v[i] \in 0 .. waves[i] - 1 /\ w[i] \in 0 .. waves[i] - 1
    BY CoresAndWaves
  <2>3. Number(c, i) = Number(d, i) /\ v[i] = w[i]
    BY <2>1, <2>2, RunByOneNumber
  <2>4. Numbered(i)
    BY ReadyFacts
  <2> QED
    BY <2>3, <2>4 DEF Numbered
<1>2. \A n \in Loops : c[n] = d[n]
  <2> SUFFICES ASSUME NEW n \in Loops PROVE c[n] = d[n]
    OBVIOUS
  <2>1. nest[n].iter \in Iters /\ n \in LoopsIn(nest, nest[n].iter)
    BY LoopsOfIterators
  <2> QED
    BY <1>1, <2>1
<1>3. c = [n \in Loops |-> c[n]] /\ d = [n \in Loops |-> d[n]]
  BY DEF Cores
<1>4. v = [i \in Iters |-> v[i]] /\ w = [i \in Iters |-> w[i]]
  BY DEF Waves
<1>5. c = d
  BY <1>2, <1>3
<1>6. v = w
  BY <1>1, <1>4
<1> QED
  BY <1>5, <1>6

\* The invariant implies the property.
LEMMA MapInvRedoesOnlyTheLast == MapInv => OnlyTheLastIsRedone
<1> SUFFICES ASSUME MapInv, stage = "ready"
             PROVE  LET before == {r \in Cores \X Waves :
                                     \A i \in Iters : clamp[i] =>
                                       IndexOf(r[1], r[2][i], i) # kernel.ext[i] - 1}
                    IN Cardinality({IterationOf(r[1], r[2]) : r \in before}) = Cardinality(before)
  BY DEF OnlyTheLastIsRedone
<1> DEFINE before == {r \in Cores \X Waves :
                        \A i \in Iters : clamp[i] => IndexOf(r[1], r[2][i], i) # kernel.ext[i] - 1}
           f == [r \in before |-> IterationOf(r[1], r[2])]
<1>1. IsFiniteSet(before)
  <2>1. before \in SUBSET (Cores \X Waves)
    OBVIOUS
  <2> HIDE DEF before
  <2> QED
    BY <2>1, FiniteCoresAndWaves, FS_Subset
<1>2. ASSUME NEW q \in before, NEW r \in before, f[q] = f[r]
      PROVE  q = r
  <2>1. /\ q[1] \in Cores /\ q[2] \in Waves /\ r[1] \in Cores /\ r[2] \in Waves
        /\ q = <<q[1], q[2]>> /\ r = <<r[1], r[2]>>
        /\ \A i \in Iters : clamp[i] => IndexOf(r[1], r[2][i], i) # kernel.ext[i] - 1
    OBVIOUS
  <2>2. IterationOf(q[1], q[2]) = IterationOf(r[1], r[2])
    <3> HIDE DEF before
    <3> QED
      BY <1>2
  <2>3. q[1] = r[1] /\ q[2] = r[2]
    BY ONLY <2>1, <2>2, MapInv, stage = "ready", RunByOneCore
  <2> QED
    BY <2>1, <2>3
<1> HIDE DEF before
<1>3. {f[r] : r \in before} = {IterationOf(r[1], r[2]) : r \in before}
  OBVIOUS
<1>4. f = [r \in before |-> f[r]]
  OBVIOUS
<1> HIDE DEF f
<1>5. Cardinality({f[r] : r \in before}) = Cardinality(before)
  BY <1>1, <1>2, <1>4, ValuesOfInjective
<1> QED
  BY <1>3, <1>5 DEF before

(* What is run twice is only the last iteration of some clamped iterator    *)
(* (hardware_mapping.cpp:322-328).                                          *)
THEOREM OnlyTheLastIsEverRedone ==
  ASSUME HardConstraints
  PROVE  Spec => []OnlyTheLastIsRedone
<1>1. Spec => []MapInv
  BY MappingInvariant
<1> QED
  BY <1>1, MapInvRedoesOnlyTheLast, PTL

-----------------------------------------------------------------------------
(* The place of every core. An axis of the mesh is a notation of mixed radix *)
(* with one digit for every level of its split; the value of a core in a     *)
(* loop is a digit of its position, and the stride of the loop its place     *)
(* value (generateAllSplits, MeshCoordinateSystem).                          *)

\* Product is the last of the products.
LEMMA ProductIsLast ==
  ASSUME NEW n \in Nat, NEW s \in [1 .. n -> Nat]
  PROVE  \E r : Products(r, s, n) /\ Product(s) = r[n]
  BY FoldIsLastProduct DEF Product

\* What each loop adds to the position of core c on axis a.
Placed(c, a) == [n \in Loops |-> IF nest[n].axis = a THEN c[n] * Stride(n) ELSE 0]

\* LinearIndex is the last of the sums.
LEMMA LinearIndexIsLast ==
  ASSUME nest \in Seq(Claim), NEW c, NEW a, \A n \in Loops : c[n] \in Nat /\ Stride(n) \in Nat
  PROVE  \E r : Totals(r, Placed(c, a), Len(nest)) /\ LinearIndex(c, a) = r[Len(nest)]
<1> DEFINE n == Len(nest)
           F(x, m) == IF nest[m].axis = a THEN x + c[m] * Stride(m) ELSE x
           s == [m \in Loops |-> m]
           f == Placed(c, a)
           Sol(h) == h = [t \in SUBSET DOMAIN s |->
                            IF t = {} THEN 0 ELSE F(h[t \ {Max(t)}], s[Max(t)])]
           it == CHOOSE h : Sol(h)
           G == [x \in (1 .. n) \X Nat |-> x[2] + f[x[1]]]
<1>0. n \in Nat /\ Loops = 1 .. n
  BY LenProperties DEF Loops
<1>1. LinearIndex(c, a) = it[DOMAIN s]
  BY DEF LinearIndex, FoldLeft, MapThenFoldSet
<1>2. DOMAIN s = 1 .. n
  BY <1>0
<1>12. ASSUME NEW k \in 1 .. n, NEW v \in Nat
       PROVE  s[k] = k /\ f[k] \in Nat /\ F(v, s[k]) = v + f[k]
  <2>1. s[k] = k /\ k \in Loops
    BY <1>0
  <2>2. f[k] = IF nest[k].axis = a THEN c[k] * Stride(k) ELSE 0
    BY <2>1 DEF Placed
  <2>3. c[k] \in Nat /\ Stride(k) \in Nat
    BY <2>1
  <2>4. c[k] * Stride(k) \in Nat
    BY <2>3
  <2> HIDE DEF s, f
  <2> QED
    BY <2>1, <2>2, <2>4
<1> HIDE DEF f, s, n
<1>3. G \in [(1 .. n) \X Nat -> Nat] /\ \A k \in 1 .. n, v \in Nat : G[<<k, v>>] = F(v, s[k])
  <2>1. \A k \in 1 .. n : f[k] \in Nat
    BY <1>12
  <2>2. G \in [(1 .. n) \X Nat -> Nat] /\ \A k \in 1 .. n, v \in Nat : G[<<k, v>>] = v + f[k]
    BY <2>1
  <2> HIDE DEF F, G
  <2> QED
    BY <1>12, <2>2
<1> HIDE DEF G
<1>4. PICK h : FoldsWith(h, 0, G, n) /\ \A t \in SUBSET (1 .. n) : h[t] \in Nat
  BY <1>0, <1>3, FoldExists
<1>5. Sol(h)
  <2> DEFINE X(t) == IF t = {} THEN 0 ELSE G[<<Max(t), h[t \ {Max(t)}]>>]
             Y(t) == IF t = {} THEN 0 ELSE F(h[t \ {Max(t)}], s[Max(t)])
  <2>1. h = [t \in SUBSET (1 .. n) |-> X(t)]
    BY <1>4 DEF FoldsWith
  <2>2. ASSUME NEW t \in SUBSET (1 .. n) PROVE X(t) = Y(t)
    <3>1. ASSUME t # {} PROVE Max(t) \in t
      <4>1. t \in SUBSET (0 .. n)
        BY <1>0, <2>2
      <4> QED
        BY <1>0, <3>1, <4>1, MaxOf
    <3>2. \A u \in SUBSET (1 .. n) : h[u] \in Nat
      BY <1>4
    <3>3. ASSUME t # {} PROVE Max(t) \in 1 .. n /\ h[t \ {Max(t)}] \in Nat
      BY <3>1, <3>2, <3>3
    <3> HIDE DEF F
    <3> QED
      BY <1>3, <3>3
  <2> HIDE DEF X, Y
  <2>3. h = [t \in SUBSET DOMAIN s |-> Y(t)]
    BY <1>2, <2>1, <2>2
  <2> QED
    BY <2>3 DEF Y
<1> HIDE DEF F
<1>6. Sol(it)
  <2> HIDE DEF Sol
  <2> QED
    BY <1>5
<1> HIDE DEF it
<1>7. /\ it[1 .. 0] = 0
      /\ \A k \in 1 .. n : it[1 .. k] = F(it[1 .. k - 1], s[k])
  <2> DEFINE Y(t) == IF t = {} THEN 0 ELSE F(it[t \ {Max(t)}], s[Max(t)])
  <2>1. it = [t \in SUBSET (1 .. n) |-> Y(t)]
    BY <1>0, <1>2, <1>6
  <2> HIDE DEF Y
  <2>2. \A t \in SUBSET (1 .. n) : it[t] = Y(t)
    BY <2>1
  <2>3. it[1 .. 0] = 0
    BY <1>0, <2>2, PrefixFacts DEF Y
  <2>4. ASSUME NEW k \in 1 .. n PROVE it[1 .. k] = F(it[1 .. k - 1], s[k])
    <3>1. Max(1 .. k) = k
      BY <1>0, PrefixFacts
    <3>2. (1 .. k) \ {k} = 1 .. k - 1 /\ 1 .. k # {} /\ 1 .. k \in SUBSET (1 .. n)
      BY <1>0, PrefixFacts
    <3>3. it[1 .. k] = Y(1 .. k)
      BY <1>0, <2>2, <3>2
    <3> QED
      BY <3>1, <3>2, <3>3 DEF Y
  <2> QED
    BY <2>3, <2>4
<1> HIDE DEF Sol
<1> DEFINE r == [k \in 0 .. n |-> it[1 .. k]]
           D == {k \in Nat : k <= n => it[1 .. k] \in Nat}
<1>8. \A k \in 0 .. n : it[1 .. k] \in Nat
  <2>1. 0 \in D
    BY <1>0, <1>7
  <2>2. ASSUME NEW j \in 0 .. n - 1, j \in D PROVE j + 1 \in D
    <3>1. it[1 .. j] \in Nat /\ j + 1 \in 1 .. n /\ (j + 1) - 1 = j
      BY <1>0, <2>2
    <3>2. it[1 .. j + 1] = F(it[1 .. j], s[j + 1])
      BY <1>7, <3>1
    <3> QED
      BY <1>12, <3>1, <3>2
  <2> HIDE DEF D
  <2>3. \A j \in 0 .. n : j \in D
    BY <1>0, <2>1, <2>2, Upwards
  <2> QED
    BY <2>3 DEF D
<1>9. r \in [0 .. n -> Nat] /\ r[0] = 0 /\ r[n] = it[1 .. n]
  BY <1>0, <1>7, <1>8
<1>10. ASSUME NEW k \in 1 .. n PROVE r[k] = r[k - 1] + f[k]
  <2>1. r[k] = it[1 .. k] /\ r[k - 1] = it[1 .. k - 1] /\ it[1 .. k - 1] \in Nat
    BY <1>0, <1>8
  <2> HIDE DEF r
  <2> QED
    BY <1>7, <1>12, <2>1
<1> HIDE DEF r
<1>11. Totals(r, f, n)
  BY <1>9, <1>10 DEF Totals
<1> QED
  BY <1>1, <1>2, <1>9, <1>11 DEF f, n

(* Numbers in a notation of mixed radix: position k has the radix z[k] and  *)
(* the place value P[k - 1], the product of the radices below it.           *)
Radices(z, P, K) ==
  /\ K \in Nat /\ Products(P, z, K) /\ z = [k \in 1 .. K |-> z[k]]
  /\ \A k \in 1 .. K : z[k] \in Nat \ {0}
Digits(d, z, K) == \A k \in 1 .. K : d[k] \in 0 .. z[k] - 1
Places(d, P, K) == [k \in 1 .. K |-> d[k] * P[k - 1]]

\* What is written with m digits: W holds the values of the leading ones cut off.
LEMMA NumeralStep ==
  ASSUME NEW z, NEW P, NEW K, Radices(z, P, K), NEW d, Digits(d, z, K),
         NEW W, Totals(W, Places(d, P, K), K), NEW k \in 1 .. K
  PROVE  /\ P[k - 1] \in Nat /\ P[k] = P[k - 1] * z[k] /\ z[k] \in Nat \ {0}
         /\ d[k] \in Nat /\ d[k] <= z[k] - 1 /\ d[k] * P[k - 1] \in Nat
         /\ W[k - 1] \in Nat /\ W[k] \in Nat /\ W[k] = W[k - 1] + d[k] * P[k - 1]
<1>1. k \in Nat /\ k - 1 \in 0 .. K /\ k \in 0 .. K /\ z[k] \in Nat \ {0}
  BY DEF Radices
<1>2. P[k - 1] \in Nat /\ P[k] = P[k - 1] * z[k]
  BY <1>1 DEF Radices, Products
<1>3. d[k] \in Nat /\ d[k] <= z[k] - 1
  BY <1>1 DEF Digits
<1>4. W[k - 1] \in Nat /\ W[k] \in Nat /\ W[k] = W[k - 1] + Places(d, P, K)[k]
  BY <1>1 DEF Totals
<1>5. Places(d, P, K)[k] = d[k] * P[k - 1]
  BY DEF Places
<1>6. \A x, y \in Nat : x * y \in Nat
  OBVIOUS
<1> QED
  BY <1>1, <1>2, <1>3, <1>4, <1>5, <1>6

\* Place values are positive.
LEMMA PlaceValuesPositive ==
  ASSUME NEW z, NEW P, NEW K, Radices(z, P, K)
  PROVE  \A k \in 0 .. K : P[k] \in Nat \ {0}
<1> DEFINE D == {m \in Nat : m <= K => P[m] \in Nat \ {0}}
<1>0. K \in Nat
  BY DEF Radices
<1>1. 0 \in D
  BY DEF Radices, Products
<1>2. ASSUME NEW j \in 0 .. K - 1, j \in D PROVE j + 1 \in D
  <2>1. j + 1 \in 1 .. K /\ (j + 1) - 1 = j /\ P[j] \in Nat \ {0} /\ j + 1 \in Nat
    BY <1>0, <1>2
  <2>2. P[j + 1] = P[j] * z[j + 1] /\ z[j + 1] \in Nat \ {0}
    BY <2>1 DEF Radices, Products
  <2>3. \A x, y \in Nat \ {0} : x * y \in Nat \ {0}
    OBVIOUS
  <2> QED
    BY <2>1, <2>2, <2>3
<1> HIDE DEF D
<1>3. \A j \in 0 .. K : j \in D
  BY <1>0, <1>1, <1>2, Upwards
<1> QED
  BY <1>0, <1>3 DEF D

\* A number of k digits is below the product of their radices.
LEMMA NumeralBelow ==
  ASSUME NEW z, NEW P, NEW K, Radices(z, P, K), NEW d, Digits(d, z, K),
         NEW W, Totals(W, Places(d, P, K), K)
  PROVE  \A k \in 0 .. K : W[k] \in Nat /\ W[k] < P[k]
<1> DEFINE D == {m \in Nat : m <= K => W[m] < P[m]}
<1>0. K \in Nat
  BY DEF Radices
<1>1. 0 \in D
  BY DEF Radices, Products, Totals
<1>2. ASSUME NEW j \in 0 .. K - 1, j \in D PROVE j + 1 \in D
  <2> DEFINE k == j + 1
             b == P[j]
  <2>1. k \in 1 .. K /\ k - 1 = j /\ W[j] < b /\ k \in Nat
    BY <1>0, <1>2
  <2>2. /\ b \in Nat /\ P[k] = b * z[k] /\ z[k] \in Nat \ {0}
        /\ d[k] \in Nat /\ d[k] <= z[k] - 1
        /\ W[j] \in Nat /\ W[k] = W[j] + d[k] * b
    BY <2>1, NumeralStep
  <2> HIDE DEF k, b
  <2>3. (d[k] + 1) * b <= z[k] * b
    BY <2>2, ProductMonotone
  <2>4. (d[k] + 1) * b = d[k] * b + b /\ z[k] * b = b * z[k]
    BY <2>2
  <2>5. d[k] * b \in Nat /\ b * z[k] \in Nat
    BY <2>2
  <2>6. W[k] < P[k]
    BY <2>1, <2>2, <2>3, <2>4, <2>5
  <2> QED
    BY <2>1, <2>6 DEF k
<1> HIDE DEF D
<1>3. \A j \in 0 .. K : j \in D
  BY <1>0, <1>1, <1>2, Upwards
<1>4. \A j \in 0 .. K : W[j] \in Nat
  BY DEF Totals
<1> QED
  BY <1>0, <1>3, <1>4 DEF D

\* A number has one notation.
LEMMA NumeralUnique ==
  ASSUME NEW z, NEW P, NEW K, Radices(z, P, K),
         NEW d, Digits(d, z, K), NEW W, Totals(W, Places(d, P, K), K),
         NEW e, Digits(e, z, K), NEW V, Totals(V, Places(e, P, K), K), W[K] = V[K]
  PROVE  \A k \in 1 .. K : d[k] = e[k]
<1> DEFINE D == {m \in Nat : m <= K => (W[m] = V[m] => \A k \in 1 .. m : d[k] = e[k])}
<1>0. K \in Nat
  BY DEF Radices
<1>1. 0 \in D
  OBVIOUS
<1>2. ASSUME NEW j \in 0 .. K - 1, j \in D PROVE j + 1 \in D
  <2> DEFINE k == j + 1
             b == P[j]
  <2>1. k \in 1 .. K /\ k - 1 = j /\ k \in Nat /\ (W[j] = V[j] => \A i \in 1 .. j : d[i] = e[i])
    BY <1>0, <1>2
  <2>2. d[k] \in Nat /\ W[j] \in Nat /\ W[k] = W[j] + d[k] * b /\ b \in Nat
    BY <2>1, NumeralStep
  <2>3. e[k] \in Nat /\ V[j] \in Nat /\ V[k] = V[j] + e[k] * b
    BY <2>1, NumeralStep
  <2>4. b \in Nat \ {0} /\ W[j] \in 0 .. b - 1 /\ V[j] \in 0 .. b - 1
    <3>1. j \in 0 .. K
      BY <1>0, <1>2
    <3>2. W[j] < P[j] /\ V[j] < P[j]
      BY <3>1, NumeralBelow
    <3> QED
      BY <2>2, <2>3, <3>2
  <2> HIDE DEF k, b
  <2>5. ASSUME W[k] = V[k] PROVE \A i \in 1 .. k : d[i] = e[i]
    <3>1. W[j] + d[k] * b = V[j] + e[k] * b
      BY <2>2, <2>3, <2>5
    <3>2. W[j] = V[j] /\ d[k] = e[k]
      BY <2>2, <2>3, <2>4, <3>1, PlaceValueUnique
    <3>3. \A i \in 1 .. k : i = k \/ i \in 1 .. j
      BY <1>0, <1>2 DEF k
    <3> QED
      BY <2>1, <3>2, <3>3
  <2> QED
    BY <2>1, <2>5 DEF k
<1> HIDE DEF D
<1>3. \A j \in 0 .. K : j \in D
  BY <1>0, <1>1, <1>2, Upwards
<1>4. K \in D
  BY <1>0, <1>3
<1> QED
  BY <1>0, <1>4 DEF D

\* Every number below the product of the radices has a notation.
LEMMA NumeralExists ==
  ASSUME NEW z, NEW P, NEW K, Radices(z, P, K), NEW x \in Nat, x < P[K]
  PROVE  \E d, W : Digits(d, z, K) /\ Totals(W, Places(d, P, K), K) /\ W[K] = x
<1> DEFINE Writes(d, W, m, n) == /\ W \in [0 .. m -> Nat] /\ W[0] = 0 /\ W[m] = n
                                 /\ \A k \in 1 .. m : /\ d[k] \in 0 .. z[k] - 1
                                                      /\ W[k] = W[k - 1] + d[k] * P[k - 1]
           D == {m \in Nat : m <= K => \A n \in Nat : n < P[m] => \E d, W : Writes(d, W, m, n)}
<1>0. K \in Nat /\ P[0] = 1
  BY DEF Radices, Products
<1>1. 0 \in D
  <2> SUFFICES ASSUME NEW n \in Nat, n < P[0] PROVE \E d, W : Writes(d, W, 0, n)
    OBVIOUS
  <2> DEFINE W == [k \in 0 .. 0 |-> 0]
  <2>1. n = 0
    BY <1>0
  <2>2. W \in [0 .. 0 -> Nat] /\ W[0] = 0
    OBVIOUS
  <2>3. \A d : Writes(d, W, 0, n)
    BY <2>1, <2>2
  <2> QED
    BY <2>3
<1>2. ASSUME NEW j \in 0 .. K - 1, j \in D PROVE j + 1 \in D
  <2> DEFINE m == j + 1
             b == P[j]
  <2>1. m \in 1 .. K /\ m \in Nat /\ m - 1 = j /\ j \in 0 .. K /\ 0 \in 0 .. j /\ j \in 0 .. j
    BY <1>0, <1>2
  <2>2. b \in Nat \ {0} /\ P[m] = b * z[m] /\ z[m] \in Nat \ {0}
    BY <2>1, PlaceValuesPositive DEF Radices, Products
  <2>3. \A n \in Nat : n < b => \E d, W : Writes(d, W, j, n)
    <3>1. j \in Nat /\ j <= K
      BY <1>0, <1>2
    <3> HIDE DEF Writes
    <3> QED
      BY <1>2, <3>1
  <2> HIDE DEF m, b
  <2>4. ASSUME NEW n \in Nat, n < P[m] PROVE \E d, W : Writes(d, W, m, n)
    <3>1. n < z[m] * b
      BY <2>2, <2>4
    <3>2. PICK h \in 0 .. z[m] - 1, lo \in 0 .. b - 1 : n = lo + h * b
      BY <2>2, <3>1, PlaceValueExists
    <3>3. lo \in Nat /\ lo < b
      BY <2>2, <3>2
    <3>4. PICK d, W : Writes(d, W, j, lo)
      BY <2>3, <3>3
    <3> DEFINE e == [k \in 1 .. m |-> IF k = m THEN h ELSE d[k]]
               V == [k \in 0 .. m |-> IF k = m THEN n ELSE W[k]]
    <3>5. \A k \in 0 .. m : k = m \/ k \in 0 .. j
      BY <2>1 DEF m
    <3>6. V \in [0 .. m -> Nat] /\ V[0] = 0 /\ V[m] = n
      <4>1. W \in [0 .. j -> Nat] /\ W[0] = 0
        BY <3>4
      <4>2. m # 0 /\ 0 \in 0 .. m /\ m \in 0 .. m
        BY <2>1
      <4> QED
        BY <3>5, <4>1, <4>2
    <3>7. ASSUME NEW k \in 1 .. m
          PROVE  e[k] \in 0 .. z[k] - 1 /\ V[k] = V[k - 1] + e[k] * P[k - 1]
      <4>1. CASE k = m
        <5>1. V[k - 1] = W[j] /\ e[k] = h /\ V[k] = n
          BY <2>1, <4>1
        <5>2. W[j] = lo /\ P[k - 1] = b
          BY <2>1, <3>4, <4>1 DEF b
        <5> QED
          BY <3>2, <4>1, <5>1, <5>2
      <4>2. CASE k # m
        <5>1. k \in 1 .. j /\ k - 1 \in 0 .. m /\ k - 1 # m
          BY <2>1, <4>2 DEF m
        <5>2. e[k] = d[k] /\ V[k] = W[k] /\ V[k - 1] = W[k - 1]
          BY <4>2, <5>1
        <5>3. d[k] \in 0 .. z[k] - 1 /\ W[k] = W[k - 1] + d[k] * P[k - 1]
          BY <3>4, <5>1
        <5> QED
          BY <5>2, <5>3
      <4> QED
        BY <4>1, <4>2
    <3> HIDE DEF e, V
    <3>8. Writes(e, V, m, n)
      BY <3>6, <3>7
    <3> HIDE DEF Writes
    <3> QED
      BY <3>8
  <2> HIDE DEF Writes
  <2>5. m \in D
    BY <2>1, <2>4
  <2> QED
    BY <2>5 DEF m
<1> HIDE DEF D
<1>3. \A j \in 0 .. K : j \in D
  BY <1>0, <1>1, <1>2, Upwards
<1>4. K \in D
  BY <1>0, <1>3
<1>5. PICK d, W : Writes(d, W, K, x)
  <2> HIDE DEF Writes
  <2> QED
    BY <1>0, <1>4 DEF D
<1>6. Digits(d, z, K) /\ W[K] = x
  BY <1>5 DEF Digits
<1>7. Totals(W, Places(d, P, K), K)
  <2>1. \A k \in 1 .. K : Places(d, P, K)[k] = d[k] * P[k - 1]
    BY DEF Places
  <2> QED
    BY <1>5, <2>1 DEF Totals
<1> QED
  BY <1>6, <1>7

\* The loop in which iterator i claims the dimension d.
ClaimOf(s, i, d) == [iter |-> i, level |-> d[1], axis |-> d[2], size |-> s[d[2]][d[1] + 1]]

(* Every claim is of one iterator and one entry of its bucket, and every    *)
(* entry of a bucket is claimed once.                                       *)
ClaimedFrom(s, o, h, q) ==
  LET cl == Claims(s, o)
  IN  /\ \A n \in 1 .. Len(cl) : /\ h[n] \in Iters /\ q[n] \in DOMAIN Bucket(s, o, h[n])
                                 /\ DimOf(s, Bucket(s, o, h[n])[q[n]])
                                 /\ cl[n] = ClaimOf(s, h[n], Bucket(s, o, h[n])[q[n]])
      /\ \A m, n \in 1 .. Len(cl) : h[m] = h[n] /\ q[m] = q[n] => m = n
      /\ \A i \in Iters : \A r \in DOMAIN Bucket(s, o, i) :
           \E n \in 1 .. Len(cl) : h[n] = i /\ q[n] = r

LEMMA ClaimsFrom ==
  ASSUME NEW k \in Nat \ {0}, Iters = 1 .. k, NEW s, SplitOK(s, k), NEW o, OrderOK(o)
  PROVE  Claims(s, o) \in Seq(Claim) /\ \E h, q : ClaimedFrom(s, o, h, q)
<1> DEFINE part(i) == [n \in DOMAIN Bucket(s, o, i) |-> ClaimOf(s, i, Bucket(s, o, i)[n])]
           ss == [i \in Iters |-> part(i)]
           flat == FlattenSeq(ss)
<1>1. Claims(s, o) = flat
  BY DEF Claims, ClaimOf
<1>2. ASSUME NEW i \in Iters, NEW d, DimOf(s, d) PROVE ClaimOf(s, i, d) \in Claim
  <2>1. d[1] \in Nat /\ d[2] \in Axes /\ s[d[2]][d[1] + 1] \in Nat \ {0} /\ i \in Nat
    BY <1>2 DEF DimOf
  <2> QED
    BY <2>1 DEF Claim, ClaimOf
<1>3. ASSUME NEW i \in Iters
      PROVE  /\ part(i) \in Seq(Claim) /\ DOMAIN Bucket(s, o, i) = 1 .. Len(part(i))
             /\ \A r \in DOMAIN Bucket(s, o, i) : /\ DimOf(s, Bucket(s, o, i)[r])
                                                  /\ part(i)[r] = ClaimOf(s, i, Bucket(s, o, i)[r])
  <2>1. CASE \E d : Bucket(s, o, i) = <<d>> /\ DimOf(s, d)
    <3>1. PICK d : Bucket(s, o, i) = <<d>> /\ DimOf(s, d)
      BY <2>1
    <3>2. part(i) = <<ClaimOf(s, i, d)>> /\ DOMAIN Bucket(s, o, i) = {1} /\ Bucket(s, o, i)[1] = d
      BY <3>1
    <3>3. ClaimOf(s, i, d) \in Claim
      BY <1>2, <3>1
    <3> HIDE DEF part
    <3>4. part(i) \in Seq(Claim) /\ Len(part(i)) = 1 /\ part(i)[1] = ClaimOf(s, i, d) /\ 1 .. 1 = {1}
      BY <3>2, <3>3
    <3> QED
      BY <3>1, <3>2, <3>4
  <2>2. CASE \E d, e : Bucket(s, o, i) = <<d, e>> /\ DimOf(s, d) /\ DimOf(s, e)
    <3>1. PICK d, e : Bucket(s, o, i) = <<d, e>> /\ DimOf(s, d) /\ DimOf(s, e)
      BY <2>2
    <3>2. /\ part(i) = <<ClaimOf(s, i, d), ClaimOf(s, i, e)>> /\ DOMAIN Bucket(s, o, i) = {1, 2}
          /\ Bucket(s, o, i)[1] = d /\ Bucket(s, o, i)[2] = e
      BY <3>1
    <3>3. ClaimOf(s, i, d) \in Claim /\ ClaimOf(s, i, e) \in Claim
      BY <1>2, <3>1
    <3> HIDE DEF part
    <3>4. /\ part(i) \in Seq(Claim) /\ Len(part(i)) = 2 /\ part(i)[1] = ClaimOf(s, i, d)
          /\ part(i)[2] = ClaimOf(s, i, e) /\ 1 .. 2 = {1, 2}
      BY <3>2, <3>3
    <3> QED
      BY <3>1, <3>2, <3>4
  <2> QED
    BY <2>1, <2>2, BucketShape
<1> HIDE DEF part
<1>4. ss \in Seq(Seq(Claim)) /\ Len(ss) = k /\ \A i \in Iters : ss[i] = part(i)
  BY <1>3
<1> HIDE DEF ss
<1>5. flat \in Seq(Claim) /\ \E h, q : Positions(flat, ss, k, h, q)
  BY <1>4, FlattenSeqPositions
<1> HIDE DEF flat
<1>6. PICK h, q : Positions(flat, ss, k, h, q)
  BY <1>5
<1>7. ASSUME NEW n \in 1 .. Len(flat)
      PROVE  /\ h[n] \in Iters /\ q[n] \in DOMAIN Bucket(s, o, h[n])
             /\ DimOf(s, Bucket(s, o, h[n])[q[n]])
             /\ flat[n] = ClaimOf(s, h[n], Bucket(s, o, h[n])[q[n]])
  <2>1. h[n] \in 1 .. k /\ q[n] \in 1 .. Len(ss[h[n]]) /\ flat[n] = ss[h[n]][q[n]]
    BY <1>6 DEF Positions
  <2>2. h[n] \in Iters /\ q[n] \in 1 .. Len(part(h[n])) /\ flat[n] = part(h[n])[q[n]]
    BY <1>4, <2>1
  <2>3. q[n] \in DOMAIN Bucket(s, o, h[n])
    BY <1>3, <2>2
  <2> QED
    BY <1>3, <2>2, <2>3
<1>8. /\ \A m, n \in 1 .. Len(flat) : h[m] = h[n] /\ q[m] = q[n] => m = n
      /\ \A i \in Iters : \A r \in DOMAIN Bucket(s, o, i) :
           \E n \in 1 .. Len(flat) : h[n] = i /\ q[n] = r
  <2>1. \A m, n \in 1 .. Len(flat) : h[m] = h[n] /\ q[m] = q[n] => m = n
    BY <1>6 DEF Positions
  <2>2. \A i \in 1 .. k : \A r \in 1 .. Len(ss[i]) : \E n \in 1 .. Len(flat) : h[n] = i /\ q[n] = r
    BY <1>6 DEF Positions
  <2>3. ASSUME NEW i \in Iters, NEW r \in DOMAIN Bucket(s, o, i)
        PROVE  \E n \in 1 .. Len(flat) : h[n] = i /\ q[n] = r
    <3>1. i \in 1 .. k /\ r \in 1 .. Len(ss[i])
      BY <1>3, <1>4, <2>3
    <3> QED
      BY <2>2, <3>1
  <2> QED
    BY <2>1, <2>3
<1>9. ClaimedFrom(s, o, h, q)
  BY <1>1, <1>7, <1>8 DEF ClaimedFrom
<1> QED
  BY <1>1, <1>5, <1>9

(* The claims are the dimensions of the split, each once.                   *)
Dim(l, n) == <<l[n].level, l[n].axis>>
LEMMA ClaimsOnce ==
  ASSUME NEW k \in Nat \ {0}, Iters = 1 .. k, NEW s, SplitOK(s, k), NEW o, OrderOK(o)
  PROVE  LET cl == Claims(s, o)
         IN  /\ \A n \in 1 .. Len(cl) : /\ DimOf(s, Dim(cl, n))
                                        /\ cl[n].size = s[cl[n].axis][cl[n].level + 1]
                                        /\ cl[n].level = 0 <=> cl[n].iter = o[1]
             /\ \A m, n \in 1 .. Len(cl) : Dim(cl, m) = Dim(cl, n) => m = n
             /\ \A d : DimOf(s, d) => \E n \in 1 .. Len(cl) : Dim(cl, n) = d
<1> DEFINE cl == Claims(s, o)
           first == o[1]
           at(i) == CHOOSE n \in Iters : o[n] = i
           rest == NonLevelZero(s)
<1>1. PICK h, q : ClaimedFrom(s, o, h, q)
  BY ClaimsFrom
<1>2. /\ \A n \in 1 .. Len(cl) : /\ h[n] \in Iters /\ q[n] \in DOMAIN Bucket(s, o, h[n])
                                 /\ DimOf(s, Bucket(s, o, h[n])[q[n]])
                                 /\ cl[n] = ClaimOf(s, h[n], Bucket(s, o, h[n])[q[n]])
      /\ \A m, n \in 1 .. Len(cl) : h[m] = h[n] /\ q[m] = q[n] => m = n
      /\ \A i \in Iters : \A r \in DOMAIN Bucket(s, o, i) :
           \E n \in 1 .. Len(cl) : h[n] = i /\ q[n] = r
  BY <1>1 DEF ClaimedFrom
<1>3. ASSUME NEW i \in Iters
      PROVE  /\ i = first => /\ DOMAIN Bucket(s, o, i) = {1, 2}
                             /\ Bucket(s, o, i)[1] = <<0, 1>> /\ Bucket(s, o, i)[2] = <<0, 2>>
             /\ i # first => /\ DOMAIN Bucket(s, o, i) = {1} /\ at(i) - 1 \in 1 .. k - 1
                             /\ Bucket(s, o, i)[1] = rest[at(i) - 1] /\ o[at(i)] = i
  <2>1. CASE i = first
    <3>1. Bucket(s, o, i) = << <<0, 1>>, <<0, 2>> >>
      BY <2>1 DEF Bucket
    <3> QED
      BY <2>1, <3>1
  <2>2. CASE i # first
    <3>1. Bucket(s, o, i) = << rest[at(i) - 1] >>
      BY <2>2 DEF Bucket
    <3>2. at(i) \in Iters /\ o[at(i)] = i
      BY OrderOnto
    <3> HIDE DEF at, rest
    <3>3. at(i) \in 1 .. k /\ at(i) # 1
      BY <2>2, <3>2
    <3> QED
      BY <2>2, <3>1, <3>2, <3>3
  <2> QED
    BY <2>1, <2>2
<1>4. /\ \A n \in 1 .. k - 1 : DimOf(s, rest[n]) /\ rest[n][1] # 0
      /\ \A m, n \in 1 .. k - 1 : rest[m] = rest[n] => m = n
      /\ \A d : DimOf(s, d) /\ d[1] # 0 => \E n \in 1 .. k - 1 : rest[n] = d
  BY NonLevelZeroOnce
<1> HIDE DEF at, rest, first, cl
<1>5. ASSUME NEW n \in 1 .. Len(cl)
      PROVE  /\ Dim(cl, n) = Bucket(s, o, h[n])[q[n]] /\ DimOf(s, Dim(cl, n))
             /\ cl[n].size = s[cl[n].axis][cl[n].level + 1] /\ cl[n].iter = h[n]
  <2> DEFINE d == Bucket(s, o, h[n])[q[n]]
  <2>1. cl[n] = ClaimOf(s, h[n], d) /\ DimOf(s, d)
    BY <1>2
  <2>2. d = <<d[1], d[2]>>
    BY <2>1 DEF DimOf
  <2> HIDE DEF d
  <2>3. /\ cl[n].level = d[1] /\ cl[n].axis = d[2] /\ cl[n].iter = h[n]
        /\ cl[n].size = s[d[2]][d[1] + 1]
    BY <2>1 DEF ClaimOf
  <2> QED
    BY <2>1, <2>2, <2>3 DEF Dim, d
<1>6. ASSUME NEW n \in 1 .. Len(cl) PROVE cl[n].level = 0 <=> cl[n].iter = first
  <2>1. cl[n].level = Bucket(s, o, h[n])[q[n]][1] /\ cl[n].iter = h[n]
    <3>1. Dim(cl, n) = Bucket(s, o, h[n])[q[n]] /\ cl[n].iter = h[n]
      BY <1>5
    <3>2. Dim(cl, n)[1] = cl[n].level
      BY DEF Dim
    <3> QED
      BY <3>1, <3>2
  <2>2. h[n] \in Iters /\ q[n] \in DOMAIN Bucket(s, o, h[n])
    BY <1>2
  <2>3. CASE h[n] = first
    <3>1. q[n] = 1 \/ q[n] = 2
      BY <1>3, <2>2, <2>3
    <3> QED
      BY <1>3, <2>1, <2>2, <2>3, <3>1
  <2>4. CASE h[n] # first
    BY <1>3, <1>4, <2>1, <2>2, <2>4
  <2> QED
    BY <2>3, <2>4
<1>7. ASSUME NEW m \in 1 .. Len(cl), NEW n \in 1 .. Len(cl), Dim(cl, m) = Dim(cl, n)
      PROVE  m = n
  <2>1. /\ h[m] \in Iters /\ q[m] \in DOMAIN Bucket(s, o, h[m])
        /\ h[n] \in Iters /\ q[n] \in DOMAIN Bucket(s, o, h[n])
        /\ Bucket(s, o, h[m])[q[m]] = Bucket(s, o, h[n])[q[n]]
    BY <1>2, <1>5, <1>7
  <2>2. h[m] = first <=> h[n] = first
    BY <1>5, <1>6, <1>7 DEF Dim
  <2>3. CASE h[m] = first
    <3>1. (q[m] = 1 \/ q[m] = 2) /\ (q[n] = 1 \/ q[n] = 2)
      BY <1>3, <2>1, <2>2, <2>3
    <3>2. Bucket(s, o, first)[1] = <<0, 1>> /\ Bucket(s, o, first)[2] = <<0, 2>>
      BY <1>3, <2>1, <2>3
    <3>3. <<0, 1>> # <<0, 2>>
      OBVIOUS
    <3>4. q[m] = q[n]
      BY <2>1, <2>2, <2>3, <3>1, <3>2, <3>3
    <3> QED
      BY <1>2, <2>2, <2>3, <3>4
  <2>4. CASE h[m] # first
    <3>1. q[m] = 1 /\ q[n] = 1
      BY <1>3, <2>1, <2>2, <2>4
    <3>2. rest[at(h[m]) - 1] = rest[at(h[n]) - 1]
      BY <1>3, <2>1, <2>2, <2>4, <3>1
    <3>3. at(h[m]) - 1 \in 1 .. k - 1 /\ at(h[n]) - 1 \in 1 .. k - 1
      BY <1>3, <2>1, <2>2, <2>4
    <3>4. at(h[m]) - 1 = at(h[n]) - 1
      BY <1>4, <3>2, <3>3
    <3>5. at(h[m]) \in Iters /\ at(h[n]) \in Iters
      BY <2>1, OrderOnto DEF at
    <3>6. at(h[m]) = at(h[n])
      BY <3>4, <3>5
    <3>7. h[m] = h[n]
      BY <1>3, <2>1, <2>2, <2>4, <3>6
    <3> QED
      BY <1>2, <3>1, <3>7
  <2> QED
    BY <2>3, <2>4
<1>8. ASSUME NEW d, DimOf(s, d) PROVE \E n \in 1 .. Len(cl) : Dim(cl, n) = d
  <2>1. first \in Iters /\ 1 \in Iters
    BY DEF first, OrderOK
  <2>2. d = <<d[1], d[2]>> /\ d[1] \in Nat /\ d[2] \in {1, 2}
    BY <1>8 DEF DimOf, Axes
  <2>3. CASE d[1] = 0
    <3>1. d[2] \in DOMAIN Bucket(s, o, first) /\ Bucket(s, o, first)[d[2]] = d
      BY <1>3, <2>1, <2>2, <2>3
    <3>2. PICK n \in 1 .. Len(cl) : h[n] = first /\ q[n] = d[2]
      BY <1>2, <2>1, <3>1
    <3>3. Dim(cl, n) = d
      BY <1>5, <3>1, <3>2
    <3> QED
      BY <3>3
  <2>4. CASE d[1] # 0
    <3>1. PICK t \in 1 .. k - 1 : rest[t] = d
      BY <1>4, <1>8, <2>4
    <3> DEFINE i == o[t + 1]
    <3>2. t + 1 \in Iters /\ t + 1 # 1 /\ t \in Int
      BY <3>1
    <3>3. i \in Iters /\ i # first
      BY <2>1, <3>2 DEF OrderOK, first
    <3>4. at(i) \in Iters /\ o[at(i)] = o[t + 1]
      BY <3>3, OrderOnto DEF at
    <3>5. at(i) = t + 1
      BY <3>2, <3>4 DEF OrderOK
    <3> HIDE DEF i
    <3>6. 1 \in DOMAIN Bucket(s, o, i) /\ Bucket(s, o, i)[1] = d
      <4>1. DOMAIN Bucket(s, o, i) = {1} /\ Bucket(s, o, i)[1] = rest[at(i) - 1]
        BY <1>3, <3>3
      <4>2. at(i) - 1 = t
        BY <3>2, <3>5
      <4> QED
        BY <3>1, <4>1, <4>2
    <3>7. PICK n \in 1 .. Len(cl) : h[n] = i /\ q[n] = 1
      BY <1>2, <3>3, <3>6
    <3>8. Dim(cl, n) = d
      BY <1>5, <3>6, <3>7
    <3> QED
      BY <3>8
  <2> QED
    BY <2>3, <2>4
<1> QED
  BY <1>5, <1>6, <1>7, <1>8 DEF cl, first

(* The loops of a mapped kernel are the levels of the mesh's axes.          *)
AxisLevels(a, P, K) ==
  /\ K = Len(split[a]) /\ Radices(split[a], P, K) /\ P[K] = mesh[a]
  /\ \A k \in 1 .. K : \E n \in Loops : nest[n].axis = a /\ nest[n].level = k - 1
  /\ \A n \in Loops : nest[n].axis = a =>
       nest[n].level + 1 \in 1 .. K /\ nest[n].size = split[a][nest[n].level + 1]

NestOK ==
  /\ nest \in Seq(Claim)
  /\ \A n \in Loops : nest[n].axis \in Axes /\ nest[n].level \in Nat /\ nest[n].size \in Nat \ {0}
  /\ \A m, n \in Loops : nest[m].axis = nest[n].axis /\ nest[m].level = nest[n].level => m = n
  /\ \A a \in Axes : \E P, K : AxisLevels(a, P, K)

\* The stride of a loop is the place value of its level.
LEMMA StrideIsPlaceValue ==
  ASSUME NestOK, NEW a \in Axes, NEW P, NEW K, AxisLevels(a, P, K), NEW n \in Loops, nest[n].axis = a
  PROVE  Stride(n) = P[nest[n].level]
<1> DEFINE N == Len(nest)
           z == split[a]
           part(L) == [m \in Loops |-> IF nest[m].axis = a /\ nest[m].level < L THEN nest[m].size ELSE 1]
           D == {L \in Nat : L <= K => Product(part(L)) = P[L]}
<1>0. /\ N \in Nat /\ Loops = 1 .. N /\ K \in Nat /\ Radices(z, P, K)
      /\ \A m \in Loops : nest[m].axis \in Axes /\ nest[m].level \in Nat /\ nest[m].size \in Nat \ {0}
  BY LenProperties DEF NestOK, Loops, AxisLevels, Radices
<1>1. P[0] = 1 /\ \A k \in 1 .. K : P[k] = P[k - 1] * z[k]
  BY <1>0 DEF Radices, Products
<1>2. ASSUME NEW L \in Nat
      PROVE  /\ part(L) \in [1 .. N -> Nat] /\ \A m \in 1 .. N : part(L)[m] \in Nat
             /\ \E r : Products(r, part(L), N) /\ Product(part(L)) = r[N]
  <2>1. part(L) \in [1 .. N -> Nat]
    BY <1>0
  <2> HIDE DEF part
  <2> QED
    BY <1>0, <2>1, ProductIsLast
<1>3. 0 \in D
  <2>1. \A m \in 1 .. N : part(0)[m] = 1
    BY <1>0
  <2> HIDE DEF part
  <2>2. PICK r : Products(r, part(0), N) /\ Product(part(0)) = r[N]
    BY <1>2
  <2>3. r[N] = 1
    <3> HIDE DEF N
    <3> QED
      BY <1>0, <2>1, <2>2, ProductOfOnes
  <2> QED
    BY <1>1, <2>2, <2>3
<1>4. ASSUME NEW L \in 0 .. K - 1, L \in D PROVE L + 1 \in D
  <2> DEFINE f == part(L + 1)
             g == part(L)
  <2>1. L \in Nat /\ L + 1 \in Nat /\ L + 1 \in 1 .. K /\ (L + 1) - 1 = L /\ L <= K /\ L + 1 <= K
    BY <1>0, <1>4
  <2>2. PICK i \in Loops : nest[i].axis = a /\ nest[i].level = L
    BY <2>1 DEF AxisLevels
  <2>3. f[i] = z[L + 1] /\ g[i] = 1
    <3>1. nest[i].size = z[L + 1]
      BY <2>2 DEF AxisLevels
    <3>2. L < L + 1 /\ ~ (L < L)
      BY <2>1
    <3> QED
      BY <2>2, <3>1, <3>2
  <2>4. ASSUME NEW m \in 1 .. N, m # i PROVE g[m] = f[m]
    <3>1. m \in Loops
      BY <1>0
    <3>2. nest[m].axis = a => nest[m].level # L
      BY <2>2, <2>4, <3>1 DEF NestOK
    <3>3. nest[m].axis = a => (nest[m].level < L <=> nest[m].level < L + 1)
      BY <1>0, <2>1, <3>1, <3>2
    <3> QED
      BY <3>1, <3>3
  <2>5. PICK r : Products(r, f, N) /\ Product(f) = r[N]
    BY <1>2, <2>1
  <2>6. PICK q : Products(q, g, N) /\ Product(g) = q[N]
    BY <1>2, <2>1
  <2>7. (\A m \in 1 .. N : f[m] \in Nat) /\ i \in 1 .. N
    BY <1>0, <1>2, <2>1
  <2>8. Product(g) = P[L]
    BY <1>4, <2>1
  <2> HIDE DEF f, g
  <2>9. r[N] = q[N] * f[i]
    <3>1. N \in Nat /\ Without(g, f, i, N, 1)
      BY <1>0, <2>3, <2>4, <2>7 DEF Without
    <3> HIDE DEF N
    <3> QED
      BY <2>5, <2>6, <3>1, ProductChanged
  <2>10. Product(f) = P[L + 1]
    BY <1>1, <2>1, <2>3, <2>5, <2>6, <2>8, <2>9
  <2> QED
    BY <2>1, <2>10 DEF f
<1> HIDE DEF D
<1>5. \A L \in 0 .. K : L \in D
  BY <1>0, <1>3, <1>4, Upwards
<1>6. nest[n].level \in 0 .. K /\ nest[n].level <= K
  BY <1>0 DEF AxisLevels
<1>7. Product(part(nest[n].level)) = P[nest[n].level]
  BY <1>5, <1>6 DEF D
<1>8. Stride(n) = Product(part(nest[n].level))
  BY DEF Stride
<1> QED
  BY <1>7, <1>8

\* The position of a core on an axis is the number whose digits are its values
\* on the axis's levels.
LEMMA PositionIsNumeral ==
  ASSUME NestOK, NEW a \in Axes, NEW P, NEW K, AxisLevels(a, P, K),
         NEW c, \A n \in Loops : c[n] \in Nat,
         NEW d, \A n \in Loops : nest[n].axis = a => d[nest[n].level + 1] = c[n],
         NEW W, Totals(W, Places(d, P, K), K)
  PROVE  LinearIndex(c, a) = W[K]
<1> DEFINE N == Len(nest)
           z == split[a]
           worth(m) == c[m] * Stride(m)
           part(L) == [m \in Loops |-> IF nest[m].axis = a /\ nest[m].level < L THEN worth(m) ELSE 0]
           D == {L \in Nat : L <= K => \A r : Totals(r, part(L), N) => r[N] = W[L]}
<1>0. /\ N \in Nat /\ Loops = 1 .. N /\ K \in Nat /\ Radices(z, P, K)
      /\ \A m \in Loops : nest[m].axis \in Axes /\ nest[m].level \in Nat /\ nest[m].size \in Nat \ {0}
  BY LenProperties DEF NestOK, Loops, AxisLevels, Radices
<1>1. ASSUME NEW m \in Loops PROVE Stride(m) \in Nat /\ worth(m) \in Nat
  <2>1. PICK b \in Axes : b = nest[m].axis
    BY <1>0
  <2>2. PICK Q, J : AxisLevels(b, Q, J)
    BY DEF NestOK
  <2>3. Stride(m) = Q[nest[m].level]
    BY <2>1, <2>2, StrideIsPlaceValue
  <2>4. nest[m].level \in 0 .. J
    BY <1>0, <2>1, <2>2 DEF AxisLevels
  <2>5. Q[nest[m].level] \in Nat
    BY <2>2, <2>4, PlaceValuesPositive DEF AxisLevels
  <2>6. \A x, y \in Nat : x * y \in Nat
    OBVIOUS
  <2> QED
    BY <2>3, <2>5, <2>6
<1>2. \A L \in Nat : \A m \in 1 .. N : part(L)[m] \in Nat
  <2> HIDE DEF worth
  <2> QED
    BY <1>0, <1>1
<1>3. 0 \in D
  <2>1. \A m \in 1 .. N : part(0)[m] = 0
    BY <1>0
  <2>2. W[0] = 0
    BY DEF Totals
  <2> HIDE DEF part
  <2> QED
    BY <1>0, <2>1, <2>2, TotalOfZeros
<1>4. ASSUME NEW L \in 0 .. K - 1, L \in D PROVE L + 1 \in D
  <2> DEFINE f == part(L + 1)
             g == part(L)
  <2>1. L \in Nat /\ L + 1 \in Nat /\ L + 1 \in 1 .. K /\ (L + 1) - 1 = L /\ L <= K /\ L + 1 <= K
    BY <1>0, <1>4
  <2>2. PICK i \in Loops : nest[i].axis = a /\ nest[i].level = L
    BY <2>1 DEF AxisLevels
  <2>3. f[i] = Places(d, P, K)[L + 1] /\ g[i] = 0
    <3>1. worth(i) = d[L + 1] * P[L]
      BY <2>2, StrideIsPlaceValue
    <3>2. L < L + 1 /\ ~ (L < L)
      BY <2>1
    <3>3. Places(d, P, K)[L + 1] = d[L + 1] * P[L]
      BY <2>1 DEF Places
    <3> HIDE DEF worth
    <3> QED
      BY <2>2, <3>1, <3>2, <3>3
  <2>4. ASSUME NEW m \in 1 .. N, m # i PROVE g[m] = f[m]
    <3>1. m \in Loops
      BY <1>0
    <3>2. nest[m].axis = a => nest[m].level # L
      BY <2>2, <2>4, <3>1 DEF NestOK
    <3>3. nest[m].axis = a => (nest[m].level < L <=> nest[m].level < L + 1)
      BY <1>0, <2>1, <3>1, <3>2
    <3> HIDE DEF worth
    <3> QED
      BY <3>1, <3>3
  <2>5. (\A m \in 1 .. N : f[m] \in Nat /\ g[m] \in Nat) /\ i \in 1 .. N
    BY <1>0, <1>2, <2>1
  <2>6. \A q : Totals(q, g, N) => q[N] = W[L]
    <3> HIDE DEF part
    <3> QED
      BY <1>4, <2>1
  <2> HIDE DEF f, g
  <2>7. PICK q : Totals(q, g, N)
    BY <1>0, <2>5, TotalsExist
  <2>8. W[L + 1] = W[L] + Places(d, P, K)[L + 1]
    BY <2>1 DEF Totals
  <2>9. ASSUME NEW r, Totals(r, f, N) PROVE r[N] = W[L + 1]
    <3>1. r[N] = q[N] + f[i]
      <4>1. N \in Nat /\ Without(g, f, i, N, 0)
        BY <1>0, <2>3, <2>4, <2>5 DEF Without
      <4> HIDE DEF N
      <4> QED
        BY <2>7, <2>9, <4>1, TotalChanged
    <3> QED
      BY <2>3, <2>6, <2>7, <2>8, <3>1
  <2> QED
    BY <2>1, <2>9 DEF f
<1>5. K \in D
  <2> HIDE DEF D
  <2>1. \A L \in 0 .. K : L \in D
    BY <1>0, <1>3, <1>4, Upwards
  <2> QED
    BY <1>0, <2>1
<1>6. PICK r : Totals(r, Placed(c, a), N) /\ LinearIndex(c, a) = r[N]
  BY <1>1, LinearIndexIsLast DEF NestOK
<1>7. PICK q : Totals(q, part(K), N)
  <2>1. \A m \in 1 .. N : part(K)[m] \in Nat
    BY <1>0, <1>2
  <2> HIDE DEF part
  <2> QED
    BY <1>0, <2>1, TotalsExist
<1>8. \A m \in 1 .. N : Placed(c, a)[m] = part(K)[m]
  <2> SUFFICES ASSUME NEW m \in 1 .. N PROVE Placed(c, a)[m] = part(K)[m]
    OBVIOUS
  <2>1. m \in Loops
    BY <1>0
  <2>2. nest[m].axis = a => nest[m].level < K
    BY <1>0, <2>1 DEF AxisLevels
  <2>3. Placed(c, a)[m] = IF nest[m].axis = a THEN worth(m) ELSE 0
    BY <2>1 DEF Placed
  <2> HIDE DEF worth
  <2> QED
    BY <2>1, <2>2, <2>3
<1> HIDE DEF part
<1>9. r[N] = q[N]
  <2>1. N \in Nat
    BY <1>0
  <2> HIDE DEF N
  <2> QED
    BY <1>6, <1>7, <1>8, <2>1, TotalsSame
<1>10. q[N] = W[K]
  BY <1>0, <1>5, <1>7
<1> QED
  BY <1>6, <1>9, <1>10

\* The cores are the choices of one value for every loop.
LEMMA CoresOfNest ==
  ASSUME NestOK
  PROVE  /\ \A c \in Cores : c \in [Loops -> Nat] /\ \A n \in Loops : c[n] \in 0 .. nest[n].size - 1
         /\ \A c \in [Loops -> Nat] : (\A n \in Loops : c[n] \in 0 .. nest[n].size - 1) => c \in Cores
<1> DEFINE M == Max({nest[n].size : n \in Loops})
<1>1. Len(nest) \in Nat /\ Loops = 1 .. Len(nest) /\ \A n \in Loops : nest[n].size \in Nat \ {0}
  BY LenProperties DEF NestOK, Loops
<1>2. ASSUME NEW n \in Loops PROVE M \in Nat /\ nest[n].size <= M
  <2> DEFINE f == [m \in 1 .. Len(nest) |-> nest[m].size]
  <2>1. f \in [1 .. Len(nest) -> Nat] /\ n \in 1 .. Len(nest) /\ f[n] = nest[n].size
    BY <1>1
  <2>2. {f[m] : m \in 1 .. Len(nest)} = {nest[m].size : m \in Loops}
    BY <1>1
  <2> HIDE DEF f
  <2> QED
    BY <1>1, <2>1, <2>2, MaxOfValues
<1> HIDE DEF M
<1>3. Cores = {c \in [Loops -> 0 .. M - 1] : \A n \in Loops : c[n] < nest[n].size}
  BY DEF Cores, M
<1>4. ASSUME NEW c \in Cores
      PROVE  c \in [Loops -> Nat] /\ \A n \in Loops : c[n] \in 0 .. nest[n].size - 1
  <2>1. c \in [Loops -> 0 .. M - 1] /\ \A n \in Loops : c[n] < nest[n].size
    BY <1>3
  <2>2. \A n \in Loops : c[n] \in Nat
    BY <2>1
  <2> QED
    BY <1>1, <2>1, <2>2
<1>5. ASSUME NEW c \in [Loops -> Nat], \A n \in Loops : c[n] \in 0 .. nest[n].size - 1
      PROVE  c \in Cores
  <2>1. ASSUME NEW n \in Loops PROVE c[n] \in 0 .. M - 1 /\ c[n] < nest[n].size
    <3>1. c[n] \in 0 .. nest[n].size - 1 /\ nest[n].size \in Nat /\ M \in Nat /\ nest[n].size <= M
      BY <1>1, <1>2, <1>5
    <3> QED
      BY <3>1
  <2>2. c \in [Loops -> 0 .. M - 1]
    BY <2>1
  <2> QED
    BY <1>3, <2>1, <2>2
<1> QED
  BY <1>4, <1>5

\* The values core c has on the levels of axis a, innermost first.
DigitsOf(c, a) ==
  [k \in 1 .. Len(split[a]) |-> c[CHOOSE n \in Loops : nest[n].axis = a /\ nest[n].level = k - 1]]

LEMMA DigitsOfCore ==
  ASSUME NestOK, NEW a \in Axes, NEW P, NEW K, AxisLevels(a, P, K), NEW c \in Cores
  PROVE  /\ Digits(DigitsOf(c, a), split[a], K)
         /\ \A n \in Loops : nest[n].axis = a => DigitsOf(c, a)[nest[n].level + 1] = c[n]
<1> DEFINE at(k) == CHOOSE n \in Loops : nest[n].axis = a /\ nest[n].level = k - 1
<1>1. ASSUME NEW k \in 1 .. K
      PROVE  at(k) \in Loops /\ nest[at(k)].axis = a /\ nest[at(k)].level = k - 1
  BY DEF AxisLevels
<1>2. K = Len(split[a]) /\ \A k \in 1 .. K : DigitsOf(c, a)[k] = c[at(k)]
  BY DEF AxisLevels, DigitsOf
<1> HIDE DEF at
<1>3. ASSUME NEW k \in 1 .. K PROVE DigitsOf(c, a)[k] \in 0 .. split[a][k] - 1
  <2>1. nest[at(k)].level + 1 = k
    BY <1>1
  <2>2. nest[at(k)].size = split[a][k]
    BY <1>1, <2>1 DEF AxisLevels
  <2>3. c[at(k)] \in 0 .. nest[at(k)].size - 1
    BY <1>1, CoresOfNest
  <2> QED
    BY <1>2, <2>2, <2>3
<1>4. ASSUME NEW n \in Loops, nest[n].axis = a PROVE DigitsOf(c, a)[nest[n].level + 1] = c[n]
  <2>1. nest[n].level \in Nat /\ nest[n].level + 1 \in 1 .. K
    BY <1>4 DEF NestOK, AxisLevels
  <2>2. nest[at(nest[n].level + 1)].level = nest[n].level
    BY <1>1, <2>1
  <2>3. at(nest[n].level + 1) = n
    BY <1>1, <1>4, <2>1, <2>2 DEF NestOK
  <2> QED
    BY <1>2, <2>1, <2>3
<1> QED
  BY <1>3, <1>4 DEF Digits

\* The position of a core on an axis is a number in that axis's notation.
LEMMA PositionWritten ==
  ASSUME NestOK, NEW a \in Axes, NEW P, NEW K, AxisLevels(a, P, K), NEW c \in Cores
  PROVE  \E W : Totals(W, Places(DigitsOf(c, a), P, K), K) /\ LinearIndex(c, a) = W[K]
<1> DEFINE d == DigitsOf(c, a)
<1>1. Digits(d, split[a], K) /\ \A n \in Loops : nest[n].axis = a => d[nest[n].level + 1] = c[n]
  BY DigitsOfCore
<1> HIDE DEF d
<1>2. K \in Nat /\ Radices(split[a], P, K)
  BY DEF AxisLevels, Radices
<1>3. ASSUME NEW k \in 1 .. K PROVE Places(d, P, K)[k] \in Nat
  <2>1. d[k] \in Nat
    BY <1>1, <1>2 DEF Digits, Radices
  <2>2. P[k - 1] \in Nat
    <3>1. k - 1 \in 0 .. K
      BY <1>2
    <3> QED
      BY <1>2, <3>1, PlaceValuesPositive
  <2>3. \A x, y \in Nat : x * y \in Nat
    OBVIOUS
  <2> QED
    BY <2>1, <2>2, <2>3 DEF Places
<1>4. PICK W : Totals(W, Places(d, P, K), K)
  BY <1>2, <1>3, TotalsExist
<1>5. \A n \in Loops : c[n] \in Nat
  BY CoresOfNest
<1>6. LinearIndex(c, a) = W[K]
  BY <1>1, <1>4, <1>5, PositionIsNumeral
<1> QED
  BY <1>4, <1>6 DEF d

\* The product of an axis's radices is its number of cores.
LEMMA TopPlace ==
  ASSUME NEW a, NEW P, NEW K, AxisLevels(a, P, K)
  PROVE  K \in 0 .. K /\ Radices(split[a], P, K) /\ P[K] = mesh[a] /\ mesh[a] \in Nat \ {0}
<1>1. K \in Nat /\ Radices(split[a], P, K) /\ P[K] = mesh[a]
  BY DEF AxisLevels, Radices
<1>2. K \in 0 .. K
  BY <1>1
<1> QED
  BY <1>1, <1>2, PlaceValuesPositive

LEMMA MeshPositive == NestOK => \A a \in Axes : mesh[a] \in Nat \ {0}
<1> SUFFICES ASSUME NestOK, NEW a \in Axes PROVE mesh[a] \in Nat \ {0}
  OBVIOUS
<1>1. PICK P, K : AxisLevels(a, P, K)
  BY DEF NestOK
<1> QED
  BY <1>1, TopPlace

\* A core's position is on the axis.
LEMMA PositionOnAxis ==
  ASSUME NestOK, NEW a \in Axes, NEW c \in Cores
  PROVE  LinearIndex(c, a) \in 0 .. mesh[a] - 1 /\ mesh[a] \in Nat \ {0}
<1>1. PICK P, K : AxisLevels(a, P, K)
  BY DEF NestOK
<1>2. K \in 0 .. K /\ Radices(split[a], P, K) /\ P[K] = mesh[a]
  BY <1>1, TopPlace
<1>3. PICK W : Totals(W, Places(DigitsOf(c, a), P, K), K) /\ LinearIndex(c, a) = W[K]
  BY <1>1, PositionWritten
<1>4. Digits(DigitsOf(c, a), split[a], K)
  BY <1>1, DigitsOfCore
<1>5. W[K] \in Nat /\ W[K] < P[K]
  BY <1>2, <1>3, <1>4, NumeralBelow
<1> QED
  BY <1>1, <1>2, <1>3, <1>5, TopPlace

\* Two cores of one position on an axis have the same values on its levels.
LEMMA PositionUnique ==
  ASSUME NestOK, NEW a \in Axes, NEW c \in Cores, NEW e \in Cores, LinearIndex(c, a) = LinearIndex(e, a)
  PROVE  \A n \in Loops : nest[n].axis = a => c[n] = e[n]
<1>1. PICK P, K : AxisLevels(a, P, K)
  BY DEF NestOK
<1>2. Radices(split[a], P, K)
  BY <1>1 DEF AxisLevels
<1>3. PICK W : Totals(W, Places(DigitsOf(c, a), P, K), K) /\ LinearIndex(c, a) = W[K]
  BY <1>1, PositionWritten
<1>4. PICK V : Totals(V, Places(DigitsOf(e, a), P, K), K) /\ LinearIndex(e, a) = V[K]
  BY <1>1, PositionWritten
<1>5. /\ Digits(DigitsOf(c, a), split[a], K)
      /\ \A n \in Loops : nest[n].axis = a => DigitsOf(c, a)[nest[n].level + 1] = c[n]
  BY <1>1, DigitsOfCore
<1>6. /\ Digits(DigitsOf(e, a), split[a], K)
      /\ \A n \in Loops : nest[n].axis = a => DigitsOf(e, a)[nest[n].level + 1] = e[n]
  BY <1>1, DigitsOfCore
<1>7. \A k \in 1 .. K : DigitsOf(c, a)[k] = DigitsOf(e, a)[k]
  <2> DEFINE d == DigitsOf(c, a)
             f == DigitsOf(e, a)
  <2>1. W[K] = V[K]
    BY <1>3, <1>4
  <2>2. Digits(d, split[a], K) /\ Totals(W, Places(d, P, K), K)
    BY <1>3, <1>5
  <2>3. Digits(f, split[a], K) /\ Totals(V, Places(f, P, K), K)
    BY <1>4, <1>6
  <2> HIDE DEF d, f
  <2>4. \A k \in 1 .. K : d[k] = f[k]
    BY <1>2, <2>1, <2>2, <2>3, NumeralUnique
  <2> QED
    BY <2>4 DEF d, f
<1>8. \A n \in Loops : nest[n].axis = a => nest[n].level + 1 \in 1 .. K
  BY <1>1 DEF AxisLevels
<1> QED
  BY <1>5, <1>6, <1>7, <1>8

\* Every position on an axis is that of every core with certain values on its levels.
LEMMA PositionExists ==
  ASSUME NestOK, NEW a \in Axes, NEW x \in Nat, x < mesh[a]
  PROVE  \E d : /\ \A n \in Loops : nest[n].axis = a => d[nest[n].level + 1] \in 0 .. nest[n].size - 1
                /\ \A c \in Cores :
                     (\A n \in Loops : nest[n].axis = a => d[nest[n].level + 1] = c[n])
                       => LinearIndex(c, a) = x
<1>1. PICK P, K : AxisLevels(a, P, K)
  BY DEF NestOK
<1>2. Radices(split[a], P, K) /\ P[K] = mesh[a]
  BY <1>1 DEF AxisLevels
<1>3. PICK d, W : Digits(d, split[a], K) /\ Totals(W, Places(d, P, K), K) /\ W[K] = x
  BY <1>2, NumeralExists
<1>4. ASSUME NEW n \in Loops, nest[n].axis = a PROVE d[nest[n].level + 1] \in 0 .. nest[n].size - 1
  <2>1. nest[n].level + 1 \in 1 .. K /\ nest[n].size = split[a][nest[n].level + 1]
    BY <1>1, <1>4 DEF AxisLevels
  <2> QED
    BY <1>3, <2>1 DEF Digits
<1>5. ASSUME NEW c \in Cores, \A n \in Loops : nest[n].axis = a => d[nest[n].level + 1] = c[n]
      PROVE  LinearIndex(c, a) = x
  <2>1. \A n \in Loops : c[n] \in Nat
    BY CoresOfNest
  <2> QED
    BY <1>1, <1>3, <1>5, <2>1, PositionIsNumeral
<1> QED
  BY <1>4, <1>5

\* Each core has its own position on the mesh, and every position has a core.
LEMMA PlacesAreTheMesh ==
  ASSUME NestOK
  PROVE  /\ {<<LinearIndex(c, 1), LinearIndex(c, 2)>> : c \in Cores} =
              (0 .. mesh[1] - 1) \X (0 .. mesh[2] - 1)
         /\ Cardinality(Cores) = mesh[1] * mesh[2]
<1> DEFINE at(c) == <<LinearIndex(c, 1), LinearIndex(c, 2)>>
           G == (0 .. mesh[1] - 1) \X (0 .. mesh[2] - 1)
<1>1. ASSUME NEW c \in Cores PROVE at(c) \in G
  BY PositionOnAxis DEF Axes
<1>2. ASSUME NEW c \in Cores, NEW e \in Cores, at(c) = at(e) PROVE c = e
  <2>1. LinearIndex(c, 1) = LinearIndex(e, 1) /\ LinearIndex(c, 2) = LinearIndex(e, 2)
    BY <1>2
  <2>2. \A n \in Loops : nest[n].axis = 1 \/ nest[n].axis = 2
    BY DEF NestOK, Axes
  <2>3. \A n \in Loops : c[n] = e[n]
    BY <2>1, <2>2, PositionUnique DEF Axes
  <2>4. c \in [Loops -> Nat] /\ e \in [Loops -> Nat]
    BY CoresOfNest
  <2> QED
    BY <2>3, <2>4
<1>3. ASSUME NEW p \in G PROVE \E c \in Cores : at(c) = p
  <2>1. p = <<p[1], p[2]>> /\ p[1] \in 0 .. mesh[1] - 1 /\ p[2] \in 0 .. mesh[2] - 1
    OBVIOUS
  <2>2. mesh[1] \in Nat /\ mesh[2] \in Nat
    BY MeshPositive DEF Axes
  <2>3. p[1] \in Nat /\ p[1] < mesh[1] /\ p[2] \in Nat /\ p[2] < mesh[2] /\ 1 \in Axes /\ 2 \in Axes
    BY <2>1, <2>2 DEF Axes
  <2>4. PICK d : /\ \A n \in Loops : nest[n].axis = 1 => d[nest[n].level + 1] \in 0 .. nest[n].size - 1
                 /\ \A c \in Cores :
                      (\A n \in Loops : nest[n].axis = 1 => d[nest[n].level + 1] = c[n])
                        => LinearIndex(c, 1) = p[1]
    BY <2>3, PositionExists
  <2>5. PICK e : /\ \A n \in Loops : nest[n].axis = 2 => e[nest[n].level + 1] \in 0 .. nest[n].size - 1
                 /\ \A c \in Cores :
                      (\A n \in Loops : nest[n].axis = 2 => e[nest[n].level + 1] = c[n])
                        => LinearIndex(c, 2) = p[2]
    BY <2>3, PositionExists
  <2> DEFINE c == [n \in Loops |-> IF nest[n].axis = 1 THEN d[nest[n].level + 1]
                                   ELSE e[nest[n].level + 1]]
  <2>6. ASSUME NEW n \in Loops
        PROVE  /\ c[n] \in 0 .. nest[n].size - 1 /\ c[n] \in Nat
               /\ nest[n].axis = 1 => d[nest[n].level + 1] = c[n]
               /\ nest[n].axis = 2 => e[nest[n].level + 1] = c[n]
    <3>1. (nest[n].axis = 1 \/ nest[n].axis = 2) /\ nest[n].size \in Nat
      BY DEF NestOK, Axes
    <3>2. c[n] \in 0 .. nest[n].size - 1
      BY <2>4, <2>5, <3>1
    <3> QED
      BY <3>1, <3>2
  <2>7. c \in [Loops -> Nat]
    BY <2>6
  <2> HIDE DEF c
  <2>8. c \in Cores
    BY <2>6, <2>7, CoresOfNest
  <2>9. LinearIndex(c, 1) = p[1] /\ LinearIndex(c, 2) = p[2]
    BY <2>4, <2>5, <2>6, <2>8
  <2> QED
    BY <2>1, <2>8, <2>9
<1>4. {at(c) : c \in Cores} = G
  <2> HIDE DEF at, G
  <2> QED
    BY <1>1, <1>3
<1>5. Cardinality(G) = mesh[1] * mesh[2] /\ IsFiniteSet(G)
  <2>1. mesh[1] \in Nat \ {0} /\ mesh[2] \in Nat \ {0}
    BY MeshPositive DEF Axes
  <2>2. ASSUME NEW n \in Nat \ {0} PROVE IsFiniteSet(0 .. n - 1) /\ Cardinality(0 .. n - 1) = n
    <3>1. 0 \in Int /\ n - 1 \in Int /\ ~ (0 > n - 1) /\ (n - 1) - 0 + 1 = n
      OBVIOUS
    <3> QED
      BY <3>1, FS_Interval
  <2> DEFINE X == 0 .. mesh[1] - 1
             Y == 0 .. mesh[2] - 1
  <2>3. IsFiniteSet(X) /\ Cardinality(X) = mesh[1] /\ IsFiniteSet(Y) /\ Cardinality(Y) = mesh[2]
    BY <2>1, <2>2
  <2>4. G = X \X Y
    OBVIOUS
  <2> HIDE DEF G, X, Y
  <2> QED
    BY <2>3, <2>4, FS_Product
<1>6. ExistsBijection(G, Cores)
  <2> DEFINE core == [p \in G |-> CHOOSE c \in Cores : at(c) = p]
  <2> HIDE DEF at, G
  <2>1. \A p \in G : core[p] \in Cores /\ at(core[p]) = p
    BY <1>3
  <2>2. core \in [G -> Cores]
    BY <2>1
  <2>3. \A p, q \in G : core[p] = core[q] => p = q
    BY <2>1
  <2>4. \A c \in Cores : at(c) \in G /\ core[at(c)] = c
    BY <1>1, <1>2, <2>1
  <2> HIDE DEF core
  <2>5. core \in Bijection(G, Cores)
    BY <2>2, <2>3, <2>4 DEF Bijection, Injection, Surjection, IsInjective
  <2> QED
    BY <2>5 DEF ExistsBijection
<1>7. Cardinality(Cores) = Cardinality(G)
  BY <1>5, <1>6, FS_Bijection
<1> QED
  BY <1>4, <1>5, <1>7

-----------------------------------------------------------------------------
(* The spatial loops are a place for every core. *)

\* The split of an axis is into levels whose sizes multiply to its cores.
SplitWhole == stage \in HasSplit => \A a \in Axes : Product(split[a]) = mesh[a]

\* A split that generateAllSplits offers is one of the whole occupied mesh.
LEMMA SplitsWhole ==
  ASSUME mesh \in [Axes -> Nat \ {0}], NEW k, NEW s \in Splits(k)
  PROVE  \A a \in Axes : Product(s[a]) = mesh[a]
<1>1. PICK p \in 1 .. k - 1 :
        s \in {<<x, y>> : x \in OrderedFactorizations(mesh[1], p),
                          y \in OrderedFactorizations(mesh[2], k - p)}
  BY DEF Splits
<1>2. PICK x \in OrderedFactorizations(mesh[1], p),
           y \in OrderedFactorizations(mesh[2], k - p) : s = <<x, y>>
  BY <1>1
<1>3. Product(x) = mesh[1] /\ Product(y) = mesh[2]
  BY DEF OrderedFactorizations
<1> QED
  BY <1>2, <1>3 DEF Axes

\* The loops of a candidate are the levels of the mesh's axes once all are made.
LEMMA LoopsAreLevels ==
  ASSUME ChoicesOK, LoopsMade, SplitWhole, Built
  PROVE  NestOK
<1> DEFINE cl == Claims(split, order)
<1>1. stage \in HasSplit /\ stage \in HasOrder /\ stage \in {"nest"} \cup HasWaves
  BY DEF Built, HasSplit, HasOrder, HasWaves
<1>2. /\ Size \in Nat \ {0} /\ Iters = 1 .. Size /\ SplitOK(split, Size) /\ OrderOK(order)
      /\ mesh \in [Axes -> Nat \ {0}]
  BY <1>1, KernelFacts DEF ChoicesOK
<1>3. /\ \A n \in 1 .. Len(cl) : DimOf(split, Dim(cl, n)) /\ cl[n].size = split[cl[n].axis][cl[n].level + 1]
      /\ \A m, n \in 1 .. Len(cl) : Dim(cl, m) = Dim(cl, n) => m = n
      /\ \A d : DimOf(split, d) => \E n \in 1 .. Len(cl) : Dim(cl, n) = d
  BY <1>2, ClaimsOnce
<1>4. nest \in Seq(Claim) /\ Loops = 1 .. Len(cl) /\ \A n \in Loops : nest[n] = cl[n]
  BY <1>1 DEF LoopsMade, Loops
<1> HIDE DEF cl
<1>5. \A n \in Loops : /\ DimOf(split, <<nest[n].level, nest[n].axis>>)
                       /\ nest[n].size = split[nest[n].axis][nest[n].level + 1]
  BY <1>3, <1>4 DEF Dim
<1>6. \A m, n \in Loops : nest[m].axis = nest[n].axis /\ nest[m].level = nest[n].level => m = n
  BY <1>3, <1>4 DEF Dim
<1>7. \A d : DimOf(split, d) => \E n \in Loops : <<nest[n].level, nest[n].axis>> = d
  BY <1>3, <1>4 DEF Dim
<1>8. ASSUME NEW n \in Loops
      PROVE  nest[n].axis \in Axes /\ nest[n].level \in Nat /\ nest[n].size \in Nat \ {0}
  BY <1>5 DEF DimOf
<1>9. ASSUME NEW a \in Axes PROVE \E P, K : AxisLevels(a, P, K)
  <2> DEFINE z == split[a]
  <2>1. PICK K \in Nat : z \in [1 .. K -> Nat \ {0}]
    <3>1. PICK p \in 1 .. Size : /\ split[1] \in [1 .. p -> Nat \ {0}]
                                 /\ split[2] \in [1 .. Size + 1 - p -> Nat \ {0}]
      BY <1>2 DEF SplitOK
    <3>2. p \in Nat /\ Size + 1 - p \in Nat
      BY <1>2, <3>1
    <3> QED
      BY <3>1, <3>2 DEF Axes
  <2>2. Product(z) = mesh[a]
    BY <1>1 DEF SplitWhole
  <2>3. K = Len(z) /\ DOMAIN z = 1 .. K /\ z = [k \in 1 .. K |-> z[k]] /\ \A k \in 1 .. K : z[k] \in Nat \ {0}
    BY <2>1
  <2>4. z \in [1 .. K -> Nat]
    BY <2>1
  <2> HIDE DEF z
  <2>5. PICK P : Products(P, z, K) /\ Product(z) = P[K]
    BY <2>4, ProductIsLast
  <2>6. Radices(z, P, K) /\ P[K] = mesh[a]
    BY <2>2, <2>3, <2>5 DEF Radices
  <2>7. ASSUME NEW k \in 1 .. K PROVE \E n \in Loops : nest[n].axis = a /\ nest[n].level = k - 1
    <3>1. k - 1 \in Nat /\ (k - 1) + 1 = k
      BY <2>1
    <3>2. DimOf(split, <<k - 1, a>>)
      BY <2>3, <3>1 DEF DimOf, z
    <3>3. PICK n \in Loops : <<nest[n].level, nest[n].axis>> = <<k - 1, a>>
      BY <1>7, <3>2
    <3> QED
      BY <3>3
  <2>8. ASSUME NEW n \in Loops, nest[n].axis = a
        PROVE  nest[n].level + 1 \in 1 .. K /\ nest[n].size = z[nest[n].level + 1]
    <3>1. nest[n].level + 1 \in DOMAIN split[a]
      BY <1>5, <2>8 DEF DimOf
    <3> QED
      BY <1>5, <2>3, <2>8, <3>1 DEF z
  <2> QED
    BY <2>3, <2>6, <2>7, <2>8 DEF AxisLevels, z
<1> QED
  BY <1>4, <1>6, <1>8, <1>9 DEF NestOK

\* What the places of the cores depend on, at every stage.
PlaceInv ==
  /\ ChoicesOK /\ LoopsMade /\ SplitWhole
  /\ stage # "ready" => MapInv

LEMMA PlaceInit == Init => PlaceInv
<1> SUFFICES ASSUME Init PROVE PlaceInv
  OBVIOUS
<1>1. MapInv
  BY MapInit
<1>2. SplitWhole
  BY DEF Init, SplitWhole, HasSplit
<1> QED
  BY <1>1, <1>2 DEF PlaceInv, MapInv

\* The split is that of the mesh as long as neither changes.
LEMMA SplitWholeKept ==
  ASSUME SplitWhole, UNCHANGED <<mesh, split>>, stage' \in HasSplit => stage \in HasSplit
  PROVE  SplitWhole'
BY DEF SplitWhole, HasSplit

\* Materialization keeps the loops.
LEMMA PlaceMaterialize == PlaceInv /\ Materialize => ChoicesOK' /\ LoopsMade'
<1> SUFFICES ASSUME PlaceInv, Materialize PROVE ChoicesOK' /\ LoopsMade'
  OBVIOUS
<1>1. /\ stage = "mapped" /\ stage' = "ready"
      /\ UNCHANGED <<kernel, hw, full, blocked, mesh, split, order, nest, ub, waves>>
  BY DEF Materialize
<1>2. Claims(split, order)' = Claims(split, order)
  BY <1>1, SameClaims
<1>3. stage \in HasSplit /\ stage \in HasOrder /\ stage \in HasWaves
  BY <1>1 DEF HasSplit, HasOrder, HasWaves
<1>4. ChoicesOK'
  <2>1. SplitOK(split, Size) /\ OrderOK(order)
    BY <1>3 DEF PlaceInv, ChoicesOK
  <2>2. (SplitOK(split, Size))' /\ (OrderOK(order))'
    BY <1>1, <2>1 DEF Size, OrderOK, Iters, SplitOK
  <2> QED
    BY <1>1, <2>2 DEF PlaceInv, ChoicesOK, Stages
<1>5. LoopsMade'
  <2> DEFINE cl == Claims(split, order)
  <2>1. /\ nest \in Seq(Claim) /\ Len(nest) = Len(cl)
        /\ Len(nest) <= Len(cl) /\ \A n \in 1 .. Len(nest) : nest[n] = cl[n]
    BY <1>3 DEF PlaceInv, LoopsMade
  <2>2. nest' = nest /\ cl' = cl /\ stage' \in HasOrder'
    BY <1>1, <1>2 DEF HasOrder, HasSplit
  <2> HIDE DEF cl
  <2>3. /\ nest' \in Seq(Claim) /\ Len(nest') = Len(cl')
        /\ Len(nest') <= Len(cl') /\ \A n \in 1 .. Len(nest') : nest'[n] = cl'[n]
    BY <2>1, <2>2
  <2> QED
    BY <2>2, <2>3 DEF LoopsMade, cl
<1> QED
  BY <1>4, <1>5

LEMMA PlaceStep == PlaceInv /\ [Next]_vars => PlaceInv'
<1> SUFFICES ASSUME PlaceInv, [Next]_vars PROVE PlaceInv'
  OBVIOUS
<1>1. CASE UNCHANGED vars
  <2>1. UNCHANGED <<kernel, hw, full, blocked, stage, mesh, split, order, nest, ub, clamp, waves>>
    BY <1>1 DEF vars
  <2>2. Claims(split, order)' = Claims(split, order)
    BY <2>1, SameClaims
  <2>3. UNCHANGED <<ChoicesOK, LoopsMade, SplitWhole>>
    BY <2>1, <2>2 DEF ChoicesOK, LoopsMade, SplitWhole, Iters, Size, HasSplit, HasOrder, HasWaves,
                      Stages, OrderOK
  <2>4. UNCHANGED <<BoundsOK, ClampsOK>>
    BY <2>1 DEF BoundsOK, ClampsOK, Iters, HasWaves
  <2> QED
    BY <2>1, <2>3, <2>4 DEF PlaceInv, MapInv
<1>2. CASE Materialize
  <2>1. stage' = "ready" /\ stage \in HasSplit /\ UNCHANGED <<mesh, split>>
    BY <1>2 DEF Materialize, HasSplit
  <2>2. SplitWhole'
    BY <2>1, SplitWholeKept DEF PlaceInv
  <2> QED
    BY <1>2, <2>1, <2>2, PlaceMaterialize DEF PlaceInv
<1>3. CASE Split
  <2>1. MapInv'
    BY <1>3, MapSplit DEF PlaceInv, Split
  <2>2. split' \in Splits(Len(kernel.ext) + 1) /\ mesh' = mesh /\ mesh \in [Axes -> Nat \ {0}]
    BY <1>3 DEF Split, PlaceInv, ChoicesOK
  <2>3. \A a \in Axes : Product(split'[a]) = mesh[a]
    BY <2>2, SplitsWhole
  <2>4. SplitWhole'
    BY <2>2, <2>3 DEF SplitWhole
  <2> QED
    BY <2>1, <2>4 DEF PlaceInv, MapInv
<1>4. CASE Occupy
  <2>1. stage = "occupy" /\ stage' = "split"
    BY <1>4 DEF Occupy
  <2>2. MapInv'
    BY <1>4, <2>1, MapOccupy DEF PlaceInv
  <2>3. SplitWhole'
    BY <2>1 DEF SplitWhole, HasSplit
  <2> QED
    BY <2>2, <2>3 DEF PlaceInv, MapInv
<1>5. CASE Skip \/ Prioritise \/ Tile \/ Drop \/ Reconstruct \/ ConvertParallelToNested \/ Reject
  <2>1. stage # "ready" /\ UNCHANGED <<mesh, split>> /\ (stage' \in HasSplit => stage \in HasSplit)
    BY <1>5 DEF Skip, Prioritise, Tile, Drop, Reconstruct, ConvertParallelToNested, Reject, HasSplit
  <2>2. MapInv'
    BY <1>5, <2>1, MapSkip, MapPrioritise, MapTile, MapDrop, MapReconstruct, MapConvert, MapReject
       DEF PlaceInv
  <2>3. SplitWhole'
    BY <2>1, SplitWholeKept DEF PlaceInv
  <2> QED
    BY <2>2, <2>3 DEF PlaceInv, MapInv
<1> QED
  BY <1>1, <1>2, <1>3, <1>4, <1>5 DEF Next, Mapping, Mapped

(* The spatial loops use every core of the occupied mesh exactly once,      *)
(* whatever the hardware, the occupancy, the split and the priorities, and  *)
(* whether or not the solver is handed the hard constraints                 *)
(* (generateAllSplits, generateLevel0PairClaimMappings, emitLinearIndex).   *)
THEOREM EveryCoreAlwaysHasAPlace == Spec => []EveryCoreHasAPlace
<1>1. Init => PlaceInv
  BY PlaceInit
<1>2. PlaceInv /\ [Next]_vars => PlaceInv'
  BY PlaceStep
<1>3. PlaceInv => EveryCoreHasAPlace
  <2> SUFFICES ASSUME PlaceInv, Built PROVE NestOK
    BY PlacesAreTheMesh DEF EveryCoreHasAPlace
  <2> QED
    BY LoopsAreLevels DEF PlaceInv
<1> QED
  BY <1>1, <1>2, <1>3, PTL DEF Spec

-----------------------------------------------------------------------------
(* The regions that a load or a gather is shared over. *)

\* Of two numbers the one with the smaller digits is not the larger.
LEMMA NumeralsOrdered ==
  ASSUME NEW z, NEW P, NEW K, Radices(z, P, K),
         NEW d, Digits(d, z, K), NEW W, Totals(W, Places(d, P, K), K),
         NEW e, Digits(e, z, K), NEW V, Totals(V, Places(e, P, K), K),
         \A k \in 1 .. K : e[k] <= d[k]
  PROVE  V[K] <= W[K]
<1> DEFINE D == {m \in Nat : m <= K => V[m] <= W[m]}
<1>0. K \in Nat
  BY DEF Radices
<1>1. 0 \in D
  BY DEF Totals
<1>2. ASSUME NEW j \in 0 .. K - 1, j \in D PROVE j + 1 \in D
  <2> DEFINE k == j + 1
             b == P[j]
  <2>1. k \in 1 .. K /\ k - 1 = j /\ V[j] <= W[j] /\ k \in Nat
    <3>1. k \in 1 .. K /\ k - 1 = j /\ k \in Nat /\ j <= K
      BY <1>0
    <3>2. V[j] <= W[j]
      BY <1>2, <3>1
    <3> QED
      BY <3>1, <3>2
  <2>2. d[k] \in Nat /\ W[j] \in Nat /\ W[k] = W[j] + d[k] * b /\ b \in Nat /\ d[k] * b \in Nat
    BY <2>1, NumeralStep
  <2>3. e[k] \in Nat /\ V[j] \in Nat /\ V[k] = V[j] + e[k] * b /\ e[k] * b \in Nat
    <3>1. e[k] \in Nat /\ V[j] \in Nat /\ V[k] = V[j] + e[k] * b
      BY <2>1, NumeralStep
    <3> QED
      BY <2>2, <3>1
  <2>4. e[k] <= d[k]
    BY <2>1
  <2> HIDE DEF k, b
  <2>5. e[k] * b <= d[k] * b
    BY <2>2, <2>3, <2>4, ProductMonotone
  <2>6. V[k] <= W[k]
    BY <2>1, <2>2, <2>3, <2>5
  <2> QED
    BY <2>1, <2>6 DEF k
<1> HIDE DEF D
<1>3. \A j \in 0 .. K : j \in D
  BY <1>0, <1>1, <1>2, Upwards
<1>4. K \in D
  BY <1>0, <1>3
<1> QED
  BY <1>0, <1>4 DEF D

\* What lies between two numbers that have their digits above the first L in
\* common has those digits as well.
LEMMA NumeralsBetween ==
  ASSUME NEW z, NEW P, NEW K, Radices(z, P, K), NEW L \in Nat,
         NEW d, Digits(d, z, K), NEW W, Totals(W, Places(d, P, K), K),
         NEW e, Digits(e, z, K), NEW V, Totals(V, Places(e, P, K), K),
         NEW f, Digits(f, z, K), NEW U, Totals(U, Places(f, P, K), K),
         \A k \in 1 .. K : k > L => e[k] = f[k],
         V[K] <= W[K], W[K] <= U[K]
  PROVE  \A k \in 1 .. K : k > L => d[k] = e[k]
<1> DEFINE Alike(m) == \A k \in 1 .. m : k > L => d[k] = e[k]
           D == {m \in Nat : m <= K => (V[m] <= W[m] /\ W[m] <= U[m] => Alike(m))}
<1>0. K \in Nat
  BY DEF Radices
<1>1. 0 \in D
  OBVIOUS
<1>2. ASSUME NEW j \in 0 .. K - 1, j \in D PROVE j + 1 \in D
  <2> DEFINE k == j + 1
             b == P[j]
  <2>1. k \in 1 .. K /\ k - 1 = j /\ k \in Nat /\ (V[j] <= W[j] /\ W[j] <= U[j] => Alike(j))
    BY <1>0, <1>2
  <2>2. d[k] \in Nat /\ W[j] \in Nat /\ W[k] = W[j] + d[k] * b /\ d[k] * b \in Nat
    BY <2>1, NumeralStep
  <2>3. e[k] \in Nat /\ V[j] \in Nat /\ V[k] = V[j] + e[k] * b /\ e[k] * b \in Nat
    BY <2>1, NumeralStep
  <2>4. f[k] \in Nat /\ U[j] \in Nat /\ U[k] = U[j] + f[k] * b
    BY <2>1, NumeralStep
  <2>5. b \in Nat \ {0} /\ W[j] < b /\ U[j] < b
    <3>1. j \in 0 .. K
      BY <1>0, <1>2
    <3> QED
      BY <3>1, NumeralBelow, PlaceValuesPositive
  <2>6. k > L => e[k] = f[k]
    BY <2>1
  <2>7. \A i \in 1 .. k : i = k \/ i \in 1 .. j
    BY <2>1
  <2> HIDE DEF k, b, Alike
  <2>8. ASSUME V[k] <= W[k], W[k] <= U[k] PROVE Alike(k)
    <3>1. CASE k > L
      <4> DEFINE x == W[k] - e[k] * b
      <4>1. x \in Nat /\ V[j] <= x /\ x <= U[j] /\ W[k] = x + e[k] * b
        BY <2>2, <2>3, <2>4, <2>6, <2>8, <3>1
      <4>2. x \in 0 .. b - 1 /\ W[j] \in 0 .. b - 1
        BY <2>2, <2>4, <2>5, <4>1
      <4> HIDE DEF x
      <4>3. W[j] + d[k] * b = x + e[k] * b
        BY <2>2, <4>1
      <4>4. W[j] = x /\ d[k] = e[k]
        BY <2>2, <2>3, <2>5, <4>2, <4>3, PlaceValueUnique
      <4>5. Alike(j)
        BY <2>1, <4>1, <4>4
      <4> QED
        BY <2>7, <4>4, <4>5 DEF Alike
    <3>2. CASE ~ (k > L)
      <4>1. \A i \in 1 .. k : ~ (i > L)
        BY <2>1, <3>2
      <4> QED
        BY <4>1 DEF Alike
    <3> QED
      BY <3>1, <3>2
  <2> QED
    BY <2>1, <2>8 DEF k
<1> HIDE DEF D
<1>3. \A j \in 0 .. K : j \in D
  BY <1>0, <1>1, <1>2, Upwards
<1>4. K \in D
  BY <1>0, <1>3
<1> QED
  BY <1>0, <1>4 DEF D

LEMMA CornersAreCores ==
  ASSUME NestOK, NEW c \in Cores, NEW K, NEW x, \A n \in K : x[n] \in 0 .. nest[n].size - 1
  PROVE  [n \in Loops |-> IF n \in K THEN x[n] ELSE c[n]] \in Cores
<1> DEFINE d == [n \in Loops |-> IF n \in K THEN x[n] ELSE c[n]]
<1>1. \A n \in Loops : c[n] \in 0 .. nest[n].size - 1 /\ nest[n].size \in Nat
  BY CoresOfNest DEF NestOK
<1>2. ASSUME NEW n \in Loops PROVE d[n] \in 0 .. nest[n].size - 1 /\ d[n] \in Nat
  <2>1. d[n] \in 0 .. nest[n].size - 1
    BY <1>1
  <2> QED
    BY <1>1, <2>1
<1>3. d \in [Loops -> Nat]
  BY <1>2
<1> HIDE DEF d
<1>4. d \in Cores
  BY <1>2, <1>3, CoresOfNest
<1> QED
  BY <1>4 DEF d

\* Loops of axis a are in K as long as their level is below L.
Inner(K, a, L) == \A n \in Loops : nest[n].axis = a => (n \in K <=> nest[n].level < L)

\* The corners of the cores that agree with c outside K, and those cores on axis a.
Corners(lo, hi, c, K) ==
  \A n \in Loops : IF n \in K THEN lo[n] = 0 /\ hi[n] = nest[n].size - 1
                   ELSE lo[n] = c[n] /\ hi[n] = c[n]
Agrees(d, c, K, a) == \A n \in Loops \ K : nest[n].axis = a => d[n] = c[n]

\* When the overridden loops are the inner levels of each axis, the cores between
\* the corners on an axis are those that agree on its other levels.
LEMMA BetweenOnAxis ==
  ASSUME NestOK, NEW c \in Cores, NEW a \in Axes, NEW K, NEW L \in Nat, Inner(K, a, L),
         NEW lo \in Cores, NEW hi \in Cores, NEW d \in Cores, Corners(lo, hi, c, K)
  PROVE  LinearIndex(d, a) \in LinearIndex(lo, a) .. LinearIndex(hi, a) <=> Agrees(d, c, K, a)
<1>1. PICK P, J : AxisLevels(a, P, J)
  BY DEF NestOK
<1> DEFINE z == split[a]
           x == DigitsOf(d, a)
           y == DigitsOf(lo, a)
           u == DigitsOf(hi, a)
<1>2. Radices(z, P, J) /\ J \in Nat /\ J \in 0 .. J
  BY <1>1, TopPlace DEF Radices
<1>3. PICK W : Totals(W, Places(x, P, J), J) /\ LinearIndex(d, a) = W[J]
  BY <1>1, PositionWritten
<1>4. PICK V : Totals(V, Places(y, P, J), J) /\ LinearIndex(lo, a) = V[J]
  BY <1>1, PositionWritten
<1>5. PICK U : Totals(U, Places(u, P, J), J) /\ LinearIndex(hi, a) = U[J]
  BY <1>1, PositionWritten
<1>6. Digits(x, z, J) /\ Digits(y, z, J) /\ Digits(u, z, J)
  BY <1>1, DigitsOfCore
<1>7. ASSUME NEW n \in Loops, nest[n].axis = a
      PROVE  LET k == nest[n].level + 1
             IN k \in 1 .. J /\ x[k] = d[n] /\ y[k] = lo[n] /\ u[k] = hi[n] /\ (k > L <=> n \notin K)
  <2>1. nest[n].level + 1 \in 1 .. J /\ nest[n].level \in Nat
    BY <1>1, <1>7 DEF AxisLevels, NestOK
  <2>2. /\ x[nest[n].level + 1] = d[n] /\ y[nest[n].level + 1] = lo[n]
        /\ u[nest[n].level + 1] = hi[n]
    BY <1>1, <1>7, DigitsOfCore
  <2> HIDE DEF x, y, u
  <2>3. nest[n].level + 1 > L <=> n \notin K
    BY <1>7, <2>1 DEF Inner
  <2> QED
    BY <2>1, <2>2, <2>3
<1>8. ASSUME NEW k \in 1 .. J
      PROVE  \E n \in Loops : nest[n].axis = a /\ nest[n].level + 1 = k
  <2>1. PICK n \in Loops : nest[n].axis = a /\ nest[n].level = k - 1
    BY <1>1 DEF AxisLevels
  <2> QED
    BY <2>1
<1> HIDE DEF x, y, u, z
<1>9. V[J] \in Nat /\ W[J] \in Nat /\ U[J] \in Nat
  BY <1>2, <1>3, <1>4, <1>5 DEF Totals
<1>10. ASSUME V[J] <= W[J], W[J] <= U[J], NEW n \in Loops \ K, nest[n].axis = a PROVE d[n] = c[n]
  <2>1. \A k \in 1 .. J : k > L => y[k] = u[k]
    <3> SUFFICES ASSUME NEW k \in 1 .. J, k > L PROVE y[k] = u[k]
      OBVIOUS
    <3>1. PICK m \in Loops : nest[m].axis = a /\ nest[m].level + 1 = k
      BY <1>8
    <3>2. m \notin K /\ y[k] = lo[m] /\ u[k] = hi[m]
      BY <1>7, <3>1
    <3> QED
      BY <3>2 DEF Corners
  <2>2. \A k \in 1 .. J : k > L => x[k] = y[k]
    BY <1>2, <1>3, <1>4, <1>5, <1>6, <1>10, <2>1, NumeralsBetween
  <2>3. x[nest[n].level + 1] = y[nest[n].level + 1]
    BY <1>7, <1>10, <2>2
  <2>4. d[n] = lo[n]
    BY <1>7, <1>10, <2>3
  <2> QED
    BY <2>4 DEF Corners
<1>11. ASSUME Agrees(d, c, K, a)
       PROVE  V[J] <= W[J] /\ W[J] <= U[J]
  <2>1. ASSUME NEW k \in 1 .. J PROVE y[k] <= x[k] /\ x[k] <= u[k]
    <3>1. PICK n \in Loops : nest[n].axis = a /\ nest[n].level + 1 = k
      BY <1>8
    <3>2. x[k] = d[n] /\ y[k] = lo[n] /\ u[k] = hi[n]
      BY <1>7, <3>1
    <3>3. d[n] \in 0 .. nest[n].size - 1 /\ nest[n].size \in Nat
      BY CoresOfNest DEF NestOK
    <3>4. n \notin K => lo[n] = d[n] /\ hi[n] = d[n]
      BY <1>11, <3>1 DEF Agrees, Corners
    <3>5. n \in K => lo[n] = 0 /\ hi[n] = nest[n].size - 1
      BY DEF Corners
    <3> QED
      BY <3>2, <3>3, <3>4, <3>5
  <2>2. V[J] <= W[J]
    BY <1>2, <1>3, <1>4, <1>6, <2>1, NumeralsOrdered
  <2>3. W[J] <= U[J]
    BY <1>2, <1>3, <1>5, <1>6, <2>1, NumeralsOrdered
  <2> QED
    BY <2>2, <2>3
<1>12. LinearIndex(d, a) \in LinearIndex(lo, a) .. LinearIndex(hi, a) <=> V[J] <= W[J] /\ W[J] <= U[J]
  BY <1>3, <1>4, <1>5, <1>9
<1> QED
  BY <1>10, <1>11, <1>12 DEF Agrees

(* A region that overrides the inner levels of each axis is the cores that   *)
(* agree on all other loops.                                                 *)
LEMMA RegionIsCores ==
  ASSUME NestOK, NEW c \in Cores, NEW K \in SUBSET Loops, NEW L \in [Axes -> Nat],
         \A n \in Loops : n \in K <=> nest[n].level < L[nest[n].axis]
  PROVE  Region(c, K) = {d \in Cores : \A n \in Loops \ K : d[n] = c[n]}
<1> DEFINE lo == [n \in Loops |-> IF n \in K THEN 0 ELSE c[n]]
           hi == [n \in Loops |-> IF n \in K THEN nest[n].size - 1 ELSE c[n]]
<1>1. \A n \in Loops : nest[n].size \in Nat \ {0} /\ nest[n].axis \in Axes
  BY DEF NestOK
<1>2. lo \in Cores
  <2> DEFINE x == [n \in Loops |-> 0]
  <2>1. \A n \in K : x[n] \in 0 .. nest[n].size - 1
    BY <1>1
  <2>2. lo = [n \in Loops |-> IF n \in K THEN x[n] ELSE c[n]]
    OBVIOUS
  <2> HIDE DEF x, lo
  <2> QED
    BY <2>1, <2>2, CornersAreCores
<1>3. hi \in Cores
  <2> DEFINE x == [n \in Loops |-> nest[n].size - 1]
  <2>1. \A n \in K : x[n] \in 0 .. nest[n].size - 1
    BY <1>1
  <2>2. hi = [n \in Loops |-> IF n \in K THEN x[n] ELSE c[n]]
    OBVIOUS
  <2> HIDE DEF x, hi
  <2> QED
    BY <2>1, <2>2, CornersAreCores
<1>4. Corners(lo, hi, c, K)
  BY DEF Corners
<1>5. \A a \in Axes : UpperLeft(c, K)[a] = LinearIndex(lo, a) /\ LowerRight(c, K)[a] = LinearIndex(hi, a)
  BY DEF UpperLeft, LowerRight
<1> HIDE DEF lo, hi
<1>6. ASSUME NEW d \in Cores, NEW a \in Axes
      PROVE  LinearIndex(d, a) \in LinearIndex(lo, a) .. LinearIndex(hi, a) <=> Agrees(d, c, K, a)
  <2>1. L[a] \in Nat /\ Inner(K, a, L[a])
    BY DEF Inner
  <2> QED
    BY <1>2, <1>3, <1>4, <2>1, BetweenOnAxis
<1>7. ASSUME NEW d \in Cores
      PROVE  (\A a \in Axes : LinearIndex(d, a) \in UpperLeft(c, K)[a] .. LowerRight(c, K)[a])
               <=> \A n \in Loops \ K : d[n] = c[n]
  <2>1. (\A n \in Loops \ K : d[n] = c[n]) <=> \A a \in Axes : Agrees(d, c, K, a)
    BY <1>1 DEF Agrees
  <2> QED
    BY <1>5, <1>6, <2>1
<1> QED
  BY <1>7 DEF Region

-----------------------------------------------------------------------------
(* The gather across the reduction iterator. *)

\* A product in which only the positions in S count.
Kept(f, n, S) == [m \in 1 .. n |-> IF m \in S THEN f[m] ELSE 1]

LEMMA OneFactorMore ==
  ASSUME NEW n \in Nat, NEW f, \A m \in 1 .. n : f[m] \in Nat, NEW S, NEW i \in 1 .. n, i \notin S
  PROVE  Product(Kept(f, n, S \cup {i})) = Product(Kept(f, n, S)) * f[i]
<1> DEFINE F == Kept(f, n, S \cup {i})
           G == Kept(f, n, S)
<1>1. F \in [1 .. n -> Nat] /\ G \in [1 .. n -> Nat]
  BY DEF Kept
<1>2. Without(G, F, i, n, 1) /\ F[i] = f[i]
  BY DEF Without, Kept
<1> HIDE DEF F, G
<1>3. PICK r : Products(r, F, n) /\ Product(F) = r[n]
  BY <1>1, ProductIsLast
<1>4. PICK q : Products(q, G, n) /\ Product(G) = q[n]
  BY <1>1, ProductIsLast
<1>5. r[n] = q[n] * F[i]
  BY <1>2, <1>3, <1>4, ProductChanged
<1> QED
  BY <1>2, <1>3, <1>4, <1>5 DEF F, G

LEMMA NoFactors ==
  ASSUME NEW n \in Nat, NEW f
  PROVE  Product(Kept(f, n, {})) = 1
<1> DEFINE F == Kept(f, n, {})
<1>1. F \in [1 .. n -> Nat] /\ \A m \in 1 .. n : F[m] = 1
  BY DEF Kept
<1> HIDE DEF F
<1>2. PICK r : Products(r, F, n) /\ Product(F) = r[n]
  BY <1>1, ProductIsLast
<1>3. r[n] = 1
  BY <1>1, <1>2, ProductOfOnes
<1> QED
  BY <1>2, <1>3 DEF F

\* The area a gather announces is the cores of the reduction.
LEMMA AreaIsCores ==
  ASSUME nest \in Seq(Claim), OneOrTwo(LoopsIn(nest, kernel.red))
  PROVE  GatherArea = CoresIn(nest, kernel.red) /\ GatherLoops = LoopsIn(nest, kernel.red)
<1> DEFINE N == Len(nest)
           S == LoopsIn(nest, kernel.red)
           f == [n \in 1 .. N |-> nest[n].size]
<1>1. N \in Nat /\ Loops = 1 .. N
  BY LenProperties DEF Loops
<1>2. GatherLoops = S /\ S \subseteq 1 .. N
  BY DEF GatherLoops, LoopsIn, Loops
<1>3. \A n \in S : nest[n].size \in Nat \ {0}
  BY ClaimAt
<1>4. \A n \in 1 .. N : f[n] \in Nat
  <2> SUFFICES ASSUME NEW n \in 1 .. N PROVE nest[n].size \in Nat
    OBVIOUS
  <2>1. n \in LoopsIn(nest, nest[n].iter)
    BY DEF LoopsIn
  <2> QED
    BY <2>1, ClaimAt
<1>5. GatherArea = Product(Kept(f, N, S))
  <2>1. [n \in Loops |-> IF n \in GatherLoops THEN nest[n].size ELSE 1] = Kept(f, N, S)
    BY <1>1, <1>2 DEF Kept
  <2> QED
    BY <2>1 DEF GatherArea
<1>6. \A n \in 1 .. N : f[n] = nest[n].size
  OBVIOUS
<1> HIDE DEF N, S, f
<1>7. Product(Kept(f, N, {})) = 1
  BY <1>1, NoFactors
<1>8. ASSUME NEW a \in 1 .. N PROVE Product(Kept(f, N, {a})) = f[a]
  <2>1. Product(Kept(f, N, {} \cup {a})) = Product(Kept(f, N, {})) * f[a]
    BY <1>1, <1>4, OneFactorMore
  <2>2. {} \cup {a} = {a} /\ f[a] \in Nat
    BY <1>4
  <2> QED
    BY <1>7, <2>1, <2>2
<1>9. CASE \E a \in Nat \ {0} : S = {a}
  <2>1. PICK a \in Nat \ {0} : S = {a}
    BY <1>9
  <2>2. CoresIn(nest, kernel.red) = nest[a].size
    BY <2>1, CoresInFew DEF S
  <2>3. a \in 1 .. N
    BY <1>2, <2>1
  <2> QED
    BY <1>2, <1>5, <1>6, <1>8, <2>1, <2>2, <2>3 DEF S
<1>10. CASE \E a, b \in Nat \ {0} : a < b /\ S = {a, b}
  <2>1. PICK a \in Nat \ {0}, b \in Nat \ {0} : a < b /\ S = {a, b}
    BY <1>10
  <2>2. CoresIn(nest, kernel.red) = nest[a].size * nest[b].size
    BY <2>1, CoresInFew DEF S
  <2>3. a \in 1 .. N /\ b \in 1 .. N /\ b \notin {a} /\ {a} \cup {b} = {a, b}
    BY <1>2, <2>1
  <2>4. Product(Kept(f, N, {a} \cup {b})) = Product(Kept(f, N, {a})) * f[b]
    <3> DEFINE T == {a}
    <3>1. b \notin T
      BY <2>3
    <3> HIDE DEF T
    <3>2. Product(Kept(f, N, T \cup {b})) = Product(Kept(f, N, T)) * f[b]
      BY <1>1, <1>4, <2>3, <3>1, OneFactorMore
    <3> QED
      BY <3>2 DEF T
  <2> QED
    BY <1>2, <1>5, <1>6, <1>8, <2>1, <2>2, <2>3, <2>4 DEF S
<1> QED
  BY <1>9, <1>10 DEF OneOrTwo, S

\* Cores that agree on an iterator's loops have one number for it.
LEMMA SameNumber ==
  ASSUME NestOK, NEW i, Numbered(i), NEW c \in Cores, NEW d \in Cores,
         \A n \in LoopsIn(nest, i) : c[n] = d[n]
  PROVE  Number(c, i) = Number(d, i)
<1> DEFINE L == LoopsIn(nest, i)
           m == Number(c, i)
<1>2. m \in 0 .. CoresIn(nest, i) - 1
  BY DEF Numbered
<1>3. PICK x \in [L -> Nat] : /\ \A n \in L : x[n] < nest[n].size
                              /\ \A e \in Cores : (\A n \in L : e[n] = x[n]) => Number(e, i) = m
  BY <1>2 DEF Numbered
<1> DEFINE e == [n \in Loops |-> IF n \in L THEN x[n] ELSE c[n]]
<1>4. L \subseteq Loops
  BY DEF LoopsIn, Loops
<1>5. e \in Cores
  <2>1. \A n \in L : x[n] \in 0 .. nest[n].size - 1
    BY <1>3, <1>4 DEF NestOK
  <2> QED
    BY <2>1, CornersAreCores
<1>6. \A n \in L : e[n] = x[n]
  BY <1>4
<1> HIDE DEF e, L
<1>7. Number(e, i) = m
  BY <1>3, <1>5, <1>6
<1>8. \A n \in L : c[n] = e[n]
  BY <1>5, <1>7 DEF Numbered, L
<1>9. \A n \in L : d[n] = x[n]
  BY <1>6, <1>8 DEF L
<1> QED
  BY <1>3, <1>9

\* The inductive invariant: the reduction is first in the order, and in the end
\* its extent is its cores.
ReductionFirst == (stage \in HasOrder /\ kernel.red # 0) => order[1] = kernel.red
GatherInv ==
  /\ MapInv /\ PlaceInv /\ ReductionFirst
  /\ (stage = "ready" /\ kernel.red # 0) => kernel.ext[kernel.red] = CoresIn(nest, kernel.red)

\* The loops of the reduction are the innermost level of both axes.
LEMMA GatherLoopsInside ==
  ASSUME ChoicesOK, LoopsMade, ReductionFirst, Built, kernel.red # 0
  PROVE  \A n \in Loops : n \in GatherLoops <=> nest[n].level < 1
<1> DEFINE cl == Claims(split, order)
<1>1. stage \in HasSplit /\ stage \in HasOrder /\ stage \in {"nest"} \cup HasWaves
  BY DEF Built, HasSplit, HasOrder, HasWaves
<1>2. Size \in Nat \ {0} /\ Iters = 1 .. Size /\ SplitOK(split, Size) /\ OrderOK(order)
  BY <1>1, KernelFacts DEF ChoicesOK
<1>3. \A n \in 1 .. Len(cl) : /\ DimOf(split, Dim(cl, n))
                              /\ cl[n].level = 0 <=> cl[n].iter = order[1]
  BY <1>2, ClaimsOnce
<1>4. Loops = 1 .. Len(cl) /\ \A n \in Loops : nest[n] = cl[n]
  BY <1>1 DEF LoopsMade, Loops
<1>5. order[1] = kernel.red
  BY <1>1 DEF ReductionFirst
<1> HIDE DEF cl
<1>6. ASSUME NEW n \in Loops
      PROVE  nest[n].level \in Nat /\ (nest[n].level = 0 <=> nest[n].iter = kernel.red)
  <2>1. DimOf(split, <<nest[n].level, nest[n].axis>>)
    BY <1>3, <1>4 DEF Dim
  <2> QED
    BY <1>3, <1>4, <1>5, <2>1 DEF DimOf
<1> QED
  BY <1>6 DEF GatherLoops

\* A gather's region at every core.
LEMMA GatherRegion ==
  ASSUME GatherInv, stage = "ready", kernel.red # 0, NEW c \in Cores
  PROVE  Region(c, GatherLoops) = {d \in Cores : \A n \in Loops \ GatherLoops : d[n] = c[n]}
<1> DEFINE L == [a \in Axes |-> 1]
<1>1. Built
  BY DEF Built
<1>2. NestOK
  BY <1>1, LoopsAreLevels DEF GatherInv, PlaceInv
<1>3. \A n \in Loops : n \in GatherLoops <=> nest[n].level < L[nest[n].axis]
  <2>1. \A n \in Loops : nest[n].axis \in Axes
    BY <1>2 DEF NestOK
  <2>2. \A a \in Axes : L[a] = 1
    OBVIOUS
  <2> QED
    <3>1. ChoicesOK /\ LoopsMade /\ ReductionFirst
      BY DEF GatherInv, MapInv
    <3> HIDE DEF L
    <3> QED
      BY <1>1, <2>1, <2>2, <3>1, GatherLoopsInside
<1>4. L \in [Axes -> Nat] /\ GatherLoops \in SUBSET Loops
  BY DEF GatherLoops
<1> HIDE DEF L
<1> QED
  BY <1>2, <1>3, <1>4, RegionIsCores

\* The reduction runs in one wave, each core the iteration of its number.
LEMMA ReductionIsNumber ==
  ASSUME GatherInv, stage = "ready", kernel.red # 0, NEW c \in Cores, NEW w \in Waves
  PROVE  IndexOf(c, w[kernel.red], kernel.red) = Number(c, kernel.red)
<1> DEFINE i == kernel.red
           N == kernel.ext[i]
           m == Number(c, i)
<1>1. i \in Iters
  BY KernelFacts DEF GatherInv, MapInv, ChoicesOK
<1>2. /\ N \in Nat \ {0} /\ N = CoresIn(nest, i) /\ blocked \in BOOLEAN
      /\ ub[i] = CeilDiv(N, N) /\ waves[i] = CeilDiv(N, N)
  BY <1>1, ReadyFacts DEF GatherInv
<1>3. CeilDiv(N, N) = 1
  <2> HIDE DEF N
  <2>1. 1 * N = N /\ (1 - 1) * N = 0
    BY <1>2
  <2> QED
    BY <1>2, <2>1, CeilDivUnique
<1>4. w[i] \in 0 .. waves[i] - 1
  BY <1>1, CoresAndWaves DEF GatherInv
<1>5. w[i] = 0
  BY <1>2, <1>3, <1>4
<1>6. IndexOf(c, w[i], i) = Turn(m, w[i], i) /\ m \in 0 .. N - 1
  BY <1>1, <1>2, <1>4, IndexIsTurn DEF GatherInv
<1>7. Turn(m, 0, i) = m
  <2>1. BlockedIndex(m, 0, 1) = m /\ CyclicIndex(m, 0, N) = m
    <3> HIDE DEF m, N
    <3> QED
      BY <1>2, <1>6 DEF BlockedIndex, CyclicIndex
  <2>2. Clamped(m, N) = m
    <3> HIDE DEF m, N
    <3> QED
      BY <1>2, <1>6 DEF Clamped
  <2> QED
    BY <1>2, <1>3, <2>1, <2>2 DEF Turn
<1> QED
  BY <1>5, <1>6, <1>7

\* A region has one core for each number of the reduction.
LEMMA RegionByNumber ==
  ASSUME GatherInv, stage = "ready", kernel.red # 0, NEW c \in Cores
  PROVE  LET R == Region(c, GatherLoops)
             N == kernel.ext[kernel.red]
         IN  /\ \A d \in R : d \in Cores /\ Number(d, kernel.red) \in 0 .. N - 1
             /\ \A d, e \in R : Number(d, kernel.red) = Number(e, kernel.red) => d = e
             /\ \A m \in 0 .. N - 1 : \E d \in R : Number(d, kernel.red) = m
<1> DEFINE i == kernel.red
           L == GatherLoops
           R == Region(c, L)
<1>1. i \in Iters
  BY KernelFacts DEF GatherInv, MapInv, ChoicesOK
<1>2. NestOK
  BY LoopsAreLevels DEF GatherInv, PlaceInv, Built
<1>3. Numbered(i) /\ L = LoopsIn(nest, i) /\ kernel.ext[i] = CoresIn(nest, i)
  BY <1>1, ReadyFacts, AreaIsCores DEF GatherInv
<1>4. R = {d \in Cores : \A n \in Loops \ L : d[n] = c[n]}
  BY GatherRegion
<1>5. L \subseteq Loops
  BY DEF GatherLoops
<1> HIDE DEF R, L
<1>6. ASSUME NEW d \in R PROVE d \in Cores /\ Number(d, i) \in 0 .. CoresIn(nest, i) - 1
  BY <1>3, <1>4 DEF Numbered
<1>7. ASSUME NEW d \in R, NEW e \in R, Number(d, i) = Number(e, i) PROVE d = e
  <2>1. d \in Cores /\ e \in Cores /\ \A n \in Loops \ L : d[n] = e[n]
    BY <1>4
  <2>2. \A n \in L : d[n] = e[n]
    BY <1>3, <1>7, <2>1 DEF Numbered
  <2>3. \A n \in Loops : d[n] = e[n]
    BY <2>1, <2>2
  <2>4. d = [n \in Loops |-> d[n]] /\ e = [n \in Loops |-> e[n]]
    BY <2>1 DEF Cores
  <2> QED
    BY <2>3, <2>4
<1>8. ASSUME NEW m \in 0 .. CoresIn(nest, i) - 1 PROVE \E d \in R : Number(d, i) = m
  <2>1. PICK x \in [L -> Nat] : /\ \A n \in L : x[n] < nest[n].size
                                /\ \A d \in Cores : (\A n \in L : d[n] = x[n]) => Number(d, i) = m
    BY <1>3 DEF Numbered
  <2> DEFINE d == [n \in Loops |-> IF n \in L THEN x[n] ELSE c[n]]
  <2>2. \A n \in L : x[n] \in 0 .. nest[n].size - 1
    BY <1>2, <1>5, <2>1 DEF NestOK
  <2>3. d \in Cores
    BY <1>2, <2>2, CornersAreCores
  <2>4. (\A n \in L : d[n] = x[n]) /\ (\A n \in Loops \ L : d[n] = c[n])
    BY <1>5
  <2> HIDE DEF d
  <2> QED
    BY <1>4, <2>1, <2>3, <2>4
<1> QED
  BY <1>3, <1>6, <1>7, <1>8 DEF R, L

\* The region of a gather is the cores that differ in the reduction only.
LEMMA GatherInvWhole == GatherInv => GatherIsWhole
<1> SUFFICES ASSUME GatherInv, stage = "ready", kernel.red # 0, NEW c \in Cores, NEW w \in Waves
             PROVE  LET R == Region(c, GatherLoops)
                    IN /\ \A d \in R, i \in Iters \ {kernel.red} :
                            IndexOf(d, w[i], i) = IndexOf(c, w[i], i)
                       /\ {IndexOf(d, w[kernel.red], kernel.red) : d \in R} =
                            0 .. kernel.ext[kernel.red] - 1
                       /\ Cardinality(R) = kernel.ext[kernel.red] /\ Cardinality(R) = GatherArea
  BY DEF GatherIsWhole
<1> DEFINE r == kernel.red
           R == Region(c, GatherLoops)
           N == kernel.ext[r]
<1>1. r \in Iters /\ NestOK /\ MapInv
  BY KernelFacts, LoopsAreLevels DEF GatherInv, MapInv, ChoicesOK, PlaceInv, Built
<1>2. N \in Nat \ {0} /\ N = CoresIn(nest, r) /\ GatherArea = N /\ GatherLoops = LoopsIn(nest, r)
  BY <1>1, ReadyFacts, AreaIsCores DEF GatherInv
<1>3. /\ \A d \in R : d \in Cores /\ Number(d, r) \in 0 .. N - 1
      /\ \A d, e \in R : Number(d, r) = Number(e, r) => d = e
      /\ \A m \in 0 .. N - 1 : \E d \in R : Number(d, r) = m
  BY RegionByNumber
<1>4. R = {d \in Cores : \A n \in Loops \ GatherLoops : d[n] = c[n]}
  BY GatherRegion
<1> HIDE DEF R, N
<1>5. ASSUME NEW d \in R, NEW i \in Iters \ {r} PROVE IndexOf(d, w[i], i) = IndexOf(c, w[i], i)
  <2>1. d \in Cores /\ \A n \in LoopsIn(nest, i) : d[n] = c[n]
    <3>1. \A n \in LoopsIn(nest, i) : n \in Loops /\ nest[n].iter = i
      BY DEF LoopsIn, Loops
    <3>2. \A n \in LoopsIn(nest, i) : n \notin GatherLoops
      BY <3>1 DEF GatherLoops
    <3> QED
      BY <1>4, <3>1, <3>2
  <2>2. Number(d, i) = Number(c, i)
    BY <1>1, <2>1, ReadyFacts, SameNumber
  <2>3. w[i] \in 0 .. waves[i] - 1
    BY <1>1, CoresAndWaves
  <2>4. IndexOf(d, w[i], i) = Turn(Number(d, i), w[i], i) /\ IndexOf(c, w[i], i) = Turn(Number(c, i), w[i], i)
    BY <1>1, <2>1, <2>3, IndexIsTurn
  <2> QED
    BY <2>2, <2>4
<1>6. \A d \in R : IndexOf(d, w[r], r) = Number(d, r)
  BY <1>3, ReductionIsNumber
<1>7. {IndexOf(d, w[r], r) : d \in R} = 0 .. N - 1
  <2> DEFINE X == {IndexOf(d, w[r], r) : d \in R}
  <2>1. \A x \in X : x \in 0 .. N - 1
    BY <1>3, <1>6
  <2>2. \A m \in 0 .. N - 1 : m \in X
    BY <1>3, <1>6
  <2> QED
    BY <2>1, <2>2
<1>8. Cardinality(R) = N
  <2> DEFINE T == 0 .. N - 1
             core == [m \in T |-> CHOOSE d \in R : Number(d, r) = m]
  <2>1. IsFiniteSet(T) /\ Cardinality(T) = N
    <3>1. 0 \in Int /\ N - 1 \in Int /\ ~ (0 > N - 1) /\ (N - 1) - 0 + 1 = N
      BY <1>2
    <3> QED
      BY <3>1, FS_Interval
  <2> HIDE DEF T
  <2>2. \A m \in T : core[m] \in R /\ Number(core[m], r) = m
    BY <1>3 DEF T
  <2>3. core \in [T -> R]
    BY <2>2
  <2>4. \A m, n \in T : core[m] = core[n] => m = n
    BY <2>2
  <2>5. \A d \in R : Number(d, r) \in T /\ core[Number(d, r)] = d
    BY <1>3, <2>2 DEF T
  <2> HIDE DEF core
  <2>6. core \in Bijection(T, R)
    BY <2>3, <2>4, <2>5 DEF Bijection, Injection, Surjection, IsInjective
  <2>7. ExistsBijection(T, R)
    BY <2>6 DEF ExistsBijection
  <2> QED
    BY <2>1, <2>7, FS_Bijection
<1> QED
  BY <1>2, <1>5, <1>7, <1>8 DEF R, N

LEMMA ReductionInit == Init => ReductionFirst
BY DEF Init, ReductionFirst, HasOrder, HasSplit

\* The reduction stays where Prioritise puts it.
LEMMA ReductionStep == ReductionFirst /\ [Next]_vars => ReductionFirst'
<1> SUFFICES ASSUME ReductionFirst, [Next]_vars PROVE ReductionFirst'
  OBVIOUS
<1>1. CASE Prioritise
  <2>1. order' \in PriorityOrderings /\ kernel' = kernel
    BY <1>1 DEF Prioritise
  <2>2. kernel.red # 0 => order'[1] = kernel.red
    BY <2>1 DEF PriorityOrderings
  <2> QED
    BY <2>1, <2>2 DEF ReductionFirst
<1>2. CASE Occupy \/ Skip \/ Split
  <2>1. stage' \notin HasOrder /\ HasOrder' = HasOrder
    BY <1>2 DEF Occupy, Skip, Split, HasOrder, HasSplit
  <2> QED
    BY <2>1 DEF ReductionFirst
<1>3. CASE Tile \/ Drop \/ Reconstruct \/ ConvertParallelToNested \/ Materialize \/ Reject
  <2>1. stage \in HasOrder /\ UNCHANGED <<kernel, order>>
    BY <1>3 DEF Tile, Drop, Reconstruct, ConvertParallelToNested, Materialize, Reject, HasOrder, HasSplit
  <2> QED
    BY <2>1 DEF ReductionFirst
<1>4. CASE UNCHANGED vars
  <2>1. UNCHANGED <<kernel, stage, order>> /\ HasOrder' = HasOrder
    BY <1>4 DEF vars, HasOrder, HasSplit
  <2> QED
    BY <2>1 DEF ReductionFirst
<1> QED
  BY <1>1, <1>2, <1>3, <1>4 DEF Next, Mapping, Mapped

LEMMA GatherInit == Init => GatherInv
<1> SUFFICES ASSUME Init PROVE GatherInv
  OBVIOUS
<1>1. stage # "ready"
  BY DEF Init
<1> QED
  BY <1>1, MapInit, PlaceInit, ReductionInit DEF GatherInv

LEMMA GatherStep == HardConstraints /\ GatherInv /\ [Next]_vars => GatherInv'
<1> SUFFICES ASSUME HardConstraints, GatherInv, [Next]_vars PROVE GatherInv'
  OBVIOUS
<1>1. MapInv' /\ PlaceInv' /\ ReductionFirst'
  BY MapStep, PlaceStep, ReductionStep DEF GatherInv
<1>2. CASE Materialize
  <2>1. /\ stage = "mapped" /\ stage' = "ready" /\ GatherConstraint
        /\ UNCHANGED <<kernel, nest>>
    BY <1>2 DEF Materialize
  <2>2. kernel.red # 0 => kernel.ext[kernel.red] = CoresIn(nest, kernel.red)
    BY <2>1, CoresOnIn DEF GatherConstraint
  <2>3. CoresIn(nest, kernel.red)' = CoresIn(nest, kernel.red)
    BY <2>1
  <2> QED
    BY <1>1, <2>1, <2>2, <2>3 DEF GatherInv
<1>3. CASE \/ Occupy \/ Skip \/ Split \/ Prioritise \/ Tile \/ Drop \/ Reconstruct
           \/ ConvertParallelToNested \/ Reject
  <2>1. stage' # "ready"
    BY <1>3 DEF Occupy, Skip, Split, Prioritise, Tile, Drop, Reconstruct, ConvertParallelToNested, Reject
  <2> QED
    BY <1>1, <2>1 DEF GatherInv
<1>4. CASE UNCHANGED vars
  <2>1. UNCHANGED <<kernel, stage, nest>>
    BY <1>4 DEF vars
  <2>2. CoresIn(nest, kernel.red)' = CoresIn(nest, kernel.red)
    BY <2>1
  <2> QED
    BY <1>1, <2>1, <2>2 DEF GatherInv
<1> QED
  BY <1>2, <1>3, <1>4 DEF Next, Mapping, Mapped

(* A core's region for the gather is exactly the cores that share all its   *)
(* other iterators, one for each iteration of the reduction, and as large   *)
(* as the area announced (applyMappingToFunction's gather rewrite).         *)
THEOREM GatherIsAlwaysWhole ==
  ASSUME HardConstraints
  PROVE  Spec => []GatherIsWhole
<1>1. Init => GatherInv
  BY GatherInit
<1>2. GatherInv /\ [Next]_vars => GatherInv'
  BY GatherStep
<1> QED
  BY <1>1, <1>2, GatherInvWhole, PTL DEF Spec

-----------------------------------------------------------------------------
(* The rectangles of the collective operations. *)

\* The cores that agree with c outside the loops in K.
AgreeingWith(c, K) == {d \in Cores : \A n \in Loops \ K : d[n] = c[n]}

\* One more free loop: as many times the cores as it has values.
LEMMA OneLoopMore ==
  ASSUME NestOK, NEW c \in Cores, NEW K \in SUBSET Loops, NEW i \in Loops, i \notin K,
         IsFiniteSet(AgreeingWith(c, K))
  PROVE  /\ IsFiniteSet(AgreeingWith(c, K \cup {i}))
         /\ Cardinality(AgreeingWith(c, K \cup {i})) = Cardinality(AgreeingWith(c, K)) * nest[i].size
<1> DEFINE S == AgreeingWith(c, K)
           T == AgreeingWith(c, K \cup {i})
           V == 0 .. nest[i].size - 1
           to == [p \in S \X V |-> [n \in Loops |-> IF n = i THEN p[2] ELSE p[1][n]]]
<1>1. nest[i].size \in Nat \ {0}
  BY DEF NestOK
<1>2. IsFiniteSet(V) /\ Cardinality(V) = nest[i].size
  <2>1. 0 \in Int /\ nest[i].size - 1 \in Int /\ ~ (0 > nest[i].size - 1)
        /\ (nest[i].size - 1) - 0 + 1 = nest[i].size
    BY <1>1
  <2> QED
    BY <2>1, FS_Interval
<1>3. IsFiniteSet(S \X V) /\ Cardinality(S \X V) = Cardinality(S) * nest[i].size
  <2> HIDE DEF S, V
  <2>1. IsFiniteSet(S)
    BY DEF S
  <2> QED
    BY <1>2, <2>1, FS_Product
<1>4. \A d \in Cores : d = [n \in Loops |-> d[n]] /\ d[i] \in V
  BY CoresOfNest
<1>5. \A d \in S : d \in Cores /\ d[i] = c[i] /\ \A n \in Loops \ K : d[n] = c[n]
  BY DEF AgreeingWith
<1>6. \A d : d \in T <=> d \in Cores /\ \A n \in Loops \ (K \cup {i}) : d[n] = c[n]
  BY DEF AgreeingWith
<1>7. \A d \in Cores : (\A n \in Loops \ K : d[n] = c[n]) => d \in S
  BY DEF AgreeingWith
<1> HIDE DEF S, T, V
<1>8. ASSUME NEW p \in S \X V PROVE to[p] \in T
  <2>1. p[1] \in S /\ p[2] \in V /\ to[p] = [n \in Loops |-> IF n = i THEN p[2] ELSE p[1][n]]
    OBVIOUS
  <2> DEFINE x == [n \in Loops |-> p[2]]
             e == [n \in Loops |-> IF n \in {i} THEN x[n] ELSE p[1][n]]
  <2>2. to[p] = e
    BY <2>1
  <2>3. \A n \in {i} : x[n] \in 0 .. nest[n].size - 1
    BY <2>1 DEF V
  <2>4. e \in Cores
    <3> DEFINE J == {i}
    <3> HIDE DEF x, J
    <3>1. \A n \in J : x[n] \in 0 .. nest[n].size - 1
      BY <2>3 DEF J
    <3>2. p[1] \in Cores
      BY <1>5, <2>1
    <3>3. [n \in Loops |-> IF n \in J THEN x[n] ELSE p[1][n]] \in Cores
      BY <3>1, <3>2, CornersAreCores
    <3> QED
      BY <3>3 DEF J
  <2>5. \A n \in Loops \ (K \cup {i}) : e[n] = c[n]
    BY <1>5, <2>1
  <2> HIDE DEF e, to
  <2> QED
    BY <1>6, <2>2, <2>4, <2>5
<1>9. ASSUME NEW p \in S \X V, NEW q \in S \X V, to[p] = to[q] PROVE p = q
  <2>1. p[1] \in Cores /\ q[1] \in Cores /\ p[1][i] = c[i] /\ q[1][i] = c[i]
    BY <1>5
  <2>2. \A n \in Loops : (IF n = i THEN p[2] ELSE p[1][n]) = (IF n = i THEN q[2] ELSE q[1][n])
    <3>1. \A n \in Loops : /\ to[p][n] = IF n = i THEN p[2] ELSE p[1][n]
                           /\ to[q][n] = IF n = i THEN q[2] ELSE q[1][n]
      OBVIOUS
    <3> QED
      BY <1>9, <3>1
  <2>3. p[2] = q[2]
    BY <2>2
  <2>4. \A n \in Loops : p[1][n] = q[1][n]
    BY <2>1, <2>2
  <2>5. p[1] = q[1]
    BY <1>4, <2>1, <2>4
  <2> QED
    BY <2>3, <2>5
<1>10. ASSUME NEW d \in T PROVE \E p \in S \X V : to[p] = d
  <2> DEFINE x == [n \in Loops |-> c[i]]
             e == [n \in Loops |-> IF n \in {i} THEN x[n] ELSE d[n]]
  <2>1. d \in Cores /\ d = [n \in Loops |-> d[n]] /\ d[i] \in V
    BY <1>4, <1>6
  <2>2. \A n \in {i} : x[n] \in 0 .. nest[n].size - 1
    BY CoresOfNest
  <2>3. e \in Cores
    <3> DEFINE J == {i}
    <3> HIDE DEF x, J
    <3>1. \A n \in J : x[n] \in 0 .. nest[n].size - 1
      BY <2>2 DEF J
    <3>2. [n \in Loops |-> IF n \in J THEN x[n] ELSE d[n]] \in Cores
      BY <2>1, <3>1, CornersAreCores
    <3> QED
      BY <3>2 DEF J
  <2>4. \A n \in Loops \ K : e[n] = c[n]
    BY <1>6
  <2>5. e \in S
    <3> HIDE DEF e
    <3> QED
      BY <1>7, <2>3, <2>4
  <2>6. <<e, d[i]>> \in S \X V
    <3> HIDE DEF e
    <3> QED
      BY <2>1, <2>5
  <2>7. to[<<e, d[i]>>] = [n \in Loops |-> IF n = i THEN d[i] ELSE e[n]]
    <3> HIDE DEF e
    <3> QED
      BY <2>6
  <2>8. [n \in Loops |-> IF n = i THEN d[i] ELSE e[n]] = [n \in Loops |-> d[n]]
    OBVIOUS
  <2> HIDE DEF e, to
  <2> QED
    BY <2>1, <2>6, <2>7, <2>8
<1>11. to \in [S \X V -> T]
  <2>1. to = [p \in S \X V |-> to[p]]
    OBVIOUS
  <2> HIDE DEF to
  <2> QED
    BY <1>8, <2>1
<1> HIDE DEF to
<1>12. to \in Bijection(S \X V, T)
  BY <1>9, <1>10, <1>11 DEF Bijection, Injection, Surjection, IsInjective
<1>13. ExistsBijection(S \X V, T)
  BY <1>12 DEF ExistsBijection
<1> QED
  BY <1>3, <1>13, FS_Bijection DEF S, T

\* The area of the loops in K on axis a, and the sizes of all loops.
Sizes == [n \in Loops |-> nest[n].size]
OnAxis(K, a) == {n \in K : nest[n].axis = a}
AxisArea(K, a) == Product(Kept(Sizes, Len(nest), OnAxis(K, a)))

\* As many cores agree with c outside K as the area of K has places.
LEMMA AgreeingAreArea ==
  ASSUME NestOK, NEW c \in Cores, NEW K \in SUBSET Loops
  PROVE  Cardinality(AgreeingWith(c, K)) = AxisArea(K, 1) * AxisArea(K, 2)
<1> DEFINE N == Len(nest)
           upto(m) == {n \in K : n <= m}
           Good(m) == /\ IsFiniteSet(AgreeingWith(c, upto(m)))
                      /\ AxisArea(upto(m), 1) \in Nat /\ AxisArea(upto(m), 2) \in Nat
                      /\ Cardinality(AgreeingWith(c, upto(m))) =
                           AxisArea(upto(m), 1) * AxisArea(upto(m), 2)
           D == {m \in Nat : m <= N => Good(m)}
<1>1. /\ N \in Nat /\ Loops = 1 .. N
      /\ \A n \in Loops : nest[n].size \in Nat \ {0} /\ nest[n].axis \in Axes
  BY LenProperties DEF NestOK, Loops
<1>2. \A n \in 1 .. N : Sizes[n] \in Nat /\ Sizes[n] = nest[n].size
  BY <1>1 DEF Sizes
<1>9. \A m : \A n : n \in upto(m) <=> n \in K /\ n <= m
  OBVIOUS
<1>10. \A n \in K : n \in 1 .. N /\ n \in Loops
  BY <1>1
<1> HIDE DEF upto, N
<1>3. Good(0)
  <2>1. upto(0) = {} /\ OnAxis({}, 1) = {} /\ OnAxis({}, 2) = {}
    <3>1. \A n \in K : ~ (n <= 0)
      BY <1>1, <1>10
    <3>2. \A n : n \notin upto(0)
      BY <1>9, <3>1
    <3> QED
      BY <3>2 DEF OnAxis
  <2>2. AxisArea({}, 1) = 1 /\ AxisArea({}, 2) = 1
    BY <1>1, <2>1, NoFactors DEF AxisArea, N
  <2>3. AgreeingWith(c, {}) = {c}
    <3>1. \A d \in Cores : d = [n \in Loops |-> d[n]]
      BY CoresOfNest
    <3>2. \A d \in Cores : (\A n \in Loops : d[n] = c[n]) => d = c
      BY <3>1
    <3> QED
      BY <3>2 DEF AgreeingWith
  <2>4. IsFiniteSet({c}) /\ Cardinality({c}) = 1
    BY FS_Singleton
  <2>5. 1 \in Nat /\ 1 = 1 * 1
    OBVIOUS
  <2> QED
    BY <2>1, <2>2, <2>3, <2>4, <2>5
<1>4. ASSUME NEW j \in 0 .. N - 1, j \in D PROVE j + 1 \in D
  <2> DEFINE i == j + 1
  <2>1. i \in 1 .. N /\ i \in Loops /\ i \in Nat /\ j \in Nat /\ j <= N
    BY <1>1
  <2>2. Good(j)
    <3> HIDE DEF Good
    <3> QED
      BY <1>4, <2>1
  <2>3. CASE i \notin K
    <3>1. upto(i) = upto(j)
      <4>1. \A n \in K : n <= i <=> n <= j
        BY <1>1, <1>10, <2>1, <2>3
      <4> HIDE DEF i
      <4>2. \A n : n \in upto(i) <=> n \in upto(j)
        BY <1>9, <4>1
      <4> QED
        BY <4>2
    <3>2. Good(i)
      BY <2>2, <3>1
    <3> QED
      BY <2>1, <3>2
  <2>4. CASE i \in K
    <3> DEFINE U == upto(j)
    <3>1. upto(i) = U \cup {i} /\ i \notin U /\ U \in SUBSET Loops
      <4>1. \A n \in K : n <= i <=> n <= j \/ n = i
        BY <1>1, <1>10, <2>1
      <4>2. ~ (i <= j)
        BY <2>1
      <4> HIDE DEF i
      <4>3. \A n : n \in upto(i) <=> n \in U \cup {i}
        BY <1>9, <2>4, <4>1
      <4>4. i \notin U /\ U \in SUBSET Loops
        BY <1>9, <1>10, <4>2
      <4> QED
        BY <4>3, <4>4
    <3>2. /\ IsFiniteSet(AgreeingWith(c, U \cup {i}))
          /\ Cardinality(AgreeingWith(c, U \cup {i})) = Cardinality(AgreeingWith(c, U)) * nest[i].size
      BY <2>1, <2>2, <3>1, OneLoopMore
    <3>3. nest[i].size \in Nat /\ nest[i].axis \in {1, 2} /\ Sizes[i] = nest[i].size
      BY <1>1, <1>2, <2>1 DEF Axes
    <3> HIDE DEF i, U, N
    <3>4. ASSUME NEW a \in Axes, nest[i].axis = a
          PROVE  AxisArea(U \cup {i}, a) = AxisArea(U, a) * nest[i].size
      <4> DEFINE W == OnAxis(U, a)
      <4>1. OnAxis(U \cup {i}, a) = W \cup {i} /\ i \notin W
        BY <3>1, <3>4 DEF OnAxis
      <4> HIDE DEF W
      <4>2. Product(Kept(Sizes, N, W \cup {i})) = Product(Kept(Sizes, N, W)) * Sizes[i]
        BY <1>1, <1>2, <2>1, <4>1, OneFactorMore
      <4> QED
        BY <3>3, <4>1, <4>2 DEF AxisArea, W, N
    <3>5. ASSUME NEW a \in Axes, nest[i].axis # a PROVE AxisArea(U \cup {i}, a) = AxisArea(U, a)
      <4>1. OnAxis(U \cup {i}, a) = OnAxis(U, a)
        BY <3>5 DEF OnAxis
      <4> QED
        BY <4>1 DEF AxisArea
    <3> DEFINE x == AxisArea(U, 1)
               y == AxisArea(U, 2)
               s == nest[i].size
    <3>6. x \in Nat /\ y \in Nat /\ Cardinality(AgreeingWith(c, U)) = x * y
      BY <2>2 DEF U
    <3>7. \/ AxisArea(U \cup {i}, 1) = x * s /\ AxisArea(U \cup {i}, 2) = y
          \/ AxisArea(U \cup {i}, 1) = x /\ AxisArea(U \cup {i}, 2) = y * s
      BY <3>3, <3>4, <3>5 DEF Axes
    <3> HIDE DEF x, y, s
    <3>8. s \in Nat /\ x * s \in Nat /\ y * s \in Nat /\ (x * y) * s = (x * s) * y /\ (x * y) * s = x * (y * s)
      <4>1. s \in Nat
        BY <3>3 DEF s
      <4> QED
        BY <3>6, <4>1
    <3>9. Cardinality(AgreeingWith(c, U \cup {i})) = (x * y) * s
      BY <3>2, <3>6 DEF s
    <3>10. Good(i)
      BY <3>1, <3>2, <3>6, <3>7, <3>8, <3>9
    <3> HIDE DEF Good
    <3> QED
      BY <2>1, <3>10 DEF i, N
  <2> QED
    BY <2>3, <2>4
<1> HIDE DEF Good
<1>5. 0 \in D
  BY <1>3
<1> HIDE DEF D
<1>6. \A j \in 0 .. N : j \in D
  BY <1>1, <1>4, <1>5, Upwards
<1>7. Good(N)
  BY <1>1, <1>6 DEF D
<1>8. upto(N) = K
  <2>1. \A n \in K : n <= N
    BY <1>1, <1>10
  <2>2. \A n : n \in upto(N) <=> n \in K
    BY <1>9, <2>1
  <2> QED
    BY <2>2
<1> QED
  BY <1>7, <1>8 DEF Good

\* The loops over which a view is broadcast are the inner levels of each axis.
LEMMA OverriddenInside ==
  ASSUME NestOK, NEW v
  PROVE  \E L \in [Axes -> Nat] : \A n \in Loops : n \in Overridden(v) <=> nest[n].level < L[nest[n].axis]
<1>1. CASE ~ SpatialReuse(v)
  <2> DEFINE L == [a \in Axes |-> 0]
  <2>1. \A n \in Loops : nest[n].axis \in Axes /\ ~ (nest[n].level < 0)
    BY DEF NestOK
  <2>2. L \in [Axes -> Nat] /\ \A a \in Axes : L[a] = 0
    OBVIOUS
  <2>3. Overridden(v) = {}
    BY <1>1 DEF Overridden
  <2> HIDE DEF L
  <2> QED
    BY <2>1, <2>2, <2>3
<1>2. CASE SpatialReuse(v)
  <2> DEFINE Bars(a) == {nest[m].level : m \in {m \in Varying(v.deps) : nest[m].axis = a}}
             Bound(a, l) == \A n \in Loops : nest[n].axis = a =>
                              (n \in Independent(v) <=> nest[n].level < l)
  <2>1. Varying(v.deps) \subseteq Loops /\ \A n \in Loops : nest[n].axis \in Axes /\ nest[n].level \in Nat
    BY DEF Varying, NestOK
  <2>2. ASSUME NEW a \in Axes, NEW n \in Loops, nest[n].axis = a
        PROVE  n \in Independent(v) <=> \A b \in Bars(a) : ~ (b <= nest[n].level)
    BY <2>1, <2>2 DEF Independent
  <2>3. \A a \in Axes : Bars(a) \in SUBSET Nat
    BY <2>1
  <2>4. ASSUME NEW a \in Axes PROVE \E l \in Nat : Bound(a, l)
    <3>1. CASE Bars(a) = {}
      <4>1. PICK P, K : AxisLevels(a, P, K)
        BY DEF NestOK
      <4>2. K \in Nat
        BY <4>1 DEF AxisLevels, Radices
      <4>3. \A n \in Loops : nest[n].axis = a => nest[n].level < K
        <5> SUFFICES ASSUME NEW n \in Loops, nest[n].axis = a PROVE nest[n].level < K
          OBVIOUS
        <5>1. nest[n].level + 1 \in 1 .. K /\ nest[n].level \in Nat
          BY <2>1, <4>1 DEF AxisLevels
        <5> QED
          BY <4>2, <5>1
      <4> HIDE DEF Bars
      <4> QED
        BY <2>2, <3>1, <4>2, <4>3
    <3>2. CASE Bars(a) # {}
      <4> HIDE DEF Bars
      <4>1. PICK l \in Bars(a) : \A b \in Bars(a) : l <= b
        BY <2>3, <3>2, LeastOf
      <4>2. l \in Nat /\ \A b \in Bars(a) : b \in Nat
        BY <2>3
      <4>3. ASSUME NEW n \in Loops, nest[n].axis = a
            PROVE  n \in Independent(v) <=> nest[n].level < l
        <5>1. nest[n].level \in Nat
          BY <2>1
        <5>2. (\A b \in Bars(a) : ~ (b <= nest[n].level)) <=> nest[n].level < l
          BY <4>1, <4>2, <5>1
        <5> QED
          BY <2>2, <4>3, <5>2
      <4> QED
        BY <4>2, <4>3
    <3> QED
      BY <3>1, <3>2
  <2> DEFINE L == [a \in Axes |-> CHOOSE l \in Nat : Bound(a, l)]
  <2> HIDE DEF Bound
  <2>5. \A a \in Axes : L[a] \in Nat /\ Bound(a, L[a])
    BY <2>4
  <2>6. L = [a \in Axes |-> L[a]]
    OBVIOUS
  <2> HIDE DEF L
  <2>7. L \in [Axes -> Nat]
    BY <2>5, <2>6
  <2>8. \A n \in Loops : n \in Independent(v) <=> nest[n].level < L[nest[n].axis]
    BY <2>1, <2>5 DEF Bound
  <2>9. Overridden(v) = Independent(v)
    BY <1>2 DEF Overridden
  <2> QED
    BY <2>7, <2>8, <2>9
<1> QED
  BY <1>1, <1>2

\* So are the loops of the reduction, and without one there are none.
LEMMA GatherInside ==
  ASSUME ChoicesOK, LoopsMade, ReductionFirst, Built, NestOK
  PROVE  \E L \in [Axes -> Nat] : \A n \in Loops : n \in GatherLoops <=> nest[n].level < L[nest[n].axis]
<1>0. \A n \in Loops : nest[n].axis \in Axes /\ nest[n].level \in Nat
  BY DEF NestOK
<1>1. CASE kernel.red # 0
  <2> DEFINE L == [a \in Axes |-> 1]
  <2>1. L \in [Axes -> Nat] /\ \A a \in Axes : L[a] = 1
    OBVIOUS
  <2> HIDE DEF L
  <2> QED
    BY <1>0, <1>1, <2>1, GatherLoopsInside
<1>2. CASE kernel.red = 0
  <2> DEFINE cl == Claims(split, order)
             L == [a \in Axes |-> 0]
  <2>1. stage \in HasSplit /\ stage \in HasOrder /\ stage \in {"nest"} \cup HasWaves
    BY DEF Built, HasSplit, HasOrder, HasWaves
  <2>2. Size \in Nat \ {0} /\ Iters = 1 .. Size /\ SplitOK(split, Size) /\ OrderOK(order)
    BY <2>1, KernelFacts DEF ChoicesOK
  <2>3. \A n \in 1 .. Len(cl) : cl[n].iter \in Iters
    BY <2>2, ClaimsShape
  <2>4. Loops = 1 .. Len(cl) /\ \A n \in Loops : nest[n] = cl[n]
    BY <2>1 DEF LoopsMade, Loops
  <2> HIDE DEF cl
  <2>5. 0 \notin Iters
    BY <2>2
  <2>6. GatherLoops = {}
    BY <1>2, <2>3, <2>4, <2>5 DEF GatherLoops
  <2>7. L \in [Axes -> Nat] /\ \A a \in Axes : L[a] = 0
    OBVIOUS
  <2> HIDE DEF L
  <2>8. \A n \in Loops : ~ (nest[n].level < L[nest[n].axis])
    BY <1>0, <2>7
  <2> QED
    BY <2>6, <2>7, <2>8
<1> QED
  BY <1>1, <1>2

\* The rectangle of a collective operation at core c: the cores that agree with
\* c on all other loops, as many as the area has places.
LEMMA SharedRegion ==
  ASSUME PlaceInv, ReductionFirst, stage = "ready", NEW o \in Collectives, NEW c \in Cores
  PROVE  /\ Region(c, SharedLoops(o)) = AgreeingWith(c, SharedLoops(o))
         /\ Cardinality(Region(c, SharedLoops(o))) = Area(o)[1] * Area(o)[2]
<1> DEFINE K == SharedLoops(o)
<1>1. Built /\ NestOK
  BY LoopsAreLevels DEF PlaceInv, Built
<1>2. K \in SUBSET Loops
  BY DEF SharedLoops, GatherLoops, Overridden, Independent
<1>3. \E L \in [Axes -> Nat] : \A n \in Loops : n \in K <=> nest[n].level < L[nest[n].axis]
  <2>1. CASE o = 0
    BY <1>1, <2>1, GatherInside DEF PlaceInv, SharedLoops
  <2>2. CASE o # 0
    BY <1>1, <2>2, OverriddenInside DEF SharedLoops
  <2> QED
    BY <2>1, <2>2
<1>4. ASSUME NEW a \in Axes PROVE Area(o)[a] = AxisArea(K, a)
  <2> DEFINE X == [n \in Loops |-> IF n \in K /\ nest[n].axis = a THEN nest[n].size ELSE 1]
  <2>1. Area(o)[a] = Product(X)
    BY DEF Area
  <2>2. X = Kept(Sizes, Len(nest), OnAxis(K, a))
    BY <1>2 DEF Kept, Sizes, OnAxis, Loops
  <2> QED
    BY <2>1, <2>2 DEF AxisArea
<1> HIDE DEF K
<1>5. Region(c, K) = AgreeingWith(c, K)
  BY <1>1, <1>2, <1>3, RegionIsCores DEF AgreeingWith
<1>6. Cardinality(AgreeingWith(c, K)) = AxisArea(K, 1) * AxisArea(K, 2)
  BY <1>1, <1>2, AgreeingAreArea
<1> QED
  BY <1>4, <1>5, <1>6 DEF K, Axes

\* Until the mesh starts, what the places depend on; then the rectangles agree.
MeshInv ==
  /\ stage # "running" => PlaceInv /\ ReductionFirst
  /\ RegionsAgree

\* The rectangles that the mesh starts with.
LEMMA MeshLaunch == PlaceInv /\ ReductionFirst /\ Launch => RegionsAgree'
<1> SUFFICES ASSUME PlaceInv, ReductionFirst, Launch PROVE RegionsAgree'
  OBVIOUS
<1>1. /\ stage = "ready"
      /\ region' = [c \in Cores |-> [o \in Collectives |-> Region(c, SharedLoops(o))]]
      /\ UNCHANGED <<kernel, nest>>
  BY DEF Launch
<1>2. Collectives' = Collectives
  BY <1>1 DEF Collectives
<1>3. \A o \in Collectives : Area(o)' = Area(o)
  BY <1>1 DEF Area, SharedLoops, GatherLoops, Overridden, Independent, SpatialReuse, SkipSpatialReuse,
              Varying, Loops
<1>4. ASSUME NEW c \in Cores, NEW o \in Collectives
      PROVE  /\ region'[c][o] = AgreeingWith(c, SharedLoops(o))
             /\ Cardinality(region'[c][o]) = Area(o)[1] * Area(o)[2]
  <2>1. region'[c][o] = Region(c, SharedLoops(o))
    BY <1>1
  <2> QED
    BY <1>1, <2>1, SharedRegion
<1>5. ASSUME NEW c \in Cores, NEW o \in Collectives, NEW d \in region'[c][o]
      PROVE  region'[d][o] = region'[c][o]
  <2> DEFINE K == SharedLoops(o)
  <2>1. d \in Cores /\ \A n \in Loops \ K : d[n] = c[n]
    BY <1>4, <1>5 DEF AgreeingWith
  <2> HIDE DEF K
  <2>2. AgreeingWith(d, K) = AgreeingWith(c, K)
    BY <2>1 DEF AgreeingWith
  <2> QED
    BY <1>4, <2>1, <2>2 DEF K
<1>6. DOMAIN region' = Cores
  BY <1>1
<1>7. SUFFICES ASSUME NEW c \in DOMAIN region', NEW o \in Collectives'
               PROVE  /\ \A d \in region'[c][o] : region'[d][o] = region'[c][o]
                      /\ Cardinality(region'[c][o]) = Area(o)[1]' * Area(o)[2]'
  BY DEF RegionsAgree
<1>8. c \in Cores /\ o \in Collectives /\ Area(o)[1]' = Area(o)[1] /\ Area(o)[2]' = Area(o)[2]
  BY <1>2, <1>3, <1>6
<1> QED
  BY <1>4, <1>5, <1>8

LEMMA MeshStep == MeshInv /\ [MNext]_mvars => MeshInv'
<1> SUFFICES ASSUME MeshInv, [MNext]_mvars PROVE MeshInv'
  OBVIOUS
<1>1. CASE Mapping
  <2>1. stage # "running" /\ [Next]_vars
    BY <1>1 DEF Mapping, Occupy, Skip, Split, Prioritise, Tile, Drop, Reconstruct,
                ConvertParallelToNested, Materialize, Reject, Next
  <2>2. PlaceInv' /\ ReductionFirst'
    BY <2>1, PlaceStep, ReductionStep DEF MeshInv
  <2>3. stage' # "running"
    BY <2>2 DEF PlaceInv, ChoicesOK
  <2> QED
    BY <2>2, <2>3 DEF MeshInv, RegionsAgree
<1>2. CASE Launch
  <2>1. stage = "ready" /\ stage' = "running"
    BY <1>2 DEF Launch
  <2> QED
    BY <1>2, <2>1, MeshLaunch DEF MeshInv
<1>3. CASE UNCHANGED <<vars, region>>
  <2>1. UNCHANGED <<kernel, nest, stage, region, vars>>
    BY <1>3 DEF vars
  <2>2. stage # "running" => PlaceInv' /\ ReductionFirst'
    BY <2>1, PlaceStep, ReductionStep DEF MeshInv
  <2>3. Collectives' = Collectives /\ \A o \in Collectives : Area(o)' = Area(o)
    BY <2>1 DEF Collectives, Area, SharedLoops, GatherLoops, Overridden, Independent, SpatialReuse,
                SkipSpatialReuse, Varying, Loops
  <2>4. RegionsAgree'
    BY <2>1, <2>3 DEF MeshInv, RegionsAgree
  <2> QED
    BY <2>1, <2>2, <2>4 DEF MeshInv
<1>4. ASSUME NEW c \in DOMAIN pc, Fire(c) PROVE MeshInv'
  BY <1>3, <1>4 DEF Fire
<1>5. CASE Over
  BY <1>3, <1>5 DEF Over, mvars
<1>6. CASE UNCHANGED mvars
  BY <1>3, <1>6 DEF mvars
<1> QED
  BY <1>1, <1>2, <1>4, <1>5, <1>6 DEF MNext

(* All cores of a broadcast's or a gather's rectangle compute the same one,  *)
(* as large as the area the operation announces, for every kernel, mesh and  *)
(* mapping, with or without the hard constraints                             *)
(* (computeDimBroadcastCoeff, emitLinearIndexWithMultiOverride).             *)
THEOREM RegionsAlwaysAgree == MSpec => []RegionsAgree
<1>1. MInit => MeshInv
  BY PlaceInit, ReductionInit DEF MInit, MeshInv, RegionsAgree, Init
<1>2. MeshInv /\ [MNext]_mvars => MeshInv'
  BY MeshStep
<1>3. MeshInv => RegionsAgree
  BY DEF MeshInv
<1> QED
  BY <1>1, <1>2, <1>3, PTL DEF MSpec

-----------------------------------------------------------------------------
(* Sequences whose positions are named by keys in increasing order. *)

Keys == Nat \X Nat \X Nat
Earlier(a, b) ==
  \/ a[1] < b[1]
  \/ a[1] = b[1] /\ a[2] < b[2]
  \/ a[1] = b[1] /\ a[2] = b[2] /\ a[3] < b[3]

\* The sequence s has the entries of R, each at its key.
Lists(s, R, key) ==
  /\ key \in Seq(Keys) /\ Len(key) = Len(s)
  /\ \A x \in 1 .. Len(s) : <<key[x], s[x]>> \in R
  /\ \A r \in R : \E x \in 1 .. Len(s) : r = <<key[x], s[x]>>
  /\ \A x, y \in 1 .. Len(s) : x < y => Earlier(key[x], key[y])

LEMMA KeysOrdered ==
  /\ \A a \in Keys : ~ Earlier(a, a)
  /\ \A a, b \in Keys : Earlier(a, b) \/ a = b \/ Earlier(b, a)
  /\ \A a, b, c \in Keys : Earlier(a, b) /\ Earlier(b, c) => Earlier(a, c)
<1>1. \A a \in Keys : a[1] \in Nat /\ a[2] \in Nat /\ a[3] \in Nat /\ a = <<a[1], a[2], a[3]>>
  BY DEF Keys
<1>2. ASSUME NEW a \in Keys, NEW b \in Keys, ~ Earlier(a, b), ~ Earlier(b, a) PROVE a = b
  <2>1. a[1] = b[1] /\ a[2] = b[2] /\ a[3] = b[3]
    BY <1>1, <1>2 DEF Earlier
  <2> QED
    BY <1>1, <2>1
<1>3. ASSUME NEW a \in Keys, NEW b \in Keys, NEW c \in Keys, Earlier(a, b), Earlier(b, c)
      PROVE  Earlier(a, c)
  BY <1>1, <1>3 DEF Earlier
<1>4. \A a \in Keys : ~ Earlier(a, a)
  BY <1>1 DEF Earlier
<1> QED
  BY <1>2, <1>3, <1>4

\* Of some keys one is the first.
LEMMA FirstKey ==
  ASSUME NEW T \in SUBSET Keys, T # {}
  PROVE  \E a \in T : \A b \in T : ~ Earlier(b, a)
<1> DEFINE A == {k[1] : k \in T}
<1>0. \A k \in Keys : k[1] \in Nat /\ k[2] \in Nat /\ k[3] \in Nat
  BY DEF Keys
<1>1. A \in SUBSET Nat /\ A # {}
  BY <1>0
<1>2. PICK a \in A : \A b \in A : a <= b
  <2> HIDE DEF A
  <2> QED
    BY <1>1, LeastOf
<1> DEFINE P == {<<k[2], k[3]>> : k \in {m \in T : m[1] = a}}
<1>3. P \in SUBSET (Nat \X Nat) /\ P # {}
  <2>1. PICK k \in T : k[1] = a
    BY <1>2
  <2>2. <<k[2], k[3]>> \in P
    BY <2>1
  <2>3. \A q \in P : q \in Nat \X Nat
    BY <1>0
  <2> HIDE DEF P
  <2> QED
    BY <2>2, <2>3
<1>4. PICK p \in P : \A q \in P : p[1] < q[1] \/ (p[1] = q[1] /\ p[2] <= q[2])
  <2> HIDE DEF P
  <2> QED
    BY <1>3, FirstPair
<1>5. PICK k \in T : k[1] = a /\ p = <<k[2], k[3]>>
  BY <1>4
<1>6. ASSUME NEW b \in T PROVE ~ Earlier(b, k)
  <2>1. b[1] \in A
    OBVIOUS
  <2>2. a <= b[1]
    BY <1>2, <2>1
  <2>3. b[1] = a => k[2] < b[2] \/ (k[2] = b[2] /\ k[3] <= b[3])
    <3> SUFFICES ASSUME b[1] = a PROVE k[2] < b[2] \/ (k[2] = b[2] /\ k[3] <= b[3])
      OBVIOUS
    <3>1. <<b[2], b[3]>> \in P
      OBVIOUS
    <3> QED
      BY <1>4, <1>5, <3>1
  <2> HIDE DEF A, P
  <2> QED
    BY <1>0, <1>5, <2>2, <2>3 DEF Earlier
<1> QED
  BY <1>6

\* The positions of one sequence after another.
LEMMA ConcatAt ==
  ASSUME NEW S, NEW s \in Seq(S), NEW t \in Seq(S)
  PROVE  /\ Len(s \o t) = Len(s) + Len(t)
         /\ \A x \in 1 .. Len(s) + Len(t) : (s \o t)[x] = IF x <= Len(s) THEN s[x] ELSE t[x - Len(s)]
BY ConcatProperties

\* A list after another, when its keys come later.
LEMMA ListsConcat ==
  ASSUME NEW S, NEW s \in Seq(S), NEW t \in Seq(S), NEW R, NEW Q, NEW f, NEW g,
         Lists(s, R, f), Lists(t, Q, g), \A r \in R, q \in Q : Earlier(r[1], q[1])
  PROVE  Lists(s \o t, R \cup Q, f \o g)
<1> DEFINE m == Len(s)
           n == Len(t)
           u == s \o t
           h == f \o g
<1>1. /\ m \in Nat /\ n \in Nat /\ f \in Seq(Keys) /\ g \in Seq(Keys) /\ Len(f) = m /\ Len(g) = n
      /\ u \in Seq(S) /\ h \in Seq(Keys)
  BY LenProperties, ConcatProperties DEF Lists
<1>2. Len(u) = m + n /\ Len(h) = m + n
  <2>1. f \in Seq(Keys) /\ g \in Seq(Keys) /\ Len(f) = m /\ Len(g) = n
    BY <1>1
  <2>2. Len(h) = Len(f) + Len(g)
    BY <2>1, ConcatAt
  <2>3. Len(u) = Len(s) + Len(t)
    BY ConcatAt
  <2> QED
    BY <2>1, <2>2, <2>3
<1>3. \A x \in 1 .. m + n : /\ u[x] = IF x <= m THEN s[x] ELSE t[x - m]
                            /\ h[x] = IF x <= m THEN f[x] ELSE g[x - m]
  <2>1. \A x \in 1 .. m + n : u[x] = IF x <= m THEN s[x] ELSE t[x - m]
    BY ConcatAt
  <2>2. \A x \in 1 .. Len(f) + Len(g) : h[x] = IF x <= Len(f) THEN f[x] ELSE g[x - Len(f)]
    <3>1. f \in Seq(Keys) /\ g \in Seq(Keys)
      BY <1>1
    <3> QED
      BY <3>1, ConcatAt
  <2> HIDE DEF m, n, u, h
  <2> QED
    BY <1>1, <2>1, <2>2
<1> HIDE DEF m, n, u, h
<1>4. \A x \in 1 .. m + n : \/ x \in 1 .. m /\ u[x] = s[x] /\ h[x] = f[x]
                            \/ x > m /\ x - m \in 1 .. n /\ u[x] = t[x - m] /\ h[x] = g[x - m]
  <2> SUFFICES ASSUME NEW x \in 1 .. m + n
               PROVE  \/ x \in 1 .. m /\ u[x] = s[x] /\ h[x] = f[x]
                      \/ x > m /\ x - m \in 1 .. n /\ u[x] = t[x - m] /\ h[x] = g[x - m]
    OBVIOUS
  <2>1. (x <= m /\ x \in 1 .. m) \/ (~ (x <= m) /\ x > m /\ x - m \in 1 .. n)
    BY <1>1
  <2> QED
    BY <1>3, <2>1
<1>5. ASSUME NEW x \in 1 .. m + n PROVE <<h[x], u[x]>> \in R \cup Q
  BY <1>4 DEF Lists, m, n
<1>6. ASSUME NEW r \in R \cup Q PROVE \E x \in 1 .. m + n : r = <<h[x], u[x]>>
  <2>1. CASE r \in R
    <3>1. PICK x \in 1 .. m : r = <<f[x], s[x]>>
      BY <2>1 DEF Lists, m
    <3>2. x \in 1 .. m + n /\ x <= m
      BY <1>1, <3>1
    <3> QED
      BY <1>3, <3>1, <3>2
  <2>2. CASE r \in Q
    <3>1. PICK x \in 1 .. n : r = <<g[x], t[x]>>
      BY <2>2 DEF Lists, n
    <3>2. x + m \in 1 .. m + n /\ ~ (x + m <= m) /\ (x + m) - m = x
      BY <1>1, <3>1
    <3> QED
      BY <1>3, <3>1, <3>2
  <2> QED
    BY <2>1, <2>2
<1>7. ASSUME NEW x \in 1 .. m + n, NEW y \in 1 .. m + n, x < y PROVE Earlier(h[x], h[y])
  <2>1. CASE x \in 1 .. m /\ y \in 1 .. m
    BY <1>1, <1>3, <1>7, <2>1 DEF Lists, m
  <2>2. CASE x > m /\ y > m
    <3>1. x - m \in 1 .. n /\ y - m \in 1 .. n /\ x - m < y - m /\ ~ (x <= m) /\ ~ (y <= m)
      BY <1>1, <1>7, <2>2
    <3>2. Earlier(g[x - m], g[y - m])
      BY <3>1 DEF Lists, n
    <3> QED
      BY <1>3, <3>1, <3>2
  <2>3. CASE x \in 1 .. m /\ y > m
    <3>1. x <= m /\ ~ (y <= m) /\ y - m \in 1 .. n
      BY <1>1, <2>3
    <3>2. <<f[x], s[x]>> \in R /\ <<g[y - m], t[y - m]>> \in Q
      BY <2>3, <3>1 DEF Lists, m, n
    <3>3. Earlier(<<f[x], s[x]>>[1], <<g[y - m], t[y - m]>>[1])
      BY <3>2
    <3> QED
      BY <1>3, <3>1, <3>3
  <2> QED
    BY <1>1, <1>7, <2>1, <2>2, <2>3
<1> QED
  BY <1>1, <1>2, <1>5, <1>6, <1>7 DEF Lists, u, h

LEMMA ListsNothing ==
  ASSUME NEW s, s = <<>>
  PROVE  Lists(s, {}, <<>>)
<1>1. <<>> \in Seq(Keys) /\ Len(<<>>) = 0 /\ Len(s) = 0
  OBVIOUS
<1> QED
  BY <1>1 DEF Lists

\* Lists whose keys come one after the other, flattened.
LEMMA FlattenLists ==
  ASSUME NEW S, NEW ss \in Seq(Seq(S)), NEW R,
         \A i \in 1 .. Len(ss) : \E key : Lists(ss[i], R[i], key),
         \A i, j \in 1 .. Len(ss) : i < j => \A r \in R[i], q \in R[j] : Earlier(r[1], q[1])
  PROVE  \E key : Lists(FlattenSeq(ss), UNION {R[i] : i \in 1 .. Len(ss)}, key)
<1> DEFINE n == Len(ss)
           upto(m) == UNION {R[i] : i \in 1 .. m}
<1>1. n \in Nat /\ ss \in [1 .. n -> Seq(S)]
  BY LenProperties
<1>2. CASE ss = <<>>
  <2>1. n = 0 /\ upto(n) = {} /\ FlattenSeq(ss) = <<>>
    BY <1>2, FlattenSeqPositions DEF FlattenSeq
  <2> QED
    BY <2>1, ListsNothing
<1>3. CASE ss # <<>>
  <2>1. PICK f \in [1 .. n -> Seq(S)] :
          /\ \A i \in 1 .. n : f[i] = IF i = 1 THEN ss[i] ELSE f[i - 1] \o ss[i]
          /\ FlattenSeq(ss) = f[n]
    BY <1>3, FlattenSeqSteps
  <2>2. n # 0
    BY <1>3, EmptySeq
  <2> HIDE DEF n
  <2> DEFINE D == {m \in Nat : m + 1 <= n => \E key : Lists(f[m + 1], upto(m + 1), key)}
  <2>3. 0 \in D
    <3>1. PICK key : Lists(ss[1], R[1], key)
      BY <1>1, <2>2 DEF n
    <3>2. f[1] = ss[1] /\ upto(1) = R[1]
      <4>1. 1 \in 1 .. n /\ 1 .. 1 = {1}
        BY <1>1, <2>2
      <4> QED
        BY <2>1, <4>1
    <3> HIDE DEF upto
    <3>3. 0 + 1 = 1 /\ 0 \in Nat
      OBVIOUS
    <3> QED
      BY <3>1, <3>2, <3>3
  <2>4. ASSUME NEW j \in 0 .. n - 1, j \in D PROVE j + 1 \in D
    <3> DEFINE k == j + 1
    <3>1. j \in Nat /\ k \in Nat /\ k \in 1 .. n
      BY <1>1
    <3> SUFFICES ASSUME k + 1 <= n PROVE \E key : Lists(f[k + 1], upto(k + 1), key)
      BY <3>1
    <3>2. PICK key : Lists(f[k], upto(k), key)
      <4> HIDE DEF upto
      <4> QED
        BY <2>4, <3>1
    <3>3. k + 1 \in 1 .. n /\ k + 1 # 1 /\ (k + 1) - 1 = k
      BY <3>1
    <3> HIDE DEF k
    <3>4. PICK last : Lists(ss[k + 1], R[k + 1], last)
      BY <3>3 DEF n
    <3>5. f[k + 1] = f[k] \o ss[k + 1] /\ f[k] \in Seq(S) /\ ss[k + 1] \in Seq(S)
      BY <1>1, <2>1, <3>1, <3>3
    <3>6. upto(k + 1) = upto(k) \cup R[k + 1]
      <4>1. 1 .. k + 1 = (1 .. k) \cup {k + 1}
        BY <3>1
      <4> QED
        BY <4>1
    <3>7. \A r \in upto(k), q \in R[k + 1] : Earlier(r[1], q[1])
      <4> SUFFICES ASSUME NEW r \in upto(k), NEW q \in R[k + 1] PROVE Earlier(r[1], q[1])
        OBVIOUS
      <4>1. PICK i \in 1 .. k : r \in R[i]
        OBVIOUS
      <4>2. i \in 1 .. n /\ i < k + 1
        BY <1>1, <3>1
      <4> QED
        BY <3>3, <4>1, <4>2 DEF n
    <3> HIDE DEF upto
    <3>8. Lists(f[k] \o ss[k + 1], upto(k) \cup R[k + 1], key \o last)
      BY <3>2, <3>4, <3>5, <3>7, ListsConcat
    <3> QED
      BY <3>5, <3>6, <3>8
  <2> HIDE DEF D
  <2>5. \A j \in 0 .. n : j \in D
    BY <1>1, <2>3, <2>4, Upwards
  <2>6. n - 1 \in D /\ n - 1 \in Nat /\ (n - 1) + 1 = n /\ n <= n
    BY <1>1, <2>2, <2>5
  <2> HIDE DEF upto
  <2>7. \E key : Lists(f[n], upto(n), key)
    BY <2>6 DEF D
  <2> QED
    BY <2>1, <2>7 DEF upto, n
<1> QED
  BY <1>2, <1>3

-----------------------------------------------------------------------------
(* Cores whose shared operations come in the same order, at the same keys.  *)

\* Position x of core c and position y of core d are the same operation, and
\* both cores have carried it out, or neither.
OneOperation(key, c, x, d, y) ==
  prog[d][y] = prog[c][x] /\ key[d][y] = key[c][x] /\ (y < pc[d] <=> x < pc[c])

RunsInStep(key) ==
  \A c \in DOMAIN pc :
    /\ pc[c] \in Nat \ {0} /\ Len(prog[c]) \in Nat
    /\ \A x \in 1 .. Len(prog[c]) : key[c][x] \in Keys
    /\ \A x, y \in 1 .. Len(prog[c]) : x < y => Earlier(key[c][x], key[c][y])
    /\ \A x \in 1 .. Len(prog[c]) :
         LET o == prog[c][x].op
         IN  /\ c \in region[c][o]
             /\ \A d \in region[c][o] :
                  /\ d \in DOMAIN pc /\ region[d][o] = region[c][o]
                  /\ \E y \in 1 .. Len(prog[d]) : OneOperation(key, c, x, d, y)

\* A key tells the position of a core.
LEMMA KeyOnce ==
  ASSUME NEW key, RunsInStep(key), NEW c \in DOMAIN pc,
         NEW x \in 1 .. Len(prog[c]), NEW y \in 1 .. Len(prog[c]), key[c][x] = key[c][y]
  PROVE  x = y
<1>1. x \in Nat /\ y \in Nat /\ key[c][x] \in Keys /\ key[c][y] \in Keys
  BY DEF RunsInStep
<1>2. x < y => Earlier(key[c][x], key[c][y])
  BY DEF RunsInStep
<1>3. y < x => Earlier(key[c][y], key[c][x])
  BY DEF RunsInStep
<1>4. ~ Earlier(key[c][x], key[c][x])
  BY <1>1, KeysOrdered
<1> QED
  BY <1>1, <1>2, <1>3, <1>4

\* A core that has not come to its end is at one of its positions.
LEMMA NotDone ==
  ASSUME NEW key, RunsInStep(key), NEW c \in DOMAIN pc
  PROVE  /\ pc[c] \in Nat /\ Len(prog[c]) \in Nat
         /\ Done(c) \/ pc[c] \in 1 .. Len(prog[c])
<1>1. pc[c] \in Nat \ {0} /\ Len(prog[c]) \in Nat
  BY DEF RunsInStep
<1> QED
  BY <1>1 DEF Done

\* Who waits for an operation has it ahead, at the key that the others have it at.
LEMMA Ahead ==
  ASSUME NEW key, RunsInStep(key), NEW c \in DOMAIN pc, ~ Done(c), NEW d \in Sharing(c)
  PROVE  /\ d \in DOMAIN pc /\ ~ Done(d) /\ pc[d] \in 1 .. Len(prog[d])
         /\ region[d][NextOp(c).op] = Sharing(c) /\ c \in Sharing(c)
         /\ \E y \in 1 .. Len(prog[d]) :
              y >= pc[d] /\ prog[d][y] = NextOp(c) /\ key[d][y] = key[c][pc[c]]
<1>1. pc[c] \in Nat /\ pc[c] \in 1 .. Len(prog[c]) /\ ~ (pc[c] < pc[c])
  BY NotDone
<1>2. /\ d \in DOMAIN pc /\ region[d][NextOp(c).op] = Sharing(c) /\ c \in Sharing(c)
      /\ \E y \in 1 .. Len(prog[d]) : OneOperation(key, c, pc[c], d, y)
  BY <1>1 DEF RunsInStep, Sharing, NextOp
<1>3. PICK y \in 1 .. Len(prog[d]) : OneOperation(key, c, pc[c], d, y)
  BY <1>2
<1>4. pc[d] \in Nat /\ Len(prog[d]) \in Nat /\ (Done(d) \/ pc[d] \in 1 .. Len(prog[d]))
  BY <1>2, NotDone
<1>5. y >= pc[d]
  BY <1>1, <1>3, <1>4 DEF OneOperation
<1>6. ~ Done(d)
  BY <1>4, <1>5 DEF Done
<1> QED
  BY <1>2, <1>3, <1>4, <1>5, <1>6 DEF OneOperation, NextOp

\* When an operation can be carried out all its cores are at it.
LEMMA AllAreThere ==
  ASSUME NEW key, RunsInStep(key), NEW c \in DOMAIN pc, CanFire(c), NEW d \in Sharing(c)
  PROVE  NextOp(d) = NextOp(c) /\ key[d][pc[d]] = key[c][pc[c]]
<1>0. ~ Done(c) /\ NextOp(d).op = NextOp(c).op
  BY DEF CanFire
<1>1. /\ d \in DOMAIN pc /\ ~ Done(d) /\ pc[d] \in 1 .. Len(prog[d])
      /\ region[d][NextOp(c).op] = Sharing(c) /\ c \in Sharing(c)
  BY <1>0, Ahead
<1>2. PICK y \in 1 .. Len(prog[d]) :
        y >= pc[d] /\ prog[d][y] = NextOp(c) /\ key[d][y] = key[c][pc[c]]
  BY <1>0, Ahead
<1>3. c \in Sharing(d)
  BY <1>0, <1>1 DEF Sharing
<1>4. PICK x \in 1 .. Len(prog[c]) :
        x >= pc[c] /\ prog[c][x] = NextOp(d) /\ key[c][x] = key[d][pc[d]]
  BY <1>1, <1>3, Ahead
<1>5. pc[c] \in 1 .. Len(prog[c])
  BY <1>0, NotDone
<1>6. key[c][pc[c]] \in Keys /\ key[d][pc[d]] \in Keys
  BY <1>1, <1>5 DEF RunsInStep
<1>7. pc[d] < y => Earlier(key[d][pc[d]], key[d][y])
  BY <1>1, <1>2 DEF RunsInStep
<1>8. pc[c] < x => Earlier(key[c][pc[c]], key[c][x])
  BY <1>4, <1>5 DEF RunsInStep
<1>9. ~ (pc[d] < y)
  <2> SUFFICES ASSUME pc[d] < y PROVE FALSE
    OBVIOUS
  <2>1. Earlier(key[d][pc[d]], key[c][pc[c]])
    BY <1>2, <1>7
  <2>2. key[c][pc[c]] # key[d][pc[d]]
    BY <1>6, <2>1, KeysOrdered
  <2>3. pc[c] < x
    <3>1. x # pc[c]
      BY <1>4, <2>2
    <3>2. x \in Nat /\ pc[c] \in Nat
      BY <1>4, <1>5
    <3> QED
      BY <1>4, <3>1, <3>2
  <2>4. Earlier(key[c][pc[c]], key[d][pc[d]])
    BY <1>4, <1>8, <2>3
  <2> QED
    BY <1>6, <2>1, <2>4, KeysOrdered
<1>10. y = pc[d]
  <2>1. y \in Nat /\ pc[d] \in Nat
    BY <1>1, <1>2
  <2> QED
    BY <1>2, <1>9, <2>1
<1> QED
  BY <1>2, <1>10 DEF NextOp

\* The next operations of the cores have a first one, and it can be carried out.
LEMMA FirstCanFire ==
  ASSUME NEW key, RunsInStep(key), NEW e \in DOMAIN pc, ~ Done(e)
  PROVE  \E c \in DOMAIN pc : CanFire(c)
<1> DEFINE W == {c \in DOMAIN pc : ~ Done(c)}
           T == {key[c][pc[c]] : c \in W}
<1>1. \A c \in W : pc[c] \in 1 .. Len(prog[c]) /\ key[c][pc[c]] \in Keys
  <2> SUFFICES ASSUME NEW c \in W PROVE pc[c] \in 1 .. Len(prog[c]) /\ key[c][pc[c]] \in Keys
    OBVIOUS
  <2>1. pc[c] \in 1 .. Len(prog[c])
    BY NotDone
  <2> QED
    BY <2>1 DEF RunsInStep
<1>2. T \in SUBSET Keys /\ T # {}
  BY <1>1
<1> HIDE DEF T
<1>3. PICK a \in T : \A b \in T : ~ Earlier(b, a)
  BY <1>2, FirstKey
<1>4. PICK c \in W : a = key[c][pc[c]]
  BY <1>3 DEF T
<1>5. ASSUME NEW d \in Sharing(c) PROVE ~ Done(d) /\ NextOp(d).op = NextOp(c).op
  <2>1. c \in DOMAIN pc /\ ~ Done(c)
    BY <1>4
  <2>2. d \in DOMAIN pc /\ ~ Done(d) /\ pc[d] \in 1 .. Len(prog[d])
    BY <2>1, Ahead
  <2>3. PICK y \in 1 .. Len(prog[d]) :
          y >= pc[d] /\ prog[d][y] = NextOp(c) /\ key[d][y] = key[c][pc[c]]
    BY <2>1, Ahead
  <2>4. key[d][pc[d]] \in T
    BY <2>2 DEF T
  <2>5. pc[d] < y => Earlier(key[d][pc[d]], key[d][y])
    BY <2>2, <2>3 DEF RunsInStep
  <2>6. ~ Earlier(key[d][pc[d]], key[d][y])
    BY <1>3, <1>4, <2>3, <2>4
  <2>7. y = pc[d]
    <3>1. y \in Nat /\ pc[d] \in Nat
      BY <2>2, <2>3
    <3> QED
      BY <2>3, <2>5, <2>6, <3>1
  <2> QED
    BY <2>2, <2>3, <2>7 DEF NextOp
<1> QED
  BY <1>4, <1>5 DEF CanFire

\* Carrying out an operation moves all its cores past it.
LEMMA FireInStep ==
  ASSUME NEW key, RunsInStep(key), NEW c \in DOMAIN pc, Fire(c)
  PROVE  RunsInStep(key)'
<1> DEFINE S == Sharing(c)
           o == NextOp(c).op
           a == key[c][pc[c]]
<1>1. /\ CanFire(c) /\ ~ Done(c) /\ UNCHANGED <<region, prog>>
      /\ pc' = [d \in DOMAIN pc |-> IF d \in S THEN pc[d] + 1 ELSE pc[d]]
  BY DEF Fire, CanFire
<1>2. ASSUME NEW d \in S
      PROVE  /\ d \in DOMAIN pc /\ pc[d] \in 1 .. Len(prog[d]) /\ region[d][o] = S
             /\ prog[d][pc[d]].op = o /\ key[d][pc[d]] = a
  <2>1. NextOp(d) = NextOp(c) /\ key[d][pc[d]] = key[c][pc[c]]
    BY <1>1, AllAreThere
  <2> QED
    BY <1>1, <2>1, Ahead DEF NextOp
<1>3. /\ DOMAIN pc' = DOMAIN pc /\ region' = region /\ prog' = prog
      /\ \A d \in DOMAIN pc : pc'[d] = IF d \in S THEN pc[d] + 1 ELSE pc[d]
  BY <1>1
<1> HIDE DEF S, o, a
<1>4. ASSUME NEW b \in DOMAIN pc, NEW x \in 1 .. Len(prog[b]),
             NEW d \in region[b][prog[b][x].op], d \in DOMAIN pc,
             NEW y \in 1 .. Len(prog[d]), OneOperation(key, b, x, d, y),
             region[d][prog[b][x].op] = region[b][prog[b][x].op], b \in region[b][prog[b][x].op]
      PROVE  y < pc'[d] <=> x < pc'[b]
  <2>1. /\ prog[d][y] = prog[b][x] /\ key[d][y] = key[b][x] /\ (y < pc[d] <=> x < pc[b])
        /\ x \in Nat /\ y \in Nat
    BY <1>4 DEF OneOperation
  <2>2. pc[b] \in Nat /\ pc[d] \in Nat
    BY <1>4, NotDone
  <2>3. b \in S /\ x = pc[b] => d \in S /\ y = pc[d]
    <3> SUFFICES ASSUME b \in S, x = pc[b] PROVE d \in S /\ y = pc[d]
      OBVIOUS
    <3>1. prog[b][x].op = o /\ region[b][o] = S /\ key[b][x] = a
      BY <1>2
    <3>2. d \in S
      BY <3>1
    <3>3. pc[d] \in 1 .. Len(prog[d]) /\ key[d][pc[d]] = key[d][y]
      BY <1>2, <2>1, <3>1, <3>2
    <3> QED
      BY <1>4, <3>2, <3>3, KeyOnce
  <2>4. d \in S /\ y = pc[d] => b \in S /\ x = pc[b]
    <3> SUFFICES ASSUME d \in S, y = pc[d] PROVE b \in S /\ x = pc[b]
      OBVIOUS
    <3>1. prog[d][y].op = o /\ region[d][o] = S /\ key[d][y] = a
      BY <1>2
    <3>2. b \in S
      BY <1>4, <2>1, <3>1
    <3>3. pc[b] \in 1 .. Len(prog[b]) /\ key[b][pc[b]] = key[b][x]
      BY <1>2, <2>1, <3>1, <3>2
    <3> QED
      BY <3>2, <3>3, KeyOnce
  <2>5. x < pc'[b] <=> x < pc[b] \/ (b \in S /\ x = pc[b])
    <3>1. pc'[b] = IF b \in S THEN pc[b] + 1 ELSE pc[b]
      BY <1>3
    <3> QED
      BY <2>1, <2>2, <3>1
  <2>6. y < pc'[d] <=> y < pc[d] \/ (d \in S /\ y = pc[d])
    <3>1. pc'[d] = IF d \in S THEN pc[d] + 1 ELSE pc[d]
      BY <1>3, <1>4
    <3> QED
      BY <2>1, <2>2, <3>1
  <2> QED
    BY <2>1, <2>3, <2>4, <2>5, <2>6
<1>5. ASSUME NEW b \in DOMAIN pc PROVE pc'[b] \in Nat \ {0} /\ Len(prog[b]) \in Nat
  <2>1. pc[b] \in Nat \ {0} /\ Len(prog[b]) \in Nat
    BY DEF RunsInStep
  <2> QED
    BY <1>3, <2>1
<1>6. ASSUME NEW b \in DOMAIN pc, NEW x \in 1 .. Len(prog[b])
      PROVE  LET p == prog[b][x].op
             IN  /\ b \in region[b][p]
                 /\ \A d \in region[b][p] :
                      /\ d \in DOMAIN pc /\ region[d][p] = region[b][p]
                      /\ \E y \in 1 .. Len(prog[d]) :
                           prog[d][y] = prog[b][x] /\ key[d][y] = key[b][x] /\ (y < pc'[d] <=> x < pc'[b])
  <2> DEFINE p == prog[b][x].op
  <2>1. b \in region[b][p]
    BY DEF RunsInStep
  <2>2. ASSUME NEW d \in region[b][p]
        PROVE  /\ d \in DOMAIN pc /\ region[d][p] = region[b][p]
               /\ \E y \in 1 .. Len(prog[d]) :
                    prog[d][y] = prog[b][x] /\ key[d][y] = key[b][x] /\ (y < pc'[d] <=> x < pc'[b])
    <3>1. d \in DOMAIN pc /\ region[d][p] = region[b][p]
      BY DEF RunsInStep
    <3>2. PICK y \in 1 .. Len(prog[d]) : OneOperation(key, b, x, d, y)
      BY DEF RunsInStep
    <3>3. y < pc'[d] <=> x < pc'[b]
      BY <1>4, <2>1, <3>1, <3>2
    <3> QED
      BY <3>1, <3>2, <3>3 DEF OneOperation
  <2> QED
    BY <2>1, <2>2
<1>7. ASSUME NEW b \in DOMAIN pc
      PROVE  /\ \A x \in 1 .. Len(prog[b]) : key[b][x] \in Keys
             /\ \A x, y \in 1 .. Len(prog[b]) : x < y => Earlier(key[b][x], key[b][y])
  BY DEF RunsInStep
<1>8. ASSUME NEW b \in DOMAIN pc', NEW x \in 1 .. Len(prog'[b])
      PROVE  LET p == prog'[b][x].op
             IN  /\ b \in region'[b][p]
                 /\ \A d \in region'[b][p] :
                      /\ d \in DOMAIN pc' /\ region'[d][p] = region'[b][p]
                      /\ \E y \in 1 .. Len(prog'[d]) : OneOperation(key, b, x, d, y)'
  BY <1>3, <1>6 DEF OneOperation
<1>9. ASSUME NEW b \in DOMAIN pc'
      PROVE  /\ pc'[b] \in Nat \ {0} /\ Len(prog'[b]) \in Nat
             /\ \A x \in 1 .. Len(prog'[b]) : key[b][x] \in Keys
             /\ \A x, y \in 1 .. Len(prog'[b]) : x < y => Earlier(key[b][x], key[b][y])
  BY <1>3, <1>5, <1>7
<1> QED
  BY <1>8, <1>9 DEF RunsInStep

-----------------------------------------------------------------------------
(* What a core does, by key: the waves, in a wave the loads before the      *)
(* sequential loop, the turns of the loop and the gather.                   *)

Entries == [op : Nat, turn : Nat, tile : [Iters -> Nat]]
Views(read) == {v \in DOMAIN kernel.views : kernel.views[v].read = read}
Load(v, n, j) ==
  [op |-> v, turn |-> j,
   tile |-> [i \in Iters |-> IF i \in kernel.views[v].deps THEN n[i] ELSE 0]]
Turns(n) == (LoopTo(n) + 1) - LoopFrom(n)

LoadsAt(read, n, j, a, b) == {<< <<a, b, v>>, Load(v, n, j) >> : v \in Views(read)}
InsideAt(n, a) == UNION {LoadsAt("inside", n, LoopFrom(n) + t - 1, a, t) : t \in 1 .. Turns(n)}
GatherAt(n, a) ==
  IF kernel.red = 0 THEN {}
  ELSE {<< <<a, 0, 0>>, [op |-> 0, turn |-> 0, tile |-> [n EXCEPT ![kernel.red] = 0]] >>}
IterationAt(n, k) ==
  (LoadsAt("before", n, 0, 3 * k, 0) \cup InsideAt(n, 3 * k + 1)) \cup GatherAt(n, 3 * k + 2)
ProgramAt(c) ==
  UNION {IterationAt(IterationOf(c, WaveOrder[k]), k) : k \in 1 .. Product(waves)}

\* The sequential loop and the views of the kernel.
LEMMA ProgramFacts ==
  ASSUME kernel \in Kernels
  PROVE  /\ Len(kernel.views) \in Nat /\ DOMAIN kernel.views = 1 .. Len(kernel.views)
         /\ \A v \in DOMAIN kernel.views : kernel.views[v].deps \subseteq Iters
         /\ kernel.loop.lower \in {0} \cup Iters /\ kernel.loop.upper \in {0} \cup Iters
         /\ kernel.loop.trips \in Nat
<1>1. KernelOK(kernel) /\ ProgramOK(kernel)
  BY KernelsAssumption, ProgramsAssumption
<1> QED
  BY <1>1 DEF KernelOK, ProgramOK, Iters

\* One entry at its key.
LEMMA ListsOne ==
  ASSUME NEW e, NEW k \in Keys
  PROVE  Lists(<<e>>, {<<k, e>>}, <<k>>)
<1> DEFINE s == <<e>>
           key == <<k>>
           R == {<<k, e>>}
<1>1. /\ key \in Seq(Keys) /\ Len(key) = 1 /\ Len(s) = 1 /\ 1 .. 1 = {1}
      /\ key[1] = k /\ s[1] = e
  OBVIOUS
<1>2. <<k, e>> \in R /\ \A r \in R : r = <<k, e>>
  OBVIOUS
<1> HIDE DEF s, key, R
<1>3. \A x, y \in {1} : ~ (x < y)
  OBVIOUS
<1>4. Lists(s, R, key)
  BY <1>1, <1>2, <1>3 DEF Lists
<1> QED
  BY <1>4 DEF s, key, R

\* The loads of one kind come in the order of the views.
LEMMA LoadsListed ==
  ASSUME kernel \in Kernels, NEW n \in [Iters -> Nat], NEW j \in Nat, NEW read,
         NEW a \in Nat, NEW b \in Nat
  PROVE  /\ Loads(read, n, j) \in Seq(Entries)
         /\ \E key : Lists(Loads(read, n, j), LoadsAt(read, n, j, a, b), key)
<1> DEFINE N == Len(kernel.views)
           ss == [v \in 1 .. N |-> IF kernel.views[v].read # read THEN <<>> ELSE <<Load(v, n, j)>>]
           R == [v \in 1 .. N |-> IF kernel.views[v].read # read THEN {}
                                  ELSE {<< <<a, b, v>>, Load(v, n, j) >>}]
<1>1. N \in Nat /\ DOMAIN kernel.views = 1 .. N
  BY ProgramFacts
<1>2. Loads(read, n, j) = FlattenSeq(ss)
  BY <1>1 DEF Loads, Load
<1>3. \A v \in 1 .. N : Load(v, n, j) \in Entries
  BY DEF Load, Entries
<1>4. \A v \in 1 .. N : ss[v] \in Seq(Entries)
  BY <1>3
<1>5. ss \in Seq(Seq(Entries)) /\ Len(ss) = N
  <2>1. ss = [v \in 1 .. N |-> ss[v]]
    OBVIOUS
  <2> HIDE DEF ss, N
  <2>2. ss \in [1 .. N -> Seq(Entries)]
    BY <1>4, <2>1
  <2> QED
    BY <1>1, <2>2
<1>6. ASSUME NEW v \in 1 .. N PROVE \E key : Lists(ss[v], R[v], key)
  <2>1. CASE kernel.views[v].read # read
    BY <2>1, ListsNothing
  <2>2. CASE kernel.views[v].read = read
    <3>1. <<a, b, v>> \in Keys
      BY <1>1 DEF Keys
    <3>2. ss[v] = <<Load(v, n, j)>> /\ R[v] = {<< <<a, b, v>>, Load(v, n, j) >>}
      BY <2>2
    <3> QED
      BY <3>1, <3>2, ListsOne
  <2> QED
    BY <2>1, <2>2
<1>7. ASSUME NEW v \in 1 .. N, NEW w \in 1 .. N, v < w, NEW r \in R[v], NEW q \in R[w]
      PROVE  Earlier(r[1], q[1])
  BY <1>1, <1>7 DEF Earlier
<1>8. UNION {R[v] : v \in 1 .. N} = LoadsAt(read, n, j, a, b)
  BY <1>1 DEF LoadsAt, Views
<1> HIDE DEF ss, R, N
<1>9. FlattenSeq(ss) \in Seq(Entries)
  BY <1>5, FlattenSeqElements
<1>10. \E key : Lists(FlattenSeq(ss), UNION {R[v] : v \in 1 .. Len(ss)}, key)
  BY <1>5, <1>6, <1>7, FlattenLists
<1> QED
  BY <1>2, <1>5, <1>8, <1>9, <1>10

\* The bounds of the sequential loop.
LEMMA LoopBounds ==
  ASSUME kernel \in Kernels, NEW n \in [Iters -> Nat]
  PROVE  /\ LoopFrom(n) \in Nat /\ Turns(n) \in Int
         /\ \E m \in Nat : 1 .. Turns(n) = 1 .. m
<1>1. LoopFrom(n) \in Nat
  BY ProgramFacts DEF LoopFrom
<1>2. LoopTo(n) \in Int
  BY ProgramFacts DEF LoopTo
<1>3. Turns(n) \in Int
  BY <1>1, <1>2 DEF Turns
<1>4. ASSUME NEW x \in Int PROVE \E m \in Nat : 1 .. x = 1 .. m
  <2>1. CASE x \in Nat
    BY <2>1
  <2>2. CASE x \notin Nat
    <3>1. 1 .. x = 1 .. 0
      BY <2>2
    <3> QED
      BY <3>1
  <2> QED
    BY <2>1, <2>2
<1> QED
  BY <1>1, <1>3, <1>4

\* The loads inside the loop come turn by turn.
LEMMA InsideListed ==
  ASSUME kernel \in Kernels, NEW n \in [Iters -> Nat], NEW a \in Nat
  PROVE  LET s == FlattenSeq([t \in 1 .. Turns(n) |-> Loads("inside", n, LoopFrom(n) + t - 1)])
         IN  s \in Seq(Entries) /\ \E key : Lists(s, InsideAt(n, a), key)
<1> DEFINE ss == [t \in 1 .. Turns(n) |-> Loads("inside", n, LoopFrom(n) + t - 1)]
           R == [t \in 1 .. Turns(n) |-> LoadsAt("inside", n, LoopFrom(n) + t - 1, a, t)]
<1>1. PICK m \in Nat : 1 .. Turns(n) = 1 .. m
  BY LoopBounds
<1>2. \A t \in 1 .. m : t \in Nat /\ LoopFrom(n) + t - 1 \in Nat
  <2>1. LoopFrom(n) \in Nat
    BY LoopBounds
  <2> QED
    BY <2>1
<1>3. ASSUME NEW t \in 1 .. m PROVE ss[t] \in Seq(Entries) /\ \E key : Lists(ss[t], R[t], key)
  <2>1. ss[t] = Loads("inside", n, LoopFrom(n) + t - 1)
        /\ R[t] = LoadsAt("inside", n, LoopFrom(n) + t - 1, a, t)
    BY <1>1
  <2>2. t \in Nat /\ LoopFrom(n) + t - 1 \in Nat
    BY <1>2
  <2> HIDE DEF ss, R
  <2> QED
    BY <2>1, <2>2, LoadsListed
<1>4. ss \in Seq(Seq(Entries)) /\ Len(ss) = m
  <2>1. ss = [t \in 1 .. m |-> ss[t]]
    BY <1>1
  <2> HIDE DEF ss
  <2>2. ss \in [1 .. m -> Seq(Entries)]
    BY <1>3, <2>1
  <2> QED
    BY <2>2
<1>5. ASSUME NEW t \in 1 .. m, NEW u \in 1 .. m, t < u, NEW r \in R[t], NEW q \in R[u]
      PROVE  Earlier(r[1], q[1])
  <2>1. r[1][1] = a /\ r[1][2] = t /\ q[1][1] = a /\ q[1][2] = u
    <3>1. \A z \in 1 .. m : \A x \in R[z] : x[1][1] = a /\ x[1][2] = z
      <4> SUFFICES ASSUME NEW z \in 1 .. m, NEW x \in R[z] PROVE x[1][1] = a /\ x[1][2] = z
        OBVIOUS
      <4>1. R[z] = LoadsAt("inside", n, LoopFrom(n) + z - 1, a, z)
        BY <1>1
      <4> QED
        BY <4>1 DEF LoadsAt
    <3> HIDE DEF R
    <3> QED
      BY <1>5, <3>1
  <2> HIDE DEF R
  <2> QED
    BY <1>2, <1>5, <2>1 DEF Earlier
<1>6. UNION {R[t] : t \in 1 .. m} = InsideAt(n, a)
  BY <1>1 DEF InsideAt
<1> HIDE DEF ss, R
<1>7. FlattenSeq(ss) \in Seq(Entries)
  BY <1>4, FlattenSeqElements
<1>8. \E key : Lists(FlattenSeq(ss), UNION {R[t] : t \in 1 .. Len(ss)}, key)
  BY <1>3, <1>4, <1>5, FlattenLists
<1> QED
  BY <1>4, <1>6, <1>7, <1>8 DEF ss

\* The gather, if there is one.
LEMMA GatherListed ==
  ASSUME kernel \in Kernels, NEW n \in [Iters -> Nat], NEW a \in Nat
  PROVE  Gather(n) \in Seq(Entries) /\ \E key : Lists(Gather(n), GatherAt(n, a), key)
<1>1. CASE kernel.red = 0
  BY <1>1, ListsNothing DEF Gather, GatherAt
<1>2. CASE kernel.red # 0
  <2> DEFINE e == [op |-> 0, turn |-> 0, tile |-> [n EXCEPT ![kernel.red] = 0]]
  <2>1. e \in Entries
    BY DEF Entries
  <2>2. <<a, 0, 0>> \in Keys
    BY DEF Keys
  <2>3. Gather(n) = <<e>> /\ GatherAt(n, a) = {<< <<a, 0, 0>>, e >>}
    BY <1>2 DEF Gather, GatherAt
  <2> HIDE DEF e
  <2>4. <<e>> \in Seq(Entries)
    BY <2>1
  <2> QED
    BY <2>2, <2>3, <2>4, ListsOne
<1> QED
  BY <1>1, <1>2

\* One iteration.
LEMMA IterationListed ==
  ASSUME kernel \in Kernels, NEW n \in [Iters -> Nat], NEW k \in Nat
  PROVE  /\ Iteration(n) \in Seq(Entries)
         /\ \E key : Lists(Iteration(n), IterationAt(n, k), key)
         /\ \A r \in IterationAt(n, k) : r[1][1] \in {3 * k, 3 * k + 1, 3 * k + 2}
<1> DEFINE s == Loads("before", n, 0)
           t == FlattenSeq([x \in 1 .. Turns(n) |-> Loads("inside", n, LoopFrom(n) + x - 1)])
           g == Gather(n)
           S == LoadsAt("before", n, 0, 3 * k, 0)
           T == InsideAt(n, 3 * k + 1)
           G == GatherAt(n, 3 * k + 2)
<1>0. 0 \in Nat /\ 3 * k \in Nat /\ 3 * k + 1 \in Nat /\ 3 * k + 2 \in Nat
  OBVIOUS
<1>1. Iteration(n) = (s \o t) \o g /\ IterationAt(n, k) = (S \cup T) \cup G
  BY DEF Iteration, IterationAt, Turns
<1>2. s \in Seq(Entries) /\ \E key : Lists(s, S, key)
  BY <1>0, LoadsListed
<1>3. t \in Seq(Entries) /\ \E key : Lists(t, T, key)
  BY <1>0, InsideListed
<1>4. g \in Seq(Entries) /\ \E key : Lists(g, G, key)
  BY <1>0, GatherListed
<1>5. /\ \A r \in S : r[1][1] = 3 * k
      /\ \A r \in T : r[1][1] = 3 * k + 1
      /\ \A r \in G : r[1][1] = 3 * k + 2
  BY DEF LoadsAt, InsideAt, GatherAt
<1> HIDE DEF s, t, g, S, T, G
<1>6. \A r \in S, q \in T : Earlier(r[1], q[1])
  BY <1>0, <1>5 DEF Earlier
<1>7. \A r \in S \cup T, q \in G : Earlier(r[1], q[1])
  BY <1>0, <1>5 DEF Earlier
<1>8. PICK ks, kt, kg : Lists(s, S, ks) /\ Lists(t, T, kt) /\ Lists(g, G, kg)
  BY <1>2, <1>3, <1>4
<1>9. Lists(s \o t, S \cup T, ks \o kt)
  BY <1>2, <1>3, <1>6, <1>8, ListsConcat
<1>10. s \o t \in Seq(Entries) /\ (s \o t) \o g \in Seq(Entries)
  BY <1>2, <1>3, <1>4
<1>11. Lists((s \o t) \o g, (S \cup T) \cup G, (ks \o kt) \o kg)
  BY <1>4, <1>7, <1>8, <1>9, <1>10, ListsConcat
<1> QED
  BY <1>1, <1>5, <1>10, <1>11

\* All iterations of a core, whatever they are.
LEMMA ProgramListed ==
  ASSUME kernel \in Kernels, Product(waves) \in Nat, NEW c,
         \A k \in 1 .. Product(waves) : IterationOf(c, WaveOrder[k]) \in [Iters -> Nat]
  PROVE  Program(c) \in Seq(Entries) /\ \E key : Lists(Program(c), ProgramAt(c), key)
<1> DEFINE K == Product(waves)
           n(k) == IterationOf(c, WaveOrder[k])
           ss == [k \in 1 .. K |-> Iteration(n(k))]
           R == [k \in 1 .. K |-> IterationAt(n(k), k)]
<1>1. Program(c) = FlattenSeq(ss)
  BY DEF Program, WaveOrder
<1>2. ASSUME NEW k \in 1 .. K
      PROVE  /\ ss[k] \in Seq(Entries) /\ \E key : Lists(ss[k], R[k], key)
             /\ \A r \in R[k] : r[1][1] \in {3 * k, 3 * k + 1, 3 * k + 2}
  <2>1. ss[k] = Iteration(n(k)) /\ R[k] = IterationAt(n(k), k) /\ n(k) \in [Iters -> Nat] /\ k \in Nat
    OBVIOUS
  <2> HIDE DEF ss, R, n
  <2> QED
    BY <2>1, IterationListed
<1>3. ss \in Seq(Seq(Entries)) /\ Len(ss) = K
  <2>1. ss = [k \in 1 .. K |-> ss[k]]
    OBVIOUS
  <2> HIDE DEF ss, K
  <2>2. ss \in [1 .. K -> Seq(Entries)]
    BY <1>2, <2>1
  <2>3. K \in Nat
    BY DEF K
  <2> QED
    BY <2>2, <2>3
<1>4. UNION {R[k] : k \in 1 .. K} = ProgramAt(c)
  BY DEF ProgramAt
<1> HIDE DEF ss, R, n
<1>5. ASSUME NEW k \in 1 .. K, NEW l \in 1 .. K, k < l, NEW r \in R[k], NEW q \in R[l]
      PROVE  Earlier(r[1], q[1])
  <2>1. k \in Nat /\ l \in Nat /\ r[1][1] \in {3 * k, 3 * k + 1, 3 * k + 2}
        /\ q[1][1] \in {3 * l, 3 * l + 1, 3 * l + 2}
    BY <1>2
  <2>2. r[1][1] < q[1][1]
    BY <1>5, <2>1
  <2> QED
    BY <2>2 DEF Earlier
<1> HIDE DEF K
<1>6. FlattenSeq(ss) \in Seq(Entries)
  BY <1>3, FlattenSeqElements
<1>7. \E key : Lists(FlattenSeq(ss), UNION {R[k] : k \in 1 .. Len(ss)}, key)
  BY <1>2, <1>3, <1>5, FlattenLists
<1> QED
  BY <1>1, <1>3, <1>4, <1>6, <1>7

-----------------------------------------------------------------------------
(* The waves and indices of a mapped kernel are numbers. *)

\* A product of positive numbers is positive.
LEMMA ProductPositive ==
  ASSUME NEW n \in Nat, NEW s \in [1 .. n -> Nat \ {0}]
  PROVE  Product(s) \in Nat \ {0}
<1>1. s \in [1 .. n -> Nat] /\ s = [k \in 1 .. n |-> s[k]] /\ n \in 0 .. n
  OBVIOUS
<1>2. PICK r : Products(r, s, n) /\ Product(s) = r[n]
  BY <1>1, ProductIsLast
<1>3. Radices(s, r, n)
  BY <1>1, <1>2 DEF Radices
<1> QED
  BY <1>1, <1>2, <1>3, PlaceValuesPositive

\* What the mesh starts with.
Prepared == PlaceInv /\ ReductionFirst /\ BoundsOK /\ stage = "ready"

LEMMA PreparedFacts ==
  ASSUME Prepared
  PROVE  /\ Size \in Nat \ {0} /\ Iters = 1 .. Size /\ kernel \in Kernels /\ NestOK
         /\ kernel.red \in {0} \cup Iters
         /\ \A i \in Iters : /\ Numbered(i) /\ CoresIn(nest, i) \in Nat \ {0}
                             /\ kernel.ext[i] \in Nat \ {0} /\ ub[i] \in Nat \ {0} /\ waves[i] = ub[i]
         /\ DOMAIN waves = Iters /\ waves \in [Iters -> Nat \ {0}]
<1>1. ChoicesOK /\ LoopsMade /\ kernel \in Kernels /\ stage \in HasWaves /\ nest \in Seq(Claim)
  BY DEF Prepared, PlaceInv, ChoicesOK, LoopsMade, HasWaves
<1>2. Size \in Nat \ {0} /\ Iters = 1 .. Size /\ kernel.red \in {0} \cup Iters
      /\ kernel.ext \in [Iters -> Nat \ {0}]
  BY <1>1, KernelFacts
<1>3. NestOK
  BY <1>1, LoopsAreLevels DEF Prepared, PlaceInv, Built
<1>4. ub = [i \in Iters |-> CeilDiv(kernel.ext[i], CoresIn(nest, i))] /\ waves = ub
  BY <1>1 DEF Prepared, BoundsOK
<1>5. ASSUME NEW i \in Iters
      PROVE  Numbered(i) /\ CoresIn(nest, i) \in Nat \ {0} /\ ub[i] \in Nat \ {0}
  <2>1. CoresIn(nest, i) \in Nat \ {0} /\ OneOrTwo(LoopsIn(nest, i))
    BY <1>1, LoopsSoFar
  <2>2. Numbered(i)
    BY <1>1, <2>1, EveryIteratorNumbered
  <2> DEFINE C == CoresIn(nest, i)
             N == kernel.ext[i]
  <2>3. N \in Nat \ {0} /\ C \in Nat \ {0} /\ ub[i] = CeilDiv(N, C)
    BY <1>2, <1>4, <2>1
  <2> HIDE DEF C, N
  <2>4. CeilDiv(N, C) \in Nat /\ N <= CeilDiv(N, C) * C
    BY <2>3, CeilDivBounds
  <2>5. CeilDiv(N, C) # 0
    <3> SUFFICES ASSUME CeilDiv(N, C) = 0 PROVE FALSE
      OBVIOUS
    <3>1. N <= 0 * C /\ 0 * C = 0
      BY <2>3, <2>4
    <3> QED
      BY <2>3, <3>1
  <2> QED
    BY <2>1, <2>2, <2>3, <2>4, <2>5
<1>6. DOMAIN waves = Iters /\ waves = [i \in Iters |-> waves[i]] /\ \A i \in Iters : waves[i] \in Nat \ {0}
  BY <1>4, <1>5
<1>7. waves \in [Iters -> Nat \ {0}]
  BY <1>6
<1> QED
  BY <1>1, <1>2, <1>3, <1>4, <1>5, <1>6, <1>7

\* The turns of the wave loops.
LEMMA WaveOrderNumbers ==
  ASSUME Prepared
  PROVE  /\ Product(waves) \in Nat
         /\ \A k \in 1 .. Product(waves) : WaveOrder[k] \in [Iters -> Nat]
<1>1. /\ Size \in Nat \ {0} /\ Iters = 1 .. Size /\ waves \in [Iters -> Nat \ {0}]
      /\ \A i \in Iters : waves[i] \in Nat \ {0}
  BY PreparedFacts
<1>2. Product(waves) \in Nat \ {0}
  BY <1>1, ProductPositive
<1> DEFINE K == Product(waves)
           inside(i) == Product([j \in Iters |-> IF j > i THEN waves[j] ELSE 1])
<1>3. ASSUME NEW i \in Iters PROVE inside(i) \in Nat \ {0}
  <2> DEFINE s == [j \in Iters |-> IF j > i THEN waves[j] ELSE 1]
  <2>1. s \in [1 .. Size -> Nat \ {0}] /\ Size \in Nat
    BY <1>1
  <2> HIDE DEF s
  <2>2. Product(s) \in Nat \ {0}
    BY <2>1, ProductPositive
  <2> QED
    BY <2>2 DEF s
<1>4. \A k \in 1 .. K : WaveOrder[k] = [i \in Iters |-> ((k - 1) \div inside(i)) % waves[i]]
  BY DEF WaveOrder
<1> HIDE DEF inside, K
<1>5. ASSUME NEW k \in 1 .. K, NEW i \in Iters PROVE ((k - 1) \div inside(i)) % waves[i] \in Nat
  <2>1. K \in Nat
    BY <1>2 DEF K
  <2>2. k - 1 \in Nat
    BY <2>1
  <2>3. (k - 1) \div inside(i) \in Nat
    BY <1>3, <2>2, Division
  <2>4. ((k - 1) \div inside(i)) % waves[i] \in 0 .. waves[i] - 1
    BY <1>1, <2>3, Division
  <2> QED
    BY <1>1, <2>4
<1> QED
  BY <1>2, <1>4, <1>5 DEF K

\* An index depends on the core's number only, and is one.
LEMMA IndexByNumber ==
  ASSUME Prepared, NEW i \in Iters, NEW c \in Cores, NEW w \in Nat
  PROVE  /\ IndexOf(c, w, i) \in Nat
         /\ \A d \in Cores : Number(d, i) = Number(c, i) => IndexOf(d, w, i) = IndexOf(c, w, i)
<1> DEFINE C == CoresIn(nest, i)
           N == kernel.ext[i]
           raw(m) == IF NonUnit(i) = <<>> THEN w
                     ELSE IF blocked THEN BlockedIndex(m, w, ub[i]) ELSE CyclicIndex(m, w, C)
<1>1. Numbered(i) /\ C \in Nat \ {0} /\ N \in Nat \ {0} /\ ub[i] \in Nat \ {0}
  BY PreparedFacts
<1>2. ASSUME NEW d \in Cores
      PROVE  /\ RawIndex(d, w, i) = raw(Number(d, i))
             /\ Number(d, i) \in 0 .. C - 1
  <2>1. Number(d, i) \in 0 .. C - 1 /\ (NonUnit(i) # <<>> => CoreNumber(d, i) = CoreNumber2d(d, i))
    BY <1>1 DEF Numbered
  <2> QED
    BY <2>1, CoresOnIn DEF RawIndex, Number
<1> HIDE DEF C, N
<1>3. ASSUME NEW m \in 0 .. C - 1 PROVE raw(m) \in Nat
  <2>1. m \in Nat
    BY <1>1
  <2>2. BlockedIndex(m, w, ub[i]) \in Nat
    BY <1>1, <2>1 DEF BlockedIndex
  <2>3. CyclicIndex(m, w, C) \in Nat
    BY <1>1, <2>1 DEF CyclicIndex
  <2> QED
    BY <2>2, <2>3
<1> HIDE DEF raw
<1>4. RawIndex(c, w, i) \in Nat
  BY <1>2, <1>3
<1>5. Clamped(RawIndex(c, w, i), N) \in Nat
  BY <1>1, <1>4 DEF Clamped
<1>6. IndexOf(c, w, i) \in Nat
  BY <1>4, <1>5 DEF IndexOf, N
<1>7. ASSUME NEW d \in Cores, Number(d, i) = Number(c, i) PROVE IndexOf(d, w, i) = IndexOf(c, w, i)
  <2>1. RawIndex(d, w, i) = RawIndex(c, w, i)
    BY <1>2, <1>7
  <2> QED
    BY <2>1 DEF IndexOf
<1> QED
  BY <1>6, <1>7

\* Cores that agree on the loops of an iterator run the same index of it.
LEMMA SameIndex ==
  ASSUME Prepared, NEW i \in Iters, NEW c \in Cores, NEW d \in Cores, NEW w \in Nat,
         \A n \in Loops : nest[n].iter = i /\ nest[n].size # 1 => d[n] = c[n]
  PROVE  IndexOf(d, w, i) = IndexOf(c, w, i)
<1>1. NestOK /\ Numbered(i)
  BY PreparedFacts
<1>2. ASSUME NEW n \in LoopsIn(nest, i) PROVE d[n] = c[n]
  <2>1. n \in Loops /\ nest[n].iter = i
    BY DEF LoopsIn, Loops
  <2>2. d[n] \in 0 .. nest[n].size - 1 /\ c[n] \in 0 .. nest[n].size - 1
    BY <1>1, <2>1, CoresOfNest
  <2> QED
    BY <2>1, <2>2
<1>3. Number(d, i) = Number(c, i)
  BY <1>1, <1>2, SameNumber
<1> QED
  BY <1>3, IndexByNumber

\* The iterations that a core runs.
LEMMA IterationNumbers ==
  ASSUME Prepared, NEW c \in Cores, NEW k \in 1 .. Product(waves)
  PROVE  /\ IterationOf(c, WaveOrder[k]) \in [Iters -> Nat]
         /\ \A i \in Iters : /\ WaveOrder[k][i] \in Nat
                             /\ IterationOf(c, WaveOrder[k])[i] = IndexOf(c, WaveOrder[k][i], i)
<1>1. WaveOrder[k] \in [Iters -> Nat]
  BY WaveOrderNumbers
<1>2. \A i \in Iters : WaveOrder[k][i] \in Nat
  BY <1>1
<1>3. \A i \in Iters : IndexOf(c, WaveOrder[k][i], i) \in Nat
  BY <1>2, IndexByNumber
<1> QED
  BY <1>2, <1>3 DEF IterationOf

-----------------------------------------------------------------------------
(* The cores of an operation's rectangle all have it, at the same key.      *)

\* The sequential loop starts at the same index on all cores.
SameStart == Varying({kernel.loop.lower}) = {}

\* An index that does not vary over the mesh is the same on all cores.
LEMMA IndexNotVarying ==
  ASSUME Prepared, NEW i \in Iters, Varying({i}) = {}, NEW c \in Cores, NEW d \in Cores,
         NEW k \in 1 .. Product(waves)
  PROVE  IterationOf(d, WaveOrder[k])[i] = IterationOf(c, WaveOrder[k])[i]
<1>1. \A n \in Loops : nest[n].iter = i /\ nest[n].size # 1 => d[n] = c[n]
  BY DEF Varying
<1>2. /\ WaveOrder[k][i] \in Nat
      /\ IterationOf(c, WaveOrder[k])[i] = IndexOf(c, WaveOrder[k][i], i)
      /\ IterationOf(d, WaveOrder[k])[i] = IndexOf(d, WaveOrder[k][i], i)
  BY IterationNumbers
<1> QED
  BY <1>1, <1>2, SameIndex

\* The cores that a view is broadcast to load the same tile of it.
LEMMA SameLoad ==
  ASSUME Prepared, NEW v \in DOMAIN kernel.views, NEW c \in Cores,
         NEW d \in AgreeingWith(c, SharedLoops(v)), NEW k \in 1 .. Product(waves), NEW j
  PROVE  Load(v, IterationOf(d, WaveOrder[k]), j) = Load(v, IterationOf(c, WaveOrder[k]), j)
<1> DEFINE view == kernel.views[v]
           m == IterationOf(c, WaveOrder[k])
           n == IterationOf(d, WaveOrder[k])
<1>1. v # 0 /\ view.deps \subseteq Iters
  BY ProgramFacts, PreparedFacts
<1>2. d \in Cores /\ \A l \in Loops \ Overridden(view) : d[l] = c[l]
  BY <1>1 DEF AgreeingWith, SharedLoops
<1>3. ASSUME NEW i \in view.deps PROVE n[i] = m[i]
  <2>1. ASSUME NEW l \in Loops, nest[l].iter = i, nest[l].size # 1 PROVE d[l] = c[l]
    <3>1. l \in Varying(view.deps)
      BY <2>1 DEF Varying
    <3>2. nest[l].level \in Nat
      BY PreparedFacts DEF NestOK
    <3>3. nest[l].level <= nest[l].level
      BY <3>2
    <3>4. l \notin Independent(view)
      BY <3>1, <3>3 DEF Independent
    <3> QED
      BY <1>2, <3>4 DEF Overridden
  <2>2. i \in Iters
    BY <1>1
  <2>3. WaveOrder[k][i] \in Nat /\ m[i] = IndexOf(c, WaveOrder[k][i], i)
        /\ n[i] = IndexOf(d, WaveOrder[k][i], i)
    BY <1>2, <2>2, IterationNumbers
  <2> QED
    BY <1>2, <2>1, <2>2, <2>3, SameIndex
<1> HIDE DEF m, n
<1>4. [i \in Iters |-> IF i \in view.deps THEN n[i] ELSE 0] =
        [i \in Iters |-> IF i \in view.deps THEN m[i] ELSE 0]
  BY <1>3
<1> QED
  BY <1>4 DEF Load, m, n

\* Cores that share a load inside the sequential loop have the same loop.
LEMMA SameLoop ==
  ASSUME Prepared, SameStart, NEW v \in Views("inside"), NEW c \in Cores,
         NEW d \in AgreeingWith(c, SharedLoops(v)), NEW k \in 1 .. Product(waves)
  PROVE  LET m == IterationOf(c, WaveOrder[k])
             n == IterationOf(d, WaveOrder[k])
         IN  n = m \/ (LoopFrom(n) = LoopFrom(m) /\ LoopTo(n) = LoopTo(m))
<1> DEFINE view == kernel.views[v]
           m == IterationOf(c, WaveOrder[k])
           n == IterationOf(d, WaveOrder[k])
<1>1. /\ kernel.loop.lower \in {0} \cup Iters /\ kernel.loop.upper \in {0} \cup Iters /\ v # 0
      /\ view.read = "inside"
  BY ProgramFacts, PreparedFacts DEF Views
<1>2. d \in Cores /\ \A l \in Loops \ Overridden(view) : d[l] = c[l]
  BY <1>1 DEF AgreeingWith, SharedLoops
<1>3. CASE ~ SpatialReuse(view)
  <2>1. \A l \in Loops : d[l] = c[l]
    BY <1>2, <1>3 DEF Overridden
  <2>2. d = [l \in Loops |-> d[l]] /\ c = [l \in Loops |-> c[l]]
    BY <1>2 DEF Cores
  <2>3. d = c
    BY <2>1, <2>2
  <2> QED
    BY <2>3
<1>4. CASE SpatialReuse(view)
  <2>1. Varying({kernel.loop.upper}) = {}
    BY <1>1, <1>4 DEF SpatialReuse, SkipSpatialReuse
  <2>2. kernel.loop.upper # 0 => n[kernel.loop.upper] = m[kernel.loop.upper]
    BY <1>1, <1>2, <2>1, IndexNotVarying
  <2>3. kernel.loop.lower # 0 => n[kernel.loop.lower] = m[kernel.loop.lower]
    BY <1>1, <1>2, IndexNotVarying DEF SameStart
  <2> HIDE DEF m, n
  <2>4. LoopFrom(n) = LoopFrom(m) /\ LoopTo(n) = LoopTo(m)
    BY <2>2, <2>3 DEF LoopFrom, LoopTo
  <2> QED
    BY <2>4 DEF m, n
<1> QED
  BY <1>3, <1>4

\* Cores that gather with each other gather the same result.
LEMMA SameGather ==
  ASSUME Prepared, NEW c \in Cores, NEW d \in AgreeingWith(c, GatherLoops),
         NEW k \in 1 .. Product(waves), NEW a
  PROVE  GatherAt(IterationOf(d, WaveOrder[k]), a) = GatherAt(IterationOf(c, WaveOrder[k]), a)
<1> DEFINE m == IterationOf(c, WaveOrder[k])
           n == IterationOf(d, WaveOrder[k])
           r == kernel.red
<1>1. d \in Cores /\ \A l \in Loops : nest[l].iter # r => d[l] = c[l]
  BY DEF AgreeingWith, GatherLoops
<1>2. ASSUME NEW i \in Iters, i # r PROVE n[i] = m[i]
  <2>1. WaveOrder[k][i] \in Nat /\ m[i] = IndexOf(c, WaveOrder[k][i], i)
        /\ n[i] = IndexOf(d, WaveOrder[k][i], i)
    BY <1>1, IterationNumbers
  <2>2. \A l \in Loops : nest[l].iter = i /\ nest[l].size # 1 => d[l] = c[l]
    BY <1>1, <1>2
  <2> QED
    BY <1>1, <2>1, <2>2, SameIndex
<1>3. m \in [Iters -> Nat] /\ n \in [Iters -> Nat]
  BY <1>1, IterationNumbers
<1> HIDE DEF m, n, r
<1>4. [n EXCEPT ![r] = 0] = [m EXCEPT ![r] = 0]
  BY <1>2, <1>3
<1> QED
  BY <1>4 DEF GatherAt, m, n, r

\* What core c has at a key, all cores of its rectangle have there.
LEMMA SharedByAll ==
  ASSUME Prepared, SameStart, NEW c \in Cores, NEW r \in ProgramAt(c)
  PROVE  /\ r[2].op \in Collectives
         /\ \A d \in AgreeingWith(c, SharedLoops(r[2].op)) : r \in ProgramAt(d)
<1> DEFINE o == r[2].op
<1>1. PICK k \in 1 .. Product(waves) : r \in IterationAt(IterationOf(c, WaveOrder[k]), k)
  BY DEF ProgramAt
<1> DEFINE m == IterationOf(c, WaveOrder[k])
           n(d) == IterationOf(d, WaveOrder[k])
           Found == o \in Collectives /\ \A d \in AgreeingWith(c, SharedLoops(o)) : r \in IterationAt(n(d), k)
<1>2. ASSUME r \in LoadsAt("before", m, 0, 3 * k, 0) PROVE Found
  <2>1. PICK v \in Views("before") : r = << <<3 * k, 0, v>>, Load(v, m, 0) >>
    BY <1>2 DEF LoadsAt
  <2>2. o = v /\ o \in Collectives /\ v \in DOMAIN kernel.views
    BY <2>1 DEF Load, Collectives, Views
  <2>3. ASSUME NEW d \in AgreeingWith(c, SharedLoops(v)) PROVE r \in IterationAt(n(d), k)
    <3>1. Load(v, n(d), 0) = Load(v, m, 0)
      BY <2>2, SameLoad
    <3> HIDE DEF n, m
    <3>2. r \in LoadsAt("before", n(d), 0, 3 * k, 0)
      BY <2>1, <3>1 DEF LoadsAt
    <3> QED
      BY <3>2 DEF IterationAt
  <2> QED
    BY <2>2, <2>3
<1>3. ASSUME r \in InsideAt(m, 3 * k + 1) PROVE Found
  <2>1. PICK t \in 1 .. Turns(m) : r \in LoadsAt("inside", m, LoopFrom(m) + t - 1, 3 * k + 1, t)
    BY <1>3 DEF InsideAt
  <2>2. PICK v \in Views("inside") :
          r = << <<3 * k + 1, t, v>>, Load(v, m, LoopFrom(m) + t - 1) >>
    BY <2>1 DEF LoadsAt
  <2>3. o = v /\ o \in Collectives /\ v \in DOMAIN kernel.views
    BY <2>2 DEF Load, Collectives, Views
  <2>4. ASSUME NEW d \in AgreeingWith(c, SharedLoops(v)) PROVE r \in IterationAt(n(d), k)
    <3>1. Load(v, n(d), LoopFrom(m) + t - 1) = Load(v, m, LoopFrom(m) + t - 1)
      BY <2>3, SameLoad
    <3>2. n(d) = m \/ (LoopFrom(n(d)) = LoopFrom(m) /\ LoopTo(n(d)) = LoopTo(m))
      BY SameLoop
    <3> HIDE DEF n, m
    <3>3. LoopFrom(n(d)) = LoopFrom(m) /\ Turns(n(d)) = Turns(m)
      BY <3>2 DEF Turns
    <3>4. r \in LoadsAt("inside", n(d), LoopFrom(n(d)) + t - 1, 3 * k + 1, t)
      BY <2>2, <3>1, <3>3 DEF LoadsAt
    <3>5. t \in 1 .. Turns(n(d))
      BY <3>3
    <3>6. r \in InsideAt(n(d), 3 * k + 1)
      BY <3>4, <3>5 DEF InsideAt
    <3> QED
      BY <3>6 DEF IterationAt
  <2> QED
    BY <2>3, <2>4
<1>4. ASSUME r \in GatherAt(m, 3 * k + 2) PROVE Found
  <2>1. o = 0 /\ o \in Collectives
    BY <1>4 DEF GatherAt, Collectives
  <2>2. ASSUME NEW d \in AgreeingWith(c, SharedLoops(0)) PROVE r \in IterationAt(n(d), k)
    <3>1. d \in AgreeingWith(c, GatherLoops)
      BY DEF SharedLoops
    <3>2. GatherAt(n(d), 3 * k + 2) = GatherAt(m, 3 * k + 2)
      BY <3>1, SameGather
    <3> HIDE DEF n, m
    <3> QED
      BY <1>4, <3>2 DEF IterationAt
  <2> QED
    BY <2>1, <2>2
<1>5. Found
  BY <1>1, <1>2, <1>3, <1>4 DEF IterationAt
<1> QED
  BY <1>5 DEF ProgramAt

\* When the mesh starts all cores are before their first operation.
LEMMA LaunchInStep == Prepared /\ SameStart /\ Launch => \E key : RunsInStep(key)'
<1> SUFFICES ASSUME Prepared, SameStart, Launch PROVE \E key : RunsInStep(key)'
  OBVIOUS
<1> DEFINE lists == [c \in Cores |-> CHOOSE f : Lists(Program(c), ProgramAt(c), f)]
<1>1. /\ region' = [c \in Cores |-> [o \in Collectives |-> Region(c, SharedLoops(o))]]
      /\ prog' = [c \in Cores |-> Program(c)] /\ pc' = [c \in Cores |-> 1]
  BY DEF Launch
<1>10. ASSUME NEW c \in Cores
       PROVE  Program(c) \in Seq(Entries) /\ Lists(Program(c), ProgramAt(c), lists[c])
  <2>1. kernel \in Kernels
    BY PreparedFacts
  <2>2. Product(waves) \in Nat
    BY WaveOrderNumbers
  <2>3. \A k \in 1 .. Product(waves) : IterationOf(c, WaveOrder[k]) \in [Iters -> Nat]
    BY IterationNumbers
  <2> QED
    BY <2>1, <2>2, <2>3, ProgramListed
<1> HIDE DEF lists
<1>2. PICK key : \A c \in Cores : /\ Program(c) \in Seq(Entries)
                                  /\ Lists(Program(c), ProgramAt(c), key[c])
  BY <1>10
<1>3. ASSUME NEW c \in Cores, NEW o \in Collectives
      PROVE  region'[c][o] = AgreeingWith(c, SharedLoops(o))
  <2>1. region'[c][o] = Region(c, SharedLoops(o))
    BY <1>1
  <2> QED
    BY <2>1, SharedRegion DEF Prepared
<1>4. ASSUME NEW c \in Cores
      PROVE  /\ Len(Program(c)) \in Nat
             /\ \A x \in 1 .. Len(Program(c)) : key[c][x] \in Keys
             /\ \A x, y \in 1 .. Len(Program(c)) : x < y => Earlier(key[c][x], key[c][y])
  BY <1>2 DEF Lists
<1>5. ASSUME NEW c \in Cores, NEW x \in 1 .. Len(Program(c))
      PROVE  LET o == Program(c)[x].op
             IN  /\ c \in region'[c][o]
                 /\ \A d \in region'[c][o] :
                      /\ d \in Cores /\ region'[d][o] = region'[c][o]
                      /\ \E y \in 1 .. Len(Program(d)) :
                           Program(d)[y] = Program(c)[x] /\ key[d][y] = key[c][x]
  <2> DEFINE r == <<key[c][x], Program(c)[x]>>
             o == Program(c)[x].op
             K == SharedLoops(o)
  <2>1. r \in ProgramAt(c)
    BY <1>2 DEF Lists
  <2>2. o \in Collectives /\ \A d \in AgreeingWith(c, K) : r \in ProgramAt(d)
    BY <2>1, SharedByAll
  <2> HIDE DEF K
  <2>3. region'[c][o] = AgreeingWith(c, K)
    BY <1>3, <2>2 DEF K
  <2>4. c \in AgreeingWith(c, K)
    BY DEF AgreeingWith
  <2>5. ASSUME NEW d \in AgreeingWith(c, K)
        PROVE  /\ d \in Cores /\ region'[d][o] = region'[c][o]
               /\ \E y \in 1 .. Len(Program(d)) :
                    Program(d)[y] = Program(c)[x] /\ key[d][y] = key[c][x]
    <3>1. d \in Cores /\ \A n \in Loops \ K : d[n] = c[n]
      BY DEF AgreeingWith
    <3>2. AgreeingWith(d, K) = AgreeingWith(c, K)
      BY <3>1 DEF AgreeingWith
    <3>3. region'[d][o] = AgreeingWith(d, K)
      BY <1>3, <2>2, <3>1 DEF K
    <3>4. r \in ProgramAt(d)
      BY <2>2
    <3>5. PICK y \in 1 .. Len(Program(d)) : r = <<key[d][y], Program(d)[y]>>
      BY <1>2, <3>1, <3>4 DEF Lists
    <3>6. Program(d)[y] = Program(c)[x] /\ key[d][y] = key[c][x]
      BY <3>5
    <3> QED
      BY <2>3, <3>1, <3>2, <3>3, <3>6
  <2> QED
    BY <2>3, <2>4, <2>5
<1>6. /\ DOMAIN pc' = Cores /\ \A c \in Cores : pc'[c] = 1 /\ prog'[c] = Program(c)
  BY <1>1
<1>7. ASSUME NEW c \in DOMAIN pc', NEW x \in 1 .. Len(prog'[c])
      PROVE  LET o == prog'[c][x].op
             IN  /\ c \in region'[c][o]
                 /\ \A d \in region'[c][o] :
                      /\ d \in DOMAIN pc' /\ region'[d][o] = region'[c][o]
                      /\ \E y \in 1 .. Len(prog'[d]) : OneOperation(key, c, x, d, y)'
  <2> DEFINE o == prog'[c][x].op
  <2>1. c \in Cores /\ prog'[c] = Program(c) /\ x \in 1 .. Len(Program(c)) /\ ~ (x < pc'[c])
    BY <1>6
  <2>2. /\ c \in region'[c][o]
        /\ \A d \in region'[c][o] :
             /\ d \in Cores /\ region'[d][o] = region'[c][o]
             /\ \E y \in 1 .. Len(Program(d)) :
                  Program(d)[y] = Program(c)[x] /\ key[d][y] = key[c][x]
    BY <1>5, <2>1
  <2>3. ASSUME NEW d \in region'[c][o]
        PROVE  \E y \in 1 .. Len(prog'[d]) : OneOperation(key, c, x, d, y)'
    <3>1. PICK y \in 1 .. Len(Program(d)) : Program(d)[y] = Program(c)[x] /\ key[d][y] = key[c][x]
      BY <2>2
    <3>2. d \in Cores /\ prog'[d] = Program(d) /\ pc'[d] = 1 /\ ~ (y < 1)
      BY <1>6, <2>2, <3>1
    <3> QED
      BY <2>1, <3>1, <3>2 DEF OneOperation
  <2> QED
    BY <1>6, <2>2, <2>3
<1>8. ASSUME NEW c \in DOMAIN pc'
      PROVE  /\ pc'[c] \in Nat \ {0} /\ Len(prog'[c]) \in Nat
             /\ \A x \in 1 .. Len(prog'[c]) : key[c][x] \in Keys
             /\ \A x, y \in 1 .. Len(prog'[c]) : x < y => Earlier(key[c][x], key[c][y])
  BY <1>4, <1>6
<1>9. RunsInStep(key)'
  BY <1>7, <1>8 DEF RunsInStep
<1> QED
  BY <1>9

\* Until the mesh starts, what the programs depend on; then the cores run in step.
StepInv ==
  /\ stage # "running" => PlaceInv /\ ReductionFirst
  /\ stage = "ready" => BoundsOK
  /\ stage = "running" /\ SameStart => \E key : RunsInStep(key)

LEMMA StepInit == MInit => StepInv
BY PlaceInit, ReductionInit DEF MInit, StepInv, Init

\* The mapping leaves an iterator its extent over the cores it is spread over.
LEMMA StepMapping ==
  ASSUME StepInv, Mapping
  PROVE  StepInv'
<1>1. stage # "running" /\ stage # "ready" /\ [Next]_vars
  BY DEF Mapping, Occupy, Skip, Split, Prioritise, Tile, Drop, Reconstruct,
         ConvertParallelToNested, Materialize, Reject, Next
<1>2. PlaceInv' /\ ReductionFirst' /\ MapInv
  BY <1>1, PlaceStep, ReductionStep DEF StepInv, PlaceInv
<1>3. stage' # "running"
  BY <1>2 DEF PlaceInv, ChoicesOK
<1>4. ASSUME stage' = "ready" PROVE BoundsOK'
  <2>1. Materialize
    BY <1>4 DEF Mapping, Occupy, Skip, Split, Prioritise, Tile, Drop, Reconstruct,
                ConvertParallelToNested, Reject
  <2>2. stage = "mapped" /\ UNCHANGED <<kernel, hw, blocked, nest, ub, waves>>
    BY <2>1 DEF Materialize
  <2>3. (ub = [i \in Iters |-> CeilDiv(kernel.ext[i], CoresIn(nest, i))])'
    BY <1>2, <2>2, NoLoopStep
  <2>4. waves' = ub'
    BY <1>2, <2>2 DEF MapInv, BoundsOK, HasWaves
  <2> QED
    BY <2>3, <2>4 DEF BoundsOK
<1> QED
  BY <1>2, <1>3, <1>4 DEF StepInv

LEMMA StepStep == StepInv /\ [MNext]_mvars => StepInv'
<1> SUFFICES ASSUME StepInv, [MNext]_mvars PROVE StepInv'
  OBVIOUS
<1>1. CASE Mapping
  BY <1>1, StepMapping
<1>2. CASE Launch
  <2>1. stage = "ready" /\ stage' = "running" /\ UNCHANGED <<kernel, nest>>
    BY <1>2 DEF Launch
  <2>2. Prepared
    BY <2>1 DEF StepInv, Prepared
  <2>3. SameStart' = SameStart
    BY <2>1 DEF SameStart, Varying, Loops
  <2>4. SameStart => \E key : RunsInStep(key)'
    BY <1>2, <2>2, LaunchInStep
  <2> QED
    BY <2>1, <2>3, <2>4 DEF StepInv
<1>3. ASSUME UNCHANGED vars, \A key : RunsInStep(key) => RunsInStep(key)' PROVE StepInv'
  <2>1. UNCHANGED <<kernel, hw, nest, stage, ub, waves>>
    BY <1>3 DEF vars
  <2>2. stage # "running" => PlaceInv' /\ ReductionFirst'
    BY <1>3, PlaceStep, ReductionStep DEF StepInv
  <2>3. SameStart' = SameStart
    BY <2>1 DEF SameStart, Varying, Loops
  <2>4. BoundsOK' = BoundsOK
    BY <2>1 DEF BoundsOK, Iters, HasWaves
  <2> QED
    BY <1>3, <2>1, <2>2, <2>3, <2>4 DEF StepInv
<1>4. ASSUME NEW c \in DOMAIN pc, Fire(c) PROVE StepInv'
  <2>1. UNCHANGED vars
    BY <1>4 DEF Fire
  <2>2. \A key : RunsInStep(key) => RunsInStep(key)'
    BY <1>4, FireInStep
  <2> QED
    BY <1>3, <2>1, <2>2
<1>5. CASE UNCHANGED mvars
  <2>1. UNCHANGED vars /\ UNCHANGED <<region, prog, pc>>
    BY <1>5 DEF mvars
  <2>2. \A key : RunsInStep(key) => RunsInStep(key)'
    BY <2>1 DEF RunsInStep, OneOperation
  <2> QED
    BY <1>3, <2>1, <2>2
<1>6. CASE Over
  BY <1>5, <1>6 DEF Over
<1> QED
  BY <1>1, <1>2, <1>4, <1>5, <1>6 DEF MNext

(* The cores of a mesh never wait for each other in vain, for every kernel,  *)
(* mesh and mapping, whatever the order in which the cores run: while one is *)
(* not done, some broadcast or gather can be carried out. The lower bound of *)
(* the sequential loop must be the same on all cores; an upper bound of its  *)
(* own on each is what SkipSpatialReuse provides for                         *)
(* (hardware_mapping.cpp:324-326, analyze_reuse.cpp:115-134).                *)
THEOREM NoCoreIsEverStuck == MSpec => [](SameStart => NoCoreStuck)
<1>1. StepInv => (SameStart => NoCoreStuck)
  <2> SUFFICES ASSUME StepInv, SameStart, stage = "running", NEW e \in DOMAIN pc, ~ Done(e)
               PROVE  \E c \in DOMAIN pc : CanFire(c)
    BY DEF NoCoreStuck
  <2>1. PICK key : RunsInStep(key)
    BY DEF StepInv
  <2> QED
    BY <2>1, FirstCanFire
<1> QED
  BY <1>1, StepInit, StepStep, PTL DEF MSpec

(* Whoever takes part in a broadcast needs the tile that is broadcast, in    *)
(* the same turn, and whoever takes part in a gather works on the same       *)
(* result, for every kernel whose sequential loop starts at the same index   *)
(* on all cores, mesh and mapping (computeDimBroadcastCoeff, applyChoices).  *)
THEOREM TilesAreAlwaysShared == MSpec => [](SameStart => SameTile)
<1>1. StepInv => (SameStart => SameTile)
  <2> SUFFICES ASSUME StepInv, SameStart, stage = "running", NEW c \in DOMAIN pc, CanFire(c),
                      NEW d \in Sharing(c)
               PROVE  NextOp(d) = NextOp(c)
    BY DEF SameTile
  <2>1. PICK key : RunsInStep(key)
    BY DEF StepInv
  <2> QED
    BY <2>1, AllAreThere
<1> QED
  BY <1>1, StepInit, StepStep, PTL DEF MSpec
=============================================================================

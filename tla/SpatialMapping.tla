--------------------------- MODULE SpatialMapping ---------------------------
(***************************************************************************)
(* The spatial mapping of one kernel: EnumerateSpatialMappings and what it *)
(* calls.  The kernel's outermost affine.parallel is given to a mesh of    *)
(* cores: an occupancy of the hardware is chosen, its two dimensions are   *)
(* split into logical ones, the iterators claim them in priority order,    *)
(* the parallel loop is tiled once per claimed dimension, the iterators'   *)
(* indices are rebuilt (and clamped), the rest becomes a nest of wave      *)
(* loops, and materialization fixes the block sizes.                       *)
(*                                                                         *)
(* The code enumerates every candidate; a behaviour follows one of them.   *)
(***************************************************************************)
EXTENDS WaveIndex, Sequences, FiniteSets, SequencesExt

CONSTANTS
  Meshes,   \* hardware meshes, <<size of dim_x, size of dim_y>>
  Kernels,  \* kernels, see KernelOK
  HardConstraints   \* whether the driver hands the solver the hard constraints

Axes == {1, 2}

\* A kernel is what the enumeration reads of a function: the trip counts of its
\* parallel iterators and what is statically known of them, the iterator a
\* loom.gather reduces across (0: none), whether it is marked
\* loom.full_occupancy_only, and its loom.subview ops.
KernelOK(k) ==
  /\ k.ext \in Seq(Nat \ {0}) /\ k.ext # <<>>
  /\ k.bound \in Seq(Nat) /\ DOMAIN k.bound = DOMAIN k.ext
  /\ k.const \in BOOLEAN /\ k.only \in BOOLEAN
  /\ k.red \in {0} \cup DOMAIN k.ext
  /\ \A v \in 1 .. Len(k.views) :
        /\ k.views[v].deps \subseteq DOMAIN k.ext
        /\ k.views[v].size \in Nat

ASSUME MeshesAssumption == Meshes \subseteq [Axes -> Nat \ {0}]
ASSUME KernelsAssumption == \A k \in Kernels : KernelOK(k)

VARIABLES
  kernel,   \* the function being mapped
  hw,       \* the hardware's mesh
  full,     \* EnumerateSpatialMappings' fullOccupancy
  blocked,  \* EnumerateSpatialMappings' blockedWaves
  stage,    \* how far the candidate is
  mesh,     \* the occupied part of the hardware
  split,    \* per axis the sizes of its logical dimensions, innermost first
  order,    \* the iterators in priority order
  nest,     \* the spatial loops, outermost first
  ub,       \* per iterator the bound of the loop still to be tiled
  clamp,    \* per iterator whether its index is clamped
  waves     \* per iterator the trip count of its wave loop

vars == <<kernel, hw, full, blocked, stage, mesh, split, order, nest, ub,
          clamp, waves>>

Iters == DOMAIN kernel.ext
Product(s) == FoldLeft(LAMBDA a, b : a * b, 1, s)

------------------------------------------------------------------------------
(* Occupancy and splitting *)

\* The occupied sizes tried for one hardware dimension.
OccupancyChoices(n) == IF n < 2 THEN {n} ELSE {s \in 2 .. n : s % 2 = 0}

\* The meshes the kernel is mapped on.
Offered ==
  IF full THEN {hw}
  ELSE {m \in [Axes -> UNION {OccupancyChoices(hw[a]) : a \in Axes}] :
          /\ \A a \in Axes : m[a] \in OccupancyChoices(hw[a])
          /\ kernel.only => m = hw}

\* All ordered factorizations of n into k factors, 1 included.
OrderedFactorizations(n, k) ==
  {f \in [1 .. k -> {d \in 1 .. n : n % d = 0}] : Product(f) = n}

\* All splits of the occupied mesh into P logical dimensions.
Splits(P) ==
  UNION {{<<x, y>> : x \in OrderedFactorizations(mesh[1], p),
                     y \in OrderedFactorizations(mesh[2], P - p)} :
           p \in 1 .. P - 1}

\* The logical dimensions outside level 0, as <<level, axis>>, in the order
\* (level ASC, sourceIdx ASC) of generateAllSplits.
NonLevelZero(s) ==
  LET dims == {d \in (1 .. Len(s[1]) + Len(s[2])) \X Axes : d[1] < Len(s[d[2]])}
  IN  CHOOSE l \in [1 .. Cardinality(dims) -> dims] :
        \A m, n \in DOMAIN l :
          m < n => l[m][1] < l[n][1] \/ (l[m][1] = l[n][1] /\ l[m][2] < l[n][2])

------------------------------------------------------------------------------
(* Priorities *)

\* Data read or written at a place that does not depend on iterator i.
Reused(i) == SelectSeq(kernel.views, LAMBDA v : i \notin v.deps)

\* computeAxisScores: parallelism, reuse volume and reuse access count.
Score(i) == <<kernel.bound[i],
              FoldLeft(LAMBDA s, v : s + v.size, 0, Reused(i)),
              Len(Reused(i))>>

Dominates(i, j) ==
  /\ \A n \in 1 .. 3 : Score(i)[n] >= Score(j)[n]
  /\ \E n \in 1 .. 3 : Score(i)[n] > Score(j)[n]

\* The Pareto front of the iterators in R.
Undominated(R) == {i \in R : ~ \E j \in R \ {i} : Dominates(j, i)}

\* The Pareto front, counted from 1, that takes each iterator but the reduction's.
FrontOf ==
  LET remaining[n \in Nat] ==
        IF n = 0 THEN Iters \ {kernel.red}
        ELSE remaining[n - 1] \ Undominated(remaining[n - 1])
  IN [i \in Iters \ {kernel.red} |->
        CHOOSE n \in 1 .. Len(kernel.ext) : i \in remaining[n - 1] \ remaining[n]]

\* The orders of all iterators in which those outside the reduction come front
\* by front, in every order inside a front.
FrontByFront ==
  LET front == FrontOf
  IN {o \in [Iters -> Iters] :
        /\ \A a, b \in Iters : a # b => o[a] # o[b]
        /\ \A a, b \in Iters :
             (a < b /\ kernel.red \notin {o[a], o[b]}) => front[o[a]] <= front[o[b]]}

\* enumeratePriorityOrderings: the reduction iterator is inserted at the front of each.
PriorityOrderings == {o \in FrontByFront : kernel.red # 0 => o[1] = kernel.red}

\* generateLevel0PairClaimMappings: the first iterator claims both level-0
\* dimensions, every other one the next of the rest.
Bucket(s, o, i) ==
  IF o[1] = i THEN << <<0, 1>>, <<0, 2>> >>
  ELSE << NonLevelZero(s)[(CHOOSE n \in Iters : o[n] = i) - 1] >>

\* The loops to make, in the order in which they are made: by iterator.
Claims(s, o) ==
  FlattenSeq([i \in Iters |->
    [n \in DOMAIN Bucket(s, o, i) |->
       LET d == Bucket(s, o, i)[n]
       IN [iter |-> i, level |-> d[1], axis |-> d[2],
           size |-> s[d[2]][d[1] + 1]]]])
------------------------------------------------------------------------------
(* The mapped kernel *)

Loops == 1 .. Len(nest)

\* A set of loops as a sequence, outermost first.
Outermost(S) ==
  CHOOSE l \in [1 .. Cardinality(S) -> S] : \A m, n \in DOMAIN l : m < n => l[m] < l[n]

\* The loops of iterator i (iterIdxToHWMappings), and those of them that hold
\* more than one core.
LoopsOf(i) == Outermost({n \in Loops : nest[n].iter = i})
NonUnit(i) == Outermost({n \in Loops : nest[n].iter = i /\ nest[n].size # 1})

\* totalCores
CoresOn(i) == FoldLeft(LAMBDA a, n : a * nest[n].size, 1, LoopsOf(i))

\* The cores: one value for every spatial loop; the waves: one for every wave loop.
Cores == {c \in [Loops -> 0 .. Max({nest[n].size : n \in Loops}) - 1] :
            \A n \in Loops : c[n] < nest[n].size}
Waves == {w \in [Iters -> 0 .. Max({waves[i] : i \in Iters}) - 1] :
            \A i \in Iters : w[i] < waves[i]}

\* The core's number among those that share iterator i, row-major.
CoreNumber(c, i) ==
  FoldLeft(LAMBDA a, n : RowMajor(a, c[n], nest[n].size), 0, NonUnit(i))

\* The number the cyclic distribution uses: emitGlobalIndex2d takes the first
\* two levels only.
CoreNumber2d(c, i) ==
  LET l == NonUnit(i)
  IN IF Len(l) = 1 THEN c[l[1]] ELSE RowMajor(c[l[1]], c[l[2]], nest[l[2]].size)

\* The iteration of i that core c runs in the wave'th turn of i's wave loop,
\* before the clamp and after it.
RawIndex(c, wave, i) ==
  IF NonUnit(i) = <<>> THEN wave
  ELSE IF blocked THEN BlockedIndex(CoreNumber(c, i), wave, ub[i])
  ELSE CyclicIndex(CoreNumber2d(c, i), wave, CoresOn(i))

IndexOf(c, wave, i) ==
  IF clamp[i] THEN Clamped(RawIndex(c, wave, i), kernel.ext[i])
  ELSE RawIndex(c, wave, i)

\* The iteration of the whole kernel that core c runs in wave w.
IterationOf(c, w) == [i \in Iters |-> IndexOf(c, w[i], i)]

\* mutant: the stride is multiplied before it is used.
StrideEarly(n) == Product([m \in Loops |->
                    IF nest[m].axis = nest[n].axis /\ nest[m].level <= nest[n].level
                    THEN nest[m].size ELSE 1])

\* MeshCoordinateSystem: the linear position of a core on a mesh axis, its
\* levels taken innermost first.
Stride(n) == Product([m \in Loops |->
               IF nest[m].axis = nest[n].axis /\ nest[m].level < nest[n].level
               THEN nest[m].size ELSE 1])
LinearIndex(c, a) ==
  FoldLeft(LAMBDA s, n : IF nest[n].axis = a THEN s + c[n] * Stride(n) ELSE s,
           0, [n \in Loops |-> n])

\* emitLinearIndexWithMultiOverride: the corners of the region that core c
\* addresses when the loops in K are overridden, and the cores inside it.
\* LowerRightPast is a mutant: the last core's position is one too high.
UpperLeft(c, K) ==
  [a \in Axes |-> LinearIndex([n \in Loops |-> IF n \in K THEN 0 ELSE c[n]], a)]
LowerRightPast(c, K) ==
  [a \in Axes |-> LinearIndex([n \in Loops |-> IF n \in K THEN nest[n].size
                                               ELSE c[n]], a)]
LowerRight(c, K) ==
  [a \in Axes |-> LinearIndex([n \in Loops |-> IF n \in K THEN nest[n].size - 1
                                               ELSE c[n]], a)]
Region(c, K) ==
  {d \in Cores : \A a \in Axes : LinearIndex(d, a) \in UpperLeft(c, K)[a] ..
                                                       LowerRight(c, K)[a]}

\* The loops a loom.gather across the reduction iterator overrides, and the
\* area it announces.
GatherLoops == {n \in Loops : nest[n].iter = kernel.red}
GatherArea == Product([n \in Loops |-> IF n \in GatherLoops THEN nest[n].size
                                       ELSE 1])

------------------------------------------------------------------------------
(* The steps *)

Stages == {"occupy", "split", "prioritise", "tile", "nest", "mapped", "ready",
           "unmapped", "dropped", "rejected", "running"}

Init ==
  /\ kernel \in Kernels /\ hw \in Meshes
  /\ full \in BOOLEAN /\ blocked \in BOOLEAN
  /\ stage = "occupy"
  /\ mesh = hw /\ split = <<>> /\ order = <<>> /\ nest = <<>>
  /\ ub = kernel.ext
  /\ clamp = [i \in Iters |-> FALSE] /\ waves = kernel.ext

\* generateHardwareOccupancyVariants, and the functions skipped at less than
\* full occupancy.
Occupy ==
  /\ stage = "occupy"
  /\ mesh' \in Offered
  /\ stage' = "split"
  /\ UNCHANGED <<kernel, hw, full, blocked, split, order, nest, ub, clamp, waves>>

\* No occupancy is left for the kernel: the output has no variant of it.
Skip ==
  /\ stage = "occupy" /\ Offered = {}
  /\ stage' = "unmapped"
  /\ UNCHANGED <<kernel, hw, full, blocked, mesh, split, order, nest, ub, clamp,
                 waves>>

\* HWDimSplitter::generateAllSplits for one more dimension than iterators.
Split ==
  /\ stage = "split"
  /\ split' \in Splits(Len(kernel.ext) + 1)
  /\ stage' = "prioritise"
  /\ UNCHANGED <<kernel, hw, full, blocked, mesh, order, nest, ub, clamp, waves>>

Prioritise ==
  /\ stage = "prioritise"
  /\ order' \in PriorityOrderings
  /\ stage' = "tile"
  /\ UNCHANGED <<kernel, hw, full, blocked, mesh, split, nest, ub, clamp, waves>>

\* tileAffineParallel refuses to tile a constant range by a factor that does
\* not divide it; cloneFunc then throws the candidate away.
Refused(claim) == kernel.const /\ ub[claim.iter] % claim.size # 0

Tile ==
  /\ stage = "tile" /\ Len(nest) < Len(Claims(split, order))
  /\ LET claim == Claims(split, order)[Len(nest) + 1]
     IN /\ ~ Refused(claim)
        /\ nest' = Append(nest, claim)
        /\ ub' = [ub EXCEPT ![claim.iter] = CeilDiv(@, claim.size)]
  /\ UNCHANGED <<kernel, hw, full, blocked, stage, mesh, split, order, clamp,
                 waves>>

Drop ==
  /\ stage = "tile" /\ Len(nest) < Len(Claims(split, order))
  /\ Refused(Claims(split, order)[Len(nest) + 1])
  /\ stage' = "dropped"
  /\ UNCHANGED <<kernel, hw, full, blocked, mesh, split, order, nest, ub, clamp,
                 waves>>

\* Rebuild the iterators' indices; clamp all that are spread over cores, except
\* the reduction's.
Reconstruct ==
  /\ stage = "tile" /\ Len(nest) = Len(Claims(split, order))
  /\ clamp' = [i \in Iters |-> CoresOn(i) > 1 /\ i # kernel.red]
  /\ stage' = "nest"
  /\ UNCHANGED <<kernel, hw, full, blocked, mesh, split, order, nest, ub, waves>>

\* The sizes iterator i was tiled by, as one denominator.
TiledBy(i) ==
  LET l == LoopsOf(i)
  IN  IF Len(l) = 2 THEN <<nest[l[1]].size, nest[l[2]].size>> ELSE <<nest[l[1]].size, 1>>

\* The wave loops, each bound with its ceildivs merged.
ConvertParallelToNested ==
  /\ stage = "nest"
  /\ waves' = [i \in Iters |->
                 FlatTrips(kernel.ext[i], TiledBy(i)[1], TiledBy(i)[2])]
  /\ stage' = "mapped"
  /\ UNCHANGED <<kernel, hw, full, blocked, mesh, split, order, nest, ub, clamp>>

\* The hard constraint on a gather: its wave loop, extent over cores, runs
\* exactly once.  staged_etg_main pushes it, runExplorationPipeline does not.
GatherConstraint ==
  (HardConstraints /\ kernel.red # 0) => kernel.ext[kernel.red] = CoresOn(kernel.red)

\* The block sizes are chosen under the constraint, the extents become
\* constants, and FoldDivisibleWaveClamps drops the clamps of those the core
\* count divides.
Divisible(i) == kernel.ext[i] % CoresOn(i) = 0
Materialize ==
  /\ stage = "mapped" /\ GatherConstraint
  /\ clamp' = [i \in Iters |-> clamp[i] /\ ~ Divisible(i)]
  /\ stage' = "ready"
  /\ UNCHANGED <<kernel, hw, full, blocked, mesh, split, order, nest, ub, waves>>

Reject ==
  /\ stage = "mapped" /\ ~ GatherConstraint
  /\ stage' = "rejected"
  /\ UNCHANGED <<kernel, hw, full, blocked, mesh, split, order, nest, ub, clamp,
                 waves>>

Mapping == \/ Occupy \/ Skip \/ Split \/ Prioritise \/ Tile \/ Drop
           \/ Reconstruct \/ ConvertParallelToNested \/ Materialize \/ Reject

\* Nothing is left to do for the candidate.
Mapped == stage \in {"ready", "unmapped", "dropped", "rejected", "running"} /\ UNCHANGED vars

Next == Mapping \/ Mapped

Spec == Init /\ [][Next]_vars
------------------------------------------------------------------------------
(* Properties *)

Built == stage \in {"mapped", "ready"}

\* The spatial loops use every core of the occupied mesh exactly once: each core
\* has its own position, and every position has a core
\* (generateAllSplits, generateLevel0PairClaimMappings, emitLinearIndex).
EveryCoreHasAPlace ==
  Built =>
    /\ {<<LinearIndex(c, 1), LinearIndex(c, 2)>> : c \in Cores} =
         (0 .. mesh[1] - 1) \X (0 .. mesh[2] - 1)
    /\ Cardinality(Cores) = mesh[1] * mesh[2]

\* Together the cores and their waves run every iteration of the kernel and no
\* index outside it, after materialization has dropped clamps as well
\* (tileAffineParallel, flattenNestedCeilDiv, applyMappingToFunction).
EveryIterationRuns ==
  stage = "ready" =>
    {IterationOf(c, w) : c \in Cores, w \in Waves} =
      {n \in [Iters -> 0 .. Max({kernel.ext[i] : i \in Iters}) - 1] :
         \A i \in Iters : n[i] < kernel.ext[i]}

\* What is run twice is only the last iteration of some clamped iterator; in
\* particular no iteration of a reduction is accumulated twice
\* (hardware_mapping.cpp:322-328).
OnlyTheLastIsRedone ==
  stage = "ready" =>
    LET before == {r \in Cores \X Waves :
                     \A i \in Iters : clamp[i] =>
                       IndexOf(r[1], r[2][i], i) # kernel.ext[i] - 1}
    IN Cardinality({IterationOf(r[1], r[2]) : r \in before}) = Cardinality(before)

\* A core's region for the gather is exactly the cores that share all its other
\* iterations, one for each iteration of the reduction, and as large as the
\* area announced (applyMappingToFunction's gather rewrite).
GatherIsWhole ==
  (stage = "ready" /\ kernel.red # 0) =>
    \A c \in Cores, w \in Waves :
      LET R == Region(c, GatherLoops)
      IN /\ \A d \in R, i \in Iters \ {kernel.red} :
              IndexOf(d, w[i], i) = IndexOf(c, w[i], i)
         /\ {IndexOf(d, w[kernel.red], kernel.red) : d \in R} =
              0 .. kernel.ext[kernel.red] - 1
         /\ Cardinality(R) = kernel.ext[kernel.red] /\ Cardinality(R) = GatherArea

\* A kernel is mapped on the whole mesh at least: partial occupancies are tried
\* as well as the full one, never instead of it (hardware_info.h:49-51).
FullMeshIsOffered == stage = "occupy" => hw \in Offered
==============================================================================

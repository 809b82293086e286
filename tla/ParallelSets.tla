----------------------------- MODULE ParallelSets -----------------------------
(***************************************************************************)
(* lib/passes/common/src/parallel_set_exploration.cpp: which loops of a    *)
(* kernel run spatially.  SplitFloorDivLoops adds functions in which a     *)
(* loop is split into groups; ExploreParallelSets adds, for each function, *)
(* variants with other spatial sets, and drops the split functions.        *)
(***************************************************************************)
EXTENDS LoopNest

CONSTANTS
  Cores,     \* cores of the hardware
  MaxDims,   \* most spatial loops of a variant, unless the source has more
  MaxItems   \* functions with more loops are left alone

ASSUME CoresAssumption == Cores \in Nat \ {0}

-----------------------------------------------------------------------------
(* analyzeLoopNest *)

(* collectStores: a write that is no subview is not looked at. *)
Stores(f) == {s \in ToSet(Steps(f)) : s.op = "store" /\ s.off # <<>>}

ReadsStored(f) ==
  \E l \in ToSet(Steps(f)) : l.op = "load" /\ l.buf \in {s.buf : s \in Stores(f)}

Perfect(f, j) == j < Len(f.loops) \/ f.pre \o f.post = <<>>

IndexedByAll(f, loop) == \A s \in Stores(f) : UsesIndex(s, loop)

PromotableCarried(f, j) ==  \* mutant: iter_args are not looked at
  /\ Perfect(f, j)
  /\ f.loops[j].dep = NoLoop
  /\ IndexedByAll(f, f.loops[j])

Promotable(f, j) ==
  /\ Perfect(f, j)
  /\ ~ f.loops[j].carried
  /\ f.loops[j].dep = NoLoop
  /\ IndexedByAll(f, f.loops[j])

(* The length of the chain of promotable loops. *)
ChainLen(f) ==
  IF ReadsStored(f) THEN 0
  ELSE Max({n \in 0 .. Len(f.loops) : \A j \in 1 .. n : Promotable(f, j)})

-----------------------------------------------------------------------------
(* Loops of the function as ExploreParallelSets and SplitFloorDivLoops see  *)
(* them.                                                                    *)

MinTripsOfUnits(loop) ==  \* mutant: blocks of one
  IF loop.dep # NoLoop THEN 1 ELSE loop.extent

MinTrips(loop) ==
  IF loop.dep # NoLoop THEN 1
  ELSE IF loop.block = 0 THEN loop.extent ELSE CeilDiv(loop.extent, loop.block)

(* loopName: the block symbol's, d and the loop's position if it has none,  *)
(* or the name given by splitLoop.                                          *)
LoopName(loop, idx) == IF loop.name.sym = "" THEN Named("d", idx) ELSE loop.name

IsSplit(loop) == loop.name.part # ""

HasStaticTrips(loop) == loop.dep = NoLoop /\ loop.block \in {0, 1}

FloorDivisorsInexact(f, loop) ==  \* mutant: the last group may be short
  {k \in 2 .. loop.extent - 1 :
     \E s \in ToSet(Steps(f)) : Term(loop.id, "div", k) \in ToSet(s.off)}

FloorDivisors(f, loop) ==
  {k \in 2 .. loop.extent - 1 :
     /\ loop.extent % k = 0
     /\ \E s \in ToSet(Steps(f)) : Term(loop.id, "div", k) \in ToSet(s.off)}

-----------------------------------------------------------------------------
(* SplitFloorDivLoops *)

Part(loop, base, part, extent, scale) ==
  [loop EXCEPT !.id = Half(loop.id, part), !.scale = scale, !.extent = extent, !.block = 0,
               !.name = [base EXCEPT !.part = part]]

FoldSwapped(t, loop, k) ==  \* mutant: index / K becomes the member of the group
  IF t = Term(loop.id, "div", k) THEN Index(Half(loop.id, "i"))
  ELSE IF t = Term(loop.id, "mod", k) THEN Index(Half(loop.id, "o"))
  ELSE t

Fold(t, loop, k) ==
  IF t = Term(loop.id, "div", k) THEN Index(Half(loop.id, "o"))
  ELSE IF t = Term(loop.id, "mod", k) THEN Index(Half(loop.id, "i"))
  ELSE t

FoldIn(steps, loop, k) ==
  [n \in DOMAIN steps |->
     [steps[n] EXCEPT !.off = [i \in DOMAIN @ |-> Fold(@[i], loop, k)]]]

(* splitLoop: index = g * K + i; index / K becomes g and index % K i.       *)
SplitLoop(f, j, k) ==
  LET loop == f.loops[j]
      base == LoopName(loop, Len(f.root) + j - 1)
  IN  [f EXCEPT
        !.loops = SubSeq(@, 1, j - 1)
                    \o <<Part(loop, base, "o", loop.extent \div k, k), Part(loop, base, "i", k, 1)>>
                    \o SubSeq(@, j + 1, Len(@)),
        !.pre = FoldIn(@, loop, k), !.deep = FoldIn(@, loop, k), !.post = FoldIn(@, loop, k),
        !.name = Append(@, [base EXCEPT !.part = "split", !.by = k]),
        !.base = TRUE]

SplitsOf(f) ==
  UNION {{SplitLoop(f, j, k) : k \in FloorDivisors(f, f.loops[j])} :
           j \in {i \in 1 .. ChainLen(f) : HasStaticTrips(f.loops[i])}}

-----------------------------------------------------------------------------
(* ExploreParallelSets *)

Items(f) ==
  LET loops == f.root \o SubSeq(f.loops, 1, ChainLen(f))
  IN  [i \in DOMAIN loops |-> [loops[i] EXCEPT !.name = LoopName(loops[i], i - 1)]]

(* The loops whose positions are in S. *)
Select(loops, S) ==
  FlattenSeq([i \in DOMAIN loops |-> IF i \in S THEN <<loops[i]>> ELSE <<>>])

Work(loops) ==
  FoldLeft(LAMBDA a, b : a * b, 1, [i \in DOMAIN loops |-> MinTrips(loops[i])])

WorthExploring(f, S) ==
  LET spatial == Select(Items(f), S) IN
  /\ S # {} /\ S # DOMAIN f.root
  /\ \A l \in ToSet(spatial) : MinTrips(l) > 1
  /\ Len(spatial) <= Max({MaxDims, Len(f.root)})
  /\ Work(spatial) >= Cores
  /\ f.base => \E l \in ToSet(spatial) : IsSplit(l)

Independent(loops) == [i \in DOMAIN loops |-> [loops[i] EXCEPT !.indep = TRUE]]

(* rebuildNest: what is not spatial becomes sequential, the loops of the    *)
(* chain in their order and then the demoted dimensions; what is not in the *)
(* chain stays inside.                                                      *)
Rebuild(f, S) ==
  LET items == Items(f)
      rootDims == DOMAIN f.root
      spatial == Select(items, S)
  IN  [f EXCEPT
        !.root = spatial,
        !.loops = Independent(Select(items, DOMAIN items \ (rootDims \cup S))
                                \o Select(items, rootDims \ S))
                    \o SubSeq(@, ChainLen(f) + 1, Len(@)),
        !.name = @ \o <<Named("par", 0)>> \o [i \in DOMAIN spatial |-> spatial[i].name],
        !.base = FALSE, !.full = TRUE]

VariantsOf(f) ==
  IF ChainLen(f) = 0 \/ Len(Items(f)) > MaxItems THEN {}
  ELSE {Rebuild(f, S) : S \in {T \in SUBSET DOMAIN Items(f) : WorthExploring(f, T)}}

=============================================================================

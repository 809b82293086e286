--------------------------- MODULE ConstraintScope ---------------------------
(***************************************************************************)
(* The constraints a function leaves to the solver: its symbols with their *)
(* bounds and alignments, the trip counts of its loops, the divisibility   *)
(* of bounds that vary from iteration to iteration, and the L1 footprint.  *)
(*                                                                         *)
(* The function is given by                                                *)
(*   symbols: name -> [ub, asure] (the natural upper bound of a loom.sym   *)
(*            and whether its tile is sure to divide),                     *)
(*   nest:    its loops, outer before inner, each [kind, ub, sym, iter,    *)
(*            dim, level] with kind "par" for a dimension of an            *)
(*            affine.parallel and "for" for an scf.for; every loop counts  *)
(*            from 0 in steps of 1,                                        *)
(*   allocs:  its loom.allocs, each [mem, dims, role]; dims are constants  *)
(*            or symbols, role is "load" or "store" if a copy from or to   *)
(*            DRAM ends in the alloc and "compute" otherwise,              *)
(*   reduces: whether some linalg.generic reduces its innermost dimension. *)
(***************************************************************************)
EXTENDS IndexExpr

CONSTANTS
  Tile,               \* 32: the side of a hardware tile
  ReductionConfig     \* what reductions reserve in L1

-----------------------------------------------------------------------------
(* Symbols and alignments *)

InnerDims(dims) == {dims[i] : i \in {j \in DOMAIN dims : j + 2 > Len(dims)}}

(* hw_alignment.cpp: a symbol that is one of the two inner dimensions of an *)
(* alloc is a multiple of a tile.                                           *)
AlignmentOf(fn, s) ==
  IF \E i \in DOMAIN fn.allocs : Sym(s) \in InnerDims(fn.allocs[i].dims) THEN Tile ELSE 1

-----------------------------------------------------------------------------
(* Trip counts *)

(* The parallel loops around loop l that spread its block symbol over the   *)
(* mesh; of several for one level of a dimension the innermost counts.      *)
SpatialTiles(nest, l) ==
  LET spread == {p \in 1 .. l - 1 :
                   /\ nest[p].kind = "par" /\ nest[p].sym = nest[l].sym
                   /\ nest[p].iter = "spatial" /\ nest[p].ub.k = "con"
                   /\ nest[p].ub.v > 0}
  IN {p \in spread : \A q \in spread :
        q > p => <<nest[q].dim, nest[q].level>> # <<nest[p].dim, nest[p].level>>}

SpatialTilingFactor(nest, l) ==
  FoldSet(LAMBDA p, acc : acc * nest[p].ub.v, 1, SpatialTiles(nest, l))

RelaxedTripCount(nest, l) ==
  IF SpatialTilingFactor(nest, l) <= 1 THEN TripCount(nest, l)
  ELSE ReplaceFirst(TripCount(nest, l), SpatialTilingFactor(nest, l),
                    SpatialTilingFactor(nest, l) - 1).e

AsureDivisible(fn, e) == \E s \in SymbolsOf(e) \cap DOMAIN fn.symbols : fn.symbols[s].asure

IterNum(fn, l) ==
  LET trips == TripCount(fn.nest, l)
      asure == AsureDivisible(fn, trips)
  IN [loop |-> l, asure |-> asure,
      expr |-> IF asure THEN trips ELSE RelaxedTripCount(fn.nest, l)]

-----------------------------------------------------------------------------
(* Bounds that depend on an induction variable *)

SamplesAtZero(ivs) ==  \* mutant: the unit vectors are left out
  {[l \in ivs |-> 0]}

SamplePoints(ivs) ==
  {[l \in ivs |-> 0]} \cup {[l \in ivs |-> IF l = v THEN 1 ELSE 0] : v \in ivs}

(* Divisibility of the numerator with every variable 0 and with each of     *)
(* them 1 and the others 0.                                                 *)
TripCountDivisibility(nest, l) ==
  LET ub == nest[l].ub
      ivs == InductionVars(ub.a)
  IN IF ub.k = "op" /\ ub.o = "ceildiv" /\ ivs # {}
       THEN {[num |-> Trace(ub.a, nest, at), den |-> Trace(ub.b, nest, NoSubst)] :
               at \in SamplePoints(ivs)}
       ELSE {}

-----------------------------------------------------------------------------
(* The L1 footprint *)

Promoted(dims) == IF Len(dims) = 1 THEN <<Con(1)>> \o dims ELSE dims

BottomTwo(dims) == <<dims[Len(dims) - 1], dims[Len(dims)]>>

(* What validateBottom2Dims asserts of an alloc in L1. *)
ValidAlloc(alloc) ==
  LET dims == Promoted(alloc.dims)
      bottom == BottomTwo(dims)
  IN \/ alloc.mem # "L1"
     \/ alloc.dims = <<>>
     \/ /\ \A i \in 1 .. 2 : bottom[i].k = "con" => bottom[i].v = 1 \/ bottom[i].v % Tile = 0
        /\ \E i \in 1 .. 2 : bottom[i] # Con(1)

RECURSIVE ProductOfDims(_)
ProductOfDims(dims) ==
  IF Len(dims) = 1 THEN dims[1]
  ELSE Op("mul", ProductOfDims(SubSeq(dims, 1, Len(dims) - 1)), dims[Len(dims)])

UnpaddedRows(dims) ==  \* mutant: only the innermost dimension is padded
  [i \in DOMAIN dims |-> IF i = Len(dims) /\ dims[i] = Con(1) THEN Con(Tile) ELSE dims[i]]

Bottom2Padded(dims) ==
  [i \in DOMAIN dims |->
     IF i + 1 >= Len(dims) /\ dims[i] = Con(1) THEN Con(Tile) ELSE dims[i]]

Footprint(alloc) == ProductOfDims(Bottom2Padded(Promoted(alloc.dims)))

Counted(alloc) == alloc.mem = "L1" /\ alloc.dims # <<>>

FootprintOf(fn, role) ==
  [i \in {j \in DOMAIN fn.allocs : Counted(fn.allocs[j]) /\ fn.allocs[j].role = role} |->
     Footprint(fn.allocs[i])]

L1Footprint(fn) ==
  [load |-> FootprintOf(fn, "load"), store |-> FootprintOf(fn, "store"),
   compute |-> FootprintOf(fn, "compute")
                 @@ (IF fn.reduces THEN 0 :> Con(ReductionConfig) ELSE <<>>)]

-----------------------------------------------------------------------------
NoScope == [none |-> TRUE]

SequentialLoops(fn) == {l \in DOMAIN fn.nest : fn.nest[l].iter = "sequential"}
TemporalLoops(fn) == {l \in DOMAIN fn.nest : fn.nest[l].iter = "temporal"}
ForLoops(fn) == {l \in DOMAIN fn.nest : fn.nest[l].kind = "for"}

(* buildConstraintScope; the last sequential loop of the walk, an inner one *)
(* before the loop around it, leaves the sequential trip count.             *)
ScopeOf(fn) ==
  [alignment |-> [s \in DOMAIN fn.symbols |-> AlignmentOf(fn, s)],
   seqIter |-> IF SequentialLoops(fn) = {} THEN NoScope
               ELSE IterNum(fn, Min(SequentialLoops(fn))),
   tempIter |-> {IterNum(fn, l) : l \in TemporalLoops(fn)},
   divisible |-> UNION {TripCountDivisibility(fn.nest, l) : l \in ForLoops(fn)},
   l1 |-> L1Footprint(fn)]

-----------------------------------------------------------------------------
(* What the solver may choose, and what the program then does *)

Assignments(fn, scope) ==
  {env \in [DOMAIN fn.symbols -> 1 .. Max({fn.symbols[s].ub : s \in DOMAIN fn.symbols})] :
     \A s \in DOMAIN env :
       /\ env[s] <= fn.symbols[s].ub
       /\ env[s] % scope.alignment[s] = 0}

(* The values of the induction variables around loop l. *)
RECURSIVE IterationsAbove(_, _, _)
IterationsAbove(nest, l, env) ==
  IF l = 1 THEN {<<>>}
  ELSE UNION {{Append(ivs, v) : v \in 0 .. ValueOf(nest[l - 1].ub, env, ivs) - 1} :
                ivs \in IterationsAbove(nest, l - 1, env)}

TripsOf(nest, l, env) == {ValueOf(nest[l].ub, env, ivs) : ivs \in IterationsAbove(nest, l, env)}

(* Neither the trip count of a for_loop_block nor the one the constraints   *)
(* are made of is below what the loop does in any of its executions,        *)
(* whatever block sizes are chosen.                                         *)
TripsBoundedFor(fn, scope) ==
  \A env \in Assignments(fn, scope) : \A l \in ForLoops(fn) :
    \A trips \in TripsOf(fn.nest, l, env) :
      /\ trips <= Eval(TripCount(fn.nest, l), env)
      /\ \A iter \in scope.tempIter \cup {scope.seqIter} :
           (iter # NoScope) => (iter.loop = l => trips <= Eval(iter.expr, env))

(* A choice that meets the divisibility constraints leaves no partial last  *)
(* tile in any iteration of a loop whose bound varies.                      *)
NoPartialTileFor(fn, scope) ==
  \A env \in Assignments(fn, scope) :
    (\A c \in scope.divisible : Eval(c.num, env) % Eval(c.den, env) = 0) =>
      \A l \in ForLoops(fn) :
        TripCountDivisibility(fn.nest, l) # {} =>
          \A ivs \in IterationsAbove(fn.nest, l, env) :
            ValueOf(fn.nest[l].ub.a, env, ivs) % ValueOf(fn.nest[l].ub.b, env, ivs) = 0

RoundedUp(n) == CeilDiv(n, Tile) * Tile

PaddedSize(alloc, env) ==
  LET dims == Promoted(alloc.dims)
      size(i) == IF i + 1 >= Len(dims) THEN RoundedUp(Eval(dims[i], env)) ELSE Eval(dims[i], env)
  IN FoldSet(LAMBDA i, acc : acc * size(i), 1, DOMAIN dims)

Total(terms, env) == MapThenSumSet(LAMBDA i : Eval(terms[i], env), DOMAIN terms)

(* The footprint given to the solver covers what the backend will take: a   *)
(* whole number of tiles for every L1 buffer, and once what reductions      *)
(* reserve.                                                                 *)
FootprintCoversFor(fn, scope) ==
  \A env \in Assignments(fn, scope) :
    LET taken == {i \in DOMAIN fn.allocs : Counted(fn.allocs[i])}
    IN MapThenSumSet(LAMBDA i : PaddedSize(fn.allocs[i], env), taken)
         + (IF fn.reduces THEN ReductionConfig ELSE 0)
       <= Total(scope.l1.load, env) + Total(scope.l1.store, env) + Total(scope.l1.compute, env)
=============================================================================

---------------------------- MODULE WorkloadDims ----------------------------
(***************************************************************************)
(* What a workload is measured by: the dimensions a hardware function's    *)
(* symbols are bound to, and the effective bandwidth of a transfer.        *)
(***************************************************************************)
EXTENDS Integers, Sequences, FiniteSets, SequencesExt, FiniteSetsExt

Product(s) == FoldLeft(LAMBDA acc, x : acc * x, 1, s)

-----------------------------------------------------------------------------
(* Data movers: an operand's dimensions against a binding of some rank. *)

FoldDropping(dims, rank) ==  \* mutant: the folded dimension keeps its first factor only
  SubSeq(dims, 1, rank - 1) \o <<Last(dims)>>

FoldRows(dims, rank) ==
  SubSeq(dims, 1, rank - 2)
    \o <<Product(SubSeq(dims, rank - 1, Len(dims) - 1)), Last(dims)>>

BoundDims(dims, rank) ==
  IF rank >= 2 /\ Len(dims) > rank THEN FoldRows(dims, rank)
  ELSE IF Len(dims) < rank THEN [i \in 1 .. rank - Len(dims) |-> 1] \o dims
  ELSE dims

-----------------------------------------------------------------------------
(* linalg.generic: its iterators, "parallel" or "reduction", and its        *)
(* operands, each [map, dims]: the iterator each dimension is indexed by    *)
(* (0 for a constant) and the dimensions of its alloc.                      *)

GenericClass(iters) ==
  IF "reduction" \notin Range(iters) THEN "Parallel"
  ELSE IF "parallel" \notin Range(iters) THEN "Reduction" ELSE "Mixed"

(* The first operand that is indexed by iterator d gives its extent. *)
ExtentOf(generic, d) ==
  LET Resolves(o) == \E r \in DOMAIN o.map : r <= Len(o.dims) /\ o.map[r] = d
      first == SelectInSeq(generic.operands, Resolves)
      o == generic.operands[first]
  IN o.dims[SelectInSeq(o.map, LAMBDA x : x = d)]

ProductOver(generic, type) ==
  Product([d \in 1 .. Len(generic.iters) |->
             IF generic.iters[d] = type THEN ExtentOf(generic, d) ELSE 1])

ParallelProduct(generic) == ProductOver(generic, "parallel")
ReductionProduct(generic) == ProductOver(generic, "reduction")

-----------------------------------------------------------------------------
(* The NoC penalty of a transfer. A view is [strides, area, pars, inSeq,    *)
(* moved]: the two trailing strides of the source, the broadcast factors,   *)
(* the loops of the affine.parallels around (each [dim, level, ub], inner   *)
(* before outer), whether the nearest scf.for is sequential, and which of   *)
(* the two trailing offsets move with it.                                   *)

CeilLog2(n) == IF n <= 1 THEN 0 ELSE CHOOSE l \in 1 .. n : 2 ^ l >= n /\ 2 ^ (l - 1) < n
CeilDivNonNegative(a, b) == IF a = 0 THEN 0 ELSE (a + b - 1) \div b

SubmeshSize(view, dim) ==
  LET counted == {i \in DOMAIN view.pars :
                    /\ view.pars[i].dim = dim
                    /\ \A j \in 1 .. i - 1 : <<view.pars[j].dim, view.pars[j].level>>
                                             # <<dim, view.pars[i].level>>}
  IN FoldSet(LAMBDA i, acc : acc * view.pars[i].ub, 1, counted)

BandwidthBase(view) ==
  10 * Max({1, Min({SubmeshSize(view, "dim_x") \div view.area[1],
                    SubmeshSize(view, "dim_y") \div view.area[2]})})

Square(x) == x * x
Dot(s, t) == s[1] * t[1] + s[2] * t[2]

PenalizedBelow8(strides, area) ==  \* mutant: the cutoff is 0.8
  100 * Square(Dot(strides, area)) <= 64 * Dot(strides, strides) * Dot(area, area)

(* The cosine of the angle between strides and area is at most 0.7. *)
Penalized(strides, area) ==
  100 * Square(Dot(strides, area)) <= 49 * Dot(strides, strides) * Dot(area, area)

NonUnit(strides) == {i \in 1 .. 2 : strides[i] # 1}

StrideBucket(strides) ==
  LET active == IF NonUnit(strides) = {} THEN 1 ELSE strides[Max(NonUnit(strides))]
  IN CeilDivNonNegative(CeilLog2(active), 2)

SubviewBucket(view) ==
  IF /\ view.inSeq
     /\ view.area[1] # view.area[2]
     /\ view.moved = {IF view.area[1] > view.area[2] THEN 1 ELSE 2}
    THEN 2 ELSE 0

IsUnicast(view) == view.area = <<1, 1>>

EffectiveBandwidth(view) ==
  BandwidthBase(view)
    + IF IsUnicast(view) THEN 0
      ELSE SubviewBucket(view)
             + (IF Penalized(view.strides, view.area) THEN StrideBucket(view.strides) ELSE 0)
=============================================================================

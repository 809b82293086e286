---------------------------- MODULE TensorProgram ----------------------------
(***************************************************************************)
(* The tensor program the memory analysis looks at: the body of one        *)
(* affine.parallel with one loop-carried, innermost scf.for                *)
(* (findLoopContext accepts nothing else), in preorder, restricted to the  *)
(* tensors of one shape bucket.  Buckets are analysed independently.       *)
(*                                                                         *)
(* An operation is a record [kind, res, ins]:                              *)
(*   "load"   loom.bufferize_to_tensor, a DMA from DRAM;                   *)
(*   "store"  loom.bufferize_to_memref + memref.copy, a DMA to DRAM;       *)
(*   "linalg" a linalg operation; with no "init" operand its outs is a     *)
(*            tensor.empty, which is no node of a bucket;                  *)
(*   "for"    the loop, its operands are the init values;                  *)
(*   "yield"  the loop's terminator.                                       *)
(* An operand is [val, rel]; rel says how the operation reads it:          *)
(*   "init"  it is the outs operand, updated in place;                     *)
(*   "same"  element by element, at the index being written;               *)
(*   "other" anywhere (other indexing map, reduction, non-linalg user).    *)
(***************************************************************************)
EXTENDS Integers, Sequences, FiniteSets, FiniteSetsExt, SequencesExt

CONSTANT NoVal  \* the result of an operation without tensor results

Op(kind, res, ins) == [kind |-> kind, res |-> res, ins |-> ins]
In(val, rel) == [val |-> val, rel |-> rel]

(* A program is its code and the loop's <<iter_arg, result>> pairs;         *)
(* `special` are the values whose encoding asks for a local memory kind.    *)
Program(pre, inits, phis, body, yields, post, special) ==
  [code |-> pre \o <<Op("for", NoVal, [i \in DOMAIN inits |-> In(inits[i], "other")])>>
              \o body
              \o <<Op("yield", NoVal, [i \in DOMAIN yields |-> In(yields[i], "other")])>>
              \o post,
   phis |-> phis, special |-> special]

Loop(p) == CHOOSE k \in DOMAIN p.code : p.code[k].kind = "for"
Yield(p) == CHOOSE k \in DOMAIN p.code : p.code[k].kind = "yield"

(* scf.for is a proper ancestor of the operation, its terminator included.  *)
InLoop(p, k) == Loop(p) < k /\ k <= Yield(p)

Args(p) == {p.phis[i].arg : i \in DOMAIN p.phis}
Results(p) == {p.phis[i].res : i \in DOMAIN p.phis}
InitOf(p, i) == p.code[Loop(p)].ins[i].val
YieldOf(p, i) == p.code[Yield(p)].ins[i].val

(* The nodes of the bucket in the order runMemoryAnalysis adds them: by     *)
(* operation, the results of the loop before its iter_args.                 *)
Nodes(p) ==
  FlattenSeq([k \in DOMAIN p.code |->
    IF p.code[k].kind = "for"
    THEN [i \in DOMAIN p.phis |-> p.phis[i].res] \o [i \in DOMAIN p.phis |-> p.phis[i].arg]
    ELSE IF p.code[k].res = NoVal THEN <<>> ELSE <<p.code[k].res>>])

Values(p) == ToSet(Nodes(p))

DefIdx(p, v) ==
  IF v \in Args(p) \cup Results(p) THEN Loop(p)
  ELSE CHOOSE k \in DOMAIN p.code : p.code[k].res = v

Uses(p, v) == {k \in DOMAIN p.code : \E o \in DOMAIN p.code[k].ins : p.code[k].ins[o].val = v}

(* The last use; the definition of a value nobody uses. *)
Death(p, v) == IF Uses(p, v) = {} THEN DefIdx(p, v) ELSE Max(Uses(p, v))

(* Compute-memory handoffs: what a DMA writes or reads. *)
Handoffs(p) ==
  {p.code[k].res : k \in {j \in DOMAIN p.code : p.code[j].kind = "load"}}
    \cup {p.code[k].ins[1].val : k \in {j \in DOMAIN p.code : p.code[j].kind = "store"}}

(* A program is in SSA form: a value has one definition, and every use is   *)
(* one that the definition dominates. The loop binds one iter_arg, and      *)
(* returns one result, for each of its operands and of its yield's.         *)
Visible(p, v, k) ==
  IF v \in Results(p) THEN Yield(p) < k
  ELSE IF v \in Args(p) THEN InLoop(p, k)
  ELSE DefIdx(p, v) < k /\ (InLoop(p, DefIdx(p, v)) => InLoop(p, k))

(* Only a type tells which memory kind a tensor is in: what a loop carries,  *)
(* and an operation and its outs operand, have one.                         *)
OneType(p) ==
  /\ \A i \in DOMAIN p.phis :
       LET carried == {InitOf(p, i), p.phis[i].arg, YieldOf(p, i), p.phis[i].res}
       IN  carried \subseteq p.special \/ carried \cap p.special = {}
  /\ \A k \in DOMAIN p.code : \A o \in DOMAIN p.code[k].ins :
       p.code[k].ins[o].rel = "init"
         => (p.code[k].ins[o].val \in p.special <=> p.code[k].res \in p.special)

WellFormedOp(p, k) ==
  LET op == p.code[k]
  IN  /\ op.kind \in {"load", "store", "linalg", "for", "yield"}
      /\ op.ins \in Seq(ToSet(op.ins))
      /\ \A o \in DOMAIN op.ins : /\ Visible(p, op.ins[o].val, k)
                                  /\ op.ins[o].rel \in {"init", "same", "other"}
                                  /\ op.ins[o].rel = "init" => op.kind = "linalg"
      /\ \A o, n \in DOMAIN op.ins :
           (op.ins[o].rel = "init" /\ op.ins[n].rel = "init") => o = n
      /\ op.kind \in {"load", "linalg"} <=> op.res # NoVal
      /\ op.kind = "store" => op.ins # <<>>

WellFormed(p) ==
  /\ p.code \in Seq(ToSet(p.code)) /\ p.phis \in Seq(ToSet(p.phis))
  /\ \E l, y \in DOMAIN p.code :
       /\ l < y
       /\ \A k \in DOMAIN p.code : /\ (p.code[k].kind = "for" <=> k = l)
                                   /\ (p.code[k].kind = "yield" <=> k = y)
       /\ \A k \in {l, y} : /\ p.code[k].res = NoVal /\ Len(p.code[k].ins) = Len(p.phis)
                            /\ \A in \in ToSet(p.code[k].ins) : in.rel = "other"
  /\ IsInjective(Nodes(p)) /\ NoVal \notin Values(p) /\ p.special \subseteq Values(p)
  /\ UNION {{in.val : in \in ToSet(op.ins)} : op \in ToSet(p.code)} \subseteq Values(p)
  /\ \A k \in DOMAIN p.code : WellFormedOp(p, k)
  /\ OneType(p)

-----------------------------------------------------------------------------
(* What the analysis has to respect: the last operation before which v may  *)
(* not be overwritten, an operation in the loop standing for every          *)
(* iteration of it.                                                         *)
LiveUntil(p, v) ==
  IF Uses(p, v) # {} /\ InLoop(p, Death(p, v)) /\ ~ InLoop(p, DefIdx(p, v)) /\ v \notin Args(p)
  THEN Yield(p) ELSE Death(p, v)

-----------------------------------------------------------------------------
(* What the analysis and the binding rely on without checking it.           *)

(* The init values start accumulators: computed, read by the loop only. No  *)
(* DMA handles them or the iter_args they start.                            *)
InitsPrivate(p) ==
  \A i \in DOMAIN p.phis :
    {InitOf(p, i), p.phis[i].arg} \cap Handoffs(p) = {} /\ \A k \in Uses(p, InitOf(p, i)) : k <= Loop(p)

(* What the loop reads from outside, or may update in place, is not needed  *)
(* after it.                                                                *)
NothingOutlivesLoop(p) ==
  \A v \in Values(p) \ (Args(p) \cup Results(p)) :
    (/\ ~ InLoop(p, DefIdx(p, v))
     /\ \E k \in Uses(p, v) : InLoop(p, k) \/ (k = Loop(p) /\ v \notin Handoffs(p)))
      => Death(p, v) <= Yield(p)

(* An operation that reads a value at other places than the one it writes   *)
(* has no operand before that reads the value there: findOperandRelation    *)
(* stops at the first operand.                                              *)
OtherReadsFirst(p) ==
  \A k \in DOMAIN p.code : \A n \in DOMAIN p.code[k].ins : \A o \in 1 .. n :
    (p.code[k].ins[o].val = p.code[k].ins[n].val /\ p.code[k].ins[n].rel = "other")
      => p.code[k].ins[o].rel = "other"

(* A store is the last operation to read what it stores. *)
StoresLast(p) ==
  \A k \in DOMAIN p.code :
    p.code[k].kind = "store" => LiveUntil(p, p.code[k].ins[1].val) = k

(* A tensor of a special memory kind does not enter the loop. *)
SpecialsLocal(p) ==
  \A v \in p.special : InLoop(p, DefIdx(p, v)) <=> InLoop(p, Death(p, v))

(* And no loop carries one: phi fusion passes over an iter_arg that has its *)
(* VB, and splitYields_ does not name it either.                            *)
NoSpecialCarried(p) == p.special \cap Args(p) = {}

(* What accumulates into a value reads nothing else at the place it writes, *)
(* and a yielded value accumulates into its iter_arg only. Outside the loop *)
(* nothing accumulates into the loop's results, or what the loop reads or   *)
(* starts from: where the two tensors share a buffer their data stays with  *)
(* the first one's VB, which is given after its own last use.               *)
AccumulatesOwn(p) ==
  \A k \in DOMAIN p.code : \A o \in DOMAIN p.code[k].ins :
    p.code[k].ins[o].rel = "init" =>
      /\ \A n \in DOMAIN p.code[k].ins : p.code[k].ins[n].rel # "same"
      /\ \A i \in DOMAIN p.phis : YieldOf(p, i) = p.code[k].res
                                    => p.code[k].ins[o].val = p.phis[i].arg
      /\ ~ InLoop(p, k) => /\ p.code[k].ins[o].val \notin Results(p)
                           /\ Uses(p, p.code[k].res) \cap (Loop(p) .. Yield(p)) = {}

(* A value that starts two accumulators is filled in, not computed from     *)
(* others: the second accumulator gets a clone of its operation.            *)
SharedInitsFilled(p) ==
  \A i, j \in DOMAIN p.phis :
    (i # j /\ InitOf(p, i) = InitOf(p, j)) => p.code[DefIdx(p, InitOf(p, i))].ins = <<>>

(* No iteration hands an iter_arg on as another one. *)
NoRotation(p) == \A i \in DOMAIN p.phis : YieldOf(p, i) \notin Args(p) \ {p.phis[i].arg}

Supported(p) ==
  InitsPrivate(p) /\ NothingOutlivesLoop(p) /\ StoresLast(p) /\ SpecialsLocal(p)
    /\ NoSpecialCarried(p) /\ OtherReadsFirst(p) /\ AccumulatesOwn(p) /\ SharedInitsFilled(p) /\ NoRotation(p)

=============================================================================

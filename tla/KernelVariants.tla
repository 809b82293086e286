---------------------------- MODULE KernelVariants ----------------------------
(***************************************************************************)
(* A kernel on its way through SplitFloorDivLoops, ExploreParallelSets and *)
(* the choice of a function and of block sizes.                            *)
(***************************************************************************)
EXTENDS ParallelSets

CONSTANT Kernels   \* the source kernels

(* A loop as the frontend makes it. *)
SourceLoop(l) ==
  /\ l = Loop(l.id[1], l.name.sym, l.extent, l.block, l.dep, l.carried)
  /\ l.extent \in Nat \ {0} /\ l.block \in Nat
  /\ l.block > 0 => l.name.sym # ""

(* No two loops have the same block symbol, and none has one with the name  *)
(* of a loop without.  Bounds of an affine.parallel do not depend on its    *)
(* indices.                                                                 *)
KernelOK(k) ==
  LET loops == k.root \o k.loops
  IN  /\ k = Kernel(k.root, k.loops, k.pre, k.deep, k.post)
      /\ k.root \in Seq(ToSet(k.root)) /\ k.loops \in Seq(ToSet(k.loops))
      /\ \A i \in DOMAIN loops : SourceLoop(loops[i]) /\ loops[i].name.sym # "d"
      /\ \A i, j \in DOMAIN loops : i # j =>
           /\ loops[i].id # loops[j].id
           /\ loops[i].name.sym = loops[j].name.sym => loops[i].name.sym = ""
      /\ \A l \in ToSet(k.root) : l.dep = NoLoop

ASSUME KernelsAssumption == \A k \in Kernels : KernelOK(k)

VARIABLES
  source,    \* the kernel as written
  stage,     \* what comes next
  funcs,     \* the functions of the module
  fn,        \* the function chosen for materialization
  blocks     \* the size of each block

variantVars == <<source, stage, funcs, fn, blocks>>

VariantInit ==
  /\ source \in Kernels
  /\ stage = "split"
  /\ funcs = {source} /\ fn = source
  /\ blocks = <<>>

(* split_floordiv is an option. *)
SplitFloorDivLoops ==
  /\ stage = "split"
  /\ \E on \in BOOLEAN : funcs' = funcs \cup (IF on THEN SplitsOf(source) ELSE {})
  /\ stage' = "explore"
  /\ UNCHANGED <<source, fn, blocks>>

ExploreKeepingBases ==  \* mutant: the split functions are not erased
  /\ stage = "explore"
  /\ funcs' = funcs \cup UNION {VariantsOf(f) : f \in funcs}
  /\ stage' = "materialize"
  /\ UNCHANGED <<source, fn, blocks>>

ExploreParallelSets ==
  /\ stage = "explore"
  /\ funcs' = {f \in funcs : ~ f.base} \cup UNION {VariantsOf(f) : f \in funcs}
  /\ stage' = "materialize"
  /\ UNCHANGED <<source, fn, blocks>>

BlockLoops == {l \in ToSet(source.root \o source.loops) : l.block > 0}
BlockNames == {l.name : l \in BlockLoops}

(* The solver picks a function and block sizes within their bounds. *)
Materialize ==
  /\ stage = "materialize"
  /\ fn' \in funcs
  /\ blocks' \in {b \in [BlockNames -> UNION {1 .. l.block : l \in BlockLoops}] :
                    \A l \in BlockLoops : b[l.name] <= l.block}
  /\ funcs' = {fn'}
  /\ stage' = "hoist"
  /\ UNCHANGED source

(* The exploration on its own. *)
VariantSpec ==
  VariantInit /\ [][SplitFloorDivLoops \/ ExploreParallelSets \/ Materialize]_variantVars

-----------------------------------------------------------------------------
(* The variants that are mapped at full occupancy only have an iteration    *)
(* for every core, whatever block sizes the solver picks.                   *)
CoversCores ==
  (stage = "hoist" /\ fn.full) => Len(Points(fn.root, blocks)) >= Cores

(* The functions of the module differ in their names, by which the solver's *)
(* bindings find them, and in the loops they run spatially.                 *)
VariantsDistinct ==
  stage = "materialize" =>
    \A f, g \in funcs : f # g =>
      /\ f.name # g.name
      /\ {<<l.id, l.extent>> : l \in ToSet(f.root)} # {<<l.id, l.extent>> : l \in ToSet(g.root)}

=============================================================================

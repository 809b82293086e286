------------------------------- MODULE LoopNest -------------------------------
(***************************************************************************)
(* The kernels that the exploration of parallel sets rewrites: one         *)
(* affine.parallel (root) around scf.for loops (loops), the innermost body *)
(* (deep), and what surrounds the last loop in the body of the one around  *)
(* it (pre, post).  If pre and post are empty the nest is perfect.         *)
(*                                                                         *)
(* Loops run from 0 in steps of 1.  A loop is a record                     *)
(*   id, of, scale  which loop it is (of the source, or a half of a split  *)
(*                  one); the source loop whose index it contributes to,   *)
(*                  by its own index times scale                           *)
(*   name           the name used in the names of variants                 *)
(*   extent, block  block = 0: extent iterations; otherwise one for each   *)
(*                  block of a size in 1 .. block (loom.sym, upper_bound)  *)
(*   dep            the loop whose index bounds it (causal), or NoLoop     *)
(*   carried        it has iter_args                                       *)
(*   indep          it is marked loom.independent                          *)
(*                                                                         *)
(* A step loads a DRAM tile into the L1 buffer of a semaphore_take,        *)
(* computes with it, computes and writes the result to it, gives it back,  *)
(* or stores the result of the iteration to DRAM.  Alloc is the loom.alloc *)
(* of each take.  An address is a buffer and a sequence of terms on loop   *)
(* indices.                                                                *)
(***************************************************************************)
EXTENDS Integers, Sequences, FiniteSets, SequencesExt, FiniteSetsExt, TLC

CONSTANTS
  NoLoop,
  Alloc   \* the L1 buffer behind each semaphore_take

CeilDiv(a, b) == (a + b - 1) \div b

Named(sym, idx) == [sym |-> sym, idx |-> idx, part |-> "", by |-> 0]

Whole(id) == <<id, "">>
Half(id, part) == <<id[1], part>>

Loop(id, sym, extent, block, dep, carried) ==
  [id |-> Whole(id), of |-> Whole(id), scale |-> 1, name |-> Named(sym, 0), extent |-> extent,
   block |-> block, dep |-> dep, carried |-> carried, indep |-> FALSE]

Term(id, op, k) == [loop |-> id, op |-> op, k |-> k]
Index(id) == Term(id, "is", 1)

Step(op, take, buf, off) == [op |-> op, take |-> take, buf |-> buf, off |-> off]
Load(take, buf, off) == Step("load", take, buf, off)
Use(take) == Step("use", take, "", <<>>)
Update(take) == Step("update", take, "", <<>>)
Give(take) == Step("give", take, "", <<>>)
Store(buf, off) == Step("store", "", buf, off)

Kernel(root, loops, pre, deep, post) ==
  [name |-> <<>>, root |-> root, loops |-> loops, pre |-> pre, deep |-> deep, post |-> post,
   base |-> FALSE, full |-> FALSE, hoistAt |-> 0, hoisted |-> <<>>]

Steps(f) == f.pre \o f.deep \o f.post

(* A value depends on the index of a loop directly, or on the index that    *)
(* the loop was split from.                                                 *)
UsesIndex(step, loop) == \E t \in ToSet(step.off) : t.loop \in {loop.id, loop.of}

-----------------------------------------------------------------------------
(* The iterations of loops for given indices of those around them (env) and *)
(* given block sizes.                                                       *)

Trips(loop, blocks, env) ==
  IF loop.dep # NoLoop THEN env[loop.dep] + 1
  ELSE IF loop.block = 0 THEN loop.extent
  ELSE CeilDiv(loop.extent, blocks[loop.name])

(* The loop's own index, and its share of the source loop's.                *)
Bind(env, loop, i) ==
  LET source == IF loop.of \in DOMAIN env THEN env[loop.of] ELSE 0
  IN  [x \in DOMAIN env \cup {loop.of, loop.id} |->
         IF x = loop.of THEN source + i * loop.scale ELSE IF x = loop.id THEN i ELSE env[x]]

Turns(env, loop, blocks) == [n \in 1 .. Trips(loop, blocks, env) |-> Bind(env, loop, n - 1)]

(* The iterations of the affine.parallel, in lexicographic order. *)
Points(loops, blocks) ==
  FoldLeft(LAMBDA envs, l : FlattenSeq([i \in DOMAIN envs |-> Turns(envs[i], l, blocks)]),
           <<<<>>>>, loops)

=============================================================================

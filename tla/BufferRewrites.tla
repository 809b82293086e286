--------------------------- MODULE BufferRewrites ---------------------------
(***************************************************************************)
(* The Tenstorrent rewrites of a bufferized kernel, in their order: the    *)
(* conversion of zero-filled matmuls, the folding of zero fills and the    *)
(* splitting of chains of binary scalar ops.                               *)
(*                                                                         *)
(* The back end, which is not in the repository, takes an op whose zero    *)
(* fill was folded to start from zero: Folded marks the op fresh where the *)
(* program only loses the fill.                                            *)
(***************************************************************************)
EXTENDS BufferIR

CONSTANTS
  Kernels,   \* the bufferized kernels
  Contents,  \* a set of initial contents of the buffers, whatever they hold
  RankOne,   \* the buffers with at most one dimension
  Stores     \* the buffers in memory, whose contents are the kernel's results

VARIABLES source, prog, phase

bvars == <<source, prog, phase>>

\* What a kernel leaves in memory, for each of the initial contents.
Left(p) == [mem \in Contents |-> LET end == FoldLeft(Run, mem, Unrolled(p)) IN [b \in Stores |-> end[b]]]

(***************************************************************************)
(* Zero fills.                                                             *)
(***************************************************************************)
Uses(o, b) == o.out = b \/ b \in Range(o.ins)
SameBlock(p, i, j) == i \in Loop(p) <=> j \in Loop(p)

\* The ops of the block between f and t that use b, but for those let past.
Intervening(p, f, t, b) == {i \in f + 1 .. t - 1 : SameBlock(p, f, i) /\ Uses(p[i], b)}
LetPast(o, b) == o.op = "give" \/ (o.op = "copy" /\ o.ins[1] = b)

ZeroFillsBefore(p, t) ==
  {f \in 1 .. t - 1 : p[f].op = "fill" /\ p[f].c = 0 /\ p[f].out = p[t].out /\ SameBlock(p, f, t)}

IsZeroFilled(p, t) ==
  \E f \in ZeroFillsBefore(p, t) : Intervening(p, f, t, p[t].out) = {}

ConvertedMatmul(p, i) == [p[i] EXCEPT !.op = "loom.matmul"]
Converted(p) ==
  [i \in DOMAIN p |-> IF p[i].op = "matmul" /\ IsZeroFilled(p, i) THEN ConvertedMatmul(p, i) ELSE p[i]]

Consumers == {"matmul", "loom.matmul", "generic", "fill"}
FillFoldedInto(p, t) ==
  IF p[t].op \notin Consumers \/ (p[t].op # "loom.matmul" /\ p[t].out \in Range(p[t].ins)) THEN {}
  ELSE {f \in ZeroFillsBefore(p, t) :
          \A i \in Intervening(p, f, t, p[t].out) : LetPast(p[i], p[t].out)}

Folded(p) ==
  LET folded == UNION {FillFoldedInto(p, t) : t \in DOMAIN p}
      marked(i) == [p[i] EXCEPT !.fresh = FillFoldedInto(p, i) # {}]
  IN FlattenSeq([i \in DOMAIN p |-> IF i \in folded THEN <<>> ELSE <<marked(i)>>])

(***************************************************************************)
(* The first op of a body that combines an earlier binary result with an   *)
(* input, where the body can be cut: the ops the result needs, then those  *)
(* the yielded value needs, which use nothing else from before the cut and *)
(* neither the output nor an input that is the output.                     *)
(***************************************************************************)
IsPureBinary(s) == Len(s.operands) = 2
HasControlSemantics(s) == s.f = "cmp"
IsInput(o, v) == v.kind = "arg" /\ v # OutArg(o)
IsAliased(o, v) == IsInput(o, v) /\ o.ins[v.n] = o.out
OutputArgumentOnly(o, v) == v = OutArg(o)  \* mutant: forgets the inputs that are the output
IsForbiddenOutputOperand(o, v) == v = OutArg(o) \/ IsAliased(o, v)
IsChainLink(s) == IsPureBinary(s) /\ ~ HasControlSemantics(s)

IntermediateSides(o, s) ==
  {k \in 1 .. 2 : LET v == o.body[s].operands[k]
                      other == o.body[s].operands[3 - k]
                  IN /\ v.kind = "val" /\ v.n < s /\ IsChainLink(o.body[v.n])
                     /\ IsInput(o, other) /\ ~ IsAliased(o, other)}

Intermediate(o, s) ==
  o.body[s].operands[CHOOSE k \in IntermediateSides(o, s) : \A j \in IntermediateSides(o, s) : k <= j]

RECURSIVE Slice(_, _, _)
\* The ops v needs, short of the value cut.
Slice(o, v, cut) ==
  IF v = cut \/ v.kind = "arg" THEN {}
  ELSE {v.n} \cup UNION {Slice(o, w, cut) : w \in Range(o.body[v.n].operands)}

Operands(o, ops) == UNION {Range(o.body[k].operands) : k \in ops}
FirstOps(o, s) == Slice(o, Intermediate(o, s), OutArg(o))
SecondOps(o, s) == Slice(o, o.yield, Intermediate(o, s))

Cuts(o) ==
  {s \in DOMAIN o.body :
     /\ IsChainLink(o.body[s])
     /\ IntermediateSides(o, s) # {}
     /\ s \in SecondOps(o, s)
     /\ \A k \in SecondOps(o, s) : k >= s
     /\ \A v \in Operands(o, SecondOps(o, s)) : ~ IsForbiddenOutputOperand(o, v)}

FirstCut(o) == CHOOSE s \in Cuts(o) : \A r \in Cuts(o) : s <= r

\* The cut op or the intermediate value depends on an input of rank one.
NeedsRankOne(o, s) ==
  \E v \in Operands(o, Slice(o, Val(s), OutArg(o))) : IsInput(o, v) /\ o.ins[v.n] \in RankOne

IsSplittable(o) ==
  o.op = "generic" /\ o.parallel /\ Cuts(o) # {} /\ ~ NeedsRankOne(o, FirstCut(o))

\* The generic with these ops only, reading these inputs after lead; where
\* gives the operands that are found elsewhere.
Part(o, ops, lead, where, yield) ==
  LET order == SelectSeq([k \in DOMAIN o.body |-> k], LAMBDA k : k \in ops)
      inputs == SelectSeq([k \in DOMAIN o.ins |-> k], LAMBDA k : Arg(k) \in Operands(o, ops))
      place(seq, n) == CHOOSE k \in DOMAIN seq : seq[k] = n
      moved(v) == CASE v \in DOMAIN where -> where[v]
                    [] v = OutArg(o) -> Arg(Len(lead) + Len(inputs) + 1)
                    [] IsInput(o, v) -> Arg(Len(lead) + place(inputs, v.n))
                    [] OTHER -> Val(place(order, v.n))
  IN [o EXCEPT !.ins = lead \o [k \in DOMAIN inputs |-> o.ins[inputs[k]]],
               !.body = [k \in DOMAIN order |->
                           Scalar(o.body[order[k]].f, [j \in DOMAIN o.body[order[k]].operands |->
                                                         moved(o.body[order[k]].operands[j])])],
               !.yield = moved(yield)]

Split(o) ==
  LET s == FirstCut(o)
      v == Intermediate(o, s)
  IN <<Part(o, FirstOps(o, s), <<>>, <<>>, v),
       [Part(o, SecondOps(o, s), <<o.out>>, [w \in {v} |-> Arg(1)], o.yield) EXCEPT !.fresh = FALSE]>>

SplitOnce(p) == FlattenSeq([i \in DOMAIN p |-> IF IsSplittable(p[i]) THEN Split(p[i]) ELSE <<p[i]>>])

(***************************************************************************)
(* The passes in order; the last goes over the program up to three times.  *)
(***************************************************************************)
MaxDepth == 3
Rounds == <<"split", "split again", "split last">>

BInit == /\ source \in Kernels
         /\ prog = source
         /\ phase = "convert"

Pass(from, to, result) ==
  /\ phase = from
  /\ prog' = result
  /\ phase' = to
  /\ UNCHANGED source

Convert == Pass("convert", "fold", Converted(prog))
Fold == Pass("fold", Rounds[1], Folded(prog))
SplitChains ==
  \E k \in 1 .. MaxDepth :
    LET again == k < MaxDepth /\ SplitOnce(prog) # prog
    IN Pass(Rounds[k], IF again THEN Rounds[k + 1] ELSE "lowered", SplitOnce(prog))

BNext == Convert \/ Fold \/ SplitChains

(* Every pass leaves in memory what the source leaves there, whatever the    *)
(* buffers held before the kernel ran.                                       *)
LeavesAsSource == Left(prog) = Left(source)
=============================================================================

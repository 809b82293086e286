--------------------------- MODULE TensorRewrites ---------------------------
(***************************************************************************)
(* The canonicalization of a tensor kernel before bufferization: guarded   *)
(* elementwise fusion, destination specialization, folding of redundant    *)
(* slices, sinking of preparation ops and proxy copies for loop results,   *)
(* in the order of the exploration pipeline.  The greedy driver applies    *)
(* the patterns of a pass in any order until none matches.                 *)
(***************************************************************************)
EXTENDS TensorIR, TLC

CONSTANTS
  Kernels,  \* the kernels that may come from the front end
  Inputs    \* a set of contents of the kernels' arguments

VARIABLES
  source,   \* the kernel as it came
  prog,     \* the kernel now
  phase     \* the pass that runs

tvars == <<source, prog, phase>>

\* What a kernel stores, for each of the inputs.
Stored(p) == [env \in Inputs |-> FoldLeft(Run, env, Unrolled(p)).stored]

(***************************************************************************)
(* The greedy driver removes an op with no use and no effect.              *)
(***************************************************************************)
RECURSIVE Pruned(_)
Pruned(p) ==
  LET dead == {o.id : o \in {q \in Range(p) : q.op \notin {"store", "for", "end"} /\ Uses(p, q.id) = {}}}
  IN IF dead = {} THEN p ELSE Pruned(SelectSeq(p, LAMBDA o : o.id \notin dead))

(***************************************************************************)
(* Guarded fusion of an elementwise producer into the input it feeds: the  *)
(* only use of the producer, and no leading reduction on either side.      *)
(***************************************************************************)
AllParallel(o) == ~ Reduces(o)
HasLeadingReduction(o) ==
  IsGeneric(o) /\ o.attr.iters # <<>> /\ o.attr.iters[1] = "reduction"

MayFuse(p, c, k) ==
  LET producer == Def(p, p[c].args[k])
  IN /\ Cardinality(Uses(p, producer.id)) = 1
     /\ ~ HasLeadingReduction(producer)
     /\ ~ HasLeadingReduction(p[c])

RECURSIVE Subst(_, _)
Subst(e, new) ==
  IF IsArg(e) THEN new[e.arg] ELSE Node(e.f, Subst(e.l, new), Subst(e.r, new))

Fused(p, c, k) ==
  LET o == p[c]
      d == Def(p, o.args[k])
      n == Outs(d) - 1
      inner == Subst(d.attr.body, [j \in DOMAIN d.args |-> Arg(k - 1 + j)])
      body == Subst(o.attr.body, [j \in DOMAIN o.args |-> IF j = k THEN inner
                                                           ELSE Arg(IF j < k THEN j ELSE j + n - 1)])
      args == SubSeq(o.args, 1, k - 1) \o SubSeq(d.args, 1, n) \o SubSeq(o.args, k + 1, Outs(o))
  IN Pruned([p EXCEPT ![c] = Generic(o.id, o.attr.iters, body, args)])

Fusable(p) ==
  {u \in (DOMAIN p) \X (1 .. 3) :
     /\ IsGeneric(p[u[1]]) /\ u[2] \in DpsIns(p[u[1]])
     /\ LET d == Def(p, p[u[1]].args[u[2]]) IN IsGeneric(d) /\ AllParallel(d)
     /\ MayFuse(p, u[1], u[2])}

(***************************************************************************)
(* Destination specialization: an elementwise consumer that combines what  *)
(* a reduction made with another of its inputs is replaced by the          *)
(* reduction, started from that input instead of a neutral fill.           *)
(***************************************************************************)
SupportedAccumulation == {"add", "mul", "max", "min"}
NeutralInfinity(c, f) ==  \* mutant: either infinity is neutral for a maximum
                         \/ <<f, c>> \in {<<"add", 0>>, <<"mul", 1>>}
                         \/ f \in {"max", "min"} /\ c \in {NegInf, PosInf}
IsNeutralElement(c, f) ==
  \/ f = "add" /\ c = 0
  \/ f = "mul" /\ c = 1
  \/ f = "max" /\ c = NegInf
  \/ f = "min" /\ c = PosInf

IsSimpleAccumulation(o) ==
  /\ IsGeneric(o) /\ AllParallel(o)
  /\ ~ IsArg(o.attr.body) /\ IsArg(o.attr.body.l) /\ IsArg(o.attr.body.r)
  /\ o.attr.body.f \in SupportedAccumulation

ReductionOp(o) ==
  CASE o.op = "matmul" -> "add"
    [] IsGeneric(o) -> LET b == o.attr.body
                       IN IF ~ IsArg(b) /\ Arg(Outs(o)) \in {b.l, b.r} /\ b.f \in SupportedAccumulation
                          THEN b.f ELSE "none"
    [] OTHER -> "none"

IsReductionProducer(o) == o.op = "matmul" \/ (IsGeneric(o) /\ Reduces(o))
IsSemanticAligned(d, c) == IsReductionProducer(d) /\ ReductionOp(d) = c.attr.body.f

\* The inputs whose producer is aligned and starts from a neutral fill.
Alignable(p, c) ==
  {k \in DpsIns(c) :
     LET d == Def(p, c.args[k])
     IN /\ IsSemanticAligned(d, c)
        /\ LET z == Def(p, Last(d.args))
           IN z.op = "fill" /\ IsNeutralElement(z.attr.c, c.attr.body.f)}

\* The argument of the accumulation that is not the k-th.
ActualAccumulator(c, k) ==
  CASE c.attr.body.l = Arg(k) -> c.attr.body.r.arg
    [] c.attr.body.r = Arg(k) -> c.attr.body.l.arg
    [] OTHER -> Outs(c)

FirstAlignable(p, c) == CHOOSE k \in Alignable(p, c) : \A j \in Alignable(p, c) : k <= j

Specializable(p) ==
  {i \in DOMAIN p :
     /\ IsSimpleAccumulation(p[i])
     /\ Alignable(p, p[i]) # {}
     /\ ActualAccumulator(p[i], FirstAlignable(p, p[i])) \in DpsIns(p[i])
     /\ Def(p, p[i].args[FirstAlignable(p, p[i])]).op # "matmul"}

Specialized(p, i) ==
  LET c == p[i]
      k == FirstAlignable(p, c)
      d == Def(p, c.args[k])
  IN Pruned([p EXCEPT ![i] = [d EXCEPT !.id = c.id,
                                       !.args[Outs(d)] = c.args[ActualAccumulator(c, k)]]])

(***************************************************************************)
(* A slice from offset 0 is its source when its sizes are the values of    *)
(* the source's sizes or both have the same type; a dynamic size has the   *)
(* same type whatever it is.                                               *)
(***************************************************************************)
SizesMatch(o) == o.attr.sameValues
TypesMatch(o) == o.attr.dynamic \/ o.attr.len = o.attr.from
Foldable(p) ==
  {i \in DOMAIN p : /\ p[i].op = "slice" /\ p[i].attr.off = 0
                    /\ SizesMatch(p[i]) \/ TypesMatch(p[i])}
Folded(p, i) == Without(ReplaceUses(p, p[i].id, p[i].args[1]), p[i].id)

(***************************************************************************)
(* Preparation ops, the last first: one clone before each use.             *)
(***************************************************************************)
IsPreparation(o) == o.op \in {"fill", "broadcast"}
CloneId(user, k) == user \o "." \o ToString(k)

SunkOne(p, v) ==
  LET prep == Def(p, v)
      clones(i) == FlattenSeq([k \in DOMAIN p[i].args |->
                                 IF p[i].args[k] = v THEN <<[prep EXCEPT !.id = CloneId(p[i].id, k)]>>
                                                     ELSE <<>>])
      user(i) == [p[i] EXCEPT !.args = [k \in DOMAIN @ |-> IF @[k] = v THEN CloneId(p[i].id, k)
                                                             ELSE @[k]]]
  IN Without(FlattenSeq([i \in DOMAIN p |-> clones(i) \o <<user(i)>>]), v)

Sunk(p) == FoldLeft(SunkOne, p, Reverse([i \in DOMAIN SelectSeq(p, IsPreparation) |->
                                            SelectSeq(p, IsPreparation)[i].id]))

(***************************************************************************)
(* A loop result that is handed to memory goes through one copy.           *)
(***************************************************************************)
Proxied(p) ==
  LET handed(o) == o.op = "end" /\ \E u \in Uses(p, o.id) : p[u[1]].op = "store"
      proxy(o) == o.id \o ".p"
      rewired(o) == IF o.op = "store" /\ handed(Def(p, o.args[1]))
                    THEN [o EXCEPT !.args = <<proxy(Def(p, o.args[1]))>>] ELSE o
  IN FlattenSeq([i \in DOMAIN p |->
       <<rewired(p[i])>> \o IF handed(p[i]) THEN <<Plain(proxy(p[i]), "copy", <<p[i].id>>)>> ELSE <<>>])

(***************************************************************************)
(* The passes in order.                                                    *)
(***************************************************************************)
TInit == /\ source \in Kernels
         /\ prog = source
         /\ phase = "fuse"

Moves(to) == phase' = to /\ UNCHANGED source

Fuse ==
  /\ phase = "fuse"
  /\ \/ /\ \E u \in Fusable(prog) : prog' = Fused(prog, u[1], u[2])
        /\ Moves("fuse")
     \/ /\ Fusable(prog) = {}
        /\ prog' = Pruned(prog)
        /\ Moves("specialize")

Specialize ==
  /\ phase = "specialize"
  /\ \/ /\ \E i \in Specializable(prog) : prog' = Specialized(prog, i)
        /\ Moves("specialize")
     \/ /\ Specializable(prog) = {}
        /\ UNCHANGED prog
        /\ Moves("slices")

FoldSlices ==
  /\ phase = "slices"
  /\ \/ /\ \E i \in Foldable(prog) : prog' = Folded(prog, i)
        /\ Moves("slices")
     \/ /\ Foldable(prog) = {}
        /\ UNCHANGED prog
        /\ Moves("sink")

Sink == phase = "sink" /\ prog' = Sunk(prog) /\ Moves("proxy")
Proxy == phase = "proxy" /\ prog' = Proxied(prog) /\ Moves("canonical")

TNext == Fuse \/ Specialize \/ FoldSlices \/ Sink \/ Proxy
TSpec == TInit /\ [][TNext]_tvars

(* Every step of every pass leaves what the kernel stores as the source      *)
(* has it, and at the end each preparation op has one use, in its own scope, *)
(* and no loop result is handed to memory without its copy.                  *)
StoresAsSource ==
  /\ Stored(prog) = Stored(source)
  /\ phase = "canonical" =>
       \A i \in DOMAIN prog :
         /\ IsPreparation(prog[i]) =>
              \E u \in Uses(prog, prog[i].id) : /\ Uses(prog, prog[i].id) = {u}
                                                /\ \A j \in i + 1 .. u[1] - 1 : IsPreparation(prog[j])
         /\ prog[i].op = "store" => Def(prog, prog[i].args[1]).op # "end"
=============================================================================

------------------------------ MODULE BufferIR ------------------------------
(***************************************************************************)
(* A bufferized kernel is a sequence of ops on buffers with at most one    *)
(* loop, between a "for" and an "end".  No rewrite changes an index map,   *)
(* so a buffer holds one integer.                                          *)
(***************************************************************************)
EXTENDS Integers, Sequences, FiniteSets, SequencesExt

(***************************************************************************)
(* Ops.  A body is a sequence of scalar ops on operands: the k-th argument *)
(* of the body, the last of which is the output, or the result of op k.    *)
(***************************************************************************)
Op(op, ins, out) == [op |-> op, ins |-> ins, out |-> out, c |-> 0, fresh |-> FALSE,
                     parallel |-> TRUE, body |-> <<>>, yield |-> <<>>]
Fill(c, out) == [Op("fill", <<>>, out) EXCEPT !.c = c]
Generic(ins, out, parallel, body, yield) ==
  [Op("generic", ins, out) EXCEPT !.parallel = parallel, !.body = body, !.yield = yield]
Marker(op) == Op(op, <<>>, "none")

Arg(k) == [kind |-> "arg", n |-> k]
Val(k) == [kind |-> "val", n |-> k]
Scalar(f, operands) == [f |-> f, operands |-> operands]
OutArg(o) == Arg(Len(o.ins) + 1)

(***************************************************************************)
(* What a kernel leaves in memory.                                         *)
(***************************************************************************)
Apply(f, a) ==
  CASE f = "add" -> a[1] + a[2]
    [] f = "sub" -> a[1] - a[2]
    [] f = "mul" -> a[1] * a[2]
    [] f = "cmp" -> IF a[1] < a[2] THEN 1 ELSE 0
    [] f = "neg" -> - a[1]
    [] f = "select" -> IF a[1] # 0 THEN a[2] ELSE a[3]

Payload(o, mem) ==
  LET args == Append([k \in DOMAIN o.ins |-> mem[o.ins[k]]], IF o.fresh THEN 0 ELSE mem[o.out])
      at(v, vals) == IF v.kind = "arg" THEN args[v.n] ELSE vals[v.n]
      vals == FoldLeft(LAMBDA done, s : Append(done, Apply(s.f, [k \in DOMAIN s.operands |->
                                                                  at(s.operands[k], done)])),
                       <<>>, o.body)
  IN at(o.yield, vals)

Run(mem, o) ==
  CASE o.op = "fill" -> [mem EXCEPT ![o.out] = o.c]
    [] o.op = "copy" -> [mem EXCEPT ![o.out] = mem[o.ins[1]]]
    [] o.op = "loom.matmul" -> [mem EXCEPT ![o.out] = mem[o.ins[1]] * mem[o.ins[2]]]
    [] o.op = "matmul" -> [mem EXCEPT ![o.out] = (IF o.fresh THEN 0 ELSE @)
                                                 + mem[o.ins[1]] * mem[o.ins[2]]]
    [] o.op = "generic" -> [mem EXCEPT ![o.out] = Payload(o, mem)]
    [] OTHER -> mem

Places(p, op) == {i \in DOMAIN p : p[i].op = op}
Loop(p) == IF Places(p, "for") = {} THEN {}
           ELSE {i \in DOMAIN p : \E b \in Places(p, "for"), e \in Places(p, "end") : b < i /\ i < e}

\* Two trips of the loop.
Unrolled(p) ==
  IF Loop(p) = {} THEN p
  ELSE LET e == CHOOSE i \in Places(p, "end") : TRUE
           b == CHOOSE i \in Places(p, "for") : TRUE
       IN SubSeq(p, 1, e) \o SubSeq(p, b, Len(p))
=============================================================================

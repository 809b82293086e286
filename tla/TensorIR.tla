------------------------------ MODULE TensorIR ------------------------------
(***************************************************************************)
(* A tensor kernel is a sequence of ops in SSA form with at most one loop, *)
(* whose body lies between its "for", which defines the carried value, and *)
(* its "end", which yields the next one and defines the result.  A tensor  *)
(* is one row of one or two integers, and a row of one is broadcast.       *)
(***************************************************************************)
EXTENDS Integers, Sequences, FiniteSets, SequencesExt

NegInf == -1000
PosInf == 1000

(***************************************************************************)
(* Ops.  The last argument of a destination-style op is its destination.   *)
(* A body is the k-th argument, or an operator and two bodies.             *)
(***************************************************************************)
Op(id, op, args, attr) == [id |-> id, op |-> op, args |-> args, attr |-> attr]
Fill(id, c, len) == Op(id, "fill", <<>>, [c |-> c, len |-> len])
Generic(id, iters, body, args) == Op(id, "generic", args, [iters |-> iters, body |-> body])
Slice(id, src, attr) == Op(id, "slice", <<src>>, attr)
Plain(id, op, args) == Op(id, op, args, <<>>)

Arg(k) == [arg |-> k]
Node(f, l, r) == [f |-> f, l |-> l, r |-> r]
IsArg(e) == "arg" \in DOMAIN e

Outs(o) == Len(o.args)
DpsIns(o) == 1 .. Outs(o) - 1
IsGeneric(o) == o.op = "generic"
Def(p, v) == LET I == {i \in DOMAIN p : p[i].id = v}
             IN IF I = {} THEN Plain(v, "argument", <<>>) ELSE p[CHOOSE i \in I : TRUE]
Uses(p, v) == {u \in (DOMAIN p) \X (1 .. 4) : u[2] \in DOMAIN p[u[1]].args /\ p[u[1]].args[u[2]] = v}
ReplaceUses(p, v, w) ==
  [i \in DOMAIN p |-> [p[i] EXCEPT !.args = [k \in DOMAIN @ |-> IF @[k] = v THEN w ELSE @[k]]]]
Without(p, v) == SelectSeq(p, LAMBDA o : o.id # v)

(***************************************************************************)
(* What a kernel stores.                                                   *)
(***************************************************************************)
Apply(f, a, b) ==
  CASE f = "add" -> a + b
    [] f = "sub" -> a - b
    [] f = "mul" -> a * b
    [] f = "max" -> IF a > b THEN a ELSE b
    [] f = "min" -> IF a < b THEN a ELSE b

RECURSIVE Value(_, _)
Value(e, v) == IF IsArg(e) THEN v[e.arg] ELSE Apply(e.f, Value(e.l, v), Value(e.r, v))

Reduces(o) == \E k \in DOMAIN o.attr.iters : o.attr.iters[k] = "reduction"

Result(o, env) ==
  LET row(k) == env[o.args[k]]
      at(k, i) == row(k)[IF Len(row(k)) = 1 THEN 1 ELSE i]
      width == CHOOSE n \in {Len(row(k)) : k \in DOMAIN o.args} :
                 \A k \in DOMAIN o.args : Len(row(k)) <= n
      ins(i) == [k \in DpsIns(o) |-> at(k, i)]
  IN CASE o.op = "fill" -> [i \in 1 .. o.attr.len |-> o.attr.c]
       [] o.op = "broadcast" -> <<at(1, 1), at(1, 1)>>
       [] o.op = "slice" -> SubSeq(row(1), o.attr.off + 1, o.attr.off + o.attr.len)
       [] o.op = "matmul" -> [i \in 1 .. width |-> at(3, i) + at(1, i) * at(2, i)]
       [] o.op = "generic" /\ Reduces(o) ->
            <<FoldLeft(LAMBDA acc, i : Value(o.attr.body, Append(ins(i), acc)), row(Outs(o))[1],
                       [i \in 1 .. width |-> i])>>
       [] o.op = "generic" -> [i \in 1 .. width |-> Value(o.attr.body, Append(ins(i), at(Outs(o), i)))]
       [] OTHER -> row(1)

Run(env, o) ==
  IF o.op = "store" THEN [env EXCEPT !.stored = Append(@, env[o.args[1]])]
                    ELSE [v \in DOMAIN env \cup {o.id} |-> IF v = o.id THEN Result(o, env) ELSE env[v]]

\* Two trips of the loop: the second starts from what the first yielded.
Unrolled(p) ==
  LET at(op) == {i \in DOMAIN p : p[i].op = op}
  IN IF at("for") = {} THEN p
     ELSE LET b == CHOOSE i \in at("for") : TRUE
              e == CHOOSE i \in at("end") : TRUE
          IN SubSeq(p, 1, e - 1) \o <<[p[b] EXCEPT !.args = p[e].args]>> \o SubSeq(p, b + 1, Len(p))
=============================================================================

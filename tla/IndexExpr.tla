------------------------------ MODULE IndexExpr ------------------------------
(***************************************************************************)
(* Index values of the IR and the symbolic expressions (Expr) the latency  *)
(* model makes of them: what traceIndexValueToExpr keeps of a loop bound.  *)
(*                                                                         *)
(* An index value is [k, ...]: a symbol, a constant, the induction         *)
(* variable of loop l of a nest, an arithmetic operation, or the clamp of  *)
(* a wave index. An expression is a value of the first two kinds or an     *)
(* operation "add", "mul" or "div"; the solver reads "div" as a division   *)
(* that rounds up. The module has RECURSIVE operators and no theorems.     *)
(***************************************************************************)
EXTENDS Integers, Sequences, FiniteSets, FiniteSetsExt, TLC

Sym(s) == [k |-> "sym", s |-> s]
Con(v) == [k |-> "con", v |-> v]
IV(l) == [k |-> "iv", l |-> l]
Op(o, a, b) == [k |-> "op", o |-> o, a |-> a, b |-> b]
Clamp(a, last) == [k |-> "clamp", a |-> a, last |-> last]

CeilDiv(a, b) == (a + b - 1) \div b

(* What the program computes: symbols from env, induction variables from ivs. *)
RECURSIVE ValueOf(_, _, _)
ValueOf(v, env, ivs) ==
  CASE v.k = "sym" -> env[v.s]
    [] v.k = "con" -> v.v
    [] v.k = "iv" -> ivs[v.l]
    [] v.k = "clamp" -> Min({ValueOf(v.a, env, ivs), ValueOf(v.last, env, ivs)})
    [] v.k = "op" ->
         LET x == ValueOf(v.a, env, ivs)
             y == ValueOf(v.b, env, ivs)
         IN CASE v.o = "add" -> x + y
              [] v.o = "mul" -> x * y
              [] v.o = "floordiv" -> x \div y
              [] v.o \in {"ceildiv", "div"} -> CeilDiv(x, y)

(* How the solver evaluates an expression. *)
Eval(e, env) == ValueOf(e, env, <<>>)

(* The induction variable of loop l is substituted by its largest value,    *)
(* one less than the loop's bound, unless subst gives it a value.           *)
RECURSIVE Trace(_, _, _)
TraceIVFirst(l, nest, subst) ==  \* mutant: the first iteration stands for all
  IF l \in DOMAIN subst THEN Con(subst[l]) ELSE Con(0)

TraceIV(l, nest, subst) ==
  IF l \in DOMAIN subst THEN Con(subst[l])
  ELSE Op("add", Trace(nest[l].ub, nest, subst), Con(-1))

Trace(v, nest, subst) ==
  CASE v.k \in {"sym", "con"} -> v
    [] v.k = "iv" -> TraceIV(v.l, nest, subst)
    [] v.k = "clamp" -> Trace(v.a, nest, subst)
    [] v.k = "op" -> Op(IF v.o \in {"floordiv", "ceildiv"} THEN "div" ELSE v.o,
                        Trace(v.a, nest, subst), Trace(v.b, nest, subst))

NoSubst == <<>>
TripCount(nest, l) == Trace(nest[l].ub, nest, NoSubst)

RECURSIVE InductionVars(_)
InductionVars(v) ==
  CASE v.k \in {"sym", "con"} -> {}
    [] v.k = "iv" -> {v.l}
    [] v.k = "clamp" -> InductionVars(v.a)
    [] v.k = "op" -> InductionVars(v.a) \cup InductionVars(v.b)

RECURSIVE SymbolsOf(_)
SymbolsOf(e) ==
  CASE e.k = "sym" -> {e.s}
    [] e.k = "con" -> {}
    [] e.k = "op" -> SymbolsOf(e.a) \cup SymbolsOf(e.b)

(* The first constant with the value old, a divisor before its dividend.    *)
(* The result is [e, done].                                                 *)
RECURSIVE ReplaceFirst(_, _, _)
ReplaceFirst(e, old, new) ==
  CASE e.k = "sym" -> [e |-> e, done |-> FALSE]
    [] e.k = "con" -> IF e.v = old THEN [e |-> Con(new), done |-> TRUE]
                                   ELSE [e |-> e, done |-> FALSE]
    [] e.k = "op" ->
         LET left == ReplaceFirst(e.a, old, new)
             right == ReplaceFirst(e.b, old, new)
             inLeft == [e |-> Op(e.o, left.e, e.b), done |-> left.done]
             inRight == [e |-> Op(e.o, e.a, right.e), done |-> right.done]
         IN IF e.o = "div" THEN IF right.done THEN inRight ELSE inLeft
                           ELSE IF left.done THEN inLeft ELSE inRight
=============================================================================

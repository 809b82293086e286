---------------------------- MODULE MCVariantETG ----------------------------
(***************************************************************************)
(* Platforms and functions that differ in one respect at a time.           *)
(***************************************************************************)
EXTENDS VariantETG

ClassRank(iters) ==
  CASE GenericClass(iters) = "Parallel" -> 0
    [] GenericClass(iters) = "Reduction" -> 1
    [] GenericClass(iters) = "Mixed" -> 2

Key(head, tail) == [head |-> head, tail |-> tail]
Matmul == Key(<<Named, 1>>, <<0, 0, 0>>)
AddF(tail) == Key(<<Generic, 1, 0>>, tail)
MulF == Key(<<Generic, 2, 0>>, <<0, 0>>)
SumF == Key(<<Generic, 1, 2>>, <<0, 0>>)
Load(kind, area) == Key(<<DataMover, CopyKind, 1, 2, kind, 0>>, area)
Store == Key(<<DataMover, CopyKind, 2, 1, 0, 0>>, <<1, 1>>)

Func(name, key) == [name |-> name, key |-> key, bodies |-> 1]
Module(component, funcs) == [component |-> component, funcs |-> funcs]

(* Units 3 and 4 share nothing, unit 5 shares a resource with each. *)
Wormhole ==
  [processors |-> (1 :> {11}) @@ (2 :> {12}) @@ (3 :> {13}) @@ (4 :> {14})
                  @@ (5 :> {13, 14}),
   modules |->
     << Module(2, << Func("add", AddF(<<0, 0>>)), Func("mul", MulF), Func("sum", SumF),
                     [Func("cmp_select", AddF(<<0>>)) EXCEPT !.bodies = 2] >>),
        Module(1, << Func("matmul", Matmul) >>),
        Module(3, << Func("unicast", Load(0, <<1, 1>>)), Func("ignored", Matmul) >>),
        Module(4, << Func("row", Load(0, <<1, Dynamic>>)), Func("any", Load(0, <<Dynamic, Dynamic>>)) >>),
        Module(5, << Func("sharded", Load(1, <<1, 1>>)), Func("store", Store) >>) >>]

(* The same functions with other operand memory kinds, in every order. *)
Signatures == {<<0>>, <<0, 0>>, <<0, 1>>, <<1>>}
Orders == {s \in [1 .. 4 -> Signatures] : \A i, j \in 1 .. 4 : i # j => s[i] # s[j]}
Signed(s) == [processors |-> (2 :> {12}),
              modules |-> <<Module(2, [i \in 1 .. 4 |-> Func(s[i], AddF(s[i]))])>>]

MCPlatforms == {Wormhole} \cup {Signed(s) : s \in Orders}

-----------------------------------------------------------------------------
Par(ub, dim, level) == [kind |-> "par", ub |-> Con(ub), sym |-> "bm", iter |-> "spatial",
                        dim |-> dim, level |-> level]
For(ub, sym, iter) == [kind |-> "for", ub |-> ub, sym |-> sym, iter |-> iter,
                       dim |-> "", level |-> 0]

Tiles(n, s) == Op("ceildiv", Con(n), Sym(s))
Waves(n, cores) == For(Op("ceildiv", Tiles(n, "bm"), Con(cores)), "bm", "temporal")
ClampTo(n, v) == Clamp(v, Op("add", Tiles(n, "bm"), Con(-1)))
Causal(tile) == For(Op("ceildiv", Op("mul", Op("add", tile, Con(1)), Sym("bm")), Sym("bn")),
                    "bn", "sequential")

Prefixed(tile) == For(Op("ceildiv", Op("add", Op("mul", tile, Sym("bm")), Con(4)), Sym("bn")),
                      "bn", "sequential")

Nests ==
  { <<>>,
    << For(Tiles(6, "bn"), "bn", "sequential") >>,
    << Par(2, "dim_x", 0), Waves(7, 2),
       Causal(ClampTo(7, Op("add", Op("mul", IV(2), Con(2)), IV(1)))) >>,
    << Par(2, "dim_x", 0), Par(3, "dim_y", 0), Waves(9, 6),
       Causal(ClampTo(9, Op("add", Op("mul", IV(3), Con(6)),
                            Op("add", Op("mul", IV(1), Con(3)), IV(2))))) >>,
    << Waves(6, 1), Causal(Op("floordiv", Op("mul", IV(1), Sym("bm")), Sym("bm"))) >>,
    << Par(2, "dim_x", 0), Waves(7, 2), Prefixed(Op("add", Op("mul", IV(2), Con(2)), IV(1))) >>,
    << Par(2, "dim_x", 0), Waves(8, 2), For(Op("ceildiv", Con(4), Con(2)), "bn", "sequential"),
       Causal(Op("add", Op("mul", IV(2), Con(2)), IV(1))) >> }

Symbols(asure) == ("bm" :> [ub |-> 4, asure |-> asure]) @@ ("bn" :> [ub |-> 4, asure |-> FALSE])

Alloc(mem, dims, role) == [mem |-> mem, dims |-> dims, role |-> role]
AllocLists ==
  { << Alloc("L1", <<Sym("bm"), Sym("bn")>>, "load"), Alloc("L1", <<Sym("bn")>>, "compute") >>,
    << Alloc("L1", <<Con(3), Sym("bm"), Con(1)>>, "compute"), Alloc("DRAM", <<Con(5)>>, "compute"),
       Alloc("L1", <<>>, "compute"), Alloc("L1", <<Con(1), Con(2)>>, "store") >>,
    << Alloc("L1", <<Con(1), Con(1)>>, "compute") >>,
    << Alloc("L1", <<Con(3), Sym("bm")>>, "load") >> }

View(strides, area, moved) ==
  [strides |-> strides, area |-> area, inSeq |-> TRUE, moved |-> moved,
   pars |-> << [dim |-> "dim_x", level |-> 0, ub |-> 4], [dim |-> "dim_y", level |-> 0, ub |-> 8],
               [dim |-> "dim_x", level |-> 0, ub |-> 4] >>]
Unicast == View(<<16, 1>>, <<1, 1>>, {1})

Plain(kind, uses) == [kind |-> kind, keys |-> <<>>, uses |-> uses]
Compute(keys, uses, generic) ==
  [kind |-> "compute", keys |-> keys, uses |-> uses, generic |-> generic]
Move(kind, key, view, dims) ==
  [kind |-> kind, keys |-> <<key>>, uses |-> 1, view |-> view, dims |-> dims, rank |-> 2]

RowSum == [iters |-> <<"parallel", "reduction">>, extents |-> <<3, 5>>,
           operands |-> << [map |-> <<1, 0>>, dims |-> <<3>>], [map |-> <<1, 2>>, dims |-> <<3, 5>>] >>]
Scale == [iters |-> <<"parallel", "parallel">>, extents |-> <<3, 5>>,
          operands |-> << [map |-> <<2, 1>>, dims |-> <<5, 3>>] >>]

Base == [platforms |-> {Wormhole}, symbols |-> Symbols(FALSE), nest |-> <<>>, allocs |-> <<>>,
         reduces |-> FALSE, ops |-> ("index" :> Plain("index", 1)), maxOps |-> 0]

Programs ==
  [Base EXCEPT !.maxOps = 4,
     !.ops = ("index" :> Plain("index", 1)) @@ ("for" :> Plain("for", 1))
             @@ ("matmul" :> Compute(<<Matmul>>, 2, <<>>))]

Streams ==
  [Base EXCEPT !.maxOps = 3,
     !.ops = ("index" :> Plain("index", 1)) @@ ("fill" :> Plain("fill", 1))
             @@ ("add_mul" :> Compute(<<AddF(<<0, 0>>), MulF>>, 1, Scale))
             @@ ("sum" :> Compute(<<Key(<<Generic, 1, ClassRank(RowSum.iters)>>, <<0, 0>>)>>, 1, RowSum))
             @@ ("unicast" :> Move("load", Load(0, <<1, 1>>), Unicast, <<4, 2, 3>>))
             @@ ("row" :> Move("load", Load(0, <<1, 8>>), View(<<16, 1>>, <<1, 8>>, {2}), <<5>>))
             @@ ("sharded" :> Move("load", Load(1, <<1, 1>>), Unicast, <<4, 3>>))
             @@ ("store" :> Move("store", Store, Unicast, <<2, 2, 2, 3>>))]

Areas == {1, 2, 8} \X {1, 2, 8}
Broadcasts ==
  {[Base EXCEPT !.maxOps = 1, !.ops = ("load" :> Move("load", Load(0, area), View(<<cols, 1>>, area, moved), <<4, 3>>))] :
     area \in Areas, cols \in {1, 2, 16}, moved \in {{}, {1}, {2}}}

MCFunctions ==
  {Programs, Streams}
    \cup Broadcasts
    \cup {[Base EXCEPT !.nest = n, !.symbols = Symbols(a)] : n \in Nests, a \in BOOLEAN}
    \cup {[Base EXCEPT !.allocs = a, !.reduces = r] : a \in AllocLists, r \in BOOLEAN}
    \cup {[Base EXCEPT !.platforms = MCPlatforms, !.maxOps = 1,
             !.ops = ("add" :> Compute(<<AddF(<<0, 1>>)>>, 0, Scale))]}

MCWorkload ==
  [op : 1 .. 5, n : 1 .. 2, unit : 1 .. 5,
   resources : {{11, ComputeUnit}, {12, ComputeUnit}, {13, 3}, {14, 4}, {13, 14, 5}}]
MCResource == 0 .. 14
=============================================================================

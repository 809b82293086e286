----------------------------- MODULE MCRewrites -----------------------------
(***************************************************************************)
(* Small kernels for the rewrites of tensors and of buffers, in the forms  *)
(* of those under examples/.  A behaviour rewrites one kernel of either    *)
(* kind; the phases of the two have different names.                       *)
(***************************************************************************)
EXTENDS Integers, Sequences, FiniteSets, TLC

CONSTANTS TensorKernels, TensorInputs, BufferKernels, BufferContents, RankOne, Stores

VARIABLES source, prog, phase

T == INSTANCE TensorIR
B == INSTANCE BufferIR

(***************************************************************************)
(* Tensors.                                                                *)
(***************************************************************************)
MCTensorInputs ==
  {[x |-> <<2, -1>>, y |-> <<3, 5>>, empty |-> <<7>>, stored |-> <<>>],
   [x |-> <<-4, 3>>, y |-> <<2, -2>>, empty |-> <<-9>>, stored |-> <<>>]}

Elementwise(id, f, a, b) ==
  T!Generic(id, <<"parallel">>, T!Node(f, T!Arg(1), T!Arg(2)), <<a, b, "empty">>)
Reduce(id, f, iters, a, z) ==
  T!Generic(id, iters, T!Node(f, T!Arg(2), T!Arg(1)), <<a, z>>)

Neutral == [add |-> 0, mul |-> 1, max |-> T!NegInf, min |-> T!PosInf]
RowReduction == <<"parallel", "reduction">>

\* A whole slice, by its values or by its type, and a smaller one.
SliceKinds ==
  {<<>>} \cup
  {<<T!Slice("xs", "x", [off |-> off, len |-> len, from |-> 2, sameValues |-> same, dynamic |-> dyn])>> :
     off \in {0, 1}, len \in {1, 2}, same \in BOOLEAN, dyn \in BOOLEAN}
\* Equal values have equal sizes, a dynamic slice is the whole, and all stay inside.
RealSlice(s) ==
  \A i \in DOMAIN s : LET a == s[i].attr IN /\ a.sameValues \/ a.dynamic => a.len = a.from
                                            /\ a.off + a.len <= a.from
Sliced(s) == IF s = <<>> THEN "x" ELSE "xs"

\* A reduction in a loop, combined with the carried value.
Accumulations ==
  {(IF outside THEN <<z>> ELSE <<>>) \o slice
     \o <<T!Fill("i", 3, 1), T!Plain("a", "for", <<"i">>)>> \o (IF outside THEN <<>> ELSE <<z>>)
     \o <<Elementwise("e", "sub", Sliced(slice), "y"), Reduce("r", f, iters, "e", "z"), s>> \o extra
     \o <<T!Plain("l", "end", <<"s">>), T!Plain("o", "store", <<"l">>)>> :
     outside \in BOOLEAN, slice \in {k \in SliceKinds : RealSlice(k)},
     z \in {T!Fill("z", c, 1) : c \in {0, 1, T!NegInf, T!PosInf}},
     f \in {"add", "mul", "max", "min"}, iters \in {RowReduction, <<"reduction">>},
     s \in {Elementwise("s", g, "a", "r") : g \in {"add", "max"}} \cup {Elementwise("s", "add", "r", "a")},
     extra \in {<<>>, <<Elementwise("t", "sub", "r", "y"), T!Plain("p", "store", <<"t">>)>>}}

\* A matmul into zeros, combined with the carried value or with itself.
Matmuls ==
  {<<T!Fill("z", 0, 2), T!Fill("i", c, 2), T!Plain("a", "for", <<"i">>),
     T!Plain("m", "matmul", <<"x", "y", "z">>), s, T!Plain("l", "end", <<"s">>)>> \o post :
     c \in {0, 4}, s \in {Elementwise("s", "add", q[1], q[2]) : q \in {<<"m", "a">>, <<"a", "m">>, <<"m", "m">>}},
     post \in {<<T!Plain("o", "store", <<"l">>)>>,
               <<T!Plain("o", "store", <<"l">>), Elementwise("u", "sub", "l", "x"), T!Plain("v", "store", <<"u">>)>>}}

\* Chains of fusable ops, with a broadcast and a fill that are shared.
Chains ==
  {<<T!Fill("z", c, 1), T!Plain("b", "broadcast", <<"z">>), Elementwise("e", "sub", "x", "b"),
     Elementwise("g", f, "e", q), Reduce("r", "max", iters, "g", "z"), Elementwise("s", "max", w, "r"),
     T!Plain("o", "store", <<"s">>), T!Plain("p", "store", <<"b">>)>> :
     c \in {2, T!NegInf}, f \in {"sub", "mul"}, q \in {"e", "b", "y"}, iters \in {RowReduction, <<"reduction">>},
     w \in {"z", "r"}}

MCTensorKernels == Accumulations \cup Matmuls \cup Chains

(***************************************************************************)
(* Buffers: a, b and c are inputs, c of rank one; t is a tile in L1; d and *)
(* o are in memory.                                                        *)
(***************************************************************************)
MCBufferContents ==
  {[a |-> 2, b |-> -3, c |-> 5, t |-> 11, d |-> 0, o |-> 0, none |-> 0],
   [a |-> -1, b |-> 4, c |-> 3, t |-> -7, d |-> 0, o |-> 0, none |-> 0]}

Args == {B!Arg(k) : k \in 1 .. 3}
Bodies ==
  {<<B!Scalar(f, <<v, w>>), B!Scalar(g, <<p, q>>)>> :
     f \in {"sub", "cmp"}, g \in {"sub", "cmp"}, v \in Args, w \in Args,
     p \in Args \cup {B!Val(1)}, q \in Args \cup {B!Val(1)}} \cup
  {<<B!Scalar("sub", <<v, w>>), B!Scalar(g, <<B!Val(1), q>>), s>> :
     v \in Args, w \in Args, g \in {"add", "sub"}, q \in Args \cup {B!Val(1)},
     s \in {B!Scalar("neg", <<B!Val(2)>>)} \cup
           {B!Scalar("mul", <<u, r>>) : u \in {B!Val(2)}, r \in Args \cup {B!Val(1)}} \cup
           {B!Scalar("sub", <<r, B!Val(2)>>) : r \in Args \cup {B!Val(1)}} \cup
           {B!Scalar("select", <<B!Val(1), B!Val(2), B!Arg(1)>>)}}

\* A chain in place or into another tile, over a tile that another op wrote.
ScalarChains ==
  {<<B!Op("copy", <<"a">>, "t"), B!Generic(ins, "t", TRUE, body, B!Val(Len(body))), B!Op("copy", <<"t">>, "o")>> :
     ins \in {<<"a", "b">>, <<"t", "b">>, <<"a", "c">>}, body \in Bodies}

Sum(ins) == B!Generic(ins, "t", FALSE, <<B!Scalar("add", <<B!OutArg([ins |-> ins]), B!Arg(1)>>)>>, B!Val(1))
Halve(ins) == B!Generic(ins, "t", TRUE, <<B!Scalar("sub", <<B!Arg(1), B!Arg(2)>>)>>, B!Val(1))

\* A filled tile, then what uses it, in the loop or before and after it.
FilledTiles ==
  {before \o <<B!Fill(c, "t")>> \o between \o <<work>> \o <<B!Op("copy", <<"t">>, "o")>> \o after :
     before \in {<<>>, <<B!Fill(0, "t")>>, <<B!Marker("for")>>},
     c \in {0, 1}, between \in {<<>>, <<B!Op("give", <<"t">>, "none")>>, <<Halve(<<"t", "b">>)>>,
                                <<Sum(<<"b">>)>>, <<B!Fill(1, "t")>>},
     work \in {B!Op("matmul", <<"a", "b">>, "t"), Sum(<<"a">>), Halve(<<"a", "b">>), Halve(<<"t", "b">>)},
     after \in {<<>>, <<B!Marker("end")>>, <<B!Marker("end"), B!Op("matmul", <<"a", "a">>, "t"),
                                              B!Op("copy", <<"t">>, "d")>>}}

\* A tile filled before a loop that accumulates in it.
CarriedTiles ==
  {<<B!Fill(0, "t"), B!Marker("for"), work, B!Marker("end"), B!Op("copy", <<"t">>, "o")>> :
     work \in {B!Op("matmul", <<"a", "b">>, "t"), Sum(<<"a">>), Halve(<<"t", "b">>)}}

Balanced(p) == \A op \in {"for", "end"} : Cardinality(B!Places(p, op)) = Cardinality(B!Places(p, "for"))
MCBufferKernels == ScalarChains \cup CarriedTiles \cup {p \in FilledTiles : Balanced(p)}

(***************************************************************************)
(* The run.                                                                *)
(***************************************************************************)
Tensors == INSTANCE TensorRewrites WITH Kernels <- TensorKernels, Inputs <- TensorInputs
Buffers == INSTANCE BufferRewrites WITH Kernels <- BufferKernels, Contents <- BufferContents

Init == Tensors!TInit \/ Buffers!BInit
Next == Tensors!TNext \/ Buffers!BNext
Spec == Init /\ [][Next]_<<source, prog, phase>>

OnBuffers == phase \in {"convert", "fold", "lowered"} \cup {Buffers!Rounds[k] : k \in 1 .. Buffers!MaxDepth}

(* Canonicalization changes nothing of what a tensor kernel stores, and      *)
(* leaves each preparation op to one user beside it.                         *)
TensorsAsSource == ~ OnBuffers => Tensors!StoresAsSource

(* The Tenstorrent rewrites change nothing of what a bufferized kernel       *)
(* leaves in memory.                                                         *)
BuffersAsSource == OnBuffers => Buffers!LeavesAsSource
=============================================================================

--------------------------- MODULE MCNestExecution ---------------------------
(* Small kernels for NestExecution, in the forms of those under examples/.   *)
EXTENDS NestExecution

MCCores == 2
MCBytes == "q" :> 1 @@ "k" :> 2 @@ "v" :> 1
MCAlloc == "q" :> "q" @@ "k" :> "k" @@ "v" :> "v" @@ "w" :> "k"

Const(id, extent) == Loop(id, "", extent, 0, NoLoop, FALSE)
Tiles(id, extent, block) == Loop(id, id, extent, block, NoLoop, FALSE)
Is(id) == Index(Whole(id))
Div(id, k) == Term(Whole(id), "div", k)
Mod(id, k) == Term(Whole(id), "mod", k)
Prev(id) == Term(Whole(id), "prev", 1)

Read(take, buf, off) == <<Load(take, buf, off), Use(take), Give(take)>>

\* C[m,n] += A[m,k] * B[k,n], k carrying the accumulator.
Matmul ==
  {Kernel(<<Tiles("m", e, 1)>>, <<Tiles("n", n, b), Loop("k", "k", 2, 2, NoLoop, TRUE)>>, <<>>,
          Read("q", "A", <<Is("m"), Is("k")>>) \o Read("k", "B", <<Is("k"), Is("n")>>),
          <<Store("C", <<Is("m"), Is("n")>>)>>) : e \in {1, 2}, b \in {1, 2}, n \in {2, 3}}

\* Query heads that share the key of their group, and a weight of their place in it.
Grouped ==
  {Kernel(<<Const("b", 1)>>, <<h>>, <<>>, body \o <<Store("O", <<Is("b"), Is("h")>>)>>, <<>>) :
     h \in {Const("h", 4), Const("h", 5), Tiles("h", 4, 1), Tiles("h", 4, 2)},
     body \in {Read("k", "K", <<Is("b"), Div("h", 2)>>) \o Read("q", "Q", <<Is("b"), Is("h")>>),
               Read("k", "K", <<Div("h", 2)>>) \o Read("v", "W", <<Mod("h", 2)>>)}}

\* A loop that can be split in two ways.
TwoGroupings ==
  {Kernel(<<Const("b", 1)>>, <<Const("h", 6)>>, <<>>,
          Read("k", "K", <<Div("h", 2)>>) \o Read("v", "W", <<Div("h", 3)>>)
            \o <<Store("O", <<Is("b"), Is("h")>>)>>, <<>>)}

\* What is read in the body: one buffer for two tiles, an update in place, a
\* tile of the row and one of the column.
Bodies ==
  {Read("k", "K", <<Is("i")>>) \o Read("w", "V", <<Is("j")>>),
   <<Load("k", "K", <<Is("i")>>), Update("k"), Give("k")>>,
   Read("k", "K", <<Is("i")>>) \o Read("q", "V", <<Is("j")>>),
   Read("k", "K", <<Is("i")>>) \o Read("q", "V", <<Is("j")>>) \o Read("v", "W", <<>>)}

Planes ==
  {Kernel(<<Const("b", 2)>>, <<Const("i", m), Const("j", n)>>, <<>>,
          body \o <<Store("O", <<Is("b"), Is("i"), Is("j")>>)>>, <<>>) :
     m \in {2, 3}, n \in {2}, body \in Bodies}

\* Running sums: in a register, or through the stored tiles.
Running ==
  {Kernel(<<Const("b", 2)>>, <<l>>, <<>>, body \o <<Store("Y", <<Is("b"), Is("i")>>)>>, <<>>) :
     l \in {Loop("i", "i", 3, 1, NoLoop, TRUE), Const("i", 3)},
     body \in {Read("q", "X", <<Is("b"), Is("i")>>),
               Read("q", "X", <<Is("b"), Is("i")>>) \o Read("k", "Y", <<Is("b"), Prev("i")>>)}}

\* Causal attention: j runs to i; the query tile is read before the loop.
Causal ==
  {Kernel(<<Const("i", 2)>>, <<Const("h", 2), Loop("j", "j", 2, 1, Whole("i"), TRUE)>>,
          <<Load("q", "Q", off)>>, <<Use("q")>> \o Read("k", "K", <<Is("h"), Is("j")>>),
          <<Give("q"), Store("O", <<Is("h"), Is("i")>>)>>) :
     off \in {<<Is("i"), Is("h")>>, <<Is("h")>>, <<Is("i")>>}}

\* Two results, one of which is the same for every iteration of the inner loop.
TwoResults ==
  {Kernel(<<Const("b", 2)>>, <<Const("h", 2)>>, <<>>,
          Read("q", "X", <<Is("b"), Is("h")>>) \o
            <<Store("Y", <<Is("b"), Is("h")>>), Store("Z", <<Is("b")>>)>>, <<>>)}

SourceKernels ==
  Matmul \cup Grouped \cup TwoGroupings \cup Planes \cup Running \cup Causal \cup TwoResults
=============================================================================

----------------------------- MODULE ProgramShapes -----------------------------
(***************************************************************************)
(* The programs TLC analyses and executes: up to four operations before    *)
(* the loop, two or three in it, and after it a few and a store.           *)
(* Every operation's operands range over all the tensors in scope, so that *)
(* a family contains every def-use pattern of its size.  The shapes are    *)
(* those of the kernels under examples/ (fills that start accumulators,    *)
(* matmuls that accumulate into them, elementwise rescaling, loaded tiles, *)
(* values computed once and read in every iteration).                      *)
(***************************************************************************)
EXTENDS TensorProgram

Fill(r) == Op("linalg", r, <<>>)
Load(r) == Op("load", r, <<>>)
Store(u) == Op("store", NoVal, <<In(u, "other")>>)
Unary(r, S) == {Op("linalg", r, <<In(u, rel)>>) : u \in S, rel \in {"same", "other"}}
Binary(r, S) == {Op("linalg", r, <<In(u, "same"), In(w, rel)>>) :
                    u \in S, w \in S, rel \in {"same", "other"}}
Accum(r, S, T) == {Op("linalg", r, <<In(u, "other"), In(w, "init")>>) : u \in S, w \in T}

OnePhi == <<[arg |-> "a", res |-> "r"]>>
TwoPhis == <<[arg |-> "a", res |-> "r"], [arg |-> "b", res |-> "s"]>>

(* Nothing computed is dead: canonicalization removed what nobody uses. *)
AllUsed(p) ==
  \A k \in DOMAIN p.code : p.code[k].res # NoVal => Uses(p, p.code[k].res) # {}

-----------------------------------------------------------------------------
OneLoop(is, qs, xs, ys, yields, posts, specials) ==
  {p \in {Program(<<i, q>>, <<"i">>, OnePhi, <<x, y>>, <<w>>, post, sp) :
            i \in is, q \in qs, x \in xs, y \in ys, w \in yields, post \in posts,
            sp \in specials} : AllUsed(p) /\ OneType(p)}

TwoLoops(inits, xs, ys, zs, yields, posts) ==
  {p \in {Program(<<Fill("i"), Fill("j")>>, n, TwoPhis, <<x, y, z>>, w, post, {}) :
            n \in inits, x \in xs, y \in ys, z \in zs, w \in yields, post \in posts} : AllUsed(p)}

OnePost(S) == {<<p, Store("p")>> : p \in Unary("p", S)}
TwoPosts(S, T) == {<<p, t, Store("t")>> : p \in Unary("p", S), t \in Binary("t", T)}
JoinedPost == <<Op("linalg", "p", <<In("r", "same"), In("s", "same")>>), Store("p")>>

(* One loop-carried value, all def-use patterns. *)
Lifetimes(ok(_)) ==
  {p \in OneLoop({Fill("i"), Load("i")}, {Fill("q"), Load("q")} \cup Unary("q", {"i"}),
                 Unary("x", {"i", "q", "a"}) \cup {Load("x")}, Unary("y", {"i", "q", "a", "x"}),
                 {"y"}, OnePost({"r", "q"}) \cup TwoPosts({"r"}, {"q", "p"}), {{}}) : ok(p)}

(* Tensors of a special memory kind, outside the loop, in it, or carried. *)
Specials(ok(_)) ==
  {p \in OneLoop({Fill("i"), Load("i")}, {Fill("q"), Load("q")} \cup Unary("q", {"i"}),
                 Unary("x", {"q", "a"}) \cup {Load("x")}, Unary("y", {"i", "a", "x"}), {"y"},
                 OnePost({"r", "q"}), {{"q"}, {"x"}, {"i", "a", "y", "r"}}) : ok(p)}

(* Matmuls that accumulate into whatever is there. *)
Accumulators(ok(_)) ==
  {p \in OneLoop({Fill("i")}, {Load("q"), Fill("q")},
                 {Fill("x")} \cup Unary("x", {"a", "q"}) \cup Accum("x", {"q", "a"}, {"a", "q"}),
                 Accum("y", {"q", "a", "x"}, {"a", "x", "q"}) \cup Unary("y", {"x"}), {"y"},
                 OnePost({"r", "q"}), {{}}) : ok(p)}

(* Two accumulators that may start from one value, and three steps that     *)
(* combine them: the rescaled running sums of the attention kernels.        *)
Pairs(ok(_)) ==
  {p \in TwoLoops({<<"i", "i">>, <<"i", "j">>}, Unary("x", {"a", "b"}) \cup {Load("x")},
                  {y \in Binary("y", {"a", "x"}) : y.ins[1].val = "x"},
                  Binary("z", {"b", "y"}) \cup Accum("z", {"x", "y"}, {"b", "y"}),
                  {<<"y", "z">>, <<"z", "y">>, <<"x", "z">>, <<"b", "z">>},
                  {JoinedPost, <<Op("linalg", "p", <<In("r", "same")>>), Store("p")>>}) : ok(p)}

(* Four steps after the loop that hand values over in place or hold on to   *)
(* them: what relay fusion merges.                                          *)
Tails(ok(_)) ==
  {p \in OneLoop({Fill("i")}, {Fill("q")}, {Op("linalg", "x", <<In("a", "same")>>)},
                 {Op("linalg", "y", <<In("x", "same"), In("q", "other")>>)}, {"y"},
                 {<<n, u, t, w, Store("w")>> :
                    n \in Unary("p", {"r"}), u \in Unary("u", {"r", "p"}),
                    t \in Binary("t", {"p", "u"}), w \in Binary("w", {"t", "u"})},
                 {{}}) : ok(p)}

(* An init value that is read after the loop too, and a value that one      *)
(* operation reads twice, in either way.                                    *)
ReadInits(ok(_)) ==
  {p \in OneLoop({Fill("i")}, Binary("q", {"i"}), Unary("x", {"a"}), Binary("y", {"x", "q"}), {"y"},
                 TwoPosts({"r"}, {"p", "i"}), {{}}) : ok(p)}

(* The loop stores its iter_arg, which cannot be fused, and its results may *)
(* be left unused.                                                          *)
StoredArgs(ok(_)) ==
  {p \in {Program(<<Fill("i"), j>>, n, TwoPhis, <<Store("a"), x, y>>, w, post, {}) :
            j \in Unary("j", {"i"}), n \in {<<"i", "j">>, <<"j", "j">>},
            x \in Unary("x", {"b", "j"}), y \in Unary("y", {"x", "i"}), w \in {<<"x", "y">>, <<"y", "x">>},
            post \in {<<Store("s")>>, <<>>} \cup OnePost({"r", "s"})} : ok(p)}

(* What accumulates before and after the loop, into what the loop reads too *)
(* or into its result.                                                      *)
Outside(ok(_)) ==
  {p \in {Program(<<Fill("i"), Load("g"), Fill("h"), q>>, <<"i">>, OnePhi, <<x, y>>, <<"y">>,
                  <<n, t, Store("t")>>, {}) :
            q \in Accum("q", {"g"}, {"h", "i"}), x \in Unary("x", {"a", "q", "h"}),
            y \in Accum("y", {"x", "q"}, {"a"}), n \in Unary("p", {"r", "q"}),
            t \in Accum("t", {"r", "p"}, {"r", "p"})} : AllUsed(p) /\ ok(p)}

(* Two accumulators that start from one value, computed or filled in.       *)
SharedInits(ok(_)) ==
  {p \in {Program(<<Load("g"), j>>, <<"j", "j">>, TwoPhis, <<x, y>>, <<"x", "y">>, JoinedPost, {}) :
            j \in Unary("j", {"g"}) \cup {Fill("j")}, x \in Binary("x", {"a", "g"}),
            y \in Binary("y", {"b", "x"})} : AllUsed(p) /\ ok(p)}
=============================================================================

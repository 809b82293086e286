--------------------------- MODULE MCMeshExecution ---------------------------
(* Small kernels and meshes: many that are mapped, some that are also run. *)
EXTENDS MeshExecution

View(deps, size, read) == [deps |-> deps, size |-> size, read |-> read]
Loop(lower, upper, trips) == [lower |-> lower, upper |-> upper, trips |-> trips]
Kernel(ext, bound, red, loop, views) ==
  [ext |-> ext, bound |-> bound, red |-> red, only |-> FALSE,
   const |-> FALSE, loop |-> loop, views |-> views]

\* C[m,n] += A[m,k] * B[k,n], k being the sequential loop.
Matmul == {Kernel(<<m, 2>>, <<4, 4>>, 0, Loop(0, 0, 2),
                  <<View({1}, 1, "inside"), View({2}, 1, "inside"),
                    View({1, 2}, 1, "never")>>) : m \in {1, 3}}

\* Q[h,i] * K[h,j], j running to i: causal attention.  The bounds leave <<1, 3>>
\* one priority order and <<2, 2>> both.
Attention == {Kernel(e, <<4 * e[1], 4>>, 0, Loop(0, u, 2),
                     <<View({1, 2}, 1, "before"), View({1}, 1, "inside")>>) :
                e \in {<<1, 3>>, <<2, 2>>}, u \in 0 .. 2}

\* Partial sums over the second iterator, gathered and reduced.
SplitK == {Kernel(<<m, k>>, <<4, 4>>, 2, Loop(0, 0, 1),
                  <<View({1, 2}, 1, "inside"), View({2}, 2, "before")>>) :
             m \in {2, 3}, k \in {2, 4}}

\* j running from i on: the backward pass of causal attention.
Backward == {Kernel(<<2>>, <<4>>, 0, Loop(1, 0, 2), << View({}, 1, "inside") >>)}

\* Kernels that are only mapped.
Seen(deps, size) == View(deps, size, "never")
Plain(ext, bound, red, only, const, views) ==
  [Kernel(ext, bound, red, Loop(0, 0, 1), views) EXCEPT !.only = only, !.const = const]

Extents == {1, 2, 3, 4, 6}

One == {Plain(<<n>>, <<6>>, r, o, k, <<Seen({1}, 1)>>) :
          n \in Extents, r \in 0 .. 1, o, k \in BOOLEAN}

\* matmul-like: each operand depends on one iterator, the result on both.
Two == {Plain(<<m, n>>, b, r, FALSE, k,
               <<Seen({1}, s), Seen({2}, 2), Seen({1, 2}, 1)>>) :
          m, n \in {2, 3, 4}, b \in {<<6, 6>>, <<6, 8>>}, r \in 0 .. 2,
          k \in BOOLEAN, s \in {1, 2}}

\* split-k: the third iterator is the reduction, or another parallel one.
Three == {Plain(<<m, n, k>>, <<6, b, 6>>, r, FALSE, FALSE,
                 <<Seen({1, 3}, 1), Seen({2, 3}, 2), Seen({1, 2}, 1)>>) :
            m, n, k \in {1, 3}, b \in {6, 8}, r \in {0, 3}}

MappedKernels == One \cup Two \cup Three
RunKernels == Matmul \cup Attention \cup SplitK
AllKernels == MappedKernels \cup RunKernels

AllMeshes == {<<2, 2>>, <<4, 2>>, <<1, 3>>, <<4, 1>>}
OddMeshes == {<<3, 2>>}
Pair == {<<2, 1>>}
RunOn(k, m) == k \in RunKernels \cup Backward /\ m \in {<<2, 2>>, <<4, 1>>, <<2, 1>>}
==============================================================================

------------------------------ MODULE WaveIndex ------------------------------
(***************************************************************************)
(* The index arithmetic of the spatial mapping: a parallel dimension of N  *)
(* iterations, mapped on C cores, becomes a wave loop of ceildiv(N, C)     *)
(* waves, and every core rebuilds the iteration it runs from its own       *)
(* position and the wave.  lib/passes/common/src/affine_utils.cpp tiles    *)
(* the loop, index_mapping.cpp and hardware_mapping.cpp rebuild the index. *)
(***************************************************************************)
EXTENDS Naturals

\* AffineExpr::ceilDiv and arith.ceildivui on the non-negative trip counts.
CeilDiv(a, b) == (a + b - 1) \div b

\* mutant: the merged denominator is a sum.
FlatTripsAdding(N, A, B) == CeilDiv(N, A + B)

\* The extent after flattenNestedCeilDiv has merged (N ceildiv A) ceildiv B.
FlatTrips(N, A, B) == CeilDiv(N, A * B)

\* mutant: the outer level's stride is one short.
RowMajorOverlapping(outer, inner, innerSize) == outer * (innerSize - 1) + inner

\* The row-major position of a core that holds `inner` on a level of
\* `innerSize` cores and `outer` on the level outside it.
RowMajor(outer, inner, innerSize) == outer * innerSize + inner

\* emitGlobalIndex2d with tileWidth 1, as its only caller passes it.
CyclicIndex(core, wave, cores) == core + wave * cores

\* The blocked distribution: core c owns c * W .. (c + 1) * W - 1.
BlockedIndex(core, wave, waves) == core * waves + wave

\* The wave clamp: select(index < extent, index, extent - 1).
Clamped(index, extent) == IF index < extent THEN index ELSE extent - 1

==============================================================================

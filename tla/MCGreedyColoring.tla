--------------------------- MODULE MCGreedyColoring ---------------------------
(***************************************************************************)
(* TLC instances of GreedyColoring: every bucket of at most MaxVBs virtual *)
(* buffers with lifetimes in 0..MaxIndex.                                  *)
(***************************************************************************)
EXTENDS GreedyColoring
=============================================================================

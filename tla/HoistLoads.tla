------------------------------ MODULE HoistLoads ------------------------------
(***************************************************************************)
(* lib/passes/loom-opt/src/hoist_invariant_loads.cpp: in a perfect nest of *)
(* loops marked loom.independent, the loop whose invariant loads save the  *)
(* most DRAM traffic is swapped innermost, and those loads move in front   *)
(* of it.  It runs when the block sizes are known.                         *)
(***************************************************************************)
EXTENDS ParallelSets

CONSTANT Bytes   \* the size of each L1 buffer

(* perfectNest: the independent loops are the outermost ones. *)
NestLen(f) == Max({n \in 0 .. Len(f.loops) : \A j \in 1 .. n : f.loops[j].indep})

(* The top level of the innermost independent loop's body. *)
TopLevel(f) ==
  IF NestLen(f) = Len(f.loops) THEN f.deep
  ELSE IF NestLen(f) = Len(f.loops) - 1 THEN f.pre \o f.post ELSE <<>>

WrittenRoots(f) == {s.buf : s \in {t \in ToSet(Steps(f)) : t.op = "store"}}

Users(f, take) == SelectSeq(Steps(f), LAMBDA s : s.take = take /\ s.op # "load")

UpdatedGroup(f, load) ==  \* mutant: the buffer may be written
  /\ load.buf \notin WrittenRoots(f)
  /\ Len(SelectSeq(Steps(f), LAMBDA s : s.op = "load" /\ Alloc[s.take] = Alloc[load.take])) = 1
  /\ Len(SelectSeq(Users(f, load.take), LAMBDA s : s.op = "give")) = 1
  /\ Give(load.take) \in ToSet(TopLevel(f))

(* collectLoadGroups: the nest does not write what is loaded, the alloc has *)
(* one take, the take one give at the top level, and everything else only   *)
(* reads the buffer.                                                        *)
IsGroup(f, load) ==
  /\ load.buf \notin WrittenRoots(f)
  /\ Len(SelectSeq(Steps(f), LAMBDA s : s.op = "load" /\ Alloc[s.take] = Alloc[load.take])) = 1
  /\ Len(SelectSeq(Users(f, load.take), LAMBDA s : s.op = "give")) = 1
  /\ Give(load.take) \in ToSet(TopLevel(f))
  /\ \A s \in ToSet(Users(f, load.take)) : s.op # "update"

Groups(f) == SelectSeq(TopLevel(f), LAMBDA s : s.op = "load" /\ IsGroup(f, s))

Saving(f, loop, trips) ==
  FoldLeft(LAMBDA n, g : n + (IF UsesIndex(g, loop) THEN 0 ELSE Bytes[Alloc[g.take]] * (trips - 1)),
           0, Groups(f))

(* The loop with the largest saving: the innermost if it is one of them,    *)
(* the outermost of them otherwise.                                         *)
Best(f, blocks) ==
  LET nest == 1 .. NestLen(f)
      trips(i) == Trips(f.loops[i], blocks, <<>>)
      saving(i) == IF trips(i) > 1 THEN Saving(f, f.loops[i], trips(i)) ELSE 0
      best == {i \in nest : saving(i) > 0 /\ \A j \in nest : saving(j) <= saving(i)}
  IN  IF best = {} THEN 0 ELSE IF NestLen(f) \in best THEN NestLen(f) ELSE Min(best)

SwapInnermost(f, i) ==
  LET n == NestLen(f)
  IN  [f EXCEPT !.loops = [@ EXCEPT ![i] = f.loops[n], ![n] = f.loops[i]]]

WithoutGroups(steps, moved) ==
  SelectSeq(steps, LAMBDA s : ~ (s.op \in {"load", "give"} /\ \E g \in moved : g.take = s.take))

(* The chosen groups: alloc, take and load in front of the loop, the give   *)
(* after it.                                                                *)
MoveOut(f) ==
  LET moved == SelectSeq(Groups(f), LAMBDA g : ~ UsesIndex(g, f.loops[NestLen(f)]))
      rest(steps) == WithoutGroups(steps, ToSet(moved))
  IN  [f EXCEPT !.hoistAt = NestLen(f), !.hoisted = moved,
                !.pre = rest(@), !.deep = rest(@), !.post = rest(@)]

(* processNest *)
Hoisted(f, blocks) ==
  IF NestLen(f) = 0 \/ Best(f, blocks) = 0 THEN f
  ELSE MoveOut(SwapInnermost(f, Best(f, blocks)))

=============================================================================

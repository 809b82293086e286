---------------------------- MODULE MeshExecution ----------------------------
(***************************************************************************)
(* A mapped kernel with its broadcasts, and the cores that run it.         *)
(*                                                                         *)
(* analyze_reuse.cpp marks the loads whose place does not vary over the    *)
(* mesh, enumerate_copy_broadcast.cpp gives each of them the rectangle of  *)
(* cores it is broadcast to.  Every core then runs its waves at its own    *)
(* pace; a broadcast or a gather is carried out when all cores of its      *)
(* rectangle have come to it.                                              *)
(***************************************************************************)
EXTENDS SpatialMapping

\* The kernel's sequential loop runs from the index of iterator loop.lower
\* (0: from 0) to the index of iterator loop.upper (0: to loop.trips - 1).
\* A view is read inside that loop, or before it, or is only written.
ProgramOK(k) ==
  /\ k.loop.lower \in {0} \cup DOMAIN k.ext
  /\ k.loop.upper \in {0} \cup DOMAIN k.ext
  /\ k.loop.trips \in Nat
  /\ DOMAIN k.views = 1 .. Len(k.views) /\ Len(k.views) \in Nat
  /\ \A v \in DOMAIN k.views : k.views[v].read \in {"inside", "before", "never"}

CONSTANT Launches(_, _)   \* the kernels and meshes that are run, the others are mapped

ASSUME ProgramsAssumption == \A k \in Kernels : ProgramOK(k)

VARIABLES
  region,   \* per core and collective operation the cores it is shared with
  prog,     \* per core what it is to do
  pc        \* per core the next of it

mvars == <<vars, region, prog, pc>>

------------------------------------------------------------------------------
(* Reuse and broadcast *)

\* collectSpatialIVDependencies: the spatial loops that the indices of the
\* iterators in D are computed from.
Varying(D) == {n \in Loops : nest[n].iter \in D /\ nest[n].size # 1}

\* mutant: a loop with a bound of its own on every core is not noticed.
SkipNever(v) == FALSE

\* A view under a loop whose upper bound varies over the mesh is not shared.
SkipSpatialReuse(v) == v.read = "inside" /\ Varying({kernel.loop.upper}) # {}

SpatialReuse(v) == ~ SkipSpatialReuse(v) /\ Loops \ Varying(v.deps) # {}

\* mutant: the chain is not broken at a level that varies.
IndependentAnywhere(v) == Loops \ Varying(v.deps)

\* computeDimBroadcastCoeff: on each axis the levels from 0 up to the first that
\* the view varies with.
Independent(v) ==
  {n \in Loops : \A m \in Loops :
     (nest[m].axis = nest[n].axis /\ nest[m].level <= nest[n].level) =>
       m \notin Varying(v.deps)}

\* The spatial loops over which view v is broadcast.
Overridden(v) == IF SpatialReuse(v) THEN Independent(v) ELSE {}

\* A collective operation is the load of a view, or 0, the gather.
Collectives == {0} \cup {v \in DOMAIN kernel.views : kernel.views[v].read # "never"}

SharedLoops(o) == IF o = 0 THEN GatherLoops ELSE Overridden(kernel.views[o])

\* The area the operation announces, an extent per axis.
Area(o) == [a \in Axes |->
              Product([n \in Loops |-> IF n \in SharedLoops(o) /\ nest[n].axis = a
                                       THEN nest[n].size ELSE 1])]

------------------------------------------------------------------------------
(* What each core does *)

\* The waves in the order of ConvertParallelToNested: iterator 1 is the outermost
\* loop, so each loop turns when all loops inside it have come round.
WaveOrder ==
  LET inside(i) == Product([j \in Iters |-> IF j > i THEN waves[j] ELSE 1])
  IN [k \in 1 .. Product(waves) |->
        [i \in Iters |-> ((k - 1) \div inside(i)) % waves[i]]]

LoopFrom(n) == IF kernel.loop.lower = 0 THEN 0 ELSE n[kernel.loop.lower]
LoopTo(n) == IF kernel.loop.upper = 0 THEN kernel.loop.trips - 1
             ELSE n[kernel.loop.upper]

\* The loads of the given kind, of the tiles that iteration n, and turn j of the
\* sequential loop, need.
Loads(read, n, j) ==
  FlattenSeq([v \in DOMAIN kernel.views |->
    IF kernel.views[v].read # read THEN <<>>
    ELSE << [op |-> v, turn |-> j,
             tile |-> [i \in Iters |-> IF i \in kernel.views[v].deps THEN n[i] ELSE 0]] >>])

Gather(n) ==
  IF kernel.red = 0 THEN <<>>
  ELSE << [op |-> 0, turn |-> 0, tile |-> [n EXCEPT ![kernel.red] = 0]] >>

\* One iteration of the kernel, and all of a core's.
Iteration(n) ==
  Loads("before", n, 0)
    \o FlattenSeq([t \in 1 .. (LoopTo(n) + 1) - LoopFrom(n) |->
                     Loads("inside", n, LoopFrom(n) + t - 1)])
    \o Gather(n)

Program(c) ==
  FlattenSeq([k \in DOMAIN WaveOrder |-> Iteration(IterationOf(c, WaveOrder[k]))])

------------------------------------------------------------------------------
(* The cores at work *)

Done(c) == pc[c] > Len(prog[c])
NextOp(c) == prog[c][pc[c]]
Sharing(c) == region[c][NextOp(c).op]

\* Everyone in the rectangle of c's next operation has come to that operation.
CanFire(c) ==
  /\ ~ Done(c)
  /\ \A d \in Sharing(c) : ~ Done(d) /\ NextOp(d).op = NextOp(c).op

MInit == Init /\ region = <<>> /\ prog = <<>> /\ pc = <<>>

\* EnumerateCopyBroadcast has placed the rectangles; the mesh starts.
Launch ==
  /\ stage = "ready" /\ Launches(kernel, hw)
  /\ stage' = "running"
  /\ region' = [c \in Cores |-> [o \in Collectives |-> Region(c, SharedLoops(o))]]
  /\ prog' = [c \in Cores |-> Program(c)]
  /\ pc' = [c \in Cores |-> 1]
  /\ UNCHANGED <<kernel, hw, full, blocked, mesh, split, order, nest, ub, clamp,
                 waves>>

Fire(c) ==
  /\ CanFire(c)
  /\ pc' = [d \in DOMAIN pc |-> IF d \in Sharing(c) THEN pc[d] + 1 ELSE pc[d]]
  /\ UNCHANGED <<vars, region, prog>>

\* Every core is done, or there was nothing to launch.
Over ==
  /\ \/ stage = "running" /\ \A c \in DOMAIN pc : Done(c)
     \/ stage \in {"unmapped", "dropped", "rejected"}
     \/ stage = "ready" /\ ~ Launches(kernel, hw)
  /\ UNCHANGED mvars

MNext ==
  \/ Mapping /\ UNCHANGED <<region, prog, pc>>
  \/ Launch
  \/ \E c \in DOMAIN pc : Fire(c)
  \/ Over

MSpec == MInit /\ [][MNext]_mvars
------------------------------------------------------------------------------
(* Properties *)

\* The cores never wait for each other in vain: until all are done some broadcast
\* or gather can be carried out.  Cores run different iterations, some of them
\* redoing the last one, and loops of different lengths
\* (hardware_mapping.cpp:324-326, analyze_reuse.cpp:115-134).
NoCoreStuck ==
  stage = "running" =>
    (\A c \in DOMAIN pc : Done(c)) \/ (\E c \in DOMAIN pc : CanFire(c))

\* Whoever takes part in a broadcast needs the tile that is broadcast; whoever
\* takes part in a gather works on the same result
\* (computeDimBroadcastCoeff, applyChoices).
SameTile ==
  stage = "running" =>
    \A c \in DOMAIN pc : CanFire(c) =>
      \A d \in Sharing(c) : NextOp(d) = NextOp(c)

\* All cores of a rectangle compute the same one, and it is as large as the
\* static area of the operation says (enumerate_copy_broadcast.cpp:418-482).
RegionsAgree ==
  stage = "running" =>
    \A c \in DOMAIN region, o \in Collectives :
      /\ \A d \in region[c][o] : region[d][o] = region[c][o]
      /\ Cardinality(region[c][o]) = Area(o)[1] * Area(o)[2]

\* No load is shared between cores that run it a different number of times
\* (analyze_reuse.cpp:161-162: under variable trip-count sequential loops that
\* depend on spatial placement, non-spatial reuse is forced).
SharedEquallyOften ==
  stage = "running" =>
    \A c \in DOMAIN region, o \in Collectives : \A d \in region[c][o] :
      Len(SelectSeq(prog[d], LAMBDA x : x.op = o)) =
        Len(SelectSeq(prog[c], LAMBDA x : x.op = o))
==============================================================================

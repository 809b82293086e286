# TLA+ models of the Loom dataflow compiler

Loom is an MLIR compiler: it takes tensor kernels (from Triton), decides which
parallel loop runs on which cores of a tiled accelerator, which values share which
piece of the cores' L1 memory, and which loads are broadcast over the mesh. Everything
it decides is decided at compile time, by one thread, pass after pass. What it decides
*about* is concurrent: cores that run at their own pace and meet in broadcasts and
gathers, DMA engines that read and write a buffer while the core computes, and loops
that overwrite in one iteration what the next one reads.

The models follow that division. A module of a compiler phase has one action per step
of the phase and is checked over families of input programs. A module of the *result*
executes what the phase has produced, and is checked for what a user of the compiler
relies on: every operation finds its operands, every iteration runs, no core waits for
ever.

Paths below are relative to `src/`.

## 1. Inventory

| Component | State it keeps | Operations | Hard behaviour | What makes it correct |
|---|---|---|---|---|
| **Static memory analyser: interference graph and colouring** `lib/analysis/src/static_memory_analyser.cpp` | buckets of virtual buffers (VBs), colour nodes, conflict edges, colours | build graph, coalesce `loom.sync` pairs, abort on a bad sync, colour first-fit | predicates that are not symmetric in their arguments; transitive syncs; "exclusive" VBs; greedy choice | no two interfering VBs in one buffer, exclusive ones alone, synced ones together, no empty slot, always a result |
| **Static memory analyser: axioms and relay fusion** same file | value-to-VB map, vector of VBs with lifetimes and members | phi fusion, local memory kinds, external values, standard values, relay fusion, allocation plan | lifetimes across a loop's back edge; merging while the vector shrinks; in-place hand-over | plan total; whatever two values share a buffer is never alive at the same time |
| **Memory binding** `lib/passes/loom-opt/src/memory_binding_pass.cpp` | the IR: allocs, semaphores, `init_tensor`s, outs chains, gives, copies | place allocs, take and give semaphores, anchor, clone inits, copy yields back, lower stores | order of insertions at one point; dominance; the second iteration | the executed program finds its operands; gives after the last use, one per semaphore; every tensor where the plan says |
| **Tensor canonicalization** `linalg_destination_specialization_pass.cpp`, `sink_preparation_ops_pass.cpp`, `fold_redundant_extract_slice_pass.cpp`, `loop_handoff_proxy_copy_insertion_pass.cpp`, `guarded_linalg_elementwise_fusion_pass.cpp` | the IR | peephole rewrites, applied in any order | patterns feed each other; a destination that somebody else also reads | same stores; the one-user form the analyser assumes |
| **Spatial mapping** `hw_dim_splitter.cpp`, `mapping_prioritizer.cpp`, `hardware_mapping.cpp`, `affine_utils.cpp`, `index_mapping.cpp` | candidate list, iterator priorities, loop bands, mapping attributes | choose occupancy, split hardware dimensions, order iterators, tile, rebuild indices, wave loops | extents not divisible by cores; unit dimensions; several levels per iterator; reductions | every iteration runs; only surplus is redone; the cores fill the mesh |
| **Reuse analysis and broadcasts** `analyze_reuse.cpp`, `enumerate_copy_broadcast.cpp`, `loop_iv_dependency.cpp` | reuse marks, broadcast levels, regions on copies | mark loads that do not vary over a level, choose levels, compute rectangles | cores with different trip counts or at different tiles meet in a broadcast | no core stuck; whoever shares a load wants the same tile; the rectangles agree |
| **Parallel sets** `parallel_set_exploration.cpp` | candidate loop structures | promote sequential loops, split an index, bound block sizes | dependence tests on store offsets | promoted loops are independent; the split index is a bijection |
| **Hoisting of loads** `hoist_invariant_loads.cpp`, `hoist_block_loading.cpp` | the IR | exchange independent loops, hoist groups of loads | a load moved across a store or past a loop that may not run | same values read |
| **Materialization** `materialize.cpp`, `loom_materialization_pipeline.cpp` | symbol bindings | substitute block sizes, fold clamps | a clamp dropped on the strength of an older core count | indices stay in range |
| **Resources and interconnect** `lib/resources`, `lib/modules` | memory capacity, ports, banks, rings, chains, meshes, a registry | acquire and release with rollback | failure half way; release by a non-owner; capacity limits | acquire is all or nothing; no double holder |
| **Latency and constraint model (LCS)** `lib/passes/lcs` | registry of hardware functions, stages, resource groups, constraint scope | index the platform, walk the function, stage its operations, group them by resource, emit constraints for an external solver | a map order with unordered classes; bounds that vary with outer loops; late workloads that join several groups | lookups exact, stages a schedule, groups the components, trip counts and footprint not underestimated |
| **Tenstorrent rewrites** `lib/passes/tt-opt`, `binary_scalar_chain.cpp` | the IR | convert zero-filled matmuls, fold zero fills, split scalar chains | a buffer that is input and output; what happens between the fill and its use | same memory contents |
| **Loom dialect, bufferization interface** `lib/loom-dialect` | - | op definitions, verifiers | meaning of take, give, sync | - |
| **Pipelines, drivers** `lib/pipeline`, `tool` | - | sequencing, I/O | a driver that leaves out a step | - |

How they interact: passes run in sequence on one IR (`lib/pipeline`). Parallel sets,
then spatial mapping, then reuse and broadcast enumeration each turn one function into
several candidates; LCS sends constraints to an external solver, whose answer
materialization puts back; the memory analyser reads the materialized tensor program
and hands a plan to memory binding, after which One-Shot Bufferize (MLIR) turns tensors
into buffers. There are no threads, callbacks or messages inside the compiler; data
passes from one part to another as IR and attributes.

`PROJECT.json` lists every component with its status, and every hazard with its line.

## 2. Modules

```
TensorProgram  <---+-- MemoryAnalysis <-- BoundExecution
GreedyColoring <---+         ^
      ^                      |
GreedyColoringProofs <-- MemoryAnalysisProofs --> SequenceFacts
                             ^
BoundExecution <-- BoundExecutionProofs

TensorProgram <-- ProgramShapes

WaveIndex <-- SpatialMapping <-- MeshExecution <-- SpatialMappingProofs --> SequenceFacts

LoopNest <-- ParallelSets <---+-- KernelVariants <---+-- NestExecution --INSTANCE--> OrderedWrites
   ^                          +-- HoistLoads <-------+
   +-- NestRun <-------------------------------------+
KernelVariants <-- KernelVariantsProofs --> SequenceFacts

HWOpRegistry                <---+
IndexExpr <-- ConstraintScope <-+-- VariantETG
WorkloadDims <-- TaskStages <---+
ResourceGroups              <---+
HWOpRegistry, TaskStages, ResourceGroups <-- TaskGraphProofs --> SequenceFacts

TensorIR <-- TensorRewrites          BufferIR <-- BufferRewrites

Reservation <--INSTANCE-- Interconnect <-- InterconnectProofs --> SequenceFacts
```

(`A <-- B`: B extends A.) The `MC*` modules give the constants their values;
`MCUnsupported` holds the programs of two of the runs of section 4, and `MCRewrites` puts the two
rewriting machines side by side.

**GreedyColoring** is one bucket of the analyser, from the finished VBs to the colours.
VBs are positions in `Bucket::virtualBuffers`; the initial state is any assignment of
lifetimes, any few sync pairs, exclusive VBs and handoffs within the bounds.
`Build` builds the graph (colour nodes are what `SyncClosed` sets cannot tell apart; edges
are `MustDiffer`: a pair of VBs that overlap, or touch in a handoff, in the argument
order `classifyOverlap` uses, or an exclusive VB); `Fatal` stops the compiler at a sync
whose input outlives the birth of its result; `ColorNode` is one round of the solver's
loop, the order of equal nodes being left open as `std::sort` leaves it; `Finish` ends
it.

**TensorProgram** defines the input: the body of one `affine.parallel` with one
innermost `scf.for`, the only shape `findLoopContext` accepts, as a sequence of
operations whose operands say how they are read (in place, element by element,
anywhere), because relay fusion depends on it. `LiveUntil` is the yardstick the
analyser is measured against: the last operation before which a value must not be
overwritten, written from what a loop means, not from the analyser. `WellFormed` is what
the IR verifier guarantees of such a program (SSA form, and who may be whose operand);
`MemoryAnalysis` assumes it of all its programs and nothing else (`ProgramsAssumption`).
`ProgramShapes` has the families of programs the runs analyse.

**MemoryAnalysis** is `runMemoryAnalysis`: `PhiFuse` (one step per iter_arg), `PhiDone`,
`Special`, `Eternal`, `Standard` (the four axioms in the code's order), `Relay` (one step
per merge, of the first pair in vector order that `CanRelay`), `StartColoring`, and
`Color`, a step of `GreedyColoring`, which the module extends: `StartColoring` gives the solver's
variables their values in place of its `Init`, and from there its `Next` runs as it
stands, so that the composition is the code's call and its invariant can be used for the composition.

**BoundExecution** executes what memory binding writes. `Bind` is the pass: from the plan
it computes the code of the core (`BoundCode`): for every operation its accesses, the
clones of init values, the copies at the yield and the gives, in the order the pass
inserts them. `Perform`, `EnterLoop`, `EndIteration` and `Stop` execute it, an instruction at
a time and with any number of iterations. `holder` says
which VB wrote each physical buffer last, `held` which semaphores are taken. `Root`
follows the outs chain to the VB whose semaphore a tensor really lives on, which is what
bufferization will do, and may differ from the plan.

**WaveIndex** holds the index arithmetic as operators: nested and merged `ceildiv`,
row-major core numbers, cyclic and blocked iteration numbers, the clamp.

**SpatialMapping** follows one candidate of `EnumerateSpatialMappings` from beginning to
end: `Occupy` or `Skip`, `Split`, `Prioritise`, `Tile` or `Drop` (a priority order whose claims
the code refuses), `Reconstruct`, `ConvertParallelToNested`, then `Materialize`
(block sizes known, clamps folded) or `Reject` (the gather constraint does not hold).
The enumeration of the code becomes nondeterminism, so that all candidates are behaviours.

**MeshExecution** continues a mapping that has come through: `Launch` computes the
marks, levels and rectangles and gives every core its program; `Fire(c)` lets core `c`
execute its next operation, together with the cores of its rectangle if that is a
broadcast or gather, which all must have come to the same place; `Over` is the end.
How the hardware meets in a collective is not in this repository; it is modelled from
what the comments require of it ("join collective copies",
`lib/passes/common/src/hardware_mapping.cpp:324-325`).

**Interconnect** is the hardware model of `lib/resources` and `lib/modules`, which the
compiler's users program against directly: `Acquire`, `Take`, `Fail`, `Put` and `Return` are
one acquire call of a `Chain`, `Mesh2D` or `Torus`, part by part with the rollback,
`Release` starts the opposite call. Rings, chains and ports are units that are free or
taken; a part (a link, a `MemoryBank`, a bare `MemoryCapacity`) has an identity besides what
it refers to, because the rollback compares addresses. `Acquire` checks every part before
it takes the first, so that a part can only fail later if the request stands in its
own way: banks over one port or one capacity, a bank with one READ_WRITE port for both,
two module chains over one resource chain, or a list that names one bank, capacity or
chain twice, which the constructors accept. All of these are in the instance. In the last
case the rollback goes wrong: it stops at the first pointer equal to the failed one
(`torus.h:79`, `torus.h:98`, `mesh2d.h:64`, `mesh2d.h:78`), which is the first mention of the
part and not the one that failed, and leaves that one and the parts up to the second
mention taken for good (`UndoTo`; `Exposed` names these positions). **Reservation**
says what that amounts to for links and ports: a request is granted in one step or not
at all. It is the abstract specification that `Interconnect` implements, with `granted`
mapped to itself and the parts in hand hidden.

**LoopNest** defines the kernels that the exploration of parallel sets rewrites, a parallel
loop around sequential ones, and the iterations they make. **ParallelSets** has the two passes as operators: the analysis of a nest (which loops
carry nothing and store where nobody else does), `SplitFloorDivLoops`, the choice of spatial sets,
and the rebuilt nest with the demoted dimensions innermost. **KernelVariants** sends a kernel through them and through the choice of a function and
of block sizes (`SplitFloorDivLoops`, `ExploreParallelSets`, `Materialize`). **HoistLoads** adds
the groups of loads, the traffic they save, the exchange of two loops and the move, and **NestRun**
what executing loads, updates, gives and stores means. **NestExecution** goes on from
`KernelVariants` with `HoistInvariantLoads` and executes what came out: `Perform(p)` takes one iteration of the
parallel loop to its next access to DRAM that others could notice, so that iterations
interleave there. **OrderedWrites** is what a kernel promises, whatever is done to it: the
writes of the source, each once and with the source's value, those to one tile in the
source's order and all others in any. `NestExecution` implements it, with `done` mapped to the
source iterations whose stores were performed.

**VariantETG** is the front half of the latency model for one function: `IndexPlatform` fills the
registry from the platform file, `ValidateDispatches` looks every operation up, `Walk` and
`LeaveLoop` go through the function and put every operation into a stage
of the load, compute or store scope (a loop is a stage with scopes of its own; it is placed when
the walk comes to it, which is the same as after its body, as that goes to other scopes),
`BuildConstraintScope` collects what the solver is told, and `EmitStage` and `Group` write each
stage out in groups. **HWOpRegistry** is the map, with the code's `operator<` as `Less`: the search of a red-black
tree is not modelled, only that it takes two keys for equal if neither is less.
**TaskStages** has that walk and **ResourceGroups** the grouping of one stage as machines of their
own, which can be proved about: `Walk` and `LeaveLoop` are `PlaceOp` and `EndLoop` in the phase they
belong to, and a step of `ResourceGroups` is one workload. **ConstraintScope** computes symbols, alignments, trip counts, the sampled divisibility
conditions and the L1 footprint; **IndexExpr** is the translation of IR values into solver
expressions next to what the program computes for them; **WorkloadDims** the dimensions
a workload is measured by.

**TensorRewrites** runs the canonicalization of a tensor kernel, one action per pass. MLIR's
greedy driver applies the patterns of `Fuse`, `Specialize` and `FoldSlices` in an order of its own
until none matches: a step is one application, every order is a behaviour, and the pass ends only
when no pattern matches. `Sink` and `Proxy` walk the kernel once. **TensorIR** says what a
kernel stores: a tensor is one row of one or two integers, enough to tell a broadcast from
a row, a slice from its source and one neutral element from another.
**BufferRewrites** has the three Tenstorrent passes on bufferized kernels, `Convert`, `Fold` and
`SplitChains`, the last in up to three rounds as in the code. No rewrite
there changes an index map, so **BufferIR** lets a buffer hold one integer. An op whose
zero fill is folded away is marked `fresh`, which stands for the back end's contract that it starts
from zero; the back end is not in the repository.

Operators whose comment begins with `mutant:` are wrong variants of the definition that
follows them. They are used by nothing; each has been put in the place of that
definition and the property named for it in `PROJECT.json` then fails.

## 3. Runs

All runs check deadlock unless said otherwise; a model that has come to its end
stutters in an explicit last action, so that a phase that gets stuck half way is found.

| Run | Question | Bounds | Distinct states |
|---|---|---|---|
| `greedy_coloring` | proper, complete, gap-free and minimal colouring, or a stop at a bad sync? | indices 0..3; 3 VBs with 2 syncs, 1 exclusive VB, 2 handoffs; 4 VBs with lifetimes only | 292,284 |
| `memory_binding` | is the plan total, consistent and sound, and does the bound program compute what the tensor program says? | all programs of `ProgramShapes` are analysed, those within 4.1 executed, any number of iterations | 129,442 |
| `spatial_mapping` | does every iteration run on cores that fill the mesh, does anybody wait for ever, or share a wrong tile? | 1-3 iterators of up to 6 iterations, meshes 2x2, 4x2, 1x3, 4x1; three kernels are also run on 2x2 and 4x1 and their partial occupancies | 560,310 |
| `nest_execution` | is the rewritten kernel still the source, in every interleaving? | 33 kernels in seven forms, 2 cores, loops of up to 6 iterations | 31,017 |
| `variant_etg` | are lookups exact, the stages a schedule, and the bounds given to the solver true of the program? | 25 platforms, functions of up to 4 operations, seven nests of up to four loops | 36,536 |
| `rewrites` | do the rewrites, in every order the driver may choose, keep what a kernel stores? | 6,795 kernels; rows of one or two integers, loops of two trips | 36,804 |
| `interconnect` | is acquiring a module atomic, and what can a rollback lose? | 15 units, 3 capacities, 17 parts, 37 requests, five of them with a part named twice | 167,660 |

What the properties say:

* `greedy_coloring`. `NoSharedOverlap`: interfering VBs differ unless a sync joined them.
  `ExclusiveAlone`: the buffer of a handoff that DMA touches has no second owner.
  `SyncSharesBuffer`, `SyncNodeDisjoint`: what a sync joins ends in one buffer, and the
  chain that coalescing made is itself free of overlap although only pairs were
  checked. `SlotsInUse`: no empty slot. `OptimalOnIntervals`: on lifetimes alone the greedy
  choice uses exactly the maximum number alive at once; four VBs is the least at
  which first-fit in the wrong order loses. `Terminates`.
  Three VBs are enough for a chain of two syncs and an outsider, which is what the
  transitive closure needs; four indices give every relative order of three lifetimes
  with shared ends.
* `memory_binding`, while the plan is made. `OneBufferPerValue`: after all fusions and merges every
  value is in exactly one VB and the map agrees with the member lists. `HandoffsAlone`: a handoff
  keeps its exclusiveness through merges. `LifetimesCovered`: a VB lives as long as its members
  are needed, counted over the loop's back edge. `PlanSound`: two values on one physical
  buffer are never needed at once. `MembersTakeTurns`: the same inside one VB.
* `memory_binding`, while it is executed. `OperandsIntact`: when an operation reads a buffer, the VB
  the operand lives in was the last to write it, and the operation does not itself write there
  what it reads elsewhere. `GiveEndsLiveness`: nobody reads a buffer between the give of
  its semaphore and the next write. `AllocDominates`: a buffer is allocated before it is touched.
* `spatial_mapping`. `EveryCoreHasAPlace`: core positions are one-to-one and fill the
  occupied mesh. `EveryIterationRuns`, `OnlyTheLastIsRedone`: the cores and waves cover
  the iteration space, and whatever runs twice is the last iteration of a clamped
  dimension (kernels store, so that a repeated iteration must be the same one).
  `GatherIsWhole`: the region of a gather is the cores of the reduction, each partial
  result once. On the kernels that are run, `NoCoreStuck`: until all are done some core can go
  on. `SameTile`: the cores that share one transfer ask for the same tile. `RegionsAgree`: the
  cores of a rectangle compute the same rectangle, or they would wait for different partners.
* `nest_execution`. `SourceSpec`: the steps implement `OrderedWrites`, so that no iteration is lost or
  done twice by a split or an exchange of loops, no hoisted tile is another iteration's
  or overwritten before its last reader, no result is carried between concurrent iterations.
  `AllStored`: when the kernel returns every write was performed. `CoversCores`: what is mapped at
  full occupancy has work for every core whatever block sizes the solver picks.
  `VariantsDistinct`: no two variants have one name (by which bindings find them) or one
  spatial set.
* `variant_etg`. `LookupsExact`: a lookup finds the function registered last for a matching key.
  `StagesOrdered`: along the operands the stages are a schedule, a loop strictly after its sources
  and before its users. `GroupsAreComponents`: the groups of a stage are the connected components
  of sharing a resource. `TripsBounded`: no loop ever runs more often than the solver was
  told. `NoPartialTile`: the sampled divisibility conditions rule out a partial last tile in *every*
  iteration. `FootprintCovers`: the L1 footprint covers whole tiles for every alloc.
  `OneStridedAxis`: the bandwidth penalty finds exactly the one stride it asserts.
  `WorkMeasured`: the dimensions a transfer or a `linalg.generic` is measured by multiply to its size.
* `rewrites`. `TensorsAsSource`: after every rewrite the kernel stores what it stored, for two inputs
  with values of both signs, and at the end each preparation op has one user, right behind it,
  and no loop result is stored without a copy of its own. `BuffersAsSource`: after every rewrite
  the buffers in memory end with the same contents, whatever the tiles held before.
* `interconnect`. `Reserves`: the calls implement `Reservation`. `UnitsBalance`, `PoolsBalance`:
  between calls, what is taken is what the requests held have taken, of links, ports and
  bytes, and nothing they hold is free. What lies between two mentions of one part in a list
  is excepted, for the code loses it: in the run two bytes of `cap3` after the failure of a
  broadcast that lists `cap3` for two cores, the ports and a byte of `bank5`, the chains
  `h3`, `v2` and `v3`. The parts before the first mention (`cap1`, the rings, the row of
  the mesh) are not excepted, nor is any unit or capacity that no list names twice, and
  these lists have units and a capacity of their own, so that for all others the balance
  is exact.

Why the bounds are enough: the families contain *every* def-use pattern of their size,
not samples (`ProgramShapes`), with two tensors before, two or three in and up to five
operations after the loop, which is the least at which each axiom, a merge of two merged
VBs, and a second loop-carried value occur; the loop may be left at once and repeats as often as
it likes, so that no state of an iteration after any number of others is missed. The extents of `SpatialMapping`
are below, equal to, above, a multiple and not a multiple of the core counts, the
meshes are square, oblong, and odd with a unit dimension. `MaxIndex` and `MaxVBs`
only bound the types. Four families are there for a single question each:
`ReadInits`, loops whose init values are read by others or given to a DMA, `StoredArgs`, loops whose
iter_arg a DMA handles, `Outside`, sums before and after the loop, and `SharedInits`, two accumulators that
start from one value. The kernels of `nest_execution` have the forms of those under
`examples/`: a matmul, grouped query heads (whose keys are indexed by a quotient), a loop with two such quotients, planes, running
sums, causal attention and a kernel with two results; extents divide, and do not divide, by the
group size and the core count, and two cores are what it takes for concurrency. The platforms
of `variant_etg` are one in the form of the examples' and 24 that register four signatures
in every order. The buffer kernels of `rewrites` contain every scalar body of two ops over the
operands and the results before (and a family of three-op ones), in place and not,
and every filled tile with what may lie between the fill and its use.

Fairness. Only `GreedyColoring` states a liveness property, and assumes weak fairness of
`Next`: the solver is a loop on a thread of its own, and a step that can be taken is
taken. The other models, of single passes and of programs without waiting, count down to their end on a finite acyclic graph, so that
"always comes to an end" is that no state but the last is stuck; it is the
deadlock check (and, where cores wait for each other, `NoCoreStuck`) that shows it.

`greedy_coloring` and `rewrites` do not check deadlock, because the solver and the passes stop.

## 4. Where the code is weaker than its documentation

Each run below checks one property and ends in a counterexample.

| Run | Property | What happens |
|---|---|---|
| `value_outlives_loop` | `OperandsIntact` | A value defined before the loop and read in it gets the loop's end as its death (`static_memory_analyser.cpp:454`), even if an operation after the loop reads it. Its buffer is reused, and that operation reads another tensor. |
| `store_before_last_use` | `GiveEndsLiveness` | Lowering a store moves the give of the stored tensor to the store (`memory_binding_pass.cpp:178`), before a later reader. |
| `odd_mesh` | `FullMeshIsOffered` | Occupancies are tried in steps of two (`utils.cpp:49`), so a mesh of odd width 3 or more is never fully occupied although the option's comment (`hardware_info.h:49-51`) says that the partial ones come in addition. |
| `lower_bound_loop` | `SharedEquallyOften` | `analyze_reuse.cpp:125` looks only at a sequential loop's upper bound; a loop whose *lower* bound depends on a spatial index is broadcast from although its trip count varies over the mesh, against the comment at 161-162. Such a mesh comes to a halt (section 5, `NoCoreIsEverStuck`). |
| `gather_unconstrained` | `GatherIsWhole` | The exploration pipeline builds its task graphs without `buildHardConstraints` (`loom_exploration_pipeline.cpp:161`), which the tool whose logic it says it replicates (line 145) calls (`staged_etg_main.cpp:62`). That constraint keeps a gathered reduction to one wave; without it block sizes are possible with which every gather combines only part of the iterations. |

### 4.1 Restrictions on programs

`memory_binding` analyses all programs of the families, and executes those
that meet the conditions `TensorProgram` names (`LifetimesCovered`, `MembersTakeTurns` and
`PlanSound` name the ones they need). They are conditions the code relies on without checking; dropping
any one breaks the properties listed, so that each is needed.

| Restriction | Meaning | Without it |
|---|---|---|
| `InitsPrivate` | neither an init value nor its iter_arg is a DMA operand, and only the loop reads the init value | `GiveEndsLiveness`, `AllocDominates`: the clone that fills the iter_arg's buffer goes right after the original, before the buffer's alloc (`memory_binding_pass.cpp:720`) |
| `NothingOutlivesLoop` | what the loop reads from outside, or may update in place, is dead afterwards | `OperandsIntact`, `GiveEndsLiveness`, `PlanSound`, `LifetimesCovered`, `MembersTakeTurns` |
| `OtherReadsFirst` | an operation that reads a value both at the place it writes and at others has the latter operand first | `PlanSound`, `OperandsIntact`: `findOperandRelation` (`static_memory_analyser.cpp:663-677`) stops at the first operand with that value |
| `StoresLast` | a store is the last reader of what it stores | `GiveEndsLiveness` |
| `SpecialsLocal` | a tensor of a special memory kind does not cross into the loop | `GiveEndsLiveness`, `LifetimesCovered` |
| `NoSpecialCarried` | no loop carries a tensor of a special memory kind | `GiveEndsLiveness`, `AllocDominates`: phi fusion passes over an iter_arg that has its VB, and binding has no copy back for it |
| `AccumulatesOwn` | an accumulating operation reads nothing else in place, and a yielded one accumulates into its own iter_arg; outside the loop none accumulates into a result of the loop, nor does the loop read or start from what it computes | `GiveEndsLiveness`. For the part outside the loop: Pass 2 (`memory_binding_pass.cpp:748`) asks whether the outs operand is in another *alloc*; if the plan gave both tensors one, the sum stays under the first one's semaphore, which is given where that VB dies, although the loop still reads the sum |
| `SharedInitsFilled` | a value that starts two accumulators is a fill | `GiveEndsLiveness`: the second one gets a clone of its operation, which reads the operands again after they were given |
| `NoRotation` | no iteration hands one iter_arg on as another | `OperandsIntact`, `GiveEndsLiveness` |

The example kernels meet them: their init values are fills, their results are stored
once at the end.

The other models have inputs chosen with similar care. They do not contain:

* (`NestExecution`) stores indexed by a non-injective function of a promoted loop, as `i / 2`: the
  test at `parallel_set_exploration.cpp:200-206` asks only whether the index occurs in the offset.
  Nor (`KernelOK`) two loops with one block symbol, or a symbol `d`. Names of functions and loops are
  kept as their parts, where the code joins the text (lines 261, 564, 604): that `tile_m1` split by
  2 and `tile_m` split by 12 are both `__split_m12` is not seen.
* (`VariantETG`) loops with a lower bound other than 0 or a step other than 1, and bounds in which
  an induction variable has a negative coefficient: the trip count is taken at the last
  iteration of the outer loops. Numerators of `NoPartialTile` are affine in the induction variables.
  An `scf.if` is transparent and nothing uses its results. (Two cases do occur and are left out of
  `StagesOrdered`: a loop that is displaced beyond the stage its operands asked for makes its
  results ready one stage after *that* stage, `staged_etg_builder.cpp:1190`, which may be
  before the loop; and values captured by a loop's body are in no readiness map.) Bindings of rank one for higher-rank operands lose
  volume and do not occur. Source layouts are row-major (`RowMajor` in the proof).
* (`HWOpRegistry`) negative memory kinds, which `getLocalMemKind` does not reject and which would
  fall between default signatures and break the order; generics that differ only in the
  number of default operands, which silently replace each other.
* (`TensorRewrites`) values of different width in one combination: destination specialization does
  not look at the consumer's indexing maps, so that a reduced row broadcast into a wider
  accumulation would be given a destination of another shape, which the IR verifier then
  rejects. A dynamic slice is the whole of its source, because the folding compares
  types (`fold_redundant_extract_slice_pass.cpp:70-79`). Element types are not modelled.
* (`BufferRewrites`) reads of a zero-filled buffer between the fill and the op it is folded into other
  than those of `FilledTiles`, since sinking has left every fill with one use; and a buffer
  zeroed before a loop and accumulated in both inside and after it (a hazard in
  `PROJECT.json`): the search for uses passes over nested blocks
  (`fold_zero_fill_linalg_pass.cpp:70`).

## 5. Proofs

`GreedyColoringProofs`, for every number of VBs, indices, syncs, exclusive VBs and
handoffs (assumption: the bounds are natural numbers, stated in `GreedyColoring`):

* `TypeCorrect`, `NeverSharesOverlap`, `ExclusiveNeverShared`, `SyncAlwaysSharesBuffer`,
  `EverySlotInUse`, each `Spec => []P` for the property P the run checks.
* `NoSharedOverlap` is not inductive: a colour clashes because of an edge, and edges
  are computed for colour *nodes* in an earlier step. The inductive invariant is `IInv`:
  `BucketOK` (the input never changes and is well-formed), `SolverOK` (types per phase),
  `FreshOK` (before `Build` there are no colours), `NodeUniform` (the VBs of a node have
  one colour), `Proper` (coloured nodes joined by `MustDiffer` differ), `SlotsInUse` and
  `DoneOK` (done means all coloured). The heart is `ColorNodeInv`, one round: what first
  fit finds is no colour of a neighbour and either in use or the next unused one, which
  gives `Proper` and `SlotsInUse`. `GraphLinks` and `GraphIrreflexive` carry a conflict
  between two VBs over to an edge between their nodes; `NodeOfMember` and `SyncSameNode` say
  that the closures under syncs partition the VBs, which no step could be argued
  without. The properties then follow from `IInv` without another induction.
* `SyncedNeverOverlap` (`SyncNodeDisjoint`): only the pairs of a sync are checked, so the argument
  is `NodeIsChain`: as no two syncs share an input or a result, a colour node is a chain along which
  each VB dies before the next is born.
* `FirstFitOptimal` (`OptimalOnIntervals`) needs a second invariant, `LifetimeInv`: with lifetimes
  only, the nodes are coloured in order of birth, so that all coloured neighbours of the node
  whose turn it is are alive at its birth (`AliveAtBirth`); when they leave no slot free, they and
  the node are as many VBs alive at once as there are colours then (`OpeningNeedsClique`).

`SpatialMappingProofs`, first the index arithmetic, for every extent and core count:

* `FlattenedTrips`: a ceildiv of a ceildiv is the ceildiv by the product, so merging the
  wave loops of two levels leaves the trip count as it was.
* `RowMajorNumbers`: numbering two levels of cores row by row is one-to-one without gaps.
* `CyclicCovers`, `BlockedCovers`: every iteration is run by some core in some wave, and
  the clamp lets no index out of range.
* `CyclicRunsOnce`, `BlockedRunsOnce`: two different runs of one iteration are runs of
  the last one.
* `DivisibleNeedsNoClamp`: when the core count divides the extent the clamp is the
  identity, which is what the materialization pipeline drops it for.

They rest on division with remainder (`Division`, `PlaceValueUnique`, `PlaceValueExists`)
and on bounds that determine a ceildiv (`CeilDivBounds`, `CeilDivUnique`).

`SpatialMappingProofs` shows that the code composes that arithmetic correctly, for every kernel,
mesh, occupancy, split, priority order and distribution:

* `EveryIterationAlwaysRuns` and `OnlyTheLastIsEverRedone`: the properties `EveryIterationRuns` and
  `OnlyTheLastIsRedone`, under the assumption `HardConstraints`. It is needed: the reduction's
  index is never clamped, and only the gather constraint makes its cores divide its extent;
  `gather_unconstrained` (section 4) shows what happens without.
* Neither says anything before the last stage, so `MapInv` (`MappingInvariant`) follows the
  candidate: what was chosen is offered (`ChoicesOK`), the loops made so far are the first ones of
  the claims (`LoopsMade`), the bound left of each iterator is its extent over the cores it is
  spread over (`BoundsOK`, by `FlattenedTrips`), and an index without a clamp is in range
  (`ClampsOK`). The stage `running` belongs to `MeshExecution` and is not reached.
* `ClaimsShape`: level 0 of both axes goes to the first iterator and every other one takes one of
  the remaining dimensions, so that each iterator has one loop or two, whatever the split. That
  is why `emitGlobalIndex2d`, which looks at two levels only, is enough
  (`EveryIteratorNumbered`): its numbers and those of the blocked distribution agree, have no gap,
  and two cores with one number agree on all of the iterator's loops.
* `EveryIterationATurn` and `RunByOneNumber` take one iterator at a time, from the theorems above;
  `IterationHasACore` puts together the core and the wave whose turns they are, `RunByOneCore`
  concludes that two equal iterations are the same core in the same wave.
* `EveryCoreAlwaysHasAPlace` (`EveryCoreHasAPlace`) holds with or without the hard constraints. The
  position of a core on an axis is a number in mixed radix: its levels are the radices, its loop
  values the digits, `Stride` the place values. Such a number is below the product of the radices,
  belongs to one set of digits only, and each one below is written by some (`NumeralBelow`,
  `NumeralUnique`, `NumeralExists`). `PlaceInv` adds to `MapInv` that the levels of each axis multiply
  to its cores (`SplitWhole`); with `ClaimsOnce`, each level of an axis is one loop (`LoopsAreLevels`).
* `GatherIsAlwaysWhole` (`GatherIsWhole`) needs `HardConstraints`. `GatherInv` adds that the reduction
  is first in the order, so that its loops are level 0 of both axes, and that in the end its extent
  is its cores. `RegionIsCores` is about any overridden loops that are the innermost levels of each
  axis: what lies between two numbers that differ in their low digits only has the other digits in
  common (`NumeralsBetween`), so that the rectangle has no core that does not belong to it.
  `RegionByNumber` counts it by the reduction's core numbers.
* `RegionsAlwaysAgree` (`RegionsAgree` of `MeshExecution`, whose steps this module extends). The loops that
  a view is broadcast over end on each axis at the first level it varies with (`OverriddenInside`),
  those of a gather are level 0 or none (`GatherInside`): both are inner levels, so `RegionIsCores`
  makes the rectangle an equivalence class of cores, and `AgreeingAreArea` counts it, one loop at a time.
  `MeshInv` is `PlaceInv` and `ReductionFirst` until the mesh starts; the rectangles stay as launched.
* `NoCoreIsEverStuck` (`NoCoreStuck`) and `TilesAreAlwaysShared` (`SameTile`), whatever the order in which
  the cores advance. Every operation of a core has a key, <<3k, 0, v>> for the load of view v before
  the loop of wave k, <<3k + 1, t, v>> in turn t of that loop, <<3k + 2, 0, 0>> for the gather, and a
  core's program is its operations in the order of the keys (`ProgramListed`, by `FlattenLists`).
  `SharedByAll`: what a core has at a key, tile included, every core of the operation's rectangle has
  at that key, because they agree on the loops that its tile and its turn are computed from
  (`SameLoad`, `SameLoop`, `SameGather`). The inductive invariant is `RunsInStep`: moreover those cores are
  all past the operation or none is. An operation is carried out by all its cores at once, so it is
  kept (`FireInStep`); no core is stuck because the first key of all next operations belongs to one
  that every core of its rectangle has come to (`FirstCanFire`). Both need `SameStart`: the lower bound of
  the kernel's sequential loop does not vary over the mesh. The upper bound may, for then
  `SkipSpatialReuse` shares nothing in the loop. Of a varying lower bound the code takes no notice,
  and there TLC finds both properties violated (on the kernel of `lower_bound_loop`).

`InterconnectProofs`, for all units, capacities, parts and requests:

* `TypeCorrect` (no capacity overdrawn or credited beyond its size), `NothingIsLost` (`UnitsBalance`),
  `AcquireIsAtomic` (the refinement) and `HoldersExclusive`, all of them for lists that name
  a part twice as well.
* `NoBytesLost` (`PoolsBalance`), by the invariant `PoolsOK`: what is left of a capacity is its size
  less what the granted requests and the call in progress (`InCall`) have drawn, or less than
  that if the capacity is exposed. What a request
  draws is a sum over its parts, what all draw a sum over `granted`, a set that grows and shrinks.
* `UnitsBalance` speaks of the moments between calls. The inductive invariant `IInv` adds the
  parts in hand (`InHand`: the positions taken so far, or those still to be put back), and
  that all parts held by anybody are apart from each other (`ApartOK`): without it, putting
  a part back could free what another one holds. `UndoFacts` shows that the rollback, which
  stops at the first part with the failed one's address, leaves nothing taken but exposed
  positions.
* `WholeUnlessRepeated`: if no list names a part twice, there are no such positions, and the
  balance of units and bytes is exact. The hypothesis is the theorem's own; neither the
  constructors nor the module assume it.

`TaskGraphProofs`, for every function, operand, workload and resource:

* `StagesAlwaysOrdered` (`StageSpec => []StagesOrdered`). The invariant `StageInv`
  says of the operations placed that each uses earlier ones and is ready no
  earlier than they are (`UsesEarlier`), that none is before the stage its operands ask for (`PlacedReady`), that a computation passed over stages of loops placed
  before it and nothing else (`PassedLoops`), and that a loop has its stage for itself
  (`LoopsApart`). A later loop goes past every stage taken, so that it cannot come between a
  computation and its sources. That the search for a stage ends is the pigeonhole `FreeStage`.
  `Sources`, what an operation takes values from through others, is the least closed set and not
  a recursion, so that a bound on the sources is a set that is closed.
* `StridedAxisIsUnique` (`OneStridedAxis`) when all source layouts are row-major; with other layouts
  both strides may differ from 1, which the code's assertion denies.
* `BindingKeepsVolume`: operands bound at rank two or more, or at no less than their own rank, keep
  their volume. `ProductsSplitIterations`: the parallel and the reduction extents of a generic
  multiply to all its iterations. These are the two halves of `WorkMeasured` that are not about
  bandwidth.
* `ComponentsAlways`: the groups never share a resource and none can be divided. The inductive
  invariant adds `GroupsOwn`, that a group's resources are exactly its workloads'. `JoinedConnected`
  is the step: when a workload joins several groups, any cut of the result either cuts
  one of the old groups, which was connected, or has a whole one on the side away from the
  newcomer (`JoinedCut`), and every old group it joins shares a resource with it.

The registry, also in `TaskGraphProofs`, for keys of any length:

* `KeysTransitive`, `UnorderedKeysMatch`: `operator<` is transitive, and takes two keys for equivalent
  exactly if they match, although it leaves all default signatures unordered and compares the
  others as vectors. `DefaultsBelow` is the reason: a signature of default kinds only, of whatever
  length, is below every other one, which holds only while memory kinds are not negative. The
  comparison is by the *first* difference, which `LexIntro` introduces.
* `AssignThenLookup`: in a map sorted by that order, an assignment changes the lookups of the
  keys that match and of no other, whether it inserts or overwrites (`LowerBoundSplits`,
  `InsertAtProperties`).
* `LookupsAlwaysExact`: so every lookup finds what was indexed last for a matching key, after any
  sequence of registrations. The inductive invariant `RegistryInv` says that the map is sorted and
  that each lookup in it is `Latest` of what was indexed.

`MemoryAnalysisProofs`, for every program in SSA form (`ProgramsAssumption`: `WellFormed`, what the
IR verifier guarantees):

* `ValuesDivided`, `LifetimesAlwaysCovered`, `MembersAlwaysTakeTurns`, `HandoffsAlwaysAlone` and
  `PlanAlwaysSound`, each `ASpec => []P` for the property P of `memory_binding`, the restrictions of
  section 4.1 being hypotheses of the properties themselves.
* None is inductive. The invariant `AInv` (`AnalysisInvariant`) has four parts. `Division`: the VBs
  are disjoint and each satisfies `VBInv`, what it promises by its kind about the lifetimes of its
  members, who takes turns with whom, and which members must be alone; the last conjuncts, about
  values born together and the member that dies last, are needed by a later merge only.
  `Ordered`: mergeable VBs stay in order of birth, on which the search for a pair relies.
  `MappedSoFar`: what each of the four axioms has covered, so that at the end nothing is left out.
  `Colored`: from `StartColoring` on, the solver's own invariant for the VBs' lifetimes, so that
  `GreedyColoringProofs` is used as it stands.
* There is one lemma per action. The hard ones are `PhiFuseInv` (fusing an iter_arg with what it
  starts from and what it becomes may take in VBs that are fused already) and `RelayInv`, where
  `MergeInv` and `FirstMatch` show that an operation which ends one buffer's life and begins the
  next's reads it only at the place it writes.
* For `PlanSound`, two values of one physical buffer have VBs that do not interfere. If both
  were needed at once, their VBs would overlap, but for two cases at a shared boundary: a loop
  result nobody reads (`NoneOverwritten`: relay would have merged it), and an operation that reads
  the one elsewhere while it writes the other (`NoneMixedUp`: the first match of
  `findOperandRelation` is that reader, by `OtherReadsFirst`, and the edge is there).

`BoundExecutionProofs`, for every program in SSA form, every plan the analysis makes of it and every number of
iterations:

* `OperandsAreIntact`, `GivesEndLiveness`, `AllocsDominate`: the properties `OperandsIntact`,
  `GiveEndsLiveness` and `AllocDominates`, under `SupportedOnly`: what is executed meets the
  conditions of section 4.1. `memory_binding` executes exactly those programs, and shows that
  each of the conditions is needed.
* The first step is what a VB is made of. `BucketInv` (`BucketInvariant`) follows the analysis once
  more, for supported programs: a Fused VB belongs to one iter_arg and its accumulator, from the
  operation that initializes it to the last use of the result; an Eternal VB has one value; a Standard VB does not
  cross the loop's border, and each of its members but the first takes the place of another one
  that its operation reads in place only.
* The second is where the data is. `Root` follows the chain of outs operands, a recursion over data; what it
  ends at is said without one by `Home`, the VB of the value, or of the iter_arg for a result of the loop.
  `HomeStep` goes one link of the chain, `RootIsHome` takes the least counterexample in order
  of definition. It follows that bufferization never has to move a yielded tensor (`NothingMoves`).
* The third is `ExecInv` (`ExecInvariant`). Neither of the three properties is inductive: they speak of the
  operands of the current instruction. `ExecInv` says that what is held (written and not given) is `Live`
  at this place, a set that is a function of the plan and the place alone, and that the buffer of each
  of them holds its data. `Live` is all that the VBs' lifetimes say, refined to instructions:
  where in the block of the birth the VB is first written (`FirstWrite`: by the copy of an outs
  operand, the operation or a clone), where in that of its death it is given (`GivenBy`).
* Then each step has its lemma. `LiveStep`: an instruction adds to `Live` what it writes and removes what it
  gives, which is the point of `FirstWritten`, `GivenHere` and `WritesFit`. `LiveLoop`: what is live at the end of the
  body is what is live at its beginning and before the loop, so that the back edge and the loop that
  does not run change nothing. `WriteApart`: what is written shares no buffer with anything that is live and
  stays so; the colouring leaves the VBs that end and begin at one operation, and there it is
  the order inside the block and `ReadApart`, from the analyser's test of handoffs, that keep them
  apart. `ReadsLive`: what is read is live, and not in the buffer written if it is read
  at other places. `LiveEnds`: nothing is live at the end.

`KernelVariantsProofs`, for every kernel that satisfies `KernelOK` (loops with indices of their own and
positive extents; different block symbols, none called `d`; the bounds of the parallel loop
do not depend on its indices), any number of cores and any limits:

* `VariantsCoverCores`, `VariantsAreDistinct`: `CoversCores` and `VariantsDistinct`. The invariant `VariantInv`
  says where each function of the module comes from: it is the source, a split of it
  (`SplitOf`), or rebuilt from one of these for a set worth exploring (`VariantOf`).
* For the cores: `PointsProduct`, the iterations of loops whose bounds depend on no index are the product
  of their trip counts (the fold of `Points`, as `FoldIsLastProduct`); `SmallerBlocks`, a smaller
  block makes no fewer of them; `ProductsGrow`. What makes it apply is that every loop that can be spatial
  `Fits`: chain loops are `Promotable`, and the halves of a split loop, whose block is gone, run
  exactly as often as their extents say.
* For the names and the sets: within one function `Items` are `Apart` (`SourceItems`, `SplitItems`: the two
  halves take the place of one loop, and their names and indices are nobody else's), so that two
  choices of positions differ in both (`SiblingsDiffer`). Of two functions, the prefixes of the names
  differ, and a variant of a split function has a half of the split loop among its spatial ones
  (the last conjunct of `WorthExploring`), which the source has not, nor a split of another loop, nor
  one of the same loop by another divisor: its halves have other extents (`SourceVsSplit`, `SplitsDiffer`).
  Spatial loops are therefore told apart by index *and* extent.

`SequenceFacts` has what these need about numbers, sequences and sums. A statement about all
lengths or all finite sets is proved by its least counterexample, from well-foundedness of
strict inclusion (`LeastOf`, `LeastSubset`), or upwards over a set of numbers (`Upwards`); a fold is
computed by writing down the function that its definition chooses (`FlattenSeqSteps`, `SumsExist`,
`FoldExists` with the products and totals of a sequence).

The assumptions are those of the modules' ASSUMEs: bounds are natural numbers, capacities
have a size, requests name parts that exist, there is a core, and kernels are as `KernelOK` says.

Only model-checked:

* `Terminates`: liveness is outside the prover.
* What `NestExecution` adds to `KernelVariants`, `SourceSpec` and `AllStored`, and the rewrites: they evaluate
  kernels, which are data, by RECURSIVE operators, which the provers cannot read.
* Of `VariantETG`, what rests on the expressions of `IndexExpr` (`TripsBounded`, `NoPartialTile`,
  `FootprintCovers`), for the same reason, and the bandwidth in `WorkMeasured`, for it is a power and
  no prover has exponents. The registry, the stages, the groups and the dimensions are modules
  that do not reach `IndexExpr` and are proved there; that their steps are those of `VariantETG`
  is by use of the same definitions.

## 6. Not modelled, and assumptions

* Shapes and element types: a bucket is one shape and buckets do not interact.
  Tracing which shape a value has is outside.
* Within one root, conflicts are visible to One-Shot Bufferize, which copies; across roots
  nothing is. Tensors of different roots are assumed not to alias for it.
* No pipeline creates `loom.sync`; it occurs in `GreedyColoring` only. Several stores of
  one tensor do not occur in the families. `GatherPlaceholderLowering`, `loom.broadcast`
  and operands that are shapes are not in `BoundExecution`.
* The external solver is taken to satisfy the gather constraint exactly (the reduction's
  extent equals its cores). Temporal order permutations are compiled out
  (`SKIP_TEMPORAL_EXPLORATION`, `hardware_mapping.cpp:27`). The environment switch
  `LOOM_DISABLE_WAVE_CLAMP`, hardware with fewer than two dimensions, and functions
  without a parallel loop are not modelled. Each iterator claims at most two levels.
* The temporal and sequential reuse marks, which nothing modelled reads.
* `ResourceManager` (a registry behind one mutex), `reset`, and lists with null entries,
  which refuse every request. Callers release what they hold, with the bytes they asked for.
* The solver and the text of its expressions; the latency formulas of the hardware functions, which
  come from the platform file.
* The block loading pattern, handoff syncs (`handoff_sync_insertion_pass.cpp`), the lowering to
  `loom.copy`, and the substitution of symbols in `materialize.cpp`: matching on views and
  types, with little state. Upstream MLIR patterns that run with the canonicalizations are external.
* Nests without a single root loop or with a `loom.gather`, which the exploration leaves alone.
* Dialect verifiers, shape tracing, drivers: declarations and I/O.

## 7. Plan

Done, in this order: the solver with its proofs; the axioms and relay fusion composed
with it; binding and execution; the index arithmetic with its proofs; spatial mapping
built from it; broadcasts and the mesh; the interconnect, its abstract specification
and the refinement proof; parallel sets and hoisting with the refinement of `OrderedWrites`;
the latency model with the proofs of its registry, stages and groups; the tensor
canonicalization and the Tenstorrent rewrites.

Next:

1. **Materialization** (`materialize.cpp`): the bindings of symbols, the names of variants, the removal
   of functions for which the solver found nothing.
2. **Lowering to copies** (`lower_linalg_copy_to_loom_copy`, the block loading pattern): the reclaim
   flag, which says that a load may overwrite its source.
3. **Gathers in binding**: `handoff_sync_insertion_pass.cpp` and `GatherPlaceholderLowering`, with
   `loom.sync` programs in `TensorProgram`.
4. Zero fills across blocks in `BufferRewrites`: kernels that show, or exclude, the open hazard.
5. Proofs: the refinement of `OrderedWrites` by `NestExecution`.

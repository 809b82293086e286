----------------------------- MODULE NestExecution -----------------------------
(***************************************************************************)
(* A kernel on its way through SplitFloorDivLoops, ExploreParallelSets,    *)
(* the choice of a function and of block sizes, and the hoisting of loads, *)
(* and then executed: the iterations of its affine.parallel run            *)
(* concurrently, each with L1 buffers of its own.                          *)
(***************************************************************************)
EXTENDS KernelVariants, HoistLoads, NestRun

VARIABLES
  todo,      \* for each iteration of the affine.parallel, the steps left
  local,     \* its L1 buffers and its result so far
  dram,      \* the tiles of DRAM that were written
  want,      \* the writes of the source, in its order
  stored     \* the stores of the source's iterations that were performed

runVars == <<todo, local, dram, want, stored>>
vars == <<variantVars, runVars>>

Init ==
  /\ VariantInit
  /\ todo = <<>> /\ local = <<>>
  /\ dram = <<>> /\ want = <<>> /\ stored = {}

(* hoist_invariant_loads is an option; then the kernel starts. *)
HoistInvariantLoads ==
  /\ stage = "hoist"
  /\ \E on \in BOOLEAN : fn' = IF on THEN Hoisted(fn, blocks) ELSE fn
  /\ todo' = Processes(fn', blocks)
  /\ local' = [p \in DOMAIN todo' |-> Idle]
  /\ want' = Writes(source, blocks)
  /\ stage' = "run"
  /\ UNCHANGED <<source, funcs, blocks, dram, stored>>

(* An iteration of the affine.parallel goes on. *)
Perform(p) ==
  /\ stage = "run"
  /\ LET run == Run(local[p], todo[p], 0, dram, WrittenRoots(source))
         last == todo[p][run.n]
     IN  /\ run.n > 0
         /\ local' = [local EXCEPT ![p] = run.m]
         /\ dram' = run.dram
         /\ stored' = IF last.op = "store" THEN stored \cup {Point(source, last)} ELSE stored
         /\ todo' = [todo EXCEPT ![p] = SubSeq(@, run.n + 1, Len(@))]
  /\ UNCHANGED <<source, stage, funcs, fn, blocks, want>>

Finished == stage = "run" /\ \A p \in DOMAIN todo : todo[p] = <<>>

(* The kernel returns. *)
Return == Finished /\ UNCHANGED vars

Next ==
  \/ SplitFloorDivLoops /\ UNCHANGED runVars
  \/ ExploreParallelSets /\ UNCHANGED runVars
  \/ Materialize /\ UNCHANGED runVars
  \/ HoistInvariantLoads
  \/ \E p \in DOMAIN todo : Perform(p)
  \/ Return

Spec == Init /\ [][Next]_vars

-----------------------------------------------------------------------------
(* A rewritten kernel performs exactly the writes of the source, with the   *)
(* source's values: no iteration is lost or done twice by a split or an     *)
(* exchange of loops, no hoisted tile is another iteration's or is          *)
(* overwritten before its last reader, no result is carried from one        *)
(* process to another.                                                      *)
Source == INSTANCE OrderedWrites WITH done <- {k \in DOMAIN want : want[k].point \in stored}

SourceSpec == Source!WSpec

(* When the kernel returns every write of the source was performed: a split *)
(* leaves no iteration out.  (That no process waits for a buffer for ever   *)
(* is TLC's deadlock check.)                                                *)
AllStored == Finished => stored = {want[k].point : k \in DOMAIN want}

=============================================================================

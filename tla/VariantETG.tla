----------------------------- MODULE VariantETG -----------------------------
(***************************************************************************)
(* From a mapped function to the task graph the latency model works on.    *)
(* The platform's functions are indexed, every operation is validated      *)
(* against them, the operations are put into stages of three scopes (load, *)
(* compute, store), the constraints are collected, and each stage is       *)
(* written out in groups that share no resource.                           *)
(***************************************************************************)
EXTENDS HWOpRegistry, ResourceGroups, ConstraintScope, TaskStages

(* A function has the fields of ConstraintScope and TaskStages, and each    *)
(* operation of it keys, the lookups it takes (one for a named operation or *)
(* a transfer, one per body operation for a linalg.generic); platforms are  *)
(* those it may be built for.                                               *)

VARIABLES
  phase,     \* "index", "walk", "emit" or "failed"
  scope,     \* the constraint scope
  emitted    \* the stages written out

etgVars == <<stageVars, phase, scope, emitted>>
vars == <<registryVars, groupVars, etgVars>>

Init ==
  /\ RegistryInit
  /\ phase = "index"
  /\ StageInit /\ platform \in fn.platforms
  /\ scope = NoScope
  /\ emitted = {} /\ pending = <<>> /\ groups = {}

IndexPlatform == phase = "index" /\ IndexModule /\ UNCHANGED <<groupVars, etgVars>>

-----------------------------------------------------------------------------
LookupOf(op, k) ==
  IF op.kind \in Movers THEN LookupDataMover(registry, symbolic, k) ELSE Lookup(registry, k)

Registered(op) == \A i \in DOMAIN op.keys : LookupOf(op, op.keys[i]) # NoFunc

(* Nothing is built unless every operation has its hardware function. *)
ValidateDispatches ==
  /\ phase = "index" /\ unread = <<>>
  /\ phase' = IF \A t \in DOMAIN fn.ops : fn.ops[t].kind \in Executable => Registered(fn.ops[t])
              THEN "walk" ELSE "failed"
  /\ UNCHANGED <<registryVars, groupVars, stageVars, scope, emitted>>

-----------------------------------------------------------------------------
Walk ==
  /\ phase = "walk" /\ PlaceOp
  /\ UNCHANGED <<registryVars, groupVars, phase, scope, emitted>>

LeaveLoop ==
  /\ phase = "walk" /\ EndLoop
  /\ UNCHANGED <<registryVars, groupVars, phase, scope, emitted>>

(* An alloc the footprint's assertions reject ends the build. *)
BuildConstraintScope ==
  /\ phase = "walk" /\ open = <<>>
  /\ IF \A i \in DOMAIN fn.allocs : ValidAlloc(fn.allocs[i])
       THEN scope' = ScopeOf(fn) /\ phase' = "emit"
       ELSE phase' = "failed" /\ UNCHANGED scope
  /\ UNCHANGED <<registryVars, groupVars, stageVars, emitted>>

-----------------------------------------------------------------------------
(* One unit for all computations of a core, since its pipeline is disabled. *)
ComputeUnit == 0   \* "__compute_kernel_pipeline_disabled__", a resource of no unit

WorkloadsOf(i) ==
  LET op == fn.ops[ops[i].t]
  IN [n \in DOMAIN op.keys |->
       LET f == LookupOf(op, op.keys[n])
       IN [op |-> i, n |-> n, unit |-> f.component,
           resources |-> f.resources \cup
             (IF op.kind \in Movers THEN {f.component} ELSE {ComputeUnit})]]

StageOf(i) == <<ops[i].region, ScopeAt(i), ops[i].stage>>
Stages == {StageOf(i) : i \in {j \in DOMAIN ops : KindAt(j) \in Executable}}

(* The queues of a stage in the order of their units, each in the order its *)
(* workloads were pushed.                                                   *)
QueuesOf(s) ==
  LET works == FlattenSeq([i \in DOMAIN ops |->
                  IF Placed(i) /\ KindAt(i) # "for" /\ StageOf(i) = s THEN WorkloadsOf(i) ELSE <<>>])
      units == SetToSortSeq({works[i].unit : i \in DOMAIN works}, <)
  IN FlattenSeq([u \in DOMAIN units |-> SelectSeq(works, LAMBDA w : w.unit = units[u])])

EmitStage ==
  /\ phase = "emit" /\ pending = <<>>
  /\ Stages \ emitted # {}
  /\ LET s == CHOOSE x \in Stages \ emitted : TRUE
     IN pending' = QueuesOf(s) /\ emitted' = emitted \cup {s}
  /\ groups' = {}
  /\ UNCHANGED <<registryVars, stageVars, phase, scope>>

Group == phase = "emit" /\ GroupWorkload /\ UNCHANGED <<registryVars, etgVars>>

Done ==
  /\ phase = "failed" \/ (phase = "emit" /\ pending = <<>> /\ Stages \subseteq emitted)
  /\ UNCHANGED vars

Next ==
  \/ IndexPlatform \/ ValidateDispatches
  \/ Walk \/ LeaveLoop \/ BuildConstraintScope
  \/ EmitStage \/ Group \/ Done

Spec == Init /\ [][Next]_vars

-----------------------------------------------------------------------------
(* The trip counts handed to the solver are never exceeded. *)
Scoped == scope # NoScope /\ emitted = {}

TripsBounded == Scoped => TripsBoundedFor(fn, scope)

(* The divisibility constraints rule out every partial last tile of a loop  *)
(* whose bound varies with a loop around it.                                *)
NoPartialTile == Scoped => NoPartialTileFor(fn, scope)

(* The footprint covers the tiles the backend allocates. *)
FootprintCovers == Scoped => FootprintCoversFor(fn, scope)

(* What a workload is measured by is the work there is: a transfer's bound  *)
(* dimensions make up its volume, and a linalg.generic's parallel and       *)
(* reduction products make up its iterations.                               *)
WorkMeasured ==
  ops # <<>> =>
    LET op == fn.ops[Last(ops).t]   \* the operation walked last
    IN /\ op.kind \in Movers =>
            /\ Len(BoundDims(op.dims, op.rank)) = op.rank
            /\ Product(BoundDims(op.dims, op.rank)) = Product(op.dims)
            /\ EffectiveBandwidth(op.view) >= 10
       /\ op.kind = "compute" /\ KindOf(op.keys[1]) = Generic =>
            ParallelProduct(op.generic) * ReductionProduct(op.generic) = Product(op.generic.extents)
=============================================================================

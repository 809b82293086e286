----------------------------- MODULE TaskStages -----------------------------
(***************************************************************************)
(* The walk of a function that puts its operations into stages of three    *)
(* scopes (load, compute, store); a loop is a stage of the scope around it *)
(* and has scopes of its own.                                              *)
(*                                                                         *)
(* scf.if and affine.parallel are transparent, their operations are those  *)
(* of the region around them, and nothing uses the results of an scf.if.   *)
(***************************************************************************)
EXTENDS WorkloadDims

CONSTANT Functions
(* The functions, each with ops, the operations that may occur:             *)
(* name -> [kind, uses, ...] with uses the most operands it takes, and      *)
(* maxOps, how many occur.                                                  *)

VARIABLES
  fn,        \* the function
  ops,       \* the operations walked so far
  open       \* the loops the walk is in, innermost last

stageVars == <<fn, ops, open>>

StageInit == fn \in Functions /\ ops = <<>> /\ open = <<>>

-----------------------------------------------------------------------------
Movers == {"load", "store"}
Executable == {"compute"} \cup Movers

KindAt(i) == fn.ops[ops[i].t].kind
ScopeAt(i) == IF KindAt(i) \in Movers THEN KindAt(i) ELSE "compute"
Placed(i) == KindAt(i) \in Executable \cup {"for"}

Region == IF open = <<>> THEN 0 ELSE Last(open)

(* The stages of the current region's compute scope that hold a loop, and   *)
(* those that hold workloads.                                               *)
LoopStages == {ops[i].stage : i \in {j \in DOMAIN ops : ops[j].region = Region /\ KindAt(j) = "for"}}
WorkStages == {ops[i].stage : i \in {j \in DOMAIN ops : ops[j].region = Region /\ KindAt(j) = "compute"}}

(* getOrCreateWorkloadStage goes past the stages that hold a loop,          *)
(* placeStage past every stage that is there.                               *)
StageFor(kind, required) ==
  LET taken == CASE kind = "compute" -> LoopStages
                 [] kind = "for" -> LoopStages \cup WorkStages
                 [] OTHER -> {}
  IN Min({n \in required .. required + Len(ops) : n \notin taken})

(* Values of the regions around are not in the readiness map, nor are       *)
(* results of operations without one.                                       *)
ReadyStages(uses) == {ops[u].ready : u \in {v \in uses : ops[v].region = Region}}

RequiredFirst(uses) ==  \* mutant: the last operand decides
  IF uses = {} THEN 0 ELSE Max({0} \cup ReadyStages({Max(uses)}))

Required(uses) == Max({0} \cup ReadyStages(uses))

(* Loops and operations that are not modelled make their results ready one  *)
(* stage later; fills, transfers and, the compute pipeline being disabled,  *)
(* computations do not.                                                     *)
ReadyAfter(kind, required) == IF kind \in {"for", "index"} THEN required + 1 ELSE required

InScope(i) == ops[i].region \in ToSet(open) \cup {0} /\ i \notin ToSet(open)
HasResult(i) == KindAt(i) \notin Movers

(* A loop is opened when it is placed; what is in it goes to other scopes,  *)
(* so this comes to the same as placing it after its body, as the code does.*)
PlaceOp ==
  /\ Len(ops) < fn.maxOps
  /\ \E t \in DOMAIN fn.ops :
       \E uses \in {s \in SUBSET {i \in DOMAIN ops : InScope(i) /\ HasResult(i)} :
                      Cardinality(s) <= fn.ops[t].uses} :
         LET kind == fn.ops[t].kind
         IN /\ ops' = Append(ops, [t |-> t, uses |-> uses, region |-> Region,
                                   stage |-> StageFor(kind, Required(uses)),
                                   ready |-> ReadyAfter(kind, Required(uses))])
            /\ open' = IF kind = "for" THEN Append(open, Len(ops) + 1) ELSE open
  /\ UNCHANGED fn

EndLoop ==
  /\ open # <<>>
  /\ open' = Front(open)
  /\ UNCHANGED <<fn, ops>>

(* The walk on its own. *)
StageSpec == StageInit /\ [][PlaceOp \/ EndLoop]_stageVars

-----------------------------------------------------------------------------
Displaced(i) == ops[i].stage # ops[i].ready - 1

(* The operations of its region that i takes a value from as an operand; a  *)
(* loop that was put in a later stage than its operands asked for is left   *)
(* out.                                                                     *)
Near(i) ==
  {u \in ops[i].uses : /\ ops[u].region = ops[i].region
                       /\ KindAt(u) = "for" => ~ Displaced(u)}

(* Those it takes a value from directly or through others: the least set    *)
(* that has the operands of i and those of its own members.                 *)
ClosedFor(i, X) == Near(i) \subseteq X /\ \A u \in X : Near(u) \subseteq X

Sources(i) == {s \in DOMAIN ops : \A X \in SUBSET DOMAIN ops : ClosedFor(i, X) => s \in X}

(* Along the operands the stages are a schedule: no computation is in an    *)
(* earlier stage than one it takes a value from, and a loop is in a stage   *)
(* strictly before its users and strictly after its sources.                *)
StagesOrdered ==
  \A i \in DOMAIN ops : KindAt(i) \in {"compute", "for"} =>
    \A s \in Sources(i) : KindAt(s) \in {"compute", "for"} =>
      /\ ops[s].stage <= ops[i].stage
      /\ "for" \in {KindAt(s), KindAt(i)} => ops[s].stage < ops[i].stage

(* The penalty for the layout of the source is only asked for when exactly  *)
(* one of the two strides is not 1, as extractUniqueNonUnitStride asserts.  *)
OneStridedAxis ==
  \A i \in DOMAIN ops : KindAt(i) \in Movers =>
    LET view == fn.ops[ops[i].t].view
    IN (~ IsUnicast(view) /\ Penalized(view.strides, view.area))
         => Cardinality(NonUnit(view.strides)) = 1
=============================================================================

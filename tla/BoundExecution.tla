---------------------------- MODULE BoundExecution ----------------------------
(***************************************************************************)
(* The program that lib/passes/loom-opt/src/memory_binding_pass.cpp writes *)
(* from the plan of MemoryAnalysis, and its execution on one core.         *)
(*                                                                         *)
(* Every VB gets a semaphore on its physical buffer (its colour) and an    *)
(* init_tensor on the semaphore.  Which buffer a tensor really lives in is *)
(* decided by the chain of outs operands that anchorVirtualBuffers leaves: *)
(* Root is the VB whose semaphore the chain of a tensor ends at, and One-  *)
(* Shot Bufferize updates that buffer in place.  Tensors of different      *)
(* roots do not alias as far as bufferization can see, so two roots on one *)
(* physical buffer are safe only if the plan says so; conflicts within one *)
(* root are visible in SSA form, and bufferization resolves them.          *)
(***************************************************************************)
EXTENDS MemoryAnalysis

CONSTANT
  Executes(_)  \* the programs that are bound and executed, the others are analysed

VARIABLES
  code,    \* the bound program: for each operation a sequence of instructions
  pc,      \* the operation
  step,    \* its next instruction
  holder,  \* for each physical buffer, the root whose data it holds, 0: none
  held     \* the roots written whose semaphore was not given since

xvars == <<code, pc, step, holder, held>>
bvars == <<avars, xvars>>

-----------------------------------------------------------------------------
(* anchorVirtualBuffers. *)

DefOp(v) == prog.code[DefIdx(prog, v)]

IsPhi(v) == v \in Args(prog) \cup Results(prog)

IsLinalg(v) == ~ IsPhi(v) /\ DefOp(v).kind = "linalg"

(* The outs operand that was not a tensor.empty, if any. *)
Outs(op) == {op.ins[o].val : o \in {n \in DOMAIN op.ins : op.ins[n].rel = "init"}}

(* Pass 2: an outs planned on another buffer is copied into the VB's own    *)
(* init_tensor where the VB is born.                                        *)
CopiedOuts(v) ==
  /\ IsLinalg(v) /\ BirthNode(vbs[VBOf(v)]) = v
  /\ \E u \in Outs(DefOp(v)) : color[VBOf(u)] # color[VBOf(v)]

(* redirectLoopInit: a VB born with the iter_arg gets a clone of the init   *)
(* value's operation on its own init_tensor.                                *)
ClonedInit(i) ==
  /\ BirthNode(vbs[VBOf(prog.phis[i].arg)]) = prog.phis[i].arg
  /\ IsLinalg(InitOf(prog, i))

PhiOf(v) == CHOOSE i \in DOMAIN prog.phis : v \in {prog.phis[i].arg, prog.phis[i].res}

(* Pass 1 gives a tensor.empty outs the iter_arg of the VB when the         *)
(* operation is in the loop, the VB's init_tensor otherwise.                *)
PhiMember(v) ==
  {a \in Args(prog) \cap Members(vbs[VBOf(v)]) :
     vbs[VBOf(v)].type \in {"Fused", "LoopCarried"} /\ InLoop(prog, DefIdx(prog, v))}

Root[v \in Values(prog)] ==
  IF v \in Results(prog) THEN Root[prog.phis[PhiOf(v)].arg]
  ELSE IF v \in Args(prog) THEN
    IF ClonedInit(PhiOf(v)) THEN VBOf(v) ELSE Root[InitOf(prog, PhiOf(v))]
  ELSE IF IsLinalg(v) /\ Outs(DefOp(v)) # {} /\ ~ CopiedOuts(v) THEN
    Root[CHOOSE u \in Outs(DefOp(v)) : TRUE]
  ELSE IF IsLinalg(v) /\ Outs(DefOp(v)) = {} /\ PhiMember(v) # {} THEN
    Root[CHOOSE a \in PhiMember(v) : TRUE]
  ELSE VBOf(v)

-----------------------------------------------------------------------------
(* The instructions: each reads the operands of `reads`, then writes the VB *)
(* `write` if that is not 0, and then the semaphores of `gives` are given;  *)
(* those of a "for" and a "yield" are given when the loop ends. There is a  *)
(* place for whatever the pass may put around an operation, with Nothing in *)
(* it if the pass does not.                                                 *)

Instr(do, reads, write, gives) ==
  [do |-> do, reads |-> reads, write |-> write, gives |-> gives]
Nothing == Instr("access", {}, 0, {})
Copy(v, b) == Instr("access", {[root |-> Root[v], rel |-> "same"]}, b, {})

GiveAtDeath(b) == vbs[b].death  \* mutant: nothing is hoisted out of the loop

(* manageSemaphoreGives puts the give after the operation the VB dies at,   *)
(* but before the yield; Eternal and Fused VBs that die in the loop are     *)
(* hoisted after it. WriteBackLowering moves the gives of a stored tensor's *)
(* VB to the store.                                                         *)
GiveAt(b) ==
  LET stores == {k \in DOMAIN prog.code :
                   prog.code[k].kind = "store" /\ VBOf(prog.code[k].ins[1].val) = b}
  IN  IF stores # {} THEN Max(stores)
      ELSE IF vbs[b].type \in {"Eternal", "Fused"} /\ InLoop(prog, vbs[b].death) THEN Loop(prog)
      ELSE vbs[b].death

Gives(k) == {b \in DOMAIN vbs : GiveAt(b) = k}

(* What operation k reads, its outs operand being the init_tensor of the VB *)
(* `fresh` if that is not 0.                                                *)
Reads(k, fresh) ==
  LET read(in) == IF in.rel = "init" /\ fresh # 0 THEN [root |-> fresh, rel |-> "init"]
                  ELSE [root |-> Root[in.val], rel |-> in.rel]
  IN  {read(in) : in \in ToSet(prog.code[k].ins)}

OutsCopy(k) ==
  LET op == prog.code[k]
  IN  IF op.kind = "linalg" /\ CopiedOuts(op.res)
      THEN Copy(CHOOSE u \in Outs(op) : TRUE, VBOf(op.res)) ELSE Nothing

Operation(k) ==
  LET op == prog.code[k]
  IN  CASE op.kind = "load" -> Instr("access", {}, VBOf(op.res), Gives(k))
        [] op.kind = "store" -> Instr("access", Reads(k, 0), 0, Gives(k))
        [] op.kind = "linalg" ->
             LET own == VBOf(op.res)
             IN  IF CopiedOuts(op.res) THEN Instr("access", Reads(k, own), own, Gives(k))
                                       ELSE Instr("access", Reads(k, 0), Root[op.res], Gives(k))

(* The clone's outs is the fresh init_tensor whatever the operation's was;  *)
(* it follows the gives that are placed after the operation.                *)
Clone(k, i) ==
  LET own == VBOf(prog.phis[i].arg)
  IN  IF ClonedInit(i) /\ DefIdx(prog, InitOf(prog, i)) = k
      THEN Instr("access", Reads(k, own), own, {}) ELSE Nothing

(* Pass 3: a yield that was not merged and was planned on another buffer is *)
(* copied back into the iter_arg; of the others, bufferization copies those *)
(* that are not in the iter_arg's buffer.                                   *)
CopiedBack ==
  {i \in DOMAIN prog.phis \cap splits :
     color[VBOf(prog.phis[i].arg)] # color[VBOf(YieldOf(prog, i))]}
Moved ==
  {i \in DOMAIN prog.phis \ CopiedBack : Root[YieldOf(prog, i)] # Root[prog.phis[i].arg]}
YieldCopy(i, S) ==
  IF i \in S THEN Copy(YieldOf(prog, i), Root[prog.phis[i].arg]) ELSE Nothing

(* The clones stand in reverse order: each goes right after the operation.  *)
Block(k) ==
  LET P == Len(prog.phis)
  IN  IF k = Loop(prog) THEN <<Instr("for", {}, 0, Gives(k))>>
      ELSE IF k = Yield(prog)
      THEN [n \in 1 .. 2 * P + 2 |->
              IF n <= P THEN YieldCopy(n, CopiedBack)
              ELSE IF n = P + 1 THEN Instr("access", {}, 0, Gives(k))
              ELSE IF n <= 2 * P + 1 THEN YieldCopy(n - P - 1, Moved)
              ELSE Instr("yield", {}, 0, Gives(Loop(prog)))]
      ELSE IF k < Loop(prog)
      THEN [n \in 1 .. P + 2 |->
              IF n = 1 THEN OutsCopy(k) ELSE IF n = 2 THEN Operation(k) ELSE Clone(k, P + 3 - n)]
      ELSE <<OutsCopy(k), Operation(k)>>

BoundCode == [k \in DOMAIN prog.code |-> Block(k)]

-----------------------------------------------------------------------------
BInit ==
  /\ AInit
  /\ code = <<>> /\ pc = 0 /\ step = 1 /\ holder = <<>> /\ held = {}

Analyse == ANext /\ UNCHANGED xvars

(* PassMaterializer::run *)
Bind ==
  /\ phase = "done" /\ pc = 0 /\ Executes(prog)
  /\ code' = BoundCode
  /\ pc' = 1
  /\ holder' = [c \in 0 .. numColors - 1 |-> 0]
  /\ UNCHANGED <<avars, step, held>>

Current == code[pc][step]
At(do) == pc \in DOMAIN code /\ Current.do = do

Jump(k, n) == pc' = k /\ step' = n
Advance == IF step < Len(code[pc]) THEN Jump(pc, step + 1) ELSE Jump(pc + 1, 1)

(* An operation, a copy or a DMA: it reads its operands and then writes.    *)
Perform ==
  /\ At("access")
  /\ holder' = IF Current.write = 0 THEN holder
               ELSE [holder EXCEPT ![color[Current.write]] = Current.write]
  /\ held' = (held \cup ({Current.write} \ {0})) \ Current.gives
  /\ Advance
  /\ UNCHANGED <<avars, code>>

(* The trip count is a run-time value: any, and it may be zero. *)
EnterLoop ==
  /\ At("for")
  /\ \/ Advance /\ held' = held
     \/ Jump(Yield(prog) + 1, 1) /\ held' = held \ Current.gives
  /\ UNCHANGED <<avars, code, holder>>

EndIteration ==
  /\ At("yield")
  /\ \/ Jump(Loop(prog) + 1, 1) /\ held' = held
     \/ Advance /\ held' = held \ Current.gives
  /\ UNCHANGED <<avars, code, holder>>

Ended == pc > 0 /\ pc = Len(code) + 1

(* The program returns, or was only analysed. *)
Stop == (Ended \/ (phase = "done" /\ ~ Executes(prog))) /\ UNCHANGED bvars

BNext ==
  \/ Analyse \/ Bind
  \/ Perform \/ EnterLoop \/ EndIteration \/ Stop

BSpec == BInit /\ [][BNext]_bvars

-----------------------------------------------------------------------------
(* Every operation finds in its operands' buffers the data of the operands: *)
(* nobody else wrote there in between, and the operation itself does not    *)
(* overwrite places it has still to read.                                   *)
OperandsIntact ==
  At("access") =>
    \A r \in Current.reads :
      /\ holder[color[r.root]] = r.root
      /\ (r.rel = "other" /\ Current.write \notin {0, r.root})
           => color[Current.write] # color[r.root]

(* semaphore_give declares the end of liveness of the circular buffer:      *)
(* nothing is read through a semaphore after it was given and before it was *)
(* written again, and when the program ends every buffer has been given.    *)
GiveEndsLiveness ==
  /\ At("access") => \A r \in Current.reads : r.root \in held
  /\ Ended => held = {}

AllocAtLast(c) ==  \* mutant: the alloc goes where the last VB is born
  LET last == Max({vbs[b].birth : b \in {d \in DOMAIN vbs : color[d] = c}})
  IN  IF InLoop(prog, last) THEN Loop(prog) ELSE last

(* The alloc of a physical buffer, before the operation its first VB is     *)
(* born at (or the loop around it), comes before every use of the buffer.   *)
AllocAt(c) ==
  LET first == Min({vbs[b].birth : b \in {d \in DOMAIN vbs : color[d] = c}})
  IN  IF InLoop(prog, first) THEN Loop(prog) ELSE first

AllocDominates ==
  (At("access") /\ Current.write # 0) => AllocAt(color[Current.write]) <= pc

=============================================================================

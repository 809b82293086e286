---------------------------- MODULE MemoryAnalysis ----------------------------
(***************************************************************************)
(* runMemoryAnalysis of lib/analysis/src/static_memory_analyser.cpp, for   *)
(* one shape bucket of one function: the axioms group the tensors into     *)
(* virtual buffers (VBs), relay fusion merges VBs that hand a value over   *)
(* in place, and module GreedyColoring builds the interference graph of    *)
(* the VBs that come out and colours it: StartColoring sets its state in   *)
(* place of its Init, and its steps are those of Color.                    *)
(*                                                                         *)
(* The phases run one after the other on one thread; applyPhiFusionAxiom   *)
(* takes one step per iter_arg and relay fusion one step per merge.  The   *)
(* pipelines insert no loom.sync, so the coalescing of GreedyColoring has  *)
(* nothing to join here.                                                   *)
(***************************************************************************)
EXTENDS TensorProgram, GreedyColoring

CONSTANT Programs   \* the programs to analyse

(* The programs are in SSA form, and their size is bounded for TLC.         *)
ASSUME ProgramsAssumption ==
  \A p \in Programs :
    WellFormed(p) /\ Len(p.code) <= MaxIndex /\ Len(Nodes(p)) \in 1 .. MaxVBs

VARIABLES
  prog,       \* the function
  stage,      \* the phase of runMemoryAnalysis that comes next
  vbs,        \* Bucket::virtualBuffers: a sequence of records
  cursor,     \* the iter_arg applyPhiFusionAxiom looks at next
  splits      \* splitYields_: the iter_args whose yield was not merged

coloring == <<bucket, phase, edges, color, numColors>>
avars == <<prog, stage, vbs, cursor, splits, coloring>>

-----------------------------------------------------------------------------
(* Virtual buffers. *)

VBRecSwapped(type, members, from, to, excl) ==  \* mutant: birth and death swapped
  [type |-> type, members |-> members, birth |-> to, death |-> from, excl |-> excl]

VBRec(type, members, from, to, excl) ==
  [type |-> type, members |-> members, birth |-> from, death |-> to, excl |-> excl]

Members(vb) == ToSet(vb.members)

Mapped == UNION {Members(vbs[i]) : i \in DOMAIN vbs}

(* The VB of a value (tensorToBufferMap, tensorToVBIdMap). *)
VBOf(v) == CHOOSE i \in DOMAIN vbs : v \in Members(vbs[i])

(* The lexicographically first of a set of pairs of numbers. *)
First(S) == CHOOSE m \in S : \A n \in S : m[1] < n[1] \/ (m[1] = n[1] /\ m[2] <= n[2])

(* updateDefiningOp, and birthNode of anchorVirtualBuffers: the first       *)
(* member with the smallest index.                                          *)
BirthNode(vb) ==
  vb.members[First({<<DefIdx(prog, vb.members[i]), i>> : i \in DOMAIN vb.members})[2]]

DefiningOp(vb) == prog.code[DefIdx(prog, BirthNode(vb))]

(* computeDeathIndices *)
Deaths == [v \in Values(prog) |-> Death(prog, v)]

(* One VB for each value of S, dying at to[v], in the order of the bucket's nodes. *)
Singletons(type, S, to, excl) ==
  LET single(v) == IF v \in S THEN <<VBRec(type, <<v>>, DefIdx(prog, v), to[v], excl)>>
                              ELSE <<>>
  IN  FlattenSeq([i \in DOMAIN Nodes(prog) |-> single(Nodes(prog)[i])])

-----------------------------------------------------------------------------
(* Sharing: may VB b, born when VB a dies, take a's buffer? *)

(* findOperandRelation: the first operand of b's defining operation that is *)
(* a member of a, in the order of the members.                              *)
Matches(a, b) ==
  {m \in (DOMAIN a.members) \X (DOMAIN DefiningOp(b).ins) :
     a.members[m[1]] = DefiningOp(b).ins[m[2]].val}

HandoffByInit(a, b) ==  \* mutant: looks at outs operands
  /\ Matches(a, b) # {}
  /\ DefiningOp(b).ins[First(Matches(a, b))[2]].rel = "init"

(* checkHandoffInterference *)
HandoffInterferes(a, b) ==
  /\ Matches(a, b) # {}
  /\ DefiningOp(b).ins[First(Matches(a, b))[2]].rel = "other"

(* canRelay: the overlap is classified in order of birth, the handoff is    *)
(* checked in the order of the two positions.                               *)
CanRelay(a, b) ==
  /\ IF b.birth < a.birth THEN b.death = a.birth ELSE a.death = b.birth
  /\ ~ HandoffInterferes(a, b)

RelayPairs ==
  {m \in (DOMAIN vbs) \X (DOMAIN vbs) :
     /\ m[1] < m[2]
     /\ \A i \in {m[1], m[2]} : vbs[i].type = "Standard" /\ ~ vbs[i].excl
     /\ CanRelay(vbs[m[1]], vbs[m[2]])}

MergeKeepsDeath(a, b) == [a EXCEPT !.members = @ \o b.members]  \* mutant: keeps the old range

Merge(a, b) ==
  [a EXCEPT !.members = @ \o b.members,
            !.birth = Min({@, b.birth}),
            !.death = Max({@, b.death})]

-----------------------------------------------------------------------------
AInit ==
  /\ prog \in Programs
  /\ stage = "special"
  /\ vbs = <<>>
  /\ cursor = 1
  /\ splits = {}
  /\ size = 0 /\ birth = <<>> /\ death = <<>>
  /\ syncs = {} /\ exclusive = {} /\ handoff = {}
  /\ phase = "build" /\ edges = {} /\ color = <<>> /\ numColors = 0

(* applyNonDefaultLocalMemoryKindAxiom: a singleton that never shares.      *)
Special ==
  /\ stage = "special"
  /\ vbs' = vbs \o Singletons("Standard", prog.special, Deaths, TRUE)
  /\ stage' = "phi"
  /\ UNCHANGED <<prog, cursor, splits, coloring>>

(* isInitPure: nothing in the loop reads the init value. *)
Pure(v) == v \notin Handoffs(prog) /\ \A k \in Uses(prog, v) : ~ InLoop(prog, k)

HandsOverAlways(arg, yield) == TRUE  \* mutant: no handoff check

(* The handoff check: the yield is born after the iter_arg's last use.      *)
HandsOver(arg, yield) == DefIdx(prog, yield) >= Death(prog, arg)

(* applyPhiFusionAxiom, one iter_arg: the iter_arg, its init value when it  *)
(* is pure, its yield value when that is born after the iter_arg's last     *)
(* use, and the loop's result become one VB.                                *)
PhiFuse ==
  /\ stage = "phi"
  /\ cursor \in DOMAIN prog.phis
  /\ LET arg == prog.phis[cursor].arg
         init == InitOf(prog, cursor)
         yield == YieldOf(prog, cursor)
         res == prog.phis[cursor].res
         free(v) == v \notin Mapped /\ v \notin Handoffs(prog)
         pure == Pure(init)
         takesInit == pure /\ init \notin Mapped
         takesYield == /\ free(yield) /\ yield \notin {arg, init}
                       /\ HandsOver(arg, yield)
         takesRes == free(res) /\ res \notin {arg, init, yield}
         members == <<arg>> \o (IF takesInit THEN <<init>> ELSE <<>>)
                            \o (IF takesYield THEN <<yield>> ELSE <<>>)
                            \o (IF takesRes THEN <<res>> ELSE <<>>)
         from == IF pure THEN Min({Loop(prog), DefIdx(prog, init)}) ELSE Loop(prog)
         to == Max({Yield(prog), Death(prog, res)})
     IN  IF free(arg)
         THEN /\ vbs' = Append(vbs, VBRec(IF pure THEN "Fused" ELSE "LoopCarried",
                                          members, from, to, FALSE))
              /\ splits' = IF takesYield THEN splits ELSE splits \cup {cursor}
         ELSE UNCHANGED <<vbs, splits>>
  /\ cursor' = cursor + 1
  /\ UNCHANGED <<prog, stage, coloring>>

PhiDone ==
  /\ stage = "phi"
  /\ cursor \notin DOMAIN prog.phis
  /\ stage' = "eternal"
  /\ UNCHANGED <<prog, vbs, cursor, splits, coloring>>

EternalUntilLastUse ==  \* mutant: the loop does not repeat
  /\ stage = "eternal"
  /\ LET S == {v \in Values(prog) \ Mapped :
                 /\ ~ InLoop(prog, DefIdx(prog, v))
                 /\ \E k \in Uses(prog, v) : InLoop(prog, k)}
     IN  vbs' = vbs \o Singletons("Eternal", S, Deaths, FALSE)
  /\ stage' = "standard"
  /\ UNCHANGED <<prog, cursor, splits, coloring>>

(* applyExternalEternityAxiom: defined outside the loop, read inside.  The  *)
(* loop operation itself is outside.                                        *)
Eternal ==
  /\ stage = "eternal"
  /\ LET S == {v \in Values(prog) \ Mapped :
                 /\ ~ InLoop(prog, DefIdx(prog, v))
                 /\ \E k \in Uses(prog, v) : InLoop(prog, k)}
     IN  vbs' = vbs \o Singletons("Eternal", S, [v \in S |-> Yield(prog)], FALSE)
  /\ stage' = "standard"
  /\ UNCHANGED <<prog, cursor, splits, coloring>>

StandardUnmarked ==  \* mutant: no VB is marked exclusive for a DMA
  /\ stage = "standard"
  /\ vbs' = vbs \o Singletons("Standard", Values(prog) \ Mapped, Deaths, FALSE)
  /\ stage' = "relay"
  /\ UNCHANGED <<prog, cursor, splits, coloring>>

(* applyStandardAxiom for the rest, then assignExclusiveTargetAttributes.   *)
Standard ==
  /\ stage = "standard"
  /\ LET all == vbs \o Singletons("Standard", Values(prog) \ Mapped, Deaths, FALSE)
     IN  vbs' = [i \in DOMAIN all |->
                   [all[i] EXCEPT !.excl = @ \/ Members(all[i]) \cap Handoffs(prog) # {}]]
  /\ stage' = "relay"
  /\ UNCHANGED <<prog, cursor, splits, coloring>>

RelayKeepsBoth ==  \* mutant: the merged VB is not erased
  /\ stage = "relay"
  /\ RelayPairs # {}
  /\ LET m == First(RelayPairs)
     IN  vbs' = [vbs EXCEPT ![m[1]] = Merge(@, vbs[m[2]])]
  /\ UNCHANGED <<prog, stage, cursor, splits, coloring>>

(* fuseRelayVirtualBuffers, one round: the first pair that can relay merges *)
(* into the first of the two.                                               *)
Relay ==
  /\ stage = "relay"
  /\ RelayPairs # {}
  /\ LET m == First(RelayPairs)
     IN  vbs' = RemoveAt([vbs EXCEPT ![m[1]] = Merge(@, vbs[m[2]])], m[2])
  /\ UNCHANGED <<prog, stage, cursor, splits, coloring>>

(* buildInterferenceGraphs starts; build() asks checkHandoffInterference    *)
(* for the touching pairs.                                                  *)
StartColoring ==
  /\ stage = "relay"
  /\ RelayPairs = {}
  /\ stage' = "color"
  /\ size' = Len(vbs)
  /\ birth' = [i \in DOMAIN vbs |-> vbs[i].birth]
  /\ death' = [i \in DOMAIN vbs |-> vbs[i].death]
  /\ exclusive' = {i \in DOMAIN vbs : vbs[i].excl}
  /\ handoff' = {m \in (DOMAIN vbs) \X (DOMAIN vbs) :
                   m[1] # m[2] /\ HandoffInterferes(vbs[m[1]], vbs[m[2]])}
  /\ color' = [i \in DOMAIN vbs |-> -1]
  /\ UNCHANGED <<prog, vbs, cursor, splits, syncs, phase, edges, numColors>>

Color ==
  /\ stage = "color"
  /\ Next
  /\ UNCHANGED <<prog, stage, vbs, cursor, splits>>

ANext ==
  \/ Special \/ PhiFuse \/ PhiDone \/ Eternal \/ Standard
  \/ Relay \/ StartColoring \/ Color

(* The plan is complete: the analysis has nothing left to do. *)
APlanned == phase = "done" /\ UNCHANGED avars

ASpec == AInit /\ [][ANext \/ APlanned]_avars

-----------------------------------------------------------------------------
(* Every tensor of the bucket ends in exactly one VB, and so has exactly    *)
(* one slot in the plan (tensorToBufferMap is a map, and anchorVirtualBuf-  *)
(* fers and applyPatternRewrites look values up without a fallback).  The   *)
(* Standard VBs stay sorted by birth, whatever was merged: relay fusion     *)
(* asks checkHandoffInterference in the order of positions and relies on it.*)
OneBufferPerValue ==
  /\ \A i, j \in DOMAIN vbs : i # j => Members(vbs[i]) \cap Members(vbs[j]) = {}
  /\ \A i \in DOMAIN vbs : IsInjective(vbs[i].members)
  /\ stage \in {"relay", "color"} =>
       /\ Mapped = Values(prog)
       /\ \A i, j \in DOMAIN vbs :
            (i < j /\ \A n \in {i, j} : vbs[n].type = "Standard" /\ ~ vbs[n].excl)
              => vbs[i].birth <= vbs[j].birth

(* What a DMA reads or writes is alone in its VB and in its physical        *)
(* buffer, through every phase that could merge it.                         *)
HandoffsAlone ==
  phase = "done" =>
    \A v \in Handoffs(prog) \cup prog.special :
      /\ vbs[VBOf(v)].members = <<v>>
      /\ \A j \in DOMAIN vbs : color[j] = color[VBOf(v)] => j = VBOf(v)

(* The lifetime of a VB covers what its members need: no member is used     *)
(* before the VB is born or, a loop counting as a whole, after it died,     *)
(* provided no tensor crosses the loop in a way the axioms do not expect.   *)
LiveFrom(v) == IF v \in Results(prog) THEN Yield(prog) ELSE DefIdx(prog, v)

LifetimesCovered ==
  (stage \in {"relay", "color"} /\ NothingOutlivesLoop(prog) /\ SpecialsLocal(prog)) =>
    \A i \in DOMAIN vbs : \A v \in Members(vbs[i]) :
      vbs[i].birth <= DefIdx(prog, v) /\ LiveUntil(prog, v) <= vbs[i].death

(* The plan is sound: two tensors of which one is written while the other   *)
(* is still to be read, or is being read at other places than the one       *)
(* written, have different physical buffers unless they were fused.         *)
Clash(u, v) ==
  \/ LiveFrom(u) <= LiveFrom(v) /\ LiveFrom(v) < LiveUntil(prog, u)
  \/ /\ LiveFrom(v) = LiveUntil(prog, u) /\ v \notin Results(prog)
     /\ In(u, "other") \in ToSet(prog.code[DefIdx(prog, v)].ins)

PlanSound ==
  (phase = "done" /\ NothingOutlivesLoop(prog) /\ OtherReadsFirst(prog)) =>
    \A u, v \in Values(prog) :
      (VBOf(u) # VBOf(v) /\ Clash(u, v)) => color[VBOf(u)] # color[VBOf(v)]

(* Values fused into one VB take turns: none is written while another one   *)
(* is still to be read.                                                     *)
MembersTakeTurns ==
  (stage \in {"relay", "color"} /\ NothingOutlivesLoop(prog)) =>
    \A i \in DOMAIN vbs : \A u, v \in Members(vbs[i]) :
      u # v => ~ (LiveFrom(u) < LiveFrom(v) /\ LiveFrom(v) < LiveUntil(prog, u))

=============================================================================

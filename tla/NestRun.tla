------------------------------- MODULE NestRun -------------------------------
(***************************************************************************)
(* What a kernel of LoopNest executes, and what becomes of it in L1 and    *)
(* DRAM.                                                                   *)
(***************************************************************************)
EXTENDS LoopNest

Value(term, env) ==
  CASE term.op = "is" -> env[term.loop]
    [] term.op = "div" -> env[term.loop] \div term.k
    [] term.op = "mod" -> env[term.loop] % term.k
    [] term.op = "prev" -> IF env[term.loop] = 0 THEN 0 ELSE env[term.loop] - 1

Address(step, env) == <<step.buf, [i \in DOMAIN step.off |-> Value(step.off[i], env)]>>

Instances(steps, env) ==
  [i \in DOMAIN steps |-> [op |-> steps[i].op, take |-> steps[i].take,
                           at |-> Address(steps[i], env), env |-> env]]

(* The result is accumulated over the loops with iter_args; it starts anew  *)
(* where the outermost of them does, or else with the body.                 *)
StartsAt(f) ==
  LET carried == {i \in DOMAIN f.loops : f.loops[i].carried}
  IN  IF carried # {} THEN Min(carried)
      ELSE IF f.pre \o f.post = <<>> THEN Len(f.loops) + 1 ELSE Len(f.loops)

Begin(f, i, env) == IF i = StartsAt(f) THEN Instances(<<Step("start", "", "", <<>>)>>, env) ELSE <<>>

RECURSIVE Unroll(_, _, _, _)
Unroll(f, i, blocks, env) ==
  Begin(f, i, env) \o
  IF i > Len(f.loops) THEN Instances(f.deep, env)
  ELSE LET around(steps, level) == IF i = level THEN Instances(steps, env) ELSE <<>>
           turns == Turns(env, f.loops[i], blocks)
           gives == [h \in DOMAIN f.hoisted |-> Give(f.hoisted[h].take)]
       IN  around(f.hoisted, f.hoistAt) \o around(f.pre, Len(f.loops))
             \o FlattenSeq([n \in DOMAIN turns |-> Unroll(f, i + 1, blocks, turns[n])])
             \o around(f.post, Len(f.loops)) \o around(gives, f.hoistAt)

Processes(f, blocks) ==
  LET points == Points(f.root, blocks)
  IN  [p \in DOMAIN points |-> Unroll(f, 1, blocks, points[p])]

-----------------------------------------------------------------------------
(* A process with its L1 buffers (tile, held between take and give) and its *)
(* result so far.                                                           *)

Allocs == {Alloc[t] : t \in DOMAIN Alloc}

Idle == [acc |-> {}, tile |-> [a \in Allocs |-> {}], held |-> {}]

Content(dram, at) == IF at \in DOMAIN dram THEN dram[at] ELSE {at}

Local(m, inst, dram) ==
  CASE inst.op = "start" -> [m EXCEPT !.acc = {}]
    [] inst.op = "load" -> [m EXCEPT !.tile[Alloc[inst.take]] = Content(dram, inst.at),
                                     !.held = @ \cup {Alloc[inst.take]}]
    [] inst.op = "use" -> [m EXCEPT !.acc = @ \cup m.tile[Alloc[inst.take]]]
    [] inst.op = "update" -> [m EXCEPT !.acc = @ \cup m.tile[Alloc[inst.take]],
                                       !.tile[Alloc[inst.take]] = @ \cup {<<"updated", <<>>>>}]
    [] inst.op = "give" -> [m EXCEPT !.held = @ \ {Alloc[inst.take]}]
    [] inst.op = "store" -> m

Dram(m, inst, dram) == IF inst.op = "store" THEN (inst.at :> m.acc) @@ dram ELSE dram

(* A process runs until it has stored a tile or is about to read one that   *)
(* others may write (shared); what it does in between nobody can observe.   *)
(* A semaphore_take waits until the buffer was given back.                  *)
RECURSIVE Run(_, _, _, _, _)
Run(m, steps, n, dram, shared) ==
  LET inst == steps[n + 1]
      waits == /\ inst.op = "load"
               /\ Alloc[inst.take] \in m.held \/ (n > 0 /\ inst.at[1] \in shared)
  IN  IF n = Len(steps) \/ (n > 0 /\ steps[n].op = "store") \/ waits
      THEN [m |-> m, n |-> n, dram |-> dram]
      ELSE Run(Local(m, inst, dram), steps, n + 1, Dram(m, inst, dram), shared)

(* The stores of a function executed sequentially, in the order of its text. *)
Point(f, inst) ==
  <<inst.at[1], [l \in {x.of : x \in ToSet(f.root \o f.loops)} \cap DOMAIN inst.env |-> inst.env[l]]>>

RECURSIVE WritesFrom(_, _, _, _, _)
WritesFrom(f, m, steps, n, dram) ==
  IF n > Len(steps) THEN <<>>
  ELSE LET inst == steps[n]
           rest == WritesFrom(f, Local(m, inst, dram), steps, n + 1, Dram(m, inst, dram))
       IN  IF inst.op = "store"
           THEN <<[point |-> Point(f, inst), at |-> inst.at, value |-> m.acc]>> \o rest
           ELSE rest

Writes(f, blocks) ==
  WritesFrom(f, Idle, FlattenSeq(Processes(f, blocks)), 1, <<>>)

=============================================================================

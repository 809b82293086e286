------------------------ MODULE MemoryAnalysisProofs ------------------------
(***************************************************************************)
(* Proofs about MemoryAnalysis, for every program in SSA form: the VBs     *)
(* divide the bucket's tensors, cover their lifetimes and take turns, and  *)
(* the buffers given to them are sound. The argument is one inductive      *)
(* invariant, AInv, and the invariant of the colouring from                *)
(* GreedyColoringProofs once the colouring has started.                    *)
(***************************************************************************)
EXTENDS MemoryAnalysis, GreedyColoringProofs, SequenceFacts

-----------------------------------------------------------------------------
(* The invariant. *)

VBs(p) == [type : {"Standard", "Fused", "LoopCarried", "Eternal"}, members : Seq(Values(p)),
           birth : 1 .. Len(p.code), death : 1 .. Len(p.code), excl : BOOLEAN]

(* What the VB's kind promises about the lifetimes of its members: a        *)
(* Standard VB covers them whatever the program, unless it is of a special  *)
(* memory kind.                                                             *)
Promised(vb) ==
  IF vb.type = "Standard" THEN Members(vb) \cap prog.special = {} \/ SpecialsLocal(prog)
                          ELSE NothingOutlivesLoop(prog)

TakesTurns(u, v) == ~ (LiveFrom(u) < LiveFrom(v) /\ LiveFrom(v) < LiveUntil(prog, u))

Apart == Handoffs(prog) \cup prog.special

VBInv(vb) ==
  /\ vb.members # <<>> /\ IsInjective(vb.members) /\ vb.birth <= vb.death
  /\ \A v \in Members(vb) : vb.birth <= DefIdx(prog, v)
  /\ Promised(vb) => \A v \in Members(vb) : LiveUntil(prog, v) <= vb.death
  /\ NothingOutlivesLoop(prog) => \A u, v \in Members(vb) : u # v => TakesTurns(u, v)
  /\ \A v \in Members(vb) \cap Apart : vb.members = <<v>>
  /\ Members(vb) \cap prog.special # {} => vb.excl
  /\ Members(vb) \cap Args(prog) \subseteq Apart \/ vb.type \in {"Fused", "LoopCarried"}
  /\ vb.type # "Standard" => Yield(prog) <= vb.death
  /\ vb.type \in {"Fused", "LoopCarried"} => vb.birth <= Loop(prog)
  /\ \A u, v \in Members(vb) :
       (u # v /\ LiveFrom(u) = LiveFrom(v)) => Uses(prog, u) = {} \/ Uses(prog, v) = {}
  /\ vb.type = "Standard" =>
       /\ \E v \in Members(vb) : Death(prog, v) = vb.death
       /\ (Members(vb) \cap Results(prog) # {} /\ vb.death = Loop(prog)) => vb.birth = Loop(prog)

(* The VBs of a bucket. *)
MembersIn(s) == UNION {Members(s[i]) : i \in DOMAIN s}

Division(s) ==
  /\ s \in Seq(VBs(prog))
  /\ \A i, j \in DOMAIN s : i # j => Members(s[i]) \cap Members(s[j]) = {}
  /\ \A i \in DOMAIN s : VBInv(s[i])

(* Only these can be merged. They stand at the end, in order of birth.      *)
Shareable(vb) == vb.type = "Standard" /\ ~ vb.excl

Ordered(s) ==
  \A i, j \in DOMAIN s :
    (i < j /\ Shareable(s[i]))
      => s[j].type = "Standard" /\ (Shareable(s[j]) => s[i].birth <= s[j].birth)

(* What the phases so far have mapped. *)
MappedSoFar ==
  /\ stage = "special" => vbs = <<>> /\ cursor = 1
  /\ stage # "special" => prog.special \subseteq MembersIn(vbs)
  /\ \A i \in DOMAIN prog.phis :
       (i < cursor \/ stage \notin {"special", "phi"})
         => prog.phis[i].arg \in MembersIn(vbs) \cup Apart
  /\ stage = "standard" =>
       \A v \in Values(prog) \ MembersIn(vbs) :
         InLoop(prog, DefIdx(prog, v)) \/ \A k \in Uses(prog, v) : ~ InLoop(prog, k)
  /\ stage \in {"special", "phi", "eternal", "standard"} =>
       \A i \in DOMAIN vbs : ~ Shareable(vbs[i])
  /\ stage \in {"relay", "color"} =>
       /\ MembersIn(vbs) = Values(prog)
       /\ \A i \in DOMAIN vbs : Members(vbs[i]) \cap Apart # {} => vbs[i].excl

(* Once the colouring has started, its bucket is the VBs'. *)
Colored ==
  IF stage = "color"
  THEN /\ IInv /\ RelayPairs = {}
       /\ size = Len(vbs) /\ syncs = {}
       /\ birth = [i \in DOMAIN vbs |-> vbs[i].birth]
       /\ death = [i \in DOMAIN vbs |-> vbs[i].death]
       /\ exclusive = {i \in DOMAIN vbs : vbs[i].excl}
       /\ handoff = {m \in (DOMAIN vbs) \X (DOMAIN vbs) :
                       m[1] # m[2] /\ HandoffInterferes(vbs[m[1]], vbs[m[2]])}
  ELSE phase = "build" /\ edges = {} /\ numColors = 0 /\ syncs = {}

AInv ==
  /\ prog \in Programs /\ cursor \in Nat \ {0}
  /\ stage \in {"special", "phi", "eternal", "standard", "relay", "color"}
  /\ Division(vbs) /\ Ordered(vbs) /\ MappedSoFar /\ Colored

-----------------------------------------------------------------------------
(* Programs in SSA form. *)

(* Each operation of a program is well-formed.                              *)
LEMMA OperationFacts ==
  ASSUME NEW p \in Programs, NEW k \in DOMAIN p.code
  PROVE  WellFormedOp(p, k)
BY ProgramsAssumption DEF WellFormed

LEMMA ProgramFacts ==
  ASSUME NEW p \in Programs
  PROVE  /\ WellFormed(p)
         /\ Len(p.code) \in Nat /\ DOMAIN p.code = 1 .. Len(p.code)
         /\ Len(p.phis) \in Nat /\ DOMAIN p.phis = 1 .. Len(p.phis)
         /\ Loop(p) \in 1 .. Len(p.code) /\ Yield(p) \in 1 .. Len(p.code) /\ Loop(p) < Yield(p)
         /\ \A k \in DOMAIN p.code : (p.code[k].kind = "for" <=> k = Loop(p))
         /\ p.code[Loop(p)].res = NoVal /\ p.code[Yield(p)].res = NoVal
         /\ \A o \in DOMAIN p.code[Loop(p)].ins : p.code[Loop(p)].ins[o].rel = "other"
         /\ DOMAIN p.code[Loop(p)].ins = DOMAIN p.phis
         /\ DOMAIN p.code[Yield(p)].ins = DOMAIN p.phis
<1>1. WellFormed(p)
  BY ProgramsAssumption
<1>2. Len(p.code) \in Nat /\ DOMAIN p.code = 1 .. Len(p.code)
  BY <1>1, LenProperties DEF WellFormed
<1>3. Len(p.phis) \in Nat /\ DOMAIN p.phis = 1 .. Len(p.phis)
  BY <1>1, LenProperties DEF WellFormed
<1>4. PICK l \in DOMAIN p.code, y \in DOMAIN p.code :
        /\ l < y
        /\ \A k \in DOMAIN p.code : /\ (p.code[k].kind = "for" <=> k = l)
                                    /\ (p.code[k].kind = "yield" <=> k = y)
        /\ \A k \in {l, y} : /\ p.code[k].res = NoVal /\ Len(p.code[k].ins) = Len(p.phis)
                             /\ \A in \in ToSet(p.code[k].ins) : in.rel = "other"
  BY <1>1 DEF WellFormed
<1>5. Loop(p) = l /\ Yield(p) = y
  <2>1. l \in DOMAIN p.code /\ y \in DOMAIN p.code
    BY <1>4
  <2>2. ASSUME NEW k \in DOMAIN p.code
        PROVE  (p.code[k].kind = "for" <=> k = l) /\ (p.code[k].kind = "yield" <=> k = y)
    BY <1>4
  <2>3. Loop(p) = l
    BY <2>1, <2>2 DEF Loop
  <2>4. Yield(p) = y
    BY <2>1, <2>2 DEF Yield
  <2> QED
    BY <2>3, <2>4
<1>6. \A k \in {l, y} : DOMAIN p.code[k].ins = DOMAIN p.phis
  <2> SUFFICES ASSUME NEW k \in {l, y} PROVE DOMAIN p.code[k].ins = DOMAIN p.phis
    OBVIOUS
  <2>1. p.code[k].ins \in Seq(ToSet(p.code[k].ins))
    BY <1>4, OperationFacts DEF WellFormedOp
  <2> QED
    BY <1>3, <1>4, <2>1, LenProperties
<1>7. /\ Loop(p) \in 1 .. Len(p.code) /\ Yield(p) \in 1 .. Len(p.code) /\ Loop(p) < Yield(p)
      /\ p.code[Loop(p)].res = NoVal /\ p.code[Yield(p)].res = NoVal
  <2>1. /\ l \in DOMAIN p.code /\ y \in DOMAIN p.code /\ l < y
        /\ p.code[l].res = NoVal /\ p.code[y].res = NoVal
    BY <1>4
  <2> QED
    BY <1>2, <1>5, <2>1
<1>8. \A k \in DOMAIN p.code : (p.code[k].kind = "for" <=> k = Loop(p))
  BY <1>4, <1>5
<1>9. DOMAIN p.code[Loop(p)].ins = DOMAIN p.phis /\ DOMAIN p.code[Yield(p)].ins = DOMAIN p.phis
  BY <1>5, <1>6
<1>10. \A o \in DOMAIN p.code[Loop(p)].ins : p.code[Loop(p)].ins[o].rel = "other"
  <2>1. \A in \in ToSet(p.code[l].ins) : in.rel = "other"
    BY <1>4
  <2> QED
    BY <1>5, <2>1 DEF ToSet
<1> QED
  BY <1>1, <1>2, <1>3, <1>7, <1>8, <1>9, <1>10

(* What operation k adds to the nodes of the bucket. *)
NodesAt(p, k) ==
  IF p.code[k].kind = "for"
  THEN [i \in DOMAIN p.phis |-> p.phis[i].res] \o [i \in DOMAIN p.phis |-> p.phis[i].arg]
  ELSE IF p.code[k].res = NoVal THEN <<>> ELSE <<p.code[k].res>>

LEMMA NodesAtFacts ==
  ASSUME NEW p \in Programs
  PROVE  LET parts == [k \in DOMAIN p.code |-> NodesAt(p, k)]
             n == Len(p.phis)
             at == parts[Loop(p)]
         IN  /\ Nodes(p) = FlattenSeq(parts) /\ Len(parts) = Len(p.code)
             /\ \E V : parts \in Seq(Seq(V))
             /\ Len(at) = n + n
             /\ \A i \in 1 .. n : at[i] = p.phis[i].res /\ at[n + i] = p.phis[i].arg
             /\ \A i \in 1 .. Len(at) : at[i] \in Args(p) \cup Results(p)
<1> DEFINE n == Len(p.phis)
           V == Args(p) \cup Results(p) \cup {p.code[k].res : k \in DOMAIN p.code}
           ress == [i \in 1 .. n |-> p.phis[i].res]
           args == [i \in 1 .. n |-> p.phis[i].arg]
           parts == [k \in DOMAIN p.code |-> NodesAt(p, k)]
<1>1. n \in Nat /\ DOMAIN p.phis = 1 .. n
  BY ProgramFacts
<1> HIDE DEF n
<1>2. \A i \in 1 .. n : p.phis[i].res \in Results(p) /\ p.phis[i].arg \in Args(p)
  BY <1>1 DEF Args, Results
<1>3. ress \in Seq(Results(p)) /\ Len(ress) = n /\ args \in Seq(Args(p)) /\ Len(args) = n
  <2>1. ress \in Seq(Results(p)) /\ DOMAIN ress = 1 .. n
    BY <1>1, <1>2, IsASeq
  <2>2. args \in Seq(Args(p)) /\ DOMAIN args = 1 .. n
    BY <1>1, <1>2, IsASeq
  <2> QED
    BY <1>1, <2>1, <2>2, LenProperties
<1>4. LET at == ress \o args
      IN  /\ at \in Seq(Args(p) \cup Results(p)) /\ Len(at) = n + n
          /\ \A i \in 1 .. n : at[i] = p.phis[i].res /\ at[n + i] = p.phis[i].arg
  <2> DEFINE W == Args(p) \cup Results(p)
  <2>0. Args(p) \subseteq W /\ Results(p) \subseteq W
    OBVIOUS
  <2> HIDE DEF W
  <2>1. ress \in Seq(W) /\ args \in Seq(W)
    BY <1>3, <2>0, SeqMonotonic
  <2>2. \A i \in 1 .. n : i \in 1 .. n + n /\ n + i \in 1 .. n + n /\ i <= n /\ ~ n + i <= n
                         /\ (n + i) - n = i
    BY <1>1
  <2> HIDE DEF ress, args
  <2>3. /\ ress \o args \in Seq(W) /\ Len(ress \o args) = n + n
        /\ \A i \in 1 .. n + n : (ress \o args)[i] = IF i <= n THEN ress[i] ELSE args[i - n]
    <3>1. /\ ress \o args \in Seq(W) /\ Len(ress \o args) = Len(ress) + Len(args)
          /\ \A i \in 1 .. Len(ress) + Len(args) :
               (ress \o args)[i] = IF i <= Len(ress) THEN ress[i] ELSE args[i - Len(ress)]
      BY <2>1, ConcatProperties
    <3> QED
      BY <1>3, <3>1
  <2>4. \A i \in 1 .. n : (ress \o args)[i] = ress[i] /\ (ress \o args)[n + i] = args[i]
    BY <2>2, <2>3
  <2> QED
    BY <2>3, <2>4 DEF ress, args, W
<1>5. /\ Loop(p) \in DOMAIN p.code /\ p.code[Loop(p)].kind = "for"
      /\ Len(p.code) \in Nat /\ DOMAIN p.code = 1 .. Len(p.code)
  BY ProgramFacts
<1>6. parts[Loop(p)] = ress \o args
  BY <1>1, <1>5 DEF NodesAt
<1>7. \A k \in DOMAIN p.code : NodesAt(p, k) \in Seq(V)
  <2> SUFFICES ASSUME NEW k \in DOMAIN p.code PROVE NodesAt(p, k) \in Seq(V)
    OBVIOUS
  <2>1. CASE p.code[k].kind = "for"
    <3>1. NodesAt(p, k) = ress \o args
      BY <1>1, <2>1 DEF NodesAt
    <3>2. ress \o args \in Seq(Args(p) \cup Results(p)) /\ Args(p) \cup Results(p) \subseteq V
      BY <1>4
    <3> QED
      BY <3>1, <3>2, SeqMonotonic
  <2>2. CASE p.code[k].kind # "for"
    <3>1. p.code[k].res \in V
      OBVIOUS
    <3> HIDE DEF V
    <3>2. <<>> \in Seq(V) /\ <<p.code[k].res>> \in Seq(V)
      BY <3>1
    <3> QED
      BY <2>2, <3>2 DEF NodesAt
  <2> QED
    BY <2>1, <2>2
<1>8. parts \in Seq(Seq(V)) /\ Len(parts) = Len(p.code)
  <2> HIDE DEF V
  <2>1. parts \in Seq(Seq(V)) /\ DOMAIN parts = 1 .. Len(p.code)
    BY <1>5, <1>7
  <2> QED
    BY <1>5, <2>1, LenProperties
<1>9. Nodes(p) = FlattenSeq(parts)
  BY DEF Nodes, NodesAt
<1>10. \A i \in 1 .. Len(ress \o args) : (ress \o args)[i] \in Args(p) \cup Results(p)
  BY <1>4, ElementOfSeq
<1> QED
  BY <1>4, <1>6, <1>8, <1>9, <1>10 DEF n

(* The nodes of the bucket are its values, each once, in the order of the   *)
(* operations that define them.                                             *)
LEMMA NodeFacts ==
  ASSUME NEW p \in Programs
  PROVE  /\ Nodes(p) \in Seq(Values(p)) /\ IsInjective(Nodes(p))
         /\ Args(p) \subseteq Values(p) /\ Results(p) \subseteq Values(p)
         /\ Args(p) \cap Results(p) = {}
         /\ \A v \in Values(p) : /\ DefIdx(p, v) \in 1 .. Len(p.code)
                                 /\ DefIdx(p, v) = Loop(p) <=> v \in Args(p) \cup Results(p)
                                 /\ v \notin Args(p) \cup Results(p)
                                      => p.code[DefIdx(p, v)].res = v
         /\ \A k \in DOMAIN p.code :
              p.code[k].res # NoVal => p.code[k].res \in Values(p) /\ DefIdx(p, p.code[k].res) = k
         /\ \A i, j \in DOMAIN Nodes(p) :
              i < j => DefIdx(p, Nodes(p)[i]) <= DefIdx(p, Nodes(p)[j])
<1> DEFINE parts == [k \in DOMAIN p.code |-> NodesAt(p, k)]
           N == Len(p.code)
           n == Len(p.phis)
           flat == Nodes(p)
<1>1. /\ N \in Nat /\ DOMAIN p.code = 1 .. N
      /\ n \in Nat /\ DOMAIN p.phis = 1 .. n
      /\ Loop(p) \in 1 .. N /\ \A k \in 1 .. N : p.code[k].kind = "for" <=> k = Loop(p)
      /\ p.code[Loop(p)].res = NoVal
  BY ProgramFacts
<1>2. /\ flat = FlattenSeq(parts) /\ Len(parts) = N
      /\ Len(parts[Loop(p)]) = n + n
      /\ \A i \in 1 .. n : parts[Loop(p)][i] = p.phis[i].res
                           /\ parts[Loop(p)][n + i] = p.phis[i].arg
      /\ \A i \in 1 .. Len(parts[Loop(p)]) : parts[Loop(p)][i] \in Args(p) \cup Results(p)
  BY NodesAtFacts
<1>3. PICK V : parts \in Seq(Seq(V))
  BY NodesAtFacts
<1>4. \A k \in 1 .. N : k # Loop(p) =>
        parts[k] = IF p.code[k].res = NoVal THEN <<>> ELSE <<p.code[k].res>>
  BY <1>1 DEF NodesAt
<1> HIDE DEF parts, N, n, flat
<1>5. flat \in Seq(V) /\ \E h, o : Positions(flat, parts, N, h, o)
  BY <1>2, <1>3, FlattenSeqPositions
<1>6. PICK h, o : Positions(flat, parts, N, h, o)
  BY <1>5
<1> DEFINE D == 1 .. Len(flat)
<1>7. /\ h \in [D -> 1 .. N] /\ o \in [D -> Nat]
      /\ \A i \in D : o[i] \in 1 .. Len(parts[h[i]]) /\ flat[i] = parts[h[i]][o[i]]
      /\ \A i, j \in D : i < j => h[i] <= h[j]
      /\ \A i, j \in D : h[i] = h[j] /\ o[i] = o[j] => i = j
      /\ \A k \in 1 .. N : \A q \in 1 .. Len(parts[k]) : \E i \in D : h[i] = k /\ o[i] = q
  BY <1>6 DEF Positions
<1>8. Len(flat) \in Nat /\ DOMAIN flat = D /\ Values(p) = {flat[i] : i \in D}
  BY <1>5, LenProperties DEF Values, ToSet, flat
<1>9. flat \in Seq(Values(p))
  <2>1. flat \in [D -> V]
    BY <1>5, LenProperties
  <2>2. \A i \in D : flat[i] \in Values(p)
    BY <1>8
  <2>3. flat = [i \in D |-> flat[i]]
    BY <2>1
  <2> HIDE DEF D
  <2>4. [i \in D |-> flat[i]] \in Seq(Values(p))
    BY <1>8, <2>2 DEF D
  <2> QED
    BY <2>3, <2>4
<1>10. IsInjective(flat)
  BY ProgramFacts DEF WellFormed, flat
(* An entry of the parts is there once. *)
<1>11. ASSUME NEW k \in 1 .. N, NEW q \in 1 .. Len(parts[k]),
              NEW l \in 1 .. N, NEW r \in 1 .. Len(parts[l]), parts[k][q] = parts[l][r]
       PROVE  k = l /\ q = r
  <2>1. PICK i \in D : h[i] = k /\ o[i] = q
    BY <1>7
  <2>2. PICK j \in D : h[j] = l /\ o[j] = r
    BY <1>7
  <2>3. flat[i] = flat[j]
    BY <1>7, <1>11, <2>1, <2>2
  <2>4. i = j
    BY <1>8, <1>10, <2>3 DEF IsInjective
  <2> QED
    BY <2>1, <2>2, <2>4
<1>12. \A k \in 1 .. N : \A q \in 1 .. Len(parts[k]) : parts[k][q] \in Values(p)
  BY <1>7, <1>8
<1>13. \A i \in 1 .. n : i \in 1 .. n + n /\ n + i \in 1 .. n + n /\ \A j \in 1 .. n : n + i # j
  BY <1>1
<1>14. Args(p) \subseteq Values(p) /\ Results(p) \subseteq Values(p)
  <2>1. \A i \in 1 .. n : p.phis[i].res \in Values(p) /\ p.phis[i].arg \in Values(p)
    BY <1>1, <1>2, <1>12, <1>13
  <2> QED
    BY <1>1, <2>1 DEF Args, Results
<1>15. Args(p) \cap Results(p) = {}
  <2>1. ASSUME NEW i \in 1 .. n, NEW j \in 1 .. n, p.phis[i].arg = p.phis[j].res PROVE FALSE
    <3>1. /\ n + i \in 1 .. Len(parts[Loop(p)]) /\ j \in 1 .. Len(parts[Loop(p)]) /\ n + i # j
          /\ Loop(p) \in 1 .. N
      BY <1>1, <1>2, <1>13
    <3>2. parts[Loop(p)][n + i] = parts[Loop(p)][j]
      BY <1>2, <2>1
    <3> QED
      BY <1>11, <3>1, <3>2
  <2> QED
    BY <1>1, <2>1 DEF Args, Results
<1>16. NoVal \notin Values(p)
  BY ProgramFacts DEF WellFormed
<1>17. ASSUME NEW k \in 1 .. N, p.code[k].res # NoVal
       PROVE  /\ k # Loop(p) /\ Len(parts[k]) = 1 /\ parts[k][1] = p.code[k].res
              /\ p.code[k].res \in Values(p) \ (Args(p) \cup Results(p))
              /\ DefIdx(p, p.code[k].res) = k
  <2>1. k # Loop(p) /\ parts[k] = <<p.code[k].res>>
    BY <1>1, <1>4, <1>17
  <2>2. Len(parts[k]) = 1 /\ parts[k][1] = p.code[k].res /\ 1 \in 1 .. Len(parts[k])
    BY <2>1
  <2>3. p.code[k].res \in Values(p)
    BY <1>12, <2>2
  <2>4. p.code[k].res \notin Args(p) \cup Results(p)
    <3>1. ASSUME NEW i \in 1 .. n PROVE p.phis[i].arg # p.code[k].res /\ p.phis[i].res # p.code[k].res
      <4>1. /\ i \in 1 .. Len(parts[Loop(p)]) /\ n + i \in 1 .. Len(parts[Loop(p)])
            /\ Loop(p) \in 1 .. N /\ k # Loop(p)
        BY <1>1, <1>2, <1>13, <2>1
      <4>2. parts[Loop(p)][i] # parts[k][1] /\ parts[Loop(p)][n + i] # parts[k][1]
        BY <1>11, <2>2, <4>1
      <4> QED
        BY <1>2, <2>2, <4>2
    <3> QED
      BY <1>1, <3>1 DEF Args, Results
  <2>5. ASSUME NEW l \in 1 .. N, p.code[l].res = p.code[k].res PROVE l = k
    <3>1. l # Loop(p) /\ parts[l] = <<p.code[k].res>>
      BY <1>1, <1>4, <1>17, <2>5
    <3>2. 1 \in 1 .. Len(parts[l]) /\ parts[l][1] = parts[k][1]
      BY <2>2, <3>1
    <3> QED
      BY <1>11, <2>2, <3>2
  <2>6. DefIdx(p, p.code[k].res) = k
    BY <1>1, <2>4, <2>5 DEF DefIdx
  <2> QED
    BY <2>1, <2>2, <2>3, <2>4, <2>6
<1>18. ASSUME NEW i \in D
       PROVE  /\ DefIdx(p, flat[i]) = h[i]
              /\ h[i] = Loop(p) <=> flat[i] \in Args(p) \cup Results(p)
              /\ flat[i] \notin Args(p) \cup Results(p) => p.code[h[i]].res = flat[i]
  <2>1. CASE h[i] = Loop(p)
    <3>1. flat[i] \in Args(p) \cup Results(p)
      BY <1>2, <1>7, <2>1
    <3> QED
      BY <2>1, <3>1 DEF DefIdx
  <2>2. CASE h[i] # Loop(p)
    <3>1. h[i] \in 1 .. N /\ o[i] \in 1 .. Len(parts[h[i]])
      BY <1>7
    <3>2. p.code[h[i]].res # NoVal
      <4> SUFFICES ASSUME p.code[h[i]].res = NoVal PROVE FALSE
        OBVIOUS
      <4>1. parts[h[i]] = <<>>
        BY <1>4, <2>2, <3>1
      <4>2. Len(parts[h[i]]) = 0
        BY <4>1
      <4> QED
        BY <3>1, <4>2
    <3>3. o[i] = 1 /\ flat[i] = p.code[h[i]].res
      BY <1>7, <1>17, <3>1, <3>2
    <3> QED
      BY <1>17, <2>2, <3>1, <3>2, <3>3
  <2> QED
    BY <2>1, <2>2
<1>19. \A v \in Values(p) : /\ DefIdx(p, v) \in 1 .. N
                            /\ DefIdx(p, v) = Loop(p) <=> v \in Args(p) \cup Results(p)
                            /\ v \notin Args(p) \cup Results(p) => p.code[DefIdx(p, v)].res = v
  <2> SUFFICES ASSUME NEW i \in D
               PROVE  /\ DefIdx(p, flat[i]) \in 1 .. N
                      /\ DefIdx(p, flat[i]) = Loop(p) <=> flat[i] \in Args(p) \cup Results(p)
                      /\ flat[i] \notin Args(p) \cup Results(p)
                           => p.code[DefIdx(p, flat[i])].res = flat[i]
    BY <1>8
  <2> QED
    BY <1>7, <1>18
<1>20. \A i, j \in D : i < j => DefIdx(p, flat[i]) <= DefIdx(p, flat[j])
  BY <1>7, <1>18
<1>21. \A k \in DOMAIN p.code :
         p.code[k].res # NoVal => p.code[k].res \in Values(p) /\ DefIdx(p, p.code[k].res) = k
  BY <1>1, <1>17
<1> QED
  BY <1>8, <1>9, <1>10, <1>14, <1>15, <1>19, <1>20, <1>21 DEF flat, N


(* The uses of a value: its definition comes before them. *)
LEMMA UseFacts ==
  ASSUME NEW p \in Programs, NEW v \in Values(p)
  PROVE  /\ \A k \in Uses(p, v) : k \in 1 .. Len(p.code) /\ Visible(p, v, k)
         /\ \A k \in Uses(p, v) : DefIdx(p, v) <= k /\ k <= Death(p, v)
         /\ Death(p, v) \in 1 .. Len(p.code) /\ DefIdx(p, v) <= Death(p, v)
         /\ Uses(p, v) # {} => Death(p, v) \in Uses(p, v) /\ DefIdx(p, v) < Death(p, v)
         /\ Uses(p, v) = {} => Death(p, v) = DefIdx(p, v)
<1> DEFINE N == Len(p.code)
<1>1. /\ WellFormed(p) /\ N \in Nat /\ DOMAIN p.code = 1 .. N
      /\ Loop(p) \in 1 .. N /\ Yield(p) \in 1 .. N /\ Loop(p) < Yield(p)
  BY ProgramFacts
<1>2. DefIdx(p, v) \in 1 .. N /\ (DefIdx(p, v) = Loop(p) <=> v \in Args(p) \cup Results(p))
  BY NodeFacts
<1> HIDE DEF N
<1>3. ASSUME NEW k \in Uses(p, v) PROVE k \in 1 .. N /\ Visible(p, v, k)
  <2>1. PICK o \in DOMAIN p.code[k].ins : p.code[k].ins[o].val = v
    BY DEF Uses
  <2>2. k \in DOMAIN p.code
    BY DEF Uses
  <2>3. Visible(p, p.code[k].ins[o].val, k)
    BY <2>1, <2>2, OperationFacts DEF WellFormedOp
  <2> QED
    BY <1>1, <2>1, <2>2, <2>3
<1>4. ASSUME NEW k \in Uses(p, v) PROVE DefIdx(p, v) < k
  BY <1>1, <1>2, <1>3 DEF Visible, InLoop
<1>5. CASE Uses(p, v) = {}
  BY <1>1, <1>2, <1>5 DEF Death, N
<1>6. CASE Uses(p, v) # {}
  <2>1. Uses(p, v) \subseteq 0 .. N
    BY <1>1, <1>3
  <2>2. Max(Uses(p, v)) \in Uses(p, v) /\ \A k \in Uses(p, v) : k <= Max(Uses(p, v))
    BY <1>1, <1>6, <2>1, MaxOf
  <2>3. Death(p, v) = Max(Uses(p, v))
    BY <1>6 DEF Death
  <2>4. Death(p, v) \in 1 .. N /\ DefIdx(p, v) < Death(p, v)
    BY <1>3, <1>4, <2>2, <2>3
  <2>5. \A k \in Uses(p, v) : DefIdx(p, v) <= k
    BY <1>1, <1>2, <1>3, <1>4
  <2>6. DefIdx(p, v) <= Death(p, v)
    BY <1>1, <1>2, <2>4
  <2> QED
    BY <1>3, <1>6, <2>2, <2>3, <2>4, <2>5, <2>6 DEF N
<1> QED
  BY <1>5, <1>6

(* Until when a value is needed. *)
LEMMA LiveFacts ==
  ASSUME NEW p \in Programs, NEW v \in Values(p)
  PROVE  /\ LiveUntil(p, v) \in 1 .. Len(p.code) /\ LiveUntil(p, v) \in {Death(p, v), Yield(p)}
         /\ DefIdx(p, v) <= Death(p, v) /\ Death(p, v) <= LiveUntil(p, v)
         /\ v \in Args(p) => LiveUntil(p, v) = Death(p, v) /\ Death(p, v) <= Yield(p)
         /\ v \in Results(p) => /\ LiveUntil(p, v) = Death(p, v)
                                /\ Death(p, v) = Loop(p) \/ Yield(p) < Death(p, v)
                                /\ Uses(p, v) # {} => Yield(p) < Death(p, v)
         /\ InLoop(p, DefIdx(p, v)) => LiveUntil(p, v) = Death(p, v) /\ Death(p, v) <= Yield(p)
         /\ (\A k \in Uses(p, v) : ~ InLoop(p, k)) => LiveUntil(p, v) = Death(p, v)
<1> DEFINE N == Len(p.code)
<1>1. /\ N \in Nat /\ Loop(p) \in 1 .. N /\ Yield(p) \in 1 .. N /\ Loop(p) < Yield(p)
  BY ProgramFacts
<1>2. /\ \A k \in Uses(p, v) : k \in 1 .. N /\ Visible(p, v, k)
      /\ Death(p, v) \in 1 .. N /\ DefIdx(p, v) <= Death(p, v)
      /\ Uses(p, v) # {} => Death(p, v) \in Uses(p, v)
      /\ Uses(p, v) = {} => Death(p, v) = DefIdx(p, v)
  BY UseFacts
<1>3. /\ DefIdx(p, v) \in 1 .. N /\ (DefIdx(p, v) = Loop(p) <=> v \in Args(p) \cup Results(p))
      /\ Args(p) \cap Results(p) = {}
  BY NodeFacts
<1> HIDE DEF N
<1>4. Uses(p, v) # {} => Visible(p, v, Death(p, v))
  BY <1>2
<1>5. /\ LiveUntil(p, v) \in 1 .. N /\ LiveUntil(p, v) \in {Death(p, v), Yield(p)}
      /\ Death(p, v) <= LiveUntil(p, v)
  BY <1>1, <1>2 DEF LiveUntil, InLoop
<1>6. v \in Args(p) => LiveUntil(p, v) = Death(p, v) /\ Death(p, v) <= Yield(p)
  BY <1>1, <1>2, <1>3, <1>4 DEF LiveUntil, InLoop, Visible
<1>7. v \in Results(p) => /\ LiveUntil(p, v) = Death(p, v)
                          /\ Death(p, v) = Loop(p) \/ Yield(p) < Death(p, v)
                          /\ Uses(p, v) # {} => Yield(p) < Death(p, v)
  BY <1>1, <1>2, <1>3, <1>4 DEF LiveUntil, InLoop, Visible
<1>8. InLoop(p, DefIdx(p, v)) => LiveUntil(p, v) = Death(p, v) /\ Death(p, v) <= Yield(p)
  BY <1>1, <1>2, <1>3, <1>4 DEF LiveUntil, InLoop, Visible
<1>9. (\A k \in Uses(p, v) : ~ InLoop(p, k)) => LiveUntil(p, v) = Death(p, v)
  BY <1>2 DEF LiveUntil
<1> QED
  BY <1>2, <1>5, <1>6, <1>7, <1>8, <1>9 DEF N

(* Operands are values; what a DMA handles is one. *)
LEMMA OperandFacts ==
  ASSUME NEW p \in Programs
  PROVE  /\ \A k \in DOMAIN p.code : \A o \in DOMAIN p.code[k].ins :
              /\ p.code[k].ins[o].val \in Values(p) /\ k \in Uses(p, p.code[k].ins[o].val)
         /\ \A k \in DOMAIN p.code :
              /\ Len(p.code[k].ins) \in Nat
              /\ DOMAIN p.code[k].ins = 1 .. Len(p.code[k].ins)
         /\ Handoffs(p) \subseteq Values(p) /\ p.special \subseteq Values(p)
<1>1. WellFormed(p)
  BY ProgramFacts
<1>2. ASSUME NEW k \in DOMAIN p.code
      PROVE  /\ Len(p.code[k].ins) \in Nat
             /\ DOMAIN p.code[k].ins = 1 .. Len(p.code[k].ins)
  <2>1. p.code[k].ins \in Seq(ToSet(p.code[k].ins))
    BY OperationFacts DEF WellFormedOp
  <2> QED
    BY <2>1, LenProperties
<1>3. ASSUME NEW k \in DOMAIN p.code, NEW o \in DOMAIN p.code[k].ins
      PROVE  p.code[k].ins[o].val \in Values(p) /\ k \in Uses(p, p.code[k].ins[o].val)
  <2>1. p.code[k] \in ToSet(p.code) /\ p.code[k].ins[o] \in ToSet(p.code[k].ins)
    BY DEF ToSet
  <2>2. p.code[k].ins[o].val \in UNION {{in.val : in \in ToSet(op.ins)} : op \in ToSet(p.code)}
    BY <2>1
  <2>3. p.code[k].ins[o].val \in Values(p)
    BY <1>1, <2>2 DEF WellFormed
  <2> QED
    BY <2>3 DEF Uses
<1>4. ASSUME NEW k \in DOMAIN p.code, p.code[k].kind = "load" PROVE p.code[k].res \in Values(p)
  BY <1>4, NodeFacts, OperationFacts DEF WellFormedOp
<1>5. ASSUME NEW k \in DOMAIN p.code, p.code[k].kind = "store"
      PROVE  p.code[k].ins[1].val \in Values(p)
  <2>1. p.code[k].ins # <<>>
    BY <1>5, OperationFacts DEF WellFormedOp
  <2>2. 1 \in DOMAIN p.code[k].ins
    <3>1. p.code[k].ins \in Seq(ToSet(p.code[k].ins))
      BY OperationFacts DEF WellFormedOp
    <3> QED
      BY <2>1, <3>1
  <2> QED
    BY <1>3, <2>2
<1>6. Handoffs(p) \subseteq Values(p)
  BY <1>4, <1>5 DEF Handoffs
<1>7. p.special \subseteq Values(p)
  BY <1>1 DEF WellFormed
<1> QED
  BY <1>2, <1>3, <1>6, <1>7

(* One VB for each value of S, in the order of their births. *)
LEMMA SingletonsFacts ==
  ASSUME prog \in Programs, NEW type, NEW S \in SUBSET Values(prog), NEW to, NEW excl
  PROVE  LET new == Singletons(type, S, to, excl)
             vb(v) == VBRec(type, <<v>>, DefIdx(prog, v), to[v], excl)
         IN  \E g : /\ new \in Seq({vb(v) : v \in S}) /\ g \in [DOMAIN new -> S]
                    /\ \A i \in DOMAIN new : new[i] = vb(g[i])
                    /\ \A v \in S : \E i \in DOMAIN new : g[i] = v
                    /\ \A i, j \in DOMAIN new : g[i] = g[j] => i = j
                    /\ \A i, j \in DOMAIN new : i < j => DefIdx(prog, g[i]) <= DefIdx(prog, g[j])
<1> DEFINE nodes == Nodes(prog)
           vb(v) == VBRec(type, <<v>>, DefIdx(prog, v), to[v], excl)
           single(v) == IF v \in S THEN <<vb(v)>> ELSE <<>>
           parts == [i \in DOMAIN nodes |-> single(nodes[i])]
           new == Singletons(type, S, to, excl)
           B == {vb(v) : v \in S}
           n == Len(nodes)
           D == 1 .. Len(new)
<1>1. /\ n \in Nat /\ DOMAIN nodes = 1 .. n /\ IsInjective(nodes)
      /\ Values(prog) = {nodes[i] : i \in 1 .. n}
      /\ \A i, j \in 1 .. n : i < j => DefIdx(prog, nodes[i]) <= DefIdx(prog, nodes[j])
  <2>1. nodes \in Seq(Values(prog)) /\ IsInjective(nodes)
    BY NodeFacts
  <2>2. n \in Nat /\ DOMAIN nodes = 1 .. n
    BY <2>1, LenProperties
  <2> QED
    BY <2>1, <2>2, NodeFacts DEF Values, ToSet
<1>2. \A v : single(v) \in Seq(B) /\ (v \in S => single(v) = <<vb(v)>>) /\ (v \notin S => single(v) = <<>>)
  <2> SUFFICES ASSUME NEW v PROVE single(v) \in Seq(B)
    OBVIOUS
  <2>1. v \in S => vb(v) \in B
    OBVIOUS
  <2> HIDE DEF B, vb
  <2> QED
    BY <2>1
<1>3. new = FlattenSeq(parts)
  BY DEF Singletons
<1> HIDE DEF nodes, new, B, single, vb, n
<1>4. parts \in Seq(Seq(B)) /\ Len(parts) = n /\ \A i \in 1 .. n : parts[i] = single(nodes[i])
  <2>1. parts \in [1 .. n -> Seq(B)]
    BY <1>1, <1>2
  <2>2. parts \in Seq(Seq(B)) /\ DOMAIN parts = 1 .. n
    BY <1>1, <2>1
  <2> QED
    BY <1>1, <2>2, LenProperties
<1> HIDE DEF parts
<1>5. new \in Seq(B) /\ \E h, o : Positions(new, parts, n, h, o)
  BY <1>3, <1>4, FlattenSeqPositions
<1>6. PICK h, o : Positions(new, parts, n, h, o)
  BY <1>5
<1>7. /\ h \in [D -> 1 .. n] /\ o \in [D -> Nat]
      /\ \A i \in D : o[i] \in 1 .. Len(parts[h[i]]) /\ new[i] = parts[h[i]][o[i]]
      /\ \A i, j \in D : i < j => h[i] <= h[j]
      /\ \A i, j \in D : h[i] = h[j] /\ o[i] = o[j] => i = j
      /\ \A k \in 1 .. n : \A q \in 1 .. Len(parts[k]) : \E i \in D : h[i] = k /\ o[i] = q
  BY <1>6 DEF Positions
<1>8. DOMAIN new = D
  BY <1>5, LenProperties
<1> HIDE DEF D
<1> DEFINE g == [i \in D |-> nodes[h[i]]]
<1>9. ASSUME NEW i \in D
      PROVE  /\ nodes[h[i]] \in S /\ o[i] = 1 /\ new[i] = vb(nodes[h[i]]) /\ h[i] \in 1 .. n
  <2>1. h[i] \in 1 .. n /\ parts[h[i]] = single(nodes[h[i]])
    BY <1>4, <1>7
  <2>2. CASE nodes[h[i]] \in S
    <3>1. parts[h[i]] = <<vb(nodes[h[i]])>>
      BY <1>2, <2>1, <2>2
    <3>2. Len(parts[h[i]]) = 1 /\ parts[h[i]][1] = vb(nodes[h[i]])
      BY <3>1
    <3>3. o[i] = 1
      BY <1>7, <3>2
    <3> QED
      BY <1>7, <2>1, <2>2, <3>2, <3>3
  <2>3. CASE nodes[h[i]] \notin S
    <3>1. Len(parts[h[i]]) = 0
      BY <1>2, <2>1, <2>3
    <3> QED
      BY <1>7, <3>1
  <2> QED
    BY <2>2, <2>3
<1>10. g \in [D -> S] /\ \A i \in D : new[i] = vb(g[i])
  BY <1>9
<1>11. ASSUME NEW v \in S PROVE \E i \in D : g[i] = v
  <2>1. PICK k \in 1 .. n : v = nodes[k]
    BY <1>1
  <2>2. 1 \in 1 .. Len(parts[k])
    <3>1. parts[k] = <<vb(v)>>
      BY <1>2, <1>4, <2>1
    <3>2. Len(parts[k]) = 1
      BY <3>1
    <3> QED
      BY <3>2
  <2>3. PICK i \in D : h[i] = k /\ o[i] = 1
    BY <1>7, <2>2
  <2>4. g[i] = v
    BY <2>1, <2>3
  <2> QED
    BY <2>4
<1>12. ASSUME NEW i \in D, NEW j \in D, g[i] = g[j] PROVE i = j
  <2>1. h[i] = h[j]
    BY <1>1, <1>9, <1>12 DEF IsInjective
  <2> QED
    BY <1>7, <1>9, <2>1
<1>13. ASSUME NEW i \in D, NEW j \in D, i < j PROVE DefIdx(prog, g[i]) <= DefIdx(prog, g[j])
  <2>1. h[i] <= h[j] /\ h[i] \in 1 .. n /\ h[j] \in 1 .. n
    BY <1>7, <1>9, <1>13
  <2>2. CASE h[i] = h[j]
    <3>1. g[i] = g[j] /\ g[i] \in Values(prog)
      BY <1>10, <2>2
    <3>2. DefIdx(prog, g[i]) \in 1 .. Len(prog.code)
      BY <3>1, NodeFacts
    <3> QED
      BY <3>1, <3>2
  <2>3. CASE h[i] # h[j]
    BY <1>1, <2>1, <2>3
  <2> QED
    BY <2>2, <2>3
<1> HIDE DEF g
<1>14. \E f : /\ new \in Seq(B) /\ f \in [DOMAIN new -> S]
              /\ \A i \in DOMAIN new : new[i] = vb(f[i])
              /\ \A v \in S : \E i \in DOMAIN new : f[i] = v
              /\ \A i, j \in DOMAIN new : f[i] = f[j] => i = j
              /\ \A i, j \in DOMAIN new : i < j => DefIdx(prog, f[i]) <= DefIdx(prog, f[j])
  <2> WITNESS g
  <2> QED
    BY <1>5, <1>8, <1>10, <1>11, <1>12, <1>13
<1> QED
  BY <1>14 DEF B, vb, new

-----------------------------------------------------------------------------
(* New VBs. *)

LEMMA SpecialValues ==
  ASSUME prog \in Programs
  PROVE  Apart \subseteq Values(prog) /\ prog.special \subseteq Apart
BY OperandFacts DEF Apart

(* Values that are live from the same operation on are bound by the loop. *)
LEMMA SameLiveFrom ==
  ASSUME prog \in Programs, NEW u \in Values(prog), NEW v \in Values(prog), u # v,
         LiveFrom(u) = LiveFrom(v)
  PROVE  (u \in Results(prog) /\ v \in Results(prog)) \/ (u \in Args(prog) /\ v \in Args(prog))
<1>1. \A w \in Values(prog) : w \notin Args(prog) \cup Results(prog)
        => prog.code[DefIdx(prog, w)].res = w /\ DefIdx(prog, w) # Loop(prog)
  BY NodeFacts
<1>2. \A w \in Values(prog) : DefIdx(prog, w) # Yield(prog)
  <2> SUFFICES ASSUME NEW w \in Values(prog), DefIdx(prog, w) = Yield(prog) PROVE FALSE
    OBVIOUS
  <2>1. /\ Loop(prog) # Yield(prog) /\ prog.code[Yield(prog)].res = NoVal
        /\ NoVal \notin Values(prog)
    BY ProgramFacts DEF WellFormed
  <2>2. w \notin Args(prog) \cup Results(prog)
    BY <2>1, NodeFacts
  <2> QED
    BY <1>1, <2>1, <2>2
<1>3. \A w \in Args(prog) \cup Results(prog) : DefIdx(prog, w) = Loop(prog)
  BY NodeFacts
<1> QED
  BY <1>1, <1>2, <1>3 DEF LiveFrom

(* The VB that Singletons makes for v. *)
Single(type, v, to, excl) == VBRec(type, <<v>>, DefIdx(prog, v), to[v], excl)

LEMMA SingletonInv ==
  ASSUME prog \in Programs, NEW v \in Values(prog), NEW type \in {"Standard", "Eternal"},
         NEW to, to[v] \in 1 .. Len(prog.code), NEW excl \in BOOLEAN,
         DefIdx(prog, v) <= to[v],
         (type = "Eternal" /\ NothingOutlivesLoop(prog)) => LiveUntil(prog, v) <= to[v],
         (type = "Standard" /\ (v \notin prog.special \/ SpecialsLocal(prog)))
           => LiveUntil(prog, v) <= to[v],
         v \in prog.special => excl, v \in Args(prog) => v \in Apart,
         type = "Eternal" => Yield(prog) <= to[v],
         type = "Standard" => to[v] = Death(prog, v)
  PROVE  LET vb == Single(type, v, to, excl)
         IN  vb \in VBs(prog) /\ Members(vb) = {v} /\ VBInv(vb)
<1> DEFINE vb == Single(type, v, to, excl)
<1>1. DefIdx(prog, v) \in 1 .. Len(prog.code)
  BY NodeFacts
<1>2. <<v>> \in Seq(Values(prog)) /\ <<v>> # <<>> /\ IsInjective(<<v>>) /\ ToSet(<<v>>) = {v}
  BY DEF IsInjective, ToSet
<1>3. /\ vb.type = type /\ vb.members = <<v>> /\ vb.birth = DefIdx(prog, v)
      /\ vb.death = to[v] /\ vb.excl = excl
  BY DEF Single, VBRec
<1>4. vb \in VBs(prog)
  BY <1>1, <1>2 DEF Single, VBRec, VBs
<1> HIDE DEF vb
<1>5. Members(vb) = {v}
  BY <1>2, <1>3 DEF Members
<1>6. Promised(vb) => LiveUntil(prog, v) <= to[v]
  BY <1>3, <1>5 DEF Promised
<1>7. v \in Results(prog) => DefIdx(prog, v) = Loop(prog)
  BY NodeFacts
<1>8. VBInv(vb)
  BY <1>1, <1>2, <1>3, <1>5, <1>6, <1>7 DEF VBInv
<1> QED
  BY <1>4, <1>5, <1>8 DEF vb

(* VBs of values that had none join the others. *)
LEMMA Joined ==
  ASSUME prog \in Programs, NEW s, NEW new, Division(s), Division(new),
         MembersIn(s) \cap MembersIn(new) = {}
  PROVE  LET all == s \o new
         IN  /\ Division(all) /\ MembersIn(all) = MembersIn(s) \cup MembersIn(new)
             /\ \A i \in DOMAIN all :
                  \/ i \in DOMAIN s /\ all[i] = s[i]
                  \/ i > Len(s) /\ i - Len(s) \in DOMAIN new /\ all[i] = new[i - Len(s)]
<1> DEFINE R == VBs(prog)
           all == s \o new
           m == Len(s)
           n == Len(new)
<1>1. s \in Seq(R) /\ new \in Seq(R)
  BY DEF Division
<1> HIDE DEF R
<1>2. /\ m \in Nat /\ DOMAIN s = 1 .. m /\ n \in Nat /\ DOMAIN new = 1 .. n
  BY <1>1, LenProperties
<1>3. /\ all \in Seq(R) /\ Len(all) = m + n
      /\ \A i \in 1 .. m + n : all[i] = IF i <= m THEN s[i] ELSE new[i - m]
  BY <1>1, ConcatProperties
<1>4. DOMAIN all = 1 .. m + n
  BY <1>3, LenProperties
<1> HIDE DEF all, m, n
<1>5. ASSUME NEW i \in 1 .. m + n
      PROVE  \/ i \in 1 .. m /\ all[i] = s[i]
             \/ i > m /\ i - m \in 1 .. n /\ all[i] = new[i - m]
  <2>1. CASE i <= m
    BY <1>2, <1>3, <2>1
  <2>2. CASE ~ i <= m
    <3>1. i > m /\ i - m \in 1 .. n
      BY <1>2, <2>2
    <3> QED
      BY <1>3, <2>2, <3>1
  <2> QED
    BY <2>1, <2>2
<1>6. \A i \in 1 .. m : i \in 1 .. m + n /\ all[i] = s[i]
  BY <1>2, <1>3
<1>7. ASSUME NEW i \in 1 .. n PROVE m + i \in 1 .. m + n /\ all[m + i] = new[i]
  <2>1. m + i \in 1 .. m + n /\ ~ m + i <= m /\ (m + i) - m = i
    BY <1>2
  <2> QED
    BY <1>3, <2>1
<1>8. \A i \in 1 .. m : Members(s[i]) \subseteq MembersIn(s)
  BY <1>2 DEF MembersIn
<1>9. \A i \in 1 .. n : Members(new[i]) \subseteq MembersIn(new)
  BY <1>2 DEF MembersIn
<1>10. ASSUME NEW i \in 1 .. m + n, NEW j \in 1 .. m + n, i # j
       PROVE  Members(all[i]) \cap Members(all[j]) = {}
  <2>1. CASE i \in 1 .. m /\ all[i] = s[i] /\ j \in 1 .. m /\ all[j] = s[j]
    BY <1>2, <1>10, <2>1 DEF Division
  <2>2. CASE i \in 1 .. m /\ all[i] = s[i] /\ j > m /\ j - m \in 1 .. n /\ all[j] = new[j - m]
    BY <1>8, <1>9, <2>2
  <2>3. CASE j \in 1 .. m /\ all[j] = s[j] /\ i > m /\ i - m \in 1 .. n /\ all[i] = new[i - m]
    BY <1>8, <1>9, <2>3
  <2>4. CASE /\ i > m /\ i - m \in 1 .. n /\ all[i] = new[i - m]
             /\ j > m /\ j - m \in 1 .. n /\ all[j] = new[j - m]
    <3>1. i - m # j - m
      BY <1>2, <1>10
    <3> QED
      BY <1>2, <2>4, <3>1 DEF Division
  <2> QED
    BY <1>5, <2>1, <2>2, <2>3, <2>4
<1>11. \A i \in 1 .. m + n : VBInv(all[i])
  BY <1>2, <1>5 DEF Division
<1>12. Division(all)
  BY <1>3, <1>4, <1>10, <1>11 DEF Division, R
<1>13. MembersIn(all) = MembersIn(s) \cup MembersIn(new)
  <2>1. MembersIn(all) \subseteq MembersIn(s) \cup MembersIn(new)
    <3> SUFFICES ASSUME NEW i \in 1 .. m + n
                 PROVE  Members(all[i]) \subseteq MembersIn(s) \cup MembersIn(new)
      BY <1>4 DEF MembersIn
    <3> QED
      BY <1>5, <1>8, <1>9
  <2>2. MembersIn(s) \subseteq MembersIn(all)
    BY <1>2, <1>4, <1>6 DEF MembersIn
  <2>3. MembersIn(new) \subseteq MembersIn(all)
    <3> SUFFICES ASSUME NEW i \in 1 .. n PROVE Members(new[i]) \subseteq MembersIn(all)
      BY <1>2 DEF MembersIn
    <3> QED
      BY <1>4, <1>7 DEF MembersIn
  <2> QED
    BY <2>1, <2>2, <2>3
<1> QED
  BY <1>2, <1>4, <1>5, <1>12, <1>13 DEF all, m, n

(* One VB for each value of S has joined those of s. *)
Extended(all, s, type, S, to, excl) ==
  /\ Division(all) /\ MembersIn(all) = MembersIn(s) \cup S
  /\ \A i \in DOMAIN all :
       \/ i \in DOMAIN s /\ all[i] = s[i]
       \/ i > Len(s) /\ \E v \in S : all[i] = Single(type, v, to, excl)
  /\ \A i, j \in DOMAIN all : (Len(s) < i /\ i < j) => all[i].birth <= all[j].birth

LEMMA SingletonsJoin ==
  ASSUME prog \in Programs, NEW s, Division(s), NEW type,
         NEW S \in SUBSET (Values(prog) \ MembersIn(s)), NEW to, NEW excl,
         \A v \in S : LET vb == Single(type, v, to, excl)
                      IN  vb \in VBs(prog) /\ Members(vb) = {v} /\ VBInv(vb)
  PROVE  Extended(s \o Singletons(type, S, to, excl), s, type, S, to, excl)
<1> DEFINE all == s \o Singletons(type, S, to, excl)
<1> DEFINE vb(v) == Single(type, v, to, excl)
           new == Singletons(type, S, to, excl)
           B == {vb(v) : v \in S}
           R == VBs(prog)
<1>1. S \in SUBSET Values(prog)
  OBVIOUS
<1>2. \E g : /\ new \in Seq(B) /\ g \in [DOMAIN new -> S]
             /\ \A i \in DOMAIN new : new[i] = vb(g[i])
             /\ \A v \in S : \E i \in DOMAIN new : g[i] = v
             /\ \A i, j \in DOMAIN new : g[i] = g[j] => i = j
             /\ \A i, j \in DOMAIN new : i < j => DefIdx(prog, g[i]) <= DefIdx(prog, g[j])
  BY <1>1, SingletonsFacts DEF Single
<1>3. \A v \in S : vb(v) \in R /\ Members(vb(v)) = {v} /\ VBInv(vb(v)) /\ vb(v).birth = DefIdx(prog, v)
  BY DEF Single, VBRec
<1> HIDE DEF new, vb
<1>4. PICK g : /\ new \in Seq(B) /\ g \in [DOMAIN new -> S]
               /\ \A i \in DOMAIN new : new[i] = vb(g[i])
               /\ \A v \in S : \E i \in DOMAIN new : g[i] = v
               /\ \A i, j \in DOMAIN new : g[i] = g[j] => i = j
               /\ \A i, j \in DOMAIN new : i < j => DefIdx(prog, g[i]) <= DefIdx(prog, g[j])
  BY <1>2
<1>5. B \subseteq R
  BY <1>3
<1> HIDE DEF B, R
<1>6. new \in Seq(R)
  BY <1>4, <1>5, SeqMonotonic
<1>7. \A i \in DOMAIN new : g[i] \in S /\ Members(new[i]) = {g[i]} /\ VBInv(new[i])
  BY <1>3, <1>4
<1>8. Division(new)
  BY <1>4, <1>6, <1>7 DEF Division, R
<1>9. MembersIn(new) = S
  BY <1>4, <1>7 DEF MembersIn
<1>10. /\ Division(all) /\ MembersIn(all) = MembersIn(s) \cup S
       /\ \A i \in DOMAIN all :
            \/ i \in DOMAIN s /\ all[i] = s[i]
            \/ i > Len(s) /\ i - Len(s) \in DOMAIN new /\ all[i] = new[i - Len(s)]
  BY <1>8, <1>9, Joined DEF new
<1> HIDE DEF all
<1>11. /\ Len(s) \in Nat /\ DOMAIN s = 1 .. Len(s) /\ DOMAIN all \subseteq Nat
  <2>1. s \in Seq(R) /\ all \in Seq(R)
    BY <1>10 DEF Division, R
  <2> QED
    BY <2>1, LenProperties
<1>12. ASSUME NEW i \in DOMAIN all, ~ (i \in DOMAIN s /\ all[i] = s[i])
       PROVE  i > Len(s) /\ \E v \in S : all[i] = vb(v)
  BY <1>4, <1>7, <1>10, <1>12
<1>13. ASSUME NEW i \in DOMAIN all, NEW j \in DOMAIN all, Len(s) < i, i < j
       PROVE  all[i].birth <= all[j].birth
  <2> DEFINE k == i - Len(s)
             l == j - Len(s)
  <2>1. i \notin DOMAIN s /\ j \notin DOMAIN s /\ k < l
    BY <1>11, <1>13
  <2>2. k \in DOMAIN new /\ all[i] = new[k] /\ l \in DOMAIN new /\ all[j] = new[l]
    BY <1>10, <2>1
  <2> HIDE DEF k, l
  <2>3. all[i].birth = DefIdx(prog, g[k]) /\ all[j].birth = DefIdx(prog, g[l])
    BY <1>3, <1>4, <2>2
  <2> QED
    BY <1>4, <2>1, <2>2, <2>3
<1>14. \A i \in DOMAIN all :
         \/ i \in DOMAIN s /\ all[i] = s[i]
         \/ i > Len(s) /\ \E v \in S : all[i] = vb(v)
  BY <1>12
<1>15. \A i, j \in DOMAIN all : (Len(s) < i /\ i < j) => all[i].birth <= all[j].birth
  BY <1>13
<1> QED
  BY <1>10, <1>14, <1>15 DEF Extended, vb, all

(* The invariant speaks of the VBs of the next state as of any others. *)
LEMMA Carried ==
  ASSUME prog' = prog, NEW s, vbs' = s
  PROVE  /\ Division(s) => Division(vbs)'
         /\ Ordered(s) => Ordered(vbs)'
         /\ MembersIn(vbs)' = MembersIn(s)
<1>1. \A vb : Members(vb)' = Members(vb) /\ VBInv(vb)' = VBInv(vb) /\ Shareable(vb)' = Shareable(vb)
  BY DEF VBInv, Promised, Apart, TakesTurns, LiveFrom, Members, Shareable
<1>2. Division(s) => Division(vbs)'
  BY <1>1 DEF Division
<1>3. Ordered(s) => Ordered(vbs)'
  BY <1>1 DEF Ordered
<1>4. MembersIn(vbs)' = MembersIn(s)
  BY <1>1 DEF MembersIn
<1> QED
  BY <1>2, <1>3, <1>4

-----------------------------------------------------------------------------
(* The phases keep the invariant. *)

(* Nothing coloured yet. *)
LEMMA StillFresh ==
  ASSUME AInv, stage # "color", UNCHANGED coloring, stage' # "color"
  PROVE  Colored'
BY DEF AInv, Colored, coloring, bucket

LEMMA SpecialInv ==
  ASSUME AInv, Special
  PROVE  AInv'
<1>0. PICK yes, all : /\ yes \in BOOLEAN /\ yes /\ yes = TRUE
                      /\ all = vbs \o Singletons("Standard", prog.special, Deaths, yes)
  OBVIOUS
<1>1. /\ prog \in Programs /\ stage = "special" /\ stage' = "phi" /\ vbs' = all
      /\ prog' = prog /\ cursor' = cursor /\ cursor \in Nat \ {0} /\ UNCHANGED coloring
  BY <1>0 DEF AInv, Special
<1>2. vbs = <<>> /\ cursor = 1 /\ Division(vbs)
  BY <1>1 DEF AInv, MappedSoFar
<1>3. MembersIn(vbs) = {} /\ Len(vbs) = 0 /\ DOMAIN vbs = {}
  BY <1>2 DEF MembersIn
<1>4. prog.special \subseteq Values(prog) /\ prog.special \subseteq Apart
  BY <1>1, SpecialValues
<1>5. ASSUME NEW v \in prog.special
      PROVE  LET vb == Single("Standard", v, Deaths, yes)
             IN  vb \in VBs(prog) /\ Members(vb) = {v} /\ VBInv(vb)
  <2>1. v \in Values(prog) /\ v \in Apart /\ Deaths[v] = Death(prog, v)
    BY <1>4 DEF Deaths
  <2>2. Death(prog, v) \in 1 .. Len(prog.code) /\ DefIdx(prog, v) <= Death(prog, v)
    BY <1>1, <2>1, UseFacts
  <2>3. SpecialsLocal(prog) => LiveUntil(prog, v) <= Death(prog, v)
    BY <2>2 DEF SpecialsLocal, LiveUntil
  <2> QED
    BY <1>0, <1>1, <2>1, <2>2, <2>3, SingletonInv
<1>6. prog.special \in SUBSET (Values(prog) \ MembersIn(vbs))
  BY <1>3, <1>4
<1>7. Extended(vbs \o Singletons("Standard", prog.special, Deaths, yes),
               vbs, "Standard", prog.special, Deaths, yes)
  BY <1>0, <1>1, <1>2, <1>5, <1>6, SingletonsJoin
<1>7a. /\ Division(all) /\ MembersIn(all) = MembersIn(vbs) \cup prog.special
      /\ \A i \in DOMAIN all :
           \/ i \in DOMAIN vbs /\ all[i] = vbs[i]
           \/ i > Len(vbs) /\ \E v \in prog.special :
                all[i] = Single("Standard", v, Deaths, yes)
  BY <1>0, <1>7 DEF Extended
<1>8. ASSUME NEW i \in DOMAIN all PROVE ~ Shareable(all[i])
  <2>1. PICK v \in prog.special : all[i] = Single("Standard", v, Deaths, yes)
    BY <1>3, <1>7a
  <2>2. all[i].excl = yes
    BY <2>1 DEF Single, VBRec
  <2>3. all[i].excl
    BY <1>0, <2>2
  <2> QED
    BY <2>3 DEF Shareable
<1>9. Ordered(all)
  BY <1>8 DEF Ordered
<1>11. Division(vbs)' /\ Ordered(vbs)' /\ MembersIn(vbs)' = MembersIn(all)
  BY <1>1, <1>7a, <1>9, Carried
<1>12. MappedSoFar'
  <2>1. prog.special \subseteq MembersIn(all)
    BY <1>7a
  <2>2. \A i \in DOMAIN prog.phis : ~ i < cursor
    BY <1>1, <1>2, ProgramFacts
  <2>3. \A i \in DOMAIN vbs' : ~ Shareable(vbs[i])'
    BY <1>1, <1>8 DEF Shareable
  <2> QED
    BY <1>1, <1>11, <2>1, <2>2, <2>3 DEF MappedSoFar
<1>13. Colored'
  BY <1>1, StillFresh
<1> QED
  BY <1>1, <1>11, <1>12, <1>13 DEF AInv

LEMMA PhiDoneInv ==
  ASSUME AInv, PhiDone
  PROVE  AInv'
<1>1. /\ prog \in Programs /\ stage = "phi" /\ stage' = "eternal" /\ vbs' = vbs
      /\ prog' = prog /\ cursor' = cursor /\ cursor \in Nat \ {0} /\ UNCHANGED coloring
      /\ cursor \notin DOMAIN prog.phis
  BY DEF AInv, PhiDone
<1>2. Division(vbs)' /\ Ordered(vbs)' /\ MembersIn(vbs)' = MembersIn(vbs)
  BY <1>1, Carried DEF AInv
<1>3. MappedSoFar'
  <2>1. \A i \in DOMAIN prog.phis : i < cursor
    BY <1>1, ProgramFacts
  <2>2. \A i \in DOMAIN prog.phis : prog.phis[i].arg \in MembersIn(vbs) \cup Apart
    BY <1>1, <2>1 DEF AInv, MappedSoFar
  <2>3. prog.special \subseteq MembersIn(vbs) /\ \A i \in DOMAIN vbs : ~ Shareable(vbs[i])
    BY <1>1 DEF AInv, MappedSoFar
  <2>4. Apart' = Apart /\ \A i \in DOMAIN vbs' : ~ Shareable(vbs[i])'
    BY <1>1, <2>3 DEF Apart, Shareable
  <2> QED
    BY <1>1, <1>2, <2>2, <2>3, <2>4 DEF MappedSoFar
<1>4. Colored'
  BY <1>1, StillFresh
<1> QED
  BY <1>1, <1>2, <1>3, <1>4 DEF AInv

LEMMA ArgsMapped ==
  ASSUME AInv, stage \notin {"special", "phi"}
  PROVE  Args(prog) \subseteq MembersIn(vbs) \cup Apart
BY DEF AInv, MappedSoFar, Args

LEMMA EternalInv ==
  ASSUME AInv, Eternal
  PROVE  AInv'
<1> DEFINE S == {v \in Values(prog) \ Mapped :
                   /\ ~ InLoop(prog, DefIdx(prog, v))
                   /\ \E k \in Uses(prog, v) : InLoop(prog, k)}
           to == [v \in S |-> Yield(prog)]
<1>0. PICK no, all : /\ no \in BOOLEAN /\ ~ no /\ no = FALSE
                     /\ all = vbs \o Singletons("Eternal", S, to, no)
  OBVIOUS
<1>1. /\ prog \in Programs /\ stage = "eternal" /\ stage' = "standard" /\ vbs' = all
      /\ prog' = prog /\ cursor' = cursor /\ cursor \in Nat \ {0} /\ UNCHANGED coloring
  BY <1>0 DEF AInv, Eternal
<1>2. /\ Division(vbs) /\ Args(prog) \subseteq MembersIn(vbs) \cup Apart
      /\ prog.special \subseteq MembersIn(vbs) /\ \A i \in DOMAIN vbs : ~ Shareable(vbs[i])
      /\ \A i \in DOMAIN prog.phis : prog.phis[i].arg \in MembersIn(vbs) \cup Apart
  BY <1>1, ArgsMapped DEF AInv, MappedSoFar
<1>3. /\ Len(prog.code) \in Nat /\ Loop(prog) \in 1 .. Len(prog.code)
      /\ Yield(prog) \in 1 .. Len(prog.code) /\ Loop(prog) < Yield(prog)
  BY <1>1, ProgramFacts
<1>4. Mapped = MembersIn(vbs)
  BY DEF Mapped, MembersIn
<1>5. ASSUME NEW v \in S
      PROVE  LET vb == Single("Eternal", v, to, no)
             IN  vb \in VBs(prog) /\ Members(vb) = {v} /\ VBInv(vb)
  <2>1. /\ v \in Values(prog) /\ v \notin MembersIn(vbs) /\ to[v] = Yield(prog)
        /\ ~ InLoop(prog, DefIdx(prog, v))
    BY <1>4
  <2>2. PICK k \in Uses(prog, v) : InLoop(prog, k)
    OBVIOUS
  <2>3. /\ k \in 1 .. Len(prog.code) /\ Visible(prog, v, k) /\ DefIdx(prog, v) <= k
        /\ DefIdx(prog, v) \in 1 .. Len(prog.code)
        /\ Death(prog, v) \in 1 .. Len(prog.code)
    BY <1>1, <2>1, UseFacts, NodeFacts
  <2>4. DefIdx(prog, v) <= Yield(prog)
    BY <1>3, <2>2, <2>3 DEF InLoop
  <2>5. v \notin Results(prog)
    BY <1>3, <2>2, <2>3 DEF Visible, InLoop
  <2>6. NothingOutlivesLoop(prog) => LiveUntil(prog, v) <= Yield(prog)
    <3>1. /\ LiveUntil(prog, v) \in {Death(prog, v), Yield(prog)}
          /\ v \in Args(prog) => LiveUntil(prog, v) = Death(prog, v) /\ Death(prog, v) <= Yield(prog)
      BY <1>1, <2>1, LiveFacts
    <3>2. NothingOutlivesLoop(prog) /\ v \notin Args(prog) => Death(prog, v) <= Yield(prog)
      BY <2>1, <2>2, <2>5 DEF NothingOutlivesLoop
    <3> QED
      BY <1>3, <3>1, <3>2
  <2>7. v \notin prog.special /\ (v \in Args(prog) => v \in Apart)
    BY <1>2, <2>1
  <2> HIDE DEF S, to
  <2>8. no \in BOOLEAN /\ to[v] \in 1 .. Len(prog.code) /\ DefIdx(prog, v) <= to[v]
    BY <1>0, <1>3, <2>1, <2>4
  <2> QED
    BY <1>0, <1>1, <2>1, <2>6, <2>7, <2>8, SingletonInv
<1>6. S \in SUBSET (Values(prog) \ MembersIn(vbs))
  BY <1>4
<1> HIDE DEF S, to
<1>7. Extended(vbs \o Singletons("Eternal", S, to, no), vbs, "Eternal", S, to, no)
  BY <1>0, <1>1, <1>2, <1>5, <1>6, SingletonsJoin
<1>7a. /\ Division(all) /\ MembersIn(all) = MembersIn(vbs) \cup S
      /\ \A i \in DOMAIN all :
           \/ i \in DOMAIN vbs /\ all[i] = vbs[i]
           \/ i > Len(vbs) /\ \E v \in S :
                all[i] = Single("Eternal", v, to, no)
  BY <1>0, <1>7 DEF Extended
<1>8. \A i \in DOMAIN all : ~ Shareable(all[i])
  BY <1>2, <1>7a DEF Shareable, Single, VBRec
<1>9. Ordered(all)
  BY <1>8 DEF Ordered
<1>11. Division(vbs)' /\ Ordered(vbs)' /\ MembersIn(vbs)' = MembersIn(all)
  BY <1>1, <1>7a, <1>9, Carried
<1>12. MappedSoFar'
  <2>1. /\ prog.special \subseteq MembersIn(all)
        /\ \A i \in DOMAIN prog.phis : prog.phis[i].arg \in MembersIn(all) \cup Apart
    BY <1>2, <1>7a
  <2>2. \A v \in Values(prog) \ MembersIn(all) :
          InLoop(prog, DefIdx(prog, v)) \/ \A k \in Uses(prog, v) : ~ InLoop(prog, k)
    BY <1>4, <1>7a DEF S
  <2>3. Apart' = Apart /\ \A i \in DOMAIN vbs' : ~ Shareable(vbs[i])'
    BY <1>1, <1>8 DEF Apart, Shareable
  <2> QED
    BY <1>1, <1>11, <2>1, <2>2, <2>3 DEF MappedSoFar
<1>13. Colored'
  BY <1>1, StillFresh
<1> QED
  BY <1>1, <1>11, <1>12, <1>13 DEF AInv

(* Marking a VB exclusive. *)
Marked(vb) == [vb EXCEPT !.excl = @ \/ Members(vb) \cap Handoffs(prog) # {}]

LEMMA MarkedInv ==
  ASSUME NEW vb \in VBs(prog)
  PROVE  /\ Marked(vb) \in VBs(prog) /\ Members(Marked(vb)) = Members(vb)
         /\ Marked(vb).type = vb.type /\ Marked(vb).birth = vb.birth
         /\ vb.excl => Marked(vb).excl
         /\ Members(vb) \cap Handoffs(prog) # {} => Marked(vb).excl
         /\ VBInv(vb) => VBInv(Marked(vb))
<1> DEFINE m == Marked(vb)
<1>1. /\ m \in VBs(prog) /\ m.type = vb.type /\ m.members = vb.members
      /\ m.birth = vb.birth /\ m.death = vb.death
  BY DEF Marked, VBs
<1>2. m.excl = (vb.excl \/ Members(vb) \cap Handoffs(prog) # {})
  BY DEF Marked, VBs
<1>3. /\ vb.excl => m.excl
      /\ Members(vb) \cap Handoffs(prog) # {} => m.excl
  BY <1>2
<1> HIDE DEF m
<1>4. Members(m) = Members(vb)
  BY <1>1 DEF Members
<1>5. Promised(m) => Promised(vb)
  BY <1>1, <1>4 DEF Promised
<1>6. VBInv(vb) => VBInv(m)
  BY <1>1, <1>3, <1>4, <1>5 DEF VBInv
<1> QED
  BY <1>1, <1>3, <1>4, <1>6 DEF m

LEMMA StandardInv ==
  ASSUME AInv, Standard
  PROVE  AInv'
<1> DEFINE S == Values(prog) \ MembersIn(vbs)
<1>0. PICK no, all, s :
        /\ no \in BOOLEAN /\ ~ no /\ no = FALSE
        /\ all = vbs \o Singletons("Standard", S, Deaths, no)
        /\ s = [i \in DOMAIN all |-> Marked(all[i])]
  OBVIOUS
<1>1. /\ prog \in Programs /\ stage = "standard" /\ stage' = "relay"
      /\ prog' = prog /\ cursor' = cursor /\ cursor \in Nat \ {0} /\ UNCHANGED coloring
      /\ vbs' = s
  <2>1. Mapped = MembersIn(vbs)
    BY DEF Mapped, MembersIn
  <2>2. vbs' = s
    BY <1>0, <2>1 DEF Standard, Marked
  <2> QED
    BY <2>2 DEF AInv, Standard
<1>2. /\ Division(vbs) /\ Args(prog) \subseteq MembersIn(vbs) \cup Apart
      /\ prog.special \subseteq MembersIn(vbs) /\ \A i \in DOMAIN vbs : ~ Shareable(vbs[i])
      /\ \A i \in DOMAIN prog.phis : prog.phis[i].arg \in MembersIn(vbs) \cup Apart
      /\ \A v \in S : InLoop(prog, DefIdx(prog, v)) \/ \A k \in Uses(prog, v) : ~ InLoop(prog, k)
  BY <1>1, ArgsMapped DEF AInv, MappedSoFar
<1>5. ASSUME NEW v \in S
      PROVE  LET vb == Single("Standard", v, Deaths, no)
             IN  vb \in VBs(prog) /\ Members(vb) = {v} /\ VBInv(vb)
  <2>1. /\ v \in Values(prog) /\ v \notin MembersIn(vbs) /\ Deaths[v] = Death(prog, v)
    BY DEF Deaths
  <2>2. Death(prog, v) \in 1 .. Len(prog.code) /\ DefIdx(prog, v) <= Death(prog, v)
    BY <1>1, <2>1, UseFacts
  <2>3. LiveUntil(prog, v) = Death(prog, v)
    BY <1>1, <1>2, <2>1, LiveFacts
  <2>4. v \notin prog.special /\ (v \in Args(prog) => v \in Apart)
    BY <1>2, <2>1
  <2> HIDE DEF S
  <2>5. no \in BOOLEAN /\ LiveUntil(prog, v) <= Deaths[v]
    BY <1>0, <2>1, <2>2, <2>3
  <2> QED
    BY <1>1, <2>1, <2>2, <2>4, <2>5, SingletonInv
<1>6. S \in SUBSET (Values(prog) \ MembersIn(vbs)) /\ MembersIn(vbs) \cup S = Values(prog)
  <2>1. MembersIn(vbs) \subseteq Values(prog)
    <3> SUFFICES ASSUME NEW i \in DOMAIN vbs, NEW v \in Members(vbs[i]) PROVE v \in Values(prog)
      BY DEF MembersIn
    <3>1. vbs[i] \in VBs(prog)
      BY <1>2, ElementOfSeq DEF Division
    <3> QED
      BY <3>1 DEF VBs, Members, ToSet
  <2> QED
    BY <2>1
<1>7. Extended(vbs \o Singletons("Standard", S, Deaths, no), vbs, "Standard", S, Deaths, no)
  BY <1>0, <1>1, <1>2, <1>5, <1>6, SingletonsJoin
<1> HIDE DEF S
<1>8. /\ Division(all) /\ MembersIn(all) = Values(prog)
      /\ \A i \in DOMAIN all :
           \/ i \in DOMAIN vbs /\ all[i] = vbs[i]
           \/ i > Len(vbs) /\ \E v \in S : all[i] = Single("Standard", v, Deaths, no)
      /\ \A i, j \in DOMAIN all : (Len(vbs) < i /\ i < j) => all[i].birth <= all[j].birth
  BY <1>0, <1>6, <1>7 DEF Extended
<1>9. /\ all \in Seq(VBs(prog)) /\ Len(all) \in Nat /\ DOMAIN all = 1 .. Len(all)
      /\ vbs \in Seq(VBs(prog)) /\ Len(vbs) \in Nat /\ DOMAIN vbs = 1 .. Len(vbs)
  BY <1>2, <1>8, LenProperties DEF Division
<1>10. ASSUME NEW i \in DOMAIN all
       PROVE  /\ all[i] \in VBs(prog) /\ VBInv(all[i]) /\ s[i] = Marked(all[i])
              /\ s[i] \in VBs(prog) /\ Members(s[i]) = Members(all[i])
              /\ s[i].type = all[i].type /\ s[i].birth = all[i].birth
              /\ all[i].excl => s[i].excl
              /\ Members(all[i]) \cap Handoffs(prog) # {} => s[i].excl
              /\ VBInv(s[i])
  <2>1. all[i] \in VBs(prog) /\ VBInv(all[i])
    BY <1>8, <1>9 DEF Division
  <2>2. s[i] = Marked(all[i])
    BY <1>0
  <2> QED
    BY <2>1, <2>2, MarkedInv
<1>11. s \in Seq(VBs(prog)) /\ DOMAIN s = DOMAIN all
  <2>1. s \in [1 .. Len(all) -> VBs(prog)]
    BY <1>0, <1>9, <1>10
  <2> QED
    BY <1>9, <2>1
<1>12. Division(s)
  BY <1>8, <1>10, <1>11 DEF Division
<1>13. MembersIn(s) = Values(prog)
  BY <1>8, <1>10, <1>11 DEF MembersIn
<1>14. ASSUME NEW i \in DOMAIN s, NEW j \in DOMAIN s, i < j, Shareable(s[i])
       PROVE  s[j].type = "Standard" /\ s[i].birth <= s[j].birth
  <2>1. ~ (i \in DOMAIN vbs /\ all[i] = vbs[i])
    BY <1>2, <1>10, <1>11, <1>14 DEF Shareable
  <2>2. i > Len(vbs) /\ j > Len(vbs)
    BY <1>8, <1>9, <1>11, <1>14, <2>1
  <2>3. PICK v \in S : all[j] = Single("Standard", v, Deaths, no)
    BY <1>8, <1>9, <1>11, <2>2
  <2>4. all[j].type = "Standard"
    BY <2>3 DEF Single, VBRec
  <2> QED
    BY <1>8, <1>10, <1>11, <1>14, <2>2, <2>4
<1>15. Ordered(s)
  BY <1>14 DEF Ordered
<1>16. Division(vbs)' /\ Ordered(vbs)' /\ MembersIn(vbs)' = MembersIn(s)
  BY <1>1, <1>12, <1>15, Carried
<1>17. ASSUME NEW i \in DOMAIN s, Members(s[i]) \cap Apart # {} PROVE s[i].excl
  BY <1>10, <1>11, <1>17 DEF VBInv, Apart
<1>18. MappedSoFar'
  <2>1. Args(prog) \subseteq Values(prog) /\ prog.special \subseteq Values(prog)
    BY <1>1, SpecialValues, NodeFacts
  <2>2. \A i \in DOMAIN prog.phis : prog.phis[i].arg \in Values(prog)
    BY <2>1 DEF Args
  <2>3. /\ Apart' = Apart /\ Values(prog)' = Values(prog)
        /\ \A i \in DOMAIN s : Members(s[i])' = Members(s[i])
    BY <1>1 DEF Apart, Members
  <2>4. \A i \in DOMAIN vbs' : (Members(vbs[i]) \cap Apart # {} => vbs[i].excl)'
    BY <1>1, <1>17 DEF Apart, Members
  <2> QED
    BY <1>1, <1>13, <1>16, <2>1, <2>2, <2>3, <2>4 DEF MappedSoFar
<1>19. Colored'
  BY <1>1, StillFresh
<1> QED
  BY <1>1, <1>16, <1>18, <1>19 DEF AInv

(* What an iter_arg, its init value, its yield value and its result are. *)
LEMMA PhiFacts ==
  ASSUME prog \in Programs, NEW i \in DOMAIN prog.phis
  PROVE  LET arg == prog.phis[i].arg
             init == InitOf(prog, i)
             yield == YieldOf(prog, i)
             res == prog.phis[i].res
         IN  /\ {arg, init, yield, res} \subseteq Values(prog)
             /\ arg \in Args(prog) /\ res \in Results(prog)
             /\ DefIdx(prog, arg) = Loop(prog) /\ DefIdx(prog, res) = Loop(prog)
             /\ init \notin Args(prog) \cup Results(prog) /\ DefIdx(prog, init) < Loop(prog)
             /\ yield \notin Results(prog) /\ DefIdx(prog, yield) < Yield(prog)
             /\ (NothingOutlivesLoop(prog) /\ Pure(init)) => LiveUntil(prog, init) <= Loop(prog)
             /\ NothingOutlivesLoop(prog) => LiveUntil(prog, yield) <= Yield(prog)
             /\ LiveUntil(prog, arg) = Death(prog, arg) /\ Death(prog, arg) <= Yield(prog)
             /\ Loop(prog) <= Death(prog, arg) /\ LiveUntil(prog, res) = Death(prog, res)
<1> DEFINE arg == prog.phis[i].arg
           init == InitOf(prog, i)
           yield == YieldOf(prog, i)
           res == prog.phis[i].res
           N == Len(prog.code)
           l == Loop(prog)
           y == Yield(prog)
<1>1. /\ N \in Nat /\ l \in 1 .. N /\ y \in 1 .. N /\ l < y /\ DOMAIN prog.code = 1 .. N
      /\ DOMAIN prog.code[l].ins = DOMAIN prog.phis /\ DOMAIN prog.code[y].ins = DOMAIN prog.phis
  BY ProgramFacts
<1>2. arg \in Args(prog) /\ res \in Results(prog) /\ Args(prog) \cap Results(prog) = {}
  BY NodeFacts DEF Args, Results
<1>3. arg \in Values(prog) /\ res \in Values(prog)
  BY <1>2, NodeFacts
<1>4. /\ init \in Values(prog) /\ l \in Uses(prog, init)
      /\ yield \in Values(prog) /\ y \in Uses(prog, yield)
  BY <1>1, OperandFacts DEF InitOf, YieldOf
<1> HIDE DEF arg, init, yield, res, N
<1>5. /\ \A v \in Values(prog) : DefIdx(prog, v) \in 1 .. N
                               /\ (DefIdx(prog, v) = l <=> v \in Args(prog) \cup Results(prog))
  BY NodeFacts DEF N
<1>6. DefIdx(prog, arg) = l /\ DefIdx(prog, res) = l
  BY <1>2, <1>3, <1>5
<1>7. init \notin Args(prog) \cup Results(prog) /\ DefIdx(prog, init) < l
  <2>1. Visible(prog, init, l)
    BY <1>4, UseFacts
  <2> QED
    BY <1>1, <2>1 DEF Visible, InLoop
<1>8. yield \notin Results(prog) /\ DefIdx(prog, yield) < y
  <2>1. Visible(prog, yield, y)
    BY <1>4, UseFacts
  <2> QED
    BY <1>1, <1>2, <1>4, <1>5, <2>1 DEF Visible, InLoop
<1>9. ASSUME NothingOutlivesLoop(prog), Pure(init) PROVE LiveUntil(prog, init) <= l
  <2>1. ~ InLoop(prog, DefIdx(prog, init))
    BY <1>1, <1>4, <1>5, <1>7 DEF InLoop
  <2>2. init \notin Handoffs(prog) /\ \A k \in Uses(prog, init) : ~ InLoop(prog, k)
    BY <1>9 DEF Pure
  <2>3. Death(prog, init) <= y
    BY <1>4, <1>7, <1>9, <2>1, <2>2 DEF NothingOutlivesLoop
  <2>4. Death(prog, init) \in Uses(prog, init) /\ Death(prog, init) \in 1 .. N
    BY <1>4, UseFacts DEF N
  <2>5. ~ InLoop(prog, Death(prog, init)) /\ LiveUntil(prog, init) = Death(prog, init)
    BY <1>4, <2>2, <2>4, LiveFacts
  <2> QED
    BY <1>1, <2>3, <2>4, <2>5 DEF InLoop
<1>10. ASSUME NothingOutlivesLoop(prog) PROVE LiveUntil(prog, yield) <= y
  <2>1. /\ LiveUntil(prog, yield) \in {Death(prog, yield), y}
        /\ yield \in Args(prog) => Death(prog, yield) <= y
        /\ InLoop(prog, DefIdx(prog, yield)) => Death(prog, yield) <= y
    BY <1>4, LiveFacts
  <2>2. InLoop(prog, y)
    BY <1>1 DEF InLoop
  <2>3. Death(prog, yield) <= y
    BY <1>4, <1>8, <1>10, <2>1, <2>2 DEF NothingOutlivesLoop
  <2> QED
    BY <1>1, <2>1, <2>3
<1>11. /\ LiveUntil(prog, arg) = Death(prog, arg) /\ Death(prog, arg) <= y
       /\ l <= Death(prog, arg) /\ LiveUntil(prog, res) = Death(prog, res)
  BY <1>2, <1>3, <1>6, LiveFacts
<1> QED
  BY <1>2, <1>3, <1>4, <1>6, <1>7, <1>8, <1>9, <1>10, <1>11 DEF arg, init, yield, res

(* The VB of an iter_arg: its members take turns. *)
LEMMA FusedInv ==
  ASSUME prog \in Programs, NEW i \in DOMAIN prog.phis,
         NEW members \in Seq(Values(prog)), IsInjective(members), members # <<>>,
         \A v \in ToSet(members) :
           \/ v = prog.phis[i].arg \/ v = prog.phis[i].res
           \/ v = InitOf(prog, i) /\ Pure(v)
           \/ v = YieldOf(prog, i) /\ HandsOver(prog.phis[i].arg, v),
         ToSet(members) \cap Apart = {},
         NEW vb \in VBs(prog), vb.members = members, ~ vb.excl,
         vb.type \in {"Fused", "LoopCarried"}, vb.birth <= Loop(prog),
         Pure(InitOf(prog, i)) => vb.birth <= DefIdx(prog, InitOf(prog, i)),
         Yield(prog) <= vb.death, Death(prog, prog.phis[i].res) <= vb.death
  PROVE  VBInv(vb)
<1> DEFINE arg == prog.phis[i].arg
           init == InitOf(prog, i)
           yield == YieldOf(prog, i)
           res == prog.phis[i].res
           N == Len(prog.code)
           l == Loop(prog)
           y == Yield(prog)
           M == ToSet(members)
           D(v) == DefIdx(prog, v)
           L(v) == LiveUntil(prog, v)
<1>1. N \in Nat /\ l \in 1 .. N /\ y \in 1 .. N /\ l < y /\ vb.birth \in 1 .. N /\ vb.death \in 1 .. N
  BY ProgramFacts DEF VBs
<1>2. /\ {arg, init, yield, res} \subseteq Values(prog)
      /\ arg \in Args(prog) /\ res \in Results(prog) /\ D(arg) = l /\ D(res) = l
      /\ init \notin Args(prog) \cup Results(prog) /\ D(init) < l
      /\ yield \notin Results(prog) /\ D(yield) < y
      /\ (NothingOutlivesLoop(prog) /\ Pure(init)) => L(init) <= l
      /\ NothingOutlivesLoop(prog) => L(yield) <= y
      /\ L(arg) = Death(prog, arg) /\ Death(prog, arg) <= y
      /\ l <= Death(prog, arg) /\ L(res) = Death(prog, res)
      /\ arg \notin Results(prog)
  BY PhiFacts, NodeFacts
<1>3. \A v \in {arg, init, yield, res} : D(v) \in 1 .. N /\ L(v) \in 1 .. N /\ Death(prog, v) \in 1 .. N
  <2> SUFFICES ASSUME NEW v \in Values(prog)
               PROVE  D(v) \in 1 .. N /\ L(v) \in 1 .. N /\ Death(prog, v) \in 1 .. N
    BY <1>2
  <2>1. D(v) \in 1 .. N
    BY NodeFacts
  <2>2. L(v) \in 1 .. N
    BY LiveFacts
  <2>3. Death(prog, v) \in 1 .. N
    BY UseFacts
  <2> QED
    BY <2>1, <2>2, <2>3
<1>4. \A v \in M : \/ v = arg \/ v = res \/ (v = init /\ Pure(v))
                   \/ (v = yield /\ D(yield) >= Death(prog, arg))
  BY DEF HandsOver
<1>5. Members(vb) = M
  BY DEF Members
<1>6. vb.death >= y /\ vb.death >= Death(prog, res) /\ vb.birth <= l
      /\ (Pure(init) => vb.birth <= D(init))
  OBVIOUS
<1> HIDE DEF arg, init, yield, res, N, l, y, M, D, L
<1>7. \A v \in M : vb.birth <= D(v)
  BY <1>1, <1>2, <1>3, <1>4, <1>6
<1>8. NothingOutlivesLoop(prog) => \A v \in M : L(v) <= vb.death
  BY <1>1, <1>2, <1>3, <1>4, <1>6
<1>9. Promised(vb) => \A v \in Members(vb) : LiveUntil(prog, v) <= vb.death
  BY <1>5, <1>8 DEF Promised, L
<1>10. ASSUME NothingOutlivesLoop(prog), NEW u \in M, NEW v \in M, u # v PROVE TakesTurns(u, v)
  <2>1. /\ LiveFrom(arg) = l /\ LiveFrom(init) = D(init) /\ LiveFrom(yield) = D(yield)
        /\ LiveFrom(res) = y
    BY <1>2 DEF LiveFrom, y, D
  <2>2. TakesTurns(u, v) <=> ~ (LiveFrom(u) < LiveFrom(v) /\ LiveFrom(v) < L(u))
    BY DEF TakesTurns, L
  <2>3. CASE v = res
    <3>1. u = arg \/ (u = init /\ Pure(init)) \/ u = yield
      BY <1>4, <1>10, <2>3
    <3>2. L(u) <= y /\ L(u) \in Int
      BY <1>1, <1>2, <1>3, <1>10, <3>1
    <3> QED
      BY <1>1, <2>1, <2>2, <2>3, <3>2
  <2>4. CASE u = res /\ v # res
    <3>1. v = arg \/ v = init \/ v = yield
      BY <1>4, <2>4
    <3>2. LiveFrom(v) \in Int /\ LiveFrom(v) < y
      BY <1>1, <1>2, <1>3, <2>1, <3>1
    <3> QED
      BY <1>1, <2>1, <2>2, <2>4, <3>2
  <2>5. CASE v = arg /\ u # res
    <3>1. (u = init /\ Pure(init)) \/ (u = yield /\ D(yield) >= Death(prog, arg))
      BY <1>4, <1>10, <2>5
    <3>2. u = init => L(u) <= l /\ L(u) \in Int
      BY <1>2, <1>3, <1>10, <2>1, <3>1 
    <3> QED
      BY <1>1, <1>2, <1>3, <2>1, <2>2, <2>5, <3>1, <3>2
  <2>6. CASE v = init /\ Pure(init) /\ u # res
    <3>1. u = arg \/ (u = yield /\ D(yield) >= Death(prog, arg))
      BY <1>4, <1>10, <2>6
    <3> QED
      BY <1>1, <1>2, <1>3, <2>1, <2>2, <2>6, <3>1
  <2>7. CASE v = yield /\ D(yield) >= Death(prog, arg) /\ u # res
    <3>1. u = arg \/ (u = init /\ Pure(init))
      BY <1>4, <1>10, <2>7
    <3>2. L(u) <= D(yield)
      BY <1>1, <1>2, <1>3, <1>10, <2>7, <3>1
    <3> QED
      BY <1>3, <1>2, <2>1, <2>2, <2>7, <3>1, <3>2
  <2> QED
    BY <1>4, <2>3, <2>4, <2>5, <2>6, <2>7
<1>11. M \cap Apart = {} /\ prog.special \subseteq Apart
  BY SpecialValues DEF M
<1>12. vb.birth <= vb.death
  BY <1>1, <1>6
<1>13. ASSUME NEW u \in M, NEW v \in M, u # v, LiveFrom(u) = LiveFrom(v)
       PROVE  Uses(prog, u) = {} \/ Uses(prog, v) = {}
  <2>1. u \in Values(prog) /\ v \in Values(prog)
    BY <1>2, <1>4
  <2>2. /\ init \notin Args(prog) \cup Results(prog) /\ yield \notin Results(prog)
        /\ arg \notin Results(prog) /\ res \notin Args(prog)
    BY <1>2, NodeFacts
  <2>3. u \in Args(prog) /\ v \in Args(prog) /\ u \in {arg, yield} /\ v \in {arg, yield}
    BY <1>4, <1>13, <2>1, <2>2, SameLiveFrom
  <2>4. yield \in {u, v} /\ arg \in {u, v} /\ arg # yield /\ yield \in Args(prog)
    BY <1>13, <2>3
  <2>5. D(yield) = l /\ l <= Death(prog, arg) /\ D(yield) >= Death(prog, arg) /\ D(arg) = l
    BY <1>2, <1>4, <2>4, NodeFacts DEF D, l
  <2>6. Death(prog, arg) = D(arg)
    BY <1>1, <1>3, <2>5, <1>2
  <2>7. Uses(prog, arg) = {}
    <3>1. Uses(prog, arg) # {} => D(arg) < Death(prog, arg)
      BY <1>2, UseFacts DEF D
    <3> QED
      BY <1>1, <1>2, <2>6, <3>1
  <2> QED
    BY <2>4, <2>7
<1> QED
  BY <1>5, <1>6, <1>7, <1>9, <1>10, <1>11, <1>12, <1>13 DEF VBInv, l, y, D

(* A member that may be left out. *)
LEMMA MaybeNext ==
  ASSUME NEW S, NEW s \in Seq(S), IsInjective(s), NEW e \in S, NEW one,
         one = <<>> \/ (one = <<e>> /\ e \notin ToSet(s))
  PROVE  /\ s \o one \in Seq(S) /\ IsInjective(s \o one)
         /\ ToSet(s) \subseteq ToSet(s \o one)
         /\ \A v \in ToSet(s \o one) : v \in ToSet(s) \/ (v = e /\ one = <<e>>)
<1>1. CASE one = <<>>
  <2>1. s \o one = s
    BY <1>1, ConcatEmptySeq
  <2> QED
    BY <2>1
<1>2. CASE one = <<e>> /\ e \notin ToSet(s)
  <2>1. /\ s \o <<e>> \in Seq(S) /\ ToSet(s \o <<e>>) = ToSet(s) \cup {e}
        /\ IsInjective(s \o <<e>>)
    BY <1>2, AppendNew
  <2> QED
    BY <1>2, <2>1
<1> QED
  BY <1>1, <1>2

LEMMA PhiFuseInv ==
  ASSUME AInv, PhiFuse
  PROVE  AInv'
<1> DEFINE arg == prog.phis[cursor].arg
           init == InitOf(prog, cursor)
           yield == YieldOf(prog, cursor)
           res == prog.phis[cursor].res
           free(v) == v \notin Mapped /\ v \notin Handoffs(prog)
           pure == Pure(init)
           takesInit == pure /\ init \notin Mapped
           takesYield == /\ free(yield) /\ yield \notin {arg, init}
                         /\ HandsOver(arg, yield)
           takesRes == free(res) /\ res \notin {arg, init, yield}
           m0 == <<arg>>
           m1 == m0 \o (IF takesInit THEN <<init>> ELSE <<>>)
           m2 == m1 \o (IF takesYield THEN <<yield>> ELSE <<>>)
           members == m2 \o (IF takesRes THEN <<res>> ELSE <<>>)
           from == IF pure THEN Min({Loop(prog), DefIdx(prog, init)}) ELSE Loop(prog)
           to == Max({Yield(prog), Death(prog, res)})
           type == IF pure THEN "Fused" ELSE "LoopCarried"
           vb == VBRec(type, members, from, to, FALSE)
           V == Values(prog)
<1>1. /\ prog \in Programs /\ stage = "phi" /\ stage' = "phi" /\ cursor \in DOMAIN prog.phis
      /\ prog' = prog /\ cursor' = cursor + 1 /\ cursor \in Nat \ {0} /\ UNCHANGED coloring
      /\ vbs' = IF free(arg) THEN Append(vbs, vb) ELSE vbs
  BY DEF AInv, PhiFuse
<1>2. /\ Division(vbs) /\ prog.special \subseteq MembersIn(vbs)
      /\ \A i \in DOMAIN vbs : ~ Shareable(vbs[i])
      /\ \A i \in DOMAIN prog.phis : i < cursor => prog.phis[i].arg \in MembersIn(vbs) \cup Apart
  BY <1>1 DEF AInv, MappedSoFar
<1>3. Mapped = MembersIn(vbs)
  BY DEF Mapped, MembersIn
<1>4. /\ Len(prog.code) \in Nat /\ Loop(prog) \in 1 .. Len(prog.code)
      /\ Yield(prog) \in 1 .. Len(prog.code) /\ Loop(prog) < Yield(prog)
      /\ Len(prog.phis) \in Nat /\ DOMAIN prog.phis = 1 .. Len(prog.phis)
  BY <1>1, ProgramFacts
<1>5. {arg, init, yield, res} \subseteq V /\ DefIdx(prog, init) < Loop(prog)
  BY <1>1, PhiFacts
<1>6. DefIdx(prog, init) \in 1 .. Len(prog.code) /\ Death(prog, res) \in 1 .. Len(prog.code)
  BY <1>1, <1>5, NodeFacts, UseFacts
<1> PICK s : s = vbs'
  OBVIOUS
<1>7. /\ Division(s) /\ MembersIn(vbs) \subseteq MembersIn(s)
      /\ \A i \in DOMAIN s : ~ Shareable(s[i])
      /\ arg \in MembersIn(s) \cup Apart
  <2>1. CASE ~ free(arg)
    BY <1>1, <1>2, <1>3, <2>1 DEF Apart
  <2>2. CASE free(arg)
    <3>1. m0 \in Seq(V) /\ IsInjective(m0) /\ ToSet(m0) = {arg}
      BY <1>5 DEF IsInjective, ToSet
    <3>2. /\ m1 \in Seq(V) /\ IsInjective(m1) /\ ToSet(m0) \subseteq ToSet(m1)
          /\ \A v \in ToSet(m1) : v = arg \/ (v = init /\ takesInit)
      <4> DEFINE one == IF takesInit THEN <<init>> ELSE <<>>
      <4>1. one = <<>> \/ (one = <<init>> /\ init \notin ToSet(m0))
        <5>1. init # arg
          BY <1>1, PhiFacts
        <5> QED
          BY <3>1, <5>1
      <4>2. one = <<init>> => takesInit
        BY DEF m1
      <4> HIDE DEF one, takesInit, m0, init, arg
      <4>3. /\ m0 \o one \in Seq(V) /\ IsInjective(m0 \o one)
            /\ ToSet(m0) \subseteq ToSet(m0 \o one)
            /\ \A v \in ToSet(m0 \o one) : v \in ToSet(m0) \/ (v = init /\ one = <<init>>)
        BY <1>5, <3>1, <4>1, MaybeNext
      <4> QED
        BY <3>1, <4>2, <4>3 DEF one
    <3>3. /\ m2 \in Seq(V) /\ IsInjective(m2) /\ ToSet(m0) \subseteq ToSet(m2)
          /\ \A v \in ToSet(m2) : v = arg \/ (v = init /\ takesInit) \/ (v = yield /\ takesYield)
      <4> DEFINE one == IF takesYield THEN <<yield>> ELSE <<>>
      <4> HIDE DEF m1
      <4>1. one = <<>> \/ (one = <<yield>> /\ yield \notin ToSet(m1))
        BY <3>2
      <4>2. one = <<yield>> => takesYield
        OBVIOUS
      <4> HIDE DEF one, takesInit, takesYield, m0, yield, init, arg
      <4>3. /\ m1 \o one \in Seq(V) /\ IsInjective(m1 \o one)
            /\ ToSet(m1) \subseteq ToSet(m1 \o one)
            /\ \A v \in ToSet(m1 \o one) : v \in ToSet(m1) \/ (v = yield /\ one = <<yield>>)
        BY <1>5, <3>2, <4>1, MaybeNext
      <4> QED
        BY <3>2, <4>2, <4>3 DEF one
    <3>4. /\ members \in Seq(V) /\ IsInjective(members) /\ ToSet(m0) \subseteq ToSet(members)
          /\ \A v \in ToSet(members) : \/ v = arg \/ (v = init /\ takesInit)
                                       \/ (v = yield /\ takesYield) \/ (v = res /\ takesRes)
      <4> DEFINE one == IF takesRes THEN <<res>> ELSE <<>>
      <4> HIDE DEF m2
      <4>1. one = <<>> \/ (one = <<res>> /\ res \notin ToSet(m2))
        BY <3>3
      <4>2. one = <<res>> => takesRes
        OBVIOUS
      <4> HIDE DEF one, takesInit, takesYield, takesRes, m0, yield, init, arg, res
      <4>3. /\ m2 \o one \in Seq(V) /\ IsInjective(m2 \o one)
            /\ ToSet(m2) \subseteq ToSet(m2 \o one)
            /\ \A v \in ToSet(m2 \o one) : v \in ToSet(m2) \/ (v = res /\ one = <<res>>)
        BY <1>5, <3>3, <4>1, MaybeNext
      <4> QED
        BY <3>3, <4>2, <4>3 DEF one
    <3> HIDE DEF members, m0, m1, m2
    <3>5. \A v \in ToSet(members) :
            /\ v \notin MembersIn(vbs) /\ v \notin Handoffs(prog)
            /\ \/ v = arg \/ v = res \/ (v = init /\ Pure(v)) \/ (v = yield /\ HandsOver(arg, v))
      <4>0. free(arg)
        BY <2>2
      <4>1. takesInit => init \notin Mapped /\ init \notin Handoffs(prog) /\ Pure(init)
        BY DEF Pure
      <4>2. takesYield => yield \notin Mapped /\ yield \notin Handoffs(prog) /\ HandsOver(arg, yield)
        OBVIOUS
      <4>3. takesRes => res \notin Mapped /\ res \notin Handoffs(prog)
        OBVIOUS
      <4> HIDE DEF arg, init, yield, res, takesInit, takesYield, takesRes
      <4> QED
        BY <1>3, <3>4, <4>0, <4>1, <4>2, <4>3
    <3>6. ToSet(members) \cap Apart = {}
      BY <1>2, <3>5 DEF Apart
    <3>7. members # <<>> /\ arg \in ToSet(members)
      <4>1. arg \in ToSet(members)
        BY <3>1, <3>4
      <4>2. ToSet(<<>>) = {}
        BY DEF ToSet
      <4> QED
        BY <4>1, <4>2
    <3>8. /\ from \in 1 .. Len(prog.code) /\ from <= Loop(prog)
          /\ pure => from <= DefIdx(prog, init)
      <4> DEFINE T == {Loop(prog), DefIdx(prog, init)}
      <4>1. T \in SUBSET Nat /\ T # {}
        BY <1>4, <1>6
      <4>2. Min(T) \in T /\ \A x \in T : Min(T) <= x
        <5> HIDE DEF T
        <5> QED
          BY <4>1, MinOf
      <4> HIDE DEF pure
      <4> QED
        BY <1>4, <1>5, <1>6, <4>2
    <3>9. /\ to \in 1 .. Len(prog.code) /\ Yield(prog) <= to /\ Death(prog, res) <= to
      <4> DEFINE T == {Yield(prog), Death(prog, res)}
      <4>1. T \in SUBSET (0 .. Len(prog.code)) /\ T # {}
        BY <1>4, <1>6
      <4>2. Max(T) \in T /\ \A x \in T : x <= Max(T)
        <5> HIDE DEF T
        <5> QED
          BY <1>4, <4>1, MaxOf
      <4> QED
        BY <1>4, <1>6, <4>2
    <3> HIDE DEF from, to
    <3>10. /\ type \in {"Fused", "LoopCarried"} /\ vb.members = members /\ vb.birth = from
           /\ vb.death = to /\ ~ vb.excl /\ vb.type = type /\ vb \in VBs(prog)
      BY <3>4, <3>8, <3>9 DEF VBRec, VBs
    <3> HIDE DEF vb, type
    <3>11. VBInv(vb)
      BY <1>1, <3>4, <3>5, <3>6, <3>7, <3>8, <3>9, <3>10, FusedInv
    <3>12. Members(vb) = ToSet(members)
      BY <3>10 DEF Members
    <3> DEFINE new == <<vb>>
    <3>13. Division(new) /\ MembersIn(new) = ToSet(members) /\ DOMAIN new = {1}
      BY <3>10, <3>11, <3>12 DEF Division, MembersIn
    <3>14. s = vbs \o new
      <4>1. vbs \in Seq(VBs(prog))
        BY <1>2 DEF Division
      <4> QED
        BY <1>1, <2>2, <4>1, <3>10
    <3>15. MembersIn(vbs) \cap MembersIn(new) = {}
      BY <3>5, <3>13
    <3>16. /\ Division(s) /\ MembersIn(s) = MembersIn(vbs) \cup MembersIn(new)
           /\ \A i \in DOMAIN s :
                \/ i \in DOMAIN vbs /\ s[i] = vbs[i]
                \/ i > Len(vbs) /\ i - Len(vbs) \in DOMAIN new /\ s[i] = new[i - Len(vbs)]
      <4> HIDE DEF new
      <4>1. LET all == vbs \o new
            IN  /\ Division(all) /\ MembersIn(all) = MembersIn(vbs) \cup MembersIn(new)
                /\ \A i \in DOMAIN all :
                     \/ i \in DOMAIN vbs /\ all[i] = vbs[i]
                     \/ i > Len(vbs) /\ i - Len(vbs) \in DOMAIN new /\ all[i] = new[i - Len(vbs)]
        BY <1>1, <1>2, <3>13, <3>15, Joined
      <4> QED
        BY <3>14, <4>1
    <3>17. \A i \in DOMAIN s : ~ Shareable(s[i])
      BY <1>2, <3>10, <3>13, <3>16 DEF Shareable
    <3> QED
      BY <3>7, <3>13, <3>16, <3>17
  <2> QED
    BY <2>1, <2>2
<1> HIDE DEF arg
<1>8. Ordered(s)
  BY <1>7 DEF Ordered
<1>9. Division(vbs)' /\ Ordered(vbs)' /\ MembersIn(vbs)' = MembersIn(s)
  BY <1>1, <1>7, <1>8, Carried
<1>10. MappedSoFar'
  <2>1. \A i \in DOMAIN prog.phis : i < cursor + 1 => prog.phis[i].arg \in MembersIn(s) \cup Apart
    <3> SUFFICES ASSUME NEW i \in DOMAIN prog.phis, i < cursor + 1
                 PROVE  prog.phis[i].arg \in MembersIn(s) \cup Apart
      OBVIOUS
    <3>1. CASE i = cursor
      BY <1>7, <3>1 DEF arg
    <3>2. CASE i # cursor
      <4>1. i < cursor
        BY <1>1, <1>4, <3>2
      <4> QED
        BY <1>2, <1>7, <4>1
    <3> QED
      BY <3>1, <3>2
  <2>2. Apart' = Apart /\ \A i \in DOMAIN vbs' : ~ Shareable(vbs[i])'
    BY <1>1, <1>7 DEF Apart, Shareable
  <2> QED
    BY <1>1, <1>2, <1>7, <1>9, <2>1, <2>2 DEF MappedSoFar
<1>11. Colored'
  BY <1>1, StillFresh
<1>12. cursor' \in Nat \ {0}
  BY <1>1
<1> QED
  BY <1>1, <1>9, <1>10, <1>11, <1>12 DEF AInv

(* The defining operation of a VB is the one at its birth, if a member is   *)
(* defined there.                                                           *)
LEMMA DefinedAtBirth ==
  ASSUME prog \in Programs, NEW b \in VBs(prog), \A v \in Members(b) : b.birth <= DefIdx(prog, v),
         NEW r \in Members(b), DefIdx(prog, r) = b.birth
  PROVE  DefiningOp(b) = prog.code[b.birth]
<1> DEFINE T == {<<DefIdx(prog, b.members[i]), i>> : i \in DOMAIN b.members}
           p == First(T)
<1>1. b.members \in Seq(Values(prog)) /\ DOMAIN b.members = 1 .. Len(b.members)
      /\ Len(b.members) \in Nat
  <2>1. b.members \in Seq(Values(prog))
    BY DEF VBs
  <2> QED
    BY <2>1, LenProperties
<1>2. \A i \in DOMAIN b.members : b.members[i] \in Members(b) /\ b.members[i] \in Values(prog)
  BY <1>1, ElementOfSeq DEF Members, ToSet
<1>3. \A i \in DOMAIN b.members : DefIdx(prog, b.members[i]) \in Nat
  <2>1. \A v \in Values(prog) : DefIdx(prog, v) \in 1 .. Len(prog.code)
    BY NodeFacts
  <2> QED
    BY <1>2, <2>1, ProgramFacts
<1>4. PICK k \in DOMAIN b.members : b.members[k] = r
  BY DEF Members, ToSet
<1>5. T \in SUBSET (Nat \X Nat) /\ T # {} /\ <<b.birth, k>> \in T
  <2>1. T \in SUBSET (Nat \X Nat)
    BY <1>1, <1>3
  <2>2. <<DefIdx(prog, b.members[k]), k>> \in T
    OBVIOUS
  <2>3. DefIdx(prog, b.members[k]) = b.birth
    BY <1>4
  <2> HIDE DEF T
  <2> QED
    BY <2>1, <2>2, <2>3
<1> HIDE DEF T
<1>6. p \in T /\ \A o \in T : p[1] < o[1] \/ (p[1] = o[1] /\ p[2] <= o[2])
  <2>1. \E m \in T : \A o \in T : m[1] < o[1] \/ (m[1] = o[1] /\ m[2] <= o[2])
    BY <1>5, FirstPair
  <2> QED
    BY <2>1 DEF First
<1> HIDE DEF p
<1>7. PICK i \in DOMAIN b.members : p = <<DefIdx(prog, b.members[i]), i>>
  BY <1>6 DEF T
<1>8. p[1] = DefIdx(prog, b.members[i]) /\ p[2] = i
  BY <1>7
<1>9. p[1] <= b.birth /\ b.birth <= DefIdx(prog, b.members[i])
  BY <1>2, <1>5, <1>6
<1>10. DefIdx(prog, b.members[p[2]]) = b.birth
  BY <1>3, <1>4, <1>8, <1>9
<1>11. BirthNode(b) = b.members[p[2]]
  BY DEF BirthNode, p, T
<1> QED
  BY <1>10, <1>11 DEF DefiningOp

(* The first match of findOperandRelation is one. *)
LEMMA FirstMatch ==
  ASSUME prog \in Programs, NEW a \in VBs(prog), NEW b, NEW k \in DOMAIN prog.code,
         DefiningOp(b) = prog.code[k], NEW w \in Members(a), k \in Uses(prog, w)
  PROVE  LET m == First(Matches(a, b))
         IN  /\ Matches(a, b) # {} /\ m \in Matches(a, b)
             /\ \A o \in Matches(a, b) : m[1] < o[1] \/ (m[1] = o[1] /\ m[2] <= o[2])
<1>1. DOMAIN prog.code[k].ins \in SUBSET Nat /\ DOMAIN a.members \in SUBSET Nat
  <2>1. a.members \in Seq(Values(prog))
    BY DEF VBs
  <2> QED
    BY <2>1, OperandFacts, LenProperties
<1>2. Matches(a, b) \in SUBSET (Nat \X Nat)
  BY <1>1 DEF Matches
<1>3. PICK o \in DOMAIN prog.code[k].ins : prog.code[k].ins[o].val = w
  BY DEF Uses
<1>4. PICK i \in DOMAIN a.members : a.members[i] = w
  BY DEF Members, ToSet
<1>5. <<i, o>> \in Matches(a, b)
  BY <1>3, <1>4 DEF Matches
<1>6. \E m \in Matches(a, b) :
        \A n \in Matches(a, b) : m[1] < n[1] \/ (m[1] = n[1] /\ m[2] <= n[2])
  BY <1>2, <1>5, FirstPair
<1> QED
  BY <1>5, <1>6 DEF First

(* The loop reads its operands elsewhere: what is born with it takes no     *)
(* buffer over from them.                                                   *)
LEMMA LoopReads ==
  ASSUME prog \in Programs, NEW a \in VBs(prog), NEW b \in VBs(prog), b.birth = Loop(prog),
         \A v \in Members(b) : b.birth <= DefIdx(prog, v),
         NEW r \in Members(b), DefIdx(prog, r) = Loop(prog),
         NEW w \in Members(a), Loop(prog) \in Uses(prog, w)
  PROVE  HandoffInterferes(a, b)
<1> DEFINE m == First(Matches(a, b))
<1>1. DefiningOp(b) = prog.code[Loop(prog)] /\ Loop(prog) \in DOMAIN prog.code
  BY DefinedAtBirth, ProgramFacts
<1>2. Matches(a, b) # {} /\ m \in Matches(a, b)
  BY <1>1, FirstMatch
<1>3. m[2] \in DOMAIN prog.code[Loop(prog)].ins
  BY <1>1, <1>2 DEF Matches
<1>4. prog.code[Loop(prog)].ins[m[2]].rel = "other"
  BY <1>3, ProgramFacts
<1> QED
  BY <1>1, <1>2, <1>4 DEF HandoffInterferes

(* What a merge leaves: the first of the two dies where the second is born. *)
LEMMA MergeInv ==
  ASSUME prog \in Programs, NEW a \in VBs(prog), NEW b \in VBs(prog), VBInv(a), VBInv(b),
         Members(a) \cap Members(b) = {}, Shareable(a), Shareable(b),
         Members(a) \cap Apart = {}, Members(b) \cap Apart = {}, a.death = b.birth,
         ~ HandoffInterferes(a, b)
  PROVE  LET m == Merge(a, b)
         IN  /\ m \in VBs(prog) /\ VBInv(m) /\ Members(m) = Members(a) \cup Members(b)
             /\ m.type = "Standard" /\ m.birth = a.birth /\ Shareable(m)
<1> DEFINE m == Merge(a, b)
           N == Len(prog.code)
           l == Loop(prog)
           y == Yield(prog)
           D(v) == DefIdx(prog, v)
           L(v) == LiveUntil(prog, v)
           V == Values(prog)
<1>1. /\ a.members \in Seq(V) /\ a.birth \in 1 .. N /\ a.death \in 1 .. N
      /\ b.members \in Seq(V) /\ b.birth \in 1 .. N /\ b.death \in 1 .. N
      /\ N \in Nat /\ l \in 1 .. N /\ y \in 1 .. N /\ l < y
  BY ProgramFacts DEF VBs
<1>2. Min({a.birth, b.birth}) = a.birth /\ Max({a.death, b.death}) = b.death
  <2>1. a.birth <= a.death /\ b.birth <= b.death
    BY DEF VBInv
  <2>2. Min({a.birth, b.birth}) \in {a.birth, b.birth} /\ Min({a.birth, b.birth}) <= a.birth
    <3> DEFINE T == {a.birth, b.birth}
    <3>1. T \in SUBSET Nat /\ T # {} /\ a.birth \in T
      BY <1>1
    <3> HIDE DEF T
    <3>2. Min(T) \in T /\ Min(T) <= a.birth
      BY <3>1, MinOf
    <3> QED
      BY <3>2 DEF T
  <2>3. Max({a.death, b.death}) \in {a.death, b.death} /\ b.death <= Max({a.death, b.death})
    <3> DEFINE T == {a.death, b.death}
    <3>1. T \in SUBSET (0 .. N) /\ T # {} /\ b.death \in T
      BY <1>1
    <3> HIDE DEF T
    <3>2. Max(T) \in T /\ b.death <= Max(T)
      BY <1>1, <3>1, MaxOf
    <3> QED
      BY <3>2 DEF T
  <2> QED
    BY <1>1, <2>1, <2>2, <2>3
<1>3. /\ m.type = a.type /\ m.members = a.members \o b.members /\ m.birth = a.birth
      /\ m.death = b.death /\ m.excl = a.excl
  BY <1>2 DEF Merge, VBs
<1>4. /\ a.members \o b.members \in Seq(V)
      /\ ToSet(a.members \o b.members) = ToSet(a.members) \cup ToSet(b.members)
      /\ IsInjective(a.members \o b.members)
  <2>1. IsInjective(a.members) /\ IsInjective(b.members) /\ ToSet(a.members) \cap ToSet(b.members) = {}
    BY DEF VBInv, Members
  <2> HIDE DEF V
  <2> QED
    BY <1>1, <2>1, ConcatProperties, ConcatDisjoint
<1>5. m \in VBs(prog)
  BY <1>1, <1>2, <1>4 DEF Merge, VBs
<1>6. Members(m) = Members(a) \cup Members(b)
  BY <1>3, <1>4 DEF Members
<1> HIDE DEF m, N, l, y, V
<1>7. m.members # <<>>
  <2>1. Members(a) # {}
    <3>1. a.members # <<>>
      BY DEF VBInv
    <3>2. 1 \in DOMAIN a.members
      BY <1>1, <3>1
    <3> QED
      BY <3>2 DEF Members, ToSet
  <2>2. ToSet(<<>>) = {}
    BY DEF ToSet
  <2> QED
    BY <1>6, <2>1, <2>2 DEF Members
<1>8. /\ \A v \in Members(a) : D(v) \in 1 .. N /\ L(v) \in 1 .. N /\ D(v) <= L(v) /\ v \in Values(prog)
      /\ \A v \in Members(b) : D(v) \in 1 .. N /\ L(v) \in 1 .. N /\ D(v) <= L(v) /\ v \in Values(prog)
  <2>1. Members(a) \subseteq Values(prog) /\ Members(b) \subseteq Values(prog)
    BY DEF Members, ToSet, VBs
  <2>2. ASSUME NEW v \in Values(prog) PROVE D(v) \in 1 .. N /\ L(v) \in 1 .. N /\ D(v) <= L(v)
    <3>1. D(v) \in 1 .. N
      BY NodeFacts DEF N
    <3>2. L(v) \in 1 .. N /\ L(v) \in {Death(prog, v), Yield(prog)} /\ D(v) <= Death(prog, v)
          /\ Death(prog, v) <= L(v)
      BY LiveFacts DEF N
    <3>3. Death(prog, v) \in 1 .. N
      BY UseFacts DEF N
    <3> QED
      BY <1>1, <3>1, <3>2, <3>3
  <2> QED
    BY <2>1, <2>2
<1>9. Promised(a) /\ Promised(b)
  <2>1. Members(a) \cap prog.special = {} /\ Members(b) \cap prog.special = {}
    BY DEF Apart
  <2> QED
    BY <2>1 DEF Promised, Shareable
<1>10. /\ \A v \in Members(a) : a.birth <= D(v) /\ L(v) <= a.death
       /\ \A v \in Members(b) : b.birth <= D(v) /\ L(v) <= b.death
       /\ a.birth <= a.death /\ b.birth <= b.death
  BY <1>9 DEF VBInv
<1>11. \A v \in Members(m) : m.birth <= D(v) /\ L(v) <= m.death
  BY <1>1, <1>3, <1>6, <1>8, <1>10
<1>12. ASSUME NothingOutlivesLoop(prog), NEW u \in Members(m), NEW v \in Members(m), u # v
       PROVE  TakesTurns(u, v)
  <2>1. \A w \in Members(m) : /\ (w \in Results(prog) => LiveFrom(w) = y)
                              /\ (w \notin Results(prog) => LiveFrom(w) = D(w))
    BY DEF LiveFrom, y
  <2>2. CASE (u \in Members(a) /\ v \in Members(a)) \/ (u \in Members(b) /\ v \in Members(b))
    BY <1>12, <2>2 DEF VBInv
  <2>3. CASE u \in Members(a) /\ v \in Members(b)
    <3>1. L(u) <= D(v)
      BY <1>1, <1>8, <1>10, <2>3
    <3>2. D(v) <= LiveFrom(v) /\ LiveFrom(v) \in 1 .. N
      <4>1. v \in Results(prog) => D(v) = l
        BY <2>3, <1>8, NodeFacts DEF l
      <4> QED
        BY <1>1, <1>8, <1>12, <2>1, <2>3, <4>1
    <3> QED
      BY <1>1, <1>8, <2>3, <3>1, <3>2 DEF TakesTurns
  <2>4. CASE u \in Members(b) /\ v \in Members(a)
    <3> SUFFICES ASSUME LiveFrom(u) < LiveFrom(v), LiveFrom(v) < L(u) PROVE FALSE
      BY DEF TakesTurns
    <3>1. L(v) <= D(u) /\ D(v) <= D(u)
      BY <1>1, <1>8, <1>10, <2>4
    <3>2. (u \in Results(prog) => D(u) = l) /\ (v \in Results(prog) => D(v) = l)
      BY <2>4, <1>8, NodeFacts DEF l
    <3>3. v \in Results(prog) /\ u \notin Results(prog) /\ LiveFrom(v) = y /\ LiveFrom(u) = D(u)
      BY <1>1, <1>8, <1>12, <2>1, <2>4, <3>1, <3>2
    <3>4. l <= D(u) /\ D(u) < y
      BY <1>1, <1>8, <2>4, <3>1, <3>2, <3>3
    <3>5. CASE D(u) = l
      <4>1. u \in Args(prog)
        BY <1>8, <2>4, <3>3, <3>5, NodeFacts DEF l
      <4>2. L(u) <= y
        BY <1>8, <2>4, <4>1, LiveFacts DEF y
      <4> QED
        BY <1>1, <1>8, <2>4, <3>3, <4>2
    <3>6. CASE D(u) # l
      <4>1. InLoop(prog, D(u))
        BY <1>1, <1>8, <2>4, <3>4, <3>6 DEF InLoop, l, y
      <4>2. L(u) <= y
        BY <1>8, <2>4, <4>1, LiveFacts DEF y
      <4> QED
        BY <1>1, <1>8, <2>4, <3>3, <4>2
    <3> QED
      BY <3>5, <3>6
  <2> QED
    BY <1>6, <1>12, <2>2, <2>3, <2>4
<1>13. Members(m) \cap Apart = {} /\ prog.special \subseteq Apart
  BY <1>6, SpecialValues
<1>14. Members(m) \cap Args(prog) \subseteq Apart
  BY <1>6 DEF VBInv, Shareable
<1>15. m.type = "Standard" /\ Shareable(m) /\ m.birth <= m.death
  BY <1>1, <1>3, <1>10 DEF Shareable
<1>16. ASSUME NEW u \in Members(m), NEW v \in Members(m), u # v, LiveFrom(u) = LiveFrom(v)
       PROVE  Uses(prog, u) = {} \/ Uses(prog, v) = {}
  <2>1. ASSUME NEW w \in Members(a), NEW x \in Members(b), D(w) = D(x) PROVE Uses(prog, w) = {}
    <3>1. w \in Values(prog) /\ L(w) <= D(w) /\ D(w) \in 1 .. N
      BY <1>1, <1>8, <1>10, <2>1
    <3>2. Death(prog, w) <= L(w) /\ Death(prog, w) \in 1 .. N /\ L(w) \in 1 .. N
      BY <1>8, <2>1, LiveFacts, UseFacts DEF N
    <3>3. Uses(prog, w) # {} => D(w) < Death(prog, w)
      BY <3>1, UseFacts
    <3> QED
      BY <1>1, <3>1, <3>2, <3>3
  <2>2. D(u) = D(v)
    BY <1>6, <1>8, <1>16, SameLiveFrom, NodeFacts
  <2> QED
    BY <1>6, <1>16, <2>1, <2>2 DEF VBInv
<1>17. \E v \in Members(m) : Death(prog, v) = m.death
  <2>1. PICK v \in Members(b) : Death(prog, v) = b.death
    BY DEF VBInv, Shareable
  <2> QED
    BY <1>3, <1>6, <2>1
<1>18. ASSUME NEW r \in Members(m) \cap Results(prog), m.death = l PROVE m.birth = l
  <2>1. D(r) = l
    BY <1>6, <1>8, NodeFacts DEF l
  <2>2. a.death = l /\ b.birth = l /\ b.death = l
    <3>1. CASE r \in Members(a)
      BY <1>1, <1>3, <1>8, <1>10, <1>18, <2>1, <3>1
    <3>2. CASE r \in Members(b)
      <4>1. b.birth = l
        BY <1>3, <1>18, <3>2 DEF VBInv, Shareable, l
      <4> QED
        BY <1>3, <1>18, <4>1
    <3> QED
      BY <1>6, <1>18, <3>1, <3>2
  <2>3. Members(a) \cap Results(prog) # {} => a.birth = l
    BY <2>2 DEF VBInv, Shareable, l
  <2>4. CASE Members(a) \cap Results(prog) = {}
    <3>1. PICK w \in Members(a) : Death(prog, w) = l
      BY <2>2 DEF VBInv, Shareable
    <3>2. w \notin Args(prog) \cup Results(prog) /\ w \in Values(prog) /\ D(w) # l
      BY <1>8, <2>4, NodeFacts DEF VBInv, Shareable, l
    <3>3. l \in Uses(prog, w)
      <4>1. Uses(prog, w) # {} => Death(prog, w) \in Uses(prog, w)
        BY <3>2, UseFacts
      <4>2. Uses(prog, w) = {} => Death(prog, w) = D(w)
        BY <3>2, UseFacts
      <4> QED
        BY <3>1, <3>2, <4>1, <4>2
    <3>4. r \in Members(b)
      BY <1>6, <1>18, <2>4
    <3>5. HandoffInterferes(a, b)
      BY <1>1, <1>8, <1>10, <2>1, <2>2, <3>1, <3>3, <3>4, LoopReads DEF l
    <3> QED
      BY <3>5
  <2> QED
    BY <1>3, <2>2, <2>3, <2>4
<1>19. VBInv(m)
  BY <1>3, <1>4, <1>7, <1>11, <1>12, <1>13, <1>14, <1>15, <1>16, <1>17, <1>18 DEF VBInv, l
<1> QED
  BY <1>3, <1>5, <1>6, <1>15, <1>19 DEF m

LEMMA RelayInv ==
  ASSUME AInv, Relay
  PROVE  AInv'
<1> DEFINE p == First(RelayPairs)
           p1 == p[1]
           p2 == p[2]
           a == vbs[p1]
           b == vbs[p2]
           n == Len(vbs)
           upd == [vbs EXCEPT ![p1] = Merge(@, vbs[p2])]
           s == RemoveAt(upd, p2)
           V == Values(prog)
           f(k) == IF k < p2 THEN k ELSE k + 1
<1>1. /\ prog \in Programs /\ stage = "relay" /\ stage' = "relay" /\ RelayPairs # {}
      /\ prog' = prog /\ cursor' = cursor /\ cursor \in Nat \ {0} /\ UNCHANGED coloring
      /\ vbs' = s
  BY DEF AInv, Relay
<1>2. /\ Division(vbs) /\ Ordered(vbs) /\ MembersIn(vbs) = V
      /\ \A i \in DOMAIN vbs : Members(vbs[i]) \cap Apart # {} => vbs[i].excl
  BY <1>1 DEF AInv, MappedSoFar
<1>3. /\ vbs \in Seq(VBs(prog)) /\ n \in Nat /\ DOMAIN vbs = 1 .. n
      /\ \A i \in 1 .. n : vbs[i] \in VBs(prog) /\ VBInv(vbs[i])
  <2>1. vbs \in Seq(VBs(prog)) /\ \A i \in DOMAIN vbs : VBInv(vbs[i])
    BY <1>2 DEF Division
  <2>2. n \in Nat /\ DOMAIN vbs = 1 .. n
    BY <2>1, LenProperties
  <2> QED
    BY <2>1, <2>2, ElementOfSeq
<1>4. p \in RelayPairs
  <2>1. RelayPairs \in SUBSET (Nat \X Nat)
    BY <1>3 DEF RelayPairs
  <2>2. \E m \in RelayPairs :
          \A o \in RelayPairs : m[1] < o[1] \/ (m[1] = o[1] /\ m[2] <= o[2])
    BY <1>1, <2>1, FirstPair
  <2> QED
    BY <2>2 DEF First
<1>5. /\ p1 \in 1 .. n /\ p2 \in 1 .. n /\ p1 < p2
      /\ Shareable(a) /\ Shareable(b) /\ CanRelay(a, b)
  <2>1. /\ p \in (DOMAIN vbs) \X (DOMAIN vbs) /\ p1 < p2
        /\ \A i \in {p1, p2} : vbs[i].type = "Standard" /\ ~ vbs[i].excl
        /\ CanRelay(vbs[p1], vbs[p2])
    BY <1>4 DEF RelayPairs
  <2>2. /\ p[1] \in DOMAIN vbs /\ p[2] \in DOMAIN vbs
        /\ vbs[p[1]].type = "Standard" /\ ~ vbs[p[1]].excl
        /\ vbs[p[2]].type = "Standard" /\ ~ vbs[p[2]].excl
    <3> HIDE DEF p
    <3> QED
      BY <2>1
  <2>3. p[1] \in 1 .. n /\ p[2] \in 1 .. n /\ p[1] < p[2] /\ CanRelay(vbs[p[1]], vbs[p[2]])
    BY <1>3, <2>1, <2>2
  <2>4. Shareable(vbs[p[1]]) /\ Shareable(vbs[p[2]])
    BY <2>2 DEF Shareable
  <2> QED
    BY <2>3, <2>4
<1>6. a.birth <= b.birth /\ a.birth \in Nat /\ b.birth \in Nat
  <2> HIDE DEF p1, p2
  <2>1. a \in VBs(prog) /\ b \in VBs(prog)
    BY <1>3, <1>5
  <2>2. a.birth <= b.birth
    BY <1>2, <1>3, <1>5 DEF Ordered
  <2> HIDE DEF a, b
  <2>3. a.birth \in Nat /\ b.birth \in Nat
    BY <2>1 DEF VBs
  <2> QED
    BY <2>2, <2>3
<1>7. a.death = b.birth /\ ~ HandoffInterferes(a, b)
  BY <1>5, <1>6 DEF CanRelay
<1> DEFINE m == Merge(a, b)
<1>8. /\ m \in VBs(prog) /\ VBInv(m) /\ Members(m) = Members(a) \cup Members(b)
      /\ m.type = "Standard" /\ m.birth = a.birth /\ Shareable(m)
      /\ Members(a) \cap Apart = {} /\ Members(b) \cap Apart = {}
  <2>1. Members(a) \cap Apart = {} /\ Members(b) \cap Apart = {}
    BY <1>2, <1>3, <1>5 DEF Shareable
  <2>2. Members(a) \cap Members(b) = {}
    BY <1>2, <1>3, <1>5 DEF Division
  <2> QED
    BY <1>1, <1>3, <1>5, <1>7, <2>1, <2>2, MergeInv
<1> HIDE DEF m, p
<1>9. /\ upd \in Seq(VBs(prog)) /\ Len(upd) = n /\ upd[p1] = m
      /\ \A i \in 1 .. n : i # p1 => upd[i] = vbs[i]
  BY <1>3, <1>5, <1>8, ExceptSeq DEF m
<1>10. /\ s \in Seq(VBs(prog)) /\ Len(s) = n - 1
       /\ \A k \in 1 .. n - 1 : s[k] = upd[f(k)]
  <2> HIDE DEF upd
  <2> QED
    BY <1>5, <1>9, RemoveAtElements
<1>11. DOMAIN s = 1 .. n - 1
  <2> HIDE DEF s
  <2> QED
    BY <1>10, LenProperties
<1> HIDE DEF upd, s, a, b, n
<1>12. ASSUME NEW k \in 1 .. n - 1 PROVE f(k) \in 1 .. n /\ f(k) # p2
  BY <1>3, <1>5
<1>13. ASSUME NEW j \in 1 .. n, j # p2 PROVE \E k \in 1 .. n - 1 : f(k) = j
  <2>1. CASE j < p2
    <3>1. j \in 1 .. n - 1 /\ f(j) = j
      BY <1>3, <1>5, <2>1
    <3> QED
      BY <3>1
  <2>2. CASE ~ j < p2
    <3>1. j - 1 \in 1 .. n - 1 /\ f(j - 1) = j
      BY <1>3, <1>5, <1>13, <2>2
    <3> QED
      BY <3>1
  <2> QED
    BY <2>1, <2>2
<1>14. ASSUME NEW k \in 1 .. n - 1, NEW j \in 1 .. n - 1, k < j PROVE f(k) < f(j)
  BY <1>3, <1>5, <1>14
<1>15. \A k \in 1 .. n - 1 : s[k] = upd[f(k)] /\ f(k) \in 1 .. n /\ f(k) # p2
  BY <1>10, <1>12
<1>16. /\ \A k, j \in 1 .. n - 1 : k < j => f(k) < f(j)
       /\ \A k, j \in 1 .. n - 1 : k # j => f(k) # f(j)
  <2>1. \A k, j \in 1 .. n - 1 : k < j => f(k) < f(j)
    BY <1>14
  <2>2. ASSUME NEW k \in 1 .. n - 1, NEW j \in 1 .. n - 1, k # j PROVE f(k) # f(j)
    BY <1>3, <1>5, <2>2
  <2> QED
    BY <2>1, <2>2
<1> HIDE DEF f
(* The sequence with the merged VB in place of the first, before removal. *)
<1>17. ASSUME NEW i \in 1 .. n
       PROVE  /\ upd[i] \in VBs(prog) /\ VBInv(upd[i])
              /\ upd[i].type = vbs[i].type /\ upd[i].birth = vbs[i].birth
              /\ Shareable(upd[i]) <=> Shareable(vbs[i])
              /\ i # p1 => Members(upd[i]) = Members(vbs[i])
              /\ i = p1 => Members(upd[i]) = Members(vbs[p1]) \cup Members(vbs[p2])
              /\ Members(upd[i]) \cap Apart # {} => upd[i].excl
  <2>1. CASE i = p1
    <3>1. upd[i] = m /\ vbs[i] = a /\ a.type = "Standard"
      BY <1>5, <1>9, <2>1 DEF a, Shareable
    <3> QED
      BY <1>5, <1>8, <2>1, <3>1 DEF a, b
  <2>2. CASE i # p1
    <3>1. upd[i] = vbs[i]
      BY <1>9, <2>2
    <3> QED
      BY <1>2, <1>3, <2>2, <3>1
  <2> QED
    BY <2>1, <2>2
<1>18. \A i, j \in 1 .. n : i # j => Members(vbs[i]) \cap Members(vbs[j]) = {}
  BY <1>2, <1>3 DEF Division
<1>19. ASSUME NEW i \in 1 .. n, NEW j \in 1 .. n, i # j, i # p2, j # p2
       PROVE  Members(upd[i]) \cap Members(upd[j]) = {}
  <2>1. CASE i = p1
    BY <1>5, <1>17, <1>18, <1>19, <2>1
  <2>2. CASE j = p1
    BY <1>5, <1>17, <1>18, <1>19, <2>2
  <2>3. CASE i # p1 /\ j # p1
    BY <1>17, <1>18, <1>19, <2>3
  <2> QED
    BY <2>1, <2>2, <2>3
<1>20. Division(s)
  <2>1. \A k \in 1 .. n - 1 : VBInv(s[k])
    BY <1>15, <1>17
  <2>2. \A k, j \in 1 .. n - 1 : k # j => Members(s[k]) \cap Members(s[j]) = {}
    BY <1>15, <1>16, <1>19
  <2> QED
    BY <1>10, <1>11, <2>1, <2>2 DEF Division
<1>21. MembersIn(s) = V
  <2>1. \A i \in 1 .. n : Members(vbs[i]) \subseteq V
    BY <1>2, <1>3 DEF MembersIn
  <2>2. \A k \in 1 .. n - 1 : Members(s[k]) \subseteq V
    <3> SUFFICES ASSUME NEW k \in 1 .. n - 1 PROVE Members(upd[f(k)]) \subseteq V
      BY <1>15
    <3> QED
      BY <1>5, <1>15, <1>17, <2>1
  <2>3. ASSUME NEW i \in 1 .. n, NEW v \in Members(vbs[i])
        PROVE  \E k \in 1 .. n - 1 : v \in Members(s[k])
    <3>1. PICK j \in 1 .. n : j # p2 /\ v \in Members(upd[j])
      <4>1. CASE i = p2
        <5>1. v \in Members(upd[p1]) /\ p1 # p2
          BY <1>5, <1>17, <2>3, <4>1
        <5> QED
          BY <1>5, <5>1
      <4>2. CASE i # p2
        BY <1>5, <1>17, <2>3, <4>2
      <4> QED
        BY <4>1, <4>2
    <3>2. PICK k \in 1 .. n - 1 : f(k) = j
      BY <1>13, <3>1
    <3> QED
      BY <1>15, <3>1, <3>2
  <2>4. MembersIn(s) \subseteq V
    BY <1>11, <2>2 DEF MembersIn
  <2>5. V \subseteq MembersIn(s)
    <3> SUFFICES ASSUME NEW v \in V PROVE v \in MembersIn(s)
      OBVIOUS
    <3>1. PICK i \in 1 .. n : v \in Members(vbs[i])
      BY <1>2, <1>3 DEF MembersIn
    <3>2. PICK k \in 1 .. n - 1 : v \in Members(s[k])
      BY <2>3, <3>1
    <3> QED
      BY <1>11, <3>2 DEF MembersIn
  <2> QED
    BY <2>4, <2>5
<1>22. Ordered(s)
  <2> SUFFICES ASSUME NEW k \in 1 .. n - 1, NEW j \in 1 .. n - 1, k < j, Shareable(s[k])
               PROVE  s[j].type = "Standard" /\ (Shareable(s[j]) => s[k].birth <= s[j].birth)
    BY <1>11 DEF Ordered
  <2>1. f(k) < f(j) /\ f(k) \in 1 .. n /\ f(j) \in 1 .. n /\ s[k] = upd[f(k)] /\ s[j] = upd[f(j)]
    BY <1>15, <1>16
  <2>2. Shareable(vbs[f(k)]) /\ s[k].birth = vbs[f(k)].birth /\ s[j].birth = vbs[f(j)].birth
        /\ s[j].type = vbs[f(j)].type /\ (Shareable(s[j]) => Shareable(vbs[f(j)]))
    BY <1>17, <2>1
  <2> QED
    BY <1>2, <1>3, <2>1, <2>2 DEF Ordered
<1>23. \A k \in 1 .. n - 1 : Members(s[k]) \cap Apart # {} => s[k].excl
  BY <1>15, <1>17
<1>24. Division(vbs)' /\ Ordered(vbs)' /\ MembersIn(vbs)' = MembersIn(s)
  BY <1>1, <1>20, <1>22, Carried
<1>25. MappedSoFar'
  <2>1. Args(prog) \subseteq V /\ prog.special \subseteq V
    BY <1>1, SpecialValues, NodeFacts
  <2>2. \A i \in DOMAIN prog.phis : prog.phis[i].arg \in V
    BY <2>1 DEF Args
  <2>3. Apart' = Apart /\ Values(prog)' = V
    BY <1>1 DEF Apart
  <2>4. \A i \in DOMAIN vbs' : (Members(vbs[i]) \cap Apart # {} => vbs[i].excl)'
    BY <1>1, <1>11, <1>23 DEF Apart, Members
  <2> QED
    BY <1>1, <1>21, <1>24, <2>1, <2>2, <2>3, <2>4 DEF MappedSoFar
<1>26. Colored'
  BY <1>1, StillFresh
<1> QED
  BY <1>1, <1>24, <1>25, <1>26 DEF AInv

-----------------------------------------------------------------------------
(* The colouring. *)

(* A VB holds a value of its own: there are no more VBs than nodes. *)
LEMMA VBsAreFew ==
  ASSUME AInv, stage = "relay"
  PROVE  Len(vbs) \in 1 .. MaxVBs /\ DOMAIN vbs = 1 .. Len(vbs)
<1> DEFINE n == Len(vbs)
           nodes == Nodes(prog)
           N == Len(nodes)
           first(i) == vbs[i].members[1]
           pos(v) == CHOOSE k \in 1 .. N : nodes[k] = v
           f == [i \in 1 .. n |-> pos(first(i))]
<1>1. /\ prog \in Programs /\ Division(vbs) /\ MembersIn(vbs) = Values(prog)
      /\ vbs \in Seq(VBs(prog))
  BY DEF AInv, MappedSoFar, Division
<1>2. n \in Nat /\ DOMAIN vbs = 1 .. n
  BY <1>1, LenProperties
<1>3. N \in 1 .. MaxVBs /\ MaxVBs \in Nat /\ DOMAIN nodes = 1 .. N
  <2>1. nodes \in Seq(Values(prog))
    BY <1>1, NodeFacts
  <2> QED
    BY <1>1, <2>1, ProgramsAssumption, BoundsAssumption, LenProperties
<1>4. Values(prog) = {nodes[k] : k \in 1 .. N}
  BY <1>3 DEF Values, ToSet
<1>5. ASSUME NEW i \in 1 .. n PROVE first(i) \in Members(vbs[i]) /\ first(i) \in Values(prog)
  <2>1. vbs[i] \in VBs(prog) /\ vbs[i].members # <<>>
    BY <1>1, <1>2, ElementOfSeq DEF Division, VBInv
  <2>2. vbs[i].members \in Seq(Values(prog))
    BY <2>1 DEF VBs
  <2>3. 1 \in DOMAIN vbs[i].members
    BY <2>1, <2>2
  <2> QED
    BY <2>2, <2>3 DEF Members, ToSet
<1> HIDE DEF n, nodes, N, first
<1>6. ASSUME NEW v \in Values(prog) PROVE pos(v) \in 1 .. N /\ nodes[pos(v)] = v
  BY <1>4
<1> HIDE DEF pos
<1>7. f \in [1 .. n -> 1 .. N]
  BY <1>5, <1>6
<1>8. ASSUME NEW i \in 1 .. n, NEW j \in 1 .. n, f[i] = f[j] PROVE i = j
  <2>1. first(i) = first(j)
    BY <1>5, <1>6, <1>8
  <2> QED
    BY <1>1, <1>2, <1>5, <2>1 DEF Division
<1> HIDE DEF f
<1>9. n <= N
  <2>1. f \in Injection(1 .. n, 1 .. N)
    BY <1>7, <1>8 DEF Injection, IsInjective
  <2>2. /\ IsFiniteSet(1 .. n) /\ Cardinality(1 .. n) = IF 1 > n THEN 0 ELSE n - 1 + 1
        /\ IsFiniteSet(1 .. N) /\ Cardinality(1 .. N) = IF 1 > N THEN 0 ELSE N - 1 + 1
    BY <1>2, <1>3, FS_Interval
  <2>3. Cardinality(1 .. n) <= Cardinality(1 .. N)
    BY <2>1, <2>2, FS_Injection
  <2> QED
    BY <1>2, <1>3, <2>2, <2>3
<1>10. n # 0
  <2>1. nodes[1] \in Values(prog)
    BY <1>3, <1>4
  <2>2. PICK i \in DOMAIN vbs : nodes[1] \in Members(vbs[i])
    BY <1>1, <2>1 DEF MembersIn
  <2> QED
    BY <1>2, <2>2
<1> QED
  BY <1>2, <1>3, <1>9, <1>10 DEF n

(* What may share depends on the program and the VBs only. *)
LEMMA SharingCarried ==
  ASSUME prog' = prog, vbs' = vbs
  PROVE  /\ RelayPairs' = RelayPairs
         /\ \A m \in (DOMAIN vbs) \X (DOMAIN vbs) :
              HandoffInterferes(vbs[m[1]], vbs[m[2]])' = HandoffInterferes(vbs[m[1]], vbs[m[2]])
BY DEF RelayPairs, CanRelay, HandoffInterferes, Matches, DefiningOp, BirthNode

(* buildInterferenceGraphs starts on a bucket as GreedyColoring has it. *)
LEMMA StartColoringInv ==
  ASSUME AInv, StartColoring
  PROVE  AInv'
<1> DEFINE n == Len(vbs)
<1>1. /\ prog \in Programs /\ cursor \in Nat \ {0} /\ stage = "relay" /\ stage' = "color"
      /\ prog' = prog /\ vbs' = vbs /\ cursor' = cursor /\ RelayPairs = {}
      /\ UNCHANGED <<syncs, phase, edges, numColors>>
      /\ phase = "build" /\ edges = {} /\ numColors = 0 /\ syncs = {}
      /\ Division(vbs) /\ Ordered(vbs) /\ MappedSoFar
  BY DEF AInv, StartColoring, Colored
<1>2. /\ size' = n
      /\ birth' = [i \in DOMAIN vbs |-> vbs[i].birth]
      /\ death' = [i \in DOMAIN vbs |-> vbs[i].death]
      /\ exclusive' = {i \in DOMAIN vbs : vbs[i].excl}
      /\ handoff' = {m \in (DOMAIN vbs) \X (DOMAIN vbs) :
                       m[1] # m[2] /\ HandoffInterferes(vbs[m[1]], vbs[m[2]])}
      /\ color' = [i \in DOMAIN vbs |-> -1]
  BY DEF StartColoring
<1>3. n \in 1 .. MaxVBs /\ n \in Nat /\ DOMAIN vbs = 1 .. n
  BY <1>1, VBsAreFew, BoundsAssumption
<1>4. \A i \in 1 .. n : /\ vbs[i].birth \in 0 .. MaxIndex /\ vbs[i].death \in 0 .. MaxIndex
                        /\ vbs[i].birth <= vbs[i].death
  <2> SUFFICES ASSUME NEW i \in 1 .. n
               PROVE  /\ vbs[i].birth \in 0 .. MaxIndex /\ vbs[i].death \in 0 .. MaxIndex
                      /\ vbs[i].birth <= vbs[i].death
    OBVIOUS
  <2>1. vbs[i] \in VBs(prog) /\ VBInv(vbs[i])
    BY <1>1, <1>3, ElementOfSeq DEF Division
  <2>2. vbs[i].birth \in 1 .. Len(prog.code) /\ vbs[i].death \in 1 .. Len(prog.code)
    BY <2>1 DEF VBs
  <2>3. Len(prog.code) <= MaxIndex /\ MaxIndex \in Nat /\ Len(prog.code) \in Nat
    BY <1>1, ProgramsAssumption, BoundsAssumption, ProgramFacts
  <2> QED
    BY <2>1, <2>2, <2>3 DEF VBInv
<1> HIDE DEF n
<1>5. VB' = 1 .. n
  BY <1>2 DEF VB
<1>6. BucketOK'
  <2>1. /\ birth' \in [VB' -> 0 .. MaxIndex] /\ death' \in [VB' -> 0 .. MaxIndex]
        /\ \A v \in VB' : birth'[v] <= death'[v]
    BY <1>2, <1>3, <1>4, <1>5
  <2>2. exclusive' \subseteq VB' /\ handoff' \subseteq VB' \X VB'
    BY <1>2, <1>3, <1>5
  <2>3. syncs' = {}
    BY <1>1
  <2> QED
    BY <1>2, <1>3, <2>1, <2>2, <2>3 DEF BucketOK
<1>7. \A v \in VB' : color'[v] = -1
  BY <1>2, <1>3, <1>5
<1>8. SolverOK'
  <2>1. color' \in [VB' -> -1 .. size']
    BY <1>2, <1>3, <1>5
  <2>2. phase' = "build" /\ edges' = {} /\ numColors' = 0 /\ size' = n
    BY <1>1, <1>2
  <2> QED
    BY <1>3, <2>1, <2>2 DEF SolverOK
<1>9. FreshOK' /\ NodeUniform' /\ Proper' /\ DoneOK'
  BY <1>1, <1>7 DEF FreshOK, NodeUniform, Proper, DoneOK
<1>10. SlotsInUse'
  BY <1>1, <1>7 DEF SlotsInUse
<1>11. RelayPairs' = RelayPairs
  BY <1>1, SharingCarried
<1>12. handoff' = {m \in (DOMAIN vbs) \X (DOMAIN vbs) :
                     m[1] # m[2] /\ HandoffInterferes(vbs[m[1]], vbs[m[2]])}'
  BY <1>1, <1>2, SharingCarried
<1>13. Colored'
  BY <1>1, <1>2, <1>6, <1>8, <1>9, <1>10, <1>11, <1>12 DEF Colored, IInv, n
<1>14. Division(vbs)' /\ Ordered(vbs)' /\ MembersIn(vbs)' = MembersIn(vbs)
  BY <1>1, Carried
<1>15. MappedSoFar'
  BY <1>1, <1>14 DEF MappedSoFar, Apart, Members
<1> QED
  BY <1>1, <1>13, <1>14, <1>15 DEF AInv

(* The solver does not touch its bucket. *)
LEMMA ColorInv ==
  ASSUME AInv, Color
  PROVE  AInv'
<1>1. /\ prog \in Programs /\ cursor \in Nat \ {0} /\ stage = "color" /\ stage' = "color"
      /\ prog' = prog /\ vbs' = vbs /\ cursor' = cursor /\ Next
      /\ Division(vbs) /\ Ordered(vbs) /\ MappedSoFar /\ Colored /\ IInv /\ RelayPairs = {}
  BY DEF AInv, Color, Colored
<1>2. IInv'
  BY <1>1, NextInv
<1>3. UNCHANGED bucket
  BY <1>1 DEF Next, Build, Fatal, ColorNode, Finish
<1>4. RelayPairs' = RelayPairs
  BY <1>1, SharingCarried
<1>5. {m \in (DOMAIN vbs) \X (DOMAIN vbs) :
         m[1] # m[2] /\ HandoffInterferes(vbs[m[1]], vbs[m[2]])}'
        = {m \in (DOMAIN vbs) \X (DOMAIN vbs) :
             m[1] # m[2] /\ HandoffInterferes(vbs[m[1]], vbs[m[2]])}
  BY <1>1, SharingCarried
<1>6. Colored'
  BY <1>1, <1>2, <1>3, <1>4, <1>5 DEF Colored, bucket
<1>7. Division(vbs)' /\ Ordered(vbs)' /\ MembersIn(vbs)' = MembersIn(vbs)
  BY <1>1, Carried
<1>8. MappedSoFar'
  BY <1>1, <1>7 DEF MappedSoFar, Apart, Members
<1> QED
  BY <1>1, <1>6, <1>7, <1>8 DEF AInv

LEMMA StutterInv ==
  ASSUME AInv, UNCHANGED avars
  PROVE  AInv'
<1>1. /\ prog' = prog /\ vbs' = vbs /\ cursor' = cursor /\ stage' = stage
      /\ UNCHANGED bucket /\ UNCHANGED vars
      /\ Division(vbs) /\ Ordered(vbs) /\ MappedSoFar /\ Colored
      /\ prog \in Programs /\ cursor \in Nat \ {0}
      /\ stage \in {"special", "phi", "eternal", "standard", "relay", "color"}
  BY DEF AInv, avars, coloring, bucket, vars
<1>2. RelayPairs' = RelayPairs
  BY <1>1, SharingCarried
<1>3. {m \in (DOMAIN vbs) \X (DOMAIN vbs) :
         m[1] # m[2] /\ HandoffInterferes(vbs[m[1]], vbs[m[2]])}'
        = {m \in (DOMAIN vbs) \X (DOMAIN vbs) :
             m[1] # m[2] /\ HandoffInterferes(vbs[m[1]], vbs[m[2]])}
  BY <1>1, SharingCarried
<1>4. Colored'
  <2>1. IInv => IInv'
    BY <1>1, NextInv
  <2> QED
    BY <1>1, <1>2, <1>3, <2>1 DEF Colored, bucket, vars
<1>5. Division(vbs)' /\ Ordered(vbs)' /\ MembersIn(vbs)' = MembersIn(vbs)
  BY <1>1, Carried
<1>6. MappedSoFar'
  BY <1>1, <1>5 DEF MappedSoFar, Apart, Members
<1> QED
  BY <1>1, <1>4, <1>5, <1>6 DEF AInv

LEMMA AInitInv == AInit => AInv
<1> SUFFICES ASSUME AInit PROVE AInv
  OBVIOUS
<1>1. /\ prog \in Programs /\ stage = "special" /\ vbs = <<>> /\ cursor = 1 /\ syncs = {}
      /\ phase = "build" /\ edges = {} /\ numColors = 0
  BY DEF AInit
<1>2. DOMAIN vbs = {} /\ vbs \in Seq(VBs(prog))
  BY <1>1
<1>3. Division(vbs) /\ Ordered(vbs)
  BY <1>2 DEF Division, Ordered
<1>4. MappedSoFar
  <2>1. \A i \in DOMAIN prog.phis : i < cursor => FALSE
    <3>1. DOMAIN prog.phis = 1 .. Len(prog.phis) /\ Len(prog.phis) \in Nat
      BY <1>1, ProgramFacts
    <3> QED
      BY <1>1, <3>1
  <2> QED
    BY <1>1, <1>2, <2>1 DEF MappedSoFar
<1>5. Colored
  BY <1>1 DEF Colored
<1> QED
  BY <1>1, <1>3, <1>4, <1>5 DEF AInv

(* Every step of the analysis keeps the invariant.                          *)
LEMMA AnalysisStep == AInv /\ [ANext \/ APlanned]_avars => AInv'
<1> SUFFICES ASSUME AInv, [ANext \/ APlanned]_avars PROVE AInv'
  OBVIOUS
<1>1. CASE Special
  BY <1>1, SpecialInv
<1>2. CASE PhiFuse
  BY <1>2, PhiFuseInv
<1>3. CASE PhiDone
  BY <1>3, PhiDoneInv
<1>4. CASE Eternal
  BY <1>4, EternalInv
<1>5. CASE Standard
  BY <1>5, StandardInv
<1>6. CASE Relay
  BY <1>6, RelayInv
<1>7. CASE StartColoring
  BY <1>7, StartColoringInv
<1>8. CASE Color
  BY <1>8, ColorInv
<1>9. CASE APlanned \/ UNCHANGED avars
  BY <1>9, StutterInv DEF APlanned
<1> QED
  BY <1>1, <1>2, <1>3, <1>4, <1>5, <1>6, <1>7, <1>8, <1>9 DEF ANext

(* AInv holds of every analysis of every program. *)
THEOREM AnalysisInvariant == ASpec => []AInv
<1> QED
  BY AInitInv, AnalysisStep, PTL DEF ASpec

-----------------------------------------------------------------------------
(* What the invariant shows. *)

(* A value's VB, once they all have one. *)
LEMMA VBOfFacts ==
  ASSUME AInv, stage \in {"relay", "color"}, NEW v \in Values(prog)
  PROVE  /\ VBOf(v) \in DOMAIN vbs /\ v \in Members(vbs[VBOf(v)])
         /\ \A i \in DOMAIN vbs : v \in Members(vbs[i]) => i = VBOf(v)
<1>1. MembersIn(vbs) = Values(prog) /\ Division(vbs)
  BY DEF AInv, MappedSoFar
<1>2. \E i \in DOMAIN vbs : v \in Members(vbs[i])
  BY <1>1 DEF MembersIn
<1>3. VBOf(v) \in DOMAIN vbs /\ v \in Members(vbs[VBOf(v)])
  BY <1>2 DEF VBOf
<1> QED
  BY <1>1, <1>3 DEF Division

(* The phases divide the tensors of the bucket: none is left out, none has  *)
(* two VBs, and the mergeable VBs stay in order of birth.                   *)
THEOREM ValuesDivided == ASpec => []OneBufferPerValue
<1>1. AInv => OneBufferPerValue
  <2> SUFFICES ASSUME AInv PROVE OneBufferPerValue
    OBVIOUS
  <2>1. Division(vbs) /\ Ordered(vbs) /\ MappedSoFar
    BY DEF AInv
  <2>2. \A i \in DOMAIN vbs : IsInjective(vbs[i].members)
    BY <2>1 DEF Division, VBInv
  <2>3. \A i, j \in DOMAIN vbs : i # j => Members(vbs[i]) \cap Members(vbs[j]) = {}
    BY <2>1 DEF Division
  <2>4. stage \in {"relay", "color"} => Mapped = Values(prog)
    BY <2>1 DEF MappedSoFar, Mapped, MembersIn
  <2>5. ASSUME NEW i \in DOMAIN vbs, NEW j \in DOMAIN vbs, i < j,
               \A n \in {i, j} : vbs[n].type = "Standard" /\ ~ vbs[n].excl
        PROVE  vbs[i].birth <= vbs[j].birth
    BY <2>1, <2>5 DEF Ordered, Shareable
  <2> QED
    BY <2>2, <2>3, <2>4, <2>5 DEF OneBufferPerValue
<1> QED
  BY <1>1, AnalysisInvariant, PTL

(* Nothing is used outside the lifetime of the VB that holds it. *)
THEOREM LifetimesAlwaysCovered == ASpec => []LifetimesCovered
<1>1. AInv => LifetimesCovered
  <2> SUFFICES ASSUME AInv, NothingOutlivesLoop(prog), SpecialsLocal(prog),
                      NEW i \in DOMAIN vbs, NEW v \in Members(vbs[i])
               PROVE  vbs[i].birth <= DefIdx(prog, v) /\ LiveUntil(prog, v) <= vbs[i].death
    BY DEF LifetimesCovered
  <2>1. VBInv(vbs[i])
    BY DEF AInv, Division
  <2>2. Promised(vbs[i])
    BY DEF Promised
  <2> QED
    BY <2>1, <2>2 DEF VBInv
<1> QED
  BY <1>1, AnalysisInvariant, PTL

(* Values fused into one VB take turns, in whatever order phi fusion and    *)
(* relay fusion put them there.                                             *)
THEOREM MembersAlwaysTakeTurns == ASpec => []MembersTakeTurns
<1>1. AInv => MembersTakeTurns
  BY DEF AInv, Division, VBInv, TakesTurns, MembersTakeTurns
<1> QED
  BY <1>1, AnalysisInvariant, PTL

(* Two VBs in one buffer neither interfere nor are exclusive. *)
LEMMA SharersApart ==
  ASSUME AInv, phase = "done", NEW i \in DOMAIN vbs, NEW j \in DOMAIN vbs, i # j,
         color[i] = color[j]
  PROVE  /\ stage = "color" /\ ~ vbs[i].excl /\ ~ vbs[j].excl
         /\ ~ PairInterferes(i, j)
         /\ RelayPairs = {}
         /\ DOMAIN vbs = 1 .. Len(vbs) /\ Len(vbs) \in Nat
         /\ birth[i] = vbs[i].birth /\ death[i] = vbs[i].death
         /\ birth[j] = vbs[j].birth /\ death[j] = vbs[j].death
         /\ HandoffInterferes(vbs[i], vbs[j]) => <<i, j>> \in handoff
<1>1. /\ stage = "color" /\ IInv /\ RelayPairs = {} /\ size = Len(vbs) /\ syncs = {}
      /\ birth = [k \in DOMAIN vbs |-> vbs[k].birth]
      /\ death = [k \in DOMAIN vbs |-> vbs[k].death]
      /\ exclusive = {k \in DOMAIN vbs : vbs[k].excl}
      /\ handoff = {m \in (DOMAIN vbs) \X (DOMAIN vbs) :
                      m[1] # m[2] /\ HandoffInterferes(vbs[m[1]], vbs[m[2]])}
  BY DEF AInv, Colored
<1>2. DOMAIN vbs = 1 .. Len(vbs) /\ Len(vbs) \in Nat
  <2>1. vbs \in Seq(VBs(prog))
    BY DEF AInv, Division
  <2> QED
    BY <2>1, LenProperties
<1>3. /\ i \in VB /\ j \in VB /\ color[i] >= 0 /\ color[j] >= 0 
  BY <1>1, <1>2 DEF VB, IInv, DoneOK
<1>4. NodeOf(i) # NodeOf(j)
  BY <1>1 DEF NodeOf, Synced
<1>5. NoSharedOverlap /\ ExclusiveAlone
  BY <1>1, InvSeparates
<1>6. ~ PairInterferes(i, j)
  BY <1>3, <1>4, <1>5 DEF NoSharedOverlap
<1>7. i \notin exclusive /\ j \notin exclusive
  BY <1>3, <1>4, <1>5 DEF ExclusiveAlone
<1>8. HandoffInterferes(vbs[i], vbs[j]) => <<i, j>> \in handoff
  BY <1>1
<1> QED
  BY <1>1, <1>2, <1>6, <1>7, <1>8

(* The buffer of what a DMA handles, or of a special memory kind, is its    *)
(* own.                                                                     *)
THEOREM HandoffsAlwaysAlone == ASpec => []HandoffsAlone
<1>1. AInv => HandoffsAlone
  <2> SUFFICES ASSUME AInv, phase = "done", NEW v \in Apart
               PROVE  /\ vbs[VBOf(v)].members = <<v>>
                      /\ \A j \in DOMAIN vbs : color[j] = color[VBOf(v)] => j = VBOf(v)
    BY DEF HandoffsAlone, Apart
  <2>1. stage = "color" /\ prog \in Programs /\ MappedSoFar
    BY DEF AInv, Colored
  <2>2. v \in Values(prog)
    BY <2>1, SpecialValues
  <2>3. VBOf(v) \in DOMAIN vbs /\ v \in Members(vbs[VBOf(v)])
    BY <2>1, <2>2, VBOfFacts
  <2>4. vbs[VBOf(v)].members = <<v>>
    BY <2>3 DEF AInv, Division, VBInv
  <2>5. vbs[VBOf(v)].excl
    BY <2>1, <2>3 DEF MappedSoFar
  <2>6. ASSUME NEW j \in DOMAIN vbs, color[j] = color[VBOf(v)] PROVE j = VBOf(v)
    BY <2>3, <2>5, <2>6, SharersApart
  <2> QED
    BY <2>4, <2>6
<1> QED
  BY <1>1, AnalysisInvariant, PTL

(* What is known of a value whose VB is not exclusive. *)
LEMMA SharerFacts ==
  ASSUME AInv, stage = "color", NEW i \in DOMAIN vbs, ~ vbs[i].excl, NEW w \in Members(vbs[i]),
         NothingOutlivesLoop(prog)
  PROVE  /\ prog \in Programs /\ vbs[i] \in VBs(prog) /\ w \in Values(prog)
         /\ DefIdx(prog, w) \in Nat /\ LiveUntil(prog, w) \in Nat
         /\ vbs[i].birth \in Nat /\ vbs[i].death \in Nat /\ vbs[i].birth <= vbs[i].death
         /\ vbs[i].birth <= DefIdx(prog, w) /\ LiveUntil(prog, w) <= vbs[i].death
         /\ DefIdx(prog, w) <= LiveUntil(prog, w)
         /\ vbs[i].type # "Standard" => Yield(prog) <= vbs[i].death
         /\ w \in Args(prog) => Yield(prog) <= vbs[i].death
         /\ w \in Results(prog) => DefIdx(prog, w) = Loop(prog) /\ LiveFrom(w) = Yield(prog)
         /\ w \notin Results(prog) => LiveFrom(w) = DefIdx(prog, w)
         /\ \A k \in Uses(prog, w) : LiveFrom(w) < k /\ k <= LiveUntil(prog, w)
<1> DEFINE a == vbs[i]
<1>1. prog \in Programs /\ a \in VBs(prog) /\ VBInv(a) /\ (Members(a) \cap Apart # {} => a.excl)
  BY ElementOfSeq DEF AInv, MappedSoFar, Division
<1>2. Members(a) \cap Apart = {}
  BY <1>1
<1>3. w \in Values(prog)
  BY <1>1 DEF VBs, Members, ToSet
<1>4. Promised(a)
  BY <1>2 DEF Promised, Apart
<1>5. /\ a.birth <= DefIdx(prog, w) /\ LiveUntil(prog, w) <= a.death /\ a.birth <= a.death
      /\ a.type # "Standard" => Yield(prog) <= a.death
      /\ w \in Args(prog) => Yield(prog) <= a.death
  <2>1. w \in Args(prog) => a.type \in {"Fused", "LoopCarried"}
    BY <1>1, <1>2 DEF VBInv
  <2> QED
    BY <1>1, <1>4, <2>1 DEF VBInv
<1>6. a.birth \in 1 .. Len(prog.code) /\ a.death \in 1 .. Len(prog.code)
  BY <1>1 DEF VBs
<1>7. /\ DefIdx(prog, w) \in 1 .. Len(prog.code) /\ LiveUntil(prog, w) \in 1 .. Len(prog.code)
      /\ Death(prog, w) \in 1 .. Len(prog.code) /\ Len(prog.code) \in Nat
      /\ DefIdx(prog, w) <= Death(prog, w) /\ Death(prog, w) <= LiveUntil(prog, w)
      /\ Loop(prog) \in 1 .. Len(prog.code) /\ Yield(prog) \in 1 .. Len(prog.code)
  BY <1>1, <1>3, NodeFacts, LiveFacts, UseFacts, ProgramFacts
<1>8. /\ w \in Results(prog) => DefIdx(prog, w) = Loop(prog) /\ LiveFrom(w) = Yield(prog)
      /\ w \notin Results(prog) => LiveFrom(w) = DefIdx(prog, w)
      /\ w \in Args(prog) => DefIdx(prog, w) = Loop(prog)
  BY <1>1, <1>3, NodeFacts DEF LiveFrom
<1>9. ASSUME NEW k \in Uses(prog, w) PROVE LiveFrom(w) < k /\ k <= LiveUntil(prog, w)
  <2>1. k \in 1 .. Len(prog.code) /\ Visible(prog, w, k) /\ k <= Death(prog, w)
    BY <1>1, <1>3, UseFacts
  <2>2. LiveFrom(w) < k
    BY <1>8, <2>1 DEF Visible, InLoop
  <2> QED
    BY <1>7, <2>1, <2>2
<1> HIDE DEF a
<1>10. DefIdx(prog, w) <= LiveUntil(prog, w)
  BY <1>7
<1>11. a.birth \in Nat /\ a.death \in Nat /\ DefIdx(prog, w) \in Nat /\ LiveUntil(prog, w) \in Nat
  BY <1>6, <1>7
<1> QED
  BY <1>1, <1>3, <1>5, <1>8, <1>9, <1>10, <1>11 DEF a

(* A value is not written while one in the same buffer is still to be read. *)
LEMMA NoneOverwritten ==
  ASSUME AInv, phase = "done", NothingOutlivesLoop(prog),
         NEW i \in DOMAIN vbs, NEW j \in DOMAIN vbs, i # j, color[i] = color[j],
         NEW u \in Members(vbs[i]), NEW v \in Members(vbs[j]),
         LiveFrom(u) <= LiveFrom(v), LiveFrom(v) < LiveUntil(prog, u)
  PROVE  FALSE
<1> DEFINE a == vbs[i]
           b == vbs[j]
           l == Loop(prog)
           y == Yield(prog)
           D(w) == DefIdx(prog, w)
           L(w) == LiveUntil(prog, w)
<1>1. /\ stage = "color" /\ ~ a.excl /\ ~ b.excl /\ ~ PairInterferes(i, j) /\ RelayPairs = {}
      /\ DOMAIN vbs = 1 .. Len(vbs) /\ Len(vbs) \in Nat
      /\ birth[i] = a.birth /\ death[i] = a.death /\ birth[j] = b.birth /\ death[j] = b.death
  BY SharersApart
<1>2. /\ prog \in Programs /\ a \in VBs(prog) /\ u \in Values(prog)
      /\ D(u) \in Nat /\ L(u) \in Nat /\ a.birth \in Nat /\ a.death \in Nat
      /\ a.birth <= D(u) /\ L(u) <= a.death /\ D(u) <= L(u)
      /\ a.type # "Standard" => y <= a.death
      /\ u \in Results(prog) => D(u) = l /\ LiveFrom(u) = y
      /\ u \notin Results(prog) => LiveFrom(u) = D(u)
  BY <1>1, SharerFacts
<1>3. /\ b \in VBs(prog) /\ v \in Values(prog)
      /\ D(v) \in Nat /\ L(v) \in Nat /\ b.birth \in Nat /\ b.death \in Nat
      /\ b.birth <= D(v) /\ L(v) <= b.death /\ D(v) <= L(v) /\ b.birth <= b.death
      /\ b.type # "Standard" => y <= b.death
      /\ v \in Args(prog) => y <= b.death
      /\ v \in Results(prog) => D(v) = l /\ LiveFrom(v) = y
      /\ v \notin Results(prog) => LiveFrom(v) = D(v)
  BY <1>1, SharerFacts
<1>4. l \in Nat /\ y \in Nat /\ l < y /\ i \in Nat /\ j \in Nat
  BY <1>1, <1>2, ProgramFacts
<1>5. /\ ~ (a.birth < b.birth /\ b.birth < a.death) /\ ~ (b.birth < a.birth /\ a.birth < b.death)
      /\ ~ (a.birth = b.birth /\ i < j /\ b.birth < a.death)
      /\ ~ (b.birth = a.birth /\ j < i /\ a.birth < b.death)
  BY <1>1 DEF PairInterferes, Overlap, Earlier
<1>6. u # v /\ LiveFrom(u) <= LiveFrom(v) /\ LiveFrom(v) < L(u)
  BY <1>1, <1>2 DEF AInv, Division
<1> HIDE DEF a, b, l, y, D, L
(* Otherwise v would be written in the lifetime of its VB, which would      *)
(* overlap with that of u's.                                                *)
<1>7. b.birth <= a.birth /\ b.death <= a.birth
  BY <1>2, <1>3, <1>4, <1>5, <1>6
<1>8. CASE v \notin Results(prog)
  <2>1. D(u) = D(v) /\ LiveFrom(u) = LiveFrom(v) /\ b.death = D(v)
    BY <1>2, <1>3, <1>4, <1>6, <1>7, <1>8
  <2>2. v \in Args(prog)
    BY <1>2, <1>3, <1>6, <1>8, <2>1, SameLiveFrom
  <2>3. D(v) = l
    BY <1>2, <2>2, NodeFacts DEF D, l
  <2> QED
    BY <1>3, <1>4, <2>1, <2>2, <2>3
<1>9. CASE v \in Results(prog)
  <2>1. D(u) <= y /\ y < L(u)
    BY <1>2, <1>3, <1>4, <1>6, <1>9
  <2>2. u \notin Args(prog) /\ ~ InLoop(prog, D(u))
    <3>1. LiveUntil(prog, u) = L(u) /\ DefIdx(prog, u) = D(u) /\ Yield(prog) = y
      BY DEF L, D, y
    <3> QED
      BY <1>2, <1>4, <2>1, <3>1, LiveFacts
  <2>3. D(u) <= l
    BY <1>2, <1>4, <2>1, <2>2 DEF InLoop, l, y
  <2>4. D(u) = l /\ b.death = l /\ a.birth = l
    BY <1>2, <1>3, <1>4, <1>7, <1>9, <2>3
  <2>5. b.type = "Standard" /\ b.birth = l
    <3>1. b.type = "Standard"
      BY <1>3, <1>4, <2>4
    <3>2. VBInv(b)
      BY DEF AInv, Division, b
    <3> QED
      BY <1>9, <2>4, <3>1, <3>2 DEF VBInv, b, l
  <2>6. j < i
    BY <1>2, <1>3, <1>4, <1>5, <1>6, <2>1, <2>4, <2>5
  <2>7. Shareable(a) /\ Shareable(b)
    <3>1. Shareable(b)
      BY <1>1, <2>5 DEF Shareable
    <3>2. a.type = "Standard"
      BY <2>6, <3>1 DEF AInv, Ordered, a, b
    <3> QED
      BY <1>1, <3>1, <3>2 DEF Shareable
  <2>8. ~ HandoffInterferes(b, a)
    <3>1. DefiningOp(a) = prog.code[l]
      <4>1. \A w \in Members(a) : a.birth <= DefIdx(prog, w)
        BY DEF AInv, Division, VBInv, a
      <4> QED
        BY <1>2, <2>4, <4>1, DefinedAtBirth DEF D, a
    <3>2. ASSUME NEW m \in Matches(b, a) PROVE FALSE
      <4>1. /\ m[1] \in DOMAIN b.members /\ m[2] \in DOMAIN prog.code[l].ins
            /\ b.members[m[1]] = prog.code[l].ins[m[2]].val
        BY <3>1, <3>2 DEF Matches
      <4> DEFINE w == b.members[m[1]]
      <4>2. w \in Members(b) /\ w \in Values(prog)
        <5>1. b.members \in Seq(Values(prog))
          BY <1>3 DEF VBs
        <5> QED
          BY <4>1, <5>1, ElementOfSeq DEF Members, ToSet
      <4>3. l \in Uses(prog, w)
        <5>1. l \in DOMAIN prog.code
          BY <1>2, ProgramFacts DEF l
        <5> QED
          BY <4>1, <5>1 DEF Uses
      <4> HIDE DEF w
      <4>4. LiveFrom(w) < l /\ b.birth <= D(w) /\ (w \notin Results(prog) => LiveFrom(w) = D(w))
            /\ (w \in Results(prog) => LiveFrom(w) = y) /\ D(w) \in Nat
        BY <1>1, <4>2, <4>3, SharerFacts DEF b, D, y
      <4> QED
        BY <1>4, <2>5, <4>4
    <3> QED
      BY <3>2 DEF HandoffInterferes
  <2>9. CanRelay(b, a)
    BY <1>4, <2>4, <2>5, <2>8 DEF CanRelay
  <2>10. <<j, i>> \in RelayPairs
    <3>1. \A k \in {j, i} : vbs[k].type = "Standard" /\ ~ vbs[k].excl
      BY <2>7 DEF Shareable, a, b
    <3>2. j < i /\ CanRelay(vbs[j], vbs[i])
      BY <2>6, <2>9 DEF a, b
    <3> QED
      BY <3>1, <3>2 DEF RelayPairs
  <2> QED
    BY <1>1, <2>10
<1> QED
  BY <1>8, <1>9

(* A value is not written where an operation still reads one in the same    *)
(* buffer at other places.                                                  *)
LEMMA NoneMixedUp ==
  ASSUME AInv, phase = "done", NothingOutlivesLoop(prog), OtherReadsFirst(prog),
         NEW i \in DOMAIN vbs, NEW j \in DOMAIN vbs, i # j, color[i] = color[j],
         NEW u \in Members(vbs[i]), NEW v \in Members(vbs[j]),
         LiveFrom(v) = LiveUntil(prog, u), v \notin Results(prog),
         NEW o \in DOMAIN prog.code[DefIdx(prog, v)].ins,
         prog.code[DefIdx(prog, v)].ins[o].val = u, prog.code[DefIdx(prog, v)].ins[o].rel = "other"
  PROVE  FALSE
<1> DEFINE a == vbs[i]
           b == vbs[j]
           k == DefIdx(prog, v)
           ins == prog.code[k].ins
           m == First(Matches(a, b))
           w == a.members[m[1]]
<1>1. /\ stage = "color" /\ ~ a.excl /\ ~ b.excl /\ ~ PairInterferes(i, j)
      /\ DOMAIN vbs = 1 .. Len(vbs) /\ Len(vbs) \in Nat
      /\ birth[i] = a.birth /\ death[i] = a.death /\ birth[j] = b.birth /\ death[j] = b.death
      /\ HandoffInterferes(a, b) => <<i, j>> \in handoff
  BY SharersApart
<1>2. /\ prog \in Programs /\ a \in VBs(prog) /\ u \in Values(prog)
      /\ a.birth \in Nat /\ a.death \in Nat /\ DefIdx(prog, u) \in Nat
      /\ a.birth <= DefIdx(prog, u) /\ LiveUntil(prog, u) <= a.death
      /\ u \in Results(prog) => DefIdx(prog, u) = Loop(prog) /\ LiveFrom(u) = Yield(prog)
      /\ u \notin Results(prog) => LiveFrom(u) = DefIdx(prog, u)
      /\ \A n \in Uses(prog, u) : LiveFrom(u) < n /\ n <= LiveUntil(prog, u)
  BY <1>1, SharerFacts
<1>3. /\ b \in VBs(prog) /\ v \in Values(prog) /\ k \in Nat
      /\ b.birth \in Nat /\ b.death \in Nat
      /\ b.birth <= k /\ k <= LiveUntil(prog, v) /\ LiveUntil(prog, v) <= b.death
      /\ LiveUntil(prog, v) \in Nat
      /\ LiveFrom(v) = k
  BY <1>1, SharerFacts
<1>4. o \in DOMAIN ins
  OBVIOUS
<1>5. k \in DOMAIN prog.code /\ k \in Uses(prog, u) /\ ins[o].val = u /\ ins[o].rel = "other"
  <2>1. k \in DOMAIN prog.code
    BY <1>2, <1>3, NodeFacts, ProgramFacts
  <2>2. ins[o].val = u /\ ins[o].rel = "other"
    OBVIOUS
  <2> QED
    BY <2>1, <2>2 DEF Uses
<1>6. LiveUntil(prog, u) = k
  BY <1>3
<1>7. Loop(prog) \in Nat /\ Yield(prog) \in Nat /\ Loop(prog) < Yield(prog)
  BY <1>2, ProgramFacts
<1> HIDE DEF a, b, k, ins, m, w
<1>8. a.birth < k /\ k <= a.death /\ k <= b.death /\ b.birth <= k
  BY <1>2, <1>3, <1>5, <1>6, <1>7
<1>9. b.birth = k /\ ~ HandoffInterferes(a, b)
  <2>1. i \in Nat /\ j \in Nat
    BY <1>1
  <2>2. b.birth = k /\ a.death = k
    BY <1>1, <1>2, <1>3, <1>8, <2>1 DEF PairInterferes, Overlap, Earlier
  <2>3. Touching(i, j)
    BY <1>1, <1>8, <2>2 DEF Touching, Earlier
  <2> QED
    BY <1>1, <2>2, <2>3 DEF PairInterferes
<1>10. DefiningOp(b) = prog.code[k]
  <2>1. \A n \in Members(b) : b.birth <= DefIdx(prog, n)
    BY DEF AInv, Division, VBInv, b
  <2>2. v \in Members(b) /\ DefIdx(prog, v) = k
    BY DEF b, k
  <2> QED
    BY <1>2, <1>3, <1>9, <2>1, <2>2, DefinedAtBirth
<1>11. u \in Members(a)
  BY DEF a
<1>12. /\ Matches(a, b) # {} /\ m \in Matches(a, b)
       /\ \A n \in Matches(a, b) : m[1] < n[1] \/ (m[1] = n[1] /\ m[2] <= n[2])
  BY <1>2, <1>5, <1>10, <1>11, FirstMatch DEF m
<1>13. /\ m[1] \in DOMAIN a.members /\ m[2] \in DOMAIN ins /\ ins[m[2]].val = w
  BY <1>10, <1>12 DEF Matches, ins, w
<1>14. w \in Members(a) /\ k \in Uses(prog, w)
  <2>1. w \in Members(a)
    BY <1>13 DEF w, Members, ToSet
  <2> QED
    BY <1>5, <1>13, <2>1 DEF Uses, ins
(* Of a's members, only u is live here. *)
<1>15. w = u
  <2> SUFFICES ASSUME w # u PROVE FALSE
    OBVIOUS
  <2>1. VBInv(a)
    BY DEF AInv, Division, a
  <2>2. TakesTurns(u, w) /\ TakesTurns(w, u)
    BY <1>11, <1>14, <2>1 DEF VBInv
  <2>3. LiveFrom(u) < k /\ k <= LiveUntil(prog, u)
    BY <1>2, <1>5
  <2>4. /\ LiveFrom(w) < k /\ k <= LiveUntil(prog, w) /\ LiveUntil(prog, w) \in Nat
        /\ LiveFrom(w) \in Nat
    BY <1>1, <1>7, <1>14, SharerFacts DEF a
  <2>5. LiveFrom(u) \in Nat
    BY <1>2, <1>7
  <2>6. LiveFrom(u) = LiveFrom(w)
    BY <1>3, <1>6, <2>2, <2>3, <2>4, <2>5 DEF TakesTurns
  <2> QED
    BY <1>5, <1>11, <1>14, <2>1, <2>6 DEF VBInv
<1>16. m[2] <= o /\ o \in Nat /\ m[2] \in Nat /\ m[2] \in 1 .. o /\ o \in 1 .. Len(ins)
  <2>1. a.members \in Seq(Values(prog)) /\ DOMAIN ins = 1 .. Len(ins) /\ Len(ins) \in Nat
    BY <1>2, <1>5, OperandFacts DEF VBs, ins
  <2>2. DOMAIN a.members = 1 .. Len(a.members) /\ Len(a.members) \in Nat
    BY <2>1, LenProperties
  <2>3. <<m[1], o>> \in Matches(a, b)
    <3>1. /\ m[1] \in DOMAIN a.members /\ o \in DOMAIN DefiningOp(b).ins
          /\ a.members[m[1]] = DefiningOp(b).ins[o].val
      BY <1>4, <1>5, <1>10, <1>13, <1>15 DEF w, ins
    <3> QED
      BY <3>1 DEF Matches
  <2>4. m[1] < m[1] \/ m[2] <= o
    BY <1>12, <2>3
  <2>5. o \in DOMAIN ins
    BY <1>4
  <2> QED
    BY <1>13, <2>1, <2>2, <2>4, <2>5
<1>17. ins[m[2]].rel = "other"
  <2>1. /\ prog.code[k].ins[m[2]].val = prog.code[k].ins[o].val
        /\ prog.code[k].ins[o].rel = "other" /\ o \in DOMAIN prog.code[k].ins
    BY <1>4, <1>5, <1>13, <1>15 DEF ins
  <2> QED
    BY <1>5, <1>16, <2>1 DEF OtherReadsFirst, ins
<1> QED
  BY <1>9, <1>10, <1>12, <1>17 DEF HandoffInterferes, m, ins

(* The allocation plan is sound: what must not share a buffer does not.     *)
THEOREM PlanAlwaysSound == ASpec => []PlanSound
<1>1. AInv => PlanSound
  <2> SUFFICES ASSUME AInv, phase = "done", NothingOutlivesLoop(prog), OtherReadsFirst(prog),
                      NEW u \in Values(prog), NEW v \in Values(prog),
                      VBOf(u) # VBOf(v), Clash(u, v), color[VBOf(u)] = color[VBOf(v)]
               PROVE  FALSE
    BY DEF PlanSound
  <2>1. stage = "color"
    BY DEF AInv, Colored
  <2>2. /\ VBOf(u) \in DOMAIN vbs /\ u \in Members(vbs[VBOf(u)])
        /\ VBOf(v) \in DOMAIN vbs /\ v \in Members(vbs[VBOf(v)])
    BY <2>1, VBOfFacts
  <2>3. ~ (LiveFrom(u) <= LiveFrom(v) /\ LiveFrom(v) < LiveUntil(prog, u))
    BY <2>2, NoneOverwritten
  <2>4. ~ (/\ LiveFrom(v) = LiveUntil(prog, u) /\ v \notin Results(prog)
           /\ In(u, "other") \in ToSet(prog.code[DefIdx(prog, v)].ins))
    <3> SUFFICES ASSUME LiveFrom(v) = LiveUntil(prog, u), v \notin Results(prog),
                        In(u, "other") \in ToSet(prog.code[DefIdx(prog, v)].ins)
                 PROVE  FALSE
      OBVIOUS
    <3>1. PICK o \in DOMAIN prog.code[DefIdx(prog, v)].ins :
            prog.code[DefIdx(prog, v)].ins[o] = In(u, "other")
      BY DEF ToSet
    <3>2. /\ prog.code[DefIdx(prog, v)].ins[o].val = u
          /\ prog.code[DefIdx(prog, v)].ins[o].rel = "other"
      BY <3>1 DEF In
    <3> QED
      BY <2>2, <3>2, NoneMixedUp
  <2> QED
    BY <2>3, <2>4 DEF Clash
<1> QED
  BY <1>1, AnalysisInvariant, PTL

=============================================================================

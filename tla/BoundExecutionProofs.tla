------------------------ MODULE BoundExecutionProofs ------------------------
(***************************************************************************)
(* Proofs about BoundExecution, for every plan MemoryAnalysis makes: the   *)
(* bound program, executed, reads from its buffers what was put there, and *)
(* gives every semaphore when it is done with it, provided the programs    *)
(* that are executed are of the supported kind.  The analysis keeps AInv,  *)
(* and for a supported program BucketInv besides: what the VBs of each     *)
(* type are made of.  It follows in which VB the data of a value is        *)
(* (RootIsHome), and that at every instruction the VBs that are written    *)
(* and not given yet are those of Live, which depends on the place in the  *)
(* program only (ExecInv).                                                 *)
(***************************************************************************)
EXTENDS BoundExecution, MemoryAnalysisProofs

(* What is executed is supported. *)
SupportedOnly == \A p \in Programs : Executes(p) => Supported(p)

-----------------------------------------------------------------------------
(* The VBs of a supported program. *)

Arg(i) == prog.phis[i].arg
Res(i) == prog.phis[i].res
Init0(i) == InitOf(prog, i)
Yielded(i) == YieldOf(prog, i)
Inits == {Init0(i) : i \in DOMAIN prog.phis}

(* The VB of the i-th iter_arg is born where that is initialized. Phi       *)
(* fusion has come to the c-th iter_arg, and S are the split yields.        *)
FusedFor(vb, i, c, S) ==
  /\ i < c /\ vb.members[1] = Arg(i) /\ Members(vb) \subseteq {Arg(i), Init0(i), Yielded(i), Res(i)}
  /\ vb.birth = DefIdx(prog, Init0(i)) /\ vb.death = Max({Yield(prog), Death(prog, Res(i))})
  /\ \A v \in Members(vb) : v = Init0(i) \/ Loop(prog) <= DefIdx(prog, v)
  /\ i \notin S => Yielded(i) \in Members(vb)

(* An Eternal VB has a value from before the loop, which the loop reads.    *)
EternalFor(vb, v) ==
  /\ vb.members = <<v>> /\ vb.birth = DefIdx(prog, v) /\ vb.death = Yield(prog)
  /\ DefIdx(prog, v) < Loop(prog) /\ v \notin Inits
  /\ \E k \in Uses(prog, v) : InLoop(prog, k)

(* The members of a Standard VB are on one side of the loop's border. Each  *)
(* but the first takes the buffer over from another one, which its          *)
(* operation reads at the place it writes only.                             *)
TakesOver(vb, v) ==
  \E o \in DOMAIN DefOp(v).ins :
    DefOp(v).ins[o].val \in Members(vb) /\ DefOp(v).ins[o].rel # "other"

StandardKind(vb) ==
  /\ \E v \in Members(vb) : DefIdx(prog, v) = vb.birth
  /\ Members(vb) \cap Inits = {} /\ Members(vb) \cap Results(prog) \subseteq Handoffs(prog)
  /\ \A v \in Members(vb) : InLoop(prog, DefIdx(prog, v)) <=> InLoop(prog, vb.birth)
  /\ InLoop(prog, vb.birth) <=> InLoop(prog, vb.death)
  /\ \A v \in Members(vb) : DefIdx(prog, v) # vb.birth => TakesOver(vb, v)

KindInv(vb) ==
  /\ vb.type \in {"Fused", "Eternal", "Standard"}
  /\ vb.type = "Fused" => \E i \in DOMAIN prog.phis : FusedFor(vb, i, cursor, splits)
  /\ vb.type = "Eternal" => \E v \in Values(prog) : EternalFor(vb, v)
  /\ vb.type = "Standard" => StandardKind(vb)

(* What phi fusion has gone through is mapped, unless a DMA handles it.     *)
CarriedMapped ==
  \A i \in DOMAIN prog.phis :
    (i < cursor \/ stage \notin {"special", "phi"})
      => Init0(i) \in MembersIn(vbs) /\ Res(i) \in MembersIn(vbs) \cup Handoffs(prog)

BucketInv ==
  Supported(prog) => CarriedMapped /\ \A j \in DOMAIN vbs : KindInv(vbs[j])

-----------------------------------------------------------------------------
(* Where the data of a value is, and from where to where. *)

Home(v) == IF v \in Results(prog) THEN VBOf(Arg(PhiOf(v))) ELSE VBOf(v)

(* A stored result has a VB of its own, which nothing is written to. *)
Homed(b) == \E v \in Members(vbs[b]) : v \notin Results(prog)

(* The place where a VB is first written, after the operation it is born at *)
(* has begun, and the place where it is given.                              *)
FirstWrite(b) ==
  IF \E i \in DOMAIN prog.phis : ClonedInit(i) /\ VBOf(Arg(i)) = b
  THEN Len(prog.phis) + 3 - CHOOSE i \in DOMAIN prog.phis : ClonedInit(i) /\ VBOf(Arg(i)) = b
  ELSE IF CopiedOuts(BirthNode(vbs[b])) THEN 1 ELSE 2

GivenBy(b) ==
  IF vbs[b].death # Yield(prog) THEN 2
  ELSE IF vbs[b].type = "Standard" THEN Len(prog.phis) + 1
  ELSE 2 * Len(prog.phis) + 2

Begun(b, k, n) == vbs[b].birth < k \/ (vbs[b].birth = k /\ FirstWrite(b) < n)
Pending(b, k, n) == k < vbs[b].death \/ (k = vbs[b].death /\ n <= GivenBy(b))

Live(k, n) == {b \in DOMAIN vbs : Homed(b) /\ Begun(b, k, n) /\ Pending(b, k, n)}

(* What is held is what is live here, and its data is in its buffer. *)
ExecInv ==
  IF pc = 0 THEN held = {} /\ step = 1
  ELSE /\ phase = "done" /\ Executes(prog) /\ code = BoundCode
       /\ pc \in 1 .. Len(prog.code) + 1
       /\ IF pc = Len(prog.code) + 1 THEN step = 1 ELSE step \in 1 .. Len(code[pc])
       /\ held = Live(pc, step) /\ DOMAIN holder = 0 .. numColors - 1
       /\ \A b \in held : holder[color[b]] = b

-----------------------------------------------------------------------------
(* The analysis of a supported program. *)

(* What the loop of a supported program carries. *)
LEMMA CarriedFacts ==
  ASSUME prog \in Programs, Supported(prog), NEW i \in DOMAIN prog.phis
  PROVE  /\ {Arg(i), Init0(i), Yielded(i), Res(i)} \cap prog.special = {}
         /\ {Arg(i), Init0(i)} \cap Apart = {}
         /\ Pure(Init0(i)) /\ \A k \in Uses(prog, Init0(i)) : k <= Loop(prog)
         /\ Loop(prog) \in Uses(prog, Init0(i))
<1>1. /\ WellFormed(prog) /\ DOMAIN prog.code[Loop(prog)].ins = DOMAIN prog.phis
      /\ Loop(prog) \in 1 .. Len(prog.code) /\ DOMAIN prog.code = 1 .. Len(prog.code)
  BY ProgramFacts
<1>2. {Arg(i), Init0(i), Yielded(i), Res(i)} \cap prog.special = {}
  <2>1. Arg(i) \notin prog.special
    BY DEF Supported, NoSpecialCarried, Args, Arg
  <2>2. OneType(prog)
    BY <1>1 DEF WellFormed
  <2> QED
    BY <2>1, <2>2 DEF OneType, Arg, Init0, Yielded, Res
<1>3. /\ {Arg(i), Init0(i)} \cap Handoffs(prog) = {}
      /\ \A k \in Uses(prog, Init0(i)) : k <= Loop(prog)
  BY DEF Supported, InitsPrivate, Arg, Init0
<1>4. Pure(Init0(i))
  <2>1. \A k \in Uses(prog, Init0(i)) : k \in Int /\ ~ InLoop(prog, k)
    <3> SUFFICES ASSUME NEW k \in Uses(prog, Init0(i)) PROVE k \in Int /\ ~ InLoop(prog, k)
      OBVIOUS
    <3>1. k \in 1 .. Len(prog.code)
      BY <1>1 DEF Uses
    <3> QED
      BY <1>1, <1>3, <3>1 DEF InLoop
  <2> QED
    BY <1>3, <2>1 DEF Pure
<1>5. Loop(prog) \in Uses(prog, Init0(i))
  BY <1>1, OperandFacts DEF Init0, InitOf
<1> QED
  BY <1>2, <1>3, <1>4, <1>5 DEF Apart

(* The iter_args and results of a loop are different values. *)
LEMMA PhisDistinct ==
  ASSUME prog \in Programs, NEW i \in DOMAIN prog.phis, NEW j \in DOMAIN prog.phis, i # j
  PROVE  Arg(i) # Arg(j) /\ Res(i) # Res(j)
<1> DEFINE parts == [k \in DOMAIN prog.code |-> NodesAt(prog, k)]
           at == parts[Loop(prog)]
           n == Len(prog.phis)
<1>1. /\ Nodes(prog) = FlattenSeq(parts) /\ Len(parts) = Len(prog.code) /\ Len(at) = n + n
      /\ \A q \in 1 .. n : at[q] = prog.phis[q].res /\ at[n + q] = prog.phis[q].arg
      /\ \E V : parts \in Seq(Seq(V))
  BY NodesAtFacts
<1>2. /\ n \in Nat /\ DOMAIN prog.phis = 1 .. n /\ Loop(prog) \in 1 .. Len(prog.code)
      /\ IsInjective(Nodes(prog)) /\ Nodes(prog) \in Seq(Values(prog))
  BY ProgramFacts, NodeFacts
<1> HIDE DEF parts
<1>3. PICK V : parts \in Seq(Seq(V))
  BY <1>1
<1>4. PICK h, o : Positions(Nodes(prog), parts, Len(parts), h, o)
  BY <1>1, <1>3, FlattenSeqPositions
<1>5. \A q \in 1 .. n + n : \E x \in 1 .. Len(Nodes(prog)) : h[x] = Loop(prog) /\ o[x] = q
  <2>1. \A k \in 1 .. Len(parts) : \A q \in 1 .. Len(parts[k]) :
          \E x \in 1 .. Len(Nodes(prog)) : h[x] = k /\ o[x] = q
    BY <1>4 DEF Positions
  <2>2. Loop(prog) \in 1 .. Len(parts) /\ Len(parts[Loop(prog)]) = n + n
    BY <1>1, <1>2
  <2> QED
    BY <2>1, <2>2
<1>6. \A x \in 1 .. Len(Nodes(prog)) : Nodes(prog)[x] = parts[h[x]][o[x]]
  BY <1>4 DEF Positions
<1>7. ASSUME NEW q \in 1 .. n + n, NEW r \in 1 .. n + n, q # r PROVE at[q] # at[r]
  <2>1. PICK x \in 1 .. Len(Nodes(prog)) : h[x] = Loop(prog) /\ o[x] = q
    BY <1>5
  <2>2. PICK y \in 1 .. Len(Nodes(prog)) : h[y] = Loop(prog) /\ o[y] = r
    BY <1>5
  <2>3. x # y /\ Nodes(prog)[x] = at[q] /\ Nodes(prog)[y] = at[r]
    BY <1>7, <1>6, <2>1, <2>2
  <2>4. x \in DOMAIN Nodes(prog) /\ y \in DOMAIN Nodes(prog)
    BY <1>2, LenProperties
  <2> QED
    BY <1>2, <2>3, <2>4 DEF IsInjective
<1>8. i \in 1 .. n + n /\ j \in 1 .. n + n /\ n + i \in 1 .. n + n /\ n + j \in 1 .. n + n /\ n + i # n + j
  <2>1. n \in Nat /\ i \in 1 .. n /\ j \in 1 .. n
    BY <1>2
  <2> HIDE DEF n
  <2> QED
    BY <2>1
<1>9. at[i] # at[j] /\ at[n + i] # at[n + j]
  BY <1>7, <1>8
<1> QED
  BY <1>1, <1>2, <1>9 DEF Arg, Res

(* The VBs after a phase that makes one for each value of S. *)
OldOrNew(all, s, type, S, to, excl) ==
  /\ \A j \in DOMAIN all : \/ j \in DOMAIN s /\ all[j] = s[j]
                           \/ \E v \in S : all[j] = Single(type, v, to, excl)
  /\ \A j \in DOMAIN s : j \in DOMAIN all /\ all[j] = s[j]

(* A phase that makes one VB for each value of S leaves the old ones.       *)
LEMMA OldOrSingle ==
  ASSUME prog \in Programs, NEW s \in Seq(VBs(prog)), NEW type, NEW S \in SUBSET Values(prog),
         NEW to, NEW excl
  PROVE  OldOrNew(s \o Singletons(type, S, to, excl), s, type, S, to, excl)
<1> DEFINE new == Singletons(type, S, to, excl)
           T == VBs(prog) \cup {Single(type, v, to, excl) : v \in S}
<1>1. PICK g : /\ new \in Seq({Single(type, v, to, excl) : v \in S}) /\ g \in [DOMAIN new -> S]
               /\ \A i \in DOMAIN new : new[i] = Single(type, g[i], to, excl)
  <2> DEFINE vb(v) == Single(type, v, to, excl)
  <2>1. \E g : /\ new \in Seq({vb(v) : v \in S}) /\ g \in [DOMAIN new -> S]
               /\ \A i \in DOMAIN new : new[i] = vb(g[i])
               /\ \A v \in S : \E i \in DOMAIN new : g[i] = v
               /\ \A i, j \in DOMAIN new : g[i] = g[j] => i = j
               /\ \A i, j \in DOMAIN new : i < j => DefIdx(prog, g[i]) <= DefIdx(prog, g[j])
    BY SingletonsFacts DEF Single
  <2> QED
    BY <2>1
<1> HIDE DEF new
<1>2. s \in Seq(T) /\ new \in Seq(T)
  <2>1. s \in Seq(T)
    BY DEF T
  <2>2. new \in Seq(T)
    BY <1>1 DEF T
  <2> QED
    BY <2>1, <2>2
<1> HIDE DEF T
<1>3. /\ Len(s) \in Nat /\ Len(new) \in Nat /\ DOMAIN s = 1 .. Len(s) /\ DOMAIN new = 1 .. Len(new)
      /\ DOMAIN (s \o new) = 1 .. Len(s) + Len(new)
      /\ \A i \in 1 .. Len(s) + Len(new) :
           (s \o new)[i] = IF i <= Len(s) THEN s[i] ELSE new[i - Len(s)]
  BY <1>2, ConcatProperties, LenProperties
<1>4. ASSUME NEW j \in DOMAIN (s \o new)
      PROVE  \/ j \in DOMAIN s /\ (s \o new)[j] = s[j]
             \/ \E v \in S : (s \o new)[j] = Single(type, v, to, excl)
  <2>1. CASE j <= Len(s)
    BY <1>3, <2>1
  <2>2. CASE ~ j <= Len(s)
    <3>1. j - Len(s) \in DOMAIN new /\ (s \o new)[j] = new[j - Len(s)]
      BY <1>3, <2>2
    <3> QED
      BY <1>1, <3>1
  <2> QED
    BY <2>1, <2>2
<1>5. \A j \in DOMAIN s : j \in DOMAIN (s \o new) /\ (s \o new)[j] = s[j]
  BY <1>3
<1> QED
  BY <1>4, <1>5 DEF new, OldOrNew

(* What KindInv says of a VB it says in the next state, and of the VB that  *)
(* phi fusion adds.                                                         *)
LEMMA KindsCarried ==
  ASSUME prog \in Programs, prog' = prog, cursor \in Nat, cursor' \in Nat, cursor <= cursor',
         splits \subseteq splits', NEW s, vbs' = s,
         \A j \in DOMAIN s :
           \/ KindInv(s[j])
           \/ s[j].type = "Fused" /\ \E i \in DOMAIN prog.phis : FusedFor(s[j], i, cursor', splits')
  PROVE  \A j \in DOMAIN vbs' : KindInv(vbs[j])'
<1> SUFFICES ASSUME NEW j \in DOMAIN s PROVE KindInv(vbs[j])'
  OBVIOUS
<1> DEFINE newly == s[j].type = "Fused" /\ \E i \in DOMAIN prog.phis : FusedFor(s[j], i, cursor', splits')
<1>0. KindInv(s[j]) \/ newly
  OBVIOUS
<1>1. CASE s[j].type = "Fused"
  <2>1. PICK i \in DOMAIN prog.phis : FusedFor(s[j], i, cursor', splits')
    <3>1. CASE newly
      BY <3>1
    <3>2. CASE KindInv(s[j])
      <4>1. PICK i \in DOMAIN prog.phis : FusedFor(s[j], i, cursor, splits)
        BY <1>1, <3>2 DEF KindInv
      <4>2. FusedFor(s[j], i, cursor', splits')
        BY <4>1, ProgramFacts DEF FusedFor
      <4> QED
        BY <4>2
    <3> HIDE DEF newly
    <3> QED
      BY <1>0, <3>1, <3>2
  <2>2. FusedFor(vbs[j], i, cursor, splits)'
    BY <2>1 DEF FusedFor, Arg, Res, Init0, Yielded, Members
  <2> QED
    BY <1>1, <2>2 DEF KindInv
<1>2. CASE s[j].type = "Eternal"
  <2>1. KindInv(s[j])
    BY <1>0, <1>2
  <2> QED
    BY <1>2, <2>1 DEF KindInv, EternalFor, Inits, Init0
<1>3. CASE s[j].type = "Standard"
  <2>1. StandardKind(s[j])
    BY <1>0, <1>3 DEF KindInv
  <2>2. StandardKind(vbs[j])'
    BY <2>1 DEF StandardKind, Inits, Init0, Members, TakesOver, DefOp
  <2> QED
    BY <1>3, <2>2 DEF KindInv
<1> QED
  BY <1>0, <1>1, <1>2, <1>3 DEF KindInv

(* What is mapped stays mapped.                                            *)
LEMMA CarriedMappedKept ==
  ASSUME prog' = prog, CarriedMapped, MembersIn(vbs) \subseteq MembersIn(vbs)',
         \A i \in DOMAIN prog.phis :
           (i < cursor' \/ stage' \notin {"special", "phi"})
             => (i < cursor \/ stage \notin {"special", "phi"})
  PROVE  CarriedMapped'
BY DEF CarriedMapped, Init0, Res

(* The phases keep what the VBs are made of. Special VBs are on one side of *)
(* the border, and no loop carries their tensor.                           *)
LEMMA SpecialKinds ==
  ASSUME AInv, BucketInv, Special
  PROVE  BucketInv'
<1>0. PICK yes, s : yes = TRUE /\ s = vbs \o Singletons("Standard", prog.special, Deaths, yes)
  OBVIOUS
<1>1. /\ prog \in Programs /\ stage = "special" /\ stage' = "phi" /\ vbs = <<>> /\ cursor = 1
      /\ prog' = prog /\ cursor' = cursor /\ splits' = splits /\ vbs' = s
  BY <1>0 DEF AInv, Special, MappedSoFar
<1> SUFFICES ASSUME Supported(prog) PROVE CarriedMapped' /\ \A j \in DOMAIN vbs' : KindInv(vbs[j])'
  BY <1>1 DEF BucketInv
<1>2. CarriedMapped'
  <2>1. \A i \in DOMAIN prog.phis : ~ i < 1
    BY <1>1, ProgramFacts
  <2> QED
    BY <1>1, <2>1 DEF CarriedMapped
<1>3. ASSUME NEW j \in DOMAIN s PROVE KindInv(s[j])
  <2>1. prog.special \subseteq Values(prog)
    BY <1>1, OperandFacts
  <2>2. vbs \in Seq(VBs(prog)) /\ DOMAIN vbs = {}
    BY <1>1
  <2>3. PICK v \in prog.special : s[j] = Single("Standard", v, Deaths, yes)
    <3>1. OldOrNew(vbs \o Singletons("Standard", prog.special, Deaths, yes), vbs,
                   "Standard", prog.special, Deaths, yes)
      BY <1>1, <2>1, <2>2, OldOrSingle
    <3> QED
      BY <1>0, <2>2, <3>1 DEF OldOrNew
  <2>4. /\ s[j].type = "Standard" /\ s[j].birth = DefIdx(prog, v) /\ s[j].death = Death(prog, v)
        /\ Members(s[j]) = {v}
    BY <2>1, <2>3 DEF Single, VBRec, Deaths, Members, ToSet
  <2>5. \A i \in DOMAIN prog.phis : {Init0(i), Res(i)} \cap prog.special = {}
    BY <1>1, CarriedFacts
  <2>6. v \notin Inits /\ v \notin Results(prog)
    BY <2>5 DEF Inits, Results, Res
  <2>7. InLoop(prog, DefIdx(prog, v)) <=> InLoop(prog, Death(prog, v))
    BY DEF Supported, SpecialsLocal
  <2>8. StandardKind(s[j])
    BY <2>4, <2>6, <2>7 DEF StandardKind
  <2> QED
    BY <2>4, <2>8 DEF KindInv
<1>4. \A j \in DOMAIN vbs' : KindInv(vbs[j])'
  <2>1. /\ cursor \in Nat /\ cursor' \in Nat /\ cursor <= cursor' /\ splits \subseteq splits'
    BY <1>1
  <2> QED
    BY <1>1, <1>3, <2>1, KindsCarried
<1> QED
  BY <1>2, <1>4

(* What is read in the loop and has no VB is defined before the loop, and  *)
(* starts no accumulator.                                                  *)
LEMMA EternalKinds ==
  ASSUME AInv, BucketInv, Eternal
  PROVE  BucketInv'
<1> DEFINE S == {v \in Values(prog) \ Mapped :
                   /\ ~ InLoop(prog, DefIdx(prog, v))
                   /\ \E k \in Uses(prog, v) : InLoop(prog, k)}
           to == [v \in S |-> Yield(prog)]
<1>0. PICK no, s : no = FALSE /\ s = vbs \o Singletons("Eternal", S, to, no)
  OBVIOUS
<1>1. /\ prog \in Programs /\ stage = "eternal" /\ stage' = "standard"
      /\ prog' = prog /\ cursor' = cursor /\ splits' = splits /\ cursor \in Nat
      /\ vbs' = s /\ Division(vbs)
      /\ Args(prog) \subseteq MembersIn(vbs) \cup Apart
  BY <1>0, ArgsMapped DEF AInv, Eternal
<1>2. vbs \in Seq(VBs(prog))
  BY <1>1 DEF Division
<1> SUFFICES ASSUME Supported(prog) PROVE CarriedMapped' /\ \A j \in DOMAIN vbs' : KindInv(vbs[j])'
  BY <1>1 DEF BucketInv
<1>3. CarriedMapped /\ \A j \in DOMAIN vbs : KindInv(vbs[j])
  BY DEF BucketInv
<1>4. S \subseteq Values(prog)
  OBVIOUS
<1>5. ASSUME NEW v \in S
      PROVE  /\ DefIdx(prog, v) < Loop(prog) /\ v \notin Inits
             /\ \E k \in Uses(prog, v) : InLoop(prog, k)
  <2>1. v \in Values(prog) /\ v \notin MembersIn(vbs) /\ ~ InLoop(prog, DefIdx(prog, v))
    BY DEF Mapped, MembersIn
  <2>2. PICK k \in Uses(prog, v) : InLoop(prog, k)
    OBVIOUS
  <2>3. /\ k \in 1 .. Len(prog.code) /\ Visible(prog, v, k) /\ DefIdx(prog, v) <= k
        /\ DefIdx(prog, v) \in 1 .. Len(prog.code)
        /\ DefIdx(prog, v) = Loop(prog) <=> v \in Args(prog) \cup Results(prog)
        /\ Loop(prog) \in Int /\ Yield(prog) \in Int /\ Loop(prog) < Yield(prog)
    BY <1>1, <2>1, UseFacts, NodeFacts, ProgramFacts
  <2>4. v \notin Results(prog)
    BY <2>2, <2>3 DEF Visible, InLoop
  <2>5. v \notin Args(prog)
    <3> SUFFICES ASSUME v \in Args(prog) PROVE FALSE
      OBVIOUS
    <3>1. PICK i \in DOMAIN prog.phis : v = Arg(i)
      BY DEF Args, Arg
    <3> QED
      BY <1>1, <2>1, <3>1, CarriedFacts
  <2>6. v \notin Inits
    <3> SUFFICES ASSUME v \in Inits PROVE FALSE
      OBVIOUS
    <3>1. PICK i \in DOMAIN prog.phis : v = Init0(i)
      BY DEF Inits
    <3>2. k <= Loop(prog)
      BY <1>1, <3>1, CarriedFacts
    <3> QED
      BY <2>2, <2>3, <3>2 DEF InLoop
  <2> QED
    BY <2>1, <2>2, <2>3, <2>4, <2>5, <2>6 DEF InLoop
<1>6. /\ \A j \in DOMAIN s : \/ j \in DOMAIN vbs /\ s[j] = vbs[j]
                             \/ \E v \in S : s[j] = Single("Eternal", v, to, no)
      /\ \A j \in DOMAIN vbs : j \in DOMAIN s /\ s[j] = vbs[j]
  <2> HIDE DEF S, to
  <2>1. OldOrNew(vbs \o Singletons("Eternal", S, to, no), vbs, "Eternal", S, to, no)
    BY <1>1, <1>2, <1>4, OldOrSingle
  <2> QED
    BY <1>0, <2>1 DEF OldOrNew
<1>7. ASSUME NEW j \in DOMAIN s PROVE KindInv(s[j])
  <2>1. CASE j \in DOMAIN vbs /\ s[j] = vbs[j]
    BY <1>3, <2>1
  <2>2. ASSUME NEW v \in S, s[j] = Single("Eternal", v, to, no) PROVE KindInv(s[j])
    <3>1. to[v] = Yield(prog) /\ v \in Values(prog)
      OBVIOUS
    <3> HIDE DEF S, to
    <3>2. /\ s[j].type = "Eternal" /\ s[j].members = <<v>> /\ s[j].birth = DefIdx(prog, v)
          /\ s[j].death = Yield(prog)
      BY <2>2, <3>1 DEF Single, VBRec
    <3> QED
      BY <1>5, <3>1, <3>2 DEF KindInv, EternalFor
  <2> QED
    BY <1>6, <2>1, <2>2
<1>8. \A j \in DOMAIN vbs' : KindInv(vbs[j])'
  <2>1. cursor' \in Nat /\ cursor <= cursor' /\ splits \subseteq splits'
    BY <1>1
  <2> QED
    BY <1>1, <1>7, <2>1, KindsCarried
<1>9. MembersIn(vbs) \subseteq MembersIn(vbs)'
  BY <1>1, <1>6 DEF MembersIn, Members
<1>10. CarriedMapped'
  BY <1>1, <1>3, <1>9, CarriedMappedKept
<1> QED
  BY <1>8, <1>10

(* What is left for the last axiom does not cross the border of the loop.  *)
LEMMA StandardKinds ==
  ASSUME AInv, BucketInv, Standard
  PROVE  BucketInv'
<1> DEFINE S == Values(prog) \ MembersIn(vbs)
<1>0. PICK no, all : /\ no \in BOOLEAN /\ no = FALSE
                     /\ all = vbs \o Singletons("Standard", S, Deaths, no)
  OBVIOUS
<1> PICK s : s = vbs'
  OBVIOUS
<1>1. /\ prog \in Programs /\ stage = "standard" /\ stage' = "relay"
      /\ prog' = prog /\ cursor' = cursor /\ splits' = splits /\ cursor \in Nat
      /\ s = [i \in DOMAIN all |-> Marked(all[i])] /\ Division(vbs)
      /\ \A v \in S : InLoop(prog, DefIdx(prog, v)) \/ \A k \in Uses(prog, v) : ~ InLoop(prog, k)
  <2>1. Mapped = MembersIn(vbs)
    BY DEF Mapped, MembersIn
  <2>2. s = [i \in DOMAIN all |-> Marked(all[i])]
    BY <1>0, <2>1 DEF Standard, Marked
  <2> QED
    BY <2>2 DEF AInv, Standard, MappedSoFar
<1>2. vbs \in Seq(VBs(prog)) /\ \A j \in DOMAIN vbs : vbs[j] \in VBs(prog)
  BY <1>1, ElementOfSeq DEF Division
<1> SUFFICES ASSUME Supported(prog) PROVE CarriedMapped' /\ \A j \in DOMAIN vbs' : KindInv(vbs[j])'
  BY <1>1 DEF BucketInv
<1>3. CarriedMapped /\ \A j \in DOMAIN vbs : KindInv(vbs[j])
  BY DEF BucketInv
<1>4. /\ \A j \in DOMAIN all : \/ j \in DOMAIN vbs /\ all[j] = vbs[j]
                               \/ \E v \in S : all[j] = Single("Standard", v, Deaths, no)
      /\ \A j \in DOMAIN vbs : j \in DOMAIN all /\ all[j] = vbs[j]
  <2>1. S \subseteq Values(prog)
    OBVIOUS
  <2> HIDE DEF S
  <2>2. OldOrNew(vbs \o Singletons("Standard", S, Deaths, no), vbs, "Standard", S, Deaths, no)
    BY <1>1, <1>2, <2>1, OldOrSingle
  <2> QED
    BY <1>0, <2>2 DEF OldOrNew
<1>6. ASSUME NEW v \in S
      PROVE  /\ Single("Standard", v, Deaths, no) \in VBs(prog)
             /\ StandardKind(Single("Standard", v, Deaths, no))
  <2> DEFINE vb == Single("Standard", v, Deaths, no)
  <2>1. v \in Values(prog) /\ v \notin MembersIn(vbs)
    OBVIOUS
  <2>2. /\ vb = [type |-> "Standard", members |-> <<v>>, birth |-> DefIdx(prog, v),
                  death |-> Death(prog, v), excl |-> no]
        /\ Members(vb) = {v}
    BY <2>1 DEF Single, VBRec, Deaths, Members, ToSet
  <2>3. /\ Len(prog.code) \in Nat /\ Loop(prog) \in 1 .. Len(prog.code)
        /\ Yield(prog) \in 1 .. Len(prog.code)
        /\ DefIdx(prog, v) \in 1 .. Len(prog.code) /\ Death(prog, v) \in 1 .. Len(prog.code)
        /\ DefIdx(prog, v) <= Death(prog, v)
        /\ InLoop(prog, DefIdx(prog, v)) => Death(prog, v) <= Yield(prog)
        /\ Uses(prog, v) # {} => Death(prog, v) \in Uses(prog, v)
        /\ Uses(prog, v) = {} => Death(prog, v) = DefIdx(prog, v)
    BY <1>1, <2>1, ProgramFacts, UseFacts, LiveFacts, NodeFacts
  <2>4. vb \in VBs(prog)
    <3>1. <<v>> \in Seq(Values(prog)) /\ no \in BOOLEAN
      BY <1>0, <2>1
    <3> HIDE DEF vb, S
    <3> QED
      BY <2>2, <2>3, <3>1 DEF VBs
  <2>5. v \notin Inits /\ (v \in Results(prog) => v \in Handoffs(prog))
    <3>1. \A i \in DOMAIN prog.phis : v # Init0(i) /\ (v = Res(i) => v \in Handoffs(prog))
      BY <1>1, <1>3, <2>1 DEF CarriedMapped
    <3> QED
      BY <3>1 DEF Inits, Results, Res
  <2>6. InLoop(prog, DefIdx(prog, v)) <=> InLoop(prog, Death(prog, v))
    <3>1. CASE InLoop(prog, DefIdx(prog, v))
      BY <2>3, <3>1 DEF InLoop
    <3>2. CASE ~ InLoop(prog, DefIdx(prog, v))
      BY <1>1, <2>3, <3>2
    <3> QED
      BY <3>1, <3>2
  <2> HIDE DEF vb
  <2>7. StandardKind(vb)
    BY <2>2, <2>5, <2>6 DEF StandardKind
  <2> QED
    BY <2>4, <2>7 DEF vb
<1> HIDE DEF S
<1>7. ASSUME NEW j \in DOMAIN all
      PROVE  all[j] \in VBs(prog) /\ KindInv(all[j])
  <2>1. CASE j \in DOMAIN vbs /\ all[j] = vbs[j]
    BY <1>2, <1>3, <2>1
  <2>2. ASSUME NEW v \in S, all[j] = Single("Standard", v, Deaths, no)
        PROVE  all[j] \in VBs(prog) /\ KindInv(all[j])
    <3>1. all[j].type = "Standard"
      BY <2>2 DEF Single, VBRec
    <3> QED
      BY <1>6, <2>2, <3>1 DEF KindInv
  <2> QED
    BY <1>4, <2>1, <2>2
<1>8. ASSUME NEW j \in DOMAIN s
      PROVE  KindInv(s[j]) /\ Members(s[j]) = Members(all[j])
  <2>1. all[j] \in VBs(prog) /\ KindInv(all[j]) /\ s[j] = Marked(all[j])
    BY <1>1, <1>7
  <2>2. /\ s[j].type = all[j].type /\ s[j].birth = all[j].birth /\ s[j].death = all[j].death
        /\ s[j].members = all[j].members
    BY <2>1 DEF Marked, VBs
  <2>3. Members(s[j]) = Members(all[j])
    BY <2>2 DEF Members
  <2>4. \A i : FusedFor(all[j], i, cursor, splits) => FusedFor(s[j], i, cursor, splits)
    BY <2>2, <2>3 DEF FusedFor
  <2>5. \A v : EternalFor(all[j], v) => EternalFor(s[j], v)
    BY <2>2 DEF EternalFor
  <2>6. StandardKind(all[j]) => StandardKind(s[j])
    BY <2>2, <2>3 DEF StandardKind, TakesOver
  <2>7. KindInv(s[j])
    <3>1. CASE s[j].type = "Fused"
      BY <2>1, <2>2, <2>4, <3>1 DEF KindInv
    <3>2. CASE s[j].type = "Eternal"
      BY <2>1, <2>2, <2>5, <3>2 DEF KindInv
    <3>3. CASE s[j].type = "Standard"
      BY <2>1, <2>2, <2>6, <3>3 DEF KindInv
    <3> QED
      BY <2>1, <2>2, <3>1, <3>2, <3>3 DEF KindInv
  <2> QED
    BY <2>3, <2>7
<1>9. \A j \in DOMAIN vbs' : KindInv(vbs[j])'
  <2>1. cursor' \in Nat /\ cursor <= cursor' /\ splits \subseteq splits'
    BY <1>1
  <2> QED
    BY <1>1, <1>8, <2>1, KindsCarried
<1>10. MembersIn(vbs) \subseteq MembersIn(vbs)'
  <2>1. \A j \in DOMAIN vbs : j \in DOMAIN s /\ Members(s[j]) = Members(vbs[j])
    BY <1>1, <1>4, <1>8
  <2> QED
    BY <1>1, <2>1 DEF MembersIn, Members
<1>11. CarriedMapped'
  BY <1>1, <1>3, <1>10, CarriedMappedKept
<1> QED
  BY <1>9, <1>11

(* A sequence of members in four parts. *)
LEMMA Lengthened ==
  ASSUME NEW V, NEW s \in Seq(V), NEW t \in Seq(V), 1 <= Len(s)
  PROVE  /\ s \o t \in Seq(V) /\ ToSet(s \o t) = ToSet(s) \cup ToSet(t)
         /\ (s \o t)[1] = s[1] /\ 1 <= Len(s \o t)
<1>1. s \o t \in Seq(V) /\ Len(s) \in Nat /\ Len(t) \in Nat
  BY ConcatProperties, LenProperties
<1>2. ToSet(s \o t) = ToSet(s) \cup ToSet(t)
  BY ConcatDisjoint
<1>3. (s \o t)[1] = s[1] /\ Len(s \o t) = Len(s) + Len(t)
  BY <1>1, ConcatProperties
<1> QED
  BY <1>1, <1>2, <1>3

(* As phi fusion puts them together.                                       *)
LEMMA FourParts ==
  ASSUME NEW V, NEW v \in V, NEW a \in Seq(V), NEW b \in Seq(V), NEW c \in Seq(V)
  PROVE  LET all == <<v>> \o a \o b \o c
         IN  all[1] = v /\ ToSet(all) = {v} \cup ToSet(a) \cup ToSet(b) \cup ToSet(c)
<1>1. <<v>> \in Seq(V) /\ ToSet(<<v>>) = {v} /\ 1 <= Len(<<v>>) /\ <<v>>[1] = v
  BY DEF ToSet
<1> DEFINE s1 == <<v>>
           s2 == s1 \o a
           s3 == s2 \o b
<1> HIDE DEF s1, s2, s3
<1>2. s1 \in Seq(V) /\ ToSet(s1) = {v} /\ 1 <= Len(s1) /\ s1[1] = v
  BY <1>1 DEF s1
<1>3. s2 \in Seq(V) /\ ToSet(s2) = {v} \cup ToSet(a) /\ 1 <= Len(s2) /\ s2[1] = v
  BY <1>2, Lengthened DEF s2
<1>4. s3 \in Seq(V) /\ ToSet(s3) = {v} \cup ToSet(a) \cup ToSet(b) /\ 1 <= Len(s3) /\ s3[1] = v
  BY <1>3, Lengthened DEF s3
<1>5. ToSet(s3 \o c) = {v} \cup ToSet(a) \cup ToSet(b) \cup ToSet(c) /\ (s3 \o c)[1] = v
  BY <1>4, Lengthened
<1> QED
  BY <1>5 DEF s1, s2, s3

(* An iter_arg has no VB when phi fusion comes to it. *)
LEMMA ArgUnmapped ==
  ASSUME AInv, BucketInv, Supported(prog), stage = "phi", cursor \in DOMAIN prog.phis
  PROVE  Arg(cursor) \notin MembersIn(vbs)
<1> SUFFICES ASSUME NEW j \in DOMAIN vbs, Arg(cursor) \in Members(vbs[j]) PROVE FALSE
  BY DEF MembersIn
<1>1. prog \in Programs /\ VBInv(vbs[j]) /\ KindInv(vbs[j]) /\ cursor \in Nat
  BY DEF AInv, Division, BucketInv
<1>2. /\ Arg(cursor) \in Args(prog) /\ Arg(cursor) \notin Apart
  BY <1>1, CarriedFacts DEF Args, Arg
<1>3. vbs[j].type = "Fused"
  BY <1>1, <1>2 DEF VBInv, KindInv
<1>4. PICK i \in DOMAIN prog.phis : FusedFor(vbs[j], i, cursor, splits)
  BY <1>1, <1>3 DEF KindInv
<1>5. /\ i < cursor /\ Arg(cursor) \in {Arg(i), Init0(i), Yielded(i), Res(i)}
      /\ DOMAIN prog.phis = 1 .. Len(prog.phis) /\ Len(prog.phis) \in Nat
  BY <1>1, <1>4, ProgramFacts DEF FusedFor
<1>6. Arg(cursor) \notin {Init0(i), Res(i)}
  BY <1>1, <1>2, PhiFacts, NodeFacts DEF Init0, Res
<1>7. Arg(cursor) # Arg(i)
  BY <1>1, <1>5, PhisDistinct
<1>8. Arg(cursor) # Yielded(i)
  BY <1>2, <1>7 DEF Supported, NoRotation, Yielded, Arg
<1> QED
  BY <1>5, <1>6, <1>7, <1>8

(* The VB that phi fusion makes is the Fused one of its iter_arg.          *)
LEMMA PhiFuseKinds ==
  ASSUME AInv, BucketInv, PhiFuse
  PROVE  BucketInv'
<1> DEFINE arg == Arg(cursor)
           init == Init0(cursor)
           yield == Yielded(cursor)
           res == Res(cursor)
           takesInit == Pure(init) /\ init \notin Mapped
           takesYield == /\ yield \notin Mapped /\ yield \notin Handoffs(prog)
                         /\ yield \notin {arg, init} /\ HandsOver(arg, yield)
           takesRes == /\ res \notin Mapped /\ res \notin Handoffs(prog)
                       /\ res \notin {arg, init, yield}
           m2 == IF takesInit THEN <<init>> ELSE <<>>
           m3 == IF takesYield THEN <<yield>> ELSE <<>>
           m4 == IF takesRes THEN <<res>> ELSE <<>>
           members == <<arg>> \o m2 \o m3 \o m4
           from == Min({Loop(prog), DefIdx(prog, init)})
           to == Max({Yield(prog), Death(prog, res)})
           vb == VBRec("Fused", members, from, to, FALSE)
<1>1. /\ prog \in Programs /\ stage = "phi" /\ stage' = "phi" /\ cursor \in DOMAIN prog.phis
      /\ prog' = prog /\ cursor' = cursor + 1 /\ cursor \in Nat /\ Division(vbs)
  BY DEF AInv, PhiFuse
<1>2. vbs \in Seq(VBs(prog))
  BY <1>1 DEF Division
<1> SUFFICES ASSUME Supported(prog) PROVE CarriedMapped' /\ \A j \in DOMAIN vbs' : KindInv(vbs[j])'
  BY <1>1 DEF BucketInv
<1>3. CarriedMapped /\ \A j \in DOMAIN vbs : KindInv(vbs[j])
  BY DEF BucketInv
<1>4. /\ Mapped = MembersIn(vbs) /\ arg \notin MembersIn(vbs) /\ Pure(init) /\ arg \notin Handoffs(prog)
  BY <1>1, ArgUnmapped, CarriedFacts DEF Mapped, MembersIn, Apart
<1>5. vbs' = Append(vbs, vb) /\ splits' = IF takesYield THEN splits ELSE splits \cup {cursor}
  BY <1>4 DEF PhiFuse, Arg, Init0, Yielded, Res
<1>6. /\ {arg, init, yield, res} \subseteq Values(prog)
      /\ arg \in Args(prog) /\ res \in Results(prog)
      /\ DefIdx(prog, arg) = Loop(prog) /\ DefIdx(prog, res) = Loop(prog)
      /\ init \notin Args(prog) \cup Results(prog) /\ DefIdx(prog, init) < Loop(prog)
      /\ yield \notin Results(prog) /\ Loop(prog) <= Death(prog, arg)
      /\ DefIdx(prog, init) \in Nat /\ Loop(prog) \in Nat /\ Death(prog, arg) \in Nat
      /\ DefIdx(prog, yield) \in Nat
  <2>1. /\ {arg, init, yield, res} \subseteq Values(prog)
        /\ arg \in Args(prog) /\ res \in Results(prog)
        /\ DefIdx(prog, arg) = Loop(prog) /\ DefIdx(prog, res) = Loop(prog)
        /\ init \notin Args(prog) \cup Results(prog) /\ DefIdx(prog, init) < Loop(prog)
        /\ yield \notin Results(prog) /\ Loop(prog) <= Death(prog, arg)
    BY <1>1, PhiFacts DEF Arg, Init0, Yielded, Res
  <2>2. /\ Loop(prog) \in Nat
        /\ \A v \in Values(prog) : DefIdx(prog, v) \in Nat /\ Death(prog, v) \in Nat
    <3>1. Loop(prog) \in 1 .. Len(prog.code)
      BY <1>1, ProgramFacts
    <3>2. \A v \in Values(prog) :
            DefIdx(prog, v) \in 1 .. Len(prog.code) /\ Death(prog, v) \in 1 .. Len(prog.code)
      BY <1>1, NodeFacts, UseFacts
    <3> QED
      BY <3>1, <3>2
  <2> QED
    BY <2>1, <2>2
<1>7. arg # init /\ arg # res /\ res # init /\ res # yield
  BY <1>1, <1>6, NodeFacts
<1>8. /\ members[1] = arg
      /\ ToSet(members) = {arg} \cup (IF takesInit THEN {init} ELSE {})
                            \cup (IF takesYield THEN {yield} ELSE {})
                            \cup (IF takesRes THEN {res} ELSE {})
  <2> DEFINE V == Values(prog)
  <2> HIDE DEF arg, init, yield, res, takesInit, takesYield, takesRes
  <2>1. /\ \A v : ToSet(<<v>>) = {v}
        /\ ToSet(<<>>) = {}
    BY DEF ToSet
  <2>2. arg \in V /\ m2 \in Seq(V) /\ m3 \in Seq(V) /\ m4 \in Seq(V)
    BY <1>6
  <2>3. /\ ToSet(m2) = IF takesInit THEN {init} ELSE {}
        /\ ToSet(m3) = IF takesYield THEN {yield} ELSE {}
        /\ ToSet(m4) = IF takesRes THEN {res} ELSE {}
    BY <2>1
  <2> HIDE DEF m2, m3, m4, V
  <2>4. members[1] = arg /\ ToSet(members) = {arg} \cup ToSet(m2) \cup ToSet(m3) \cup ToSet(m4)
    BY <2>2, FourParts
  <2> QED
    BY <2>3, <2>4
<1>9. from = DefIdx(prog, init)
  <2> DEFINE T == {Loop(prog), DefIdx(prog, init)}
  <2>1. T \in SUBSET Nat /\ T # {}
    BY <1>6
  <2>2. Min(T) \in T /\ \A x \in T : Min(T) <= x
    <3> HIDE DEF T
    <3> QED
      BY <2>1, MinOf
  <2> QED
    BY <1>6, <2>2
<1>10. /\ vb.type = "Fused" /\ vb.members = members /\ vb.birth = from /\ vb.death = to
       /\ Members(vb) = ToSet(members)
  BY DEF VBRec, Members
<1> HIDE DEF vb, members, from
<1>11. /\ DOMAIN vbs' = 1 .. Len(vbs) + 1 /\ DOMAIN vbs = 1 .. Len(vbs) /\ Len(vbs) \in Nat
       /\ \A j \in DOMAIN vbs : vbs'[j] = vbs[j]
       /\ vbs'[Len(vbs) + 1] = vb
  BY <1>2, <1>5, AppendProperties, LenProperties
<1>12. MembersIn(vbs)' = MembersIn(vbs) \cup ToSet(members)
  BY <1>10, <1>11 DEF MembersIn, Members
<1>13. \A j \in DOMAIN vbs' : KindInv(vbs[j])'
  <2> PICK s, c : s = vbs' /\ c = cursor
    OBVIOUS
  <2>1. ASSUME NEW j \in DOMAIN s, j \in DOMAIN vbs PROVE KindInv(s[j])
    BY <1>3, <1>11, <2>1
  <2>2. ASSUME NEW j \in DOMAIN s, j = Len(vbs) + 1
        PROVE  s[j].type = "Fused" /\ FusedFor(s[j], c, cursor', splits')
    <3>1. Members(vb) \subseteq {arg, init, yield, res}
      BY <1>8, <1>10
    <3>2. \A v \in Members(vb) : v = init \/ Loop(prog) <= DefIdx(prog, v)
      BY <1>6, <1>8, <1>10 DEF HandsOver
    <3>3. cursor \notin splits' => yield \in Members(vb)
      BY <1>5, <1>8, <1>10
    <3>4. s[j] = vb /\ cursor < cursor'
      BY <1>1, <1>11, <2>2
    <3> QED
      BY <1>8, <1>9, <1>10, <3>1, <3>2, <3>3, <3>4 DEF FusedFor
  <2>3. /\ c \in DOMAIN prog.phis /\ \A j \in DOMAIN s : j \in DOMAIN vbs \/ j = Len(vbs) + 1
        /\ cursor' \in Nat /\ cursor <= cursor'
    BY <1>1, <1>11
  <2>4. splits \subseteq splits'
    BY <1>5
  <2> QED
    BY <1>1, <2>1, <2>2, <2>3, <2>4, KindsCarried
<1>14. CarriedMapped'
  <2> SUFFICES ASSUME NEW i \in DOMAIN prog.phis, i < cursor + 1
               PROVE  /\ Init0(i) \in MembersIn(vbs) \cup ToSet(members)
                      /\ Res(i) \in MembersIn(vbs) \cup ToSet(members) \cup Handoffs(prog)
    BY <1>1, <1>12 DEF CarriedMapped, Init0, Res
  <2>1. CASE i = cursor
    BY <1>4, <1>7, <1>8, <2>1
  <2>2. CASE i # cursor
    <3>1. i < cursor
      BY <1>1, <2>2, ProgramFacts
    <3> QED
      BY <1>3, <3>1 DEF CarriedMapped
  <2> QED
    BY <2>1, <2>2
<1> QED
  BY <1>13, <1>14

(* What relay fusion merges stays on one side of the loop's border, and the *)
(* second VB takes the buffer over from the first.                          *)
LEMMA MergedKind ==
  ASSUME prog \in Programs, NEW a \in VBs(prog), NEW b \in VBs(prog), VBInv(a), VBInv(b),
         Members(a) \cap Members(b) = {}, a.type = "Standard", b.type = "Standard",
         Members(a) \cap Apart = {}, Members(b) \cap Apart = {}, a.death = b.birth,
         ~ HandoffInterferes(a, b), StandardKind(a), StandardKind(b),
         NEW m, Members(m) = Members(a) \cup Members(b), m.birth = a.birth, m.death = b.death
  PROVE  StandardKind(m)
<1>1. ASSUME NEW v \in Members(b), DefIdx(prog, v) = b.birth PROVE TakesOver(m, v)
  <2>1. PICK w \in Members(a) : Death(prog, w) = a.death
    BY DEF VBInv
  <2>2. v \in Values(prog) /\ w \in Values(prog)
    BY DEF VBs, Members, ToSet
  <2>3. /\ v \notin Args(prog) \cup Results(prog) /\ w \notin Args(prog) \cup Results(prog)
    <3>1. ASSUME NEW c \in {a, b}, NEW x \in Members(c) PROVE x \notin Args(prog) \cup Results(prog)
      <4>1. x \notin Apart /\ VBInv(c) /\ c.type = "Standard" /\ StandardKind(c)
        OBVIOUS
      <4>2. x \notin Args(prog)
        BY <4>1 DEF VBInv
      <4>3. x \notin Results(prog)
        BY <4>1 DEF StandardKind, Apart
      <4> QED
        BY <4>2, <4>3
    <3> QED
      BY <3>1
  <2>4. b.birth \in Uses(prog, w) /\ DefIdx(prog, v) \in DOMAIN prog.code
    <3>1. /\ DefIdx(prog, v) \in 1 .. Len(prog.code) /\ prog.code[DefIdx(prog, v)].res = v
          /\ prog.code[DefIdx(prog, w)].res = w
          /\ Uses(prog, w) # {} => Death(prog, w) \in Uses(prog, w)
          /\ Uses(prog, w) = {} => Death(prog, w) = DefIdx(prog, w)
          /\ DOMAIN prog.code = 1 .. Len(prog.code)
      BY <2>2, <2>3, NodeFacts, UseFacts, ProgramFacts
    <3> QED
      BY <1>1, <2>1, <3>1
  <2>5. DefiningOp(b) = prog.code[b.birth]
    BY <1>1, DefinedAtBirth DEF VBInv
  <2>6. LET o == First(Matches(a, b)) IN Matches(a, b) # {} /\ o \in Matches(a, b)
    <3> PICK k \in DOMAIN prog.code : k = b.birth
      BY <1>1, <2>4
    <3> QED
      BY <2>4, <2>5, FirstMatch
  <2>7. PICK o \in DOMAIN a.members, q \in DOMAIN DefiningOp(b).ins :
          a.members[o] = DefiningOp(b).ins[q].val /\ DefiningOp(b).ins[q].rel # "other"
    <3> DEFINE f == First(Matches(a, b))
    <3>1. f \in Matches(a, b) /\ DefiningOp(b).ins[f[2]].rel # "other"
      BY <2>6 DEF HandoffInterferes
    <3>2. /\ f[1] \in DOMAIN a.members /\ f[2] \in DOMAIN DefiningOp(b).ins
          /\ a.members[f[1]] = DefiningOp(b).ins[f[2]].val
      <4> HIDE DEF f
      <4> QED
        BY <3>1 DEF Matches
    <3> QED
      BY <3>1, <3>2
  <2>8. DefOp(v) = DefiningOp(b) /\ a.members[o] \in Members(a)
    BY <1>1, <2>5 DEF DefOp, Members, ToSet
  <2> QED
    BY <2>7, <2>8 DEF TakesOver
<1>2. \E v \in Members(m) : DefIdx(prog, v) = m.birth
  BY DEF StandardKind
<1>3. Members(m) \cap Inits = {} /\ Members(m) \cap Results(prog) \subseteq Handoffs(prog)
  BY DEF StandardKind
<1>4. /\ \A v \in Members(m) : InLoop(prog, DefIdx(prog, v)) <=> InLoop(prog, m.birth)
      /\ InLoop(prog, m.birth) <=> InLoop(prog, m.death)
  BY DEF StandardKind
<1>5. ASSUME NEW v \in Members(m), DefIdx(prog, v) # m.birth PROVE TakesOver(m, v)
  <2>1. CASE v \in Members(a)
    BY <1>5, <2>1 DEF StandardKind, TakesOver
  <2>2. CASE v \in Members(b) /\ DefIdx(prog, v) # b.birth
    BY <2>2 DEF StandardKind, TakesOver
  <2>3. CASE v \in Members(b) /\ DefIdx(prog, v) = b.birth
    BY <1>1, <2>3
  <2> QED
    BY <2>1, <2>2, <2>3
<1> QED
  BY <1>2, <1>3, <1>4, <1>5 DEF StandardKind

(* What a round of relay fusion leaves: the old VBs and one merged of two.  *)
LEMMA OldOrMerged ==
  ASSUME AInv, Relay
  PROVE  \E a, b \in VBs(prog) :
           /\ \A j \in DOMAIN vbs' : (\E i \in DOMAIN vbs : vbs'[j] = vbs[i]) \/ vbs'[j] = Merge(a, b)
           /\ \E i, j \in DOMAIN vbs : i # j /\ a = vbs[i] /\ b = vbs[j]
           /\ Shareable(a) /\ Shareable(b) /\ a.death = b.birth /\ ~ HandoffInterferes(a, b)
           /\ Members(a) \cap Members(b) = {}
           /\ Members(a) \cap Apart = {} /\ Members(b) \cap Apart = {}
<1> DEFINE p == First(RelayPairs)
           n == Len(vbs)
           upd == [vbs EXCEPT ![p[1]] = Merge(@, vbs[p[2]])]
           s == RemoveAt(upd, p[2])
<1>1. prog \in Programs /\ stage = "relay" /\ RelayPairs # {} /\ vbs' = s
  BY DEF AInv, Relay
<1>2. /\ Division(vbs) /\ Ordered(vbs)
      /\ \A i \in DOMAIN vbs : Members(vbs[i]) \cap Apart # {} => vbs[i].excl
  BY <1>1 DEF AInv, MappedSoFar
<1>3. /\ vbs \in Seq(VBs(prog)) /\ n \in Nat /\ DOMAIN vbs = 1 .. n
      /\ \A i \in 1 .. n : vbs[i] \in VBs(prog) /\ VBInv(vbs[i])
  <2>1. vbs \in Seq(VBs(prog)) /\ \A i \in DOMAIN vbs : VBInv(vbs[i])
    BY <1>2 DEF Division
  <2>2. n \in Nat /\ DOMAIN vbs = 1 .. n
    BY <2>1, LenProperties
  <2> QED
    BY <2>1, <2>2, ElementOfSeq
<1>4. p \in RelayPairs
  <2>1. RelayPairs \in SUBSET (Nat \X Nat)
    BY <1>3 DEF RelayPairs
  <2>2. \E m \in RelayPairs :
          \A o \in RelayPairs : m[1] < o[1] \/ (m[1] = o[1] /\ m[2] <= o[2])
    BY <1>1, <2>1, FirstPair
  <2> QED
    BY <2>2 DEF First
<1> HIDE DEF p
<1>5. /\ p[1] \in 1 .. n /\ p[2] \in 1 .. n /\ p[1] < p[2]
      /\ \A i \in {p[1], p[2]} : vbs[i].type = "Standard" /\ ~ vbs[i].excl
      /\ CanRelay(vbs[p[1]], vbs[p[2]])
  BY <1>3, <1>4 DEF RelayPairs
<1> PICK i1, i2, a, b : i1 = p[1] /\ i2 = p[2] /\ a = vbs[i1] /\ b = vbs[i2]
  OBVIOUS
<1>6. /\ i1 \in 1 .. n /\ i2 \in 1 .. n /\ i1 < i2 /\ CanRelay(a, b)
      /\ Shareable(a) /\ Shareable(b) /\ a \in VBs(prog) /\ b \in VBs(prog)
  BY <1>3, <1>5 DEF Shareable
<1>7. a.birth <= b.birth /\ a.birth \in Nat /\ b.birth \in Nat
  <2>1. a.birth <= b.birth
    BY <1>2, <1>3, <1>6 DEF Ordered
  <2>2. a.birth \in Nat /\ b.birth \in Nat
    <3>1. a.birth \in 1 .. Len(prog.code) /\ b.birth \in 1 .. Len(prog.code)
      BY <1>6 DEF VBs
    <3> QED
      BY <3>1
  <2> QED
    BY <2>1, <2>2
<1>8. a.death = b.birth /\ ~ HandoffInterferes(a, b)
  BY <1>6, <1>7 DEF CanRelay
<1>9. /\ Members(a) \cap Members(b) = {}
      /\ Members(a) \cap Apart = {} /\ Members(b) \cap Apart = {}
  BY <1>2, <1>3, <1>6 DEF Division, Shareable
<1>10. Merge(a, b) \in VBs(prog)
  BY <1>1, <1>3, <1>6, <1>8, <1>9, MergeInv
<1>11. upd = [vbs EXCEPT ![i1] = Merge(a, b)]
  <2>1. p[1] = i1 /\ p[2] = i2 /\ vbs[p[1]] = a /\ vbs[p[2]] = b
    OBVIOUS
  <2> QED
    BY <1>3, <1>6, <2>1
<1>12. upd \in Seq(VBs(prog)) /\ Len(upd) = n
  BY <1>3, <1>6, <1>10, <1>11, ExceptSeq
<1>13. \A j \in 1 .. n : upd[j] = vbs[j] \/ upd[j] = Merge(a, b)
  BY <1>3, <1>6, <1>11
<1> HIDE DEF upd
<1>14. /\ s \in Seq(VBs(prog)) /\ Len(s) = n - 1
       /\ \A k \in 1 .. n - 1 : s[k] = upd[IF k < i2 THEN k ELSE k + 1]
  BY <1>6, <1>12, RemoveAtElements
<1> HIDE DEF s
<1>15. ASSUME NEW j \in DOMAIN s
       PROVE  (\E i \in DOMAIN vbs : s[j] = vbs[i]) \/ s[j] = Merge(a, b)
  <2>1. j \in 1 .. n - 1
    BY <1>14, LenProperties
  <2> PICK k : k = IF j < i2 THEN j ELSE j + 1
    OBVIOUS
  <2>2. k \in 1 .. n /\ s[j] = upd[k]
    BY <1>3, <1>6, <1>14, <2>1
  <2> QED
    BY <1>3, <1>13, <2>2
<1> QED
  BY <1>1, <1>3, <1>6, <1>8, <1>9, <1>15

(* Relay fusion keeps what the VBs are made of.                            *)
LEMMA RelayKinds ==
  ASSUME AInv, BucketInv, Relay
  PROVE  BucketInv'
<1>1. /\ prog \in Programs /\ stage = "relay" /\ stage' = "relay"
      /\ prog' = prog /\ cursor' = cursor /\ splits' = splits /\ cursor \in Nat
      /\ \A i \in DOMAIN vbs : VBInv(vbs[i])
  BY DEF AInv, Relay, Division
<1> SUFFICES ASSUME Supported(prog) PROVE CarriedMapped' /\ \A j \in DOMAIN vbs' : KindInv(vbs[j])'
  BY <1>1 DEF BucketInv
<1>2. CarriedMapped /\ \A j \in DOMAIN vbs : KindInv(vbs[j])
  BY DEF BucketInv
<1>3. PICK a, b \in VBs(prog) :
        /\ \A j \in DOMAIN vbs' : (\E i \in DOMAIN vbs : vbs'[j] = vbs[i]) \/ vbs'[j] = Merge(a, b)
        /\ \E i, j \in DOMAIN vbs : i # j /\ a = vbs[i] /\ b = vbs[j]
        /\ Shareable(a) /\ Shareable(b) /\ a.death = b.birth /\ ~ HandoffInterferes(a, b)
        /\ Members(a) \cap Members(b) = {}
        /\ Members(a) \cap Apart = {} /\ Members(b) \cap Apart = {}
  BY OldOrMerged
<1>4. VBInv(a) /\ VBInv(b) /\ a.type = "Standard" /\ b.type = "Standard"
  BY <1>1, <1>3 DEF Shareable
<1>5. StandardKind(a) /\ StandardKind(b)
  BY <1>2, <1>3, <1>4 DEF KindInv
<1>6. /\ Merge(a, b).type = "Standard" /\ Merge(a, b).birth = a.birth
      /\ Merge(a, b).death = b.death /\ Members(Merge(a, b)) = Members(a) \cup Members(b)
  <2>1. /\ Merge(a, b).type = "Standard" /\ Merge(a, b).birth = a.birth
        /\ Members(Merge(a, b)) = Members(a) \cup Members(b)
    BY <1>1, <1>3, <1>4, MergeInv
  <2>2. /\ a.death \in Nat /\ b.death \in Nat /\ b.birth <= b.death
        /\ Merge(a, b).death = Max({a.death, b.death})
    BY <1>4 DEF VBs, VBInv, Merge
  <2>3. Max({a.death, b.death}) = b.death
    <3> DEFINE T == {a.death, b.death}
    <3>1. T \in SUBSET (0 .. b.death) /\ T # {}
      BY <1>3, <2>2
    <3>2. Max(T) \in T /\ \A x \in T : x <= Max(T)
      <4> HIDE DEF T
      <4> QED
        BY <2>2, <3>1, MaxOf
    <3> QED
      BY <1>3, <2>2, <3>2
  <2> QED
    BY <2>1, <2>2, <2>3
<1>7. StandardKind(Merge(a, b))
  BY <1>1, <1>3, <1>4, <1>5, <1>6, MergedKind
<1>8. \A j \in DOMAIN vbs' : KindInv(vbs[j])'
  <2> PICK s : s = vbs'
    OBVIOUS
  <2>1. ASSUME NEW j \in DOMAIN s PROVE KindInv(s[j])
    BY <1>2, <1>3, <1>6, <1>7 DEF KindInv
  <2>2. cursor' \in Nat /\ cursor <= cursor' /\ splits \subseteq splits'
    BY <1>1
  <2> QED
    BY <1>1, <2>1, <2>2, KindsCarried
<1>9. MembersIn(vbs) = Values(prog) /\ MembersIn(vbs)' = Values(prog)
  <2>1. AInv'
    BY RelayInv
  <2> QED
    BY <1>1, <2>1 DEF AInv, MappedSoFar
<1>10. CarriedMapped'
  BY <1>1, <1>2, <1>9, CarriedMappedKept
<1> QED
  BY <1>8, <1>10

(* Nothing else changes the VBs. *)
LEMMA BucketKept ==
  ASSUME AInv, BucketInv, prog' = prog, vbs' = vbs, splits' = splits, cursor' = cursor,
         \A i \in DOMAIN prog.phis :
           (i < cursor \/ stage' \notin {"special", "phi"})
             => (i < cursor \/ stage \notin {"special", "phi"})
  PROVE  BucketInv'
<1>1. prog \in Programs /\ cursor \in Nat
  BY DEF AInv
<1> SUFFICES ASSUME Supported(prog) PROVE CarriedMapped' /\ \A j \in DOMAIN vbs' : KindInv(vbs[j])'
  BY DEF BucketInv
<1>2. CarriedMapped /\ \A j \in DOMAIN vbs : KindInv(vbs[j])
  BY DEF BucketInv
<1>3. \A j \in DOMAIN vbs' : KindInv(vbs[j])'
  <2> PICK s : s = vbs'
    OBVIOUS
  <2>1. cursor' \in Nat /\ cursor <= cursor' /\ splits \subseteq splits'
    BY <1>1
  <2> QED
    BY <1>1, <1>2, <2>1, KindsCarried
<1>4. MembersIn(vbs)' = MembersIn(vbs)
  BY DEF MembersIn, Members
<1>5. CarriedMapped'
  BY <1>2, <1>4, CarriedMappedKept
<1> QED
  BY <1>3, <1>5

(* Before the first phase there is no VB.                                  *)
LEMMA BucketInit == AInit => BucketInv
<1> SUFFICES ASSUME AInit PROVE BucketInv
  OBVIOUS
<1>1. prog \in Programs /\ stage = "special" /\ cursor = 1 /\ vbs = <<>>
  BY DEF AInit
<1>2. \A i \in DOMAIN prog.phis : ~ i < cursor
  BY <1>1, ProgramFacts
<1> QED
  BY <1>1, <1>2 DEF BucketInv, CarriedMapped

(* Every step of the analysis keeps what the VBs are made of.              *)
LEMMA BucketStep ==
  ASSUME AInv, BucketInv, [ANext \/ APlanned]_avars
  PROVE  BucketInv'
<1>1. CASE PhiDone
  <2>1. \A i \in DOMAIN prog.phis : i < cursor
    BY <1>1, ProgramFacts DEF AInv, PhiDone
  <2> QED
    BY <1>1, <2>1, BucketKept DEF PhiDone
<1>2. CASE StartColoring
  BY <1>2, BucketKept DEF StartColoring
<1>3. CASE Color
  BY <1>3, BucketKept DEF Color
<1>4. CASE UNCHANGED avars
  BY <1>4, BucketKept DEF avars
<1> QED
  BY <1>1, <1>2, <1>3, <1>4, SpecialKinds, PhiFuseKinds, EternalKinds, StandardKinds, RelayKinds
  DEF ANext, APlanned

-----------------------------------------------------------------------------
(* The plan of a supported program. *)
Planned == AInv /\ BucketInv /\ phase = "done" /\ Supported(prog)

(* Every value has its VB, and the VBs are of the three kinds.              *)
LEMMA PlanFacts ==
  ASSUME Planned
  PROVE  /\ prog \in Programs /\ stage = "color" /\ cursor \in Nat /\ CarriedMapped
         /\ \A v \in Values(prog) : VBOf(v) \in DOMAIN vbs /\ v \in Members(vbs[VBOf(v)])
         /\ \A v \in Values(prog) : \A b \in DOMAIN vbs : v \in Members(vbs[b]) => b = VBOf(v)
         /\ \A b \in DOMAIN vbs : vbs[b] \in VBs(prog) /\ VBInv(vbs[b]) /\ KindInv(vbs[b])
<1>1. /\ AInv /\ BucketInv /\ Supported(prog) /\ prog \in Programs /\ stage = "color" /\ cursor \in Nat
      /\ Division(vbs)
  BY DEF Planned, AInv, Colored
<1>2. \A v \in Values(prog) :
        /\ VBOf(v) \in DOMAIN vbs /\ v \in Members(vbs[VBOf(v)])
        /\ \A b \in DOMAIN vbs : v \in Members(vbs[b]) => b = VBOf(v)
  BY <1>1, VBOfFacts
<1>3. \A b \in DOMAIN vbs : vbs[b] \in VBs(prog) /\ VBInv(vbs[b])
  BY <1>1, ElementOfSeq DEF Division
<1> QED
  BY <1>1, <1>2, <1>3 DEF BucketInv

(* A VB covers the lives of its members.                                    *)
LEMMA VBFacts ==
  ASSUME Planned, NEW b \in DOMAIN vbs
  PROVE  /\ vbs[b].birth \in 1 .. Len(prog.code) /\ vbs[b].death \in 1 .. Len(prog.code)
         /\ vbs[b].birth <= vbs[b].death
         /\ vbs[b].members # <<>> /\ vbs[b].members \in Seq(Values(prog))
         /\ Members(vbs[b]) \subseteq Values(prog)
         /\ \A v \in Members(vbs[b]) : /\ VBOf(v) = b /\ vbs[b].birth <= DefIdx(prog, v)
                                       /\ LiveUntil(prog, v) <= vbs[b].death
                                       /\ v \in Apart => vbs[b].members = <<v>>
<1>1. vbs[b] \in VBs(prog) /\ VBInv(vbs[b])
  BY PlanFacts
<1>2. /\ vbs[b].birth \in 1 .. Len(prog.code) /\ vbs[b].death \in 1 .. Len(prog.code)
      /\ vbs[b].members \in Seq(Values(prog))
  BY <1>1 DEF VBs
<1>3. Members(vbs[b]) \subseteq Values(prog)
  BY <1>2 DEF Members, ToSet
<1>4. Promised(vbs[b])
  BY DEF Promised, Planned, Supported
<1> QED
  BY <1>1, <1>2, <1>3, <1>4, PlanFacts DEF VBInv

(* The VB of an iter_arg. *)
LEMMA ArgVB ==
  ASSUME Planned, NEW i \in DOMAIN prog.phis
  PROVE  LET b == VBOf(Arg(i))
         IN  /\ Arg(i) \in Values(prog) /\ b \in DOMAIN vbs /\ Arg(i) \in Members(vbs[b])
             /\ vbs[b].type = "Fused" /\ FusedFor(vbs[b], i, cursor, splits)
<1> DEFINE b == VBOf(Arg(i))
<1>1. /\ prog \in Programs /\ Arg(i) \in Values(prog) /\ Arg(i) \in Args(prog)
      /\ DefIdx(prog, Arg(i)) = Loop(prog) /\ Supported(prog)
  BY PlanFacts, PhiFacts DEF Arg, Planned
<1>2. b \in DOMAIN vbs /\ Arg(i) \in Members(vbs[b]) /\ VBInv(vbs[b]) /\ KindInv(vbs[b])
  BY <1>1, PlanFacts
<1> HIDE DEF b
<1>3. vbs[b].type # "Eternal"
  <2> SUFFICES ASSUME vbs[b].type = "Eternal" PROVE FALSE
    OBVIOUS
  <2>1. PICK v \in Values(prog) : EternalFor(vbs[b], v)
    BY <1>2 DEF KindInv
  <2>2. v = Arg(i)
    BY <1>2, <2>1 DEF EternalFor, Members, ToSet
  <2> QED
    BY <1>1, <2>1, <2>2, ProgramFacts DEF EternalFor
<1>4. vbs[b].type # "Standard"
  <2>1. Arg(i) \notin Apart
    BY <1>1, CarriedFacts
  <2>2. Members(vbs[b]) \cap Args(prog) \subseteq Apart \/ vbs[b].type \in {"Fused", "LoopCarried"}
    BY <1>2 DEF VBInv
  <2> QED
    BY <1>1, <1>2, <2>1, <2>2
<1>5. vbs[b].type = "Fused"
  BY <1>2, <1>3, <1>4 DEF KindInv
<1>6. PICK j \in DOMAIN prog.phis : FusedFor(vbs[b], j, cursor, splits)
  BY <1>2, <1>5 DEF KindInv
<1>7. Arg(i) \in {Arg(j), Init0(j), Yielded(j), Res(j)}
  BY <1>2, <1>6 DEF FusedFor
<1>8. /\ Init0(j) \notin Args(prog) /\ Res(j) \notin Args(prog)
  BY <1>1, PhiFacts, NodeFacts DEF Init0, Res
<1>9. Arg(i) = Arg(j)
  <2>1. Yielded(j) \notin Args(prog) \ {Arg(j)}
    BY <1>1 DEF Supported, NoRotation, Yielded, Arg
  <2> QED
    BY <1>1, <1>7, <1>8, <2>1
<1>10. i = j
  BY <1>1, <1>9, PhisDistinct
<1> QED
  BY <1>1, <1>2, <1>5, <1>6, <1>10 DEF b

(* A Fused VB is that of its iter_arg.                                      *)
LEMMA FusedVB ==
  ASSUME Planned, NEW b \in DOMAIN vbs, vbs[b].type = "Fused"
  PROVE  \E i \in DOMAIN prog.phis : b = VBOf(Arg(i)) /\ FusedFor(vbs[b], i, cursor, splits)
<1>1. PICK i \in DOMAIN prog.phis : FusedFor(vbs[b], i, cursor, splits)
  BY PlanFacts DEF KindInv
<1>2. Arg(i) \in Members(vbs[b])
  <2>1. 1 \in DOMAIN vbs[b].members
    BY VBFacts, EmptySeq, LenProperties
  <2> QED
    BY <1>1, <2>1 DEF FusedFor, Members, ToSet
<1> QED
  BY <1>1, <1>2, VBFacts

(* A phi is that of its iter_arg and of its result. *)
LEMMA PhiOfFacts ==
  ASSUME prog \in Programs, NEW i \in DOMAIN prog.phis
  PROVE  PhiOf(Arg(i)) = i /\ PhiOf(Res(i)) = i
<1>1. ASSUME NEW v \in {Arg(i), Res(i)}, NEW j \in DOMAIN prog.phis,
             v \in {prog.phis[j].arg, prog.phis[j].res}
      PROVE  j = i
  <2>1. v \in {Arg(j), Res(j)}
    BY <1>1 DEF Arg, Res
  <2>2. Arg(i) # Res(j) /\ Arg(j) # Res(i)
    BY PhiFacts, NodeFacts DEF Arg, Res
  <2> QED
    BY <1>1, <2>1, <2>2, PhisDistinct
<1>2. ASSUME NEW v \in {Arg(i), Res(i)} PROVE PhiOf(v) = i
  <2>1. v \in {prog.phis[i].arg, prog.phis[i].res}
    BY DEF Arg, Res
  <2> QED
    BY <1>1, <2>1 DEF PhiOf
<1> QED
  BY <1>2

(* The first member of a VB: no other one is defined before it, and the one *)
(* that stands first comes first.                                           *)
LEMMA BirthNodeFacts ==
  ASSUME prog \in Programs, NEW vb \in VBs(prog), vb.members # <<>>
  PROVE  /\ BirthNode(vb) \in Members(vb)
         /\ \A v \in Members(vb) : DefIdx(prog, BirthNode(vb)) <= DefIdx(prog, v)
         /\ DefIdx(prog, vb.members[1]) = DefIdx(prog, BirthNode(vb)) => BirthNode(vb) = vb.members[1]
<1> DEFINE s == vb.members
           S == {<<DefIdx(prog, s[i]), i>> : i \in DOMAIN s}
           m == First(S)
<1>1. s \in Seq(Values(prog)) /\ s # <<>>
  BY DEF VBs
<1> HIDE DEF s
<1>2. /\ 1 \in DOMAIN s /\ \A i \in DOMAIN s : i \in Nat /\ 1 <= i /\ s[i] \in Values(prog)
  BY <1>1, EmptySeq, LenProperties, ElementOfSeq
<1>3. \A i \in DOMAIN s : DefIdx(prog, s[i]) \in Nat
  BY <1>2, NodeFacts
<1>4. S \in SUBSET (Nat \X Nat) /\ S # {}
  <2>1. \A i \in DOMAIN s : <<DefIdx(prog, s[i]), i>> \in Nat \X Nat
    BY <1>2, <1>3
  <2>2. <<DefIdx(prog, s[1]), 1>> \in S
    BY <1>2
  <2> QED
    BY <2>1, <2>2
<1>5. m \in S /\ \A n \in S : m[1] < n[1] \/ (m[1] = n[1] /\ m[2] <= n[2])
  BY <1>4, FirstPair DEF First
<1> HIDE DEF m
<1>6. PICK i \in DOMAIN s : m = <<DefIdx(prog, s[i]), i>>
  BY <1>5
<1>7. \A j \in DOMAIN s :
        DefIdx(prog, s[i]) < DefIdx(prog, s[j]) \/ (DefIdx(prog, s[i]) = DefIdx(prog, s[j]) /\ i <= j)
  <2> SUFFICES ASSUME NEW j \in DOMAIN s
               PROVE  DefIdx(prog, s[i]) < DefIdx(prog, s[j]) \/ (DefIdx(prog, s[i]) = DefIdx(prog, s[j]) /\ i <= j)
    OBVIOUS
  <2>1. <<DefIdx(prog, s[j]), j>> \in S
    OBVIOUS
  <2> QED
    BY <1>5, <1>6, <2>1
<1>8. BirthNode(vb) = s[i]
  <2>1. BirthNode(vb) = s[m[2]]
    BY DEF BirthNode, m, s
  <2>2. m[2] = i
    BY <1>6
  <2> QED
    BY <2>1, <2>2
<1>9. \A v \in Members(vb) : \E j \in DOMAIN s : v = s[j]
  BY DEF Members, ToSet, s
<1>10. s[i] \in Members(vb)
  BY <1>6 DEF Members, ToSet, s
<1>11. \A v \in Members(vb) : DefIdx(prog, s[i]) <= DefIdx(prog, v)
  BY <1>3, <1>7, <1>9
<1>12. DefIdx(prog, s[1]) = DefIdx(prog, s[i]) => s[i] = s[1]
  <2> SUFFICES ASSUME DefIdx(prog, s[1]) = DefIdx(prog, s[i]) PROVE i = 1
    OBVIOUS
  <2>1. i <= 1
    BY <1>2, <1>3, <1>7
  <2> QED
    BY <1>2, <2>1
<1> QED
  BY <1>8, <1>10, <1>11, <1>12 DEF s

(* Tensors that operations compute or load are told apart by these.         *)
LEMMA DefinedOnce ==
  ASSUME prog \in Programs, NEW u \in Values(prog), NEW v \in Values(prog), ~ IsPhi(v),
         DefIdx(prog, u) = DefIdx(prog, v)
  PROVE  u = v
BY NodeFacts DEF IsPhi

(* A value that is no phi is what a linalg operation or a load gives.       *)
LEMMA DefOpFacts ==
  ASSUME prog \in Programs, NEW v \in Values(prog), ~ IsPhi(v)
  PROVE  /\ DefIdx(prog, v) \in DOMAIN prog.code /\ DefOp(v) = prog.code[DefIdx(prog, v)]
         /\ DefOp(v).res = v /\ DefOp(v).kind \in {"linalg", "load"}
         /\ DefIdx(prog, v) # Loop(prog) /\ DefIdx(prog, v) # Yield(prog)
         /\ DefOp(v).kind = "load" => v \in Handoffs(prog)
<1> DEFINE k == DefIdx(prog, v)
<1>1. /\ k \in DOMAIN prog.code /\ prog.code[k].res = v /\ k # Loop(prog)
  BY NodeFacts, ProgramFacts DEF IsPhi
<1>2. /\ NoVal \notin Values(prog) /\ prog.code[Yield(prog)].res = NoVal
  BY ProgramFacts DEF WellFormed
<1> HIDE DEF k
<1>3. WellFormedOp(prog, k)
  BY <1>1, OperationFacts
<1>4. prog.code[k].kind \in {"linalg", "load"}
  BY <1>1, <1>2, <1>3 DEF WellFormedOp
<1>5. DefOp(v) = prog.code[k]
  BY DEF DefOp, k
<1>6. prog.code[k].kind = "load" => v \in Handoffs(prog)
  BY <1>1 DEF Handoffs
<1> QED
  BY <1>1, <1>2, <1>4, <1>5, <1>6 DEF k

(* A Standard VB that has data of its own holds no phi.                     *)
LEMMA NoPhis ==
  ASSUME Planned, NEW b \in DOMAIN vbs, Homed(b), vbs[b].type = "Standard", NEW v \in Members(vbs[b])
  PROVE  ~ IsPhi(v)
<1>1. v \notin Args(prog)
  <2> SUFFICES ASSUME v \in Args(prog) PROVE FALSE
    OBVIOUS
  <2>1. PICK i \in DOMAIN prog.phis : v = Arg(i)
    BY DEF Args, Arg
  <2>2. VBOf(v) = b
    BY VBFacts
  <2> QED
    BY <2>1, <2>2, ArgVB
<1>2. v \notin Results(prog)
  <2> SUFFICES ASSUME v \in Results(prog) PROVE FALSE
    OBVIOUS
  <2>1. StandardKind(vbs[b])
    BY PlanFacts DEF KindInv
  <2>2. v \in Apart
    BY <2>1 DEF StandardKind, Apart
  <2>3. Members(vbs[b]) = {v}
    BY <2>2, VBFacts DEF Members, ToSet
  <2> QED
    BY <2>3 DEF Homed
<1> QED
  BY <1>1, <1>2 DEF IsPhi

(* Where the life of a VB begins and ends.                                  *)
LEMMA HomedFacts ==
  ASSUME Planned, NEW b \in DOMAIN vbs, Homed(b)
  PROVE  /\ vbs[b].birth # Loop(prog) /\ vbs[b].birth # Yield(prog) /\ vbs[b].death # Loop(prog)
         /\ vbs[b].type \in {"Fused", "Eternal", "Standard"}
         /\ vbs[b].type # "Standard" => vbs[b].birth < Loop(prog) /\ Yield(prog) <= vbs[b].death
         /\ vbs[b].type = "Eternal" => vbs[b].death = Yield(prog)
         /\ vbs[b].type = "Standard" =>
              (InLoop(prog, vbs[b].birth) <=> InLoop(prog, vbs[b].death))
<1>1. /\ prog \in Programs /\ KindInv(vbs[b]) /\ VBInv(vbs[b])
      /\ vbs[b].type \in {"Fused", "Eternal", "Standard"}
  BY PlanFacts DEF KindInv
<1>2. Loop(prog) \in Nat /\ Yield(prog) \in Nat /\ Loop(prog) < Yield(prog)
  BY <1>1, ProgramFacts
<1>3. CASE vbs[b].type = "Fused"
  <2>1. PICK i \in DOMAIN prog.phis : FusedFor(vbs[b], i, cursor, splits)
    BY <1>3, FusedVB
  <2>2. DefIdx(prog, Init0(i)) < Loop(prog) /\ DefIdx(prog, Init0(i)) \in Nat
    BY <1>1, PhiFacts, NodeFacts DEF Init0
  <2>3. vbs[b].birth = DefIdx(prog, Init0(i)) /\ Yield(prog) <= vbs[b].death
    <3>1. Death(prog, Res(i)) \in 1 .. Len(prog.code)
      BY <1>1, PhiFacts, UseFacts DEF Res
    <3>2. {Yield(prog), Death(prog, Res(i))} \in SUBSET (0 .. Len(prog.code)) /\ Len(prog.code) \in Nat
      BY <1>1, <3>1, ProgramFacts
    <3>3. Yield(prog) <= Max({Yield(prog), Death(prog, Res(i))})
      BY <3>2, MaxOf
    <3> QED
      BY <2>1, <3>3 DEF FusedFor
  <2> QED
    BY <1>2, <1>3, <2>2, <2>3, VBFacts
<1>4. CASE vbs[b].type = "Eternal"
  <2>1. PICK v \in Values(prog) : EternalFor(vbs[b], v)
    BY <1>1, <1>4 DEF KindInv
  <2>2. DefIdx(prog, v) \in Nat
    BY <1>1, NodeFacts
  <2> QED
    BY <1>2, <1>4, <2>1, <2>2 DEF EternalFor
<1>5. CASE vbs[b].type = "Standard"
  <2>1. StandardKind(vbs[b])
    BY <1>1, <1>5 DEF KindInv
  <2>2. PICK v \in Members(vbs[b]) : DefIdx(prog, v) = vbs[b].birth
    BY <2>1 DEF StandardKind
  <2>3. v \in Values(prog) /\ ~ IsPhi(v)
    BY <1>5, NoPhis, VBFacts
  <2>4. vbs[b].birth # Loop(prog) /\ vbs[b].birth # Yield(prog)
    BY <1>1, <2>2, <2>3, DefOpFacts
  <2>5. PICK w \in Members(vbs[b]) : Death(prog, w) = vbs[b].death
    BY <1>1, <1>5 DEF VBInv
  <2>6. w \in Values(prog) /\ ~ IsPhi(w)
    BY <1>5, NoPhis, VBFacts
  <2>7. vbs[b].death # Loop(prog)
    <3> SUFFICES ASSUME Death(prog, w) = Loop(prog) PROVE FALSE
      BY <2>5
    <3>1. Loop(prog) \in Uses(prog, w)
      BY <1>1, <2>6, UseFacts, DefOpFacts
    <3>2. PICK i \in DOMAIN prog.phis : w = Init0(i)
      BY <1>1, <3>1, ProgramFacts DEF Uses, Init0, InitOf
    <3> QED
      BY <2>1, <3>2 DEF StandardKind, Inits
  <2> QED
    BY <1>5, <2>1, <2>4, <2>7 DEF StandardKind
<1> QED
  BY <1>1, <1>3, <1>4, <1>5

(* The iter_arg's VB holds the init value, or that is cloned: then it is in *)
(* the VB of another iter_arg, and is filled in.                            *)
LEMMA InitVB ==
  ASSUME Planned, NEW i \in DOMAIN prog.phis
  PROVE  LET vb == vbs[VBOf(Arg(i))]
         IN  /\ Init0(i) \in Values(prog) /\ ~ IsPhi(Init0(i)) /\ IsLinalg(Init0(i))
             /\ ClonedInit(i) => /\ Init0(i) \notin Members(vb) /\ BirthNode(vb) = Arg(i)
                                 /\ DefOp(Init0(i)).ins = <<>>
             /\ ~ ClonedInit(i) => Init0(i) \in Members(vb) /\ BirthNode(vb) = Init0(i)
<1> DEFINE b == VBOf(Arg(i))
           vb == vbs[b]
<1>1. /\ prog \in Programs /\ Supported(prog) /\ b \in DOMAIN vbs
      /\ Arg(i) \in Members(vb) /\ vb.type = "Fused" /\ FusedFor(vb, i, cursor, splits)
      /\ vb \in VBs(prog) /\ vb.members # <<>>
  BY PlanFacts, ArgVB, VBFacts DEF Planned
<1>2. /\ Init0(i) \in Values(prog) /\ ~ IsPhi(Init0(i)) /\ DefIdx(prog, Init0(i)) < Loop(prog)
      /\ DefIdx(prog, Arg(i)) = Loop(prog) /\ Arg(i) \in Args(prog)
      /\ DefIdx(prog, Init0(i)) \in Int /\ Loop(prog) \in Int
  BY <1>1, PhiFacts, NodeFacts, ProgramFacts DEF Init0, Arg, IsPhi
<1>3. IsLinalg(Init0(i))
  BY <1>1, <1>2, DefOpFacts, CarriedFacts DEF IsLinalg, Apart
<1> HIDE DEF b
<1>4. /\ BirthNode(vb) \in Members(vb)
      /\ \A v \in Members(vb) : DefIdx(prog, BirthNode(vb)) <= DefIdx(prog, v)
      /\ DefIdx(prog, vb.members[1]) = DefIdx(prog, BirthNode(vb)) => BirthNode(vb) = vb.members[1]
  BY <1>1, BirthNodeFacts
<1>5. /\ \A v \in Members(vb) : v = Init0(i) \/ Loop(prog) <= DefIdx(prog, v)
      /\ vb.members[1] = Arg(i)
  BY <1>1 DEF FusedFor
<1>6. DefIdx(prog, BirthNode(vb)) \in Int
  BY <1>1, <1>4, VBFacts, NodeFacts
<1>7. CASE Init0(i) \in Members(vb)
  <2>1. DefIdx(prog, BirthNode(vb)) <= DefIdx(prog, Init0(i))
    BY <1>4, <1>7
  <2>2. BirthNode(vb) = Init0(i)
    BY <1>2, <1>4, <1>5, <1>6, <2>1
  <2>3. ~ ClonedInit(i)
    BY <1>2, <2>2 DEF ClonedInit, Arg, b, IsPhi
  <2> QED
    BY <1>2, <1>3, <1>7, <2>2, <2>3 DEF b
<1>8. CASE Init0(i) \notin Members(vb)
  <2>1. Loop(prog) <= DefIdx(prog, BirthNode(vb)) /\ DefIdx(prog, BirthNode(vb)) <= Loop(prog)
    BY <1>1, <1>2, <1>4, <1>5, <1>8
  <2>2. BirthNode(vb) = Arg(i)
    BY <1>2, <1>4, <1>5, <1>6, <2>1
  <2>3. ClonedInit(i)
    BY <1>3, <2>2 DEF ClonedInit, Arg, Init0, b
  <2>4. PICK a \in DOMAIN vbs : Init0(i) \in Members(vbs[a])
    BY <1>2, PlanFacts
  <2>5. vbs[a].type = "Fused"
    <3>1. Init0(i) \in Inits
      BY DEF Inits
    <3>2. vbs[a].type # "Standard"
      BY <2>4, <3>1, PlanFacts DEF KindInv, StandardKind
    <3>3. vbs[a].type # "Eternal"
      <4> SUFFICES ASSUME vbs[a].type = "Eternal" PROVE FALSE
        OBVIOUS
      <4>1. PICK v \in Values(prog) : EternalFor(vbs[a], v)
        BY PlanFacts DEF KindInv
      <4> QED
        BY <2>4, <3>1, <4>1 DEF EternalFor, Members, ToSet
    <3> QED
      BY <3>2, <3>3, PlanFacts DEF KindInv
  <2>6. PICK j \in DOMAIN prog.phis : a = VBOf(Arg(j)) /\ FusedFor(vbs[a], j, cursor, splits)
    BY <2>5, FusedVB
  <2>7. i # j
    BY <1>8, <2>4, <2>6 DEF b
  <2>8. Init0(i) = Init0(j)
    <3>1. Init0(i) = Init0(j) \/ Loop(prog) <= DefIdx(prog, Init0(i))
      BY <2>4, <2>6 DEF FusedFor
    <3> QED
      BY <1>2, <3>1
  <2>9. prog.code[DefIdx(prog, Init0(i))].ins = <<>>
    BY <1>1, <2>7, <2>8 DEF Supported, SharedInitsFilled, Init0
  <2> QED
    BY <1>2, <1>3, <1>8, <2>2, <2>3, <2>9 DEF b, DefOp
<1> QED
  BY <1>7, <1>8

(* The member of a VB that is defined at its birth comes first, but for the *)
(* iter_arg of a loop whose init value is elsewhere.                        *)
LEMMA BornWith ==
  ASSUME Planned, NEW b \in DOMAIN vbs, Homed(b)
  PROVE  LET w == BirthNode(vbs[b])
         IN  /\ w \in Members(vbs[b]) /\ w \in Values(prog)
             /\ w \in Args(prog) \/ (~ IsPhi(w) /\ DefIdx(prog, w) = vbs[b].birth)
             /\ w \in Args(prog) => \E i \in DOMAIN prog.phis : b = VBOf(Arg(i)) /\ ClonedInit(i)
             /\ \A v \in Members(vbs[b]) :
                  (~ IsPhi(v) /\ DefIdx(prog, v) = vbs[b].birth) => w = v
<1> DEFINE w == BirthNode(vbs[b])
<1>1. /\ prog \in Programs /\ KindInv(vbs[b]) /\ vbs[b] \in VBs(prog) /\ vbs[b].members # <<>>
      /\ \A v \in Members(vbs[b]) : v \in Values(prog) /\ vbs[b].birth <= DefIdx(prog, v)
      /\ vbs[b].birth \in Int /\ vbs[b].type \in {"Fused", "Eternal", "Standard"}
  BY PlanFacts, VBFacts, HomedFacts
<1>2. w \in Members(vbs[b]) /\ \A v \in Members(vbs[b]) : DefIdx(prog, w) <= DefIdx(prog, v)
  BY <1>1, BirthNodeFacts
<1> HIDE DEF w
<1>3. /\ w \in Values(prog) /\ DefIdx(prog, w) \in Int
      /\ \A v \in Members(vbs[b]) : DefIdx(prog, v) \in Int
  BY <1>1, <1>2, NodeFacts
<1>4. ASSUME NEW v \in Members(vbs[b]), ~ IsPhi(v), DefIdx(prog, v) = vbs[b].birth PROVE w = v
  <2>1. DefIdx(prog, w) = DefIdx(prog, v)
    BY <1>1, <1>2, <1>3, <1>4
  <2> QED
    BY <1>1, <1>3, <1>4, <2>1, DefinedOnce
<1>5. CASE vbs[b].type = "Standard"
  <2>1. PICK v \in Members(vbs[b]) : DefIdx(prog, v) = vbs[b].birth
    BY <1>1, <1>5 DEF KindInv, StandardKind
  <2>2. ~ IsPhi(v)
    BY <1>5, NoPhis
  <2>3. w = v /\ w \notin Args(prog)
    BY <1>4, <2>1, <2>2 DEF IsPhi
  <2> QED
    BY <1>2, <1>3, <1>4, <2>1, <2>2, <2>3 DEF w
<1>6. CASE vbs[b].type = "Eternal"
  <2>1. PICK v \in Values(prog) : EternalFor(vbs[b], v)
    BY <1>1, <1>6 DEF KindInv
  <2>2. w = v
    BY <1>2, <2>1 DEF EternalFor, Members, ToSet
  <2>3. ~ IsPhi(v)
    BY <1>1, <2>1, NodeFacts, ProgramFacts DEF EternalFor, IsPhi
  <2>4. w \notin Args(prog)
    BY <2>2, <2>3 DEF IsPhi
  <2> QED
    BY <1>2, <1>3, <1>4, <2>1, <2>2, <2>3, <2>4 DEF w, EternalFor
<1>7. CASE vbs[b].type = "Fused"
  <2>1. PICK i \in DOMAIN prog.phis : b = VBOf(Arg(i)) /\ FusedFor(vbs[b], i, cursor, splits)
    BY <1>7, FusedVB
  <2>2. CASE ClonedInit(i)
    <3>1. w = Arg(i) /\ w \in Args(prog)
      BY <2>1, <2>2, InitVB DEF w, Args, Arg
    <3> QED
      BY <1>2, <1>3, <1>4, <2>1, <2>2, <3>1 DEF w
  <2>3. CASE ~ ClonedInit(i)
    <3>1. w = Init0(i) /\ ~ IsPhi(w)
      BY <2>1, <2>3, InitVB DEF w
    <3>2. w \notin Args(prog) /\ DefIdx(prog, w) = vbs[b].birth
      BY <2>1, <3>1 DEF IsPhi, FusedFor
    <3> QED
      BY <1>2, <1>3, <1>4, <3>1, <3>2 DEF w
  <2> QED
    BY <2>2, <2>3
<1> QED
  BY <1>1, <1>5, <1>6, <1>7

(* VBs of one colour take turns.                                            *)
LEMMA SharersTakeTurns ==
  ASSUME Planned, NEW a \in DOMAIN vbs, NEW b \in DOMAIN vbs, a # b, color[a] = color[b]
  PROVE  /\ ~ vbs[a].excl /\ ~ vbs[b].excl
         /\ vbs[a].death <= vbs[b].birth \/ vbs[b].death <= vbs[a].birth
         /\ (vbs[a].birth < vbs[b].birth /\ vbs[a].death = vbs[b].birth)
              => ~ HandoffInterferes(vbs[a], vbs[b])
<1>1. /\ AInv /\ phase = "done"
  BY DEF Planned
<1>2. /\ ~ vbs[a].excl /\ ~ vbs[b].excl /\ ~ PairInterferes(a, b)
      /\ DOMAIN vbs = 1 .. Len(vbs) /\ Len(vbs) \in Nat
      /\ birth[a] = vbs[a].birth /\ death[a] = vbs[a].death
      /\ birth[b] = vbs[b].birth /\ death[b] = vbs[b].death
      /\ HandoffInterferes(vbs[a], vbs[b]) => <<a, b>> \in handoff
  BY <1>1, SharersApart
<1>3. /\ vbs[a].birth \in Int /\ vbs[a].death \in Int /\ vbs[b].birth \in Int /\ vbs[b].death \in Int
      /\ a \in Int /\ b \in Int
  BY <1>2, VBFacts
<1>4. /\ ~ Overlap(a, b) /\ ~ Overlap(b, a) /\ ~ (Touching(a, b) /\ <<a, b>> \in handoff)
  BY <1>2 DEF PairInterferes
<1>5. vbs[a].death <= vbs[b].birth \/ vbs[b].death <= vbs[a].birth
  BY <1>2, <1>3, <1>4 DEF Overlap, Earlier
<1>6. (vbs[a].birth < vbs[b].birth /\ vbs[a].death = vbs[b].birth) => ~ HandoffInterferes(vbs[a], vbs[b])
  BY <1>2, <1>4 DEF Touching, Earlier
<1> QED
  BY <1>2, <1>5, <1>6

-----------------------------------------------------------------------------
(* Where the data of a value is. *)

(* What an operation reads is defined before it.                            *)
LEMMA DefinedBefore ==
  ASSUME prog \in Programs, NEW v \in Values(prog), NEW k \in Uses(prog, v)
  PROVE  /\ k \in 1 .. Len(prog.code) /\ DefIdx(prog, v) < k
         /\ v \in Results(prog) => Yield(prog) < k
         /\ v \in Args(prog) => InLoop(prog, k)
<1>1. /\ k \in 1 .. Len(prog.code) /\ Visible(prog, v, k)
      /\ DefIdx(prog, v) = Loop(prog) <=> v \in Args(prog) \cup Results(prog)
      /\ Loop(prog) \in Int /\ Yield(prog) \in Int /\ Loop(prog) < Yield(prog)
      /\ Args(prog) \cap Results(prog) = {}
  BY UseFacts, NodeFacts, ProgramFacts
<1> QED
  BY <1>1 DEF Visible, InLoop

(* What a linalg operation accumulates into.                                *)
LEMMA OutsFacts ==
  ASSUME Planned, NEW v \in Values(prog), IsLinalg(v), NEW u \in Outs(DefOp(v))
  PROVE  LET k == DefIdx(prog, v)
         IN  /\ u \in Values(prog) /\ k \in Uses(prog, u) /\ ~ IsPhi(v)
             /\ k \in DOMAIN prog.code /\ DefOp(v) = prog.code[k] /\ prog.code[k].res = v
             /\ \A w \in Outs(DefOp(v)) : w = u
             /\ \A n \in DOMAIN prog.code[k].ins :
                  /\ prog.code[k].ins[n].rel # "same"
                  /\ prog.code[k].ins[n].rel # "other" => prog.code[k].ins[n].val = u
             /\ \A i \in DOMAIN prog.phis : Yielded(i) = v => u = Arg(i)
             /\ ~ InLoop(prog, k) => /\ u \notin Results(prog)
                                     /\ Uses(prog, v) \cap (Loop(prog) .. Yield(prog)) = {}
<1> DEFINE k == DefIdx(prog, v)
<1>1. prog \in Programs /\ AccumulatesOwn(prog)
  BY PlanFacts DEF Planned, Supported
<1>2. /\ ~ IsPhi(v) /\ k \in DOMAIN prog.code /\ DefOp(v) = prog.code[k] /\ prog.code[k].res = v
  BY <1>1, DefOpFacts DEF IsLinalg
<1> HIDE DEF k
<1>3. PICK o \in DOMAIN prog.code[k].ins : prog.code[k].ins[o].val = u /\ prog.code[k].ins[o].rel = "init"
  BY <1>2 DEF Outs
<1>4. WellFormedOp(prog, k)
  BY <1>1, <1>2, OperationFacts
<1>5. u \in Values(prog) /\ k \in Uses(prog, u)
  BY <1>1, <1>2, <1>3, OperandFacts
<1>6. \A n \in DOMAIN prog.code[k].ins : prog.code[k].ins[n].rel = "init" => n = o
  BY <1>3, <1>4 DEF WellFormedOp
<1>7. \A w \in Outs(DefOp(v)) : w = u
  BY <1>2, <1>3, <1>6 DEF Outs
<1>8. /\ \A n \in DOMAIN prog.code[k].ins : prog.code[k].ins[n].rel # "same"
      /\ \A i \in DOMAIN prog.phis : YieldOf(prog, i) = prog.code[k].res
                                      => prog.code[k].ins[o].val = prog.phis[i].arg
      /\ ~ InLoop(prog, k) => /\ prog.code[k].ins[o].val \notin Results(prog)
                              /\ Uses(prog, prog.code[k].res) \cap (Loop(prog) .. Yield(prog)) = {}
  BY <1>1, <1>2, <1>3 DEF AccumulatesOwn
<1>9. \A n \in DOMAIN prog.code[k].ins :
        /\ prog.code[k].ins[n].rel # "same"
        /\ prog.code[k].ins[n].rel # "other" => prog.code[k].ins[n].val = u
  <2>1. \A n \in DOMAIN prog.code[k].ins : prog.code[k].ins[n].rel \in {"init", "same", "other"}
    BY <1>4 DEF WellFormedOp
  <2> QED
    BY <1>3, <1>6, <1>8, <2>1
<1>10. \A i \in DOMAIN prog.phis : Yielded(i) = v => u = Arg(i)
  BY <1>2, <1>3, <1>8 DEF Yielded, Arg
<1>11. ~ InLoop(prog, k) => /\ u \notin Results(prog)
                           /\ Uses(prog, v) \cap (Loop(prog) .. Yield(prog)) = {}
  BY <1>2, <1>3, <1>8
<1> QED
  BY <1>2, <1>5, <1>7, <1>9, <1>10, <1>11 DEF k

(* When two VBs share a buffer and the operation that begins the second     *)
(* accumulates into the first, relay fusion would have merged them.         *)
LEMMA NotShared ==
  ASSUME Planned, NEW v \in Values(prog), IsLinalg(v), NEW u \in Outs(DefOp(v)),
         BirthNode(vbs[VBOf(v)]) = v, color[VBOf(u)] = color[VBOf(v)]
  PROVE  FALSE
<1> DEFINE k == DefIdx(prog, v)
           b == VBOf(v)
           a == VBOf(u)
<1>1. /\ prog \in Programs /\ u \in Values(prog) /\ k \in Uses(prog, u) /\ ~ IsPhi(v)
      /\ k \in 1 .. Len(prog.code) /\ k # Loop(prog) /\ k # Yield(prog)
      /\ DefIdx(prog, u) < k /\ DefIdx(prog, u) \in Int
      /\ ~ InLoop(prog, k) => /\ u \notin Results(prog)
                              /\ Uses(prog, v) \cap (Loop(prog) .. Yield(prog)) = {}
      /\ Loop(prog) \in Int /\ Yield(prog) \in Int /\ Loop(prog) < Yield(prog)
      /\ NothingOutlivesLoop(prog)
  BY PlanFacts, OutsFacts, DefinedBefore, NodeFacts, ProgramFacts, DefOpFacts DEF Planned, Supported
<1>2. a \in DOMAIN vbs /\ u \in Members(vbs[a]) /\ b \in DOMAIN vbs /\ v \in Members(vbs[b])
  BY <1>1, PlanFacts
<1>3. /\ vbs[a].birth \in Int /\ vbs[a].death \in Int /\ vbs[b].birth \in Int /\ vbs[b].death \in Int
      /\ vbs[a].birth < k /\ k <= vbs[a].death /\ k <= vbs[b].death
  <2>1. /\ DefIdx(prog, v) <= LiveUntil(prog, v) /\ LiveUntil(prog, v) \in Int
        /\ k <= Death(prog, u) /\ Death(prog, u) <= LiveUntil(prog, u) /\ LiveUntil(prog, u) \in Int
        /\ Death(prog, u) \in Int /\ Death(prog, v) \in Int
        /\ DefIdx(prog, v) <= Death(prog, v) /\ Death(prog, v) <= LiveUntil(prog, v)
    BY <1>1, LiveFacts, UseFacts
  <2>2. /\ vbs[a].birth \in Int /\ vbs[a].death \in Int /\ vbs[b].birth \in Int /\ vbs[b].death \in Int
        /\ vbs[a].birth <= DefIdx(prog, u) /\ LiveUntil(prog, u) <= vbs[a].death
        /\ LiveUntil(prog, v) <= vbs[b].death
    BY <1>2, VBFacts
  <2> QED
    BY <1>1, <2>1, <2>2
<1>4. Homed(b) /\ vbs[b].birth = k
  <2>1. v \notin Results(prog) /\ v \notin Args(prog)
    BY <1>1 DEF IsPhi
  <2>2. Homed(b)
    BY <1>2, <2>1 DEF Homed
  <2> QED
    BY <1>2, <2>1, <2>2, BornWith
<1> HIDE DEF k, a, b
<1>5. a # b
  BY <1>3, <1>4
<1>6. /\ ~ vbs[a].excl /\ ~ vbs[b].excl
      /\ vbs[a].death <= vbs[b].birth \/ vbs[b].death <= vbs[a].birth
      /\ (vbs[a].birth < vbs[b].birth /\ vbs[a].death = vbs[b].birth)
           => ~ HandoffInterferes(vbs[a], vbs[b])
  BY <1>2, <1>5, SharersTakeTurns DEF a, b
<1>7. vbs[a].death = k /\ ~ HandoffInterferes(vbs[a], vbs[b])
  BY <1>1, <1>3, <1>4, <1>6
<1>8. vbs[a].type = "Standard"
  <2>1. vbs[a].type # "Eternal"
    <3> SUFFICES ASSUME vbs[a].type = "Eternal" PROVE FALSE
      OBVIOUS
    <3>1. PICK w \in Values(prog) : EternalFor(vbs[a], w)
      BY <1>2, PlanFacts DEF KindInv
    <3> QED
      BY <1>1, <1>7, <3>1 DEF EternalFor
  <2>2. vbs[a].type # "Fused"
    <3> SUFFICES ASSUME vbs[a].type = "Fused" PROVE FALSE
      OBVIOUS
    <3>1. PICK i \in DOMAIN prog.phis : a = VBOf(Arg(i)) /\ FusedFor(vbs[a], i, cursor, splits)
      BY <1>2, FusedVB
    <3>2. Homed(a)
      BY <1>1, <3>1, ArgVB, NodeFacts, PhiFacts DEF Homed, Arg
    <3>3. Yield(prog) < k
      BY <1>1, <1>2, <1>7, <3>2, HomedFacts
    <3>4. ~ InLoop(prog, k)
      BY <1>1, <3>3 DEF InLoop
    <3>5. u \in {Arg(i), Init0(i), Yielded(i)}
      BY <1>1, <1>2, <3>1, <3>4 DEF FusedFor, Results, Res
    <3>6. u \notin Args(prog)
      BY <1>1, <3>4, DefinedBefore
    <3>7. u # Init0(i)
      BY <1>1, <3>3, CarriedFacts DEF Planned
    <3>8. u = Yielded(i) /\ u \notin Results(prog)
      BY <1>1, <3>4, <3>5, <3>6, <3>7 DEF Args, Arg
    <3>9. ~ InLoop(prog, DefIdx(prog, u))
      BY <1>1, <3>4, <3>6, <3>8, UseFacts DEF Visible
    <3>10. Yield(prog) \in Uses(prog, u)
      BY <1>1, <3>8, ProgramFacts, OperandFacts DEF Yielded, YieldOf
    <3>11. InLoop(prog, Yield(prog))
      BY <1>1 DEF InLoop
    <3>12. Death(prog, u) <= Yield(prog)
      BY <1>1, <3>6, <3>8, <3>9, <3>10, <3>11 DEF NothingOutlivesLoop
    <3>13. k <= Death(prog, u) /\ Death(prog, u) \in Int
      BY <1>1, UseFacts
    <3> QED
      BY <1>1, <3>3, <3>12, <3>13
  <2> QED
    BY <1>2, <2>1, <2>2, PlanFacts DEF KindInv
<1>9. vbs[b].type = "Standard"
  <2>1. vbs[b].type # "Eternal"
    <3> SUFFICES ASSUME vbs[b].type = "Eternal" PROVE FALSE
      OBVIOUS
    <3>1. PICK w \in Values(prog) : EternalFor(vbs[b], w)
      BY <1>2, PlanFacts DEF KindInv
    <3>2. w = v
      BY <1>2, <3>1 DEF EternalFor, Members, ToSet
    <3>3. PICK q \in Uses(prog, v) : InLoop(prog, q)
      BY <3>1, <3>2 DEF EternalFor
    <3>4. k < Loop(prog)
      BY <3>1, <3>2 DEF EternalFor, k
    <3>5. ~ InLoop(prog, k)
      BY <1>1, <3>4 DEF InLoop
    <3>6. q \in Int /\ Loop(prog) <= q /\ q <= Yield(prog)
      <4>1. q \in 1 .. Len(prog.code)
        BY <1>1, <3>3, UseFacts
      <4> QED
        BY <1>1, <3>3, <4>1 DEF InLoop
    <3> QED
      BY <1>1, <3>3, <3>5, <3>6
  <2>2. vbs[b].type # "Fused"
    <3> SUFFICES ASSUME vbs[b].type = "Fused" PROVE FALSE
      OBVIOUS
    <3>1. PICK i \in DOMAIN prog.phis : b = VBOf(Arg(i)) /\ FusedFor(vbs[b], i, cursor, splits)
      BY <1>2, FusedVB
    <3>2. v = Init0(i)
      <4>1. BirthNode(vbs[b]) = v
        BY DEF b
      <4>2. v # Arg(i)
        BY <1>1 DEF IsPhi, Args, Arg
      <4> QED
        BY <3>1, <4>1, <4>2, InitVB
    <3>3. Loop(prog) \in Uses(prog, v) /\ k < Loop(prog)
      BY <1>1, <3>2, CarriedFacts, PhiFacts DEF Planned, Init0, k
    <3>4. ~ InLoop(prog, k)
      BY <1>1, <3>3 DEF InLoop
    <3> QED
      BY <1>1, <3>3, <3>4
  <2> QED
    BY <1>2, <2>1, <2>2, PlanFacts DEF KindInv
<1>10. a < b
  <2>1. DOMAIN vbs = 1 .. Len(vbs) /\ Len(vbs) \in Nat
    BY <1>2, <1>5, SharersApart DEF Planned, a, b
  <2>2. Ordered(vbs)
    BY DEF Planned, AInv
  <2>3. b < a => vbs[b].birth <= vbs[a].birth
    BY <1>2, <1>6, <1>8, <1>9, <2>1, <2>2 DEF Ordered, Shareable
  <2> QED
    BY <1>2, <1>3, <1>4, <1>5, <2>1, <2>3
<1>11. CanRelay(vbs[a], vbs[b])
  BY <1>3, <1>4, <1>7 DEF CanRelay
<1>12. <<a, b>> \in RelayPairs
  BY <1>2, <1>6, <1>8, <1>9, <1>10, <1>11 DEF RelayPairs
<1>13. RelayPairs = {}
  BY <1>2, <1>5, SharersApart DEF Planned, a, b
<1> QED
  BY <1>12, <1>13

(* What is not copied into an own buffer updates its outs where that is.    *)
LEMMA OutsHome ==
  ASSUME Planned, NEW v \in Values(prog), IsLinalg(v), ~ CopiedOuts(v), NEW u \in Outs(DefOp(v))
  PROVE  Home(u) = VBOf(v)
<1> DEFINE k == DefIdx(prog, v)
           b == VBOf(v)
<1>1. /\ prog \in Programs /\ u \in Values(prog) /\ k \in Uses(prog, u) /\ ~ IsPhi(v)
      /\ DefOp(v) = prog.code[k]
      /\ \A n \in DOMAIN prog.code[k].ins :
           prog.code[k].ins[n].rel # "other" => prog.code[k].ins[n].val = u
      /\ \A i \in DOMAIN prog.phis : Yielded(i) = v => u = Arg(i)
  BY PlanFacts, OutsFacts
<1>2. b \in DOMAIN vbs /\ v \in Members(vbs[b]) /\ KindInv(vbs[b]) /\ Homed(b)
  BY <1>1, PlanFacts DEF Homed, IsPhi
<1>3. BirthNode(vbs[b]) # v
  BY NotShared DEF CopiedOuts
<1> HIDE DEF b, k
<1>4. CASE vbs[b].type = "Standard"
  <2>1. DefIdx(prog, v) # vbs[b].birth
    BY <1>1, <1>2, <1>3, BornWith
  <2>2. TakesOver(vbs[b], v)
    BY <1>2, <1>4, <2>1 DEF KindInv, StandardKind
  <2>3. u \in Members(vbs[b])
    BY <1>1, <2>2 DEF TakesOver
  <2>4. u \notin Results(prog)
    BY <1>2, <1>4, <2>3, NoPhis DEF IsPhi
  <2> QED
    BY <1>2, <2>3, <2>4, VBFacts DEF Home, b
<1>5. vbs[b].type # "Eternal"
  <2> SUFFICES ASSUME vbs[b].type = "Eternal" PROVE FALSE
    OBVIOUS
  <2>1. PICK w \in Values(prog) : EternalFor(vbs[b], w)
    BY <1>2 DEF KindInv
  <2>2. BirthNode(vbs[b]) \in Members(vbs[b])
    BY <1>2, BornWith
  <2> QED
    BY <1>2, <1>3, <2>1, <2>2 DEF EternalFor, Members, ToSet
<1>6. CASE vbs[b].type = "Fused"
  <2>1. PICK i \in DOMAIN prog.phis : b = VBOf(Arg(i)) /\ FusedFor(vbs[b], i, cursor, splits)
    BY <1>2, <1>6, FusedVB
  <2>2. v \in {Init0(i), Yielded(i)}
    BY <1>1, <1>2, <2>1 DEF FusedFor, IsPhi, Args, Results, Arg, Res
  <2>3. v # Init0(i)
    BY <1>2, <1>3, <2>1, InitVB DEF b
  <2>4. u = Arg(i)
    BY <1>1, <2>2, <2>3
  <2>5. u \notin Results(prog)
    BY <1>1, <2>4, PhiFacts, NodeFacts DEF Arg
  <2> QED
    BY <2>1, <2>4, <2>5 DEF Home, b
<1> QED
  BY <1>2, <1>4, <1>5, <1>6, HomedFacts

(* The values that Root follows: f is where the others are.                 *)
RootStep(f, v) ==
  IF v \in Results(prog) THEN f[prog.phis[PhiOf(v)].arg]
  ELSE IF v \in Args(prog) THEN
    IF ClonedInit(PhiOf(v)) THEN VBOf(v) ELSE f[InitOf(prog, PhiOf(v))]
  ELSE IF IsLinalg(v) /\ Outs(DefOp(v)) # {} /\ ~ CopiedOuts(v) THEN
    f[CHOOSE u \in Outs(DefOp(v)) : TRUE]
  ELSE IF IsLinalg(v) /\ Outs(DefOp(v)) = {} /\ PhiMember(v) # {} THEN
    f[CHOOSE a \in PhiMember(v) : TRUE]
  ELSE VBOf(v)

(* The value it follows is there, and its home is that of v.                *)
LEMMA HomeStep ==
  ASSUME Planned, NEW v \in Values(prog), NEW f
  PROVE  \/ v \in Results(prog) /\ \E u \in Values(prog) :
               /\ RootStep(f, v) = f[u] /\ Home(v) = Home(u) /\ u \in Args(prog)
         \/ v \notin Results(prog) /\ \E u \in Values(prog) :
               /\ RootStep(f, v) = f[u] /\ Home(v) = Home(u) /\ DefIdx(prog, u) < DefIdx(prog, v)
         \/ v \notin Results(prog) /\ RootStep(f, v) = VBOf(v) /\ Home(v) = VBOf(v)
<1>1. prog \in Programs
  BY PlanFacts
<1>2. CASE v \in Results(prog)
  <2>1. PICK i \in DOMAIN prog.phis : v = Res(i)
    BY <1>2 DEF Results, Res
  <2>2. PhiOf(v) = i /\ Arg(i) \in Values(prog) /\ Arg(i) \in Args(prog) /\ Arg(i) \notin Results(prog)
    BY <1>1, <2>1, PhiOfFacts, PhiFacts, NodeFacts DEF Arg
  <2>3. RootStep(f, v) = f[Arg(i)]
    BY <1>2, <2>2 DEF RootStep, Arg
  <2>4. Home(v) = Home(Arg(i))
    BY <1>2, <2>2 DEF Home
  <2> QED
    BY <1>2, <2>2, <2>3, <2>4
<1>3. CASE v \in Args(prog)
  <2>1. PICK i \in DOMAIN prog.phis : v = Arg(i)
    BY <1>3 DEF Args, Arg
  <2>2. PhiOf(v) = i /\ v \notin Results(prog) /\ DefIdx(prog, v) = Loop(prog)
    BY <1>1, <1>3, <2>1, PhiOfFacts, NodeFacts
  <2>3. Home(v) = VBOf(v)
    BY <2>2 DEF Home
  <2>4. CASE ClonedInit(i)
    BY <1>3, <2>2, <2>3, <2>4 DEF RootStep
  <2>5. CASE ~ ClonedInit(i)
    <3>1. RootStep(f, v) = f[Init0(i)]
      BY <1>3, <2>2, <2>5 DEF RootStep, Init0
    <3>2. Init0(i) \in Members(vbs[VBOf(v)]) /\ VBOf(v) \in DOMAIN vbs /\ Init0(i) \notin Results(prog)
          /\ Init0(i) \in Values(prog) /\ DefIdx(prog, Init0(i)) < DefIdx(prog, v)
      BY <1>1, <2>1, <2>2, <2>5, InitVB, ArgVB, PhiFacts DEF IsPhi, Init0
    <3>3. Home(Init0(i)) = VBOf(v)
      BY <3>2, VBFacts DEF Home
    <3> QED
      BY <2>2, <2>3, <3>1, <3>2, <3>3
  <2> QED
    BY <2>4, <2>5
<1>4. CASE v \notin Results(prog) /\ v \notin Args(prog)
  <2>1. Home(v) = VBOf(v)
    BY <1>4 DEF Home
  <2>2. CASE IsLinalg(v) /\ Outs(DefOp(v)) # {} /\ ~ CopiedOuts(v)
    <3>1. PICK u : u = CHOOSE x \in Outs(DefOp(v)) : TRUE
      OBVIOUS
    <3>2. u \in Outs(DefOp(v))
      BY <2>2, <3>1
    <3>3. RootStep(f, v) = f[u]
      BY <1>4, <2>2, <3>1 DEF RootStep
    <3>4. u \in Values(prog) /\ DefIdx(prog, u) < DefIdx(prog, v)
      BY <1>1, <2>2, <3>2, OutsFacts, DefinedBefore
    <3>5. Home(u) = VBOf(v)
      BY <2>2, <3>2, OutsHome
    <3> QED
      BY <1>4, <2>1, <3>3, <3>4, <3>5
  <2>3. CASE IsLinalg(v) /\ Outs(DefOp(v)) = {} /\ PhiMember(v) # {}
    <3>1. PICK a : a = CHOOSE x \in PhiMember(v) : TRUE
      OBVIOUS
    <3>2. a \in PhiMember(v)
      BY <2>3, <3>1
    <3>3. RootStep(f, v) = f[a]
      BY <1>4, <2>3, <3>1 DEF RootStep
    <3>4. a \in Args(prog) /\ a \in Members(vbs[VBOf(v)]) /\ InLoop(prog, DefIdx(prog, v))
      BY <3>2 DEF PhiMember
    <3>5. /\ a \in Values(prog) /\ a \notin Results(prog) /\ DefIdx(prog, a) < DefIdx(prog, v)
          /\ VBOf(v) \in DOMAIN vbs
      BY <1>1, <3>4, NodeFacts, PlanFacts DEF InLoop
    <3>6. Home(a) = VBOf(v)
      BY <3>4, <3>5, VBFacts DEF Home
    <3> QED
      BY <1>4, <2>1, <3>3, <3>5, <3>6
  <2>4. CASE /\ ~ (IsLinalg(v) /\ Outs(DefOp(v)) # {} /\ ~ CopiedOuts(v))
             /\ ~ (IsLinalg(v) /\ Outs(DefOp(v)) = {} /\ PhiMember(v) # {})
    BY <1>4, <2>1, <2>4 DEF RootStep
  <2> QED
    BY <2>2, <2>3, <2>4
<1> QED
  BY <1>2, <1>3, <1>4

(* The data of a value is where the plan has it, that of a loop's result    *)
(* where the iter_arg is.                                                   *)
LEMMA RootIsHome ==
  ASSUME Planned, NEW v \in Values(prog)
  PROVE  Root[v] = Home(v)
<1> DEFINE h == [w \in Values(prog) |-> Home(w)]
           Solves(f) == f = [w \in Values(prog) |-> RootStep(f, w)]
<1>1. prog \in Programs
  BY PlanFacts
<1>2. Solves(h)
  <2> SUFFICES ASSUME NEW w \in Values(prog) PROVE RootStep(h, w) = Home(w)
    OBVIOUS
  <2> HIDE DEF Solves
  <2>1. \A u \in Values(prog) : h[u] = Home(u)
    OBVIOUS
  <2> HIDE DEF h
  <2> QED
    BY <2>1, HomeStep
<1>3. Solves(Root)
  <2>1. \E f : Solves(f)
    BY <1>2
  <2>2. Root = CHOOSE f : Solves(f)
    BY DEF Root, RootStep
  <2> HIDE DEF Solves
  <2> QED
    BY <2>1, <2>2
<1>4. \A w \in Values(prog) : Root[w] = RootStep(Root, w)
  <2> PICK f : f = Root
    OBVIOUS
  <2>1. f = [w \in Values(prog) |-> RootStep(f, w)]
    BY <1>3
  <2>2. \A w \in Values(prog) : f[w] = RootStep(f, w)
    BY <2>1
  <2> QED
    BY <2>2
<1> HIDE DEF Solves, h
<1>5. ASSUME NEW D, D = {w \in Values(prog) \ Results(prog) : Root[w] # Home(w)}, D # {} PROVE FALSE
  <2> DEFINE E == {DefIdx(prog, w) : w \in D}
  <2>1. E \in SUBSET Nat /\ E # {}
    BY <1>1, <1>5, NodeFacts
  <2>2. PICK m \in E : \A n \in E : m <= n
    BY <2>1, LeastOf
  <2>3. PICK w \in D : m = DefIdx(prog, w)
    BY <2>2
  <2>4. w \in Values(prog) /\ w \notin Results(prog) /\ Root[w] # Home(w)
    BY <1>5, <2>3
  <2>5. PICK u \in Values(prog) : /\ Root[w] = Root[u] /\ Home(w) = Home(u)
                                  /\ DefIdx(prog, u) < DefIdx(prog, w)
    BY <1>4, <2>4, HomeStep
  <2>6. \A q \in Values(prog) \ Results(prog) : DefIdx(prog, q) < DefIdx(prog, w) => Root[q] = Home(q)
    <3> SUFFICES ASSUME NEW q \in Values(prog) \ Results(prog), DefIdx(prog, q) < DefIdx(prog, w),
                        Root[q] # Home(q)
                 PROVE  FALSE
      OBVIOUS
    <3>1. q \in D
      BY <1>5
    <3>2. DefIdx(prog, w) <= DefIdx(prog, q)
      BY <2>2, <2>3, <3>1
    <3> QED
      BY <1>1, <2>4, <3>2, NodeFacts
  <2>7. CASE u \in Results(prog)
    <3>1. PICK a \in Values(prog) : Root[u] = Root[a] /\ Home(u) = Home(a) /\ a \in Args(prog)
      BY <1>4, <2>5, <2>7, HomeStep
    <3>2. a \notin Results(prog) /\ DefIdx(prog, a) = DefIdx(prog, u)
      BY <1>1, <2>7, <3>1, NodeFacts
    <3> QED
      BY <2>4, <2>5, <2>6, <3>1, <3>2
  <2>8. CASE u \notin Results(prog)
    BY <2>4, <2>5, <2>6, <2>8
  <2> QED
    BY <2>7, <2>8
<1>6. \A w \in Values(prog) \ Results(prog) : Root[w] = Home(w)
  BY <1>5
<1>7. CASE v \in Results(prog)
  <2>1. PICK a \in Values(prog) : Root[v] = Root[a] /\ Home(v) = Home(a) /\ a \in Args(prog)
    BY <1>4, <1>7, HomeStep
  <2>2. a \notin Results(prog)
    BY <1>1, <2>1, NodeFacts
  <2> QED
    BY <1>6, <2>1, <2>2
<1> QED
  BY <1>6, <1>7

-----------------------------------------------------------------------------
(* Where a VB is first written, and where it is given. *)

(* An iter_arg whose init value is cloned is first written by the clone, in *)
(* the place of its phi; other VBs by the operation they are born at.       *)
LEMMA FirstWriteFacts ==
  ASSUME Planned, NEW b \in DOMAIN vbs, Homed(b)
  PROVE  LET P == Len(prog.phis)
         IN  /\ P \in Nat /\ DOMAIN prog.phis = 1 .. P
             /\ \A i \in DOMAIN prog.phis :
                  (ClonedInit(i) /\ VBOf(Arg(i)) = b)
                    => FirstWrite(b) = P + 3 - i /\ vbs[b].birth = DefIdx(prog, Init0(i))
             /\ (\A i \in DOMAIN prog.phis : ~ (ClonedInit(i) /\ VBOf(Arg(i)) = b))
                  => FirstWrite(b) = IF CopiedOuts(BirthNode(vbs[b])) THEN 1 ELSE 2
             /\ FirstWrite(b) \in 1 .. P + 2
             /\ FirstWrite(b) > 2 => vbs[b].birth < Loop(prog)
<1> DEFINE P == Len(prog.phis)
           cloned == {i \in DOMAIN prog.phis : ClonedInit(i) /\ VBOf(Arg(i)) = b}
<1>1. prog \in Programs /\ P \in Nat /\ DOMAIN prog.phis = 1 .. P
  BY PlanFacts, ProgramFacts
<1>2. ASSUME NEW i \in cloned
      PROVE  FirstWrite(b) = P + 3 - i /\ vbs[b].birth = DefIdx(prog, Init0(i)) /\ vbs[b].birth < Loop(prog)
  <2>1. \A j \in cloned : vbs[b].members[1] = Arg(j)
    BY ArgVB DEF FusedFor
  <2>2. \A j \in cloned : j = i
    BY <1>1, <2>1, PhisDistinct
  <2>3. i = CHOOSE j \in DOMAIN prog.phis : ClonedInit(j) /\ VBOf(Arg(j)) = b
    BY <2>2
  <2>4. FirstWrite(b) = P + 3 - i
    BY <2>3 DEF FirstWrite
  <2>5. vbs[b].birth = DefIdx(prog, Init0(i))
    BY ArgVB DEF FusedFor
  <2>6. DefIdx(prog, Init0(i)) < Loop(prog)
    BY <1>1, PhiFacts DEF Init0
  <2> QED
    BY <2>4, <2>5, <2>6
<1>3. CASE cloned = {}
  <2>1. FirstWrite(b) = IF CopiedOuts(BirthNode(vbs[b])) THEN 1 ELSE 2
    BY <1>3 DEF FirstWrite
  <2> QED
    BY <1>1, <1>3, <2>1
<1>4. CASE cloned # {}
  <2>1. PICK i \in cloned : TRUE
    BY <1>4
  <2>2. FirstWrite(b) \in 1 .. P + 2 /\ vbs[b].birth < Loop(prog)
    BY <1>1, <1>2, <2>1
  <2> QED
    BY <1>1, <1>2, <2>1, <2>2
<1> QED
  BY <1>3, <1>4

(* A VB is given where it dies, but after the loop if it is kept through it *)
(* and no longer.                                                           *)
LEMMA GiveAtFacts ==
  ASSUME Planned, NEW b \in DOMAIN vbs, Homed(b)
  PROVE  GiveAt(b) = IF vbs[b].type # "Standard" /\ vbs[b].death = Yield(prog)
                     THEN Loop(prog) ELSE vbs[b].death
<1> DEFINE stores == {k \in DOMAIN prog.code :
                        prog.code[k].kind = "store" /\ VBOf(prog.code[k].ins[1].val) = b}
<1>1. /\ prog \in Programs /\ DOMAIN prog.code = 1 .. Len(prog.code) /\ Len(prog.code) \in Nat
      /\ Loop(prog) \in Int /\ Yield(prog) \in Int /\ Loop(prog) < Yield(prog) /\ Supported(prog)
  BY PlanFacts, ProgramFacts DEF Planned
<1>2. /\ vbs[b].birth \in Int /\ vbs[b].death \in Int /\ vbs[b].birth <= vbs[b].death
      /\ vbs[b].type \in {"Fused", "Eternal", "Standard"}
      /\ vbs[b].type # "Standard" => Yield(prog) <= vbs[b].death
      /\ vbs[b].type = "Eternal" => vbs[b].death = Yield(prog)
  BY VBFacts, HomedFacts
<1>3. CASE stores = {}
  <2>1. GiveAt(b) = IF vbs[b].type \in {"Eternal", "Fused"} /\ InLoop(prog, vbs[b].death)
                    THEN Loop(prog) ELSE vbs[b].death
    BY <1>3 DEF GiveAt
  <2>2. vbs[b].type # "Standard" => (InLoop(prog, vbs[b].death) <=> vbs[b].death = Yield(prog))
    BY <1>1, <1>2 DEF InLoop
  <2> QED
    BY <1>2, <2>1, <2>2
<1>4. CASE stores # {}
  <2>1. ASSUME NEW k \in stores
        PROVE  k = vbs[b].death /\ vbs[b].type = "Standard"
    <3> DEFINE u == prog.code[k].ins[1].val
    <3>1. k \in DOMAIN prog.code /\ prog.code[k].kind = "store" /\ VBOf(u) = b
      OBVIOUS
    <3>2. WellFormedOp(prog, k)
      BY <1>1, <3>1, OperationFacts
    <3>3. Len(prog.code[k].ins) \in Nat /\ DOMAIN prog.code[k].ins = 1 .. Len(prog.code[k].ins)
      BY <1>1, <3>1, OperandFacts
    <3>4. 1 \in DOMAIN prog.code[k].ins
      <4>1. prog.code[k].ins # <<>> /\ prog.code[k].ins \in Seq(ToSet(prog.code[k].ins))
        BY <3>1, <3>2 DEF WellFormedOp
      <4> QED
        BY <3>3, <4>1, EmptySeq
    <3>5. u \in Values(prog) /\ k \in Uses(prog, u) /\ u \in Handoffs(prog) /\ LiveUntil(prog, u) = k
      BY <1>1, <3>1, <3>4, OperandFacts DEF Supported, StoresLast, Handoffs
    <3> HIDE DEF u
    <3>6. u \in Members(vbs[b])
      BY <3>1, <3>5, PlanFacts
    <3>7. vbs[b].members = <<u>> /\ Members(vbs[b]) = {u}
      BY <3>5, <3>6, VBFacts DEF Apart, Members, ToSet
    <3>8. vbs[b].type # "Fused"
      <4> SUFFICES ASSUME vbs[b].type = "Fused" PROVE FALSE
        OBVIOUS
      <4>1. PICK i \in DOMAIN prog.phis : FusedFor(vbs[b], i, cursor, splits)
        BY FusedVB
      <4>2. u = Arg(i)
        BY <3>7, <4>1 DEF FusedFor
      <4> QED
        BY <1>1, <3>5, <4>2, CarriedFacts DEF Apart
    <3>9. /\ k \in Int /\ k # Yield(prog) /\ k <= vbs[b].death
          /\ k \in {Death(prog, u), Yield(prog)} /\ Death(prog, u) \in Int
      <4>1. k # Yield(prog)
        BY <1>1, <3>1, ProgramFacts DEF WellFormed, Yield
      <4>2. Death(prog, u) \in 1 .. Len(prog.code)
        BY <1>1, <3>5, UseFacts
      <4>3. LiveUntil(prog, u) <= vbs[b].death /\ LiveUntil(prog, u) \in {Death(prog, u), Yield(prog)}
        BY <1>1, <3>5, <3>6, VBFacts, LiveFacts
      <4> QED
        BY <1>1, <3>1, <3>5, <4>1, <4>2, <4>3
    <3>10. vbs[b].type # "Eternal"
      <4> SUFFICES ASSUME vbs[b].type = "Eternal" PROVE FALSE
        OBVIOUS
      <4>1. PICK v \in Values(prog) : EternalFor(vbs[b], v)
        BY PlanFacts DEF KindInv
      <4>2. v = u
        BY <3>7, <4>1 DEF EternalFor, Members, ToSet
      <4>3. PICK q \in Uses(prog, u) : InLoop(prog, q)
        BY <4>1, <4>2 DEF EternalFor
      <4>4. q <= Death(prog, u) /\ q \in 1 .. Len(prog.code)
        BY <1>1, <3>5, UseFacts
      <4>5. k = Death(prog, u) /\ k <= Yield(prog)
        BY <1>2, <3>9
      <4>6. InLoop(prog, Death(prog, u)) /\ ~ InLoop(prog, DefIdx(prog, u)) /\ u \notin Args(prog)
        <5>1. DefIdx(prog, u) < Loop(prog) /\ DefIdx(prog, u) \in Nat
          BY <1>1, <3>5, <4>1, <4>2, NodeFacts DEF EternalFor
        <5>2. u \notin Args(prog)
          BY <1>1, <3>5, <5>1, NodeFacts
        <5> QED
          BY <1>1, <3>9, <4>3, <4>4, <4>5, <5>1, <5>2 DEF InLoop
      <4>7. LiveUntil(prog, u) = Yield(prog)
        BY <3>5, <4>6 DEF LiveUntil
      <4> QED
        BY <3>5, <3>9, <4>7
    <3>11. vbs[b].type = "Standard"
      BY <1>2, <3>8, <3>10
    <3>12. Death(prog, u) = vbs[b].death
      BY <3>7, <3>11, PlanFacts DEF VBInv
    <3>13. Death(prog, u) <= k
      BY <1>1, <3>5, LiveFacts
    <3> QED
      BY <1>2, <3>9, <3>11, <3>12, <3>13
  <2>2. PICK k \in stores : TRUE
    BY <1>4
  <2>3. stores = {k}
    BY <2>1
  <2>4. Max(stores) = k
    <3>1. {k} \in SUBSET (0 .. Len(prog.code)) /\ {k} # {}
      BY <1>1
    <3>2. Max({k}) \in {k}
      BY <1>1, <3>1, MaxOf
    <3> QED
      BY <2>3, <3>2
  <2>5. GiveAt(b) = Max(stores)
    BY <1>4 DEF GiveAt
  <2> QED
    BY <2>1, <2>2, <2>4, <2>5
<1> QED
  BY <1>3, <1>4

(* What is given where.                                                     *)
LEMMA GivenFacts ==
  ASSUME Planned, NEW b \in DOMAIN vbs, Homed(b)
  PROVE  LET P == Len(prog.phis)
         IN  /\ vbs[b].death # Yield(prog) => GivenBy(b) = 2
             /\ (vbs[b].death = Yield(prog) /\ vbs[b].type = "Standard") => GivenBy(b) = P + 1
             /\ (vbs[b].death = Yield(prog) /\ vbs[b].type # "Standard") => GivenBy(b) = 2 * P + 2
             /\ \A k \in DOMAIN prog.code :
                  k # Loop(prog) =>
                    (b \in Gives(k) <=> vbs[b].death = k /\ (k = Yield(prog) => vbs[b].type = "Standard"))
             /\ b \in Gives(Loop(prog)) <=> vbs[b].death = Yield(prog) /\ vbs[b].type # "Standard"
<1>1. /\ vbs[b].death # Loop(prog)
      /\ GiveAt(b) = IF vbs[b].type # "Standard" /\ vbs[b].death = Yield(prog)
                     THEN Loop(prog) ELSE vbs[b].death
  BY HomedFacts, GiveAtFacts
<1>2. \A k : b \in Gives(k) <=> GiveAt(b) = k
  BY DEF Gives
<1> QED
  BY <1>1, <1>2 DEF GivenBy

(* What is yielded is in the iter_arg's buffer, or is copied there.         *)
LEMMA NothingMoves ==
  ASSUME Planned
  PROVE  Moved = {}
<1> SUFFICES ASSUME NEW i \in DOMAIN prog.phis, i \notin CopiedBack, Root[Yielded(i)] # Root[Arg(i)]
             PROVE  FALSE
  BY DEF Moved, Yielded, Arg
<1> DEFINE a == VBOf(Arg(i))
           b == VBOf(Yielded(i))
<1>1. /\ prog \in Programs /\ Yielded(i) \in Values(prog) /\ Arg(i) \in Values(prog)
      /\ Yielded(i) \notin Results(prog) /\ Arg(i) \notin Results(prog)
      /\ Yield(prog) \in Uses(prog, Yielded(i)) /\ Yield(prog) \in Int /\ Loop(prog) \in Int
      /\ Loop(prog) < Yield(prog)
  <2>1. prog \in Programs
    BY PlanFacts
  <2>2. Yield(prog) \in Uses(prog, Yielded(i))
    BY <2>1, ProgramFacts, OperandFacts DEF Yielded, YieldOf
  <2> QED
    BY <2>1, <2>2, PhiFacts, NodeFacts, ProgramFacts DEF Yielded, Arg
<1>2. a # b
  BY <1>1, RootIsHome DEF Home
<1>3. /\ a \in DOMAIN vbs /\ b \in DOMAIN vbs /\ Yielded(i) \in Members(vbs[b])
      /\ Arg(i) \in Members(vbs[a]) /\ FusedFor(vbs[a], i, cursor, splits) /\ vbs[a].type = "Fused"
  BY <1>1, ArgVB, PlanFacts
<1> HIDE DEF a, b
<1>4. i \in splits
  <2>1. Yielded(i) \notin Members(vbs[a])
    BY <1>1, <1>2, <1>3, VBFacts DEF b
  <2> QED
    BY <1>3, <2>1 DEF FusedFor
<1>5. color[a] = color[b]
  BY <1>4 DEF CopiedBack, a, b, Arg, Yielded
<1>6. vbs[a].birth < Yield(prog) /\ Yield(prog) <= vbs[a].death
  <2>1. Homed(a)
    BY <1>1, <1>3 DEF Homed
  <2>2. vbs[a].birth < Loop(prog) /\ Yield(prog) <= vbs[a].death /\ vbs[a].birth \in Int
    BY <1>3, <2>1, HomedFacts, VBFacts
  <2> QED
    BY <1>1, <2>2
<1>7. vbs[b].birth < Yield(prog) /\ Yield(prog) <= vbs[b].death
  <2>1. DefIdx(prog, Yielded(i)) < Yield(prog) /\ DefIdx(prog, Yielded(i)) \in Int
    BY <1>1, DefinedBefore, NodeFacts
  <2>2. /\ Yield(prog) <= Death(prog, Yielded(i)) /\ Death(prog, Yielded(i)) \in Int
        /\ Death(prog, Yielded(i)) <= LiveUntil(prog, Yielded(i)) /\ LiveUntil(prog, Yielded(i)) \in Int
    BY <1>1, UseFacts, LiveFacts
  <2>3. /\ vbs[b].birth <= DefIdx(prog, Yielded(i)) /\ LiveUntil(prog, Yielded(i)) <= vbs[b].death
        /\ vbs[b].birth \in Int /\ vbs[b].death \in Int
    BY <1>3, VBFacts
  <2> QED
    BY <1>1, <2>1, <2>2, <2>3
<1>8. vbs[a].death <= vbs[b].birth \/ vbs[b].death <= vbs[a].birth
  BY <1>2, <1>3, <1>5, SharersTakeTurns
<1>9. /\ vbs[a].birth \in Int /\ vbs[a].death \in Int /\ vbs[b].birth \in Int /\ vbs[b].death \in Int
  BY <1>3, VBFacts
<1> QED
  BY <1>1, <1>6, <1>7, <1>8, <1>9

(* The block of an operation.                                               *)
LEMMA BlockFacts ==
  ASSUME Planned, NEW k \in DOMAIN prog.code
  PROVE  LET P == Len(prog.phis)
         IN  /\ P \in Nat /\ k \in Int /\ Loop(prog) \in Int /\ Yield(prog) \in Int /\ Loop(prog) < Yield(prog)
             /\ k = Loop(prog) => Block(k) = <<Instr("for", {}, 0, Gives(k))>>
             /\ k = Yield(prog) =>
                  /\ Len(Block(k)) = 2 * P + 2
                  /\ \A n \in 1 .. P : Block(k)[n] = YieldCopy(n, CopiedBack)
                  /\ Block(k)[P + 1] = Instr("access", {}, 0, Gives(k))
                  /\ \A n \in P + 2 .. 2 * P + 1 : Block(k)[n] = Nothing
                  /\ Block(k)[2 * P + 2] = Instr("yield", {}, 0, Gives(Loop(prog)))
             /\ (k # Loop(prog) /\ k # Yield(prog)) =>
                  /\ Len(Block(k)) = IF k < Loop(prog) THEN P + 2 ELSE 2
                  /\ Block(k)[1] = OutsCopy(k) /\ Block(k)[2] = Operation(k)
                  /\ \A n \in 3 .. P + 2 : k < Loop(prog) => Block(k)[n] = Clone(k, P + 3 - n)
<1> DEFINE P == Len(prog.phis)
<1>1. /\ prog \in Programs /\ P \in Nat /\ k \in Int /\ Loop(prog) \in Int /\ Yield(prog) \in Int
      /\ Loop(prog) < Yield(prog)
  BY PlanFacts, ProgramFacts
<1>2. CASE k = Loop(prog)
  BY <1>1, <1>2 DEF Block
<1>3. CASE k = Yield(prog)
  <2>1. Block(k) = [n \in 1 .. 2 * P + 2 |->
              IF n <= P THEN YieldCopy(n, CopiedBack)
              ELSE IF n = P + 1 THEN Instr("access", {}, 0, Gives(k))
              ELSE IF n <= 2 * P + 1 THEN YieldCopy(n - P - 1, Moved)
              ELSE Instr("yield", {}, 0, Gives(Loop(prog)))]
    BY <1>1, <1>3 DEF Block
  <2>2. \A n : YieldCopy(n, Moved) = Nothing
    BY NothingMoves DEF YieldCopy
  <2> QED
    BY <1>1, <1>3, <2>1, <2>2
<1>4. CASE k < Loop(prog)
  <2>1. Block(k) = [n \in 1 .. P + 2 |->
              IF n = 1 THEN OutsCopy(k) ELSE IF n = 2 THEN Operation(k) ELSE Clone(k, P + 3 - n)]
    BY <1>1, <1>4 DEF Block
  <2> QED
    BY <1>1, <1>4, <2>1
<1>5. CASE Loop(prog) < k /\ k # Yield(prog)
  <2>1. Block(k) = <<OutsCopy(k), Operation(k)>>
    BY <1>1, <1>5 DEF Block
  <2> QED
    BY <1>1, <1>5, <2>1
<1> QED
  BY <1>1, <1>2, <1>3, <1>4, <1>5

(* What an operation that is neither the loop nor its yield computes.       *)
LEMMA PlainOperation ==
  ASSUME Planned, NEW k \in DOMAIN prog.code, k # Loop(prog), k # Yield(prog)
  PROVE  LET op == prog.code[k]
         IN  /\ op.kind \in {"load", "store", "linalg"}
             /\ op.kind # "store" =>
                  /\ op.res \in Values(prog) /\ ~ IsPhi(op.res) /\ op.res \notin Results(prog)
                  /\ DefIdx(prog, op.res) = k /\ DefOp(op.res) = op
                  /\ Root[op.res] = VBOf(op.res)
             /\ op.kind = "linalg" <=> (op.kind # "store" /\ IsLinalg(op.res))
<1> DEFINE op == prog.code[k]
<1>1. /\ prog \in Programs /\ op.kind # "for" /\ op.kind # "yield" /\ WellFormedOp(prog, k)
  <2>1. prog \in Programs
    BY PlanFacts
  <2>2. op.kind # "for" /\ op.kind # "yield"
    <3>1. WellFormed(prog)
      BY <2>1, ProgramFacts
    <3>2. PICK l, y \in DOMAIN prog.code :
            \A q \in DOMAIN prog.code : /\ (prog.code[q].kind = "for" <=> q = l)
                                        /\ (prog.code[q].kind = "yield" <=> q = y)
      BY <3>1 DEF WellFormed
    <3>3. Loop(prog) = l /\ Yield(prog) = y
      BY <3>2 DEF Loop, Yield
    <3> QED
      BY <3>2, <3>3
  <2> QED
    BY <2>1, <2>2, OperationFacts
<1>2. op.kind \in {"load", "store", "linalg"}
  BY <1>1 DEF WellFormedOp
<1>3. ASSUME op.kind # "store"
      PROVE  /\ op.res \in Values(prog) /\ ~ IsPhi(op.res) /\ op.res \notin Results(prog)
             /\ DefIdx(prog, op.res) = k /\ DefOp(op.res) = op
             /\ Root[op.res] = VBOf(op.res)
  <2>1. op.res # NoVal
    BY <1>1, <1>2, <1>3 DEF WellFormedOp
  <2>2. op.res \in Values(prog) /\ DefIdx(prog, op.res) = k
    BY <1>1, <2>1, NodeFacts
  <2>3. op.res \notin Args(prog) \cup Results(prog)
    BY <1>1, <2>2, NodeFacts
  <2>4. DefOp(op.res) = op
    BY <2>2 DEF DefOp
  <2>5. Root[op.res] = VBOf(op.res)
    BY <2>2, <2>3, RootIsHome DEF Home
  <2> QED
    BY <2>2, <2>3, <2>4, <2>5 DEF IsPhi
<1>4. op.kind = "linalg" <=> (op.kind # "store" /\ IsLinalg(op.res))
  BY <1>2, <1>3 DEF IsLinalg
<1> QED
  BY <1>2, <1>3, <1>4

(* What the two slots of an operation write, and the slot of a clone.       *)
LEMMA OutsCopyWrites ==
  ASSUME Planned, NEW k \in DOMAIN prog.code, k # Loop(prog), k # Yield(prog)
  PROVE  LET op == prog.code[k]
         IN  /\ OutsCopy(k).do = "access" /\ OutsCopy(k).gives = {}
             /\ OutsCopy(k).write # 0 =>
                  /\ op.kind = "linalg" /\ CopiedOuts(op.res) /\ OutsCopy(k).write = VBOf(op.res)
             /\ (op.kind = "linalg" /\ CopiedOuts(op.res)) => OutsCopy(k).write = VBOf(op.res)
BY DEF OutsCopy, Copy, Nothing, Instr

LEMMA OperationWrites ==
  ASSUME Planned, NEW k \in DOMAIN prog.code, k # Loop(prog), k # Yield(prog)
  PROVE  LET op == prog.code[k]
         IN  /\ Operation(k).do = "access" /\ Operation(k).gives = Gives(k)
             /\ op.kind = "store" => Operation(k).write = 0
             /\ op.kind # "store" => Operation(k).write = VBOf(op.res)
<1> DEFINE op == prog.code[k]
<1>1. /\ op.kind \in {"load", "store", "linalg"}
      /\ op.kind # "store" => Root[op.res] = VBOf(op.res)
  BY PlainOperation
<1>2. CASE op.kind = "load"
  BY <1>2 DEF Operation, Instr
<1>3. CASE op.kind = "store"
  BY <1>3 DEF Operation, Instr
<1>4. CASE op.kind = "linalg"
  BY <1>1, <1>4 DEF Operation, Instr
<1> QED
  BY <1>1, <1>2, <1>3, <1>4

LEMMA CloneWrites ==
  ASSUME Planned, NEW k \in DOMAIN prog.code, NEW i \in DOMAIN prog.phis
  PROVE  /\ Clone(k, i).do = "access" /\ Clone(k, i).gives = {}
         /\ IF ClonedInit(i) /\ DefIdx(prog, Init0(i)) = k THEN Clone(k, i).write = VBOf(Arg(i))
                                                          ELSE Clone(k, i).write = 0
BY DEF Clone, Nothing, Instr, Init0, Arg

LEMMA YieldCopyWrites ==
  ASSUME Planned, NEW i \in DOMAIN prog.phis
  PROVE  LET c == YieldCopy(i, CopiedBack)
         IN  /\ c.do = "access" /\ c.gives = {}
             /\ c.write \in {0, VBOf(Arg(i))}
             /\ \A r \in c.reads : r = [root |-> Home(Yielded(i)), rel |-> "same"]
<1>1. prog \in Programs
  BY PlanFacts
<1>2. Arg(i) \in Values(prog) /\ Arg(i) \notin Results(prog) /\ Yielded(i) \in Values(prog)
  BY <1>1, PhiFacts, NodeFacts DEF Arg, Yielded
<1>3. Root[Arg(i)] = VBOf(Arg(i)) /\ Root[Yielded(i)] = Home(Yielded(i))
  BY <1>2, RootIsHome DEF Home
<1> QED
  BY <1>3 DEF YieldCopy, Copy, Nothing, Instr, Arg, Yielded

(* A VB begun by an operation's own result is not that of a cloned init.    *)
LEMMA BornByResult ==
  ASSUME Planned, NEW v \in Values(prog), ~ IsPhi(v)
  PROVE  LET b == VBOf(v)
         IN  /\ b \in DOMAIN vbs /\ Homed(b) /\ v \in Members(vbs[b])
             /\ vbs[b].birth <= DefIdx(prog, v) /\ DefIdx(prog, v) <= vbs[b].death
             /\ vbs[b].birth = DefIdx(prog, v) =>
                  /\ BirthNode(vbs[b]) = v
                  /\ FirstWrite(b) = IF CopiedOuts(v) THEN 1 ELSE 2
             /\ BirthNode(vbs[b]) = v => vbs[b].birth = DefIdx(prog, v)
<1> DEFINE b == VBOf(v)
<1>1. /\ prog \in Programs /\ b \in DOMAIN vbs /\ v \in Members(vbs[b])
      /\ v \notin Results(prog) /\ v \notin Args(prog)
  BY PlanFacts DEF IsPhi
<1>2. Homed(b)
  BY <1>1 DEF Homed
<1>3. vbs[b].birth <= DefIdx(prog, v) /\ DefIdx(prog, v) <= vbs[b].death
  <2>1. /\ vbs[b].birth <= DefIdx(prog, v) /\ LiveUntil(prog, v) <= vbs[b].death
        /\ vbs[b].birth \in Int /\ vbs[b].death \in Int
    BY <1>1, VBFacts
  <2>2. /\ DefIdx(prog, v) <= Death(prog, v) /\ Death(prog, v) <= LiveUntil(prog, v)
        /\ DefIdx(prog, v) \in Int /\ Death(prog, v) \in Int /\ LiveUntil(prog, v) \in Int
    BY <1>1, LiveFacts, UseFacts, NodeFacts
  <2> QED
    BY <2>1, <2>2
<1> HIDE DEF b
<1>4. BirthNode(vbs[b]) = v => vbs[b].birth = DefIdx(prog, v)
  BY <1>1, <1>2, BornWith
<1>5. ASSUME vbs[b].birth = DefIdx(prog, v)
      PROVE  BirthNode(vbs[b]) = v /\ FirstWrite(b) = IF CopiedOuts(v) THEN 1 ELSE 2
  <2>1. BirthNode(vbs[b]) = v
    BY <1>1, <1>2, <1>5, BornWith
  <2>2. \A i \in DOMAIN prog.phis : ~ (ClonedInit(i) /\ VBOf(Arg(i)) = b)
    <3> SUFFICES ASSUME NEW i \in DOMAIN prog.phis, ClonedInit(i), VBOf(Arg(i)) = b PROVE FALSE
      OBVIOUS
    <3>1. v = Arg(i)
      BY <2>1, InitVB
    <3> QED
      BY <1>1, <3>1 DEF Args, Arg
  <2> QED
    BY <1>2, <2>1, <2>2, FirstWriteFacts, <1>1
<1> QED
  BY <1>1, <1>2, <1>3, <1>4, <1>5 DEF b

(* The VB that an instruction writes is alive there, and was begun, if not  *)
(* before, by this instruction.                                             *)
Fits(w, k, n) ==
  /\ w \in DOMAIN vbs /\ Homed(w) /\ vbs[w].birth <= k /\ k <= vbs[w].death
  /\ vbs[w].birth = k => FirstWrite(w) <= n
  /\ vbs[w].death = k => n <= GivenBy(w)

LEMMA WritesFit ==
  ASSUME Planned, NEW k \in DOMAIN prog.code, k # Loop(prog), NEW n \in 1 .. Len(Block(k)),
         Block(k)[n].write # 0
  PROVE  Fits(Block(k)[n].write, k, n)
<1> DEFINE P == Len(prog.phis)
           w == Block(k)[n].write
<1>1. /\ prog \in Programs /\ P \in Nat /\ k \in Int /\ Loop(prog) \in Int /\ Yield(prog) \in Int
      /\ Loop(prog) < Yield(prog) /\ DOMAIN prog.phis = 1 .. P
  BY PlanFacts, ProgramFacts
<1>2. CASE k = Yield(prog)
  <2>1. /\ Len(Block(k)) = 2 * P + 2
        /\ \A m \in 1 .. P : Block(k)[m] = YieldCopy(m, CopiedBack)
        /\ Block(k)[P + 1] = Instr("access", {}, 0, Gives(k))
        /\ \A m \in P + 2 .. 2 * P + 1 : Block(k)[m] = Nothing
        /\ Block(k)[2 * P + 2] = Instr("yield", {}, 0, Gives(Loop(prog)))
    BY <1>2, BlockFacts
  <2>2. n \in 1 .. P
    <3>1. n \in 1 .. P \/ n = P + 1 \/ n \in P + 2 .. 2 * P + 1 \/ n = 2 * P + 2
      <4>1. P \in Nat /\ n \in 1 .. 2 * P + 2
        BY <1>1, <1>2, <2>1
      <4> HIDE DEF P
      <4> QED
        BY <4>1
    <3> QED
      BY <2>1, <3>1 DEF Instr, Nothing
  <2>3. w = VBOf(Arg(n))
    BY <1>1, <2>1, <2>2, YieldCopyWrites
  <2>4. /\ w \in DOMAIN vbs /\ Homed(w) /\ vbs[w].type = "Fused"
    <3>1. Arg(n) \notin Results(prog)
      BY <1>1, <2>2, PhiFacts, NodeFacts DEF Arg
    <3> QED
      BY <1>1, <2>2, <2>3, <3>1, ArgVB DEF Homed
  <2> HIDE DEF w
  <2>5. /\ vbs[w].birth < Loop(prog) /\ Yield(prog) <= vbs[w].death
        /\ vbs[w].birth \in Int /\ vbs[w].death \in Int
    BY <2>4, HomedFacts, VBFacts
  <2>6. vbs[w].death = k => n <= GivenBy(w)
    <3>1. vbs[w].death = Yield(prog) => GivenBy(w) = 2 * P + 2
      BY <2>4, GivenFacts
    <3> QED
      BY <1>1, <1>2, <2>2, <3>1
  <2>7. vbs[w].birth <= k /\ k <= vbs[w].death /\ vbs[w].birth # k
    BY <1>1, <1>2, <2>5
  <2>8. Fits(w, k, n)
    BY <2>4, <2>6, <2>7 DEF Fits
  <2> QED
    BY <2>8 DEF w
<1>3. CASE k # Yield(prog)
  <2> DEFINE r == prog.code[k].res
  <2>1. /\ Len(Block(k)) = IF k < Loop(prog) THEN P + 2 ELSE 2
        /\ Block(k)[1] = OutsCopy(k) /\ Block(k)[2] = Operation(k)
        /\ \A m \in 3 .. P + 2 : k < Loop(prog) => Block(k)[m] = Clone(k, P + 3 - m)
    BY <1>3, BlockFacts
  <2>2. ASSUME NEW x, x = VBOf(r), prog.code[k].kind # "store", n \in {1, 2},
               CopiedOuts(r) \/ n = 2, n = 1 => BirthNode(vbs[x]) = r
        PROVE  Fits(x, k, n)
    <3>1. r \in Values(prog) /\ ~ IsPhi(r) /\ DefIdx(prog, r) = k
      BY <1>3, <2>2, PlainOperation
    <3>2. /\ x \in DOMAIN vbs /\ Homed(x) /\ vbs[x].birth <= k /\ k <= vbs[x].death
          /\ vbs[x].birth = k => FirstWrite(x) = IF CopiedOuts(r) THEN 1 ELSE 2
      BY <2>2, <3>1, BornByResult
    <3>3. vbs[x].death = k => GivenBy(x) = 2
      BY <1>3, <3>2, GivenFacts
    <3>4. vbs[x].birth = k => FirstWrite(x) <= n
      BY <2>2, <3>2
    <3>5. vbs[x].death = k => n <= GivenBy(x)
      BY <2>2, <3>3
    <3> QED
      BY <3>2, <3>4, <3>5 DEF Fits
  <2>3. CASE n = 1
    <3>1. prog.code[k].kind = "linalg" /\ CopiedOuts(r) /\ w = VBOf(r)
      BY <1>3, <2>1, <2>3, OutsCopyWrites
    <3>2. BirthNode(vbs[VBOf(r)]) = r
      BY <3>1 DEF CopiedOuts
    <3> QED
      BY <2>2, <2>3, <3>1, <3>2
  <2>4. CASE n = 2
    <3>1. prog.code[k].kind # "store" /\ w = VBOf(r)
      BY <1>3, <2>1, <2>4, OperationWrites
    <3> QED
      BY <2>2, <2>4, <3>1
  <2>5. CASE n # 1 /\ n # 2
    <3>1. n \in 3 .. P + 2 /\ k < Loop(prog)
      BY <1>1, <2>1, <2>5
    <3> DEFINE i == P + 3 - n
    <3>2. i \in DOMAIN prog.phis /\ n = P + 3 - i
      BY <1>1, <3>1
    <3>3. Block(k)[n] = Clone(k, i)
      BY <2>1, <3>1
    <3> HIDE DEF i
    <3>4. ClonedInit(i) /\ DefIdx(prog, Init0(i)) = k /\ w = VBOf(Arg(i))
      BY <3>2, <3>3, CloneWrites
    <3>5. /\ w \in DOMAIN vbs /\ Homed(w) /\ vbs[w].type = "Fused"
      <4>1. Arg(i) \notin Results(prog)
        BY <1>1, <3>2, PhiFacts, NodeFacts DEF Arg
      <4> QED
        BY <1>1, <3>2, <3>4, <4>1, ArgVB DEF Homed
    <3> HIDE DEF w
    <3>6. FirstWrite(w) = n /\ vbs[w].birth = k
      BY <3>2, <3>4, <3>5, FirstWriteFacts
    <3>7. k < vbs[w].death
      <4>1. Yield(prog) <= vbs[w].death /\ vbs[w].death \in Int
        BY <3>5, HomedFacts, VBFacts
      <4> QED
        BY <1>1, <3>1, <4>1
    <3>8. k <= vbs[w].death /\ vbs[w].death # k /\ vbs[w].birth <= k /\ FirstWrite(w) <= n
      <4>1. vbs[w].death \in Int
        BY <3>5, VBFacts
      <4> QED
        BY <1>1, <3>6, <3>7, <4>1
    <3>9. Fits(w, k, n)
      BY <3>5, <3>6, <3>8 DEF Fits
    <3> QED
      BY <3>9 DEF w
  <2> QED
    BY <2>3, <2>4, <2>5
<1> QED
  BY <1>2, <1>3

(* And the VB that begins here is the one written.                          *)
LEMMA FirstWritten ==
  ASSUME Planned, NEW b \in DOMAIN vbs, Homed(b)
  PROVE  LET k == vbs[b].birth
             n == FirstWrite(b)
         IN  /\ k \in DOMAIN prog.code /\ k # Loop(prog) /\ k # Yield(prog)
             /\ n \in 1 .. Len(Block(k)) /\ Block(k)[n].write = b
<1> DEFINE P == Len(prog.phis)
           k == vbs[b].birth
           n == FirstWrite(b)
<1>1. /\ prog \in Programs /\ P \in Nat /\ Loop(prog) \in Int /\ Yield(prog) \in Int
      /\ Loop(prog) < Yield(prog) /\ DOMAIN prog.phis = 1 .. P
      /\ k \in DOMAIN prog.code /\ k \in Int /\ k # Loop(prog) /\ k # Yield(prog)
  BY PlanFacts, ProgramFacts, VBFacts, HomedFacts
<1> HIDE DEF k
<1>2. /\ Len(Block(k)) = IF k < Loop(prog) THEN P + 2 ELSE 2
      /\ Block(k)[1] = OutsCopy(k) /\ Block(k)[2] = Operation(k)
      /\ \A m \in 3 .. P + 2 : k < Loop(prog) => Block(k)[m] = Clone(k, P + 3 - m)
  BY <1>1, BlockFacts
<1>3. CASE \E i \in DOMAIN prog.phis : ClonedInit(i) /\ VBOf(Arg(i)) = b
  <2>1. PICK i \in DOMAIN prog.phis : ClonedInit(i) /\ VBOf(Arg(i)) = b
    BY <1>3
  <2>2. n = P + 3 - i /\ k = DefIdx(prog, Init0(i))
    BY <2>1, FirstWriteFacts DEF k
  <2>3. k < Loop(prog)
    BY <1>1, <2>2, PhiFacts DEF Init0
  <2>4. n \in 3 .. P + 2 /\ P + 3 - n = i
    BY <1>1, <2>2
  <2>5. n \in 1 .. Len(Block(k)) /\ Block(k)[n] = Clone(k, i)
    BY <1>1, <1>2, <2>3, <2>4
  <2>6. Block(k)[n].write = b
    BY <1>1, <2>1, <2>2, <2>5, CloneWrites
  <2> QED
    BY <1>1, <2>5, <2>6 DEF k
<1>4. CASE ~ \E i \in DOMAIN prog.phis : ClonedInit(i) /\ VBOf(Arg(i)) = b
  <2> DEFINE v == BirthNode(vbs[b])
  <2>1. v \in Values(prog) /\ v \in Members(vbs[b]) /\ ~ IsPhi(v) /\ DefIdx(prog, v) = k
    BY <1>4, BornWith DEF k
  <2>2. n = IF CopiedOuts(v) THEN 1 ELSE 2
    BY <1>4, FirstWriteFacts
  <2>3. /\ prog.code[k].res = v /\ prog.code[k].kind \in {"linalg", "load"} /\ VBOf(v) = b
        /\ DefOp(v) = prog.code[k]
    BY <1>1, <2>1, DefOpFacts, VBFacts
  <2> HIDE DEF v
  <2>4. CASE CopiedOuts(v)
    <3>1. prog.code[k].kind = "linalg"
      BY <2>3, <2>4 DEF CopiedOuts, IsLinalg
    <3>2. OutsCopy(k).write = b
      BY <1>1, <2>3, <2>4, <3>1, OutsCopyWrites
    <3>3. n = 1 /\ n \in 1 .. Len(Block(k))
      BY <1>1, <1>2, <2>2, <2>4
    <3> QED
      BY <1>1, <1>2, <3>2, <3>3 DEF k
  <2>5. CASE ~ CopiedOuts(v)
    <3>1. Operation(k).write = b
      BY <1>1, <2>3, OperationWrites
    <3>2. n = 2 /\ n \in 1 .. Len(Block(k))
      BY <1>1, <1>2, <2>2, <2>5
    <3> QED
      BY <1>1, <1>2, <3>1, <3>2 DEF k
  <2> QED
    BY <2>4, <2>5
<1> QED
  BY <1>3, <1>4

(* What an instruction gives, of the VBs with data of their own, is what    *)
(* GivenBy says.                                                            *)
LEMMA GivenHere ==
  ASSUME Planned, NEW k \in DOMAIN prog.code, k # Loop(prog), NEW n \in 1 .. Len(Block(k))
  PROVE  /\ Block(k)[n].do = IF k = Yield(prog) /\ n = 2 * Len(prog.phis) + 2 THEN "yield" ELSE "access"
         /\ Block(k)[n].do = "access" =>
              \A b \in DOMAIN vbs : Homed(b) =>
                (b \in Block(k)[n].gives <=> vbs[b].death = k /\ GivenBy(b) = n)
<1> DEFINE P == Len(prog.phis)
<1>1. /\ prog \in Programs /\ P \in Nat /\ k \in Int /\ Loop(prog) \in Int /\ Yield(prog) \in Int
      /\ Loop(prog) < Yield(prog) /\ DOMAIN prog.phis = 1 .. P
  BY PlanFacts, ProgramFacts
<1>2. CASE k = Yield(prog)
  <2>1. /\ Len(Block(k)) = 2 * P + 2
        /\ \A m \in 1 .. P : Block(k)[m] = YieldCopy(m, CopiedBack)
        /\ Block(k)[P + 1] = Instr("access", {}, 0, Gives(k))
        /\ \A m \in P + 2 .. 2 * P + 1 : Block(k)[m] = Nothing
        /\ Block(k)[2 * P + 2] = Instr("yield", {}, 0, Gives(Loop(prog)))
    BY <1>2, BlockFacts
  <2>2. ASSUME NEW b \in DOMAIN vbs, Homed(b)
        PROVE  /\ vbs[b].death = k => GivenBy(b) = IF vbs[b].type = "Standard" THEN P + 1 ELSE 2 * P + 2
               /\ b \in Gives(k) <=> vbs[b].death = k /\ vbs[b].type = "Standard"
    BY <1>1, <1>2, <2>2, GivenFacts
  <2>3. CASE n = P + 1
    <3>1. Block(k)[n].do = "access" /\ Block(k)[n].gives = Gives(k) /\ n # 2 * P + 2
      BY <1>1, <2>1, <2>3 DEF Instr
    <3>2. \A b \in DOMAIN vbs : Homed(b) =>
                (b \in Block(k)[n].gives <=> vbs[b].death = k /\ GivenBy(b) = n)
      BY <1>1, <2>2, <2>3, <3>1
    <3> QED
      BY <3>1, <3>2
  <2>4. CASE n = 2 * P + 2
    BY <1>2, <2>1, <2>4 DEF Instr
  <2>5. CASE n # P + 1 /\ n # 2 * P + 2
    <3>1. n \in 1 .. P \/ n \in P + 2 .. 2 * P + 1
      BY <1>1, <2>1, <2>5
    <3>2. Block(k)[n].do = "access" /\ Block(k)[n].gives = {}
      <4>1. CASE n \in 1 .. P
        BY <1>1, <2>1, <4>1, YieldCopyWrites
      <4>2. CASE n \in P + 2 .. 2 * P + 1
        BY <2>1, <4>2 DEF Nothing, Instr
      <4> QED
        BY <3>1, <4>1, <4>2
    <3>3. \A b \in DOMAIN vbs : Homed(b) => ~ (vbs[b].death = k /\ GivenBy(b) = n)
      BY <2>2, <2>5
    <3> QED
      BY <2>5, <3>2, <3>3
  <2> QED
    BY <2>3, <2>4, <2>5
<1>3. CASE k # Yield(prog)
  <2>1. /\ Len(Block(k)) = IF k < Loop(prog) THEN P + 2 ELSE 2
        /\ Block(k)[1] = OutsCopy(k) /\ Block(k)[2] = Operation(k)
        /\ \A m \in 3 .. P + 2 : k < Loop(prog) => Block(k)[m] = Clone(k, P + 3 - m)
    BY <1>3, BlockFacts
  <2>2. ASSUME NEW b \in DOMAIN vbs, Homed(b)
        PROVE  /\ vbs[b].death = k => GivenBy(b) = 2
               /\ b \in Gives(k) <=> vbs[b].death = k
    BY <1>1, <1>3, <2>2, GivenFacts
  <2>3. CASE n = 2
    <3>1. Block(k)[n].do = "access" /\ Block(k)[n].gives = Gives(k)
      BY <1>3, <2>1, <2>3, OperationWrites
    <3> QED
      BY <1>3, <2>2, <2>3, <3>1
  <2>4. CASE n # 2
    <3>1. Block(k)[n].do = "access" /\ Block(k)[n].gives = {}
      <4>1. CASE n = 1
        BY <1>3, <2>1, <4>1, OutsCopyWrites
      <4>2. CASE n # 1
        <5>1. n \in 3 .. P + 2 /\ k < Loop(prog)
          BY <1>1, <2>1, <2>4, <4>2
        <5>2. P + 3 - n \in DOMAIN prog.phis /\ Block(k)[n] = Clone(k, P + 3 - n)
          BY <1>1, <2>1, <5>1
        <5> QED
          BY <5>2, CloneWrites
      <4> QED
        BY <4>1, <4>2
    <3>2. \A b \in DOMAIN vbs : Homed(b) => ~ (vbs[b].death = k /\ GivenBy(b) = n)
      BY <2>2, <2>4
    <3> QED
      BY <1>3, <3>1, <3>2
  <2> QED
    BY <2>3, <2>4
<1> QED
  BY <1>2, <1>3

(* The places where a VB is first written and given are numbers. *)
LEMMA PlaceFacts ==
  ASSUME Planned, NEW b \in DOMAIN vbs, Homed(b)
  PROVE  /\ vbs[b].birth \in Int /\ vbs[b].death \in Int /\ vbs[b].birth <= vbs[b].death
         /\ 1 <= vbs[b].birth /\ vbs[b].death <= Len(prog.code)
         /\ FirstWrite(b) \in Int /\ 1 <= FirstWrite(b) /\ GivenBy(b) \in Int /\ 1 <= GivenBy(b)
         /\ b # 0
<1>1. prog \in Programs /\ Len(prog.phis) \in Nat /\ Len(prog.code) \in Nat
  BY PlanFacts, ProgramFacts
<1>2. FirstWrite(b) \in 1 .. Len(prog.phis) + 2
  BY FirstWriteFacts
<1>3. GivenBy(b) \in Int /\ 1 <= GivenBy(b)
  BY <1>1 DEF GivenBy
<1>4. b # 0
  <2>1. vbs \in Seq(VBs(prog))
    BY DEF Planned, AInv, Division
  <2> QED
    BY <2>1, LenProperties
<1> QED
  BY <1>1, <1>2, <1>3, <1>4, VBFacts

(* An instruction takes what is live on.                                    *)
LEMMA LiveStep ==
  ASSUME Planned, NEW k \in DOMAIN prog.code, k # Loop(prog), NEW n \in 1 .. Len(Block(k)),
         Block(k)[n].do = "access"
  PROVE  Live(k, n + 1) = (Live(k, n) \cup ({Block(k)[n].write} \ {0})) \ Block(k)[n].gives
<1> DEFINE w == Block(k)[n].write
<1>1. k \in Int /\ n \in Int
  BY PlanFacts, ProgramFacts
<1>2. ASSUME NEW b \in DOMAIN vbs, Homed(b)
      PROVE  /\ Begun(b, k, n + 1) <=> Begun(b, k, n) \/ (vbs[b].birth = k /\ FirstWrite(b) = n)
             /\ Pending(b, k, n + 1) <=> Pending(b, k, n) /\ ~ (vbs[b].death = k /\ GivenBy(b) = n)
             /\ b \in Block(k)[n].gives <=> vbs[b].death = k /\ GivenBy(b) = n
             /\ (vbs[b].birth = k /\ FirstWrite(b) = n) => b = w
             /\ b # 0
  <2>1. /\ FirstWrite(b) \in Int /\ GivenBy(b) \in Int /\ b # 0
        /\ vbs[b].birth \in Int /\ vbs[b].death \in Int
    BY <1>2, PlaceFacts
  <2>2. Begun(b, k, n + 1) <=> Begun(b, k, n) \/ (vbs[b].birth = k /\ FirstWrite(b) = n)
    BY <1>1, <2>1 DEF Begun
  <2>3. Pending(b, k, n + 1) <=> Pending(b, k, n) /\ ~ (vbs[b].death = k /\ GivenBy(b) = n)
    BY <1>1, <2>1 DEF Pending
  <2>4. b \in Block(k)[n].gives <=> vbs[b].death = k /\ GivenBy(b) = n
    BY <1>2, GivenHere
  <2>5. (vbs[b].birth = k /\ FirstWrite(b) = n) => b = w
    BY <1>2, FirstWritten
  <2> QED
    BY <2>1, <2>2, <2>3, <2>4, <2>5
<1>3. w # 0 => w \in DOMAIN vbs /\ Homed(w) /\ Begun(w, k, n + 1) /\ Pending(w, k, n)
  <2> SUFFICES ASSUME w # 0
               PROVE  w \in DOMAIN vbs /\ Homed(w) /\ Begun(w, k, n + 1) /\ Pending(w, k, n)
    OBVIOUS
  <2>1. Fits(w, k, n)
    BY WritesFit
  <2> HIDE DEF w
  <2>2. /\ w \in DOMAIN vbs /\ Homed(w) /\ vbs[w].birth <= k /\ k <= vbs[w].death
        /\ vbs[w].birth = k => FirstWrite(w) <= n
        /\ vbs[w].death = k => n <= GivenBy(w)
    BY <2>1 DEF Fits
  <2>3. /\ FirstWrite(w) \in Int /\ GivenBy(w) \in Int
        /\ vbs[w].birth \in Int /\ vbs[w].death \in Int
    BY <2>2, PlaceFacts
  <2>4. Begun(w, k, n + 1)
    BY <1>1, <2>2, <2>3 DEF Begun
  <2>5. Pending(w, k, n)
    BY <1>1, <2>2, <2>3 DEF Pending
  <2> QED
    BY <2>2, <2>4, <2>5
<1> PICK x, G : x = w /\ G = Block(k)[n].gives
  OBVIOUS
<1>4. \A b : b \in Live(k, n + 1) <=> b \in (Live(k, n) \cup ({x} \ {0})) \ G
  BY <1>2, <1>3 DEF Live
<1> QED
  BY <1>4

(* What is live between two operations. *)
LEMMA LiveBetween ==
  ASSUME Planned, NEW k \in Int
  PROVE  Live(k, 1) = {b \in DOMAIN vbs : Homed(b) /\ vbs[b].birth < k /\ k <= vbs[b].death}
<1>1. ASSUME NEW b \in DOMAIN vbs, Homed(b)
      PROVE  (Begun(b, k, 1) /\ Pending(b, k, 1)) <=> (vbs[b].birth < k /\ k <= vbs[b].death)
  <2>1. /\ vbs[b].birth \in Int /\ vbs[b].death \in Int
        /\ FirstWrite(b) \in Int /\ 1 <= FirstWrite(b) /\ GivenBy(b) \in Int /\ 1 <= GivenBy(b)
    BY <1>1, PlaceFacts
  <2>2. Begun(b, k, 1) <=> vbs[b].birth < k
    BY <2>1 DEF Begun
  <2>3. Pending(b, k, 1) <=> k <= vbs[b].death
    BY <2>1 DEF Pending
  <2> QED
    BY <2>2, <2>3
<1> QED
  BY <1>1 DEF Live

(* What is live at the start, at the end, and from one operation to the     *)
(* next.                                                                    *)
LEMMA LiveEnds ==
  ASSUME Planned
  PROVE  Live(1, 1) = {} /\ Live(Len(prog.code) + 1, 1) = {}
<1>1. Len(prog.code) \in Nat
  BY PlanFacts, ProgramFacts
<1>2. ASSUME NEW b \in DOMAIN vbs, Homed(b)
      PROVE  ~ vbs[b].birth < 1 /\ ~ Len(prog.code) + 1 <= vbs[b].death
  BY <1>1, <1>2, PlaceFacts
<1>3. Live(1, 1) = {}
  BY <1>2, LiveBetween
<1>4. Live(Len(prog.code) + 1, 1) = {}
  BY <1>1, <1>2, LiveBetween
<1> QED
  BY <1>3, <1>4

LEMMA LiveOn ==
  ASSUME Planned, NEW k \in DOMAIN prog.code, k # Loop(prog), k # Yield(prog)
  PROVE  Live(k, Len(Block(k)) + 1) = Live(k + 1, 1)
<1> DEFINE N == Len(Block(k))
<1>1. k \in Int /\ N \in Int /\ 2 <= N
  <2>1. Len(prog.phis) \in Nat /\ Loop(prog) \in Int
    BY PlanFacts, ProgramFacts
  <2> QED
    BY <2>1, BlockFacts
<1>2. ASSUME NEW b \in DOMAIN vbs, Homed(b)
      PROVE  (Begun(b, k, N + 1) /\ Pending(b, k, N + 1))
               <=> (vbs[b].birth < k + 1 /\ k + 1 <= vbs[b].death)
  <2>1. /\ vbs[b].birth \in Int /\ vbs[b].death \in Int
        /\ FirstWrite(b) \in Int /\ GivenBy(b) \in Int
    BY <1>2, PlaceFacts
  <2>2. vbs[b].birth = k => FirstWrite(b) < N + 1
    <3>1. vbs[b].birth = k => FirstWrite(b) \in 1 .. N
      BY <1>2, FirstWritten
    <3> QED
      BY <1>1, <2>1, <3>1
  <2>3. vbs[b].death = k => GivenBy(b) = 2
    BY <1>2, GivenFacts
  <2> HIDE DEF N
  <2>4. Begun(b, k, N + 1) <=> vbs[b].birth < k + 1
    BY <1>1, <2>1, <2>2 DEF Begun
  <2>5. Pending(b, k, N + 1) <=> k + 1 <= vbs[b].death
    BY <1>1, <2>1, <2>3 DEF Pending
  <2> QED
    BY <2>4, <2>5
<1>3. Live(k + 1, 1) = {b \in DOMAIN vbs : Homed(b) /\ vbs[b].birth < k + 1 /\ k + 1 <= vbs[b].death}
  BY <1>1, LiveBetween
<1> HIDE DEF N
<1>4. Live(k, N + 1) = Live(k + 1, 1)
  BY <1>2, <1>3 DEF Live
<1> QED
  BY <1>4 DEF N

(* Around the loop: what is live before it and was not begun in it is live  *)
(* at its beginning, whichever iteration it is, and what the loop's end     *)
(* gives is not live after it.                                              *)
LEMMA LiveLoop ==
  ASSUME Planned
  PROVE  LET l == Loop(prog)
             y == Yield(prog)
             inside == Live(y, 2 * Len(prog.phis) + 2)
         IN  /\ Live(l + 1, 1) = Live(l, 1)
             /\ Live(l + 1, 1) = inside
             /\ Live(y + 1, 1) = inside \ Gives(l)
<1> DEFINE l == Loop(prog)
           y == Yield(prog)
           P == Len(prog.phis)
           last == 2 * Len(prog.phis) + 2
<1>1. /\ prog \in Programs /\ P \in Nat /\ l \in Int /\ y \in Int /\ l < y /\ last \in Int
  BY PlanFacts, ProgramFacts
<1>2. ASSUME NEW b \in DOMAIN vbs, Homed(b)
      PROVE  /\ (vbs[b].birth < l + 1 /\ l + 1 <= vbs[b].death) <=> (vbs[b].birth < l /\ l <= vbs[b].death)
             /\ (vbs[b].birth < l + 1 /\ l + 1 <= vbs[b].death)
                  <=> (Begun(b, y, last) /\ Pending(b, y, last))
             /\ (vbs[b].birth < y + 1 /\ y + 1 <= vbs[b].death)
                  <=> (Begun(b, y, last) /\ Pending(b, y, last) /\ b \notin Gives(l))
  <2>1. /\ vbs[b].birth \in Int /\ vbs[b].death \in Int /\ vbs[b].birth <= vbs[b].death
        /\ FirstWrite(b) \in Int /\ GivenBy(b) \in Int
    BY <1>2, PlaceFacts
  <2>2. /\ vbs[b].birth # l /\ vbs[b].birth # y /\ vbs[b].death # l
        /\ vbs[b].type \in {"Fused", "Eternal", "Standard"}
        /\ vbs[b].type # "Standard" => vbs[b].birth < l /\ y <= vbs[b].death
        /\ vbs[b].type = "Standard" =>
             ((l < vbs[b].birth /\ vbs[b].birth <= y) <=> (l < vbs[b].death /\ vbs[b].death <= y))
    BY <1>2, HomedFacts DEF InLoop
  <2>3. /\ b \in Gives(l) <=> vbs[b].death = y /\ vbs[b].type # "Standard"
        /\ (vbs[b].death = y /\ vbs[b].type = "Standard") => GivenBy(b) = P + 1
        /\ (vbs[b].death = y /\ vbs[b].type # "Standard") => GivenBy(b) = last
    BY <1>2, GivenFacts
  <2>4. last > P + 1
    BY <1>1
  <2>5. Begun(b, y, last) <=> vbs[b].birth < y
    BY <2>2 DEF Begun
  <2>6. Pending(b, y, last) <=> y < vbs[b].death \/ (vbs[b].death = y /\ vbs[b].type # "Standard")
    <3> HIDE DEF last, y, P
    <3>1. Pending(b, y, last) <=> y < vbs[b].death \/ (y = vbs[b].death /\ last <= GivenBy(b))
      BY DEF Pending
    <3>2. CASE vbs[b].death = y /\ vbs[b].type = "Standard"
      BY <1>1, <2>1, <2>3, <2>4, <3>1, <3>2
    <3>3. CASE vbs[b].death = y /\ vbs[b].type # "Standard"
      BY <1>1, <2>1, <2>3, <2>4, <3>1, <3>3
    <3>4. CASE vbs[b].death # y
      BY <1>1, <2>1, <3>1, <3>4
    <3> QED
      BY <3>2, <3>3, <3>4
  <2> HIDE DEF last, y, l, P
  <2>7. CASE vbs[b].type = "Standard"
    BY <1>1, <2>1, <2>2, <2>3, <2>5, <2>6, <2>7
  <2>8. CASE vbs[b].type # "Standard"
    BY <1>1, <2>1, <2>2, <2>3, <2>5, <2>6, <2>8
  <2> QED
    BY <2>7, <2>8
<1>3. /\ Live(l + 1, 1) = {b \in DOMAIN vbs : Homed(b) /\ vbs[b].birth < l + 1 /\ l + 1 <= vbs[b].death}
      /\ Live(l, 1) = {b \in DOMAIN vbs : Homed(b) /\ vbs[b].birth < l /\ l <= vbs[b].death}
      /\ Live(y + 1, 1) = {b \in DOMAIN vbs : Homed(b) /\ vbs[b].birth < y + 1 /\ y + 1 <= vbs[b].death}
  BY <1>1, LiveBetween
<1>4. Live(y, last) = {b \in DOMAIN vbs : Homed(b) /\ Begun(b, y, last) /\ Pending(b, y, last)}
  BY DEF Live
<1> HIDE DEF l, y, last, P
<1>5. Live(l + 1, 1) = Live(l, 1)
  BY <1>2, <1>3
<1>6. Live(l + 1, 1) = Live(y, last)
  BY <1>2, <1>3, <1>4
<1>7. Live(y + 1, 1) = Live(y, last) \ Gives(l)
  BY <1>2, <1>3, <1>4
<1> QED
  BY <1>5, <1>6, <1>7 DEF l, y, last

-----------------------------------------------------------------------------
(* What is read is live, and nobody writes into it. *)

(* A result that is not in the VB of its iter_arg is stored.                *)
LEMMA ResultVB ==
  ASSUME Planned, NEW i \in DOMAIN prog.phis, Res(i) \notin Handoffs(prog)
  PROVE  Res(i) \in Members(vbs[VBOf(Arg(i))])
<1> DEFINE b == VBOf(Res(i))
<1>1. /\ prog \in Programs /\ Res(i) \in Values(prog) /\ Res(i) \in Results(prog)
      /\ DefIdx(prog, Res(i)) = Loop(prog) /\ Loop(prog) \in Int /\ Res(i) \notin Args(prog)
  BY PlanFacts, PhiFacts, NodeFacts, ProgramFacts DEF Res
<1>2. b \in DOMAIN vbs /\ Res(i) \in Members(vbs[b]) /\ KindInv(vbs[b])
  BY <1>1, PlanFacts
<1> HIDE DEF b
<1>3. vbs[b].type # "Standard"
  BY <1>1, <1>2 DEF KindInv, StandardKind
<1>4. vbs[b].type # "Eternal"
  <2> SUFFICES ASSUME vbs[b].type = "Eternal" PROVE FALSE
    OBVIOUS
  <2>1. PICK v \in Values(prog) : EternalFor(vbs[b], v)
    BY <1>2 DEF KindInv
  <2>2. v = Res(i)
    BY <1>2, <2>1 DEF EternalFor, Members, ToSet
  <2> QED
    BY <1>1, <2>1, <2>2 DEF EternalFor
<1>5. PICK j \in DOMAIN prog.phis : b = VBOf(Arg(j)) /\ FusedFor(vbs[b], j, cursor, splits)
  BY <1>2, <1>3, <1>4, FusedVB DEF KindInv
<1>6. Res(i) \in {Arg(j), Init0(j), Yielded(j), Res(j)}
  BY <1>2, <1>5 DEF FusedFor
<1>7. Res(i) \notin {Arg(j), Init0(j), Yielded(j)}
  BY <1>1, PhiFacts DEF Arg, Init0, Yielded
<1>8. i = j
  BY <1>1, <1>6, <1>7, PhisDistinct
<1> QED
  BY <1>2, <1>5, <1>8

(* What an operation reads is in a VB that was begun before and is given    *)
(* after it.                                                                *)
LEMMA HomeLives ==
  ASSUME Planned, NEW u \in Values(prog), NEW k \in Uses(prog, u), k # Loop(prog)
  PROVE  LET b == Home(u)
         IN  /\ b \in DOMAIN vbs /\ Homed(b) /\ vbs[b].birth < k /\ k <= vbs[b].death
             /\ Death(prog, u) <= vbs[b].death
             /\ u \in Members(vbs[b]) \/ (u \in Results(prog) /\ u \in Handoffs(prog))
<1>1. /\ prog \in Programs /\ k \in Int /\ k <= Death(prog, u) /\ Death(prog, u) \in Int
      /\ Death(prog, u) \in 1 .. Len(prog.code)
      /\ DefIdx(prog, u) < k /\ DefIdx(prog, u) \in Int /\ (u \in Results(prog) => Yield(prog) < k)
      /\ Loop(prog) \in Int /\ Yield(prog) \in Nat /\ Yield(prog) \in 1 .. Len(prog.code)
      /\ Loop(prog) < Yield(prog) /\ Len(prog.code) \in Nat
  BY PlanFacts, UseFacts, DefinedBefore, NodeFacts, ProgramFacts
<1>2. CASE u \notin Results(prog)
  <2> DEFINE b == VBOf(u)
  <2>1. Home(u) = b /\ b \in DOMAIN vbs /\ u \in Members(vbs[b])
    BY <1>2, PlanFacts DEF Home
  <2>2. Homed(b)
    BY <1>2, <2>1 DEF Homed
  <2>3. /\ vbs[b].birth <= DefIdx(prog, u) /\ LiveUntil(prog, u) <= vbs[b].death
        /\ vbs[b].birth \in Int /\ vbs[b].death \in Int
    BY <2>1, VBFacts
  <2>4. Death(prog, u) <= LiveUntil(prog, u) /\ LiveUntil(prog, u) \in Int
    BY <1>1, LiveFacts
  <2> HIDE DEF b
  <2>5. vbs[b].birth < k /\ k <= vbs[b].death /\ Death(prog, u) <= vbs[b].death
    BY <1>1, <2>3, <2>4
  <2> QED
    BY <2>1, <2>2, <2>5
<1>3. CASE u \in Results(prog)
  <2>1. PICK i \in DOMAIN prog.phis : u = Res(i)
    BY <1>3 DEF Results, Res
  <2> DEFINE b == VBOf(Arg(i))
  <2>2. Home(u) = b
    BY <1>1, <1>3, <2>1, PhiOfFacts DEF Home, Arg
  <2>3. /\ b \in DOMAIN vbs /\ Arg(i) \in Members(vbs[b]) /\ vbs[b].type = "Fused"
        /\ FusedFor(vbs[b], i, cursor, splits) /\ Arg(i) \notin Results(prog)
    BY <1>1, ArgVB, PhiFacts, NodeFacts DEF Arg
  <2> HIDE DEF b
  <2>4. Homed(b)
    BY <2>3 DEF Homed
  <2>5. vbs[b].birth < Loop(prog) /\ vbs[b].birth \in Int /\ vbs[b].death \in Int
    BY <2>3, <2>4, HomedFacts, VBFacts
  <2>6. Death(prog, u) <= vbs[b].death
    <3> DEFINE T == {Yield(prog), Death(prog, u)}
    <3>1. T \in SUBSET (0 .. Len(prog.code)) /\ T # {}
      BY <1>1
    <3>2. Death(prog, u) <= Max(T)
      <4> HIDE DEF T
      <4>1. \A x \in T : x <= Max(T)
        BY <1>1, <3>1, MaxOf
      <4> QED
        BY <4>1 DEF T
    <3> QED
      BY <2>1, <2>3, <3>2 DEF FusedFor
  <2>7. vbs[b].birth < k /\ k <= vbs[b].death
    BY <1>1, <1>3, <2>5, <2>6
  <2>8. u \in Members(vbs[b]) \/ u \in Handoffs(prog)
    BY <2>1, ResultVB DEF b
  <2> QED
    BY <1>3, <2>2, <2>3, <2>4, <2>6, <2>7, <2>8
<1> QED
  BY <1>2, <1>3

(* It is live in front of the operation, and of the copies at a yield.      *)
LEMMA UseLive ==
  ASSUME Planned, NEW u \in Values(prog), NEW k \in Uses(prog, u), k # Loop(prog), NEW n \in Nat,
         IF k = Yield(prog) THEN n <= Len(prog.phis) ELSE n <= 2
  PROVE  Home(u) \in Live(k, n)
<1> DEFINE b == Home(u)
           P == Len(prog.phis)
<1>1. b \in DOMAIN vbs /\ Homed(b) /\ vbs[b].birth < k /\ k <= vbs[b].death
  BY HomeLives
<1> HIDE DEF b
<1>2. k \in Int /\ vbs[b].death \in Int /\ P \in Nat
  <2>1. prog \in Programs /\ P \in Nat
    BY PlanFacts, ProgramFacts
  <2> QED
    BY <1>1, <2>1, UseFacts, PlaceFacts
<1>3. vbs[b].death = k => n <= GivenBy(b)
  <2>1. /\ vbs[b].death # Yield(prog) => GivenBy(b) = 2
        /\ vbs[b].death = Yield(prog) => GivenBy(b) = P + 1 \/ GivenBy(b) = 2 * P + 2
    BY <1>1 DEF GivenBy
  <2> QED
    BY <1>2, <2>1
<1>4. Begun(b, k, n)
  BY <1>1 DEF Begun
<1>5. Pending(b, k, n)
  BY <1>1, <1>2, <1>3 DEF Pending
<1>6. b \in Live(k, n)
  BY <1>1, <1>4, <1>5 DEF Live
<1> QED
  BY <1>6 DEF b

(* What a linalg operation reads at places other than the one it writes is  *)
(* in another buffer than its result, or they are fused.                    *)
LEMMA ReadApart ==
  ASSUME Planned, NEW k \in DOMAIN prog.code, prog.code[k].kind = "linalg",
         NEW o \in DOMAIN prog.code[k].ins, prog.code[k].ins[o].rel = "other",
         Home(prog.code[k].ins[o].val) # VBOf(prog.code[k].res),
         color[Home(prog.code[k].ins[o].val)] = color[VBOf(prog.code[k].res)]
  PROVE  FALSE
<1> DEFINE u == prog.code[k].ins[o].val
           r == prog.code[k].res
           b == Home(u)
           w == VBOf(r)
<1>1. /\ prog \in Programs /\ u \in Values(prog) /\ k \in Uses(prog, u)
      /\ k # Loop(prog) /\ k # Yield(prog) /\ k \in Int
      /\ NothingOutlivesLoop(prog) /\ OtherReadsFirst(prog) /\ StoresLast(prog)
  <2>1. prog \in Programs /\ Supported(prog)
    BY PlanFacts DEF Planned
  <2>2. u \in Values(prog) /\ k \in Uses(prog, u)
    BY <2>1, OperandFacts
  <2>3. k # Loop(prog) /\ k # Yield(prog)
    <3>1. prog.code[Loop(prog)].kind = "for"
      BY <2>1, ProgramFacts
    <3>2. k # Loop(prog)
      BY <3>1
    <3>3. k # Yield(prog)
      <4>1. prog.code[Yield(prog)].res = NoVal
        BY <2>1, ProgramFacts
      <4>2. WellFormedOp(prog, k)
        BY <2>1, OperationFacts
      <4> QED
        BY <4>1, <4>2 DEF WellFormedOp
    <3> QED
      BY <3>2, <3>3
  <2> QED
    BY <2>1, <2>2, <2>3, ProgramFacts DEF Supported
<1>2. /\ b \in DOMAIN vbs /\ Homed(b) /\ vbs[b].birth < k /\ k <= vbs[b].death
      /\ Death(prog, u) <= vbs[b].death
      /\ u \in Members(vbs[b]) \/ (u \in Results(prog) /\ u \in Handoffs(prog))
  BY <1>1, HomeLives
<1>3. r \in Values(prog) /\ ~ IsPhi(r) /\ r \notin Results(prog) /\ DefIdx(prog, r) = k
  BY <1>1, PlainOperation
<1>4. /\ w \in DOMAIN vbs /\ Homed(w) /\ r \in Members(vbs[w])
      /\ vbs[w].birth <= k /\ k <= vbs[w].death
  BY <1>3, BornByResult
<1> HIDE DEF b, w
<1>5. b # w /\ color[b] = color[w]
  BY DEF b, w
<1>6. /\ vbs[b].birth \in Int /\ vbs[b].death \in Int /\ vbs[w].birth \in Int /\ vbs[w].death \in Int
  BY <1>2, <1>4, PlaceFacts
<1>7. vbs[b].death = k
  <2>1. vbs[b].death <= vbs[w].birth \/ vbs[w].death <= vbs[b].birth
    BY <1>2, <1>4, <1>5, SharersTakeTurns
  <2> QED
    BY <1>1, <1>2, <1>4, <1>6, <2>1
<1>8. /\ k <= Death(prog, u) /\ Death(prog, u) \in Int
      /\ Death(prog, u) <= LiveUntil(prog, u) /\ LiveUntil(prog, u) \in Int
      /\ u \in Results(prog) => LiveUntil(prog, u) = Death(prog, u)
  BY <1>1, UseFacts, LiveFacts
<1>9. u \in Members(vbs[b])
  <2> SUFFICES ASSUME u \in Results(prog), u \in Handoffs(prog) PROVE FALSE
    BY <1>2
  <2>1. PICK q \in DOMAIN prog.code :
          \/ (prog.code[q].kind = "load" /\ u = prog.code[q].res)
          \/ (prog.code[q].kind = "store" /\ u = prog.code[q].ins[1].val)
    BY DEF Handoffs
  <2>2. prog.code[q].kind # "load"
    <3> SUFFICES ASSUME prog.code[q].kind = "load", u = prog.code[q].res PROVE FALSE
      BY <2>1
    <3>1. q # Loop(prog) /\ q # Yield(prog)
      <4>1. prog.code[q].res # NoVal
        BY <1>1, OperationFacts DEF WellFormedOp
      <4> QED
        BY <1>1, <4>1, ProgramFacts
    <3> QED
      BY <3>1, PlainOperation
  <2>3. prog.code[q].kind = "store" /\ LiveUntil(prog, u) = q
    BY <1>1, <2>1, <2>2 DEF StoresLast
  <2>4. q = k
    BY <1>2, <1>6, <1>7, <1>8, <2>3
  <2> QED
    BY <2>3, <2>4
<1>10. LiveUntil(prog, u) = k
  <2>1. LiveUntil(prog, u) <= vbs[b].death
    BY <1>2, <1>9, VBFacts
  <2> QED
    BY <1>1, <1>7, <1>8, <2>1
<1>11. LiveFrom(r) = k
  BY <1>3 DEF LiveFrom
<1>12. AInv /\ phase = "done"
  BY DEF Planned
<1> HIDE DEF r, u
<1>13. prog.code[DefIdx(prog, r)].ins[o].val = u /\ prog.code[DefIdx(prog, r)].ins[o].rel = "other"
       /\ o \in DOMAIN prog.code[DefIdx(prog, r)].ins
  BY <1>3 DEF u
<1> QED
  BY <1>1, <1>2, <1>3, <1>4, <1>5, <1>9, <1>10, <1>11, <1>12, <1>13, NoneMixedUp

(* A VB that is still to be read where another one is written has another   *)
(* buffer.                                                                  *)
LEMMA WriteApart ==
  ASSUME Planned, NEW k \in DOMAIN prog.code, k # Loop(prog), NEW n \in 1 .. Len(Block(k)),
         Block(k)[n].write # 0, NEW b \in Live(k, n), b # Block(k)[n].write, Pending(b, k, n + 1),
         color[b] = color[Block(k)[n].write]
  PROVE  FALSE
<1> DEFINE P == Len(prog.phis)
           w == Block(k)[n].write
           r == prog.code[k].res
<1>1. /\ prog \in Programs /\ P \in Nat /\ k \in Int /\ n \in Int /\ 1 <= n
      /\ Loop(prog) \in Int /\ Yield(prog) \in Int /\ Loop(prog) < Yield(prog)
  BY PlanFacts, ProgramFacts
<1>2. /\ w \in DOMAIN vbs /\ Homed(w) /\ vbs[w].birth <= k /\ k <= vbs[w].death
      /\ vbs[w].death = k => n <= GivenBy(w)
  BY WritesFit DEF Fits
<1>3. b \in DOMAIN vbs /\ Homed(b) /\ Begun(b, k, n)
  BY DEF Live
<1>4. /\ vbs[b].birth \in Int /\ vbs[b].death \in Int /\ vbs[w].birth \in Int /\ vbs[w].death \in Int
      /\ FirstWrite(b) \in Int /\ GivenBy(b) \in Int /\ 1 <= FirstWrite(b)
  BY <1>2, <1>3, PlaceFacts
<1> HIDE DEF w
<1>5. vbs[b].death <= vbs[w].birth \/ vbs[w].death <= vbs[b].birth
  BY <1>2, <1>3, SharersTakeTurns DEF w
<1>6. vbs[b].birth <= k /\ k <= vbs[b].death
  BY <1>1, <1>3, <1>4 DEF Begun, Pending
<1>7. ASSUME k # Yield(prog), n <= 2
      PROVE  /\ prog.code[k].kind # "store" /\ w = VBOf(r) /\ r \in Values(prog) /\ ~ IsPhi(r)
             /\ DefIdx(prog, r) = k /\ r \notin Results(prog)
             /\ n = 1 => prog.code[k].kind = "linalg" /\ CopiedOuts(r)
  <2>1. Block(k)[1] = OutsCopy(k) /\ Block(k)[2] = Operation(k)
    BY <1>7, BlockFacts
  <2>2. CASE n = 1
    <3>1. prog.code[k].kind = "linalg" /\ CopiedOuts(r) /\ w = VBOf(r)
      BY <1>7, <2>1, <2>2, OutsCopyWrites DEF w
    <3> QED
      BY <1>7, <3>1, PlainOperation
  <2>3. CASE n = 2
    <3>1. prog.code[k].kind # "store" /\ w = VBOf(r)
      BY <1>7, <2>1, <2>3, OperationWrites DEF w
    <3> QED
      BY <1>7, <2>3, <3>1, PlainOperation
  <2> QED
    BY <1>1, <1>7, <2>2, <2>3
<1>8. CASE vbs[b].death <= vbs[w].birth
(* Then b dies here, where w begins: only the copy of an outs operand comes *)
(* before the operation that reads b for the last time.                     *)
  <2>1. vbs[b].death = k /\ vbs[w].birth = k
    BY <1>1, <1>2, <1>4, <1>6, <1>8
  <2>2. k # Yield(prog)
    BY <1>2, <2>1, HomedFacts
  <2>3. GivenBy(b) = 2 /\ n + 1 <= GivenBy(b)
    BY <1>1, <1>3, <1>4, <2>1, <2>2, GivenFacts DEF Pending
  <2>4. n = 1
    BY <1>1, <2>3
  <2>5. /\ prog.code[k].kind = "linalg" /\ CopiedOuts(r) /\ w = VBOf(r)
        /\ r \in Values(prog) /\ DefIdx(prog, r) = k /\ ~ IsPhi(r)
    BY <1>7, <2>2, <2>4
  <2>6. PICK o : o \in Outs(DefOp(r)) /\ color[VBOf(o)] # color[VBOf(r)]
    BY <2>5 DEF CopiedOuts
  <2>7. /\ DefOp(r) = prog.code[k] /\ IsLinalg(r)
        /\ \A m \in DOMAIN prog.code[k].ins :
             prog.code[k].ins[m].rel # "other" => prog.code[k].ins[m].val = o
        /\ ~ InLoop(prog, k) => o \notin Results(prog)
    <3>1. IsLinalg(r)
      BY <2>5 DEF CopiedOuts
    <3>2. DefOp(r) = prog.code[k]
      BY <2>5 DEF DefOp
    <3>3. r \in Values(prog) /\ o \in Outs(DefOp(r)) /\ DefIdx(prog, r) = k
      BY <2>5, <2>6
    <3> HIDE DEF r
    <3> QED
      BY <3>1, <3>2, <3>3, OutsFacts
  <2>8. PICK u \in Values(prog) : Home(u) = b /\ k \in Uses(prog, u) /\ (u = o => VBOf(u) = b)
    <3>1. CASE vbs[b].type = "Standard"
      <4>1. PICK u \in Members(vbs[b]) : Death(prog, u) = vbs[b].death
        BY <1>3, <3>1, PlanFacts DEF VBInv
      <4>2. u \in Values(prog) /\ ~ IsPhi(u) /\ VBOf(u) = b
        BY <1>3, <3>1, NoPhis, VBFacts
      <4>3. Home(u) = b
        BY <4>2 DEF Home, IsPhi
      <4>4. Uses(prog, u) # {}
        <5> SUFFICES ASSUME Uses(prog, u) = {} PROVE FALSE
          OBVIOUS
        <5>1. DefIdx(prog, u) = k
          BY <1>1, <2>1, <4>1, <4>2, UseFacts
        <5>2. u = r
          BY <1>1, <2>5, <4>2, <5>1, DefinedOnce
        <5> QED
          BY <2>5, <4>2, <5>2 DEF w
      <4>5. k \in Uses(prog, u)
        BY <1>1, <2>1, <4>1, <4>2, <4>4, UseFacts
      <4> QED
        BY <4>2, <4>3, <4>5
    <3>2. CASE vbs[b].type = "Fused"
      <4>1. PICK i \in DOMAIN prog.phis : b = VBOf(Arg(i)) /\ FusedFor(vbs[b], i, cursor, splits)
        BY <1>3, <3>2, FusedVB
      <4>2. /\ Res(i) \in Values(prog) /\ Res(i) \in Results(prog) /\ DefIdx(prog, Res(i)) = Loop(prog)
            /\ Home(Res(i)) = b
        BY <1>1, <4>1, PhiFacts, PhiOfFacts DEF Res, Home, Arg
      <4>3. Yield(prog) < k
        <5>1. Yield(prog) <= vbs[b].death
          BY <1>3, <3>2, HomedFacts
        <5> QED
          BY <1>1, <1>4, <2>1, <2>2, <5>1
      <4>4. Death(prog, Res(i)) = k
        <5> DEFINE T == {Yield(prog), Death(prog, Res(i))}
        <5>1. T \in SUBSET (0 .. Len(prog.code)) /\ T # {} /\ Len(prog.code) \in Nat
          BY <1>1, <4>2, UseFacts, ProgramFacts
        <5>2. Max(T) \in T
          <6> HIDE DEF T
          <6> QED
            BY <5>1, MaxOf
        <5>3. Max(T) = k
          BY <2>1, <4>1 DEF FusedFor
        <5> QED
          BY <1>1, <4>3, <5>2, <5>3
      <4>5. k \in Uses(prog, Res(i))
        BY <1>1, <4>2, <4>3, <4>4, UseFacts
      <4>6. Res(i) # o
        BY <1>1, <2>7, <4>2, <4>3 DEF InLoop
      <4> QED
        BY <4>2, <4>5, <4>6
    <3>3. vbs[b].type # "Eternal"
      <4>1. vbs[b].type = "Eternal" => vbs[b].death = Yield(prog)
        BY <1>3, HomedFacts
      <4> QED
        BY <2>1, <2>2, <4>1
    <3> QED
      BY <1>3, <3>1, <3>2, <3>3, HomedFacts
  <2>9. PICK m \in DOMAIN prog.code[k].ins : prog.code[k].ins[m].val = u
    BY <2>8 DEF Uses
  <2>10. u # o
    BY <2>5, <2>6, <2>8 DEF w
  <2>11. prog.code[k].ins[m].rel = "other"
    BY <2>7, <2>9, <2>10
  <2>12. Home(prog.code[k].ins[m].val) # VBOf(r) /\ color[Home(prog.code[k].ins[m].val)] = color[VBOf(r)]
    BY <2>5, <2>8, <2>9 DEF w
  <2> QED
    BY <2>5, <2>11, <2>12, ReadApart
<1>9. CASE vbs[w].death <= vbs[b].birth
(* Then b begins here, and what is written after it is of the same VB.      *)
  <2>1. vbs[w].death = k /\ vbs[b].birth = k
    BY <1>1, <1>2, <1>4, <1>6, <1>9
  <2>2. k # Yield(prog)
    BY <1>3, <2>1, HomedFacts
  <2>3. n <= 2
    BY <1>2, <2>1, <2>2, GivenFacts
  <2>4. FirstWrite(b) = 1 /\ n = 2
    BY <1>1, <1>3, <1>4, <2>1, <2>3 DEF Begun
  <2>5. w = VBOf(r) /\ r \in Values(prog) /\ ~ IsPhi(r) /\ DefIdx(prog, r) = k
    BY <1>7, <2>2, <2>3
  <2>6. OutsCopy(k).write = b
    BY <1>3, <2>1, <2>2, <2>4, FirstWritten, BlockFacts
  <2>7. b = VBOf(r)
    <3>1. b # 0
      BY <1>3, PlaceFacts
    <3> QED
      BY <2>2, <2>6, <3>1, OutsCopyWrites
  <2> QED
    BY <2>5, <2>7 DEF w
<1> QED
  BY <1>5, <1>8, <1>9

(* What the k-th operation reads is live while it is copied and read.       *)
LEMMA OperandLive ==
  ASSUME Planned, NEW k \in DOMAIN prog.code, k # Loop(prog), k # Yield(prog),
         NEW o \in DOMAIN prog.code[k].ins
  PROVE  LET v == prog.code[k].ins[o].val
         IN  v \in Values(prog) /\ Root[v] = Home(v) /\ Home(v) \in Live(k, 1) /\ Home(v) \in Live(k, 2)
<1> DEFINE v == prog.code[k].ins[o].val
<1>1. prog \in Programs
  BY PlanFacts
<1>2. v \in Values(prog) /\ k \in Uses(prog, v)
  BY <1>1, OperandFacts
<1> HIDE DEF v
<1>3. Root[v] = Home(v)
  BY <1>2, RootIsHome
<1>4. Home(v) \in Live(k, 1)
  BY <1>2, UseLive
<1>5. Home(v) \in Live(k, 2)
  BY <1>2, UseLive
<1> QED
  BY <1>2, <1>3, <1>4, <1>5 DEF v

(* A read r of an instruction that writes w: the data is there, and what is *)
(* read at other places than the one written is in another buffer.          *)
ReadFits(r, w, k, n) ==
  /\ r.root \in Live(k, n)
  /\ (r.rel = "other" /\ w \notin {0, r.root}) => color[w] # color[r.root]

LEMMA OutsCopyReads ==
  ASSUME Planned, NEW k \in DOMAIN prog.code, k # Loop(prog), k # Yield(prog), NEW r \in OutsCopy(k).reads
  PROVE  ReadFits(r, OutsCopy(k).write, k, 1)
<1> DEFINE op == prog.code[k]
           u == CHOOSE x \in Outs(op) : TRUE
<1>1. op.kind = "linalg" /\ CopiedOuts(op.res) /\ r = [root |-> Root[u], rel |-> "same"]
  BY DEF OutsCopy, Copy, Nothing, Instr
<1>2. DefOp(op.res) = op
  BY <1>1, PlainOperation
<1>3. u \in Outs(op)
  BY <1>1, <1>2 DEF CopiedOuts
<1> HIDE DEF u
<1>4. PICK o \in DOMAIN op.ins : u = op.ins[o].val
  BY <1>3 DEF Outs
<1>5. Root[u] = Home(u) /\ Home(u) \in Live(k, 1)
  BY <1>4, OperandLive
<1> QED
  BY <1>1, <1>5 DEF ReadFits

LEMMA OperationReads ==
  ASSUME Planned, NEW k \in DOMAIN prog.code, k # Loop(prog), k # Yield(prog), NEW r \in Operation(k).reads
  PROVE  ReadFits(r, Operation(k).write, k, 2)
<1> DEFINE op == prog.code[k]
           own == VBOf(op.res)
<1>1. /\ op.kind \in {"load", "store", "linalg"}
      /\ op.kind # "store" => /\ op.res \in Values(prog) /\ ~ IsPhi(op.res)
                              /\ DefIdx(prog, op.res) = k /\ Root[op.res] = own
  BY PlainOperation
<1>2. CASE op.kind = "load"
  BY <1>2 DEF Operation, Instr
<1>3. CASE op.kind = "store"
  <2>1. r \in Reads(k, 0) /\ Operation(k).write = 0
    BY <1>3 DEF Operation, Instr
  <2>2. PICK o \in DOMAIN op.ins : r = [root |-> Root[op.ins[o].val], rel |-> op.ins[o].rel]
    BY <2>1 DEF Reads, ToSet
  <2>3. r.root \in Live(k, 2)
    BY <2>2, OperandLive
  <2> QED
    BY <2>1, <2>3 DEF ReadFits
<1>4. CASE op.kind = "linalg"
  <2>1. Operation(k).write = own
    BY <1>1, <1>4, OperationWrites
  <2>2. ASSUME NEW o \in DOMAIN op.ins, r = [root |-> Root[op.ins[o].val], rel |-> op.ins[o].rel]
        PROVE  ReadFits(r, own, k, 2)
    <3>1. r.root = Home(op.ins[o].val) /\ r.rel = op.ins[o].rel /\ r.root \in Live(k, 2)
      BY <2>2, OperandLive
    <3>2. ASSUME r.rel = "other", own # r.root, color[own] = color[r.root] PROVE FALSE
      BY <1>4, <3>1, <3>2, ReadApart
    <3> QED
      BY <3>1, <3>2 DEF ReadFits
  <2>3. CASE CopiedOuts(op.res)
    <3>1. r \in Reads(k, own)
      BY <1>4, <2>3 DEF Operation, Instr
    <3>2. own \in DOMAIN vbs /\ Homed(own) /\ vbs[own].birth = k /\ FirstWrite(own) = 1 /\ k <= vbs[own].death
      BY <1>1, <1>4, <2>3, BornByResult DEF CopiedOuts
    <3>3. own \in Live(k, 2)
      <4>1. GivenBy(own) = 2 \/ vbs[own].death # k
        BY <3>2, GivenFacts
      <4>2. k \in Int /\ vbs[own].death \in Int
        BY <3>2, PlaceFacts, BlockFacts
      <4> HIDE DEF own
      <4>3. Begun(own, k, 2)
        BY <3>2 DEF Begun
      <4>4. Pending(own, k, 2)
        BY <3>2, <4>1, <4>2 DEF Pending
      <4> QED
        BY <3>2, <4>3, <4>4 DEF Live
    <3>4. PICK o \in DOMAIN op.ins :
            \/ r = [root |-> Root[op.ins[o].val], rel |-> op.ins[o].rel]
            \/ r = [root |-> own, rel |-> "init"]
      BY <3>1 DEF Reads, ToSet
    <3>5. CASE r = [root |-> own, rel |-> "init"]
      BY <3>3, <3>5 DEF ReadFits
    <3> QED
      BY <2>1, <2>2, <3>4, <3>5
  <2>4. CASE ~ CopiedOuts(op.res)
    <3>1. r \in Reads(k, 0)
      BY <1>4, <2>4 DEF Operation, Instr
    <3>2. PICK o \in DOMAIN op.ins : r = [root |-> Root[op.ins[o].val], rel |-> op.ins[o].rel]
      BY <3>1 DEF Reads, ToSet
    <3> QED
      BY <2>1, <2>2, <3>2
  <2> QED
    BY <2>3, <2>4
<1> QED
  BY <1>1, <1>2, <1>3, <1>4

(* Only a filled value is cloned, and a fill reads nothing.                 *)
LEMMA CloneReads ==
  ASSUME Planned, NEW k \in DOMAIN prog.code, NEW i \in DOMAIN prog.phis
  PROVE  Clone(k, i).reads = {}
<1>1. CASE ClonedInit(i) /\ DefIdx(prog, Init0(i)) = k
  <2>1. Init0(i) \in Values(prog) /\ ~ IsPhi(Init0(i)) /\ DefOp(Init0(i)).ins = <<>>
    BY <1>1, InitVB
  <2>2. prog.code[k].ins = <<>>
    BY <1>1, <2>1 DEF DefOp
  <2>3. \A w : Reads(k, w) = {}
    BY <2>2 DEF Reads, ToSet
  <2> QED
    BY <1>1, <2>3 DEF Clone, Instr, Init0
<1>2. CASE ~ (ClonedInit(i) /\ DefIdx(prog, Init0(i)) = k)
  BY <1>2 DEF Clone, Nothing, Instr, Init0
<1> QED
  BY <1>1, <1>2

LEMMA YieldCopyReads ==
  ASSUME Planned, NEW i \in DOMAIN prog.phis, NEW r \in YieldCopy(i, CopiedBack).reads
  PROVE  ReadFits(r, YieldCopy(i, CopiedBack).write, Yield(prog), i)
<1>1. prog \in Programs
  BY PlanFacts
<1>2. r = [root |-> Home(Yielded(i)), rel |-> "same"]
  BY YieldCopyWrites
<1>3. /\ i \in Nat /\ i <= Len(prog.phis) /\ Yield(prog) # Loop(prog)
      /\ Yielded(i) \in Values(prog) /\ Yield(prog) \in Uses(prog, Yielded(i))
  BY <1>1, ProgramFacts, OperandFacts DEF Yielded, YieldOf
<1>4. Home(Yielded(i)) \in Live(Yield(prog), i)
  BY <1>3, UseLive
<1> QED
  BY <1>2, <1>4 DEF ReadFits

(* Whatever an instruction reads is written and not given yet.              *)
LEMMA ReadsLive ==
  ASSUME Planned, NEW k \in DOMAIN prog.code, k # Loop(prog), NEW n \in 1 .. Len(Block(k)),
         NEW r \in Block(k)[n].reads
  PROVE  ReadFits(r, Block(k)[n].write, k, n)
<1> DEFINE P == Len(prog.phis)
<1>1. prog \in Programs /\ P \in Nat /\ DOMAIN prog.phis = 1 .. P
  BY PlanFacts, ProgramFacts
<1>2. CASE k = Yield(prog)
  <2>1. n \in 1 .. 2 * P + 2
    BY <1>2, BlockFacts
  <2>2. CASE n \in 1 .. P
    BY <1>1, <1>2, <2>2, BlockFacts, YieldCopyReads
  <2>3. CASE n = P + 1
    <3>1. Block(k)[n] = Instr("access", {}, 0, Gives(k))
      BY <1>2, <2>3, BlockFacts
    <3> QED
      BY <3>1 DEF Instr
  <2>4. CASE n \in P + 2 .. 2 * P + 1
    <3>1. Block(k)[n] = Nothing
      BY <1>2, <2>4, BlockFacts
    <3> QED
      BY <3>1 DEF Nothing, Instr
  <2>5. CASE n = 2 * P + 2
    <3>1. Block(k)[n] = Instr("yield", {}, 0, Gives(Loop(prog)))
      BY <1>2, <2>5, BlockFacts
    <3> QED
      BY <3>1 DEF Instr
  <2> QED
    BY <1>1, <2>1, <2>2, <2>3, <2>4, <2>5
<1>3. CASE k # Yield(prog)
  <2>1. /\ Len(Block(k)) = IF k < Loop(prog) THEN P + 2 ELSE 2
        /\ Block(k)[1] = OutsCopy(k) /\ Block(k)[2] = Operation(k)
        /\ \A m \in 3 .. P + 2 : k < Loop(prog) => Block(k)[m] = Clone(k, P + 3 - m)
    BY <1>3, BlockFacts
  <2>2. CASE n = 1
    BY <1>3, <2>1, <2>2, OutsCopyReads
  <2>3. CASE n = 2
    BY <1>3, <2>1, <2>3, OperationReads
  <2>4. CASE n > 2
    <3>1. n \in 3 .. P + 2 /\ k < Loop(prog) /\ P + 3 - n \in DOMAIN prog.phis
      BY <1>1, <2>1, <2>4
    <3> QED
      BY <2>1, <3>1, CloneReads
  <2> QED
    BY <2>2, <2>3, <2>4
<1> QED
  BY <1>2, <1>3

(* Every VB has a colour.                                                   *)
LEMMA Coloured ==
  ASSUME Planned, NEW b \in DOMAIN vbs
  PROVE  color[b] \in 0 .. numColors - 1
<1>1. stage = "color" /\ phase = "done"
  BY PlanFacts DEF Planned
<1>2. IInv /\ size = Len(vbs)
  BY <1>1 DEF Planned, AInv, Colored
<1>3. b \in VB
  <2>1. vbs \in Seq(VBs(prog))
    BY DEF Planned, AInv, Division
  <2>2. DOMAIN vbs = 1 .. Len(vbs)
    BY <2>1, LenProperties
  <2> QED
    BY <1>2, <2>2 DEF VB
<1>4. color[b] >= 0 /\ {color[v] : v \in VB} \ {-1} = 0 .. numColors - 1
  BY <1>1, <1>2, <1>3 DEF IInv, DoneOK, SlotsInUse
<1>5. color[b] # -1
  BY <1>4
<1> QED
  BY <1>3, <1>4, <1>5

LEMMA RootCarried ==
  ASSUME prog' = prog, vbs' = vbs, color' = color
  PROVE  Root' = Root
BY DEF Root, IsLinalg, IsPhi, DefOp, Outs, CopiedOuts, ClonedInit, PhiMember, PhiOf, VBOf, BirthNode,
       Members, Values, Nodes, DefIdx, Args, Results, InitOf, InLoop, Loop, Yield

LEMMA LiveCarried ==
  ASSUME prog' = prog, vbs' = vbs, color' = color
  PROVE  \A k, n : Live(k, n)' = Live(k, n)
BY DEF Live, Homed, Begun, Pending, FirstWrite, GivenBy, IsLinalg, IsPhi, DefOp, Outs, CopiedOuts, ClonedInit, VBOf, BirthNode,
       Members, Arg, DefIdx, Args, Results, InitOf, InLoop, Loop, Yield

LEMMA BoundCodeCarried ==
  ASSUME prog' = prog, vbs' = vbs, color' = color, splits' = splits, Root' = Root
  PROVE  BoundCode' = BoundCode
BY DEF BoundCode, Block, OutsCopy, Operation, Clone, YieldCopy, CopiedBack, Moved, Gives, GiveAt, Copy,
       Reads, Nothing, Instr,
       IsLinalg, IsPhi, DefOp, Outs, CopiedOuts, ClonedInit, VBOf, BirthNode,
       Members, DefIdx, Args, Results, InitOf, YieldOf, InLoop, Loop, Yield

LEMMA BlockLength ==
  ASSUME Planned, NEW k \in DOMAIN prog.code
  PROVE  /\ Len(Block(k)) \in Nat /\ 1 <= Len(Block(k))
         /\ k = Loop(prog) => Len(Block(k)) = 1
         /\ k = Yield(prog) => Len(Block(k)) = 2 * Len(prog.phis) + 2
<1>1. Len(prog.phis) \in Nat /\ Loop(prog) # Yield(prog)
  BY BlockFacts
<1>2. CASE k = Loop(prog)
  <2>1. Block(k) = <<Instr("for", {}, 0, Gives(k))>>
    BY <1>2, BlockFacts
  <2>2. Len(Block(k)) = 1
    BY <2>1
  <2> QED
    BY <1>1, <1>2, <2>2
<1>3. CASE k = Yield(prog)
  <2>1. Len(Block(k)) = 2 * Len(prog.phis) + 2
    BY <1>3, BlockFacts
  <2> QED
    BY <1>1, <1>3, <2>1
<1>4. CASE k # Loop(prog) /\ k # Yield(prog)
  <2>1. Len(Block(k)) = IF k < Loop(prog) THEN Len(prog.phis) + 2 ELSE 2
    BY <1>4, BlockFacts
  <2> QED
    BY <1>1, <1>4, <2>1
<1> QED
  BY <1>2, <1>3, <1>4

(* Where the program that is executed stands.                               *)
LEMMA Executing ==
  ASSUME SupportedOnly, AInv, BucketInv, ExecInv, pc # 0
  PROVE  /\ Planned /\ Executes(prog) /\ code = BoundCode
         /\ Len(prog.code) \in Nat /\ DOMAIN prog.code = 1 .. Len(prog.code)
         /\ DOMAIN code = DOMAIN prog.code /\ Len(code) = Len(prog.code)
         /\ pc \in 1 .. Len(prog.code) + 1 /\ held = Live(pc, step)
         /\ DOMAIN holder = 0 .. numColors - 1 /\ \A b \in held : holder[color[b]] = b
         /\ pc = Len(prog.code) + 1 => step = 1
         /\ pc \in DOMAIN code => code[pc] = Block(pc) /\ step \in 1 .. Len(Block(pc))
<1>1. /\ phase = "done" /\ Executes(prog) /\ code = BoundCode /\ pc \in 1 .. Len(prog.code) + 1
      /\ held = Live(pc, step) /\ DOMAIN holder = 0 .. numColors - 1
      /\ \A b \in held : holder[color[b]] = b
      /\ IF pc = Len(prog.code) + 1 THEN step = 1 ELSE step \in 1 .. Len(code[pc])
  BY DEF ExecInv
<1>2. prog \in Programs
  BY DEF AInv
<1>3. Planned
  BY <1>1, <1>2 DEF Planned, SupportedOnly
<1>4. Len(prog.code) \in Nat /\ DOMAIN prog.code = 1 .. Len(prog.code)
  BY <1>2, ProgramFacts
<1>5. DOMAIN code = DOMAIN prog.code /\ \A k \in DOMAIN code : code[k] = Block(k)
  BY <1>1 DEF BoundCode
<1>6. Len(code) = Len(prog.code)
  <2>1. code \in Seq({Block(k) : k \in DOMAIN prog.code})
    BY <1>1, <1>4, <1>5 DEF BoundCode
  <2> QED
    BY <1>4, <1>5, <2>1, LenProperties
<1>7. pc \in DOMAIN code => code[pc] = Block(pc) /\ step \in 1 .. Len(Block(pc))
  BY <1>1, <1>4, <1>5
<1> QED
  BY <1>1, <1>3, <1>4, <1>5, <1>6, <1>7

(* The program is bound, and a step goes to its n-th instruction at k.      *)
LEMMA Arrive ==
  ASSUME Planned, Executes(prog), avars' = avars, code' = BoundCode,
         NEW k \in 1 .. Len(prog.code) + 1, NEW n \in Int, pc' = k, step' = n,
         IF k = Len(prog.code) + 1 THEN n = 1 ELSE n \in 1 .. Len(Block(k)),
         held' = Live(k, n), DOMAIN holder' = 0 .. numColors - 1,
         \A b \in Live(k, n) : holder'[color[b]] = b
  PROVE  ExecInv'
<1>1. /\ prog' = prog /\ vbs' = vbs /\ splits' = splits /\ color' = color
      /\ phase' = phase /\ numColors' = numColors /\ phase = "done"
  BY DEF avars, bucket, coloring, Planned
<1>2. Live(pc, step)' = Live(k, n)
  BY <1>1, LiveCarried
<1>3. BoundCode' = BoundCode
  BY <1>1, RootCarried, BoundCodeCarried
<1>4. pc' # 0 /\ Len(prog.code) \in Nat /\ DOMAIN prog.code = 1 .. Len(prog.code)
  BY PlanFacts, ProgramFacts
<1>5. k # Len(prog.code) + 1 => code'[k] = Block(k)
  BY <1>4 DEF BoundCode
<1> QED
  BY <1>1, <1>2, <1>3, <1>4, <1>5 DEF ExecInv

(* It goes on to the next instruction of the operation, or to the next      *)
(* operation.                                                               *)
LEMMA Goes ==
  ASSUME Planned, Executes(prog), avars' = avars, code' = code, code = BoundCode,
         pc \in DOMAIN prog.code, step \in 1 .. Len(Block(pc)), Advance,
         held' = IF step < Len(Block(pc)) THEN Live(pc, step + 1) ELSE Live(pc + 1, 1),
         DOMAIN holder' = 0 .. numColors - 1, \A b \in held' : holder'[color[b]] = b
  PROVE  ExecInv'
<1>1. /\ Len(prog.code) \in Nat /\ DOMAIN prog.code = 1 .. Len(prog.code)
      /\ Len(Block(pc)) \in Nat
  BY PlanFacts, ProgramFacts, BlockLength
<1>2. code[pc] = Block(pc)
  BY DEF BoundCode
<1>3. CASE step < Len(Block(pc))
  <2>1. pc' = pc /\ step' = step + 1 /\ held' = Live(pc, step + 1)
    BY <1>2, <1>3 DEF Advance, Jump
  <2>2. pc \in 1 .. Len(prog.code) + 1 /\ pc # Len(prog.code) + 1 /\ step + 1 \in 1 .. Len(Block(pc))
    BY <1>1, <1>3
  <2> QED
    BY <2>1, <2>2, Arrive
<1>4. CASE ~ (step < Len(Block(pc)))
  <2>1. pc' = pc + 1 /\ step' = 1 /\ held' = Live(pc + 1, 1)
    BY <1>2, <1>4 DEF Advance, Jump
  <2>2. pc + 1 \in 1 .. Len(prog.code) + 1
    BY <1>1
  <2>3. pc + 1 # Len(prog.code) + 1 => 1 \in 1 .. Len(Block(pc + 1))
    <3>1. pc + 1 # Len(prog.code) + 1 => pc + 1 \in DOMAIN prog.code
      BY <1>1
    <3> QED
      BY <3>1, BlockLength
  <2> QED
    BY <2>1, <2>2, <2>3, Arrive
<1> QED
  BY <1>3, <1>4

(* The analysis is over before the program is bound.                        *)
LEMMA AnalyseFirst ==
  ASSUME AInv, Analyse
  PROVE  phase # "done"
<1>1. phase = "done" => stage = "color"
  BY DEF AInv, Colored
<1> QED
  BY <1>1 DEF Analyse, ANext, Special, PhiFuse, PhiDone, Eternal, Standard, Relay, StartColoring, Color,
              Next, Build, Fatal, ColorNode, Finish

LEMMA BindExec ==
  ASSUME SupportedOnly, AInv, BucketInv, ExecInv, Bind
  PROVE  ExecInv'
<1>1. /\ phase = "done" /\ pc = 0 /\ Executes(prog) /\ code' = BoundCode /\ pc' = 1
      /\ holder' = [c \in 0 .. numColors - 1 |-> 0] /\ avars' = avars
      /\ step' = step /\ held' = held /\ held = {} /\ step = 1
  BY DEF Bind, ExecInv
<1>2. prog \in Programs
  BY DEF AInv
<1>3. Planned
  BY <1>1, <1>2 DEF Planned, SupportedOnly
<1>4. Len(prog.code) \in Nat /\ Loop(prog) \in 1 .. Len(prog.code) /\ DOMAIN prog.code = 1 .. Len(prog.code)
  BY <1>2, ProgramFacts
<1>5. 1 \in 1 .. Len(prog.code) + 1 /\ 1 # Len(prog.code) + 1 /\ 1 \in DOMAIN prog.code
  BY <1>4
<1>6. 1 \in 1 .. Len(Block(1))
  BY <1>3, <1>5, BlockLength
<1>7. Live(1, 1) = {}
  BY <1>3, LiveEnds
<1>8. DOMAIN holder' = 0 .. numColors - 1
  BY <1>1
<1> QED
  BY <1>1, <1>3, <1>5, <1>6, <1>7, <1>8, Arrive

LEMMA PerformExec ==
  ASSUME SupportedOnly, AInv, BucketInv, ExecInv, Perform
  PROVE  ExecInv'
<1> DEFINE w == Current.write
<1>1. /\ pc \in DOMAIN code /\ Current.do = "access"
      /\ holder' = IF w = 0 THEN holder ELSE [holder EXCEPT ![color[w]] = w]
      /\ held' = (held \cup ({w} \ {0})) \ Current.gives
      /\ Advance /\ avars' = avars /\ code' = code
  BY DEF Perform, At
<1>2. pc # 0
  BY <1>1 DEF ExecInv
<1>3. /\ Planned /\ Executes(prog) /\ code = BoundCode /\ DOMAIN code = DOMAIN prog.code
      /\ held = Live(pc, step) /\ DOMAIN holder = 0 .. numColors - 1
      /\ \A b \in held : holder[color[b]] = b
      /\ code[pc] = Block(pc) /\ step \in 1 .. Len(Block(pc))
      /\ Len(prog.code) \in Nat /\ DOMAIN prog.code = 1 .. Len(prog.code)
  BY <1>1, <1>2, Executing
<1>4. Current = Block(pc)[step]
  BY <1>3 DEF Current
<1>5. /\ Len(Block(pc)) \in Nat
      /\ pc = Loop(prog) => Len(Block(pc)) = 1
      /\ pc = Yield(prog) => Len(Block(pc)) = 2 * Len(prog.phis) + 2
  BY <1>1, <1>3, BlockLength
<1>6. pc # Loop(prog)
  <2> SUFFICES ASSUME pc = Loop(prog) PROVE FALSE
    OBVIOUS
  <2>1. Block(pc) = <<Instr("for", {}, 0, Gives(pc))>>
    BY <1>1, <1>3, BlockFacts
  <2>2. step = 1
    BY <1>3, <2>1
  <2>3. Current.do = "for"
    BY <1>4, <2>1, <2>2 DEF Instr
  <2> QED
    BY <1>1, <2>3
<1>7. held' = Live(pc, step + 1)
  BY <1>1, <1>3, <1>4, <1>6, LiveStep
<1>8. held' = IF step < Len(Block(pc)) THEN Live(pc, step + 1) ELSE Live(pc + 1, 1)
  <2>1. CASE step < Len(Block(pc))
    BY <1>7, <2>1
  <2>2. CASE ~ (step < Len(Block(pc)))
    <3>1. step = Len(Block(pc))
      BY <1>3, <1>5, <2>2
    <3>2. pc # Yield(prog)
      BY <1>1, <1>3, <1>4, <1>5, <1>6, <3>1, GivenHere
    <3>3. Live(pc, Len(Block(pc)) + 1) = Live(pc + 1, 1)
      BY <1>1, <1>3, <1>6, <3>2, LiveOn
    <3> QED
      BY <1>7, <2>2, <3>1, <3>3
  <2> QED
    BY <2>1, <2>2
<1> HIDE DEF w
<1>9. w # 0 => w \in DOMAIN vbs /\ color[w] \in 0 .. numColors - 1
  BY <1>1, <1>3, <1>4, <1>6, WritesFit, Coloured DEF w, Fits
<1>10. DOMAIN holder' = 0 .. numColors - 1
  BY <1>1, <1>3
<1>11. ASSUME NEW b \in held'
       PROVE  holder'[color[b]] = b
  <2>1. b \in DOMAIN vbs /\ Pending(b, pc, step + 1) /\ color[b] \in 0 .. numColors - 1
    BY <1>3, <1>7, <1>11, Coloured DEF Live
  <2>2. CASE w = 0
    BY <1>1, <1>3, <1>11, <2>2
  <2>3. CASE w # 0 /\ b = w
    BY <1>1, <1>3, <1>9, <2>3
  <2>4. CASE w # 0 /\ b # w
    <3>1. b \in Live(pc, step) /\ holder[color[b]] = b
      BY <1>1, <1>3, <1>11, <2>4
    <3>2. color[b] # color[w]
      BY <1>1, <1>3, <1>4, <1>6, <2>1, <2>4, <3>1, WriteApart DEF w
    <3> QED
      BY <1>1, <1>3, <2>1, <2>4, <3>1, <3>2
  <2> QED
    BY <2>2, <2>3, <2>4
<1> QED
  BY <1>1, <1>3, <1>8, <1>10, <1>11, Goes

(* The loop begins or is passed over: what is live before it is live in its *)
(* first operation, and what it gives is not live after it.                 *)
LEMMA EnterLoopExec ==
  ASSUME SupportedOnly, AInv, BucketInv, ExecInv, EnterLoop
  PROVE  ExecInv'
<1>1. pc \in DOMAIN code /\ Current.do = "for" /\ holder' = holder /\ avars' = avars /\ code' = code
  BY DEF EnterLoop, At
<1>2. pc # 0
  BY <1>1 DEF ExecInv
<1>3. /\ Planned /\ Executes(prog) /\ code = BoundCode /\ DOMAIN code = DOMAIN prog.code
      /\ held = Live(pc, step) /\ DOMAIN holder = 0 .. numColors - 1
      /\ \A b \in held : holder[color[b]] = b
      /\ code[pc] = Block(pc) /\ step \in 1 .. Len(Block(pc))
      /\ Len(prog.code) \in Nat /\ DOMAIN prog.code = 1 .. Len(prog.code)
  BY <1>1, <1>2, Executing
<1>4. Current = Block(pc)[step]
  BY <1>3 DEF Current
<1>5. pc = Loop(prog)
  BY <1>1, <1>3, <1>4, GivenHere
<1>6. Block(pc) = <<Instr("for", {}, 0, Gives(pc))>>
  BY <1>1, <1>3, <1>5, BlockFacts
<1>7. Len(Block(pc)) = 1 /\ step = 1 /\ Current.gives = Gives(Loop(prog))
  <2>1. Len(Block(pc)) = 1 /\ step = 1
    BY <1>3, <1>6
  <2> QED
    BY <1>4, <1>5, <1>6, <2>1 DEF Instr
<1>8. /\ Yield(prog) \in 1 .. Len(prog.code) /\ Yield(prog) \in Int /\ prog \in Programs
  BY <1>3, PlanFacts, ProgramFacts
<1>9. /\ Live(pc + 1, 1) = held
      /\ Live(Yield(prog) + 1, 1) = held \ Gives(Loop(prog))
  BY <1>3, <1>5, <1>7, LiveLoop
<1>10. CASE Advance /\ held' = held
  <2>1. held' = IF step < Len(Block(pc)) THEN Live(pc, step + 1) ELSE Live(pc + 1, 1)
    BY <1>7, <1>9, <1>10
  <2> QED
    BY <1>1, <1>3, <1>10, <2>1, Goes
<1>11. CASE Jump(Yield(prog) + 1, 1) /\ held' = held \ Current.gives
  <2>1. pc' = Yield(prog) + 1 /\ step' = 1 /\ held' = Live(Yield(prog) + 1, 1) /\ held' \subseteq held
    BY <1>7, <1>9, <1>11 DEF Jump
  <2>2. Yield(prog) + 1 \in 1 .. Len(prog.code) + 1
    BY <1>3, <1>8
  <2>3. Yield(prog) + 1 # Len(prog.code) + 1 => 1 \in 1 .. Len(Block(Yield(prog) + 1))
    <3>1. Yield(prog) + 1 # Len(prog.code) + 1 => Yield(prog) + 1 \in DOMAIN prog.code
      BY <1>3, <1>8
    <3> QED
      BY <1>3, <3>1, BlockLength
  <2> QED
    BY <1>1, <1>3, <2>1, <2>2, <2>3, Arrive
<1> QED
  BY <1>10, <1>11 DEF EnterLoop

(* The next iteration finds what the first one found.                       *)
LEMMA EndIterationExec ==
  ASSUME SupportedOnly, AInv, BucketInv, ExecInv, EndIteration
  PROVE  ExecInv'
<1> DEFINE P == Len(prog.phis)
<1>1. pc \in DOMAIN code /\ Current.do = "yield" /\ holder' = holder /\ avars' = avars /\ code' = code
  BY DEF EndIteration, At
<1>2. pc # 0
  BY <1>1 DEF ExecInv
<1>3. /\ Planned /\ Executes(prog) /\ code = BoundCode /\ DOMAIN code = DOMAIN prog.code
      /\ held = Live(pc, step) /\ DOMAIN holder = 0 .. numColors - 1
      /\ \A b \in held : holder[color[b]] = b
      /\ code[pc] = Block(pc) /\ step \in 1 .. Len(Block(pc))
      /\ Len(prog.code) \in Nat /\ DOMAIN prog.code = 1 .. Len(prog.code)
  BY <1>1, <1>2, Executing
<1>4. Current = Block(pc)[step]
  BY <1>3 DEF Current
<1>5. pc # Loop(prog)
  <2> SUFFICES ASSUME pc = Loop(prog) PROVE FALSE
    OBVIOUS
  <2>1. Block(pc) = <<Instr("for", {}, 0, Gives(pc))>> /\ Len(Block(pc)) = 1
    BY <1>1, <1>3, BlockFacts, BlockLength
  <2>2. step = 1
    BY <1>3, <2>1
  <2>3. Current.do = "for"
    BY <1>4, <2>1, <2>2 DEF Instr
  <2> QED
    BY <1>1, <2>3
<1>6. pc = Yield(prog) /\ step = 2 * P + 2
  BY <1>1, <1>3, <1>4, <1>5, GivenHere
<1>7. Len(Block(pc)) = 2 * P + 2
  BY <1>1, <1>3, <1>6, BlockLength
<1>8. Current.gives = Gives(Loop(prog))
  <2>1. Block(pc)[2 * P + 2] = Instr("yield", {}, 0, Gives(Loop(prog)))
    BY <1>1, <1>3, <1>6, BlockFacts
  <2> QED
    BY <1>4, <1>6, <2>1 DEF Instr
<1>9. /\ prog \in Programs /\ Yield(prog) \in 1 .. Len(prog.code) /\ Loop(prog) \in 1 .. Len(prog.code)
      /\ Loop(prog) < Yield(prog) /\ P \in Nat
  BY <1>3, PlanFacts, ProgramFacts
<1>10. /\ Live(Loop(prog) + 1, 1) = held
       /\ Live(pc + 1, 1) = held \ Gives(Loop(prog))
  BY <1>3, <1>6, LiveLoop
<1>11. CASE Jump(Loop(prog) + 1, 1) /\ held' = held
  <2>1. pc' = Loop(prog) + 1 /\ step' = 1 /\ held' = Live(Loop(prog) + 1, 1)
    BY <1>10, <1>11 DEF Jump
  <2>2. /\ Loop(prog) + 1 \in 1 .. Len(prog.code) + 1 /\ Loop(prog) + 1 # Len(prog.code) + 1
        /\ Loop(prog) + 1 \in DOMAIN prog.code
    BY <1>3, <1>9
  <2>3. 1 \in 1 .. Len(Block(Loop(prog) + 1))
    BY <1>3, <2>2, BlockLength
  <2> QED
    BY <1>1, <1>3, <1>11, <2>1, <2>2, <2>3, Arrive
<1>12. CASE Advance /\ held' = held \ Current.gives
  <2>1. held' = IF step < Len(Block(pc)) THEN Live(pc, step + 1) ELSE Live(pc + 1, 1)
    BY <1>6, <1>7, <1>8, <1>9, <1>10, <1>12
  <2>2. held' \subseteq held
    BY <1>12
  <2> QED
    BY <1>1, <1>3, <1>12, <2>1, <2>2, Goes
<1> QED
  BY <1>11, <1>12 DEF EndIteration

(* What the binding does leaves the plan alone.                            *)
LEMMA PlanKept ==
  ASSUME [BNext]_bvars
  PROVE  [ANext \/ APlanned]_avars
BY DEF BNext, bvars, Analyse, Bind, Perform, EnterLoop, EndIteration, Stop

(* In the analysis of a supported program, whatever is executed of it, an   *)
(* iter_arg's VB is that of its accumulator and nobody else's: the value it *)
(* starts with, the one yielded and the result; a VB of what the loop reads *)
(* from outside holds nothing else, and never a value that starts one; and  *)
(* whatever relay fusion merges stays on its side of the loop's border,     *)
(* every tensor but the first taking the place of one that its operation    *)
(* reads there only.                                                        *)
THEOREM BucketInvariant == BSpec => [](AInv /\ BucketInv)
<1>1. BInit => AInv /\ BucketInv
  BY AInitInv, BucketInit DEF BInit
<1>2. AInv /\ BucketInv /\ [BNext]_bvars => (AInv /\ BucketInv)'
  BY PlanKept, AnalysisStep, BucketStep
<1> QED
  BY <1>1, <1>2, PTL DEF BSpec

LEMMA ExecInit == BInit => ExecInv
BY DEF BInit, ExecInv

(* Every step keeps ExecInv: an instruction writes where nothing live is.   *)
LEMMA ExecStep ==
  ASSUME SupportedOnly, AInv, BucketInv, ExecInv, [BNext]_bvars
  PROVE  ExecInv'
<1>1. ASSUME avars' = avars, xvars' = xvars PROVE ExecInv'
  <2>1. /\ prog' = prog /\ vbs' = vbs /\ splits' = splits /\ color' = color
        /\ phase' = phase /\ numColors' = numColors
        /\ code' = code /\ pc' = pc /\ step' = step /\ holder' = holder /\ held' = held
    BY <1>1 DEF avars, bucket, coloring, xvars
  <2>2. BoundCode' = BoundCode
    BY <2>1, RootCarried, BoundCodeCarried
  <2>3. Live(pc, step)' = Live(pc, step)
    BY <2>1, LiveCarried
  <2> QED
    BY <2>1, <2>2, <2>3 DEF ExecInv
<1>2. CASE Analyse
  <2>1. pc = 0
    BY <1>2, AnalyseFirst DEF ExecInv
  <2> QED
    BY <1>2, <2>1 DEF Analyse, xvars, ExecInv
<1>3. CASE UNCHANGED bvars
  BY <1>1, <1>3 DEF bvars
<1>4. CASE Stop
  BY <1>1, <1>4 DEF Stop, bvars
<1>5. CASE Bind
  BY <1>5, BindExec
<1>6. CASE Perform
  BY <1>6, PerformExec
<1>7. CASE EnterLoop
  BY <1>7, EnterLoopExec
<1>8. CASE EndIteration
  BY <1>8, EndIterationExec
<1> QED
  BY <1>2, <1>3, <1>4, <1>5, <1>6, <1>7, <1>8 DEF BNext

(* While the program bound from a plan is executed, the semaphores that are *)
(* written and not given yet are those of the VBs that are live at this     *)
(* place in the program, and every one's buffer holds its data: through any *)
(* number of iterations of the loop, the copies and the clones that the     *)
(* pass puts in, and the gives it hoists out of the loop.                   *)
THEOREM ExecInvariant ==
  ASSUME SupportedOnly
  PROVE  BSpec => [](AInv /\ BucketInv /\ ExecInv)
<1>1. BInit => ExecInv
  BY ExecInit
<1>2. AInv /\ BucketInv /\ ExecInv /\ [BNext]_bvars => ExecInv'
  BY ExecStep
<1> QED
  BY <1>1, <1>2, BucketInvariant, PTL DEF BSpec

(* An instruction of the program that is executed: what it reads and writes *)
(* is what the plan of its block says.                                      *)
LEMMA AtAccess ==
  ASSUME SupportedOnly, AInv, BucketInv, ExecInv, At("access")
  PROVE  /\ Planned /\ pc \in DOMAIN prog.code /\ pc # Loop(prog)
         /\ step \in 1 .. Len(Block(pc)) /\ Current = Block(pc)[step]
         /\ held = Live(pc, step) /\ \A b \in held : holder[color[b]] = b
<1>1. pc \in DOMAIN code /\ Current.do = "access"
  BY DEF At
<1>2. pc # 0
  BY <1>1 DEF ExecInv
<1>3. /\ Planned /\ DOMAIN code = DOMAIN prog.code
      /\ held = Live(pc, step) /\ \A b \in held : holder[color[b]] = b
      /\ code[pc] = Block(pc) /\ step \in 1 .. Len(Block(pc))
  BY <1>1, <1>2, Executing
<1>4. Current = Block(pc)[step]
  BY <1>3 DEF Current
<1>5. pc # Loop(prog)
  <2> SUFFICES ASSUME pc = Loop(prog) PROVE FALSE
    OBVIOUS
  <2>1. Block(pc) = <<Instr("for", {}, 0, Gives(pc))>>
    BY <1>1, <1>3, BlockFacts
  <2>2. step = 1
    BY <1>3, <2>1
  <2> QED
    BY <1>1, <1>4, <2>1, <2>2 DEF Instr
<1> QED
  BY <1>1, <1>3, <1>4, <1>5

(* Every operation of the bound program, and every copy that the pass puts  *)
(* in, finds its operands' data in their buffers, and overwrites nothing it *)
(* has still to read.                                                       *)
THEOREM OperandsAreIntact ==
  ASSUME SupportedOnly
  PROVE  BSpec => []OperandsIntact
<1>1. AInv /\ BucketInv /\ ExecInv => OperandsIntact
  <2> SUFFICES ASSUME AInv, BucketInv, ExecInv, At("access"), NEW r \in Current.reads
               PROVE  /\ holder[color[r.root]] = r.root
                      /\ (r.rel = "other" /\ Current.write \notin {0, r.root})
                           => color[Current.write] # color[r.root]
    BY DEF OperandsIntact
  <2>1. ReadFits(r, Current.write, pc, step)
    BY AtAccess, ReadsLive
  <2>2. r.root \in held
    BY <2>1, AtAccess DEF ReadFits
  <2> QED
    BY <2>1, <2>2, AtAccess DEF ReadFits
<1> QED
  BY <1>1, ExecInvariant, PTL

(* What is read through a semaphore was written and not given since, and    *)
(* every semaphore is given by the end of the program, however often the    *)
(* loop runs: manageSemaphoreGives leaves none out and gives none early.    *)
THEOREM GivesEndLiveness ==
  ASSUME SupportedOnly
  PROVE  BSpec => []GiveEndsLiveness
<1>1. AInv /\ BucketInv /\ ExecInv => GiveEndsLiveness
  <2> SUFFICES ASSUME AInv, BucketInv, ExecInv
               PROVE  /\ At("access") => \A r \in Current.reads : r.root \in held
                      /\ Ended => held = {}
    BY DEF GiveEndsLiveness
  <2>1. ASSUME At("access"), NEW r \in Current.reads PROVE r.root \in held
    <3>1. ReadFits(r, Current.write, pc, step)
      BY <2>1, AtAccess, ReadsLive
    <3> QED
      BY <2>1, <3>1, AtAccess DEF ReadFits
  <2>2. ASSUME Ended PROVE held = {}
    <3>1. pc # 0 /\ pc = Len(code) + 1
      BY <2>2 DEF Ended
    <3>2. Planned /\ pc = Len(prog.code) + 1 /\ step = 1 /\ held = Live(pc, step)
      BY <3>1, Executing
    <3> QED
      BY <3>2, LiveEnds
  <2> QED
    BY <2>1, <2>2
<1> QED
  BY <1>1, ExecInvariant, PTL

(* The alloc that allocateCircularBuffers puts before the first birth among *)
(* a buffer's VBs, or the loop around it, comes before all that is written  *)
(* to the buffer.                                                           *)
THEOREM AllocsDominate ==
  ASSUME SupportedOnly
  PROVE  BSpec => []AllocDominates
<1>1. AInv /\ BucketInv /\ ExecInv => AllocDominates
  <2> SUFFICES ASSUME AInv, BucketInv, ExecInv, At("access"), Current.write # 0
               PROVE  AllocAt(color[Current.write]) <= pc
    BY DEF AllocDominates
  <2> DEFINE w == Current.write
             births == {vbs[b].birth : b \in {d \in DOMAIN vbs : color[d] = color[w]}}
             first == Min(births)
  <2>1. Planned /\ pc \in DOMAIN prog.code /\ Fits(w, pc, step)
    BY AtAccess, WritesFit
  <2>2. /\ prog \in Programs /\ pc \in Int /\ Loop(prog) \in Int /\ Len(prog.code) \in Nat
        /\ w \in DOMAIN vbs /\ vbs[w].birth <= pc
    BY <2>1, PlanFacts, ProgramFacts DEF Fits
  <2>3. vbs[w].birth \in births
    BY <2>2
  <2>4. births \in SUBSET (0 .. Len(prog.code)) /\ births # {}
    <3>1. \A b \in DOMAIN vbs : vbs[b].birth \in 0 .. Len(prog.code)
      BY <2>1, <2>2, VBFacts
    <3> QED
      BY <2>3, <3>1
  <2>5. AllocAt(color[w]) = IF InLoop(prog, first) THEN Loop(prog) ELSE first
    BY DEF AllocAt
  <2> HIDE DEF births, w
  <2>6. first \in births /\ \A n \in births : first <= n
    BY <2>2, <2>4, MinOf
  <2> HIDE DEF first
  <2>7. first \in Int /\ first <= vbs[w].birth /\ vbs[w].birth \in Int
    <3>1. \A n \in births : n \in Int
      BY <2>4
    <3> QED
      BY <2>3, <2>6, <3>1
  <2>8. AllocAt(color[w]) <= pc
    BY <2>2, <2>5, <2>7 DEF InLoop
  <2> QED
    BY <2>8 DEF w
<1> QED
  BY <1>1, ExecInvariant, PTL

=============================================================================

-------------------------- MODULE TaskGraphProofs --------------------------
(***************************************************************************)
(* Proofs about the task graph: TaskStages, for every function; the        *)
(* dimensions of WorkloadDims, for every operand; and ResourceGroups, for  *)
(* every set of workloads and resources and every order of the queues.     *)
(***************************************************************************)
EXTENDS HWOpRegistry, TaskStages, ResourceGroups, SequenceFacts, TLAPS

(* The stages. The invariant speaks of the stages there are; when each was  *)
(* taken is left in it as the order of the operations.                      *)

Placement(f) ==
  [t : DOMAIN f.ops, uses : SUBSET Nat, region : Nat, stage : Nat, ready : Nat]

StagesTypeOK ==
  /\ fn \in Functions
  /\ ops \in Seq(Placement(fn))
  /\ open \in Seq(Nat)

(* Values are used after they are made, and nothing is ready before what it *)
(* is made from.                                                            *)
UsesEarlier ==
  \A i \in DOMAIN ops : \A u \in ops[i].uses :
    /\ u \in 1 .. i - 1
    /\ ops[u].region = ops[i].region => ops[u].ready <= ops[i].ready

(* A computation passed over nothing but loops of its region that were      *)
(* placed before it.                                                        *)
PassedLoops ==
  \A i \in DOMAIN ops : KindAt(i) = "compute" =>
    \A n \in ops[i].ready .. ops[i].stage - 1 :
      \E j \in 1 .. i - 1 : /\ ops[j].region = ops[i].region
                            /\ KindAt(j) = "for" /\ ops[j].stage = n

(* A loop has its stage for itself. *)
LoopsApart ==
  \A i, j \in DOMAIN ops :
    (/\ i # j /\ ops[i].region = ops[j].region
     /\ KindAt(i) = "for" /\ KindAt(j) \in {"compute", "for"}) => ops[i].stage # ops[j].stage

(* An operation is in no earlier stage than its operands are ready in. *)
PlacedReady ==
  \A i \in DOMAIN ops : \A u \in ops[i].uses :
    ops[u].region = ops[i].region => ops[u].ready <= ops[i].stage

StageInv == StagesTypeOK /\ UsesEarlier /\ PassedLoops /\ LoopsApart /\ PlacedReady

(* What the invariant says of the types, entry by entry. *)
LEMMA StagesTyped ==
  ASSUME StagesTypeOK
  PROVE  /\ Len(ops) \in Nat /\ DOMAIN ops = 1 .. Len(ops)
         /\ \A i \in 1 .. Len(ops) : /\ ops[i].t \in DOMAIN fn.ops
                                     /\ ops[i].uses \in SUBSET Nat
                                     /\ ops[i].region \in Nat
                                     /\ ops[i].stage \in Nat
                                     /\ ops[i].ready \in Nat
<1>1. Len(ops) \in Nat /\ DOMAIN ops = 1 .. Len(ops)
  BY LenProperties DEF StagesTypeOK
<1>2. \A i \in 1 .. Len(ops) : ops[i] \in Placement(fn)
  BY ElementOfSeq DEF StagesTypeOK
<1> QED
  BY <1>1, <1>2 DEF Placement

(* The region is 0 or an open loop. *)
LEMMA RegionTyped ==
  ASSUME StagesTypeOK
  PROVE  Region \in Nat
<1>1. CASE open = <<>>
  BY <1>1 DEF Region
<1>2. CASE open # <<>>
  <2>1. open \in Seq(Nat)
    BY DEF StagesTypeOK
  <2>2. Len(open) \in 1 .. Len(open)
    BY <1>2, <2>1
  <2>3. open[Len(open)] \in Nat
    BY <2>1, <2>2, ElementOfSeq
  <2> QED
    BY <1>2, <2>3 DEF Region, Last
<1> QED
  BY <1>1, <1>2

(* The stages results become ready in are bounded. *)
LEMMA ReadyBounded ==
  ASSUME StagesTypeOK
  PROVE  \E b \in Nat : \A i \in DOMAIN ops : ops[i].ready <= b
<1> DEFINE D == {n \in Nat : \E b \in Nat : \A i \in 1 .. n : i \in DOMAIN ops => ops[i].ready <= b}
<1>1. /\ Len(ops) \in Nat /\ DOMAIN ops = 1 .. Len(ops)
      /\ \A i \in 1 .. Len(ops) : ops[i].ready \in Nat
  BY StagesTyped
<1>2. 0 \in D
  <2>1. \A i \in 1 .. 0 : i \in DOMAIN ops => ops[i].ready <= 0
    OBVIOUS
  <2> QED
    BY <2>1
<1>3. ASSUME NEW n \in 0 .. Len(ops) - 1, n \in D PROVE n + 1 \in D
  <2>1. PICK b \in Nat : \A i \in 1 .. n : i \in DOMAIN ops => ops[i].ready <= b
    BY <1>3
  <2>2. n \in Nat /\ n + 1 \in DOMAIN ops /\ ops[n + 1].ready \in Nat
    BY <1>1
  <2> DEFINE c == b + ops[n + 1].ready
  <2>3. c \in Nat /\ b <= c /\ ops[n + 1].ready <= c
    BY <2>2
  <2>4. ASSUME NEW i \in 1 .. n + 1, i \in DOMAIN ops PROVE ops[i].ready <= c
    <3>1. CASE i = n + 1
      BY <2>3, <3>1
    <3>2. CASE i # n + 1
      <4>1. i \in 1 .. n
        BY <2>2, <3>2
      <4>2. ops[i].ready <= b /\ ops[i].ready \in Nat
        BY <1>1, <2>1, <2>4, <4>1
      <4> HIDE DEF c
      <4> QED
        BY <2>3, <4>2
    <3> QED
      BY <3>1, <3>2
  <2>5. \E d \in Nat : \A i \in 1 .. n + 1 : i \in DOMAIN ops => ops[i].ready <= d
    <3> HIDE DEF c
    <3> QED
      BY <2>3, <2>4
  <2>6. n + 1 \in Nat
    BY <2>2
  <2> HIDE DEF c
  <2> QED
    BY <2>5, <2>6
<1>4. Len(ops) \in D
  <2> HIDE DEF D
  <2>1. \A n \in 0 .. Len(ops) : n \in D
    BY <1>1, <1>2, <1>3, Upwards
  <2> QED
    BY <1>1, <2>1
<1> QED
  BY <1>1, <1>4

(* An operation is placed no earlier than its operands are ready. *)
LEMMA RequiredBounds ==
  ASSUME StagesTypeOK, NEW uses \in SUBSET (DOMAIN ops)
  PROVE  /\ Required(uses) \in Nat
         /\ \A u \in uses : ops[u].region = Region => ops[u].ready <= Required(uses)
<1> DEFINE R == {0} \cup ReadyStages(uses)
<1>1. PICK b \in Nat : \A i \in DOMAIN ops : ops[i].ready <= b
  BY ReadyBounded
<1>2. R \in SUBSET (0 .. b) /\ R # {} /\ \A x \in R : x \in Nat
  <2>1. \A i \in DOMAIN ops : ops[i].ready \in 0 .. b
    BY <1>1, StagesTyped
  <2> QED
    BY <2>1 DEF ReadyStages
<1>3. Max(R) \in R /\ \A x \in R : x <= Max(R)
  <2> HIDE DEF R
  <2> QED
    BY <1>2, MaxOf
<1>4. Required(uses) = Max(R)
  BY DEF Required
<1>5. \A u \in uses : ops[u].region = Region => ops[u].ready \in R
  BY DEF ReadyStages
<1>6. Required(uses) \in R /\ \A x \in R : x <= Required(uses)
  BY <1>3, <1>4
<1> HIDE DEF R
<1>7. Required(uses) \in Nat
  BY <1>2, <1>6
<1> QED
  BY <1>5, <1>6, <1>7

(* There is room: the stages of some operations do not fill an interval     *)
(* with one number more than there are operations.                          *)
LEMMA FreeStage ==
  ASSUME StagesTypeOK, NEW r \in Nat,
         NEW taken \in SUBSET {ops[i].stage : i \in DOMAIN ops}
  PROVE  \E n \in r .. r + Len(ops) : n \notin taken
<1> DEFINE I == r .. r + Len(ops)
           f == [n \in I |-> CHOOSE i \in 1 .. Len(ops) : ops[i].stage = n]
<1>1. SUFFICES ASSUME \A n \in I : n \in taken PROVE FALSE
  OBVIOUS
<1>2. Len(ops) \in Nat /\ DOMAIN ops = 1 .. Len(ops)
  BY StagesTyped
<1>3. \A n \in I : f[n] \in 1 .. Len(ops) /\ ops[f[n]].stage = n
  <2> SUFFICES ASSUME NEW n \in I
               PROVE  f[n] \in 1 .. Len(ops) /\ ops[f[n]].stage = n
    OBVIOUS
  <2>1. \E i \in 1 .. Len(ops) : ops[i].stage = n
    BY <1>1, <1>2
  <2> QED
    BY <2>1
<1>4. f \in [I -> 1 .. Len(ops)]
  BY <1>3
<1>5. IsFiniteSet(I) /\ Cardinality(I) = Len(ops) + 1
  <2>1. r + Len(ops) - r + 1 = Len(ops) + 1 /\ r <= r + Len(ops)
        /\ r \in Int /\ r + Len(ops) \in Int
    BY <1>2
  <2>2. /\ IsFiniteSet(r .. r + Len(ops))
        /\ Cardinality(r .. r + Len(ops)) = IF r > r + Len(ops) THEN 0 ELSE r + Len(ops) - r + 1
    BY <2>1, FS_Interval
  <2> QED
    BY <1>2, <2>1, <2>2
<1>6. IsFiniteSet(1 .. Len(ops)) /\ Cardinality(1 .. Len(ops)) = Len(ops)
  BY <1>2, FS_Interval
<1>7. Cardinality(1 .. Len(ops)) < Cardinality(I)
  BY <1>2, <1>5, <1>6
<1>8. \E x, y \in I : x # y /\ f[x] = f[y]
  <2> HIDE DEF f, I
  <2> QED
    BY <1>4, <1>5, <1>6, <1>7, FS_PigeonHole
<1> HIDE DEF f
<1> QED
  BY <1>3, <1>8

(* Where an operation is placed: the first stage it may share from the one  *)
(* it requires on.                                                          *)
LEMMA StageForFacts ==
  ASSUME StagesTypeOK, NEW kind, NEW r \in Nat
  PROVE  LET n == StageFor(kind, r)
         IN  /\ n \in Nat /\ r <= n
             /\ kind \in {"compute", "for"} => n \notin LoopStages
             /\ kind = "for" => n \notin WorkStages
             /\ kind = "compute" => \A m \in r .. n - 1 : m \in LoopStages
<1> DEFINE taken == CASE kind = "compute" -> LoopStages
                      [] kind = "for" -> LoopStages \cup WorkStages
                      [] OTHER -> {}
           free == {n \in r .. r + Len(ops) : n \notin taken}
<1>1. /\ kind = "compute" => taken = LoopStages
      /\ kind = "for" => taken = LoopStages \cup WorkStages
      /\ kind \notin {"compute", "for"} => taken = {}
  OBVIOUS
<1>2. taken \in SUBSET {ops[i].stage : i \in DOMAIN ops}
  <2>1. LoopStages \in SUBSET {ops[i].stage : i \in DOMAIN ops}
    BY DEF LoopStages
  <2>2. WorkStages \in SUBSET {ops[i].stage : i \in DOMAIN ops}
    BY DEF WorkStages
  <2> HIDE DEF taken
  <2> QED
    BY <1>1, <2>1, <2>2
<1>3. StageFor(kind, r) = Min(free)
  BY DEF StageFor
<1> HIDE DEF taken
<1>4. Len(ops) \in Nat
  BY StagesTyped
<1>5. free \in SUBSET Nat /\ free # {}
  <2>1. \E m \in r .. r + Len(ops) : m \notin taken
    BY <1>2, FreeStage
  <2> QED
    BY <1>4, <2>1
<1> DEFINE n == Min(free)
<1>6. n \in free /\ \A x \in free : n <= x
  <2> HIDE DEF free
  <2> QED
    BY <1>5, MinOf
<1>7. n \in r .. r + Len(ops) /\ n \notin taken
  BY <1>6
<1>8. ASSUME NEW m \in r .. n - 1 PROVE m \in taken
  <2>1. n \in Nat /\ m \in r .. r + Len(ops) /\ ~ (n <= m)
    <3> HIDE DEF n
    <3> QED
      BY <1>4, <1>7, <1>8
  <2>2. m \notin free
    <3> HIDE DEF n, free
    <3> QED
      BY <1>6, <2>1
  <2> QED
    BY <2>1, <2>2
<1> HIDE DEF n
<1>9. n \in Nat /\ r <= n
  BY <1>4, <1>7
<1>10. StageFor(kind, r) = n
  BY <1>3 DEF n
<1> QED
  BY <1>1, <1>7, <1>8, <1>9, <1>10

(* Along the operands results never become ready earlier. *)
LEMMA SourcesReady ==
  ASSUME StagesTypeOK, UsesEarlier, NEW i \in DOMAIN ops, NEW s \in Sources(i)
  PROVE  /\ s \in 1 .. i - 1 /\ ops[s].region = ops[i].region
         /\ KindAt(s) = "for" => ~ Displaced(s)
         /\ \E u \in ops[i].uses : /\ ops[u].region = ops[i].region
                                   /\ ops[s].ready <= ops[u].ready
<1> DEFINE X == {v \in 1 .. i - 1 :
                   /\ ops[v].region = ops[i].region
                   /\ KindAt(v) = "for" => ~ Displaced(v)
                   /\ \E u \in ops[i].uses : /\ ops[u].region = ops[i].region
                                             /\ ops[v].ready <= ops[u].ready}
<1>1. /\ Len(ops) \in Nat /\ DOMAIN ops = 1 .. Len(ops)
      /\ \A j \in 1 .. Len(ops) : ops[j].ready \in Nat
  BY StagesTyped
<1>2. \A v \in DOMAIN ops : \A u \in ops[v].uses : u \in 1 .. v - 1 /\ u \in DOMAIN ops
  BY <1>1 DEF UsesEarlier
<1>3. Near(i) \subseteq X
  BY <1>1, <1>2 DEF Near
<1>4. ASSUME NEW v \in X, NEW w \in Near(v) PROVE w \in X
  <2>1. PICK u \in ops[i].uses : /\ ops[u].region = ops[i].region
                                 /\ ops[v].ready <= ops[u].ready
    BY <1>4
  <2>2. v \in DOMAIN ops /\ v \in 1 .. i - 1
    BY <1>1, <1>4
  <2>3. /\ w \in DOMAIN ops /\ u \in DOMAIN ops /\ w \in 1 .. v - 1
        /\ ops[w].region = ops[v].region
        /\ KindAt(w) = "for" => ~ Displaced(w)
    BY <1>2, <1>4, <2>1, <2>2 DEF Near
  <2>4. ops[w].ready <= ops[v].ready
    BY <1>4, <2>2, <2>3 DEF UsesEarlier, Near
  <2>5. ops[w].ready <= ops[u].ready
    BY <1>1, <2>1, <2>2, <2>3, <2>4
  <2>6. ops[w].region = ops[i].region /\ w \in 1 .. i - 1
    BY <1>1, <1>4, <2>2, <2>3
  <2> QED
    BY <2>1, <2>3, <2>5, <2>6
<1>5. X \in SUBSET DOMAIN ops /\ ClosedFor(i, X)
  <2>1. X \in SUBSET DOMAIN ops
    BY <1>1
  <2> HIDE DEF X
  <2> QED
    BY <2>1, <1>3, <1>4 DEF ClosedFor
<1>6. s \in X
  <2> HIDE DEF X
  <2> QED
    BY <1>5 DEF Sources
<1> QED
  BY <1>6

(* The invariant makes the stages a schedule. *)
LEMMA InvOrdersStages ==
  ASSUME StageInv
  PROVE  StagesOrdered
<1>1. /\ Len(ops) \in Nat /\ DOMAIN ops = 1 .. Len(ops)
      /\ \A j \in 1 .. Len(ops) : ops[j].ready \in Nat /\ ops[j].stage \in Nat
  BY StagesTyped DEF StageInv
<1>2. SUFFICES ASSUME NEW i \in DOMAIN ops, KindAt(i) \in {"compute", "for"},
                      NEW s \in Sources(i), KindAt(s) \in {"compute", "for"}
               PROVE  /\ ops[s].stage <= ops[i].stage
                      /\ "for" \in {KindAt(s), KindAt(i)} => ops[s].stage < ops[i].stage
  BY DEF StagesOrdered
<1>3. /\ s \in 1 .. i - 1 /\ ops[s].region = ops[i].region
      /\ KindAt(s) = "for" => ~ Displaced(s)
  BY SourcesReady DEF StageInv
<1>4. PICK u \in ops[i].uses : /\ ops[u].region = ops[i].region
                               /\ ops[s].ready <= ops[u].ready
  BY SourcesReady DEF StageInv
<1>5. s \in DOMAIN ops /\ s # i /\ u \in DOMAIN ops
  BY <1>1, <1>3, <1>4 DEF StageInv, UsesEarlier
<1>6. ops[u].ready <= ops[i].stage
  BY <1>4 DEF StageInv, PlacedReady
<1>7. ops[s].ready <= ops[i].stage
  BY <1>1, <1>4, <1>5, <1>6
<1>8. CASE KindAt(s) = "for"
  <2>1. ops[s].stage = ops[s].ready - 1
    BY <1>3, <1>8 DEF Displaced
  <2> QED
    BY <1>1, <1>5, <1>7, <2>1
<1>9. CASE KindAt(s) = "compute"
  <2>1. ops[s].stage <= ops[i].stage
    <3>1. SUFFICES ASSUME ops[i].stage < ops[s].stage PROVE FALSE
      BY <1>1, <1>5
    <3>2. ops[i].stage \in ops[s].ready .. ops[s].stage - 1
      BY <1>1, <1>5, <1>7, <3>1
    <3>3. PICK j \in 1 .. s - 1 : /\ ops[j].region = ops[s].region
                                  /\ KindAt(j) = "for" /\ ops[j].stage = ops[i].stage
      BY <1>5, <1>9, <3>2 DEF StageInv, PassedLoops
    <3>4. j \in DOMAIN ops /\ j # i
      BY <1>1, <1>3, <1>5
    <3> QED
      BY <1>2, <1>3, <3>3, <3>4 DEF StageInv, LoopsApart
  <2>2. KindAt(i) = "for" => ops[s].stage # ops[i].stage
    BY <1>3, <1>5, <1>9 DEF StageInv, LoopsApart
  <2> QED
    BY <1>1, <1>5, <1>9, <2>1, <2>2
<1> QED
  BY <1>2, <1>8, <1>9

(* What placing an operation appends. *)
LEMMA PlacedOne ==
  ASSUME StageInv, PlaceOp
  PROVE  \E t \in DOMAIN fn.ops : \E uses \in SUBSET DOMAIN ops :
           LET e == [t |-> t, uses |-> uses, region |-> Region,
                     stage |-> StageFor(fn.ops[t].kind, Required(uses)),
                     ready |-> ReadyAfter(fn.ops[t].kind, Required(uses))]
           IN /\ e \in Placement(fn)
              /\ ops' = Append(ops, e) /\ fn' = fn
              /\ open' \in Seq(Nat)
<1>1. PICK t \in DOMAIN fn.ops :
        \E uses \in {s \in SUBSET {i \in DOMAIN ops : InScope(i) /\ HasResult(i)} :
                       Cardinality(s) <= fn.ops[t].uses} :
          /\ ops' = Append(ops, [t |-> t, uses |-> uses, region |-> Region,
                                 stage |-> StageFor(fn.ops[t].kind, Required(uses)),
                                 ready |-> ReadyAfter(fn.ops[t].kind, Required(uses))])
          /\ open' = IF fn.ops[t].kind = "for" THEN Append(open, Len(ops) + 1) ELSE open
  BY DEF PlaceOp
<1>2. PICK uses \in SUBSET DOMAIN ops :
          /\ ops' = Append(ops, [t |-> t, uses |-> uses, region |-> Region,
                                 stage |-> StageFor(fn.ops[t].kind, Required(uses)),
                                 ready |-> ReadyAfter(fn.ops[t].kind, Required(uses))])
          /\ open' = IF fn.ops[t].kind = "for" THEN Append(open, Len(ops) + 1) ELSE open
  BY <1>1
<1>3. StagesTypeOK
  BY DEF StageInv
<1>4. Len(ops) \in Nat /\ DOMAIN ops = 1 .. Len(ops) /\ open \in Seq(Nat)
  BY <1>3, StagesTyped DEF StagesTypeOK
<1>5. open' \in Seq(Nat)
  <2>1. Append(open, Len(ops) + 1) \in Seq(Nat)
    BY <1>4, AppendProperties
  <2> QED
    BY <1>2, <1>4, <2>1
<1>6. Required(uses) \in Nat
  BY <1>3, RequiredBounds
<1>7. StageFor(fn.ops[t].kind, Required(uses)) \in Nat
  BY <1>3, <1>6, StageForFacts
<1>8. ReadyAfter(fn.ops[t].kind, Required(uses)) \in Nat
  BY <1>6 DEF ReadyAfter
<1>9. Region \in Nat /\ uses \in SUBSET Nat
  BY <1>3, <1>4, RegionTyped
<1>10. [t |-> t, uses |-> uses, region |-> Region,
        stage |-> StageFor(fn.ops[t].kind, Required(uses)),
        ready |-> ReadyAfter(fn.ops[t].kind, Required(uses))] \in Placement(fn)
  BY <1>7, <1>8, <1>9 DEF Placement
<1>11. fn' = fn
  BY DEF PlaceOp
<1> QED
  BY <1>2, <1>5, <1>10, <1>11

(* Placing one more operation keeps the invariant: the new one is last.     *)
LEMMA PlaceOpKeeps ==
  ASSUME StageInv, PlaceOp
  PROVE  StageInv'
<1>1. PICK t \in DOMAIN fn.ops, uses \in SUBSET DOMAIN ops :
        LET e == [t |-> t, uses |-> uses, region |-> Region,
                  stage |-> StageFor(fn.ops[t].kind, Required(uses)),
                  ready |-> ReadyAfter(fn.ops[t].kind, Required(uses))]
        IN /\ e \in Placement(fn)
           /\ ops' = Append(ops, e) /\ fn' = fn
           /\ open' \in Seq(Nat)
  BY PlacedOne
<1> DEFINE kind == fn.ops[t].kind
           N == Len(ops) + 1
           stage == StageFor(kind, Required(uses))
           ready == ReadyAfter(kind, Required(uses))
           e == [t |-> t, uses |-> uses, region |-> Region, stage |-> stage, ready |-> ready]
<1>2. /\ StagesTypeOK /\ UsesEarlier /\ PassedLoops /\ LoopsApart /\ PlacedReady
  BY DEF StageInv
<1>3. /\ Len(ops) \in Nat /\ DOMAIN ops = 1 .. Len(ops)
      /\ \A i \in 1 .. Len(ops) : ops[i].ready \in Nat /\ ops[i].stage \in Nat
  BY <1>2, StagesTyped
<1>4. e \in Placement(fn) /\ ops' = Append(ops, e) /\ fn' = fn
  BY <1>1
<1>5. /\ ops' \in Seq(Placement(fn)) /\ Len(ops') = N
      /\ \A i \in 1 .. Len(ops) : ops'[i] = ops[i]
      /\ ops'[N] = e
  <2>1. ops \in Seq(Placement(fn))
    BY <1>2 DEF StagesTypeOK
  <2> HIDE DEF e
  <2> QED
    BY <1>4, <2>1, AppendProperties
<1>6. DOMAIN ops' = 1 .. N
  BY <1>5, LenProperties
<1>7. \A i \in DOMAIN ops : KindAt(i)' = KindAt(i)
  BY <1>3, <1>4, <1>5 DEF KindAt
<1>8. fn'.ops[ops'[N].t].kind = kind
  BY <1>4, <1>5
<1>9. /\ ops'[N].uses = uses /\ ops'[N].region = Region
      /\ ops'[N].stage = stage /\ ops'[N].ready = ready
  BY <1>5
<1>10. /\ Required(uses) \in Nat
       /\ \A u \in uses : ops[u].region = Region => ops[u].ready <= Required(uses)
  BY <1>2, RequiredBounds
<1>11. /\ stage \in Nat /\ Required(uses) <= stage
       /\ kind \in {"compute", "for"} => stage \notin LoopStages
       /\ kind = "for" => stage \notin WorkStages
       /\ kind = "compute" => \A m \in Required(uses) .. stage - 1 : m \in LoopStages
  BY <1>2, <1>10, StageForFacts
<1>12. /\ ready \in Nat /\ Required(uses) <= ready
       /\ kind = "compute" => ready = Required(uses)
  BY <1>10 DEF ReadyAfter
<1>13. \A i \in 1 .. N : i = N \/ i \in DOMAIN ops
  BY <1>3
<1>14. N \notin DOMAIN ops /\ N \in 1 .. N
  BY <1>3
<1> HIDE DEF e, stage, ready, kind
<1>15. StagesTypeOK'
  <2>1. Placement(fn)' = Placement(fn)
    BY <1>4 DEF Placement
  <2>2. ops' \in Seq(Placement(fn)')
    BY <1>5, <2>1
  <2>3. fn' \in Functions /\ open' \in Seq(Nat)
    BY <1>1, <1>2 DEF StagesTypeOK
  <2> QED
    BY <2>2, <2>3 DEF StagesTypeOK
<1>16. UsesEarlier'
  <2>1. SUFFICES ASSUME NEW i \in 1 .. N, NEW u \in ops'[i].uses
                 PROVE  /\ u \in 1 .. i - 1
                        /\ ops'[u].region = ops'[i].region => ops'[u].ready <= ops'[i].ready
    BY <1>6 DEF UsesEarlier
  <2>2. CASE i = N
    <3>1. u \in DOMAIN ops /\ u \in 1 .. N - 1 /\ ops'[u] = ops[u]
      BY <1>3, <1>5, <1>9, <2>1, <2>2
    <3>2. ops[u].region = Region => ops[u].ready <= ready
      <4>1. ops[u].ready \in Nat
        BY <1>3, <3>1
      <4> QED
        BY <1>9, <1>10, <1>12, <2>1, <2>2, <4>1
    <3> QED
      BY <1>9, <2>2, <3>1, <3>2
  <2>3. CASE i \in DOMAIN ops
    <3>1. ops'[i] = ops[i]
      BY <1>3, <1>5, <2>3
    <3>2. u \in 1 .. i - 1
      BY <1>2, <2>1, <2>3, <3>1 DEF UsesEarlier
    <3>3. u \in DOMAIN ops /\ ops'[u] = ops[u]
      BY <1>3, <1>5, <2>3, <3>2
    <3> QED
      BY <1>2, <2>1, <2>3, <3>1, <3>2, <3>3 DEF UsesEarlier
  <2> QED
    BY <1>13, <2>2, <2>3
<1>17. PassedLoops'
  <2>1. SUFFICES ASSUME NEW i \in 1 .. N, KindAt(i)' = "compute",
                        NEW n \in ops'[i].ready .. ops'[i].stage - 1
                 PROVE  \E j \in 1 .. i - 1 : /\ ops'[j].region = ops'[i].region
                                              /\ KindAt(j)' = "for" /\ ops'[j].stage = n
    BY <1>6 DEF PassedLoops
  <2>2. CASE i = N
    <3>1. n \in LoopStages
      BY <1>8, <1>9, <1>11, <1>12, <2>1, <2>2 DEF KindAt
    <3>2. PICK j \in DOMAIN ops : ops[j].region = Region /\ KindAt(j) = "for" /\ ops[j].stage = n
      BY <3>1 DEF LoopStages
    <3>3. j \in 1 .. N - 1 /\ ops'[j] = ops[j] /\ KindAt(j)' = "for"
      BY <1>3, <1>5, <1>7, <3>2
    <3> QED
      BY <1>9, <2>2, <3>2, <3>3
  <2>3. CASE i \in DOMAIN ops
    <3>1. ops'[i] = ops[i] /\ KindAt(i) = "compute"
      BY <1>3, <1>5, <1>7, <2>1, <2>3
    <3>2. n \in ops[i].ready .. ops[i].stage - 1
      BY <2>1, <3>1
    <3>3. PICK j \in 1 .. i - 1 : /\ ops[j].region = ops[i].region
                                  /\ KindAt(j) = "for" /\ ops[j].stage = n
      BY <1>2, <2>3, <3>1, <3>2 DEF PassedLoops
    <3>4. j \in DOMAIN ops /\ ops'[j] = ops[j] /\ KindAt(j)' = "for"
      BY <1>3, <1>5, <1>7, <2>3, <3>3
    <3> QED
      BY <3>1, <3>3, <3>4
  <2> QED
    BY <1>13, <2>2, <2>3
<1>18. LoopsApart'
  <2>1. ASSUME NEW i \in DOMAIN ops, ops[i].region = Region, kind \in {"compute", "for"},
               KindAt(i) \in {"compute", "for"}, kind = "for" \/ KindAt(i) = "for"
        PROVE  ops[i].stage # stage
    <3>1. CASE KindAt(i) = "for"
      <4>1. ops[i].stage \in LoopStages
        BY <2>1, <3>1 DEF LoopStages
      <4> QED
        BY <1>11, <2>1, <4>1
    <3>2. CASE KindAt(i) = "compute"
      <4>1. ops[i].stage \in WorkStages /\ kind = "for"
        BY <2>1, <3>2 DEF WorkStages
      <4> QED
        BY <1>11, <4>1
    <3> QED
      BY <2>1, <3>1, <3>2
  <2>2. SUFFICES ASSUME NEW i \in 1 .. N, NEW j \in 1 .. N, i # j,
                        ops'[i].region = ops'[j].region,
                        KindAt(i)' = "for", KindAt(j)' \in {"compute", "for"}
                 PROVE  ops'[i].stage # ops'[j].stage
    BY <1>6 DEF LoopsApart
  <2>3. CASE i = N
    <3>1. j \in DOMAIN ops /\ ops'[j] = ops[j] /\ KindAt(j) = KindAt(j)'
      BY <1>3, <1>5, <1>7, <1>13, <2>2, <2>3
    <3> QED
      BY <1>8, <1>9, <2>1, <2>2, <2>3, <3>1 DEF KindAt
  <2>4. CASE j = N
    <3>1. i \in DOMAIN ops /\ ops'[i] = ops[i] /\ KindAt(i) = KindAt(i)'
      BY <1>3, <1>5, <1>7, <1>13, <2>2, <2>4
    <3> QED
      BY <1>8, <1>9, <2>1, <2>2, <2>4, <3>1 DEF KindAt
  <2>5. CASE i \in DOMAIN ops /\ j \in DOMAIN ops
    <3>1. ops'[i] = ops[i] /\ ops'[j] = ops[j]
          /\ KindAt(i) = KindAt(i)' /\ KindAt(j) = KindAt(j)'
      BY <1>3, <1>5, <1>7, <2>5
    <3> QED
      BY <1>2, <2>2, <2>5, <3>1 DEF LoopsApart
  <2> QED
    BY <1>13, <2>3, <2>4, <2>5
<1>19. PlacedReady'
  <2>1. SUFFICES ASSUME NEW i \in 1 .. N, NEW u \in ops'[i].uses, ops'[u].region = ops'[i].region
                 PROVE  ops'[u].ready <= ops'[i].stage
    BY <1>6 DEF PlacedReady
  <2>2. CASE i = N
    <3>1. u \in DOMAIN ops /\ ops'[u] = ops[u] /\ u \in uses /\ ops[u].region = Region
      BY <1>3, <1>5, <1>9, <2>1, <2>2
    <3>2. ops[u].ready <= Required(uses) /\ ops[u].ready \in Nat
      BY <1>3, <1>10, <3>1
    <3>3. ops[u].ready <= stage
      BY <1>10, <1>11, <3>2
    <3> QED
      BY <1>9, <2>2, <3>1, <3>3
  <2>3. CASE i \in DOMAIN ops
    <3>1. ops'[i] = ops[i]
      BY <1>3, <1>5, <2>3
    <3>2. u \in 1 .. i - 1
      BY <1>2, <2>1, <2>3, <3>1 DEF UsesEarlier
    <3>3. u \in DOMAIN ops /\ ops'[u] = ops[u]
      BY <1>3, <1>5, <2>3, <3>2
    <3> QED
      BY <1>2, <2>1, <2>3, <3>1, <3>3 DEF PlacedReady
  <2> QED
    BY <1>13, <2>2, <2>3
<1> QED
  BY <1>15, <1>16, <1>17, <1>18, <1>19 DEF StageInv

(* The invariant holds throughout the walk. *)
LEMMA StageInvariant == StageSpec => []StageInv
<1>1. StageInit => StageInv
  <2> SUFFICES ASSUME StageInit PROVE StageInv
    OBVIOUS
  <2>1. ops = <<>> /\ open = <<>> /\ fn \in Functions /\ DOMAIN ops = {}
    BY DEF StageInit
  <2> QED
    BY <2>1 DEF StageInv, StagesTypeOK, UsesEarlier, PassedLoops, LoopsApart, PlacedReady
<1>2. StageInv /\ [PlaceOp \/ EndLoop]_stageVars => StageInv'
  <2> SUFFICES ASSUME StageInv, [PlaceOp \/ EndLoop]_stageVars PROVE StageInv'
    OBVIOUS
  <2>1. CASE PlaceOp
    BY <2>1, PlaceOpKeeps
  <2>2. ASSUME ops' = ops, fn' = fn, open' \in Seq(Nat) PROVE StageInv'
    BY <2>2 DEF StageInv, StagesTypeOK, UsesEarlier, PassedLoops, LoopsApart, PlacedReady, KindAt
  <2>3. CASE EndLoop
    <3>1. open \in Seq(Nat) /\ open # <<>>
      BY <2>3 DEF StageInv, StagesTypeOK, EndLoop
    <3>2. Front(open) \in Seq(Nat)
      <4>1. Len(open) - 1 \in Nat /\ Len(open) - 1 <= Len(open)
        BY <3>1
      <4> QED
        BY <3>1, <4>1 DEF Front
    <3> QED
      BY <2>2, <2>3, <3>2 DEF EndLoop
  <2>4. CASE UNCHANGED stageVars
    BY <2>2, <2>4 DEF stageVars, StageInv, StagesTypeOK
  <2> QED
    BY <2>1, <2>3, <2>4
<1> QED
  BY <1>1, <1>2, PTL DEF StageSpec

(* The stages are a schedule, whatever the function: of any number of       *)
(* operations and nested loops, with any operands.                          *)
THEOREM StagesAlwaysOrdered == StageSpec => []StagesOrdered
  BY InvOrdersStages, StageInvariant, PTL

-----------------------------------------------------------------------------
(* The assertion about the strides of a transfer's source. *)

Positive == Nat \ {0}

(* The sources are stored row by row: the inner stride is 1. *)
RowMajor ==
  \A f \in Functions : \A t \in DOMAIN f.ops : f.ops[t].kind \in Movers =>
    /\ f.ops[t].view.strides \in Positive \X {1}
    /\ f.ops[t].view.area \in Positive \X Positive

(* Unit strides point at most 45 degrees away from any area. *)
LEMMA UnitStridesAligned ==
  ASSUME NEW area \in Positive \X Positive
  PROVE  ~ Penalized(<<1, 1>>, area)
<1> DEFINE a == area[1]
           b == area[2]
<1>1. a \in Nat /\ b \in Nat /\ a >= 1 /\ b >= 1
  BY DEF Positive
<1>2. /\ Dot(<<1, 1>>, area) = a + b
      /\ Dot(<<1, 1>>, <<1, 1>>) = 2
      /\ Dot(area, area) = a * a + b * b
  BY <1>1 DEF Dot
<1> HIDE DEF a, b
<1>3. a * a >= 1 /\ b * b >= 1 /\ a * b >= 1 /\ a * a \in Nat /\ b * b \in Nat /\ a * b \in Nat
  BY <1>1
<1>4. (a + b) * (a + b) = a * a + b * b + 2 * (a * b)
  BY <1>1
<1>5. ~ (100 * ((a + b) * (a + b)) <= 49 * 2 * (a * a + b * b))
  BY <1>3, <1>4
<1> QED
  BY <1>2, <1>5 DEF Penalized, Square

(* extractUniqueNonUnitStride's assertion never fails for sources that are  *)
(* stored row by row, whatever their width and the area of the broadcast:   *)
(* the test on the angle before it lets no source of unit strides through.  *)
THEOREM StridedAxisIsUnique == StageSpec => [](RowMajor => OneStridedAxis)
<1>1. StageInv => (RowMajor => OneStridedAxis)
  <2> SUFFICES ASSUME StageInv, RowMajor,
                      NEW i \in DOMAIN ops, KindAt(i) \in Movers,
                      Penalized(fn.ops[ops[i].t].view.strides, fn.ops[ops[i].t].view.area)
               PROVE  Cardinality(NonUnit(fn.ops[ops[i].t].view.strides)) = 1
    BY DEF OneStridedAxis
  <2> DEFINE strides == fn.ops[ops[i].t].view.strides
             area == fn.ops[ops[i].t].view.area
  <2>1. fn \in Functions /\ ops[i].t \in DOMAIN fn.ops
    BY StagesTyped DEF StageInv, StagesTypeOK
  <2>2. strides \in Positive \X {1} /\ area \in Positive \X Positive
    BY <2>1 DEF RowMajor, KindAt
  <2> HIDE DEF strides, area
  <2>3. strides[2] = 1 /\ strides = <<strides[1], strides[2]>>
    BY <2>2
  <2>4. strides[1] # 1
    <3>1. strides[1] = 1 => strides = <<1, 1>>
      BY <2>3
    <3>2. Penalized(strides, area)
      BY DEF strides, area
    <3> QED
      BY <2>2, <3>1, <3>2, UnitStridesAligned
  <2>5. NonUnit(strides) = {1}
    BY <2>3, <2>4 DEF NonUnit
  <2>6. Cardinality(NonUnit(strides)) = 1
    BY <2>5, FS_Singleton
  <2> QED
    BY <2>6 DEF strides
<1> QED
  BY <1>1, StageInvariant, PTL

-----------------------------------------------------------------------------
(* What workloads are measured by. *)

(* A product is the last of the products of the prefixes. *)
LEMMA ProductIsLast ==
  ASSUME NEW s \in Seq(Nat)
  PROVE  /\ Product(s) \in Nat
         /\ \E r : Products(r, s, Len(s)) /\ Product(s) = r[Len(s)]
<1>1. Len(s) \in Nat /\ s \in [1 .. Len(s) -> Nat]
  OBVIOUS
<1>2. PICK r : Products(r, s, Len(s)) /\ Product(s) = r[Len(s)]
  BY <1>1, FoldIsLastProduct DEF Product
<1>3. r \in [0 .. Len(s) -> Nat]
  BY <1>2 DEF Products
<1>4. Len(s) \in 0 .. Len(s)
  BY <1>1
<1>5. r[Len(s)] \in Nat
  BY <1>3, <1>4
<1> QED
  BY <1>2, <1>5

(* The product of two sequences is the product of their products. *)
LEMMA ProductOfConcat ==
  ASSUME NEW u \in Seq(Nat), NEW v \in Seq(Nat)
  PROVE  Product(u \o v) = Product(u) * Product(v)
<1>1. PICK r : Products(r, u, Len(u)) /\ Product(u) = r[Len(u)]
  BY ProductIsLast
<1>2. PICK q : Products(q, v, Len(v)) /\ Product(v) = q[Len(v)]
  BY ProductIsLast
<1>3. u \o v \in Seq(Nat) /\ Len(u \o v) = Len(u) + Len(v)
  OBVIOUS
<1>4. PICK p : Products(p, u \o v, Len(u) + Len(v)) /\ Product(u \o v) = p[Len(u) + Len(v)]
  BY <1>3, ProductIsLast
<1> QED
  BY <1>1, <1>2, <1>4, ProductsConcat

(* The product of one number is that number. *)
LEMMA ProductOfOne ==
  ASSUME NEW x \in Nat
  PROVE  Product(<<x>>) = x
<1>1. <<x>> \in Seq(Nat) /\ Len(<<x>>) = 1 /\ <<x>>[1] = x
  OBVIOUS
<1>2. PICK r : Products(r, <<x>>, 1) /\ Product(<<x>>) = r[1]
  BY <1>1, ProductIsLast
<1>3. 1 \in 1 .. 1 /\ 1 - 1 = 0 /\ r[0] = 1
  BY <1>2 DEF Products
<1>4. r[1] = r[0] * x
  BY <1>1, <1>2, <1>3 DEF Products
<1> QED
  BY <1>2, <1>3, <1>4

(* A sequence of at least n entries, cut after the first n and before the   *)
(* last.                                                                    *)
LEMMA CutSequence ==
  ASSUME NEW s \in Seq(Nat), NEW n \in Nat, n < Len(s)
  PROVE  /\ SubSeq(s, 1, n) \in Seq(Nat) /\ Len(SubSeq(s, 1, n)) = n
         /\ SubSeq(s, n + 1, Len(s) - 1) \in Seq(Nat)
         /\ Last(s) \in Nat
         /\ s = (SubSeq(s, 1, n) \o SubSeq(s, n + 1, Len(s) - 1)) \o <<Last(s)>>
<1> DEFINE L == Len(s)
           a == SubSeq(s, 1, n)
           b == SubSeq(s, n + 1, L - 1)
           c == SubSeq(s, L, L)
<1>1. L \in Nat /\ L >= 1 /\ \A i \in 1 .. L : s[i] \in Nat
  BY ElementOfSeq
<1>2. Last(s) = s[L] /\ Last(s) \in Nat
  BY <1>1 DEF Last
<1>3. a \in Seq(Nat) /\ Len(a) = n /\ b \in Seq(Nat)
  <2>1. \A i \in 1 .. n : s[i] \in Nat
    BY <1>1
  <2>2. \A i \in n + 1 .. L - 1 : s[i] \in Nat
    BY <1>1
  <2>3. n + 1 \in Int /\ L - 1 \in Int
    BY <1>1
  <2>4. a \in Seq(Nat) /\ Len(a) = IF 1 <= n THEN n - 1 + 1 ELSE 0
    BY <2>1, SubSeqProperties
  <2> HIDE DEF L
  <2>5. b \in Seq(Nat)
    BY <2>2, <2>3, SubSeqProperties
  <2> HIDE DEF a, b
  <2> QED
    BY <2>4, <2>5
<1>4. c = <<Last(s)>>
  <2>1. L \in Int /\ \A i \in L .. L : s[i] \in Nat
    BY <1>1
  <2>2. c \in Seq(Nat) /\ Len(c) = 1 /\ c[1] = s[L]
    <3> HIDE DEF L
    <3>1. /\ c \in Seq(Nat) /\ Len(c) = IF L <= L THEN L - L + 1 ELSE 0
          /\ \A i \in 1 .. L - L + 1 : c[i] = s[L + i - 1]
      BY <2>1, SubSeqProperties
    <3>2. L - L + 1 = 1 /\ 1 \in 1 .. 1 /\ L + 1 - 1 = L /\ L <= L
      BY <1>1
    <3> HIDE DEF c
    <3> QED
      BY <3>1, <3>2
  <2> HIDE DEF c, L
  <2> QED
    BY <1>2, <2>2
<1>5. a \o b = SubSeq(s, 1, L - 1)
  <2>1. 1 \in 1 .. L + 1 /\ n \in 1 - 1 .. L /\ L - 1 \in n .. L
    BY <1>1
  <2> QED
    BY <2>1, ConcatAdjacentSubSeq
<1>6. SubSeq(s, 1, L - 1) \o c = SubSeq(s, 1, L)
  <2>1. 1 \in 1 .. L + 1 /\ L - 1 \in 1 - 1 .. L /\ L \in L - 1 .. L /\ L - 1 + 1 = L
    BY <1>1
  <2>2. SubSeq(s, 1, L - 1) \o SubSeq(s, L - 1 + 1, L) = SubSeq(s, 1, L)
    BY <2>1, ConcatAdjacentSubSeq
  <2> QED
    BY <2>1, <2>2
<1>7. SubSeq(s, 1, L) = s
  BY SubSeqFull
<1>8. s = (a \o b) \o <<Last(s)>>
  <2> HIDE DEF a, b, c, L
  <2> QED
    BY <1>4, <1>5, <1>6, <1>7
<1> HIDE DEF a, b, c, L
<1> QED
  BY <1>2, <1>3, <1>8 DEF a, b, L

(* Binding the dimensions of an operand to the rank a hardware function     *)
(* asks for, be it lower or higher, keeps the volume of the transfer.       *)
THEOREM BindingKeepsVolume ==
  ASSUME NEW dims \in Seq(Nat), NEW rank \in Nat, rank >= 2 \/ Len(dims) <= rank
  PROVE  /\ Len(BoundDims(dims, rank)) = rank
         /\ Product(BoundDims(dims, rank)) = Product(dims)
<1>1. Len(dims) \in Nat
  OBVIOUS
<1>2. CASE rank >= 2 /\ Len(dims) > rank
  <2> DEFINE a == SubSeq(dims, 1, rank - 2)
             b == SubSeq(dims, rank - 1, Len(dims) - 1)
             z == Last(dims)
  <2>1. rank - 2 \in Nat /\ rank - 2 < Len(dims) /\ (rank - 2) + 1 = rank - 1
    BY <1>1, <1>2
  <2>2. /\ a \in Seq(Nat) /\ Len(a) = rank - 2 /\ b \in Seq(Nat) /\ z \in Nat
        /\ dims = (a \o b) \o <<z>>
    BY <2>1, CutSequence
  <2>3. BoundDims(dims, rank) = a \o <<Product(b), z>>
    BY <1>2 DEF BoundDims, FoldRows
  <2> HIDE DEF a, b, z
  <2>4. Product(a) \in Nat /\ Product(b) \in Nat
    BY <2>2, ProductIsLast
  <2>5. Product(dims) = (Product(a) * Product(b)) * z
    <3>1. a \o b \in Seq(Nat) /\ <<z>> \in Seq(Nat)
      BY <2>2
    <3>2. Product((a \o b) \o <<z>>) = Product(a \o b) * Product(<<z>>)
      BY <3>1, ProductOfConcat
    <3> QED
      BY <2>2, <3>2, ProductOfConcat, ProductOfOne
  <2>6. Product(<<Product(b), z>>) = Product(b) * z
    <3>1. /\ <<Product(b)>> \in Seq(Nat) /\ <<z>> \in Seq(Nat)
          /\ <<Product(b), z>> = <<Product(b)>> \o <<z>>
      BY <2>2, <2>4
    <3>2. Product(<<Product(b)>> \o <<z>>) = Product(<<Product(b)>>) * Product(<<z>>)
      BY <3>1, ProductOfConcat
    <3> QED
      BY <2>2, <2>4, <3>1, <3>2, ProductOfOne
  <2>7. <<Product(b), z>> \in Seq(Nat) /\ Len(<<Product(b), z>>) = 2
    BY <2>2, <2>4
  <2>8. Product(a \o <<Product(b), z>>) = Product(a) * (Product(b) * z)
    BY <2>2, <2>6, <2>7, ProductOfConcat
  <2>9. Len(a \o <<Product(b), z>>) = rank
    BY <2>1, <2>2, <2>7
  <2>10. \A x, y, w \in Nat : (x * y) * w = x * (y * w)
    OBVIOUS
  <2>11. (Product(a) * Product(b)) * z = Product(a) * (Product(b) * z)
    BY <2>2, <2>4, <2>10
  <2> QED
    BY <2>3, <2>5, <2>8, <2>9, <2>11
<1>3. CASE Len(dims) < rank
  <2> DEFINE n == rank - Len(dims)
             ones == [i \in 1 .. n |-> 1]
  <2>1. n \in Nat /\ ones \in Seq(Nat) /\ Len(ones) = n /\ n + Len(dims) = rank
    BY <1>1, <1>3
  <2>2. BoundDims(dims, rank) = ones \o dims
    BY <1>1, <1>3 DEF BoundDims
  <2>3. \A i \in 1 .. n : ones[i] = 1
    OBVIOUS
  <2> HIDE DEF ones, n
  <2>4. PICK r : Products(r, ones, n) /\ Product(ones) = r[n]
    BY <2>1, ProductIsLast
  <2>5. Product(ones) = 1
    BY <2>1, <2>3, <2>4, ProductOfOnes
  <2>6. Product(ones \o dims) = 1 * Product(dims) /\ Product(dims) \in Nat
    BY <2>1, <2>5, ProductOfConcat, ProductIsLast
  <2>7. Len(ones \o dims) = rank
    BY <2>1
  <2> QED
    BY <2>2, <2>6, <2>7
<1>4. CASE Len(dims) = rank
  BY <1>4 DEF BoundDims
<1> QED
  BY <1>1, <1>2, <1>3, <1>4

(* The parallel and the reduction product of a linalg.generic make up its   *)
(* iterations.                                                              *)
THEOREM ProductsSplitIterations ==
  ASSUME NEW generic, generic.iters \in Seq({"parallel", "reduction"}),
         \A d \in 1 .. Len(generic.iters) : ExtentOf(generic, d) \in Nat
  PROVE  ParallelProduct(generic) * ReductionProduct(generic)
           = Product([d \in 1 .. Len(generic.iters) |-> ExtentOf(generic, d)])
<1> DEFINE n == Len(generic.iters)
           e == [d \in 1 .. n |-> ExtentOf(generic, d)]
           f == [d \in 1 .. n |-> IF generic.iters[d] = "parallel" THEN ExtentOf(generic, d) ELSE 1]
           g == [d \in 1 .. n |-> IF generic.iters[d] = "reduction" THEN ExtentOf(generic, d) ELSE 1]
<1>1. n \in Nat /\ \A d \in 1 .. n : generic.iters[d] \in {"parallel", "reduction"}
  BY ElementOfSeq
<1>2. /\ ParallelProduct(generic) = Product(f)
      /\ ReductionProduct(generic) = Product(g)
  BY DEF ParallelProduct, ReductionProduct, ProductOver
<1>3. \A d \in 1 .. n : e[d] \in Nat /\ f[d] \in Nat /\ g[d] \in Nat /\ e[d] = f[d] * g[d]
  <2> SUFFICES ASSUME NEW d \in 1 .. n
               PROVE  e[d] \in Nat /\ f[d] \in Nat /\ g[d] \in Nat /\ e[d] = f[d] * g[d]
    OBVIOUS
  <2>1. e[d] = ExtentOf(generic, d) /\ e[d] \in Nat
    OBVIOUS
  <2>2. CASE generic.iters[d] = "parallel"
    <3>1. f[d] = e[d] /\ g[d] = 1
      BY <2>1, <2>2
    <3> HIDE DEF e, f, g
    <3> QED
      BY <2>1, <3>1
  <2>3. CASE generic.iters[d] = "reduction"
    <3>1. f[d] = 1 /\ g[d] = e[d]
      BY <2>1, <2>3
    <3> HIDE DEF e, f, g
    <3> QED
      BY <2>1, <3>1
  <2> QED
    BY <1>1, <2>2, <2>3
<1>4. /\ e \in Seq(Nat) /\ f \in Seq(Nat) /\ g \in Seq(Nat)
      /\ Len(e) = n /\ Len(f) = n /\ Len(g) = n
  BY <1>1, <1>3
<1> HIDE DEF e, f, g, n
<1>5. PICK p : Products(p, e, n) /\ Product(e) = p[n]
  BY <1>4, ProductIsLast
<1>6. PICK r : Products(r, f, n) /\ Product(f) = r[n]
  BY <1>4, ProductIsLast
<1>7. PICK q : Products(q, g, n) /\ Product(g) = q[n]
  BY <1>4, ProductIsLast
<1>8. \A x, y, v, w \in Nat : (x * y) * (v * w) = (x * v) * (y * w)
  <2> SUFFICES ASSUME NEW x \in Nat, NEW y \in Nat, NEW v \in Nat, NEW w \in Nat
               PROVE  (x * y) * (v * w) = (x * v) * (y * w)
    OBVIOUS
  <2> QED
    OBVIOUS
<1> DEFINE D == {j \in Nat : j <= n => p[j] = r[j] * q[j]}
<1>9. 0 \in D
  BY <1>5, <1>6, <1>7 DEF Products
<1>10. ASSUME NEW j \in 0 .. n - 1, j \in D PROVE j + 1 \in D
  <2>1. /\ j + 1 \in 1 .. n /\ j \in 0 .. n /\ (j + 1) - 1 = j /\ j + 1 \in Nat
        /\ p[j] = r[j] * q[j]
    BY <1>1, <1>10
  <2>2. /\ p[j + 1] = p[j] * e[j + 1]
        /\ r[j + 1] = r[j] * f[j + 1]
        /\ q[j + 1] = q[j] * g[j + 1]
        /\ r[j] \in Nat /\ q[j] \in Nat
    BY <1>5, <1>6, <1>7, <2>1 DEF Products
  <2>3. e[j + 1] = f[j + 1] * g[j + 1] /\ f[j + 1] \in Nat /\ g[j + 1] \in Nat
    BY <1>3, <2>1
  <2>4. (r[j] * q[j]) * (f[j + 1] * g[j + 1]) = (r[j] * f[j + 1]) * (q[j] * g[j + 1])
    BY <1>8, <2>2, <2>3
  <2> QED
    BY <2>1, <2>2, <2>3, <2>4
<1> HIDE DEF D
<1>11. n \in D
  <2>1. \A j \in 0 .. n : j \in D
    BY <1>1, <1>9, <1>10, Upwards
  <2> QED
    BY <1>1, <2>1
<1> QED
  BY <1>1, <1>2, <1>5, <1>6, <1>7, <1>11 DEF D, e, n

-----------------------------------------------------------------------------
(* The groups: the connected components of the workloads seen so far.       *)

(* A group's resources are exactly those of its workloads. *)
GroupsOwn ==
  \A g \in groups : /\ g.works \subseteq Workload
                    /\ g.resources = UNION {w.resources : w \in g.works}

GroupInv ==
  /\ pending \in Seq(Workload)
  /\ GroupsOwn
  /\ GroupsExclusive
  /\ GroupsConnected

(* What joining a workload makes: the old groups it does not touch, and one *)
(* more.                                                                    *)
LEMMA NewGroups ==
  ASSUME pending \in Seq(Workload), GroupWorkload
  PROVE  /\ Head(pending) \in Workload
         /\ pending' \in Seq(Workload)
         /\ \A g \in groups' :
              \/ g \in groups /\ g.resources \cap Head(pending).resources = {}
              \/ g = Joined(Head(pending))
<1>1. pending # <<>> BY DEF GroupWorkload
<1>2. Head(pending) \in Workload /\ Tail(pending) \in Seq(Workload)
  BY <1>1, HeadTailProperties
<1> QED BY <1>2 DEF GroupWorkload, Overlapping, Shares

(* The joined group owns the resources of its workloads. *)
LEMMA JoinedOwns ==
  ASSUME GroupsOwn, NEW w \in Workload
  PROVE  /\ Joined(w).works \subseteq Workload
         /\ Joined(w).resources = UNION {v.resources : v \in Joined(w).works}
<1>1. Joined(w).works = {w} \cup UNION {g.works : g \in Overlapping(w)}
  BY DEF Joined
<1>2. Joined(w).resources = w.resources \cup UNION {g.resources : g \in Overlapping(w)}
  BY DEF Joined
<1>3. \A g \in Overlapping(w) : /\ g.works \subseteq Workload
                                /\ g.resources = UNION {v.resources : v \in g.works}
  BY DEF GroupsOwn, Overlapping
<1>4. Joined(w).works \subseteq Workload
  BY <1>1, <1>3
<1>5. ASSUME NEW r \in Joined(w).resources
      PROVE  r \in UNION {v.resources : v \in Joined(w).works}
  <2>1. CASE r \in w.resources BY <1>1, <2>1
  <2>2. CASE r \notin w.resources
    <3>1. PICK g \in Overlapping(w) : r \in g.resources BY <1>2, <2>2
    <3>2. PICK v \in g.works : r \in v.resources BY <1>3, <3>1
    <3> QED BY <1>1, <3>2
  <2> QED BY <2>1, <2>2
<1>6. ASSUME NEW v \in Joined(w).works, NEW r \in v.resources
      PROVE  r \in Joined(w).resources
  <2>1. CASE v = w BY <1>2, <2>1
  <2>2. CASE v # w
    <3>1. PICK g \in Overlapping(w) : v \in g.works BY <1>1, <2>2
    <3>2. r \in g.resources BY <1>3, <3>1
    <3> QED BY <1>2, <3>2
  <2> QED BY <2>1, <2>2
<1> QED BY <1>4, <1>5, <1>6

(* A side of a cut of the joined group that w is not on shares a resource   *)
(* with the other side: either one of the groups is cut, or a whole group   *)
(* that overlaps w is on that side.                                         *)
LEMMA JoinedCut ==
  ASSUME GroupsOwn, GroupsConnected, NEW w \in Workload,
         NEW side \in SUBSET Joined(w).works, w \notin side, side # {}
  PROVE  \E v \in side, u \in Joined(w).works \ side : v.resources \cap u.resources # {}
<1>1. Joined(w).works = {w} \cup UNION {g.works : g \in Overlapping(w)}
  BY DEF Joined
<1>2. PICK x \in side : TRUE OBVIOUS
<1>3. PICK g \in Overlapping(w) : x \in g.works
  BY <1>1, <1>2
<1>4. g \in groups /\ g.resources \cap w.resources # {}
  BY DEF Overlapping, Shares
<1>5. g.works \subseteq Joined(w).works /\ w \in Joined(w).works
  BY <1>1
<1>6. CASE g.works \subseteq side
  <2>1. PICK r \in g.resources : r \in w.resources BY <1>4
  <2>2. PICK v \in g.works : r \in v.resources BY <1>4, <2>1 DEF GroupsOwn
  <2> QED BY <1>5, <1>6, <2>1, <2>2
<1>7. CASE ~ (g.works \subseteq side)
  <2> DEFINE part == g.works \cap side
  <2>1. part \in SUBSET g.works /\ part \notin {{}, g.works}
    BY <1>2, <1>3, <1>7
  <2>2. PICK v \in part, u \in g.works \ part : v.resources \cap u.resources # {}
    BY <1>4, <2>1, ZenonT(30) DEF GroupsConnected
  <2>3. v \in side /\ u \in Joined(w).works \ side
    BY <1>5, <2>2
  <2> QED BY <2>2, <2>3
<1> QED BY <1>6, <1>7

(* Every cut of the joined group separates two workloads that share. *)
LEMMA JoinedConnected ==
  ASSUME GroupsOwn, GroupsConnected, NEW w \in Workload,
         NEW part \in SUBSET Joined(w).works, part \notin {{}, Joined(w).works}
  PROVE  \E v \in part, u \in Joined(w).works \ part : v.resources \cap u.resources # {}
<1>1. CASE w \notin part
  BY <1>1, JoinedCut
<1>2. CASE w \in part
  <2> DEFINE rest == Joined(w).works \ part
  <2>1. rest \in SUBSET Joined(w).works /\ w \notin rest /\ rest # {}
    BY <1>2
  <2>2. PICK v \in rest, u \in Joined(w).works \ rest : v.resources \cap u.resources # {}
    BY <2>1, JoinedCut
  <2>3. u \in part /\ v \in Joined(w).works \ part /\ u.resources \cap v.resources # {}
    BY <2>2
  <2> QED BY <2>3
<1> QED BY <1>1, <1>2

(* The invariant of the groups holds after every workload. *)
LEMMA GroupInvariant == GroupSpec => []GroupInv
<1>1. GroupInit => GroupInv
  BY DEF GroupInit, GroupInv, GroupsOwn, GroupsExclusive, GroupsConnected
<1>2. GroupInv /\ [GroupWorkload]_groupVars => GroupInv'
  <2> SUFFICES ASSUME GroupInv, [GroupWorkload]_groupVars PROVE GroupInv'
    OBVIOUS
  <2>1. CASE UNCHANGED groupVars
    BY <2>1 DEF GroupInv, groupVars, GroupsOwn, GroupsExclusive, GroupsConnected
  <2>2. CASE GroupWorkload
    <3> DEFINE w == Head(pending)
    <3>1. /\ w \in Workload
          /\ pending' \in Seq(Workload)
          /\ \A g \in groups' : \/ g \in groups /\ g.resources \cap w.resources = {}
                                \/ g = Joined(w)
      BY <2>2, NewGroups DEF GroupInv
    <3>2. GroupsOwn'
      <4>1. \A g \in groups' : /\ g.works \subseteq Workload
                               /\ g.resources = UNION {v.resources : v \in g.works}
        BY <3>1, JoinedOwns DEF GroupInv, GroupsOwn
      <4> QED BY <4>1 DEF GroupsOwn
    <3>3. GroupsExclusive'
      <4>1. ASSUME NEW g \in groups, g.resources \cap w.resources = {}, g \notin Overlapping(w)
            PROVE  g.resources \cap Joined(w).resources = {}
        <5>1. \A h \in Overlapping(w) : g.resources \cap h.resources = {}
          BY <4>1 DEF GroupInv, GroupsExclusive, Overlapping
        <5>2. Joined(w).resources = w.resources \cup UNION {h.resources : h \in Overlapping(w)}
          BY DEF Joined
        <5> QED BY <4>1, <5>1, <5>2
      <4>2. ASSUME NEW g \in groups', NEW h \in groups', g # h
            PROVE  g.resources \cap h.resources = {}
        <5>1. CASE g = Joined(w)
          <6>1. h \in groups /\ h.resources \cap w.resources = {} BY <3>1, <4>2, <5>1
          <6>2. h \notin Overlapping(w) BY <6>1 DEF Overlapping, Shares
          <6> QED BY <4>1, <5>1, <6>1, <6>2
        <5>2. CASE h = Joined(w)
          <6>1. g \in groups /\ g.resources \cap w.resources = {} BY <3>1, <4>2, <5>2
          <6>2. g \notin Overlapping(w) BY <6>1 DEF Overlapping, Shares
          <6> QED BY <4>1, <5>2, <6>1, <6>2
        <5>3. CASE g # Joined(w) /\ h # Joined(w)
          BY <3>1, <4>2, <5>3 DEF GroupInv, GroupsExclusive
        <5> QED BY <5>1, <5>2, <5>3
      <4> QED BY <4>2 DEF GroupsExclusive
    <3>4. GroupsConnected'
      <4>1. ASSUME NEW g \in groups', NEW part \in SUBSET g.works, part \notin {{}, g.works}
            PROVE  \E v \in part, u \in g.works \ part : v.resources \cap u.resources # {}
        <5>1. CASE g \in groups BY <4>1, <5>1 DEF GroupInv, GroupsConnected
        <5>2. CASE g = Joined(w) BY <3>1, <4>1, <5>2, JoinedConnected DEF GroupInv
        <5> QED BY <3>1, <5>1, <5>2
      <4> QED BY <4>1 DEF GroupsConnected
    <3> QED BY <3>1, <3>2, <3>3, <3>4 DEF GroupInv
  <2> QED BY <2>1, <2>2
<1> QED BY <1>1, <1>2, PTL DEF GroupSpec

(* The groups never share a resource and never tie workloads that do not    *)
(* hang together, whatever the workloads, their resources and their order:  *)
(* a stage is written out as the parallel composition of exactly the        *)
(* sequences it has to contain.                                             *)
THEOREM ComponentsAlways == GroupSpec => []GroupsAreComponents
<1>1. GroupInv => GroupsAreComponents
  BY DEF GroupInv, GroupsAreComponents
<1> QED BY <1>1, GroupInvariant, PTL

-----------------------------------------------------------------------------
(* The registry: HWOpKey::operator< is a strict weak order whose classes    *)
(* are the keys that match, for keys of any length, as long as memory kinds *)
(* are not negative; an assignment into a sorted map is seen by the lookups *)
(* of exactly the matching keys; so that, whatever is indexed in whatever   *)
(* order, a lookup finds the latest match.                                  *)


(* No vector is below itself. *)
LEMMA LexIrreflexive ==
  ASSUME NEW s \in Seq(Nat) PROVE ~ LexLess(s, s)
<1>1. \A n \in 0 .. Len(s) : n < Len(s) => s[n + 1] \in Nat
  BY ElementOfSeq
<1> QED BY <1>1 DEF LexLess

(* What shows that one vector is below another. *)
LEMMA LexIntro ==
  ASSUME NEW s, NEW t, NEW n \in 0 .. Len(s), n < Len(t),
         \A i \in 1 .. n : s[i] = t[i], n < Len(s) => s[n + 1] < t[n + 1]
  PROVE  LexLess(s, t)
BY DEF LexLess

(* The comparison of vectors is transitive. *)
LEMMA LexTransitive ==
  ASSUME NEW s \in Seq(Nat), NEW t \in Seq(Nat), NEW u \in Seq(Nat),
         LexLess(s, t), LexLess(t, u)
  PROVE  LexLess(s, u)
<1>1. PICK n \in 0 .. Len(s) : /\ n < Len(t)
                               /\ \A i \in 1 .. n : s[i] = t[i]
                               /\ n < Len(s) => s[n + 1] < t[n + 1]
  BY DEF LexLess
<1>2. PICK m \in 0 .. Len(t) : /\ m < Len(u)
                               /\ \A i \in 1 .. m : t[i] = u[i]
                               /\ m < Len(t) => t[m + 1] < u[m + 1]
  BY DEF LexLess
<1>3. Len(s) \in Nat /\ Len(t) \in Nat /\ Len(u) \in Nat
  OBVIOUS
<1>4. /\ \A i \in 1 .. Len(s) : s[i] \in Nat
      /\ \A i \in 1 .. Len(t) : t[i] \in Nat
      /\ \A i \in 1 .. Len(u) : u[i] \in Nat
  BY ElementOfSeq
<1>5. CASE n < m
  <2>1. n < Len(u) /\ \A i \in 1 .. n : s[i] = u[i]
    BY <1>1, <1>2, <1>3, <1>5
  <2>2. n < Len(s) => s[n + 1] < u[n + 1]
    <3>1. n + 1 \in 1 .. m BY <1>1, <1>2, <1>3, <1>5
    <3> QED BY <1>1, <1>2, <3>1
  <2> QED BY <2>1, <2>2 DEF LexLess
<1>6. CASE n = m
  <2>1. n < Len(u) /\ \A i \in 1 .. n : s[i] = u[i]
    BY <1>1, <1>2, <1>3, <1>6
  <2>2. n < Len(s) => s[n + 1] < u[n + 1]
    BY <1>1, <1>2, <1>3, <1>4, <1>6
  <2> QED BY <2>1, <2>2 DEF LexLess
<1>7. CASE m < n
  <2>1. m \in 0 .. Len(s) /\ m < Len(u) /\ \A i \in 1 .. m : s[i] = u[i]
    BY <1>1, <1>2, <1>3, <1>7
  <2>2. s[m + 1] = t[m + 1] /\ t[m + 1] < u[m + 1]
    BY <1>1, <1>2, <1>3, <1>7
  <2> QED BY <2>1, <2>2 DEF LexLess
<1> QED BY <1>1, <1>2, <1>3, <1>5, <1>6, <1>7

(* Of two different vectors one is below the other. *)
LEMMA LexTotal ==
  ASSUME NEW s \in Seq(Nat), NEW t \in Seq(Nat), s # t
  PROVE  LexLess(s, t) \/ LexLess(t, s)
<1> DEFINE Differ == {i \in Nat : i + 1 \in 1 .. Len(s) /\ i + 1 \in 1 .. Len(t)
                                  /\ s[i + 1] # t[i + 1]}
<1>1. Len(s) \in Nat /\ Len(t) \in Nat
  OBVIOUS
<1>2. CASE Differ = {}
  <2>1. \A i \in 1 .. Len(s) : i \in 1 .. Len(t) => s[i] = t[i]
    <3>1. SUFFICES ASSUME NEW i \in 1 .. Len(s), i \in 1 .. Len(t) PROVE s[i] = t[i]
      OBVIOUS
    <3>2. i - 1 \in Nat /\ (i - 1) + 1 = i BY <1>1
    <3> QED BY <1>2, <3>1, <3>2
  <2>2. Len(s) # Len(t)
    BY <1>1, <2>1, SeqEqual
  <2>3. CASE Len(s) < Len(t)
    <3>1. Len(s) \in 0 .. Len(s) /\ \A i \in 1 .. Len(s) : s[i] = t[i]
      BY <1>1, <2>1, <2>3
    <3> QED BY <1>1, <2>3, <3>1, LexIntro
  <2>4. CASE Len(t) < Len(s)
    <3>1. Len(t) \in 0 .. Len(t) /\ ~ (Len(t) < Len(t)) /\ \A i \in 1 .. Len(t) : t[i] = s[i]
      BY <1>1, <2>1, <2>4
    <3>2. LexLess(t, s) BY <2>4, <3>1, LexIntro
    <3> QED BY <3>2
  <2> QED BY <1>1, <2>2, <2>3, <2>4
<1>3. CASE Differ # {}
  <2>1. PICK m \in Differ : \A k \in Differ : m <= k
    BY <1>3, LeastOf
  <2>2. \A i \in 1 .. m : s[i] = t[i]
    <3>1. SUFFICES ASSUME NEW i \in 1 .. m PROVE s[i] = t[i]
      OBVIOUS
    <3>2. i - 1 \in Nat /\ i - 1 < m /\ (i - 1) + 1 = i BY <2>1
    <3>3. i \in 1 .. Len(s) /\ i \in 1 .. Len(t) BY <1>1, <2>1
    <3>4. s[i] # t[i] => i - 1 \in Differ BY <3>2, <3>3
    <3> QED BY <2>1, <3>2, <3>4
  <2>3. s[m + 1] \in Nat /\ t[m + 1] \in Nat /\ s[m + 1] # t[m + 1]
    BY <2>1, ElementOfSeq
  <2>4. /\ m \in 0 .. Len(s) /\ m < Len(s)
        /\ m \in 0 .. Len(t) /\ m < Len(t)
        /\ \A i \in 1 .. m : t[i] = s[i]
    BY <1>1, <2>1, <2>2
  <2>5. CASE s[m + 1] < t[m + 1]
    BY <2>2, <2>4, <2>5, LexIntro
  <2>6. CASE t[m + 1] < s[m + 1]
    BY <2>4, <2>6, LexIntro
  <2> QED BY <2>3, <2>5, <2>6
<1> QED BY <1>2, <1>3

(* A signature of default kinds only is below every other one. *)
LEMMA DefaultsBelow ==
  ASSUME NEW d \in Seq(Nat), NEW x \in Seq(Nat),
         HasOnlyDefaultMemoryOperands(d), ~ HasOnlyDefaultMemoryOperands(x)
  PROVE  LexLess(d, x)
<1> DEFINE Other == {i \in Nat : i + 1 \in 1 .. Len(x) /\ x[i + 1] # 0}
<1>1. Len(d) \in Nat /\ Len(x) \in Nat
  OBVIOUS
<1>2. PICK j \in 1 .. Len(x) : x[j] # 0
  BY DEF HasOnlyDefaultMemoryOperands
<1>3. j - 1 \in Other
  <2>1. j - 1 \in Nat /\ (j - 1) + 1 = j BY <1>1
  <2> QED BY <1>2, <2>1
<1>4. PICK m \in Other : \A k \in Other : m <= k
  BY <1>3, LeastOf
<1>5. x[m + 1] \in Nat /\ x[m + 1] # 0 /\ m < Len(x)
  BY <1>1, <1>4, ElementOfSeq
<1>6. \A i \in 1 .. m : x[i] = 0
  <2>1. SUFFICES ASSUME NEW i \in 1 .. m PROVE x[i] = 0
    OBVIOUS
  <2>2. i - 1 \in Nat /\ i - 1 < m /\ (i - 1) + 1 = i /\ i \in 1 .. Len(x)
    BY <1>1, <1>4
  <2>3. x[i] # 0 => i - 1 \in Other BY <2>2
  <2>4. i - 1 \in Other => m <= i - 1 BY <1>4
  <2>5. m \in Int /\ i \in Int BY <1>4
  <2> QED BY <2>2, <2>3, <2>4, <2>5
<1>7. \A i \in 1 .. Len(d) : d[i] = 0
  BY DEF HasOnlyDefaultMemoryOperands
<1>8. CASE Len(d) <= m
  <2>1. Len(d) \in 0 .. Len(d) /\ Len(d) < Len(x)
    BY <1>1, <1>4, <1>5, <1>8
  <2>2. \A i \in 1 .. Len(d) : d[i] = x[i]
    BY <1>1, <1>4, <1>6, <1>7, <1>8
  <2> QED BY <1>1, <2>1, <2>2 DEF LexLess
<1>9. CASE m < Len(d)
  <2>1. m \in 0 .. Len(d) BY <1>1, <1>4, <1>9
  <2>2. \A i \in 1 .. m : d[i] = x[i] BY <1>1, <1>4, <1>6, <1>7, <1>9
  <2>3. d[m + 1] < x[m + 1]
    <3>1. m + 1 \in 1 .. Len(d) BY <1>1, <1>4, <1>9
    <3>2. d[m + 1] = 0 BY <1>7, <3>1
    <3> QED BY <1>5, <3>2
  <2> QED BY <1>5, <2>1, <2>2, <2>3 DEF LexLess
<1> QED BY <1>1, <1>4, <1>8, <1>9

-----------------------------------------------------------------------------
(* Keys are ordered transitively: between two default signatures, which are *)
(* not ordered, there is no other one.                                      *)
THEOREM KeysTransitive ==
  ASSUME NEW k \in HWOpKey, NEW l \in HWOpKey, NEW m \in HWOpKey, Less(k, l), Less(l, m)
  PROVE  Less(k, m)
<1>1. /\ k.head \in Seq(Nat) /\ l.head \in Seq(Nat) /\ m.head \in Seq(Nat)
      /\ k.tail \in Seq(Nat) /\ l.tail \in Seq(Nat) /\ m.tail \in Seq(Nat)
  BY DEF HWOpKey
<1>2. CASE LexLess(k.head, l.head) \/ LexLess(l.head, m.head)
  <2>1. LexLess(k.head, m.head)
    BY <1>1, <1>2, LexTransitive DEF Less
  <2> QED BY <2>1 DEF Less
<1>3. CASE ~ LexLess(k.head, l.head) /\ ~ LexLess(l.head, m.head)
  <2>1. /\ k.head = l.head /\ l.head = m.head
        /\ ~ BothDefault(k, l) /\ ~ BothDefault(l, m)
        /\ LexLess(k.tail, l.tail) /\ LexLess(l.tail, m.tail)
    BY <1>3 DEF Less
  <2>2. LexLess(k.tail, m.tail)
    BY <1>1, <2>1, LexTransitive
  <2>3. ~ BothDefault(k, m)
    <3>1. SUFFICES ASSUME BothDefault(k, m) PROVE FALSE
      OBVIOUS
    <3>2. /\ HasOnlyDefaultMemoryOperands(m.tail)
          /\ ~ HasOnlyDefaultMemoryOperands(l.tail)
      BY <2>1, <3>1 DEF BothDefault, KindOf
    <3>3. LexLess(m.tail, l.tail)
      BY <1>1, <3>2, DefaultsBelow
    <3>4. LexLess(m.tail, m.tail)
      BY <1>1, <2>1, <3>3, LexTransitive
    <3> QED BY <1>1, <3>4, LexIrreflexive
  <2> QED BY <2>1, <2>2, <2>3 DEF Less
<1> QED BY <1>2, <1>3

(* The map takes two keys for the same one exactly if they match: with      *)
(* KeysTransitive, operator< is a strict weak order and a lookup cannot     *)
(* miss an entry or find a wrong one, whatever else is registered.          *)
THEOREM UnorderedKeysMatch ==
  ASSUME NEW k \in HWOpKey, NEW l \in HWOpKey
  PROVE  (~ Less(k, l) /\ ~ Less(l, k)) <=> Matches(k, l)
<1>1. /\ k.head \in Seq(Nat) /\ l.head \in Seq(Nat)
      /\ k.tail \in Seq(Nat) /\ l.tail \in Seq(Nat)
  BY DEF HWOpKey
<1>2. CASE k.head # l.head
  <2>1. LexLess(k.head, l.head) \/ LexLess(l.head, k.head)
    BY <1>1, <1>2, LexTotal
  <2> QED BY <1>2, <2>1 DEF Less, Matches
<1>3. CASE k.head = l.head
  <2>1. ~ LexLess(k.head, l.head) /\ ~ LexLess(l.head, k.head)
    BY <1>1, <1>3, LexIrreflexive
  <2>2. BothDefault(k, l) <=> BothDefault(l, k)
    BY <1>3 DEF BothDefault, KindOf
  <2>3. CASE BothDefault(k, l)
    BY <1>3, <2>1, <2>2, <2>3 DEF Less, Matches
  <2>4. CASE ~ BothDefault(k, l)
    <3>1. CASE k.tail = l.tail
      <4>1. ~ LexLess(k.tail, l.tail) /\ ~ LexLess(l.tail, k.tail)
        BY <1>1, <3>1, LexIrreflexive
      <4> QED BY <1>3, <2>1, <3>1, <4>1 DEF Less, Matches
    <3>2. CASE k.tail # l.tail
      <4>1. LexLess(k.tail, l.tail) \/ LexLess(l.tail, k.tail)
        BY <1>1, <3>2, LexTotal
      <4> QED BY <1>3, <2>2, <2>4, <3>2, <4>1 DEF Less, Matches
    <3> QED BY <3>1, <3>2
  <2> QED BY <2>3, <2>4
<1> QED BY <1>2, <1>3
-----------------------------------------------------------------------------
(* The map. *)

Sorted(map) == \A i, j \in DOMAIN map : i < j => Less(map[i].key, map[j].key)

(* An unordered pair stands in the same place of the order. *)
LEMMA MatchesEquivalence ==
  ASSUME NEW k, NEW l, NEW m
  PROVE  /\ Matches(k, l) => Matches(l, k)
         /\ Matches(k, l) /\ Matches(l, m) => Matches(k, m)
  BY DEF Matches, BothDefault, KindOf

LEMMA MatchingKeysCompare ==
  ASSUME NEW k \in HWOpKey, NEW l \in HWOpKey, NEW m \in HWOpKey, Matches(l, m)
  PROVE  /\ Less(k, l) => Less(k, m)
         /\ Less(l, k) => Less(m, k)
<1>1. ~ Less(l, m) /\ ~ Less(m, l) /\ Matches(m, l)
  BY UnorderedKeysMatch, MatchesEquivalence
<1>2. ASSUME Less(k, l) PROVE Less(k, m)
  <2>1. ~ Less(m, k)
    BY <1>1, <1>2, KeysTransitive
  <2>2. Matches(k, m) => Matches(k, l)
    BY <1>1, MatchesEquivalence
  <2> QED
    BY <1>2, <2>1, <2>2, UnorderedKeysMatch
<1>3. ASSUME Less(l, k) PROVE Less(m, k)
  <2>1. ~ Less(k, m)
    BY <1>1, <1>3, KeysTransitive
  <2>2. Matches(m, k) => Matches(l, k)
    BY <1>1, MatchesEquivalence
  <2> QED
    BY <1>3, <2>1, <2>2, UnorderedKeysMatch
<1> QED
  BY <1>2, <1>3

LEMMA EntryKeys ==
  ASSUME NEW F, NEW map \in Seq([key : HWOpKey, func : F])
  PROVE  /\ Len(map) \in Nat /\ DOMAIN map = 1 .. Len(map)
         /\ \A i \in 1 .. Len(map) : map[i].key \in HWOpKey /\ map[i].func \in F
<1>1. \A i \in 1 .. Len(map) : map[i] \in [key : HWOpKey, func : F]
  BY ElementOfSeq
<1> QED
  BY <1>1, LenProperties

(* LowerBound is where the entries stop being below the key. *)
LEMMA LowerBoundSplits ==
  ASSUME NEW F, NEW map \in Seq([key : HWOpKey, func : F]), Sorted(map), NEW k \in HWOpKey
  PROVE  /\ LowerBound(map, k) \in 1 .. Len(map) + 1
         /\ \A i \in 1 .. Len(map) : Less(map[i].key, k) <=> i < LowerBound(map, k)
<1> DEFINE S == {i \in DOMAIN map : Less(map[i].key, k)}
           D == {i \in Nat : i + 1 \notin S}
<1>1. /\ Len(map) \in Nat /\ DOMAIN map = 1 .. Len(map)
      /\ \A i \in 1 .. Len(map) : map[i].key \in HWOpKey
  BY EntryKeys
<1>2. Len(map) \in D
  BY <1>1
<1>3. PICK m \in D : \A d \in D : m <= d
  <2>1. D \in SUBSET Nat /\ D # {}
    BY <1>2
  <2> HIDE DEF D
  <2> QED
    BY <2>1, LeastOf
<1>4. m \in Nat /\ m <= Len(map)
  BY <1>2, <1>3
<1>5. \A i \in 1 .. m : i \in S
  <2> SUFFICES ASSUME NEW i \in 1 .. m, i \notin S PROVE FALSE
    OBVIOUS
  <2>1. i - 1 \in Nat /\ (i - 1) + 1 = i /\ i - 1 < m
    BY <1>4
  <2>2. i - 1 \in D
    BY <2>1
  <2> QED
    BY <1>3, <1>4, <2>1, <2>2
<1>6. \A i \in S : i \in 1 .. m
  <2> SUFFICES ASSUME NEW i \in S, m < i PROVE FALSE
    BY <1>1, <1>4
  <2>1. m + 1 \in 1 .. Len(map) /\ m + 1 <= i /\ i \in 1 .. Len(map) /\ m + 1 \notin S
    BY <1>1, <1>3, <1>4
  <2>2. m + 1 # i => Less(map[m + 1].key, map[i].key)
    BY <1>1, <2>1 DEF Sorted
  <2> QED
    BY <1>1, <2>1, <2>2, KeysTransitive
<1>7. S = 1 .. m
  <2> HIDE DEF S
  <2> QED
    BY <1>5, <1>6
<1>8. Cardinality(1 .. m) = m
  BY <1>4, FS_Interval
<1>9. LowerBound(map, k) = m + 1
  <2>1. LowerBound(map, k) = 1 + Cardinality(S)
    BY DEF LowerBound
  <2> HIDE DEF S
  <2> QED
    BY <1>4, <1>7, <1>8, <2>1
<1> QED
  BY <1>1, <1>4, <1>7, <1>9

(* A lookup finds the entry that matches, and nothing else. *)
LEMMA FoundIsMatch ==
  ASSUME NEW F, NEW map \in Seq([key : HWOpKey, func : F]), Sorted(map), NEW k \in HWOpKey
  PROVE  /\ Found(map, k) => Matches(k, map[LowerBound(map, k)].key)
         /\ \A i \in 1 .. Len(map) :
              Matches(k, map[i].key) => Found(map, k) /\ LowerBound(map, k) = i
<1> DEFINE n == LowerBound(map, k)
<1>1. /\ Len(map) \in Nat /\ DOMAIN map = 1 .. Len(map)
      /\ \A i \in 1 .. Len(map) : map[i].key \in HWOpKey
  BY EntryKeys
<1>2. n \in 1 .. Len(map) + 1 /\ \A i \in 1 .. Len(map) : Less(map[i].key, k) <=> i < n
  BY LowerBoundSplits
<1> HIDE DEF n
<1>3. ASSUME n \in 1 .. Len(map), ~ Less(k, map[n].key) PROVE Matches(k, map[n].key)
  <2>1. ~ Less(map[n].key, k)
    BY <1>2, <1>3
  <2> QED
    BY <1>1, <1>3, <2>1, UnorderedKeysMatch
<1>4. ASSUME NEW i \in 1 .. Len(map), Matches(k, map[i].key)
      PROVE  n = i /\ ~ Less(k, map[i].key)
  <2>1. ~ Less(k, map[i].key) /\ ~ Less(map[i].key, k)
    BY <1>1, <1>4, UnorderedKeysMatch
  <2>2. n <= i
    BY <1>2, <2>1
  <2>3. ASSUME n < i PROVE FALSE
    <3>1. n \in 1 .. Len(map) /\ Less(map[n].key, map[i].key)
      BY <1>1, <1>2, <2>3 DEF Sorted
    <3>2. Matches(map[i].key, k)
      BY <1>4, MatchesEquivalence
    <3>3. Less(map[n].key, k)
      BY <1>1, <3>1, <3>2, MatchingKeysCompare
    <3> QED
      BY <1>2, <3>1, <3>3
  <2> QED
    BY <1>2, <2>1, <2>2, <2>3
<1> QED
  BY <1>1, <1>3, <1>4 DEF Found, n
LEMMA LookupIsMatch ==
  ASSUME NEW F, NEW map \in Seq([key : HWOpKey, func : F]), Sorted(map), NEW k \in HWOpKey
  PROVE  /\ \A i \in 1 .. Len(map) : Matches(k, map[i].key) => Lookup(map, k) = map[i].func
         /\ (\A i \in 1 .. Len(map) : ~ Matches(k, map[i].key)) => Lookup(map, k) = NoFunc
<1>1. Found(map, k) => LowerBound(map, k) \in 1 .. Len(map)
  BY EntryKeys DEF Found
<1> QED
  BY <1>1, FoundIsMatch DEF Lookup

LEMMA InsertAtProperties ==
  ASSUME NEW S, NEW s \in Seq(S), NEW e \in S, NEW n \in 1 .. Len(s) + 1
  PROVE  /\ InsertAt(s, n, e) \in Seq(S)
         /\ Len(InsertAt(s, n, e)) = Len(s) + 1
         /\ InsertAt(s, n, e)[n] = e
         /\ \A i \in 1 .. Len(s) + 1 :
              /\ i < n => InsertAt(s, n, e)[i] = s[i]
              /\ i > n => InsertAt(s, n, e)[i] = s[i - 1]
<1> DEFINE before == SubSeq(s, 1, n - 1)
           after == SubSeq(s, n, Len(s))
<1>1. Len(s) \in Nat /\ n \in Nat /\ 1 <= n /\ n <= Len(s) + 1
  OBVIOUS
<1>2. /\ before \in Seq(S) /\ Len(before) = n - 1
      /\ \A i \in 1 .. n - 1 : before[i] = s[i]
  <2>1. \A i \in 1 .. n - 1 : s[i] \in S
    BY <1>1, ElementOfSeq
  <2> QED
    BY <1>1, <2>1, SubSeqProperties
<1>3. /\ after \in Seq(S) /\ Len(after) = Len(s) - n + 1
      /\ \A i \in 1 .. Len(s) - n + 1 : after[i] = s[n + i - 1]
  <2>1. \A i \in n .. Len(s) : s[i] \in S
    BY <1>1, ElementOfSeq
  <2> QED
    BY <1>1, <2>1, SubSeqProperties
<1>4. <<e>> \in Seq(S) /\ Len(<<e>>) = 1 /\ <<e>>[1] = e
  OBVIOUS
<1> HIDE DEF before, after
<1> DEFINE upto == before \o <<e>>
<1>5. /\ upto \in Seq(S) /\ Len(upto) = n
      /\ \A i \in 1 .. n : upto[i] = IF i <= n - 1 THEN before[i] ELSE <<e>>[i - (n - 1)]
  BY <1>1, <1>2, <1>4, ConcatProperties
<1> HIDE DEF upto
<1>6. /\ upto \o after \in Seq(S) /\ Len(upto \o after) = Len(s) + 1
      /\ \A i \in 1 .. Len(s) + 1 :
           (upto \o after)[i] = IF i <= n THEN upto[i] ELSE after[i - n]
  <2>1. Len(upto) + Len(after) = Len(s) + 1
    BY <1>1, <1>3, <1>5
  <2>2. /\ upto \o after \in Seq(S) /\ Len(upto \o after) = Len(upto) + Len(after)
        /\ \A i \in 1 .. Len(upto) + Len(after) :
             (upto \o after)[i] = IF i <= Len(upto) THEN upto[i] ELSE after[i - Len(upto)]
    BY <1>3, <1>5, ConcatProperties
  <2> QED
    BY <1>5, <2>1, <2>2
<1>7. InsertAt(s, n, e) = upto \o after
  BY DEF InsertAt, upto, before, after
<1>8. ASSUME NEW i \in 1 .. Len(s) + 1
      PROVE  (upto \o after)[i] = IF i < n THEN s[i] ELSE IF i = n THEN e ELSE s[i - 1]
  <2>1. CASE i < n
    <3>1. i \in 1 .. n /\ i \in 1 .. n - 1 /\ i <= n
      BY <1>1, <2>1
    <3> QED
      BY <1>2, <1>5, <1>6, <2>1, <3>1
  <2>2. CASE i = n
    <3>1. i \in 1 .. n /\ ~ (i <= n - 1) /\ i - (n - 1) = 1 /\ i <= n
      BY <1>1, <2>2
    <3> QED
      BY <1>4, <1>5, <1>6, <2>2, <3>1
  <2>3. CASE i > n
    <3>1. i - n \in 1 .. Len(s) - n + 1 /\ n + (i - n) - 1 = i - 1 /\ ~ (i <= n)
      BY <1>1, <2>3
    <3> QED
      BY <1>1, <1>3, <1>6, <2>3, <3>1
  <2>4. i < n \/ i = n \/ i > n
    BY <1>1
  <2> QED
    BY <2>1, <2>2, <2>3, <2>4
<1>9. /\ (upto \o after)[n] = e
      /\ \A i \in 1 .. Len(s) + 1 :
           /\ i < n => (upto \o after)[i] = s[i]
           /\ i > n => (upto \o after)[i] = s[i - 1]
  <2>1. n \in 1 .. Len(s) + 1 /\ ~ (n < n)
    BY <1>1
  <2>2. (upto \o after)[n] = e
    BY <1>8, <2>1
  <2>3. ASSUME NEW i \in 1 .. Len(s) + 1, i < n PROVE (upto \o after)[i] = s[i]
    BY <1>8, <2>3
  <2>4. ASSUME NEW i \in 1 .. Len(s) + 1, i > n PROVE (upto \o after)[i] = s[i - 1]
    <3>1. ~ (i < n) /\ i # n
      BY <1>1, <2>4
    <3> QED
      BY <1>8, <3>1
  <2> QED
    BY <2>2, <2>3, <2>4
<1> QED
  BY <1>6, <1>7, <1>9

(* registry_[key] = func: afterwards the key and those that match it are    *)
(* looked up as func and every other one as before, however the keys are    *)
(* spread over the map.                                                     *)
THEOREM AssignThenLookup ==
  ASSUME NEW F, NEW map \in Seq([key : HWOpKey, func : F]), Sorted(map),
         NEW k \in HWOpKey, NEW f \in F
  PROVE  /\ Assign(map, k, f) \in Seq([key : HWOpKey, func : F])
         /\ Sorted(Assign(map, k, f))
         /\ \A probe \in HWOpKey :
              Lookup(Assign(map, k, f), probe) =
                IF Matches(probe, k) THEN f ELSE Lookup(map, probe)
<1> DEFINE n == LowerBound(map, k)
           after == Assign(map, k, f)
<1>1. /\ Len(map) \in Nat /\ DOMAIN map = 1 .. Len(map)
      /\ \A i \in 1 .. Len(map) : map[i].key \in HWOpKey /\ map[i].func \in F
  BY EntryKeys
<1>2. n \in 1 .. Len(map) + 1 /\ \A i \in 1 .. Len(map) : Less(map[i].key, k) <=> i < n
  BY LowerBoundSplits
<1>3. CASE Found(map, k)
  <2>1. n \in 1 .. Len(map) /\ Matches(k, map[n].key)
    BY <1>1, <1>3, FoundIsMatch DEF Found
  <2> DEFINE e == [map[n] EXCEPT !.func = f]
  <2>2. after = [map EXCEPT ![n] = e]
    BY <1>3 DEF Assign
  <2>3. e \in [key : HWOpKey, func : F] /\ e.key = map[n].key /\ e.func = f
    <3>1. map[n] \in [key : HWOpKey, func : F]
      BY <2>1, ElementOfSeq
    <3> QED
      BY <3>1
  <2> HIDE DEF n, after, e
  <2>4. /\ after \in Seq([key : HWOpKey, func : F]) /\ Len(after) = Len(map)
        /\ \A i \in 1 .. Len(map) : after[i] = IF i = n THEN e ELSE map[i]
    BY <2>1, <2>2, <2>3, ExceptSeq
  <2>5. DOMAIN after = 1 .. Len(map) /\ \A i \in 1 .. Len(map) : after[i].key = map[i].key
    <3>1. ASSUME NEW i \in 1 .. Len(map) PROVE after[i].key = map[i].key
      BY <2>3, <2>4
    <3> QED
      BY <2>4, <3>1, LenProperties
  <2>6. Sorted(after)
    BY <1>1, <2>5 DEF Sorted
  <2>7. ASSUME NEW probe \in HWOpKey
        PROVE  Lookup(after, probe) = IF Matches(probe, k) THEN f ELSE Lookup(map, probe)
    <3>1. CASE Matches(probe, k)
      <4>1. Matches(probe, map[n].key) /\ after[n].func = f /\ after[n].key = map[n].key
        BY <2>1, <2>3, <2>4, <3>1, MatchesEquivalence
      <4>2. n \in 1 .. Len(after) /\ Matches(probe, after[n].key)
        BY <2>1, <2>4, <4>1
      <4>3. Lookup(after, probe) = after[n].func
        BY <2>4, <2>6, <4>2, LookupIsMatch
      <4> QED
        BY <3>1, <4>1, <4>3
    <3>2. CASE ~ Matches(probe, k) /\ \E i \in 1 .. Len(map) : Matches(probe, map[i].key)
      <4>1. PICK i \in 1 .. Len(map) : Matches(probe, map[i].key)
        BY <3>2
      <4>2. i # n
        BY <2>1, <3>2, <4>1, MatchesEquivalence
      <4>3. after[i].func = map[i].func /\ after[i].key = map[i].key
        BY <2>4, <4>2
      <4>4. Lookup(after, probe) = map[i].func
        BY <2>4, <2>6, <4>1, <4>3, LookupIsMatch
      <4>5. Lookup(map, probe) = map[i].func
        BY <4>1, LookupIsMatch
      <4> QED
        BY <3>2, <4>4, <4>5
    <3>3. CASE ~ Matches(probe, k) /\ ~ \E i \in 1 .. Len(map) : Matches(probe, map[i].key)
      <4>1. Lookup(map, probe) = NoFunc
        BY <3>3, LookupIsMatch
      <4>2. Lookup(after, probe) = NoFunc
        BY <2>4, <2>5, <2>6, <3>3, LookupIsMatch
      <4> QED
        BY <3>3, <4>1, <4>2
    <3> QED
      BY <3>1, <3>2, <3>3
  <2> QED
    BY <2>4, <2>6, <2>7 DEF after
<1>4. CASE ~ Found(map, k)
  <2> DEFINE e == [key |-> k, func |-> f]
  <2>1. after = InsertAt(map, n, e)
    BY <1>4 DEF Assign
  <2>2. \A i \in 1 .. Len(map) : ~ Matches(k, map[i].key)
    BY <1>4, FoundIsMatch
  <2>3. e \in [key : HWOpKey, func : F]
    OBVIOUS
  <2> HIDE DEF n, after, e
  <2>4. /\ after \in Seq([key : HWOpKey, func : F]) /\ Len(after) = Len(map) + 1
        /\ after[n] = e
        /\ \A i \in 1 .. Len(map) + 1 :
             (i < n => after[i] = map[i]) /\ (i > n => after[i] = map[i - 1])
    <3>1. n \in 1 .. Len(map) + 1
      BY <1>2 DEF n
    <3>2. PICK T : T = [key : HWOpKey, func : F]
      OBVIOUS
    <3>3. map \in Seq(T) /\ e \in T
      BY <2>3, <3>2
    <3>4. /\ InsertAt(map, n, e) \in Seq(T)
          /\ Len(InsertAt(map, n, e)) = Len(map) + 1
          /\ InsertAt(map, n, e)[n] = e
          /\ \A i \in 1 .. Len(map) + 1 :
               /\ i < n => InsertAt(map, n, e)[i] = map[i]
               /\ i > n => InsertAt(map, n, e)[i] = map[i - 1]
      <4>1. PICK m \in 1 .. Len(map) + 1 : m = n
        BY <3>1
      <4>2. PICK x \in T : x = e
        BY <3>3
      <4>3. /\ InsertAt(map, m, x) \in Seq(T)
            /\ Len(InsertAt(map, m, x)) = Len(map) + 1
            /\ InsertAt(map, m, x)[m] = x
            /\ \A i \in 1 .. Len(map) + 1 :
                 /\ i < m => InsertAt(map, m, x)[i] = map[i]
                 /\ i > m => InsertAt(map, m, x)[i] = map[i - 1]
        BY ONLY <3>3, m \in 1 .. Len(map) + 1, x \in T, InsertAtProperties
      <4> QED
        BY <4>1, <4>2, <4>3
    <3> QED
      BY <2>1, <3>2, <3>4
  <2>5. ASSUME NEW i \in 1 .. Len(map) PROVE n <= i => Less(k, map[i].key)
    <3>1. n <= i => ~ Less(map[i].key, k)
      BY <1>1, <1>2
    <3> QED
      BY <1>1, <2>2, <3>1, UnorderedKeysMatch
  <2>6. Sorted(after)
    <3> SUFFICES ASSUME NEW i \in 1 .. Len(map) + 1, NEW j \in 1 .. Len(map) + 1, i < j
                 PROVE  Less(after[i].key, after[j].key)
      BY <2>4 DEF Sorted
    <3>1. CASE j < n
      <4>1. i \in 1 .. Len(map) /\ j \in 1 .. Len(map) /\ i < n /\ after[i] = map[i] /\ after[j] = map[j]
        BY <1>1, <1>2, <2>4, <3>1
      <4> QED
        BY <1>1, <4>1 DEF Sorted
    <3>2. CASE j = n
      <4>1. i \in 1 .. Len(map) /\ i < n /\ after[i] = map[i] /\ after[j].key = k
        BY <1>1, <1>2, <2>4, <3>2 DEF e
      <4> QED
        BY <1>2, <4>1
    <3>3. CASE j > n /\ i = n
      <4>1. j - 1 \in 1 .. Len(map) /\ n <= j - 1 /\ after[j] = map[j - 1] /\ after[i].key = k
        BY <1>1, <1>2, <2>4, <3>3 DEF e
      <4> QED
        BY <2>5, <4>1
    <3>4. CASE j > n /\ i < n
      <4>1. j - 1 \in 1 .. Len(map) /\ i \in 1 .. Len(map) /\ i < j - 1
        BY <1>1, <1>2, <3>4
      <4>2. after[j] = map[j - 1] /\ after[i] = map[i]
        BY <2>4, <3>4
      <4> QED
        BY <1>1, <4>1, <4>2 DEF Sorted
    <3>5. CASE j > n /\ i > n
      <4>1. j - 1 \in 1 .. Len(map) /\ i - 1 \in 1 .. Len(map) /\ i - 1 < j - 1
            /\ after[j] = map[j - 1] /\ after[i] = map[i - 1]
        BY <1>1, <1>2, <2>4, <3>5
      <4> QED
        BY <1>1, <4>1 DEF Sorted
    <3> QED
      BY <1>2, <3>1, <3>2, <3>3, <3>4, <3>5
  <2>7. ASSUME NEW probe \in HWOpKey
        PROVE  Lookup(after, probe) = IF Matches(probe, k) THEN f ELSE Lookup(map, probe)
    <3>1. CASE Matches(probe, k)
      <4>1. n \in 1 .. Len(after) /\ Matches(probe, after[n].key) /\ after[n].func = f
        BY <1>1, <1>2, <2>4, <3>1 DEF e
      <4> QED
        BY <2>4, <2>6, <3>1, <4>1, LookupIsMatch
    <3>2. CASE ~ Matches(probe, k) /\ \E i \in 1 .. Len(map) : Matches(probe, map[i].key)
      <4>1. PICK i \in 1 .. Len(map) : Matches(probe, map[i].key)
        BY <3>2
      <4>2. \E j \in 1 .. Len(map) + 1 : after[j] = map[i]
        <5>1. CASE i < n
          BY <1>1, <1>2, <2>4, <5>1
        <5>2. CASE n <= i
          <6>1. i + 1 \in 1 .. Len(map) + 1 /\ i + 1 > n /\ (i + 1) - 1 = i
            BY <1>1, <1>2, <5>2
          <6> QED
            BY <2>4, <6>1
        <5> QED
          BY <1>1, <1>2, <5>1, <5>2
      <4>3. Lookup(after, probe) = map[i].func
        <5>1. PICK j \in 1 .. Len(after) : after[j] = map[i]
          BY <2>4, <4>2
        <5>2. Matches(probe, after[j].key) /\ after[j].func = map[i].func
          BY <4>1, <5>1
        <5> QED
          BY <2>4, <2>6, <5>2, LookupIsMatch
      <4>4. Lookup(map, probe) = map[i].func
        BY <4>1, LookupIsMatch
      <4> QED
        BY <3>2, <4>3, <4>4
    <3>3. CASE ~ Matches(probe, k) /\ ~ \E i \in 1 .. Len(map) : Matches(probe, map[i].key)
      <4>1. Lookup(map, probe) = NoFunc
        BY <3>3, LookupIsMatch
      <4>2. ASSUME NEW j \in 1 .. Len(map) + 1 PROVE ~ Matches(probe, after[j].key)
        <5>1. CASE j = n
          BY <2>4, <3>3, <5>1 DEF e
        <5>2. CASE j < n
          BY <1>1, <1>2, <2>4, <3>3, <5>2
        <5>3. CASE j > n
          <6>1. j - 1 \in 1 .. Len(map) /\ after[j] = map[j - 1]
            BY <1>1, <1>2, <2>4, <5>3
          <6> QED
            BY <3>3, <6>1
        <5> QED
          BY <1>2, <5>1, <5>2, <5>3
      <4>3. Lookup(after, probe) = NoFunc
        BY <2>4, <2>6, <4>2, LookupIsMatch
      <4> QED
        BY <3>3, <4>1, <4>3
    <3> QED
      BY <3>1, <3>2, <3>3
  <2> QED
    BY <2>4, <2>6, <2>7 DEF after
<1> QED
  BY <1>3, <1>4

-----------------------------------------------------------------------------

-----------------------------------------------------------------------------
(* Indexing a platform. *)

(* What is read from a platform file. *)
ReadFrom(p) ==
  UNION {{[module |-> p.modules[i], func |-> p.modules[i].funcs[j]] :
            j \in DOMAIN p.modules[i].funcs} : i \in DOMAIN p.modules}

FuncOf(u) == [name |-> u.func.name, component |-> u.module.component,
              resources |-> ResourcesOf(u.module.component)]

Funcs == {FuncOf(u) : u \in ReadFrom(platform)}

Entries == [key : HWOpKey, func : Funcs]

(* The registry is in order and looks every key up as the history has it;   *)
(* only data movers are put aside.                                          *)
RegistryInv ==
  /\ platform \in Platforms
  /\ unread \in Seq(ReadFrom(platform))
  /\ registry \in Seq(Entries) /\ Sorted(registry)
  /\ indexed \in Seq([key : [head : Seq(Nat), tail : Seq(Nat \cup {Dynamic})], func : Funcs])
  /\ \A probe \in HWOpKey :
       KindOf(probe) # DataMover => Lookup(registry, probe) = Latest(probe)

LEMMA FunctionsRead ==
  ASSUME NEW p \in Platforms
  PROVE  FunctionsOf(p) \in Seq(ReadFrom(p))
<1> DEFINE part(i) == [j \in DOMAIN p.modules[i].funcs |->
                        [module |-> p.modules[i], func |-> p.modules[i].funcs[j]]]
           ss == [i \in DOMAIN p.modules |-> part(i)]
<1>1. PICK n \in Nat : DOMAIN p.modules = 1 .. n
  BY PlatformsAssumption, LenProperties DEF IsSequence
<1>2. ASSUME NEW i \in 1 .. n PROVE part(i) \in Seq(ReadFrom(p))
  <2>1. PICK m \in Nat : DOMAIN p.modules[i].funcs = 1 .. m
    BY <1>1, PlatformsAssumption, LenProperties DEF IsSequence
  <2>2. \A j \in 1 .. m :
          [module |-> p.modules[i], func |-> p.modules[i].funcs[j]] \in ReadFrom(p)
    BY <1>1, <2>1 DEF ReadFrom
  <2>3. part(i) = [j \in 1 .. m |->
                    [module |-> p.modules[i], func |-> p.modules[i].funcs[j]]]
    BY <2>1
  <2> DEFINE r(j) == [module |-> p.modules[i], func |-> p.modules[i].funcs[j]]
  <2> HIDE DEF r, part
  <2>4. \A j \in 1 .. m : r(j) \in ReadFrom(p)
    BY <2>2 DEF r
  <2>5. part(i) = [j \in 1 .. m |-> r(j)]
    BY <2>3 DEF r
  <2> QED
    BY <2>4, <2>5
<1>3. ss \in Seq(Seq(ReadFrom(p)))
  <2> HIDE DEF part
  <2> QED
    BY <1>1, <1>2
<1> QED
  BY <1>3, FlattenSeqElements DEF FunctionsOf

(* The history gains an entry, which from now on is the latest that its key *)
(* stands for.                                                              *)
LEMMA LatestAppend ==
  ASSUME NEW K, NEW F, indexed \in Seq([key : K, func : F]), NEW e \in [key : K, func : F],
         indexed' = Append(indexed, e), NEW probe
  PROVE  Latest(probe)' = IF Matches(probe, e.key) THEN e.func ELSE Latest(probe)
<1> DEFINE n == Len(indexed)
           fit == {i \in DOMAIN indexed : Matches(probe, indexed[i].key)}
           fit1 == {i \in DOMAIN indexed' : Matches(probe, indexed'[i].key)}
<1>1. /\ n \in Nat /\ DOMAIN indexed = 1 .. n /\ DOMAIN indexed' = 1 .. n + 1
      /\ \A i \in 1 .. n : indexed'[i] = indexed[i]
      /\ indexed'[n + 1] = e
  <2>1. indexed' \in Seq([key : K, func : F]) /\ Len(indexed') = n + 1
    BY AppendProperties
  <2> QED
    BY <2>1, AppendProperties, LenProperties
<1>2. Latest(probe) = IF fit = {} THEN NoFunc ELSE indexed[Max(fit)].func
  BY DEF Latest
<1>3. Latest(probe)' = IF fit1 = {} THEN NoFunc ELSE indexed'[Max(fit1)].func
  BY DEF Latest, Matches, BothDefault, KindOf
<1>4. fit \subseteq 1 .. n
  BY <1>1
<1>5. fit1 = IF Matches(probe, e.key) THEN fit \cup {n + 1} ELSE fit
  <2>1. \A i \in 1 .. n + 1 : i \in 1 .. n \/ i = n + 1
    BY <1>1
  <2>2. 1 .. n \subseteq 1 .. n + 1 /\ n + 1 \notin 1 .. n /\ n + 1 \in 1 .. n + 1
    BY <1>1
  <2>3. \A i \in 1 .. n : i \in fit1 <=> i \in fit
    BY <1>1, <2>2
  <2>4. n + 1 \in fit1 <=> Matches(probe, e.key)
    BY <1>1, <2>2
  <2>5. fit \subseteq 1 .. n /\ fit1 \subseteq 1 .. n + 1
    BY <1>1
  <2> HIDE DEF fit, fit1, n
  <2>6. CASE Matches(probe, e.key)
    <3>1. \A i : i \in fit1 <=> i \in fit \/ i = n + 1
      BY <2>1, <2>2, <2>3, <2>4, <2>5, <2>6, Zenon
    <3> QED
      BY <2>6, <3>1
  <2>7. CASE ~ Matches(probe, e.key)
    <3>1. \A i : i \in fit1 <=> i \in fit
      BY <2>1, <2>2, <2>3, <2>4, <2>5, <2>7, Zenon
    <3> QED
      BY <2>7, <3>1
  <2> QED
    BY <2>6, <2>7
<1> HIDE DEF fit, fit1, n
<1>6. CASE Matches(probe, e.key)
  <2>1. Max(fit \cup {n + 1}) = n + 1
    <3>1. \A j \in fit \cup {n + 1} : n + 1 >= j /\ j \in Int
      BY <1>1, <1>4
    <3>2. n + 1 \in fit \cup {n + 1}
      OBVIOUS
    <3>3. ASSUME NEW x \in fit \cup {n + 1}, \A j \in fit \cup {n + 1} : x >= j
          PROVE  x = n + 1
      <4>1. x >= n + 1 /\ n + 1 >= x /\ x \in Int
        BY <3>1, <3>2, <3>3
      <4> QED
        BY <1>1, <4>1
    <3> QED
      BY <3>1, <3>2, <3>3 DEF Max
  <2> QED
    BY <1>1, <1>3, <1>5, <1>6, <2>1
<1>7. CASE ~ Matches(probe, e.key)
  <2>1. fit # {} => Max(fit) \in fit
    <3> DEFINE D == {d \in Nat : n - d \in fit}
    <3> SUFFICES ASSUME fit # {} PROVE Max(fit) \in fit
      OBVIOUS
    <3>1. PICK i \in fit : TRUE
      OBVIOUS
    <3>2. n - i \in D
      BY <1>1, <1>4, <3>1
    <3>3. PICK d \in D : \A c \in D : d <= c
      <4>1. D \in SUBSET Nat /\ D # {}
        BY <3>2
      <4> HIDE DEF D
      <4> QED
        BY <4>1, LeastOf
    <3>4. \A j \in fit : n - d >= j
      <4> SUFFICES ASSUME NEW j \in fit PROVE n - d >= j
        OBVIOUS
      <4>1. n - j \in Nat /\ n - (n - j) = j /\ j \in Int
        BY <1>1, <1>4
      <4>2. d <= n - j
        BY <3>3, <4>1
      <4> QED
        BY <1>1, <3>3, <4>1, <4>2
    <3> QED
      BY <3>3, <3>4 DEF Max
  <2>2. fit # {} => indexed'[Max(fit)] = indexed[Max(fit)]
    BY <1>1, <1>4, <2>1
  <2> QED
    BY <1>2, <1>3, <1>5, <1>7, <2>2
<1> QED
  BY <1>6, <1>7

LEMMA RegistryInitial == RegistryInit => RegistryInv
<1> SUFFICES ASSUME RegistryInit PROVE RegistryInv
  OBVIOUS
<1>1. platform \in Platforms /\ unread \in Seq(ReadFrom(platform))
  BY FunctionsRead DEF RegistryInit
<1>2. registry = <<>> /\ indexed = <<>> /\ Sorted(registry)
  BY DEF RegistryInit, Sorted
<1>3. ASSUME NEW probe \in HWOpKey PROVE Lookup(registry, probe) = Latest(probe)
  <2>1. Latest(probe) = NoFunc
    BY <1>2 DEF Latest
  <2>2. Lookup(registry, probe) = NoFunc
    BY <1>2 DEF Lookup, Found, LowerBound
  <2> QED
    BY <2>1, <2>2
<1> QED
  BY <1>1, <1>2, <1>3 DEF RegistryInv, Entries

LEMMA RegistryStep == RegistryInv /\ [IndexModule]_registryVars => RegistryInv'
<1> SUFFICES ASSUME RegistryInv, [IndexModule]_registryVars PROVE RegistryInv'
  OBVIOUS
<1>1. CASE UNCHANGED registryVars
  BY <1>1 DEF registryVars, RegistryInv, Funcs, FuncOf, ResourcesOf, Entries, Latest, Sorted
<1>2. CASE IndexModule
  <2> DEFINE u == Head(unread)
             k == u.func.key
             e == [key |-> k, func |-> FuncOf(u)]
             aside == KindOf(k) = DataMover /\ IsSymbolicArea(k.tail)
  <2>1. unread # <<>> /\ u \in ReadFrom(platform) /\ unread' \in Seq(ReadFrom(platform))
    BY <1>2, HeadTailProperties DEF IndexModule, RegistryInv
  <2>2. FunctionKey(k)
    BY <2>1, PlatformsAssumption DEF ReadFrom, RegistryInv
  <2>3. platform' = platform /\ Funcs' = Funcs /\ Entries' = Entries
    BY <1>2 DEF IndexModule, Funcs, FuncOf, ResourcesOf, Entries
  <2>4. FuncOf(u) \in Funcs
    BY <2>1 DEF Funcs
  <2>5. CASE ~ Extracted(u)
    <3>1. UNCHANGED <<registry, indexed>>
      BY <1>2, <2>5 DEF IndexModule
    <3> QED
      BY <2>1, <2>3, <3>1 DEF RegistryInv, Latest, Sorted
  <2>6. CASE Extracted(u)
    <3>1. /\ registry' = IF aside THEN registry ELSE Assign(registry, k, FuncOf(u))
          /\ indexed' = Append(indexed, e)
      BY <1>2, <2>6 DEF IndexModule, FuncOf
    <3> DEFINE K == [head : Seq(Nat), tail : Seq(Nat \cup {Dynamic})]
    <3>2. e \in [key : K, func : Funcs] /\ e.key = k /\ e.func = FuncOf(u)
      BY <2>2, <2>4 DEF FunctionKey
    <3> HIDE DEF u, k, e, aside, K
    <3>3. indexed' \in Seq([key : K, func : Funcs])
      BY <3>1, <3>2, AppendProperties DEF RegistryInv, K
    <3>4. \A probe : Latest(probe)' = IF Matches(probe, k) THEN FuncOf(u) ELSE Latest(probe)
      <4>1. indexed \in Seq([key : K, func : Funcs]) /\ indexed' = Append(indexed, e)
        BY <3>1 DEF RegistryInv, K
      <4>2. ASSUME NEW probe
            PROVE  Latest(probe)' = IF Matches(probe, e.key) THEN e.func ELSE Latest(probe)
        BY <3>2, <4>1, LatestAppend
      <4> QED
        BY <3>2, <4>2
    <3>5. CASE aside
      <4>1. ASSUME NEW probe \in HWOpKey, KindOf(probe) # DataMover PROVE ~ Matches(probe, k)
        BY <3>5, <4>1 DEF aside, Matches, KindOf
      <4> QED
        BY <2>1, <2>3, <3>1, <3>3, <3>4, <3>5, <4>1 DEF RegistryInv, Sorted, K
    <3>6. CASE ~ aside
      <4>1. k \in HWOpKey
        <5>1. CASE KindOf(k) # DataMover
          BY <2>2, <5>1 DEF FunctionKey
        <5>2. CASE ~ IsSymbolicArea(k.tail)
          <6>1. k \in [head : Seq(Nat), tail : Seq(Nat \cup {Dynamic})]
            BY <2>2 DEF FunctionKey
          <6>2. \A i \in 1 .. Len(k.tail) : k.tail[i] \in Nat
            BY <5>2, <6>1, ElementOfSeq DEF IsSymbolicArea
          <6>3. k.tail \in Seq(Nat)
            BY <6>1, <6>2
          <6> QED
            BY <6>1, <6>3 DEF HWOpKey
        <5> QED
          BY <3>6, <5>1, <5>2 DEF aside
      <4>2. registry \in Seq([key : HWOpKey, func : Funcs]) /\ Sorted(registry)
        BY DEF RegistryInv, Entries
      <4>3. /\ registry' \in Seq([key : HWOpKey, func : Funcs]) /\ Sorted(registry')
            /\ \A probe \in HWOpKey :
                 Lookup(registry', probe) =
                   IF Matches(probe, k) THEN FuncOf(u) ELSE Lookup(registry, probe)
        BY <2>4, <3>1, <3>6, <4>1, <4>2, AssignThenLookup DEF u
      <4> QED
        BY <2>1, <2>3, <3>3, <3>4, <4>3 DEF RegistryInv, Sorted, Entries, K
    <3> QED
      BY <3>5, <3>6
  <2> QED
    BY <2>5, <2>6
<1> QED
  BY <1>1, <1>2

(* Every lookup of an operation that is not a transfer returns the function *)
(* indexed last among those its key stands for, for every platform and for  *)
(* keys of any length: indexing in any order, overwriting included, never   *)
(* hides an entry behind another one.                                       *)
THEOREM LookupsAlwaysExact == RegistrySpec => []LookupsExact
<1>1. RegistryInv => LookupsExact
  <2> SUFFICES ASSUME RegistryInv, NEW e \in ToSet(indexed), NEW n \in 0 .. 2,
                      NEW tail \in [1 .. n -> {0, 1}],
                      KindOf([head |-> e.key.head, tail |-> tail]) # DataMover
               PROVE  Lookup(registry, [head |-> e.key.head, tail |-> tail])
                        = Latest([head |-> e.key.head, tail |-> tail])
    BY DEF LookupsExact
  <2>1. e.key.head \in Seq(Nat)
    <3> DEFINE K == [key : [head : Seq(Nat), tail : Seq(Nat \cup {Dynamic})], func : Funcs]
    <3>1. PICK i \in DOMAIN indexed : e = indexed[i]
      BY DEF ToSet
    <3>2. e \in K
      <4>1. indexed \in Seq(K)
        BY DEF RegistryInv
      <4> HIDE DEF K
      <4>2. i \in 1 .. Len(indexed)
        BY <3>1, <4>1, LenProperties
      <4> QED
        BY <3>1, <4>1, <4>2, ElementOfSeq
    <3> QED
      BY <3>2
  <2>2. tail \in Seq(Nat)
    OBVIOUS
  <2> QED
    BY <2>1, <2>2 DEF RegistryInv, HWOpKey
<1>2. RegistryInit => RegistryInv
  BY RegistryInitial
<1>3. RegistryInv /\ [IndexModule]_registryVars => RegistryInv'
  BY RegistryStep
<1> QED
  BY <1>1, <1>2, <1>3, PTL DEF RegistrySpec

=============================================================================

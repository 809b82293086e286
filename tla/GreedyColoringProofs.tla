------------------------- MODULE GreedyColoringProofs -------------------------
(***************************************************************************)
(* Proofs about GreedyColoring, for every bucket.  The argument is one     *)
(* inductive invariant, IInv: between two rounds of the solver the edges   *)
(* are those of the graph, a colour node is coloured as a whole, two       *)
(* linked nodes have different colours and the colours given are exactly   *)
(* the slots counted; after the syncs were accepted, each ends its input's *)
(* life where its result's begins; and, in a bucket that only lifetimes    *)
(* constrain, VBs are coloured in order of birth and as many of them as    *)
(* there are slots interfere pairwise.  The safety properties follow.      *)
(***************************************************************************)
EXTENDS GreedyColoring, FiniteSetTheorems, TLAPS

(* The bucket's own data never changes. *)
BucketOK ==
  /\ size \in 1 .. MaxVBs
  /\ birth \in [VB -> 0 .. MaxIndex]
  /\ death \in [VB -> 0 .. MaxIndex]
  /\ \A v \in VB : birth[v] <= death[v]
  /\ syncs \subseteq SyncOps
  /\ \A s, t \in syncs : s[3] = t[3] => s = t
  /\ exclusive \subseteq VB
  /\ handoff \subseteq VB \X VB

(* A sync that buildColorNodes() accepted is the last use of its input and  *)
(* the birth of its result.                                                 *)
SyncHandsOver(s) == birth[s[1]] < death[s[1]] /\ death[s[1]] = s[3] /\ birth[s[2]] = s[3]

SyncsAccepted == phase \in {"color", "done"} => \A s \in syncs : SyncHandsOver(s)

(* What the solver has built so far. *)
SolverOK ==
  /\ phase \in {"build", "color", "done", "fatal"}
  /\ edges = IF phase \in {"color", "done"} THEN Graph ELSE {}
  /\ numColors \in 0 .. size + 1
  /\ color \in [VB -> -1 .. size]

(* Nobody is coloured before the graph is built. *)
FreshOK == phase \in {"build", "fatal"} => \A v \in VB : color[v] = -1

(* A colour node is coloured in one round. *)
NodeUniform == \A u, v \in VB : NodeOf(u) = NodeOf(v) => color[u] = color[v]

(* The colouring is proper on the nodes coloured so far. *)
Proper ==
  \A u, v \in VB :
    (color[u] >= 0 /\ color[v] >= 0 /\ {NodeOf(u), NodeOf(v)} \in edges)
      => color[u] # color[v]

(* The solver stops only when everybody is coloured. *)
DoneOK == phase = "done" => \A v \in VB : color[v] >= 0

(* Only lifetimes constrain the bucket. *)
Plain == syncs = {} /\ handoff = {} /\ exclusive = {}

(* The solver colours in order of birth, the longest of equals first. *)
BirthOrder ==
  Plain => \A u, v \in VB :
             (color[u] >= 0 /\ color[v] = -1)
               => birth[u] < birth[v] \/ (birth[u] = birth[v] /\ death[v] <= death[u])

Clique(S) == \A u, v \in S : u = v \/ PairInterferes(u, v)

(* Some clique is as large as the number of slots: it was met where the     *)
(* last slot was opened.                                                    *)
SlotsNeeded == Plain => \E S \in SUBSET VB : Clique(S) /\ Cardinality(S) = numColors

IInv == BucketOK /\ SolverOK /\ FreshOK /\ NodeUniform /\ Proper /\ SlotsInUse /\ DoneOK

(* Inductive together with IInv. *)
LifetimeInv == SyncsAccepted /\ BirthOrder /\ SlotsNeeded

-----------------------------------------------------------------------------
(* A VB belongs to its own colour node. *)
LEMMA NodeOfSelf == ASSUME NEW v \in VB PROVE v \in NodeOf(v)
  BY DEF NodeOf

(* What a sync is. *)
LEMMA SyncTyped ==
  ASSUME BucketOK, NEW s \in syncs
  PROVE  /\ s \in VB \X VB \X (0 .. MaxIndex)
         /\ s[1] \in VB /\ s[2] \in VB
         /\ s[1] \in Synced /\ s[2] \in Synced
  BY DEF BucketOK, SyncOps, Synced

LEMMA SyncedVB == ASSUME BucketOK PROVE Synced \subseteq VB
  BY SyncTyped DEF Synced

(* A colour node consists of VBs. *)
LEMMA NodeOfVB == ASSUME BucketOK, NEW v \in VB PROVE NodeOf(v) \subseteq VB
<1>1. Synced \subseteq VB
  BY SyncedVB
<1> QED
  BY <1>1 DEF NodeOf

(* Colour nodes are a partition: the node of a member is the node itself,   *)
(* so union-find's representative does not matter.                          *)
LEMMA NodeOfMember ==
  ASSUME NEW v \in VB, NEW u \in NodeOf(v)
  PROVE  NodeOf(u) = NodeOf(v)
<1>1. CASE v \notin Synced
  BY <1>1 DEF NodeOf
<1>2. CASE v \in Synced
  <2>1. u \in Synced
    BY <1>2 DEF NodeOf
  <2>2. ASSUME NEW S \in SUBSET Synced, SyncClosed(S), u \in S, v \notin S
        PROVE  FALSE
    <3>1. SyncClosed(Synced \ S)
      BY <2>2 DEF SyncClosed, Synced
    <3>2. v \in Synced \ S /\ Synced \ S \in SUBSET Synced
      BY <1>2, <2>2
    <3>3. u \in Synced \ S
      BY <1>2, <3>1, <3>2 DEF NodeOf
    <3> QED
      BY <2>2, <3>3
  <2>3. ASSUME NEW S \in SUBSET Synced, SyncClosed(S)
        PROVE  u \in S <=> v \in S
    BY <1>2, <2>2, <2>3 DEF NodeOf
  <2> QED
    BY <1>2, <2>1, <2>3 DEF NodeOf
<1> QED
  BY <1>1, <1>2

(* Two VBs that a loom.sync connects are one colour node. *)
LEMMA SyncSameNode ==
  ASSUME BucketOK, NEW s \in syncs
  PROVE  s[1] \in VB /\ s[2] \in VB /\ NodeOf(s[1]) = NodeOf(s[2])
<1>1. s[1] \in VB /\ s[2] \in VB /\ s[1] \in Synced /\ s[2] \in Synced
  BY SyncTyped
<1>2. s[2] \in NodeOf(s[1])
  BY <1>1 DEF NodeOf, SyncClosed
<1> QED
  BY <1>1, <1>2, NodeOfMember

(* Two VBs of different nodes that interfere, or one of which is exclusive, *)
(* are linked in the graph.                                                 *)
LEMMA GraphLinks ==
  ASSUME BucketOK, NEW u \in VB, NEW v \in VB, NodeOf(u) # NodeOf(v),
         PairInterferes(u, v) \/ u \in exclusive \/ v \in exclusive
  PROVE  {NodeOf(u), NodeOf(v)} \in Graph
<1>1. u \in NodeOf(u) /\ v \in NodeOf(v)
  BY NodeOfSelf
<1>2. MustDiffer(NodeOf(u), NodeOf(v))
  BY <1>1 DEF MustDiffer
<1>3. NodeOf(u) \in ColorNodes /\ NodeOf(v) \in ColorNodes
  BY DEF ColorNodes
<1> DEFINE e == <<NodeOf(u), NodeOf(v)>>
<1>4. e \in ColorNodes \X ColorNodes /\ e[1] # e[2] /\ MustDiffer(e[1], e[2])
  BY <1>2, <1>3
<1>5. {e[1], e[2]} \in Graph
  BY <1>4 DEF Graph
<1> QED
  BY <1>5

(* An edge joins two different nodes. *)
LEMMA GraphIrreflexive ==
  ASSUME NEW u \in VB
  PROVE  {NodeOf(u), NodeOf(u)} \notin Graph
<1> SUFFICES ASSUME {NodeOf(u), NodeOf(u)} \in Graph PROVE FALSE
  OBVIOUS
<1>1. PICK f \in ColorNodes \X ColorNodes :
        f[1] # f[2] /\ {f[1], f[2]} = {NodeOf(u), NodeOf(u)}
  BY DEF Graph
<1>2. f[1] \in {f[1], f[2]} /\ f[2] \in {f[1], f[2]}
  OBVIOUS
<1> QED
  BY <1>1, <1>2

-----------------------------------------------------------------------------
(* What shares a node because of loom.sync. *)

(* u is dead before v is born. *)
Before(u, v) == birth[u] < death[u] /\ death[u] <= birth[v]

(* A node of accepted syncs is a chain: each VB is defined by at most one   *)
(* sync and handed over by at most one, so the members of the node of v are *)
(* those that follow v and those that precede it.                           *)
LEMMA NodeIsChain ==
  ASSUME BucketOK, \A s \in syncs : SyncHandsOver(s), NEW v \in Synced, NEW u \in NodeOf(v)
  PROVE  u = v \/ Before(u, v) \/ Before(v, u)
<1> DEFINE Forward(S) == \A s \in syncs : s[1] \in S => s[2] \in S
           Backward(S) == \A s \in syncs : s[2] \in S => s[1] \in S
           F == {w \in Synced : \A S \in SUBSET Synced : (v \in S /\ Forward(S)) => w \in S}
           B == {w \in Synced : \A S \in SUBSET Synced : (v \in S /\ Backward(S)) => w \in S}
<1>0. /\ MaxIndex \in Nat /\ Synced \subseteq VB
      /\ birth \in [VB -> 0 .. MaxIndex] /\ death \in [VB -> 0 .. MaxIndex]
      /\ \A w \in VB : birth[w] <= death[w]
  BY BoundsAssumption, SyncedVB DEF BucketOK
<1>1. v \in F /\ v \in B
  OBVIOUS
<1>2. Forward(F)
  <2> SUFFICES ASSUME NEW s \in syncs, s[1] \in F, NEW S \in SUBSET Synced, v \in S, Forward(S)
               PROVE  s[2] \in S
    BY SyncTyped
  <2> QED
    OBVIOUS
<1>3. Backward(B)
  <2> SUFFICES ASSUME NEW s \in syncs, s[2] \in B, NEW S \in SUBSET Synced, v \in S, Backward(S)
               PROVE  s[1] \in S
    BY SyncTyped
  <2> QED
    OBVIOUS
<1>4. \A w \in F : w = v \/ Before(v, w)
  <2> DEFINE T == {w \in Synced : w = v \/ Before(v, w)}
  <2>1. Forward(T)
    <3> SUFFICES ASSUME NEW s \in syncs, s[1] \in T PROVE s[2] \in T
      OBVIOUS
    <3> QED
      BY <1>0, SyncTyped DEF SyncHandsOver, Before
  <2>2. v \in T /\ T \in SUBSET Synced
    OBVIOUS
  <2> QED
    BY <2>1, <2>2
<1>5. \A w \in B : w = v \/ Before(w, v)
  <2> DEFINE T == {w \in Synced : w = v \/ Before(w, v)}
  <2>1. Backward(T)
    <3> SUFFICES ASSUME NEW s \in syncs, s[2] \in T PROVE s[1] \in T
      OBVIOUS
    <3> QED
      BY <1>0, SyncTyped DEF SyncHandsOver, Before
  <2>2. v \in T /\ T \in SUBSET Synced
    OBVIOUS
  <2> QED
    BY <2>1, <2>2
<1>6. ASSUME NEW s \in syncs, NEW t \in syncs, s[1] = t[1] \/ s[2] = t[2]
      PROVE  s = t
  BY <1>6 DEF SyncHandsOver, BucketOK
<1>7. ASSUME NEW s \in syncs, s[1] \in B, s[1] # v, s[2] \notin B
      PROVE  FALSE
  <2> DEFINE T == B \ {s[1]}
  <2>1. Backward(T)
    BY <1>3, <1>6, <1>7
  <2>2. v \in T /\ T \in SUBSET Synced
    BY <1>1, <1>7
  <2>3. s[1] \in T
    BY <1>7, <2>1, <2>2
  <2> QED
    BY <2>3
<1>8. ASSUME NEW s \in syncs, s[2] \in F, s[2] # v, s[1] \notin F
      PROVE  FALSE
  <2> DEFINE T == F \ {s[2]}
  <2>1. Forward(T)
    BY <1>2, <1>6, <1>8
  <2>2. v \in T /\ T \in SUBSET Synced
    BY <1>1, <1>8
  <2>3. s[2] \in T
    BY <1>8, <2>1, <2>2
  <2> QED
    BY <2>3
<1>9. SyncClosed(F \cup B)
  <2> SUFFICES ASSUME NEW s \in syncs PROVE s[1] \in F \cup B <=> s[2] \in F \cup B
    BY DEF SyncClosed
  <2> HIDE DEF F, B
  <2> QED
    BY <1>1, <1>2, <1>3, <1>7, <1>8
<1>10. u \in F \cup B
  <2>1. F \cup B \in SUBSET Synced /\ v \in F \cup B
    BY <1>1
  <2> HIDE DEF F, B
  <2> QED
    BY <1>9, <2>1 DEF NodeOf
<1> QED
  BY <1>4, <1>5, <1>10

(* An accepted sync hands over: SyncOps puts it within both lifetimes, and  *)
(* the test of buildColorNodes() leaves them nothing but the sync itself.   *)
LEMMA AcceptedHandsOver ==
  ASSUME BucketOK, ~ InvalidSync, NEW s \in syncs
  PROVE  SyncHandsOver(s)
<1>1. /\ MaxIndex \in Nat /\ s \in SyncOps /\ s \in VB \X VB \X (0 .. MaxIndex)
      /\ birth \in [VB -> 0 .. MaxIndex] /\ death \in [VB -> 0 .. MaxIndex]
  BY BoundsAssumption, SyncTyped DEF BucketOK
<1>2. /\ birth[s[1]] < s[3] /\ s[3] <= death[s[1]]
      /\ birth[s[2]] <= s[3] /\ s[3] <= death[s[2]]
  BY <1>1 DEF SyncOps
<1>3. death[s[1]] <= birth[s[2]]
  BY <1>1 DEF InvalidSync
<1> QED
  BY <1>1, <1>2, <1>3 DEF SyncHandsOver

-----------------------------------------------------------------------------
(* What a bucket with lifetimes only needs. *)

(* Without syncs every VB is a node of its own, with its own lifetime. *)
LEMMA PlainNode ==
  ASSUME BucketOK, Plain, NEW v \in VB
  PROVE  NodeOf(v) = {v} /\ NodeBirth({v}) = birth[v] /\ NodeDeath({v}) = death[v]
<1>1. NodeOf(v) = {v}
  BY DEF Plain, NodeOf, Synced
<1>2. birth[v] \in Nat /\ death[v] \in Nat
  BY BoundsAssumption DEF BucketOK
<1>3. {birth[w] : w \in {v}} = {birth[v]} /\ {death[w] : w \in {v}} = {death[v]}
  OBVIOUS
<1> QED
  BY <1>1, <1>2, <1>3 DEF NodeBirth, NodeDeath

(* Nobody uncoloured comes before the VB that a round colours. *)
LEMMA FirstOfUncolored ==
  ASSUME IInv, Plain, NEW w \in VB, ColorNode({w}), NEW v \in VB, color[v] = -1
  PROVE  birth[w] < birth[v] \/ (birth[w] = birth[v] /\ death[v] <= death[w])
<1>1. BucketOK
  BY DEF IInv
<1>2. {v} \in Uncolored
  BY <1>1, PlainNode DEF Uncolored, ColorNodes
<1>3. ~ Precedes({v}, {w})
  BY <1>2 DEF ColorNode
<1>4. /\ birth[v] \in Nat /\ death[v] \in Nat /\ birth[w] \in Nat /\ death[w] \in Nat
      /\ birth[v] <= death[v] /\ birth[w] <= death[w]
  BY <1>1, BoundsAssumption DEF BucketOK
<1>5. /\ NodeBirth({v}) = birth[v] /\ NodeDeath({v}) = death[v]
      /\ NodeBirth({w}) = birth[w] /\ NodeDeath({w}) = death[w]
  BY <1>1, PlainNode
<1>6. /\ ~ (birth[v] < birth[w])
      /\ ~ (birth[v] = birth[w] /\ death[v] - birth[v] > death[w] - birth[w])
  BY <1>3, <1>5 DEF Precedes
<1> QED
  BY <1>4, <1>6

(* Two VBs that are alive just after one instant interfere. *)
LEMMA AliveTogether ==
  ASSUME BucketOK, NEW u \in VB, NEW v \in VB, u # v, NEW b \in Nat,
         birth[u] <= b, birth[v] <= b, b < death[u], b < death[v]
  PROVE  PairInterferes(u, v)
<1>1. /\ birth[u] \in Nat /\ death[u] \in Nat /\ birth[v] \in Nat /\ death[v] \in Nat
      /\ u \in Int /\ v \in Int
  BY BoundsAssumption DEF BucketOK, VB
<1> QED
  BY <1>1 DEF PairInterferes, Overlap, Earlier

(* A VB that interferes with a later one is alive just after its birth. *)
LEMMA AliveAtBirth ==
  ASSUME BucketOK, Plain, NEW u \in VB, NEW w \in VB, PairInterferes(u, w) \/ PairInterferes(w, u),
         birth[u] < birth[w] \/ (birth[u] = birth[w] /\ death[w] <= death[u])
  PROVE  birth[u] <= birth[w] /\ birth[w] < death[u]
<1>1. /\ birth[u] \in Nat /\ death[u] \in Nat /\ birth[w] \in Nat /\ death[w] \in Nat
      /\ u \in Int /\ w \in Int
  BY BoundsAssumption DEF BucketOK, VB
<1> QED
  BY <1>1 DEF Plain, PairInterferes, Overlap, Earlier

(* A slot is opened only against a clique: the VB coloured now and one      *)
(* coloured VB for every slot so far are all alive at its birth.            *)
LEMMA OpeningNeedsClique ==
  ASSUME IInv, LifetimeInv, Plain, NEW w \in VB, ColorNode({w}), NEW c \in FirstFit({w}),
         c = numColors
  PROVE  \E S \in SUBSET VB : Clique(S) /\ Cardinality(S) = c + 1
<1>1. BucketOK /\ edges = Graph /\ color[w] = -1 /\ c \in Nat /\ c <= size
  BY BoundsAssumption DEF IInv, SolverOK, BucketOK, ColorNode, Uncolored, FirstFit
<1>1a. /\ birth \in [VB -> Nat] /\ death \in [VB -> Nat] /\ color \in [VB -> -1 .. size]
       /\ size \in Nat
  BY BoundsAssumption DEF IInv, BucketOK, SolverOK
<1> DEFINE Meets(u) ==
             /\ birth[u] <= birth[w] /\ birth[w] < death[u]
             /\ PairInterferes(u, w) /\ PairInterferes(w, u)
<1>2. ASSUME NEW i \in 0 .. c - 1
      PROVE  \E u \in VB : color[u] = i /\ Meets(u)
  <2>1. i \in UsedColors({w})
    BY <1>1 DEF FirstFit
  <2>2. PICK u \in VB : color[u] = i /\ {NodeOf(u), {w}} \in Graph
    BY <1>1, <2>1 DEF UsedColors
  <2>3. u # w
    BY <1>1, <2>2
  <2>4. NodeOf(u) = {u}
    BY <1>1, PlainNode
  <2>5. PICK f \in ColorNodes \X ColorNodes :
          f[1] # f[2] /\ MustDiffer(f[1], f[2]) /\ {f[1], f[2]} = {{u}, {w}}
    BY <2>2, <2>4 DEF Graph
  <2>6. (f[1] = {u} /\ f[2] = {w}) \/ (f[1] = {w} /\ f[2] = {u})
    <3>1. f[1] \in {f[1], f[2]} /\ f[2] \in {f[1], f[2]}
      OBVIOUS
    <3> QED
      BY <2>5, <3>1
  <2>7. PairInterferes(u, w) /\ PairInterferes(w, u)
    BY <2>5, <2>6 DEF MustDiffer, Plain, PairInterferes
  <2>8. birth[u] < birth[w] \/ (birth[u] = birth[w] /\ death[w] <= death[u])
    BY <1>1, <1>1a, <2>2 DEF LifetimeInv, BirthOrder
  <2> QED
    BY <1>1, <2>2, <2>7, <2>8, AliveAtBirth
<1> HIDE DEF Meets
<1> DEFINE g == [i \in 0 .. c - 1 |-> CHOOSE u \in VB : color[u] = i /\ Meets(u)]
           R == {g[i] : i \in 0 .. c - 1}
<1>3. \A i \in 0 .. c - 1 :
        g[i] \in VB /\ color[g[i]] = i /\ Meets(g[i])
  BY <1>2
<1> HIDE DEF g
<1>4. Cardinality(R) = c /\ IsFiniteSet(R)
  <2>1. g \in Injection(0 .. c - 1, R)
    <3>1. \A i, j \in 0 .. c - 1 : g[i] = g[j] => i = j
      BY <1>3
    <3>2. g \in [0 .. c - 1 -> R]
      BY DEF g
    <3> QED
      BY <3>1, <3>2 DEF Injection, IsInjective
  <2>2. g \in Surjection(0 .. c - 1, R)
    <3>1. g \in [0 .. c - 1 -> R]
      BY DEF g
    <3>2. \A u \in R : \E i \in 0 .. c - 1 : g[i] = u
      OBVIOUS
    <3> QED
      BY <3>1, <3>2 DEF Surjection
  <2> HIDE DEF R
  <2>3. ExistsBijection(0 .. c - 1, R)
    <3>1. g \in Bijection(0 .. c - 1, R)
      BY <2>1, <2>2 DEF Bijection
    <3> QED
      BY <3>1 DEF ExistsBijection
  <2>4. c - 1 \in Int /\ c \in Nat
    BY <1>1
  <2>5. IsFiniteSet(0 .. c - 1) /\ Cardinality(0 .. c - 1) = c
    BY <2>4, FS_Interval
  <2> QED
    BY <2>3, <2>5, FS_Bijection
<1>5. R \subseteq VB /\ w \notin R
  BY <1>1, <1>3
<1>6. Cardinality(R \cup {w}) = c + 1
  BY <1>4, <1>5, FS_AddElement
<1>7. Clique(R \cup {w})
  <2>1. birth[w] \in Nat
    BY <1>1a
  <2>2. ASSUME NEW u \in R, NEW v \in R, u # v PROVE PairInterferes(u, v)
    <3>1. Meets(u) /\ Meets(v) /\ u \in VB /\ v \in VB
      BY <1>3
    <3> QED
      BY <1>1, <2>1, <2>2, <3>1, AliveTogether DEF Meets
  <2>3. ASSUME NEW u \in R PROVE PairInterferes(u, w) /\ PairInterferes(w, u)
    BY <1>3 DEF Meets
  <2> QED
    BY <2>2, <2>3 DEF Clique
<1> QED
  BY <1>5, <1>6, <1>7

-----------------------------------------------------------------------------
(* The sets the instances enumerate are subsets. *)
LEMMA AtMostSubset ==
  ASSUME NEW k, NEW S, NEW T \in AtMost(k, S)
  PROVE  T \subseteq S
<1>1. CASE T = {}
  BY <1>1
<1>2. ASSUME NEW f \in [1 .. k -> S], T = {f[i] : i \in 1 .. k}
      PROVE  T \subseteq S
  BY <1>2
<1> QED
  BY <1>1, <1>2 DEF AtMost

(* The initial states satisfy the invariant. *)
LEMMA InitInv == Init => IInv
<1> SUFFICES ASSUME Init PROVE IInv
  OBVIOUS
<1>1. BucketOK
  <2>1. syncs \in AtMost(Tied(MaxSyncs), SyncOps)
    BY DEF Init
  <2>2. syncs \subseteq SyncOps
    BY <2>1, AtMostSubset
  <2>3. exclusive \subseteq VB
    BY AtMostSubset DEF Init
  <2>4. handoff \subseteq {p \in VB \X VB : Touching(p[1], p[2])}
    BY AtMostSubset DEF Init
  <2> QED
    BY <2>2, <2>3, <2>4 DEF Init, BucketOK
<1>2. SolverOK
  BY BoundsAssumption DEF Init, SolverOK
<1>3. FreshOK /\ NodeUniform /\ DoneOK
  BY DEF Init, FreshOK, NodeUniform, DoneOK
<1>4. Proper
  BY DEF Init, Proper
<1>5. SlotsInUse
  <2>1. \A c \in {color[v] : v \in VB} : c = -1
    BY DEF Init
  <2>2. 0 .. numColors - 1 = {}
    BY DEF Init
  <2> QED
    BY <2>1, <2>2 DEF SlotsInUse
<1> QED
  BY <1>1, <1>2, <1>3, <1>4, <1>5 DEF IInv

(* The graph and the nodes depend on the bucket only. *)
LEMMA BucketFixed ==
  ASSUME UNCHANGED bucket
  PROVE  /\ VB' = VB
         /\ (\A v : NodeOf(v)' = NodeOf(v))
         /\ Graph' = Graph
         /\ (BucketOK => BucketOK')
  BY DEF bucket, VB, NodeOf, Synced, SyncClosed, Graph, ColorNodes, MustDiffer, PairInterferes,
         Overlap, Touching, Earlier, BucketOK, SyncOps

(* Building the graph colours nothing. *)
LEMMA BuildInv == IInv /\ Build => IInv'
<1> SUFFICES ASSUME IInv, Build PROVE IInv'
  OBVIOUS
<1>1. UNCHANGED bucket /\ UNCHANGED color /\ UNCHANGED numColors /\ phase' = "color"
  BY DEF Build
<1>2. BucketOK' /\ VB' = VB /\ UNCHANGED size /\ (\A v : NodeOf(v)' = NodeOf(v))
  BY <1>1, BucketFixed DEF IInv, bucket
<1>3. SolverOK'
  BY <1>1, <1>2, BucketFixed DEF IInv, SolverOK, Build
<1>4. \A v \in VB : color[v] = -1
  BY DEF IInv, FreshOK, Build
<1>5. FreshOK' /\ DoneOK'
  BY <1>1 DEF FreshOK, DoneOK
<1>6. NodeUniform' /\ Proper'
  BY <1>1, <1>2, <1>4 DEF NodeUniform, Proper
<1>7. SlotsInUse'
  BY <1>1, <1>2 DEF IInv, SlotsInUse
<1> QED
  BY <1>2, <1>3, <1>5, <1>6, <1>7 DEF IInv

(* Coloured before the round: everybody of another node keeps its colour,   *)
(* and the node coloured now was not coloured at all.                       *)
LEMMA RoundFacts ==
  ASSUME IInv, NEW n \in ColorNodes, ColorNode(n)
  PROVE  /\ n \subseteq VB
         /\ n # {}
         /\ \A v \in VB : v \in n <=> NodeOf(v) = n
         /\ \A v \in n : color[v] = -1
         /\ edges = Graph
         /\ UNCHANGED bucket
         /\ phase = "color" /\ phase' = "color"
<1>1. PICK w \in VB : n = NodeOf(w)
  BY DEF ColorNodes
<1>2. n \subseteq VB
  BY <1>1, NodeOfVB DEF IInv
<1>3. n # {}
  BY <1>1, NodeOfSelf
<1>4. ASSUME NEW v \in VB PROVE v \in n <=> NodeOf(v) = n
  BY <1>1, NodeOfMember, NodeOfSelf DEF IInv
<1>5. \A v \in n : color[v] = -1
  BY DEF ColorNode, Uncolored
<1>6. edges = Graph /\ UNCHANGED bucket /\ phase = "color" /\ phase' = "color"
  BY DEF ColorNode, IInv, SolverOK
<1> QED
  BY <1>2, <1>3, <1>4, <1>5, <1>6

(* First fit skips no slot: the colour given is one of the slots counted,   *)
(* or the next.                                                             *)
LEMMA NoSlotSkipped ==
  ASSUME IInv, NEW n, NEW c \in FirstFit(n)
  PROVE  UsedColors(n) \subseteq {color[v] : v \in VB} \ {-1} /\ c <= numColors
<1>1. /\ c \in 0 .. size /\ 0 .. c-1 \subseteq UsedColors(n)
      /\ size \in Nat /\ numColors \in Nat /\ color \in [VB -> -1 .. size]
      /\ {color[v] : v \in VB} \ {-1} = 0 .. numColors - 1
  BY BoundsAssumption DEF IInv, BucketOK, SolverOK, FirstFit, SlotsInUse
<1>2. UsedColors(n) \subseteq {color[v] : v \in VB} \ {-1}
  <2> SUFFICES ASSUME NEW x \in UsedColors(n) PROVE x \in {color[v] : v \in VB} \ {-1}
    OBVIOUS
  <2>1. PICK v \in VB : color[v] >= 0 /\ x = color[v]
    BY DEF UsedColors
  <2> QED
    BY <2>1
<1>3. c <= numColors
  <2> SUFFICES ASSUME c > numColors PROVE FALSE
    BY <1>1
  <2>1. numColors \in 0 .. c-1
    BY <1>1
  <2> QED
    BY <1>1, <1>2, <2>1
<1> QED
  BY <1>2, <1>3

(* One round of first fit keeps the invariant. *)
LEMMA ColorNodeInv ==
  ASSUME IInv, NEW n \in ColorNodes, ColorNode(n)
  PROVE  IInv'
<1>1. PICK c \in FirstFit(n) :
        /\ color' = [v \in VB |-> IF v \in n THEN c ELSE color[v]]
        /\ numColors' = IF c >= numColors THEN c + 1 ELSE numColors
  BY DEF ColorNode
<1>2. c \in 0 .. size /\ c \notin UsedColors(n) /\ 0 .. c-1 \subseteq UsedColors(n)
  BY DEF FirstFit
<1>3. /\ n \subseteq VB /\ n # {}
      /\ \A v \in VB : v \in n <=> NodeOf(v) = n
      /\ \A v \in n : color[v] = -1
      /\ edges = Graph /\ UNCHANGED bucket /\ phase = "color" /\ phase' = "color"
  BY RoundFacts
<1>4. /\ BucketOK' /\ Graph' = Graph /\ (\A v : NodeOf(v)' = NodeOf(v)) /\ edges' = edges
      /\ VB' = VB /\ UNCHANGED size
  BY <1>3, BucketFixed DEF IInv, ColorNode, bucket
<1>5. size \in Nat /\ color \in [VB -> -1 .. size] /\ numColors \in 0 .. size + 1
  BY BoundsAssumption DEF IInv, SolverOK, BucketOK
<1>6. color' \in [VB -> -1 .. size]
  BY <1>1, <1>2, <1>5, BoundsAssumption
<1>7. SolverOK'
  <2>1. numColors' \in 0 .. size + 1
    BY <1>1, <1>2, <1>5, BoundsAssumption
  <2> QED
    BY <1>3, <1>4, <1>6, <2>1 DEF SolverOK
<1>8. FreshOK' /\ DoneOK'
  BY <1>3 DEF FreshOK, DoneOK
<1>9. NodeUniform'
  BY <1>1, <1>3, <1>4 DEF NodeUniform, IInv
<1>10. Proper'
  <2> SUFFICES ASSUME NEW u \in VB, NEW v \in VB, color'[u] >= 0, color'[v] >= 0,
                      {NodeOf(u), NodeOf(v)} \in Graph
               PROVE  color'[u] # color'[v]
    BY <1>3, <1>4 DEF Proper
  <2>1. CASE u \in n /\ v \in n
    BY <1>3, <2>1, GraphIrreflexive
  <2>2. CASE u \in n /\ v \notin n
    <3>1. color'[u] = c /\ color'[v] = color[v]
      BY <1>1, <2>2
    <3>2. {NodeOf(v), n} \in edges
      BY <1>3, <2>2
    <3>3. color[v] \in UsedColors(n)
      BY <3>1, <3>2 DEF UsedColors
    <3> QED
      BY <1>2, <3>1, <3>3
  <2>3. CASE u \notin n /\ v \in n
    <3>1. color'[v] = c /\ color'[u] = color[u]
      BY <1>1, <2>3
    <3>2. {NodeOf(u), n} \in edges
      BY <1>3, <2>3
    <3>3. color[u] \in UsedColors(n)
      BY <3>1, <3>2 DEF UsedColors
    <3> QED
      BY <1>2, <3>1, <3>3
  <2>4. CASE u \notin n /\ v \notin n
    <3>1. color'[u] = color[u] /\ color'[v] = color[v]
      BY <1>1, <2>4
    <3> QED
      BY <1>3, <3>1 DEF IInv, Proper
  <2> QED
    BY <2>1, <2>2, <2>3, <2>4
<1>11. SlotsInUse'
  <2> DEFINE given == {color[v] : v \in VB} \ {-1}
             given1 == {color'[v] : v \in VB} \ {-1}
  <2>1. given = 0 .. numColors - 1
    BY DEF IInv, SlotsInUse
  <2>2. given1 = given \cup {c}
    <3>1. ASSUME NEW x \in given1 PROVE x \in given \cup {c}
      BY <1>1, <3>1
    <3>2. ASSUME NEW x \in given PROVE x \in given1
      <4>1. PICK v \in VB : x = color[v] /\ x # -1
        BY <3>2
      <4>2. v \notin n
        BY <4>1, <1>3
      <4>3. color'[v] = x
        BY <4>1, <4>2, <1>1
      <4> QED
        BY <4>1, <4>3
    <3>3. c \in given1
      <4>1. PICK w \in n : TRUE
        BY <1>3
      <4>2. w \in VB /\ color'[w] = c
        BY <4>1, <1>1, <1>3
      <4> QED
        BY <4>2, <1>2
    <3> QED
      BY <3>1, <3>2, <3>3
  <2>3. c <= numColors
    BY NoSlotSkipped
  <2>4. given1 = 0 .. numColors' - 1
    BY <1>1, <1>2, <1>5, <2>1, <2>2, <2>3
  <2> QED
    BY <1>4, <2>4 DEF SlotsInUse
<1> QED
  BY <1>4, <1>7, <1>8, <1>9, <1>10, <1>11 DEF IInv

(* The solver stops with everybody coloured. *)
LEMMA FinishInv == IInv /\ Finish => IInv'
<1> SUFFICES ASSUME IInv, Finish PROVE IInv'
  OBVIOUS
<1>1. UNCHANGED bucket /\ UNCHANGED color /\ UNCHANGED numColors /\ UNCHANGED edges
      /\ phase = "color" /\ phase' = "done" /\ Uncolored = {}
  BY DEF Finish
<1>2. /\ BucketOK' /\ Graph' = Graph /\ (\A v : NodeOf(v)' = NodeOf(v))
      /\ VB' = VB /\ UNCHANGED size
  BY <1>1, BucketFixed DEF IInv, bucket
<1>3. SolverOK' /\ FreshOK'
  BY <1>1, <1>2 DEF IInv, SolverOK, FreshOK
<1>4. NodeUniform' /\ Proper' /\ SlotsInUse'
  BY <1>1, <1>2 DEF IInv, NodeUniform, Proper, SlotsInUse
<1>5. ASSUME NEW v \in VB PROVE color[v] >= 0
  <2>1. NodeOf(v) \notin Uncolored /\ NodeOf(v) \in ColorNodes
    BY <1>1 DEF ColorNodes
  <2>2. PICK u \in NodeOf(v) : color[u] # -1
    BY <2>1 DEF Uncolored
  <2>3. u \in VB /\ NodeOf(u) = NodeOf(v)
    BY NodeOfVB, NodeOfMember DEF IInv
  <2>4. color[v] = color[u]
    BY <2>3 DEF IInv, NodeUniform
  <2> QED
    BY <2>2, <2>3, <2>4 DEF IInv, SolverOK
<1>6. DoneOK'
  BY <1>1, <1>2, <1>5 DEF DoneOK
<1> QED
  BY <1>2, <1>3, <1>4, <1>6 DEF IInv

(* The invariant is inductive. *)
LEMMA NextInv == IInv /\ [Next]_vars => IInv'
<1> SUFFICES ASSUME IInv, [Next]_vars PROVE IInv'
  OBVIOUS
<1>1. CASE Build
  BY <1>1, BuildInv
<1>2. CASE Fatal
  <2>1. UNCHANGED bucket /\ UNCHANGED color /\ UNCHANGED numColors /\ UNCHANGED edges
        /\ phase = "build" /\ phase' = "fatal"
    BY <1>2 DEF Fatal
  <2>2. /\ BucketOK' /\ Graph' = Graph /\ (\A v : NodeOf(v)' = NodeOf(v))
        /\ VB' = VB /\ UNCHANGED size
    BY <2>1, BucketFixed DEF IInv, bucket
  <2> QED
    BY <2>1, <2>2 DEF IInv, SolverOK, FreshOK, NodeUniform, Proper, SlotsInUse, DoneOK
<1>3. CASE \E n \in ColorNodes : ColorNode(n)
  BY <1>3, ColorNodeInv
<1>4. CASE Finish
  BY <1>4, FinishInv
<1>5. CASE UNCHANGED vars
  <2>1. UNCHANGED bucket /\ UNCHANGED <<phase, edges, color, numColors>>
    BY <1>5 DEF vars, bucket
  <2>2. /\ BucketOK' /\ Graph' = Graph /\ (\A v : NodeOf(v)' = NodeOf(v))
        /\ VB' = VB /\ UNCHANGED size
    BY <2>1, BucketFixed DEF IInv, bucket
  <2> QED
    BY <2>1, <2>2 DEF IInv, SolverOK, FreshOK, NodeUniform, Proper, SlotsInUse, DoneOK
<1> QED
  BY <1>1, <1>2, <1>3, <1>4, <1>5 DEF Next

-----------------------------------------------------------------------------
(* The second half of the invariant. *)

LEMMA LifetimeInit == Init => LifetimeInv
<1> SUFFICES ASSUME Init PROVE LifetimeInv
  OBVIOUS
<1>1. SyncsAccepted /\ BirthOrder
  BY DEF Init, SyncsAccepted, BirthOrder
<1>2. Clique({}) /\ Cardinality({}) = numColors
  BY FS_EmptySet DEF Init, Clique
<1> QED
  BY <1>1, <1>2 DEF LifetimeInv, SlotsNeeded

(* Neither lifetimes nor syncs change, so what is said of them stays. *)
LEMMA LifetimeFixed ==
  ASSUME UNCHANGED bucket
  PROVE  /\ VB' = VB /\ Plain' = Plain
         /\ (\A s : SyncHandsOver(s)' = SyncHandsOver(s))
         /\ (\A S : Clique(S)' = Clique(S))
         /\ UNCHANGED <<birth, death, syncs>>
  BY DEF bucket, VB, Plain, SyncHandsOver, Clique, PairInterferes, Overlap, Touching, Earlier

(* A step that colours nothing keeps it. *)
LEMMA LifetimeStutter ==
  ASSUME LifetimeInv, UNCHANGED bucket, UNCHANGED <<color, numColors>>,
         SyncsAccepted'
  PROVE  LifetimeInv'
<1>1. BirthOrder'
  BY LifetimeFixed DEF LifetimeInv, BirthOrder
<1>2. SlotsNeeded'
  BY LifetimeFixed DEF LifetimeInv, SlotsNeeded
<1> QED
  BY <1>1, <1>2 DEF LifetimeInv

(* A round keeps it: it colours a VB that nobody uncoloured precedes, and   *)
(* counts a new slot only where a clique demands it.                        *)
LEMMA LifetimeRound ==
  ASSUME IInv, LifetimeInv, NEW n \in ColorNodes, ColorNode(n)
  PROVE  LifetimeInv'
<1>1. PICK c \in FirstFit(n) :
        /\ color' = [v \in VB |-> IF v \in n THEN c ELSE color[v]]
        /\ numColors' = IF c >= numColors THEN c + 1 ELSE numColors
  BY DEF ColorNode
<1>2. UNCHANGED bucket /\ phase = "color" /\ phase' = "color" /\ BucketOK /\ c \in 0 .. size
  BY RoundFacts DEF IInv, FirstFit
<1>3. SyncsAccepted'
  BY <1>2, LifetimeFixed DEF LifetimeInv, SyncsAccepted
<1>4. ASSUME Plain PROVE \E w \in VB : n = {w} /\ color[w] = -1
  <2>1. PICK w \in VB : n = NodeOf(w)
    BY DEF ColorNodes
  <2>2. n = {w}
    BY <1>2, <1>4, <2>1, PlainNode
  <2> QED
    BY <2>2 DEF ColorNode, Uncolored
<1>5. BirthOrder'
  <2> SUFFICES ASSUME Plain, NEW u \in VB, NEW v \in VB, color'[u] >= 0, color'[v] = -1
               PROVE  birth[u] < birth[v] \/ (birth[u] = birth[v] /\ death[v] <= death[u])
    BY <1>2, LifetimeFixed DEF BirthOrder
  <2>1. PICK w \in VB : n = {w} /\ color[w] = -1
    BY <1>4
  <2>2. v # w /\ color[v] = -1
    BY <1>1, <1>2, <2>1
  <2>3. CASE u = w
    BY <2>1, <2>2, <2>3, FirstOfUncolored
  <2>4. CASE u # w
    <3>1. color[u] >= 0
      BY <1>1, <2>1, <2>4
    <3> QED
      BY <2>2, <3>1 DEF LifetimeInv, BirthOrder
  <2> QED
    BY <2>3, <2>4
<1>6. SlotsNeeded'
  <2> SUFFICES ASSUME Plain
               PROVE  \E S \in SUBSET VB : Clique(S) /\ Cardinality(S) = numColors'
    BY <1>2, LifetimeFixed DEF SlotsNeeded
  <2>1. PICK w \in VB : n = {w} /\ color[w] = -1
    BY <1>4
  <2>2. c <= numColors
    BY NoSlotSkipped
  <2>3. CASE c = numColors
    <3>1. numColors' = c + 1
      BY <1>1, <1>2, <2>3, BoundsAssumption DEF BucketOK
    <3> QED
      BY <2>1, <2>3, <3>1, OpeningNeedsClique
  <2>4. CASE c < numColors
    <3>1. numColors' = numColors
      BY <1>1, <1>2, <2>4, BoundsAssumption DEF BucketOK, IInv, SolverOK
    <3> QED
      BY <3>1 DEF LifetimeInv, SlotsNeeded
  <2> QED
    BY <1>2, <2>2, <2>3, <2>4, BoundsAssumption DEF BucketOK, IInv, SolverOK
<1> QED
  BY <1>3, <1>5, <1>6 DEF LifetimeInv

LEMMA LifetimeNext == IInv /\ LifetimeInv /\ [Next]_vars => LifetimeInv'
<1> SUFFICES ASSUME IInv, LifetimeInv, [Next]_vars PROVE LifetimeInv'
  OBVIOUS
<1>1. CASE Build
  <2>1. UNCHANGED bucket /\ UNCHANGED <<color, numColors>> /\ ~ InvalidSync /\ phase' = "color"
    BY <1>1 DEF Build
  <2>2. SyncsAccepted'
    BY <2>1, LifetimeFixed, AcceptedHandsOver DEF SyncsAccepted, IInv
  <2> QED
    BY <2>1, <2>2, LifetimeStutter
<1>2. CASE Fatal
  <2>1. UNCHANGED bucket /\ UNCHANGED <<color, numColors>> /\ phase' = "fatal"
    BY <1>2 DEF Fatal
  <2> QED
    BY <2>1, LifetimeStutter DEF SyncsAccepted
<1>3. CASE \E n \in ColorNodes : ColorNode(n)
  BY <1>3, LifetimeRound
<1>4. CASE Finish
  <2>1. UNCHANGED bucket /\ UNCHANGED <<color, numColors>> /\ phase = "color"
    BY <1>4 DEF Finish
  <2>2. SyncsAccepted'
    BY <2>1, LifetimeFixed DEF SyncsAccepted, LifetimeInv
  <2> QED
    BY <2>1, <2>2, LifetimeStutter
<1>5. CASE UNCHANGED vars
  <2>1. UNCHANGED bucket /\ UNCHANGED <<phase, color, numColors>>
    BY <1>5 DEF vars, bucket
  <2>2. SyncsAccepted'
    BY <2>1, LifetimeFixed DEF SyncsAccepted, LifetimeInv
  <2> QED
    BY <2>1, <2>2, LifetimeStutter
<1> QED
  BY <1>1, <1>2, <1>3, <1>4, <1>5 DEF Next

-----------------------------------------------------------------------------
(* The invariant holds in every reachable state of every bucket. *)
THEOREM InvariantHolds == Spec => [](IInv /\ LifetimeInv)
<1>1. Init => IInv /\ LifetimeInv
  BY InitInv, LifetimeInit
<1>2. (IInv /\ LifetimeInv) /\ [Next]_vars => (IInv /\ LifetimeInv)'
  BY NextInv, LifetimeNext
<1> QED
  BY <1>1, <1>2, PTL DEF Spec

(* Type correctness of the solver's state. *)
THEOREM TypeCorrect == Spec => []TypeOK
<1>1. IInv => TypeOK
  <2> SUFFICES ASSUME IInv PROVE TypeOK
    OBVIOUS
  <2>1. edges \subseteq SUBSET ColorNodes
    BY DEF IInv, SolverOK, Graph
  <2> QED
    BY <2>1, SyncTyped DEF IInv, BucketOK, SolverOK, TypeOK
<1> QED
  BY <1>1, InvariantHolds, PTL

(* What the invariant says about colours. *)
LEMMA InvSeparates == IInv => NoSharedOverlap /\ ExclusiveAlone
<1> SUFFICES ASSUME IInv PROVE NoSharedOverlap /\ ExclusiveAlone
  OBVIOUS
<1>1. ASSUME NEW u \in VB, NEW v \in VB, color[u] >= 0, color[v] >= 0, NodeOf(u) # NodeOf(v),
             PairInterferes(u, v) \/ u \in exclusive
      PROVE  color[u] # color[v]
  <2>1. {NodeOf(u), NodeOf(v)} \in Graph
    BY <1>1, GraphLinks DEF IInv
  <2>2. edges = Graph
    BY <1>1 DEF IInv, FreshOK, SolverOK
  <2> QED
    BY <1>1, <2>1, <2>2 DEF IInv, Proper
<1>2. exclusive \subseteq VB
  BY DEF IInv, BucketOK
<1> QED
  BY <1>1, <1>2 DEF NoSharedOverlap, ExclusiveAlone

(* No two VBs whose lifetimes overlap, or whose handoff forbids sharing,    *)
(* get one physical buffer, whatever the bucket and whatever the order      *)
(* std::sort leaves open.                                                   *)
THEOREM NeverSharesOverlap == Spec => []NoSharedOverlap
BY InvSeparates, InvariantHolds, PTL

(* The buffer of an exclusive VB is never anybody else's. *)
THEOREM ExclusiveNeverShared == Spec => []ExclusiveAlone
BY InvSeparates, InvariantHolds, PTL

(* A loom.sync's input and result end in one buffer, through any chain. *)
THEOREM SyncAlwaysSharesBuffer == Spec => []SyncSharesBuffer
<1>1. IInv => SyncSharesBuffer
  BY SyncSameNode DEF IInv, DoneOK, NodeUniform, SyncSharesBuffer
<1> QED
  BY <1>1, InvariantHolds, PTL

(* No slot of the allocation plan is empty. *)
THEOREM EverySlotInUse == Spec => []SlotsInUse
<1>1. IInv => SlotsInUse
  BY DEF IInv
<1> QED
  BY <1>1, InvariantHolds, PTL

(* Two VBs that share a buffer because loom.sync connects them, through     *)
(* whatever chain, are never alive at the same time, though build() never   *)
(* compares the lifetimes inside a node.                                    *)
THEOREM SyncedNeverOverlap == Spec => []SyncNodeDisjoint
<1>1. IInv /\ LifetimeInv => SyncNodeDisjoint
  <2> SUFFICES ASSUME IInv, LifetimeInv, phase \in {"color", "done"},
                      NEW u \in VB, NEW v \in VB, u \in NodeOf(v), Overlap(u, v)
               PROVE  FALSE
    BY DEF SyncNodeDisjoint
  <2>1. /\ birth[u] \in Nat /\ death[u] \in Nat /\ birth[v] \in Nat /\ death[v] \in Nat
        /\ u \in Int /\ v \in Int
    BY BoundsAssumption DEF IInv, BucketOK, VB
  <2>2. u = v \/ Before(u, v) \/ Before(v, u)
    <3>1. CASE v \in Synced
      BY <3>1, NodeIsChain DEF IInv, LifetimeInv, SyncsAccepted
    <3>2. CASE v \notin Synced
      BY <3>2 DEF NodeOf
    <3> QED
      BY <3>1, <3>2
  <2> QED
    BY <2>1, <2>2 DEF Overlap, Earlier, Before
<1> QED
  BY <1>1, InvariantHolds, PTL

(* No clique is larger than the number of slots: its members have different *)
(* buffers when the solver is done.                                         *)
LEMMA CliqueFits ==
  ASSUME IInv, Plain, phase = "done", NEW S \in SUBSET VB, Clique(S)
  PROVE  IsFiniteSet(S) /\ Cardinality(S) <= numColors
<1>1. BucketOK /\ size \in Nat /\ numColors \in Nat /\ color \in [VB -> -1 .. size]
  BY BoundsAssumption DEF IInv, BucketOK, SolverOK
<1>2. \A v \in VB : color[v] >= 0
  BY DEF IInv, DoneOK
<1>3. ASSUME NEW v \in VB PROVE color[v] \in 0 .. numColors - 1
  <2>1. color[v] \in {color[u] : u \in VB} \ {-1}
    BY <1>1, <1>2
  <2> QED
    BY <2>1 DEF IInv, SlotsInUse
<1>4. ASSUME NEW u \in S, NEW v \in S, color[u] = color[v] PROVE u = v
  <2> SUFFICES ASSUME u # v PROVE FALSE
    OBVIOUS
  <2>1. PairInterferes(u, v) /\ NodeOf(u) # NodeOf(v)
    BY <1>1, PlainNode DEF Clique
  <2>2. {NodeOf(u), NodeOf(v)} \in edges
    BY <1>1, <2>1, GraphLinks DEF IInv, SolverOK
  <2> QED
    BY <1>2, <1>4, <2>2 DEF IInv, Proper
<1> DEFINE f == [v \in S |-> color[v]]
<1>5. f \in Injection(S, 0 .. numColors - 1)
  BY <1>3, <1>4 DEF Injection, IsInjective
<1>6. IsFiniteSet(0 .. numColors - 1) /\ Cardinality(0 .. numColors - 1) = numColors
  BY <1>1, FS_Interval
<1> HIDE DEF f
<1> QED
  BY <1>5, <1>6, FS_Injection DEF ExistsInjection

(* First fit in order of birth is optimal where only lifetimes constrain:   *)
(* the buffers it allocates are as many as the VBs that are alive at once,  *)
(* for every bucket and every order of equal births.                        *)
THEOREM FirstFitOptimal == Spec => []OptimalOnIntervals
<1>1. IInv /\ LifetimeInv => OptimalOnIntervals
  <2> SUFFICES ASSUME IInv, LifetimeInv, phase = "done", Plain PROVE numColors = Pressure
    BY DEF OptimalOnIntervals, Plain
  <2> DEFINE cliques == {S \in SUBSET VB : \A u, v \in S : u = v \/ PairInterferes(u, v)}
             Most(k) == /\ \E S \in cliques : Cardinality(S) = k
                        /\ \A S \in cliques : Cardinality(S) <= k
  <2>1. PICK S \in SUBSET VB : Clique(S) /\ Cardinality(S) = numColors
    BY DEF LifetimeInv, SlotsNeeded
  <2>2. numColors \in Nat /\ size \in Nat
    BY BoundsAssumption DEF IInv, BucketOK, SolverOK
  <2>3. numColors \in 0 .. size
    <3>1. IsFiniteSet(VB) /\ Cardinality(VB) = size
      BY <2>2, FS_Interval DEF VB
    <3>2. Cardinality(S) <= size
      BY <3>1, FS_Subset
    <3> QED
      BY <2>1, <2>2, <3>2
  <2>4. \A T \in cliques : Cardinality(T) \in Nat /\ Cardinality(T) <= numColors
    BY CliqueFits, FS_CardinalityType DEF Clique
  <2>5. Most(numColors)
    BY <2>1, <2>4 DEF Clique
  <2>6. ASSUME NEW k \in 0 .. size, Most(k) PROVE k = numColors
    <3>1. k <= numColors
      BY <2>4, <2>6
    <3>2. numColors <= k
      BY <2>1, <2>6 DEF Clique
    <3> QED
      BY <2>2, <3>1, <3>2
  <2>7. Pressure = CHOOSE k \in 0 .. size : Most(k)
    BY DEF Pressure
  <2> HIDE DEF Most
  <2> QED
    BY <2>3, <2>5, <2>6, <2>7
<1> QED
  BY <1>1, InvariantHolds, PTL

=============================================================================

---------------------------- MODULE GreedyColoring ----------------------------
(***************************************************************************)
(* The interference graph and the first-fit colouring of one bucket of     *)
(* lib/analysis/src/static_memory_analyser.cpp.                            *)
(*                                                                         *)
(* A bucket holds virtual buffers (VBs), each with a liveness range        *)
(* birth..death of operation indices.  Graph construction coalesces the    *)
(* VBs that a loom.sync connects into colour nodes and links the nodes     *)
(* whose VBs interfere; the solver then colours one node at a time, in     *)
(* order of birth, with the smallest colour no coloured neighbour has.     *)
(* A colour is a physical L1 buffer of the bucket.                         *)
(*                                                                         *)
(* VBs are their position in Bucket::virtualBuffers: classifyOverlap is    *)
(* not symmetric in that position when two births are equal.  Whether a    *)
(* touching pair interferes is decided by indexing maps; here `handoff` is *)
(* the arbitrary set of touching pairs for which it does (module           *)
(* MemoryAnalysis computes it).                                            *)
(***************************************************************************)
EXTENDS Integers, FiniteSets

CONSTANTS
  MaxVBs,       \* bound: virtual buffers in the bucket
  MaxTied,      \* bound: VBs of a bucket that not only lifetimes constrain
  MaxIndex,     \* bound: largest operation index
  MaxSyncs,     \* bound: loom.sync operations between the bucket's tensors
  MaxExclusive, \* bound: VBs that hold an exclusive handoff target
  MaxHandoffs   \* bound: touching pairs that may not share a buffer

ASSUME BoundsAssumption ==
  /\ MaxVBs \in Nat /\ MaxIndex \in Nat /\ MaxSyncs \in Nat /\ MaxExclusive \in Nat
  /\ MaxHandoffs \in Nat /\ MaxTied \in Nat

VARIABLES
  size,          \* Bucket::virtualBuffers.size()
  birth, death,  \* VirtualBuffer::liveness
  syncs,         \* <<input VB, result VB, operation index>> of every loom.sync
  exclusive,     \* Bucket::exclusiveVBIds
  handoff,       \* touching pairs that checkHandoffInterference rejects
  phase,         \* "build", then "color", then "done"; or "fatal"
  edges,         \* InterferenceGraph::colorNodeEdges_
  color,         \* VirtualBuffer::color, -1 when not yet coloured
  numColors      \* Bucket::maxColorsRequired, maxColor + 1 on the way

bucket == <<size, birth, death, syncs, exclusive, handoff>>
vars == <<size, birth, death, syncs, exclusive, handoff, phase, edges, color, numColors>>

VB == 1 .. size

-----------------------------------------------------------------------------
(* The graph. *)

(* The pair in the order classifyOverlap looks at it: by birth, and by      *)
(* position when the births are equal.                                      *)
Earlier(u, v) == birth[u] < birth[v] \/ (birth[u] = birth[v] /\ u < v)

Overlap(u, v) == Earlier(u, v) /\ birth[v] < death[u]

Touching(u, v) == Earlier(u, v) /\ death[u] = birth[v]

(* build(): strict overlap interferes; a touching pair may. *)
PairInterferes(u, v) ==
  \/ Overlap(u, v) \/ Overlap(v, u)
  \/ Touching(u, v) /\ <<u, v>> \in handoff
  \/ Touching(v, u) /\ <<v, u>> \in handoff

(* A colour node is the set of the VBs that union-find joined: the least    *)
(* set with v that no loom.sync leaves.                                     *)
Synced == {s[1] : s \in syncs} \cup {s[2] : s \in syncs}

SyncClosed(S) == \A s \in syncs : s[1] \in S <=> s[2] \in S

NodeOfAlone(v) == {v}  \* mutant: syncs join nothing

NodeOf(v) ==
  IF v \in Synced
  THEN {u \in Synced : \A S \in SUBSET Synced : (v \in S /\ SyncClosed(S)) => u \in S}
  ELSE {v}

ColorNodes == {NodeOf(v) : v \in VB}

(* The nodes an edge must join: a pair of their VBs interferes, or one of   *)
(* them is exclusive.                                                       *)
MustDifferByOverlap(m, n) ==  \* mutant: touching pairs always share
  \/ \E u \in m, v \in n : Overlap(u, v) \/ Overlap(v, u)
  \/ m \cap exclusive # {} \/ n \cap exclusive # {}

MustDifferByLifetime(m, n) ==  \* mutant: no exclusive rule
  \E u \in m, v \in n : PairInterferes(u, v)

MustDiffer(m, n) ==
  \/ \E u \in m, v \in n : PairInterferes(u, v)
  \/ m \cap exclusive # {} \/ n \cap exclusive # {}

Graph == {{e[1], e[2]} : e \in {f \in ColorNodes \X ColorNodes :
                                   f[1] # f[2] /\ MustDiffer(f[1], f[2])}}

-----------------------------------------------------------------------------
(* The solver's order: smallest birth first, the longest of equals. *)

NodeBirth(n) == CHOOSE b \in {birth[v] : v \in n} : \A v \in n : b <= birth[v]
NodeDeath(n) == CHOOSE d \in {death[v] : v \in n} : \A v \in n : death[v] <= d

PrecedesNever(m, n) == FALSE  \* mutant: the nodes are not sorted

Precedes(m, n) ==
  \/ NodeBirth(m) < NodeBirth(n)
  \/ /\ NodeBirth(m) = NodeBirth(n)
     /\ NodeDeath(m) - NodeBirth(m) > NodeDeath(n) - NodeBirth(n)

Uncolored == {n \in ColorNodes : \A v \in n : color[v] = -1}

UsedColors(n) == {color[v] : v \in {u \in VB : color[u] >= 0 /\ {NodeOf(u), n} \in edges}}

FitFromOne(n) ==  \* mutant: slots counted from one
  {c \in 1 .. size : c \notin UsedColors(n) /\ 1 .. c-1 \subseteq UsedColors(n)}
FitOpened(n) == {c \in 0 .. numColors - 1 : c \notin UsedColors(n)}  \* mutant: opens no slot

FirstFit(n) == {c \in 0 .. size : c \notin UsedColors(n) /\ 0 .. c-1 \subseteq UsedColors(n)}

-----------------------------------------------------------------------------
(* A loom.sync is one operation: it uses its input and defines its result.  *)
SyncOps ==
  {s \in VB \X VB \X (0 .. MaxIndex) :
     s[1] # s[2] /\ birth[s[1]] < s[3] /\ s[3] <= death[s[1]]
                 /\ birth[s[2]] <= s[3] /\ s[3] <= death[s[2]]}

(* A bucket of more than MaxTied VBs has only lifetimes. *)
Tied(k) == IF size <= MaxTied THEN k ELSE 0

AtMost(k, S) == {{}} \cup {{f[i] : i \in 1 .. k} : f \in [1 .. k -> S]}

Init ==
  /\ size \in 1 .. MaxVBs
  /\ birth \in [VB -> 0 .. MaxIndex]
  /\ death \in [VB -> 0 .. MaxIndex]
  /\ \A v \in VB : birth[v] <= death[v]
  /\ syncs \in {S \in AtMost(Tied(MaxSyncs), SyncOps) : \A s, t \in S : s[3] = t[3] => s = t}
  /\ exclusive \in AtMost(Tied(MaxExclusive), VB)
  /\ handoff \in AtMost(Tied(MaxHandoffs), {p \in VB \X VB : Touching(p[1], p[2])})
  /\ phase = "build"
  /\ edges = {}
  /\ color = [v \in VB |-> -1]
  /\ numColors = 0

(* buildColorNodes() stops the compiler when a sync's input outlives the    *)
(* birth of its result.                                                     *)
LateSync == \E s \in syncs : death[s[1]] > birth[s[2]] + 1  \* mutant: off by one

InvalidSync == \E s \in syncs : death[s[1]] > birth[s[2]]

Build ==
  /\ phase = "build"
  /\ ~ InvalidSync
  /\ edges' = Graph
  /\ phase' = "color"
  /\ UNCHANGED <<bucket, color, numColors>>

Fatal ==
  /\ phase = "build"
  /\ InvalidSync
  /\ phase' = "fatal"
  /\ UNCHANGED <<bucket, edges, color, numColors>>

(* One round of solve(): n is first of the uncoloured nodes; std::sort      *)
(* leaves the order of equal nodes open.                                    *)
ColorNode(n) ==
  /\ phase = "color"
  /\ n \in Uncolored
  /\ \A m \in Uncolored : ~ Precedes(m, n)
  /\ \E c \in FirstFit(n) :
       /\ color' = [v \in VB |-> IF v \in n THEN c ELSE color[v]]
       /\ numColors' = IF c >= numColors THEN c + 1 ELSE numColors
  /\ UNCHANGED <<bucket, phase, edges>>

Finish ==
  /\ phase = "color"
  /\ Uncolored = {}
  /\ phase' = "done"
  /\ UNCHANGED <<bucket, edges, color, numColors>>

Next == Build \/ Fatal \/ (\E n \in ColorNodes : ColorNode(n)) \/ Finish

(* The solver is a plain loop of a single thread: it keeps running. *)
Spec == Init /\ [][Next]_vars /\ WF_vars(Next)

-----------------------------------------------------------------------------
(* Type invariant: colours are -1 until the solver reaches the VB, and a    *)
(* colour given is one of the slots counted so far.                         *)
TypeOK ==
  /\ size \in 1 .. MaxVBs
  /\ birth \in [VB -> 0 .. MaxIndex]
  /\ death \in [VB -> 0 .. MaxIndex]
  /\ syncs \subseteq VB \X VB \X (0 .. MaxIndex)
  /\ exclusive \subseteq VB
  /\ handoff \subseteq VB \X VB
  /\ phase \in {"build", "color", "done", "fatal"}
  /\ edges \subseteq SUBSET ColorNodes
  /\ numColors \in 0 .. size + 1
  /\ color \in [VB -> -1 .. size]

(* Two VBs that are live at the same time, or that hand over a value in a   *)
(* way that forbids sharing, are never put in one physical buffer unless a  *)
(* loom.sync made them one colour node: the point of the whole analysis     *)
(* (InterferenceGraph::build and ColoringSolver::solve together).           *)
NoSharedOverlap ==
  \A u, v \in VB :
    (color[u] >= 0 /\ color[v] >= 0 /\ NodeOf(u) # NodeOf(v) /\ PairInterferes(u, v))
      => color[u] # color[v]

(* The buffer of an exclusive VB (a DMA handoff target, or a tensor of a    *)
(* special local memory kind) is nobody else's, however short the two       *)
(* lifetimes are and however far apart (the exclusive rule of build()).     *)
ExclusiveAlone ==
  \A u \in exclusive, v \in VB :
    (color[u] >= 0 /\ color[v] >= 0 /\ NodeOf(u) # NodeOf(v)) => color[u] # color[v]

(* loom.sync hands a value over in place: its input and its result are one  *)
(* physical buffer, also through a chain of syncs.                          *)
SyncSharesBuffer ==
  phase = "done" => \A s \in syncs : color[s[1]] = color[s[2]] /\ color[s[1]] >= 0

(* What shares a buffer because of loom.sync is never alive at the same     *)
(* time: the buffers that build() joins without looking at their lifetimes  *)
(* again (it adds no edge inside a node) are safe only because              *)
(* buildColorNodes() rejected every sync whose input outlives its result.   *)
SyncNodeDisjoint ==
  phase \in {"color", "done"} => \A u, v \in VB : u \in NodeOf(v) => ~ Overlap(u, v)

(* Every slot below maxColorsRequired holds some VB: buildAllocationPlan    *)
(* and materializePhysicalBuffers emit one loom.alloc per slot, and an      *)
(* empty slot would be L1 allocated for nothing.                            *)
SlotsInUse == {color[v] : v \in VB} \ {-1} = 0 .. numColors - 1

(* When nothing but lifetimes constrains the bucket, first fit in order of  *)
(* birth is optimal: it uses exactly as many buffers as the largest number  *)
(* of VBs that pairwise overlap, so the L1 footprint is the pressure.       *)
Pressure ==
  LET cliques == {S \in SUBSET VB : \A u, v \in S : u = v \/ PairInterferes(u, v)}
  IN  CHOOSE k \in 0 .. size :
        /\ \E S \in cliques : Cardinality(S) = k
        /\ \A S \in cliques : Cardinality(S) <= k

OptimalOnIntervals ==
  (phase = "done" /\ handoff = {} /\ syncs = {} /\ exclusive = {}) => numColors = Pressure

(* The solver ends: a node is always colourable, so every bucket gets a     *)
(* complete colouring unless a bad loom.sync aborted the compilation.       *)
Terminates == <>(phase = "fatal" \/ (phase = "done" /\ \A v \in VB : color[v] >= 0))

=============================================================================

------------------------- MODULE KernelVariantsProofs -------------------------
(***************************************************************************)
(* Proofs about the exploration of parallel sets, for every kernel: the    *)
(* functions it makes differ in name and in what they run spatially, and   *)
(* those for full occupancy have an iteration for every core.              *)
(***************************************************************************)
EXTENDS KernelVariants, SequenceFacts

(* The selected loops are those at the positions of S. *)
LEMMA SelectElements ==
  ASSUME NEW R, NEW loops \in Seq(R), NEW S
  PROVE  /\ Select(loops, S) \in Seq(R)
         /\ ToSet(Select(loops, S)) = {loops[i] : i \in S \cap DOMAIN loops}
<1> DEFINE ss == [i \in DOMAIN loops |-> IF i \in S THEN <<loops[i]>> ELSE <<>>]
           m == Len(loops)
           flat == FlattenSeq(ss)
<1>1. m \in Nat /\ DOMAIN loops = 1 .. m /\ \A i \in 1 .. m : loops[i] \in R
  BY LenProperties, ElementOfSeq
<1>2. ss \in Seq(Seq(R)) /\ Len(ss) = m
  BY <1>1
<1>3. flat \in Seq(R) /\ \E h, o : Positions(flat, ss, m, h, o)
  <2> HIDE DEF ss
  <2> QED
    BY <1>2, FlattenSeqPositions
<1>4. PICK h, o : Positions(flat, ss, m, h, o)
  BY <1>3
<1> DEFINE D == 1 .. Len(flat)
<1>5. /\ h \in [D -> 1 .. m] /\ o \in [D -> Nat]
      /\ \A i \in D : o[i] \in 1 .. Len(ss[h[i]]) /\ flat[i] = ss[h[i]][o[i]]
      /\ \A k \in 1 .. m : \A q \in 1 .. Len(ss[k]) : \E i \in D : h[i] = k /\ o[i] = q
  <2> HIDE DEF ss
  <2> QED
    BY <1>4 DEF Positions
<1>6. \A k \in 1 .. m : IF k \in S THEN ss[k] = <<loops[k]>> ELSE ss[k] = <<>>
  BY <1>1
<1>7. Len(flat) \in Nat /\ DOMAIN flat = D /\ ToSet(flat) = {flat[i] : i \in D}
  BY <1>3, LenProperties DEF ToSet
<1> HIDE DEF ss, flat, D
<1>8. ASSUME NEW i \in D
      PROVE  h[i] \in S \cap DOMAIN loops /\ flat[i] = loops[h[i]]
  <2>1. h[i] \in 1 .. m /\ o[i] \in 1 .. Len(ss[h[i]]) /\ flat[i] = ss[h[i]][o[i]]
    BY <1>5, <1>8
  <2>2. h[i] \in S
    BY <1>6, <2>1
  <2>3. ss[h[i]] = <<loops[h[i]]>>
    BY <1>6, <2>1, <2>2
  <2> QED
    BY <1>1, <2>1, <2>2, <2>3
<1>9. ASSUME NEW k \in S \cap DOMAIN loops PROVE \E i \in D : flat[i] = loops[k]
  <2>1. k \in 1 .. m /\ ss[k] = <<loops[k]>>
    BY <1>1, <1>6, <1>9
  <2>2. Len(ss[k]) = 1 /\ 1 \in 1 .. Len(ss[k])
    BY <2>1
  <2>3. PICK i \in D : h[i] = k /\ o[i] = 1
    BY <1>5, <2>1, <2>2
  <2> QED
    BY <1>8, <2>3
<1>10. ToSet(flat) = {loops[k] : k \in S \cap DOMAIN loops}
  BY <1>7, <1>8, <1>9
<1> QED
  BY <1>3, <1>10 DEF Select, flat, ss

(* Two selections from loops that can be told apart are told apart by what  *)
(* they select.                                                             *)
LEMMA SelectionsDiffer ==
  ASSUME NEW R, NEW loops \in Seq(R), NEW S \in SUBSET DOMAIN loops, NEW T \in SUBSET DOMAIN loops,
         S # T, NEW key, \A i, j \in DOMAIN loops : i # j => key[loops[i]] # key[loops[j]]
  PROVE  {key[l] : l \in ToSet(Select(loops, S))} # {key[l] : l \in ToSet(Select(loops, T))}
<1>1. /\ ToSet(Select(loops, S)) = {loops[i] : i \in S}
      /\ ToSet(Select(loops, T)) = {loops[i] : i \in T}
  BY SelectElements
<1>2. PICK i \in DOMAIN loops : (i \in S /\ i \notin T) \/ (i \in T /\ i \notin S)
  OBVIOUS
<1>3. CASE i \in S
  <2>1. key[loops[i]] \in {key[l] : l \in ToSet(Select(loops, S))}
    BY <1>1, <1>3
  <2>2. key[loops[i]] \notin {key[l] : l \in ToSet(Select(loops, T))}
    BY <1>1, <1>2, <1>3
  <2> QED
    BY <2>1, <2>2
<1>4. CASE i \in T
  <2>1. key[loops[i]] \in {key[l] : l \in ToSet(Select(loops, T))}
    BY <1>1, <1>4
  <2>2. key[loops[i]] \notin {key[l] : l \in ToSet(Select(loops, S))}
    BY <1>1, <1>2, <1>4
  <2> QED
    BY <2>1, <2>2
<1> QED
  BY <1>2, <1>3, <1>4

-----------------------------------------------------------------------------
(* The loops of a nest. *)

(* What has the fields of a loop. *)
IsLoop(l) ==
  l = [id |-> l.id, of |-> l.of, scale |-> l.scale, name |-> l.name, extent |-> l.extent,
       block |-> l.block, dep |-> l.dep, carried |-> l.carried, indep |-> l.indep]

(* The loops of f, outermost first.                                         *)
All(f) == f.root \o f.loops

LoopsOK(f, R) == f.root \in Seq(R) /\ f.loops \in Seq(R)

(* One sequence after the other.                                            *)
LEMMA ConcatAt ==
  ASSUME NEW R, NEW s \in Seq(R), NEW t \in Seq(R),
         NEW u, u = s \o t, NEW m, m = Len(s), NEW n, n = Len(t)
  PROVE  /\ u \in Seq(R) /\ Len(u) = m + n /\ DOMAIN u = 1 .. m + n /\ m \in Nat /\ n \in Nat
         /\ \A i \in 1 .. m + n : u[i] = IF i <= m THEN s[i] ELSE t[i - m]
BY ConcatProperties, LenProperties

(* Only loops that may be promoted are in the chain. *)
LEMMA ChainPromotable ==
  ASSUME NEW f, NEW R, f.loops \in Seq(R)
  PROVE  ChainLen(f) \in 0 .. Len(f.loops) /\ \A j \in 1 .. ChainLen(f) : Promotable(f, j)
<1> DEFINE D == {n \in 0 .. Len(f.loops) : \A j \in 1 .. n : Promotable(f, j)}
<1>1. Len(f.loops) \in Nat
  BY LenProperties
<1>2. 0 \in D /\ D \in SUBSET (0 .. Len(f.loops))
  BY <1>1
<1>3. Max(D) \in D
  <2> HIDE DEF D
  <2> QED
    BY <1>1, <1>2, MaxOf
<1>4. CASE ReadsStored(f)
  BY <1>1, <1>4 DEF ChainLen
<1>5. CASE ~ ReadsStored(f)
  <2>1. ChainLen(f) = Max(D)
    BY <1>5 DEF ChainLen
  <2> HIDE DEF ChainLen
  <2> QED
    BY <1>3, <2>1
<1> QED
  BY <1>4, <1>5

LEMMA AllAt ==
  ASSUME NEW f, NEW R, LoopsOK(f, R)
  PROVE  /\ Len(f.root) \in Nat /\ Len(f.loops) \in Nat /\ All(f) \in Seq(R)
         /\ DOMAIN All(f) = 1 .. Len(f.root) + Len(f.loops)
         /\ \A i \in 1 .. Len(f.root) + Len(f.loops) :
              All(f)[i] = IF i <= Len(f.root) THEN f.root[i] ELSE f.loops[i - Len(f.root)]
<1>1. PICK s, t : s = f.root /\ t = f.loops
  OBVIOUS
<1>2. s \in Seq(R) /\ t \in Seq(R) /\ All(f) = s \o t
  BY <1>1 DEF LoopsOK, All
<1>3. PICK all, r, m : all = s \o t /\ r = Len(s) /\ m = Len(t)
  OBVIOUS
<1>4. /\ all \in Seq(R) /\ DOMAIN all = 1 .. r + m /\ r \in Nat /\ m \in Nat
      /\ \A i \in 1 .. r + m : all[i] = IF i <= r THEN s[i] ELSE t[i - r]
  BY <1>2, <1>3, ConcatAt
<1>5. /\ Len(f.root) = r /\ Len(f.loops) = m /\ All(f) = all
      /\ \A i \in 1 .. r + m : s[i] = f.root[i] /\ t[i - r] = f.loops[i - r]
  BY <1>1, <1>2, <1>3
<1>6. \A i \in 1 .. r + m : all[i] = IF i <= r THEN f.root[i] ELSE f.loops[i - r]
  BY <1>1, <1>4
<1> QED
  BY <1>4, <1>5, <1>6

(* The loops that may be spatial are the first ones, with their names.      *)
LEMMA ItemsAre ==
  ASSUME NEW f, NEW R, LoopsOK(f, R), NEW n, n = Len(f.root) + ChainLen(f)
  PROVE  /\ n \in Nat /\ Len(f.root) \in 0 .. n /\ 1 .. n \subseteq DOMAIN All(f)
         /\ Items(f) \in [1 .. n -> ToSet(Items(f))]
         /\ \A i \in 1 .. n : Items(f)[i] = [All(f)[i] EXCEPT !.name = LoopName(All(f)[i], i - 1)]
<1>1. /\ f.root \in Seq(R) /\ f.loops \in Seq(R)
      /\ Len(f.root) \in Nat /\ Len(f.loops) \in Nat /\ ChainLen(f) \in 0 .. Len(f.loops)
  BY ChainPromotable, LenProperties DEF LoopsOK
<1>2. PICK r, c, m : r = Len(f.root) /\ c = ChainLen(f) /\ m = Len(f.loops)
  OBVIOUS
<1>3. r \in Nat /\ m \in Nat /\ c \in 0 .. m /\ r + c \in Nat
  BY <1>1, <1>2
<1>4. PICK part : part = SubSeq(f.loops, 1, c)
  OBVIOUS
<1>5. part \in Seq(R) /\ Len(part) = c /\ \A i \in 1 .. c : part[i] = f.loops[i]
  BY <1>1, <1>2, <1>3, <1>4, SubSeqProperties
<1>6. PICK loops : loops = f.root \o part
  OBVIOUS
<1>7. /\ DOMAIN loops = 1 .. r + c
      /\ \A i \in 1 .. r + c : loops[i] = IF i <= r THEN f.root[i] ELSE part[i - r]
  BY <1>1, <1>2, <1>5, <1>6, ConcatAt
<1>8. /\ DOMAIN All(f) = 1 .. r + m
      /\ \A i \in 1 .. r + m : All(f)[i] = IF i <= r THEN f.root[i] ELSE f.loops[i - r]
  BY <1>2, AllAt
<1>9. ASSUME NEW i \in 1 .. r + c PROVE loops[i] = All(f)[i]
  <2>1. i \in 1 .. r + m /\ (~ (i <= r) => i - r \in 1 .. c)
    BY <1>3
  <2> QED
    BY <1>5, <1>7, <1>8, <2>1
<1>10. Items(f) = [i \in 1 .. r + c |-> [loops[i] EXCEPT !.name = LoopName(loops[i], i - 1)]]
  BY <1>2, <1>4, <1>6, <1>7 DEF Items
<1>11. Items(f) = [i \in 1 .. r + c |-> [All(f)[i] EXCEPT !.name = LoopName(All(f)[i], i - 1)]]
  BY <1>9, <1>10
<1>12. Items(f) \in [1 .. r + c -> ToSet(Items(f))]
  BY <1>11 DEF ToSet
<1>13. 1 .. r + c \subseteq DOMAIN All(f) /\ r \in 0 .. r + c
  BY <1>3, <1>8
<1>14. \A i \in 1 .. r + c :
         Items(f)[i] = [All(f)[i] EXCEPT !.name = LoopName(All(f)[i], i - 1)]
  BY <1>11
<1> QED
  BY <1>2, <1>3, <1>12, <1>13, <1>14

(* A sequence over a set is one over every larger set.                      *)
LEMMA SeqOfMore ==
  ASSUME NEW R, NEW S, R \subseteq S, NEW s \in Seq(R)
  PROVE  s \in Seq(S)
<1>1. \A i \in 1 .. Len(s) : s[i] \in S
  BY ElementOfSeq
<1> QED
  BY <1>1

(* The loops of a kernel.                                                   *)
LEMMA SourceLoops ==
  ASSUME NEW k, KernelOK(k)
  PROVE  /\ LoopsOK(k, ToSet(k.root) \cup ToSet(k.loops)) /\ k.name = <<>> /\ k.base = FALSE /\ k.full = FALSE
         /\ k = Kernel(k.root, k.loops, k.pre, k.deep, k.post)
         /\ \A i \in DOMAIN All(k) :
              /\ SourceLoop(All(k)[i]) /\ IsLoop(All(k)[i]) /\ All(k)[i].name.sym # "d"
         /\ \A i, j \in DOMAIN All(k) : i # j =>
              /\ All(k)[i].id # All(k)[j].id
              /\ All(k)[i].name.sym = All(k)[j].name.sym => All(k)[i].name.sym = ""
         /\ \A i \in DOMAIN k.root : k.root[i].dep = NoLoop
<1>1. /\ k = Kernel(k.root, k.loops, k.pre, k.deep, k.post)
      /\ LoopsOK(k, ToSet(k.root) \cup ToSet(k.loops))
  <2>1. k.root \in Seq(ToSet(k.root)) /\ k.loops \in Seq(ToSet(k.loops))
    BY DEF KernelOK
  <2>2. k.root \in Seq(ToSet(k.root) \cup ToSet(k.loops)) /\ k.loops \in Seq(ToSet(k.root) \cup ToSet(k.loops))
    BY <2>1, SeqOfMore
  <2> QED
    BY <2>2 DEF KernelOK, LoopsOK
<1>2. k.name = <<>> /\ k.base = FALSE /\ k.full = FALSE
  BY <1>1 DEF Kernel
<1>3. \A i \in DOMAIN All(k) : SourceLoop(All(k)[i]) /\ All(k)[i].name.sym # "d"
  BY DEF KernelOK, All
<1>4. \A i, j \in DOMAIN All(k) : i # j =>
        /\ All(k)[i].id # All(k)[j].id
        /\ All(k)[i].name.sym = All(k)[j].name.sym => All(k)[i].name.sym = ""
  BY DEF KernelOK, All
<1>5. \A l : SourceLoop(l) => IsLoop(l)
  <2>1. \A id, sym, extent, block, dep, carried : IsLoop(Loop(id, sym, extent, block, dep, carried))
    BY DEF IsLoop, Loop
  <2> QED
    BY <2>1 DEF SourceLoop
<1>6. \A i \in DOMAIN k.root : k.root[i].dep = NoLoop
  BY DEF KernelOK, ToSet
<1> QED
  BY <1>1, <1>2, <1>3, <1>4, <1>5, <1>6

(* What renaming a loop leaves.                                             *)
LEMMA Renamed ==
  ASSUME NEW l, IsLoop(l), NEW n, NEW m, m = [l EXCEPT !.name = n]
  PROVE  /\ IsLoop(m) /\ m.name = n
         /\ m.id = l.id /\ m.of = l.of /\ m.scale = l.scale /\ m.extent = l.extent
         /\ m.block = l.block /\ m.dep = l.dep
<1>1. m = [id |-> l.id, of |-> l.of, scale |-> l.scale, name |-> n, extent |-> l.extent,
           block |-> l.block, dep |-> l.dep, carried |-> l.carried, indep |-> l.indep]
  BY DEF IsLoop
<1> HIDE DEF IsLoop
<1>2. /\ m.name = n
      /\ m.id = l.id /\ m.of = l.of /\ m.scale = l.scale /\ m.extent = l.extent
      /\ m.block = l.block /\ m.dep = l.dep /\ m.carried = l.carried /\ m.indep = l.indep
  BY <1>1
<1> QED
  BY <1>1, <1>2 DEF IsLoop

(* A loop that can be spatial has a known number of iterations, for blocks  *)
(* of one size, which the solver chooses for a loop of the source.          *)
Fits(k, l) ==
  /\ IsLoop(l) /\ l.dep = NoLoop /\ l.extent \in Nat \ {0} /\ l.scale \in Nat /\ l.block \in Nat
  /\ l.block > 0 => \E i \in DOMAIN All(k) : All(k)[i].name = l.name /\ All(k)[i].block = l.block

(* No two have the same index or the same name.                             *)
Apart(items) ==
  \A i, j \in DOMAIN items : i # j => items[i].id # items[j].id /\ items[i].name # items[j].name

(* The loops of f that may be spatial, for f made of k.                     *)
ItemsOK(k, f) ==
  /\ Items(f) \in Seq(ToSet(Items(f)))
  /\ \A i \in DOMAIN Items(f) : Fits(k, Items(f)[i])
  /\ Apart(Items(f))

FromSource(l) == l.id[2] = "" /\ l.name.part = ""

(* The fields of a loop of the source.                                      *)
LEMMA SourceFields ==
  ASSUME NEW l, SourceLoop(l)
  PROVE  /\ l.id[2] = "" /\ l.scale \in Nat /\ l.name.part = ""
         /\ l.extent \in Nat \ {0} /\ l.block \in Nat /\ (l.block > 0 => l.name.sym # "")
<1>1. \A id, sym, extent, block, dep, carried :
        LET m == Loop(id, sym, extent, block, dep, carried)
        IN  m.id[2] = "" /\ m.scale \in Nat /\ m.name.part = ""
  BY DEF Loop, Whole, Named
<1>2. PICK id, sym, extent, block, dep, carried : l = Loop(id, sym, extent, block, dep, carried)
  BY DEF SourceLoop
<1>3. l.id[2] = "" /\ l.scale \in Nat /\ l.name.part = ""
  BY <1>1, <1>2
<1>4. l.extent \in Nat \ {0} /\ l.block \in Nat /\ (l.block > 0 => l.name.sym # "")
  BY DEF SourceLoop
<1> QED
  BY <1>3, <1>4

(* Neither the bounds of the parallel loop nor those of the chain depend on *)
(* other indices.                                                           *)
LEMMA ItemsIndependent ==
  ASSUME NEW f, NEW R, LoopsOK(f, R), \A i \in DOMAIN f.root : f.root[i].dep = NoLoop,
         NEW i \in 1 .. Len(f.root) + ChainLen(f)
  PROVE  All(f)[i].dep = NoLoop
<1>1. PICK r, c, m : r = Len(f.root) /\ c = ChainLen(f) /\ m = Len(f.loops)
  OBVIOUS
<1>2. r \in Nat /\ m \in Nat /\ DOMAIN f.root = 1 .. r
  BY <1>1, LenProperties DEF LoopsOK
<1>3. c \in 0 .. m /\ \A j \in 1 .. c : Promotable(f, j)
  BY <1>1, ChainPromotable DEF LoopsOK
<1>4. i \in 1 .. r + c /\ i \in 1 .. r + m
  <2>1. Len(f.root) + ChainLen(f) = r + c
    BY <1>1
  <2>2. i \in 1 .. r + c
    BY <2>1
  <2> QED
    BY <1>2, <1>3, <2>2
<1>5. All(f)[i] = IF i <= r THEN f.root[i] ELSE f.loops[i - r]
  BY <1>1, <1>4, AllAt
<1>6. CASE i <= r
  BY <1>2, <1>4, <1>5, <1>6
<1>7. CASE ~ (i <= r)
  <2>1. PICK j : j = i - r
    OBVIOUS
  <2>2. j \in 1 .. c
    BY <1>2, <1>3, <1>4, <1>7, <2>1
  <2>3. f.loops[j].dep = NoLoop
    BY <1>3, <2>2 DEF Promotable
  <2> QED
    BY <1>5, <1>7, <2>1, <2>3
<1> QED
  BY <1>6, <1>7

(* What Items makes of a loop l of the source, at place i.                  *)
Kept(k, i, l, m) ==
  /\ Fits(k, m) /\ FromSource(m) /\ m.id = l.id /\ l.name.sym # "d"
  /\ l.name.sym = "" => m.name.sym = "d" /\ m.name.idx = i - 1
  /\ l.name.sym # "" => m.name.sym = l.name.sym

LEMMA NamedKept ==
  ASSUME NEW k, KernelOK(k), NEW x \in DOMAIN All(k), NEW l, l = All(k)[x], l.dep = NoLoop,
         NEW i, NEW m, m = [l EXCEPT !.name = LoopName(l, i - 1)]
  PROVE  Kept(k, i, l, m)
<1>1. SourceLoop(l) /\ IsLoop(l) /\ l.name.sym # "d"
  BY SourceLoops
<1>2. PICK name : name = LoopName(l, i - 1)
  OBVIOUS
<1>3. /\ IsLoop(m) /\ m.name = name
      /\ m.id = l.id /\ m.of = l.of /\ m.scale = l.scale /\ m.extent = l.extent
      /\ m.block = l.block /\ m.dep = l.dep
  BY <1>1, <1>2, Renamed
<1>4. /\ l.id[2] = "" /\ l.scale \in Nat /\ l.name.part = ""
      /\ l.extent \in Nat \ {0} /\ l.block \in Nat /\ (l.block > 0 => l.name.sym # "")
  BY <1>1, SourceFields
<1>5. CASE l.name.sym = ""
  <2>1. name.sym = "d" /\ name.idx = i - 1 /\ name.part = ""
    BY <1>2, <1>5 DEF LoopName, Named
  <2>2. ~ (m.block > 0)
    BY <1>3, <1>4, <1>5
  <2>3. Fits(k, m)
    BY <1>3, <1>4, <2>2 DEF Fits
  <2>4. FromSource(m)
    BY <1>3, <1>4, <2>1 DEF FromSource
  <2> QED
    BY <1>1, <1>3, <1>5, <2>1, <2>3, <2>4 DEF Kept
<1>6. CASE l.name.sym # ""
  <2>1. name = l.name
    BY <1>2, <1>6 DEF LoopName
  <2>2. All(k)[x].name = m.name /\ All(k)[x].block = m.block
    BY <1>3, <2>1
  <2>3. Fits(k, m)
    BY <1>3, <1>4, <2>2 DEF Fits
  <2>4. FromSource(m)
    BY <1>3, <1>4, <2>1 DEF FromSource
  <2> QED
    BY <1>1, <1>3, <1>6, <2>1, <2>3, <2>4 DEF Kept
<1> QED
  BY <1>5, <1>6

(* Two loops of the source stay apart.                                      *)
LEMMA KeptApart ==
  ASSUME NEW k, KernelOK(k), NEW x \in DOMAIN All(k), NEW y \in DOMAIN All(k), x # y,
         NEW i \in Nat, NEW j \in Nat, i # j,
         NEW m, NEW n, Kept(k, i, All(k)[x], m), Kept(k, j, All(k)[y], n)
  PROVE  m.id # n.id /\ m.name # n.name
<1>1. PICK l, o : l = All(k)[x] /\ o = All(k)[y]
  OBVIOUS
<1>2. l.id # o.id /\ (l.name.sym = o.name.sym => l.name.sym = "")
  BY <1>1, SourceLoops
<1>3. /\ m.id = l.id /\ l.name.sym # "d"
      /\ l.name.sym = "" => m.name.sym = "d" /\ m.name.idx = i - 1
      /\ l.name.sym # "" => m.name.sym = l.name.sym
  BY <1>1 DEF Kept
<1>4. /\ n.id = o.id /\ o.name.sym # "d"
      /\ o.name.sym = "" => n.name.sym = "d" /\ n.name.idx = j - 1
      /\ o.name.sym # "" => n.name.sym = o.name.sym
  BY <1>1 DEF Kept
<1>5. i - 1 # j - 1
  OBVIOUS
<1> QED
  BY <1>2, <1>3, <1>4, <1>5

LEMMA SourceItems ==
  ASSUME NEW k, KernelOK(k)
  PROVE  ItemsOK(k, k) /\ \A i \in DOMAIN Items(k) : FromSource(Items(k)[i])
<1>1. PICK R : LoopsOK(k, R)
  BY SourceLoops
<1>2. PICK n : n = Len(k.root) + ChainLen(k)
  OBVIOUS
<1>3. /\ n \in Nat /\ Len(k.root) \in 0 .. n /\ 1 .. n \subseteq DOMAIN All(k)
      /\ Items(k) \in [1 .. n -> ToSet(Items(k))]
      /\ \A i \in 1 .. n : Items(k)[i] = [All(k)[i] EXCEPT !.name = LoopName(All(k)[i], i - 1)]
  BY <1>1, <1>2, ItemsAre
<1>4. ASSUME NEW i \in 1 .. n PROVE All(k)[i].dep = NoLoop
  BY <1>1, <1>2, SourceLoops, ItemsIndependent
<1>5. ASSUME NEW i \in 1 .. n PROVE Kept(k, i, All(k)[i], Items(k)[i])
  <2>1. i \in DOMAIN All(k) /\ All(k)[i].dep = NoLoop
    BY <1>3, <1>4, <1>5
  <2>2. PICK l, m : l = All(k)[i] /\ m = Items(k)[i]
    OBVIOUS
  <2>3. m = [l EXCEPT !.name = LoopName(l, i - 1)]
    BY <1>3, <1>5, <2>2
  <2> QED
    BY <2>1, <2>2, <2>3, NamedKept
<1>6. ASSUME NEW i \in 1 .. n, NEW j \in 1 .. n, i # j
      PROVE  Items(k)[i].id # Items(k)[j].id /\ Items(k)[i].name # Items(k)[j].name
  BY <1>3, <1>5, <1>6, KeptApart
<1>7. DOMAIN Items(k) = 1 .. n /\ Items(k) \in Seq(ToSet(Items(k)))
  <2>1. PICK items, I : items = Items(k) /\ I = ToSet(Items(k))
    OBVIOUS
  <2>2. items \in [1 .. n -> I] /\ n \in Nat
    BY <1>3, <2>1
  <2> QED
    BY <2>1, <2>2
<1>8. \A i \in 1 .. n : Fits(k, Items(k)[i]) /\ FromSource(Items(k)[i])
  BY <1>5 DEF Kept
<1> QED
  BY <1>6, <1>7, <1>8 DEF ItemsOK, Apart

LEMMA SourceNames ==
  ASSUME NEW l, SourceLoop(l)
  PROVE  \E id, sym : l.name = Named(sym, 0) /\ l.id = <<id, "">>
<1>1. \A id, sym, extent, block, dep, carried :
        LET m == Loop(id, sym, extent, block, dep, carried)
        IN  m.name = Named(sym, 0) /\ m.id = <<id, "">>
  BY DEF Loop, Whole
<1>2. PICK id, sym, extent, block, dep, carried : l = Loop(id, sym, extent, block, dep, carried)
  BY DEF SourceLoop
<1>3. l.name = Named(sym, 0) /\ l.id = <<id, "">>
  BY <1>1, <1>2
<1> QED
  BY <1>3

LEMMA NamedSym ==
  ASSUME NEW sym, NEW n
  PROVE  Named(sym, n).sym = sym
BY DEF Named

(* The name a split is made with.                                           *)
LEMMA SymName ==
  ASSUME NEW l, SourceLoop(l), NEW idx
  PROVE  \E sym, n : LoopName(l, idx) = Named(sym, n) /\ sym # ""
<1>1. CASE l.name.sym = ""
  <2>1. PICK sym : sym = "d"
    OBVIOUS
  <2>2. LoopName(l, idx) = Named(sym, idx)
    BY <1>1, <2>1 DEF LoopName
  <2>3. sym # ""
    BY <2>1
  <2> QED
    BY <2>2, <2>3
<1>2. CASE l.name.sym # ""
  <2>1. LoopName(l, idx) = l.name
    BY <1>2 DEF LoopName
  <2>2. PICK sym : l.name = Named(sym, 0)
    BY SourceNames
  <2>3. sym # ""
    BY <1>2, <2>2, NamedSym
  <2>4. LoopName(l, idx) = Named(sym, 0)
    BY <2>1, <2>2
  <2> QED
    BY <2>3, <2>4
<1> QED
  BY <1>1, <1>2

LEMMA LoopRecord ==
  ASSUME NEW id, NEW of, NEW scale, NEW name, NEW extent, NEW block, NEW dep, NEW carried, NEW indep
  PROVE  IsLoop([id |-> id, of |-> of, scale |-> scale, name |-> name, extent |-> extent,
                 block |-> block, dep |-> dep, carried |-> carried, indep |-> indep])
BY DEF IsLoop

(* A half of a split loop.                                                  *)
LEMMA PartFields ==
  ASSUME NEW loop, NEW sym, NEW n, IsLoop(loop), NEW part, NEW extent, NEW scale
  PROVE  LET l == Part(loop, Named(sym, n), part, extent, scale)
         IN  /\ IsLoop(l) /\ l.id = <<loop.id[1], part>> /\ l.scale = scale /\ l.extent = extent
             /\ l.name.sym = sym /\ l.name.part = part /\ l.block = 0 /\ l.dep = loop.dep
<1>1. PICK l : l = Part(loop, Named(sym, n), part, extent, scale)
  OBVIOUS
<1>2. PICK name : name = [Named(sym, n) EXCEPT !.part = part]
  OBVIOUS
<1>3. name = [sym |-> sym, idx |-> n, part |-> part, by |-> 0]
  BY <1>2 DEF Named
<1>4. PICK was, of, ls, ln, le, lb, dep, carried, indep :
        loop = [id |-> was, of |-> of, scale |-> ls, name |-> ln, extent |-> le,
                block |-> lb, dep |-> dep, carried |-> carried, indep |-> indep]
  BY DEF IsLoop
<1>10. loop.id = was /\ loop.dep = dep
  BY <1>4
<1>11. PICK id : id = <<was[1], part>>
  OBVIOUS
<1>5. l = [id |-> id, of |-> of, scale |-> scale, name |-> name, extent |-> extent,
           block |-> 0, dep |-> dep, carried |-> carried, indep |-> indep]
  <2>1. l = [loop EXCEPT !.id = Half(loop.id, part), !.scale = scale, !.extent = extent,
                         !.block = 0, !.name = name]
    BY <1>1, <1>2 DEF Part
  <2>2. Half(loop.id, part) = id
    BY <1>10, <1>11 DEF Half
  <2> QED
    BY <1>4, <2>1, <2>2
<1>6. IsLoop(l)
  BY <1>5, LoopRecord
<1>7. /\ l.id = id /\ l.scale = scale /\ l.extent = extent
      /\ l.name = name /\ l.block = 0 /\ l.dep = dep
  BY <1>5
<1>8. name.sym = sym /\ name.part = part
  BY <1>3
<1>9. l.name.sym = sym /\ l.name.part = part
  BY <1>7, <1>8
<1> QED
  BY <1>1, <1>6, <1>7, <1>9, <1>10, <1>11

(* A loop made by a split.                                                  *)
IsHalf(l) ==
  /\ IsLoop(l) /\ l.dep = NoLoop /\ l.extent \in Nat \ {0} /\ l.scale \in Nat
  /\ l.block = 0 /\ l.name.sym # ""

(* A half of a split loop, as Items sees it.                                *)
LEMMA HalfNamed ==
  ASSUME NEW k, NEW l, IsHalf(l), NEW i, NEW m, m = [l EXCEPT !.name = LoopName(l, i - 1)]
  PROVE  Fits(k, m) /\ m.id = l.id /\ m.name = l.name /\ m.extent = l.extent
<1>1. PICK name : name = LoopName(l, i - 1)
  OBVIOUS
<1>2. name = l.name
  BY <1>1 DEF LoopName, IsHalf
<1>3. IsLoop(l)
  BY DEF IsHalf
<1>4. /\ IsLoop(m) /\ m.name = name /\ m.id = l.id /\ m.scale = l.scale /\ m.extent = l.extent
      /\ m.block = l.block /\ m.dep = l.dep
  BY <1>1, <1>3, Renamed
<1>5. m.block = 0 /\ m.dep = NoLoop /\ m.extent \in Nat \ {0} /\ m.scale \in Nat
  BY <1>4 DEF IsHalf
<1>6. Fits(k, m)
  BY <1>4, <1>5 DEF Fits
<1> QED
  BY <1>2, <1>4, <1>6
(* What has the fields of a function.                                       *)
IsFunc(f) ==
  \E name, root, loops, pre, deep, post, base, full, at, hoisted :
    f = [name |-> name, root |-> root, loops |-> loops, pre |-> pre, deep |-> deep, post |-> post,
         base |-> base, full |-> full, hoistAt |-> at, hoisted |-> hoisted]

LEMMA SourceIsFunc ==
  ASSUME NEW k, KernelOK(k)
  PROVE  IsFunc(k)
<1>1. \A root, loops, pre, deep, post : IsFunc(Kernel(root, loops, pre, deep, post))
  <2> TAKE root, loops, pre, deep, post
  <2>1. Kernel(root, loops, pre, deep, post) =
          [name |-> <<>>, root |-> root, loops |-> loops, pre |-> pre, deep |-> deep,
           post |-> post, base |-> FALSE, full |-> FALSE, hoistAt |-> 0, hoisted |-> <<>>]
    BY DEF Kernel
  <2> QED
    BY <2>1 DEF IsFunc
<1>2. k = Kernel(k.root, k.loops, k.pre, k.deep, k.post)
  BY SourceLoops
<1>3. PICK root, loops, pre, deep, post : k = Kernel(root, loops, pre, deep, post)
  BY <1>2
<1> QED
  BY <1>1, <1>3

(* What the halves of loop j of k are.                                      *)
Outer(k, j, q) ==
  Part(k.loops[j], LoopName(k.loops[j], Len(k.root) + j - 1), "o", k.loops[j].extent \div q, q)

Inner(k, j, q) == Part(k.loops[j], LoopName(k.loops[j], Len(k.root) + j - 1), "i", q, 1)

(* s with o and u in place of its element j.                                *)
TwoFor(s, j, o, u) == SubSeq(s, 1, j - 1) \o <<o, u>> \o SubSeq(s, j + 1, Len(s))

(* What splitting a loop changes.                                           *)
LEMMA SplitFields ==
  ASSUME NEW k, KernelOK(k), NEW j, NEW q
  PROVE  LET f == SplitLoop(k, j, q)
             base == LoopName(k.loops[j], Len(k.root) + j - 1)
         IN  /\ IsFunc(f) /\ f.root = k.root /\ f.base = TRUE /\ f.full = FALSE
             /\ f.name = Append(<<>>, [base EXCEPT !.part = "split", !.by = q])
             /\ f.loops = TwoFor(k.loops, j, Outer(k, j, q), Inner(k, j, q))
<1>1. PICK f : f = SplitLoop(k, j, q)
  OBVIOUS
<1>2. PICK name, root, loops, pre, deep, post, wasbase, full, at, hoisted :
        k = [name |-> name, root |-> root, loops |-> loops, pre |-> pre, deep |-> deep,
             post |-> post, base |-> wasbase, full |-> full, hoistAt |-> at, hoisted |-> hoisted]
  BY SourceIsFunc DEF IsFunc
<1>3. PICK base, split : /\ base = LoopName(k.loops[j], Len(k.root) + j - 1)
                         /\ split = [base EXCEPT !.part = "split", !.by = q]
  OBVIOUS
<1>4. PICK cut : cut = SubSeq(k.loops, 1, j - 1)
                         \o <<Part(k.loops[j], base, "o", k.loops[j].extent \div q, q),
                              Part(k.loops[j], base, "i", q, 1)>>
                         \o SubSeq(k.loops, j + 1, Len(k.loops))
  OBVIOUS
<1>5. PICK n, s, d, t : /\ n = Append(k.name, split) /\ s = FoldIn(k.pre, k.loops[j], q)
                        /\ d = FoldIn(k.deep, k.loops[j], q) /\ t = FoldIn(k.post, k.loops[j], q)
  OBVIOUS
<1>6. f = [k EXCEPT !.loops = cut, !.pre = s, !.deep = d, !.post = t, !.name = n, !.base = TRUE]
  BY <1>1, <1>3, <1>4, <1>5 DEF SplitLoop
<1>7. f = [name |-> n, root |-> root, loops |-> cut, pre |-> s, deep |-> d, post |-> t,
           base |-> TRUE, full |-> full, hoistAt |-> at, hoisted |-> hoisted]
  BY <1>2, <1>6
<1>8. IsFunc(f)
  BY <1>7 DEF IsFunc
<1>9. f.root = root /\ f.loops = cut /\ f.base = TRUE /\ f.full = full /\ f.name = n
  BY <1>7
<1>10. k.root = root /\ k.full = full
  BY <1>2
<1>11. k.name = <<>> /\ k.full = FALSE
  BY SourceLoops
<1> QED
  BY <1>1, <1>3, <1>4, <1>5, <1>8, <1>9, <1>10, <1>11 DEF Outer, Inner, TwoFor

(* What rebuilding the nest changes.                                        *)
LEMMA RebuildFields ==
  ASSUME NEW f, IsFunc(f), NEW S
  PROVE  LET v == Rebuild(f, S)
             spatial == Select(Items(f), S)
         IN  /\ v.root = spatial /\ v.base = FALSE /\ v.full = TRUE
             /\ v.name = f.name \o <<Named("par", 0)>> \o [i \in DOMAIN spatial |-> spatial[i].name]
<1>1. PICK v : v = Rebuild(f, S)
  OBVIOUS
<1>2. PICK name, root, loops, pre, deep, post, base, full, at, hoisted :
        f = [name |-> name, root |-> root, loops |-> loops, pre |-> pre, deep |-> deep,
             post |-> post, base |-> base, full |-> full, hoistAt |-> at, hoisted |-> hoisted]
  BY DEF IsFunc
<1>3. PICK spatial : spatial = Select(Items(f), S)
  OBVIOUS
<1>4. PICK n, ls :
        /\ n = f.name \o <<Named("par", 0)>> \o [i \in DOMAIN spatial |-> spatial[i].name]
        /\ ls = Independent(Select(Items(f), DOMAIN Items(f) \ (DOMAIN f.root \cup S))
                              \o Select(Items(f), DOMAIN f.root \ S))
                  \o SubSeq(f.loops, ChainLen(f) + 1, Len(f.loops))
  OBVIOUS
<1>5. v = [f EXCEPT !.root = spatial, !.loops = ls, !.name = n, !.base = FALSE, !.full = TRUE]
  BY <1>1, <1>3, <1>4 DEF Rebuild
<1>6. v = [name |-> n, root |-> spatial, loops |-> ls, pre |-> pre, deep |-> deep, post |-> post,
           base |-> FALSE, full |-> TRUE, hoistAt |-> at, hoisted |-> hoisted]
  BY <1>2, <1>5
<1>7. v.root = spatial /\ v.base = FALSE /\ v.full = TRUE /\ v.name = n
  BY <1>6
<1> QED
  BY <1>1, <1>3, <1>4, <1>7

(* t is s, of length m, with o and u in place of its element j.             *)
InPlace(t, s, m, j, o, u) ==
  \A i \in 1 .. m + 1 :
    t[i] = IF i < j THEN s[i] ELSE IF i = j THEN o ELSE IF i = j + 1 THEN u ELSE s[i - 1]

(* a is s, of length r, followed by t, up to length n.                      *)
Joined(a, s, t, r, n) == \A i \in 1 .. n : a[i] = IF i <= r THEN s[i] ELSE t[i - r]

(* Two elements in place of one.                                            *)
LEMMA TwoForOne ==
  ASSUME NEW R, NEW s \in Seq(R), NEW j \in 1 .. Len(s), NEW o, NEW u,
         NEW t, t = TwoFor(s, j, o, u), NEW Q, Q = R \cup {o, u}
  PROVE  t \in Seq(Q) /\ Len(t) = Len(s) + 1 /\ InPlace(t, s, Len(s), j, o, u)
<1>1. PICK m : m = Len(s)
  OBVIOUS
<1>2. m \in Nat /\ j \in 1 .. m
  BY <1>1, LenProperties
<1>3. PICK a, b, c : a = SubSeq(s, 1, j - 1) /\ b = <<o, u>> /\ c = SubSeq(s, j + 1, m)
  OBVIOUS
<1>4. a \in Seq(R) /\ Len(a) = j - 1 /\ \A i \in 1 .. j - 1 : a[i] = s[i]
  BY <1>1, <1>2, <1>3, SubSeqProperties
<1>5. c \in Seq(R) /\ Len(c) = m - j /\ \A i \in 1 .. m - j : c[i] = s[i + j]
  BY <1>1, <1>2, <1>3, SubSeqProperties
<1>7. a \in Seq(Q) /\ b \in Seq(Q) /\ c \in Seq(Q)
  <2>1. b \in Seq(Q)
    BY <1>3
  <2>2. R \subseteq Q
    OBVIOUS
  <2> QED
    BY <1>4, <1>5, <2>1, <2>2, SeqOfMore
<1>8. Len(b) = 2 /\ b[1] = o /\ b[2] = u
  BY <1>3
<1>9. PICK ab : ab = a \o b
  OBVIOUS
<1>10. /\ ab \in Seq(Q) /\ Len(ab) = j + 1
       /\ \A i \in 1 .. j + 1 : ab[i] = IF i <= j - 1 THEN a[i] ELSE b[i - (j - 1)]
  <2>1. PICK p, w : p = j - 1 /\ w = 2
    OBVIOUS
  <2>2. p \in Nat /\ p + w = j + 1 /\ p = Len(a) /\ w = Len(b)
    BY <1>2, <1>4, <1>8, <2>1
  <2>4. a \in Seq(Q) /\ b \in Seq(Q)
    BY <1>7
  <2>3. /\ ab \in Seq(Q) /\ Len(ab) = p + w
        /\ \A i \in 1 .. p + w : ab[i] = IF i <= p THEN a[i] ELSE b[i - p]
    BY <1>9, <2>2, <2>4, ConcatAt
  <2> QED
    BY <2>1, <2>2, <2>3
<1>11. t = ab \o c
  BY <1>1, <1>3, <1>9 DEF TwoFor
<1>12. /\ t \in Seq(Q) /\ Len(t) = m + 1
       /\ \A i \in 1 .. m + 1 : t[i] = IF i <= j + 1 THEN ab[i] ELSE c[i - (j + 1)]
  <2>1. PICK p, w : p = j + 1 /\ w = m - j
    OBVIOUS
  <2>2. p \in Nat /\ w \in Nat /\ p + w = m + 1 /\ p = Len(ab) /\ w = Len(c)
    BY <1>2, <1>5, <1>10, <2>1
  <2>4. ab \in Seq(Q) /\ c \in Seq(Q)
    BY <1>7, <1>10
  <2>3. /\ t \in Seq(Q) /\ Len(t) = p + w
        /\ \A i \in 1 .. p + w : t[i] = IF i <= p THEN ab[i] ELSE c[i - p]
    BY <1>11, <2>2, <2>4, ConcatAt
  <2> QED
    BY <2>1, <2>2, <2>3
<1>13. ASSUME NEW i \in 1 .. m + 1
       PROVE  t[i] = IF i < j THEN s[i] ELSE IF i = j THEN o ELSE IF i = j + 1 THEN u ELSE s[i - 1]
  <2>1. CASE i < j
    <3>1. i \in 1 .. j - 1 /\ i \in 1 .. j + 1 /\ i <= j + 1 /\ i <= j - 1
      BY <1>2, <2>1
    <3> QED
      BY <1>4, <1>10, <1>12, <2>1, <3>1
  <2>2. CASE i = j
    <3>1. i \in 1 .. j + 1 /\ i <= j + 1 /\ ~ (i <= j - 1) /\ i - (j - 1) = 1
      BY <1>2, <2>2
    <3> QED
      BY <1>2, <1>8, <1>10, <1>12, <2>2, <3>1
  <2>3. CASE i = j + 1
    <3>1. i \in 1 .. j + 1 /\ i <= j + 1 /\ ~ (i <= j - 1) /\ i - (j - 1) = 2 /\ ~ (i < j) /\ i # j
      BY <1>2, <2>3
    <3> QED
      BY <1>8, <1>10, <1>12, <2>3, <3>1
  <2>4. CASE i > j + 1
    <3>1. /\ ~ (i <= j + 1) /\ ~ (i < j) /\ i # j /\ i # j + 1
          /\ i - (j + 1) \in 1 .. m - j /\ (i - (j + 1)) + j = i - 1
      BY <1>2, <2>4
    <3>2. t[i] = c[i - (j + 1)]
      BY <1>12, <3>1
    <3>3. c[i - (j + 1)] = s[i - 1]
      BY <1>5, <3>1
    <3> QED
      BY <3>1, <3>2, <3>3
  <2> QED
    BY <1>2, <2>1, <2>2, <2>3, <2>4
<1> QED
  BY <1>1, <1>12, <1>13 DEF InPlace

(* n elements, w after the change at p, r before the m of which it is j.    *)
Sizes(n, w, p, r, m, j) == n = r + m /\ w = n + 1 /\ p = r + j

(* Two loops in place of one, after those of the root.                      *)
LEMMA HalvesInPlace ==
  ASSUME NEW root, NEW s, NEW r \in Nat, NEW m \in Nat, NEW j \in 1 .. m, NEW o, NEW u,
         NEW t, InPlace(t, s, m, j, o, u),
         NEW n, NEW w, NEW p, Sizes(n, w, p, r, m, j),
         NEW a, Joined(a, root, s, r, n), NEW b, Joined(b, root, t, r, w)
  PROVE  p \in 1 .. n /\ a[p] = s[j] /\ InPlace(b, a, n, p, o, u)
<1>1. /\ \A i \in 1 .. m + 1 : t[i] = IF i < j THEN s[i] ELSE IF i = j THEN o
                                  ELSE IF i = j + 1 THEN u ELSE s[i - 1]
      /\ \A i \in 1 .. n : a[i] = IF i <= r THEN root[i] ELSE s[i - r]
      /\ \A i \in 1 .. n + 1 : b[i] = IF i <= r THEN root[i] ELSE t[i - r]
  BY DEF InPlace, Joined, Sizes
<1>2. r \in Nat /\ m \in Nat /\ n = r + m /\ j \in 1 .. m /\ p \in 1 .. n
  BY DEF Sizes
<1>3. a[p] = s[j]
  <2>1. ~ (p <= r) /\ p - r = j
    BY <1>2 DEF Sizes
  <2> QED
    BY <1>1, <1>2, <2>1
<1>4. ASSUME NEW i \in 1 .. n + 1
      PROVE  b[i] = IF i < p THEN a[i] ELSE IF i = p THEN o ELSE IF i = p + 1 THEN u ELSE a[i - 1]
  <2>1. CASE i <= r
    <3>1. i \in 1 .. n /\ i < p
      BY <1>2, <2>1 DEF Sizes
    <3> QED
      BY <1>1, <2>1, <3>1
  <2>2. CASE ~ (i <= r)
    <3>1. PICK x : x = i - r
      OBVIOUS
    <3>2. x \in 1 .. m + 1
      BY <1>2, <2>2, <3>1
    <3>3. /\ b[i] = t[x]
          /\ t[x] = IF x < j THEN s[x] ELSE IF x = j THEN o ELSE IF x = j + 1 THEN u ELSE s[x - 1]
      BY <1>1, <2>2, <3>1, <3>2
    <3>4. (x < j <=> i < p) /\ (x = j <=> i = p) /\ (x = j + 1 <=> i = p + 1)
      BY <1>2, <3>1 DEF Sizes
    <3>5. CASE i < p
      <4>1. i \in 1 .. n
        BY <1>2, <3>5
      <4>2. a[i] = s[x]
        BY <1>1, <2>2, <3>1, <4>1
      <4> QED
        BY <3>3, <3>4, <3>5, <4>2
    <3>6. CASE i = p \/ i = p + 1
      <4>1. (i = p => ~ (i < p)) /\ (i = p + 1 => ~ (i < p) /\ i # p)
        BY <1>2
      <4>2. (x = j => ~ (x < j)) /\ (x = j + 1 => ~ (x < j) /\ x # j)
        BY <1>2
      <4> QED
        BY <3>3, <3>4, <3>6, <4>1, <4>2
    <3>7. CASE ~ (i < p) /\ i # p /\ i # p + 1
      <4>1. i - 1 \in 1 .. n /\ ~ (i - 1 <= r) /\ (i - 1) - r = x - 1
        BY <1>2, <2>2, <3>1, <3>7 DEF Sizes
      <4>2. a[i - 1] = s[x - 1]
        BY <1>1, <4>1
      <4> QED
        BY <3>3, <3>4, <3>7, <4>2
    <3> QED
      BY <3>5, <3>6, <3>7
  <2> QED
    BY <2>1, <2>2
<1> QED
  BY <1>2, <1>3, <1>4 DEF InPlace

(* The number of loops of k, and where loop j is.                           *)
Place(k, j, n, p) == n = Len(k.root) + Len(k.loops) /\ p = Len(k.root) + j

LEMMA SplitAll ==
  ASSUME NEW k, KernelOK(k), NEW j \in 1 .. Len(k.loops), NEW q,
         NEW f, f = SplitLoop(k, j, q), NEW n, NEW p, Place(k, j, n, p)
  PROVE  /\ n \in Nat /\ p \in 1 .. n /\ (\E R : LoopsOK(f, R))
         /\ DOMAIN All(k) = 1 .. n /\ DOMAIN All(f) = 1 .. n + 1
         /\ All(k)[p] = k.loops[j] /\ Len(f.root) = Len(k.root)
         /\ InPlace(All(f), All(k), n, p, Outer(k, j, q), Inner(k, j, q))
<1>1. PICK root, s, t, o, u : /\ root = k.root /\ s = k.loops /\ t = f.loops
                              /\ o = Outer(k, j, q) /\ u = Inner(k, j, q)
  OBVIOUS
<1>2. f.root = root /\ t = TwoFor(s, j, o, u)
  BY <1>1, SplitFields
<1>3. PICK R : root \in Seq(R) /\ s \in Seq(R)
  BY <1>1, SourceLoops DEF LoopsOK
<1>4. PICK r, m : r = Len(root) /\ m = Len(s)
  OBVIOUS
<1>5. r \in Nat /\ m \in Nat /\ j \in 1 .. Len(s) /\ n = r + m /\ p = r + j
  BY <1>1, <1>3, <1>4, LenProperties DEF Place
<1>6. PICK Q : Q = R \cup {o, u}
  OBVIOUS
<1>7. t \in Seq(Q) /\ Len(t) = m + 1 /\ InPlace(t, s, m, j, o, u)
  <2>1. s \in Seq(R) /\ j \in 1 .. Len(s)
    BY <1>3, <1>5
  <2> QED
    BY <1>2, <1>4, <1>6, <2>1, TwoForOne
<1>8. LoopsOK(f, Q) /\ LoopsOK(k, R)
  <2>1. root \in Seq(Q)
    BY <1>3, <1>6, SeqOfMore
  <2> QED
    BY <1>1, <1>2, <1>3, <1>7, <2>1 DEF LoopsOK
<1>9. PICK a, b : a = All(k) /\ b = All(f)
  OBVIOUS
<1>10. DOMAIN a = 1 .. n /\ Joined(a, root, s, r, n)
  BY <1>1, <1>4, <1>5, <1>8, <1>9, AllAt DEF Joined
<1>11. DOMAIN b = 1 .. n + 1 /\ Joined(b, root, t, r, n + 1)
  <2>1. n + 1 = r + (m + 1)
    BY <1>5
  <2>2. PICK g : g = f
    OBVIOUS
  <2>3. LoopsOK(g, Q) /\ g.root = root /\ g.loops = t /\ b = All(g)
    BY <1>1, <1>2, <1>8, <1>9, <2>2
  <2>4. Len(g.root) = r /\ Len(g.loops) = m + 1
    BY <1>4, <1>7, <2>3
  <2>5. /\ DOMAIN All(g) = 1 .. Len(g.root) + Len(g.loops)
        /\ \A i \in 1 .. Len(g.root) + Len(g.loops) :
             All(g)[i] = IF i <= Len(g.root) THEN g.root[i] ELSE g.loops[i - Len(g.root)]
    BY <2>3, AllAt
  <2> QED
    BY <2>1, <2>3, <2>4, <2>5 DEF Joined
<1>12. p \in 1 .. n /\ a[p] = s[j] /\ InPlace(b, a, n, p, o, u)
  <2>1. j \in 1 .. m
    BY <1>4, <1>5
  <2>2. PICK w : w = n + 1
    OBVIOUS
  <2>3. Sizes(n, w, p, r, m, j) /\ Joined(b, root, t, r, w)
    BY <1>5, <1>11, <2>2 DEF Sizes
  <2>4. r \in Nat /\ m \in Nat /\ InPlace(t, s, m, j, o, u) /\ Joined(a, root, s, r, n)
    BY <1>5, <1>7, <1>10
  <2> QED
    BY <2>1, <2>3, <2>4, HalvesInPlace
<1>13. n \in Nat
  BY <1>5
<1> QED
  BY <1>1, <1>2, <1>8, <1>9, <1>10, <1>11, <1>12, <1>13

(* m is the half of the given name.                                         *)
HalfOf(loop, q, part, m) ==
  /\ m.id = <<loop.id[1], part>> /\ m.name.part = part
  /\ part = "o" => m.extent = loop.extent \div q
  /\ part = "i" => m.extent = q

LEMMA Quotient ==
  ASSUME NEW e \in Nat, NEW q \in Nat \ {0}
  PROVE  e \div q \in Nat /\ e % q \in 0 .. q - 1 /\ e = q * (e \div q) + (e % q)
BY SMT

LEMMA DivExact ==
  ASSUME NEW e \in Nat \ {0}, NEW q \in Nat \ {0}, NEW r, r = e % q, r = 0
  PROVE  e \div q \in Nat \ {0} /\ e = q * (e \div q)
<1>1. PICK d : d = e \div q
  OBVIOUS
<1>2. d \in Nat /\ e = q * d + r
  BY <1>1, Quotient
<1>3. e = q * d
  BY <1>2
<1>4. d # 0
  BY <1>3
<1> QED
  BY <1>1, <1>2, <1>3, <1>4

(* Loop j of the chain of k.                                                *)
LoopAt(k, j, loop) == j \in 1 .. ChainLen(k) /\ loop = k.loops[j]

LEMMA HalvesAre ==
  ASSUME NEW k, NEW j, NEW loop, LoopAt(k, j, loop), SourceLoop(loop), IsLoop(loop),
         loop.dep = NoLoop, NEW q \in FloorDivisors(k, loop)
  PROVE  /\ IsHalf(Outer(k, j, q)) /\ HalfOf(loop, q, "o", Outer(k, j, q))
         /\ IsHalf(Inner(k, j, q)) /\ HalfOf(loop, q, "i", Inner(k, j, q))
<1>1. PICK e : e = loop.extent
  OBVIOUS
<1>2. e \in Nat \ {0}
  BY <1>1, SourceFields
<1>3. q \in 2 .. e - 1 /\ e % q = 0
  BY <1>1 DEF FloorDivisors
<1>10. q \in Nat \ {0}
  BY <1>2, <1>3
<1>4. e \div q \in Nat \ {0}
  BY <1>2, <1>3, <1>10, DivExact
<1>5. PICK sym, n : LoopName(loop, Len(k.root) + j - 1) = Named(sym, n) /\ sym # ""
  <2>1. PICK idx : idx = Len(k.root) + j - 1
    OBVIOUS
  <2>2. PICK sym, n : LoopName(loop, idx) = Named(sym, n) /\ sym # ""
    BY SymName
  <2> QED
    BY <2>1, <2>2
<1>6. PICK o, u : o = Outer(k, j, q) /\ u = Inner(k, j, q)
  OBVIOUS
<1>7. o = Part(loop, Named(sym, n), "o", e \div q, q) /\ u = Part(loop, Named(sym, n), "i", q, 1)
  BY <1>1, <1>5, <1>6 DEF Outer, Inner, LoopAt
<1>8. /\ IsLoop(o) /\ o.id = <<loop.id[1], "o">> /\ o.scale = q /\ o.extent = e \div q
      /\ o.name.sym = sym /\ o.name.part = "o" /\ o.block = 0 /\ o.dep = loop.dep
  BY <1>7, PartFields
<1>9. /\ IsLoop(u) /\ u.id = <<loop.id[1], "i">> /\ u.scale = 1 /\ u.extent = q
      /\ u.name.sym = sym /\ u.name.part = "i" /\ u.block = 0 /\ u.dep = loop.dep
  BY <1>7, PartFields
<1>11. IsHalf(o) /\ HalfOf(loop, q, "o", o)
  <2>1. o.extent \in Nat \ {0} /\ o.scale \in Nat /\ o.dep = NoLoop /\ o.name.sym # ""
    BY <1>4, <1>5, <1>8, <1>10
  <2>2. IsHalf(o)
    BY <1>8, <2>1 DEF IsHalf
  <2> QED
    BY <1>1, <1>8, <2>2 DEF HalfOf
<1>12. IsHalf(u) /\ HalfOf(loop, q, "i", u)
  <2>1. u.extent \in Nat \ {0} /\ u.scale \in Nat /\ u.dep = NoLoop /\ u.name.sym # ""
    <3>1. u.scale \in Nat
      BY <1>9
    <3>2. u.extent \in Nat \ {0}
      BY <1>9, <1>10
    <3> QED
      BY <1>5, <1>9, <3>1, <3>2
  <2>2. IsHalf(u)
    BY <1>9, <2>1 DEF IsHalf
  <2> QED
    BY <1>9, <2>2 DEF HalfOf
<1> QED
  BY <1>6, <1>11, <1>12

(* What Items makes of the loop at place i of k split at p.                 *)
MadeOf(k, loop, q, p, i, m) ==
  /\ i < p => Kept(k, i, All(k)[i], m)
  /\ i = p => Fits(k, m) /\ HalfOf(loop, q, "o", m)
  /\ i = p + 1 => Fits(k, m) /\ HalfOf(loop, q, "i", m)
  /\ i > p + 1 => Kept(k, i, All(k)[i - 1], m)

LEMMA MadeApart ==
  ASSUME NEW k, KernelOK(k), NEW n \in Nat, DOMAIN All(k) = 1 .. n, NEW loop, NEW q,
         NEW p \in 1 .. n, NEW i \in 1 .. n + 1, NEW x \in 1 .. n + 1, i # x,
         NEW a, MadeOf(k, loop, q, p, i, a), NEW b, MadeOf(k, loop, q, p, x, b)
  PROVE  a.id # b.id /\ a.name # b.name
<1>1. \A m : FromSource(m) => m.id[2] = "" /\ m.name.part = ""
  BY DEF FromSource
<1>2. \A m : HalfOf(loop, q, "o", m) => m.id[2] = "o" /\ m.name.part = "o"
  BY DEF HalfOf
<1>3. \A m : HalfOf(loop, q, "i", m) => m.id[2] = "i" /\ m.name.part = "i"
  BY DEF HalfOf
<1>4. \A c, l, m : Kept(k, c, l, m) => FromSource(m)
  BY DEF Kept
<1>5. (i < p \/ i > p + 1) => FromSource(a)
  BY <1>4 DEF MadeOf
<1>6. (x < p \/ x > p + 1) => FromSource(b)
  BY <1>4 DEF MadeOf
<1>7. (i = p => HalfOf(loop, q, "o", a)) /\ (i = p + 1 => HalfOf(loop, q, "i", a))
  BY DEF MadeOf
<1>8. (x = p => HalfOf(loop, q, "o", b)) /\ (x = p + 1 => HalfOf(loop, q, "i", b))
  BY DEF MadeOf
<1>9. CASE (i < p \/ i > p + 1) /\ (x < p \/ x > p + 1)
  <2>1. PICK y \in 1 .. n : /\ i < p => y = i
                            /\ i > p + 1 => y = i - 1
    <3>1. CASE i < p
      <4>1. i \in 1 .. n /\ ~ (i > p + 1)
        BY <3>1
      <4> QED
        BY <4>1
    <3>2. CASE i > p + 1
      <4>1. i - 1 \in 1 .. n /\ ~ (i < p)
        BY <3>2
      <4> QED
        BY <4>1
    <3> QED
      BY <1>9, <3>1, <3>2
  <2>2. PICK z \in 1 .. n : /\ x < p => z = x
                            /\ x > p + 1 => z = x - 1
    <3>1. CASE x < p
      <4>1. x \in 1 .. n /\ ~ (x > p + 1)
        BY <3>1
      <4> QED
        BY <4>1
    <3>2. CASE x > p + 1
      <4>1. x - 1 \in 1 .. n /\ ~ (x < p)
        BY <3>2
      <4> QED
        BY <4>1
    <3> QED
      BY <1>9, <3>1, <3>2
  <2>3. y # z
    BY <1>9, <2>1, <2>2
  <2>4. Kept(k, i, All(k)[y], a) /\ Kept(k, x, All(k)[z], b)
    BY <1>9, <2>1, <2>2 DEF MadeOf
  <2>5. i \in Nat /\ x \in Nat
    OBVIOUS
  <2> QED
    BY <2>3, <2>4, <2>5, KeptApart
<1>10. CASE (i = p \/ i = p + 1) /\ (x < p \/ x > p + 1)
  BY <1>1, <1>2, <1>3, <1>6, <1>7, <1>10
<1>11. CASE (i < p \/ i > p + 1) /\ (x = p \/ x = p + 1)
  BY <1>1, <1>2, <1>3, <1>5, <1>8, <1>11
<1>12. CASE (i = p \/ i = p + 1) /\ (x = p \/ x = p + 1)
  BY <1>2, <1>3, <1>7, <1>8, <1>12
<1>13. (i < p \/ i = p \/ i = p + 1 \/ i > p + 1) /\ (x < p \/ x = p \/ x = p + 1 \/ x > p + 1)
  OBVIOUS
<1> QED
  BY <1>9, <1>10, <1>11, <1>12, <1>13

(* f is k with loop, which is loop j of k, split by q.                      *)
SplitAt(k, j, loop, q, f) ==
  LoopAt(k, j, loop) /\ q \in FloorDivisors(k, loop) /\ f = SplitLoop(k, j, q)

LEMMA ItemMade ==
  ASSUME NEW k, KernelOK(k), NEW n \in Nat, DOMAIN All(k) = 1 .. n, NEW p \in 1 .. n,
         NEW loop, NEW q, NEW o, NEW u, IsHalf(o), HalfOf(loop, q, "o", o),
         IsHalf(u), HalfOf(loop, q, "i", u),
         NEW a, InPlace(a, All(k), n, p, o, u), NEW i \in 1 .. n + 1, NEW l, l = a[i],
         l.dep = NoLoop, NEW m, m = [l EXCEPT !.name = LoopName(l, i - 1)]
  PROVE  MadeOf(k, loop, q, p, i, m)
<1>1. a[i] = IF i < p THEN All(k)[i] ELSE IF i = p THEN o
             ELSE IF i = p + 1 THEN u ELSE All(k)[i - 1]
  BY DEF InPlace
<1>2. CASE i < p
  <2>1. i \in DOMAIN All(k) /\ l = All(k)[i]
    BY <1>1, <1>2
  <2>2. Kept(k, i, All(k)[i], m)
    BY <2>1, NamedKept
  <2>3. i # p /\ i # p + 1 /\ ~ (i > p + 1)
    BY <1>2
  <2> QED
    BY <2>2, <2>3 DEF MadeOf
<1>3. CASE i = p
  <2>1. l = o
    BY <1>1, <1>3
  <2>2. Fits(k, m) /\ m.id = o.id /\ m.name = o.name /\ m.extent = o.extent
    BY <2>1, HalfNamed
  <2>3. HalfOf(loop, q, "o", m)
    BY <2>2 DEF HalfOf
  <2>4. ~ (i < p) /\ i # p + 1 /\ ~ (i > p + 1)
    BY <1>3
  <2> QED
    BY <2>2, <2>3, <2>4 DEF MadeOf
<1>4. CASE i = p + 1
  <2>1. l = u
    BY <1>1, <1>4
  <2>2. Fits(k, m) /\ m.id = u.id /\ m.name = u.name /\ m.extent = u.extent
    BY <2>1, HalfNamed
  <2>3. HalfOf(loop, q, "i", m)
    BY <2>2 DEF HalfOf
  <2>4. ~ (i < p) /\ i # p /\ ~ (i > p + 1)
    BY <1>4
  <2> QED
    BY <2>2, <2>3, <2>4 DEF MadeOf
<1>5. CASE i > p + 1
  <2>1. i - 1 \in 1 .. n /\ ~ (i < p) /\ i # p /\ i # p + 1
    BY <1>5
  <2>2. PICK x : x = i - 1
    OBVIOUS
  <2>3. x \in DOMAIN All(k) /\ l = All(k)[x]
    BY <1>1, <2>1, <2>2
  <2>4. Kept(k, i, All(k)[x], m)
    BY <2>3, NamedKept
  <2> QED
    BY <2>1, <2>2, <2>4 DEF MadeOf
<1> QED
  BY <1>2, <1>3, <1>4, <1>5

LEMMA SplitItems ==
  ASSUME NEW k, KernelOK(k), NEW j, NEW loop, NEW q, NEW f, SplitAt(k, j, loop, q, f)
  PROVE  /\ ItemsOK(k, f)
         /\ \A i \in DOMAIN Items(f) :
              \/ FromSource(Items(f)[i])
              \/ HalfOf(loop, q, "o", Items(f)[i]) \/ HalfOf(loop, q, "i", Items(f)[i])
<1>1. PICK R : LoopsOK(k, R)
  BY SourceLoops
<1>2. ChainLen(k) \in 0 .. Len(k.loops)
  BY <1>1, ChainPromotable DEF LoopsOK
<1>3. PICK n, p : Place(k, j, n, p)
  BY DEF Place
<1>20. j \in 1 .. ChainLen(k) /\ loop = k.loops[j] /\ q \in FloorDivisors(k, loop)
       /\ f = SplitLoop(k, j, q)
  BY DEF SplitAt, LoopAt
<1>4. j \in 1 .. Len(k.loops)
  <2>1. Len(k.loops) \in Nat
    BY <1>1, AllAt
  <2> QED
    BY <1>2, <1>20, <2>1
<1>5. /\ n \in Nat /\ p \in 1 .. n /\ (\E Q : LoopsOK(f, Q))
      /\ DOMAIN All(k) = 1 .. n /\ DOMAIN All(f) = 1 .. n + 1
      /\ All(k)[p] = k.loops[j] /\ Len(f.root) = Len(k.root)
      /\ InPlace(All(f), All(k), n, p, Outer(k, j, q), Inner(k, j, q))
  <2>1. PICK x \in 1 .. Len(k.loops) : x = j
    BY <1>4
  <2>2. Place(k, x, n, p) /\ f = SplitLoop(k, x, q)
    BY <1>3, <1>20, <2>1
  <2>3. /\ n \in Nat /\ p \in 1 .. n /\ (\E Q : LoopsOK(f, Q))
        /\ DOMAIN All(k) = 1 .. n /\ DOMAIN All(f) = 1 .. n + 1
        /\ All(k)[p] = k.loops[x] /\ Len(f.root) = Len(k.root)
        /\ InPlace(All(f), All(k), n, p, Outer(k, x, q), Inner(k, x, q))
    BY <2>2, SplitAll
  <2> QED
    BY <2>1, <2>3
<1>6. PICK Q : LoopsOK(f, Q)
  BY <1>5
<1>7. SourceLoop(loop) /\ IsLoop(loop) /\ loop.dep = NoLoop
  <2>1. loop = All(k)[p] /\ p \in DOMAIN All(k)
    BY <1>5, <1>20
  <2>2. p \in 1 .. Len(k.root) + ChainLen(k)
    <3>1. PICK r, c : r = Len(k.root) /\ c = ChainLen(k)
      OBVIOUS
    <3>2. r \in Nat /\ j \in 1 .. c /\ c \in Nat /\ p = r + j
      <4>1. Len(k.root) \in Nat /\ Len(k.loops) \in Nat
        BY <1>1, AllAt
      <4> QED
        BY <1>2, <1>3, <1>20, <3>1, <4>1 DEF Place
    <3>3. p \in 1 .. r + c
      BY <3>2
    <3> QED
      BY <3>1, <3>3
  <2>3. All(k)[p].dep = NoLoop
    BY <1>1, <2>2, SourceLoops, ItemsIndependent
  <2> QED
    BY <2>1, <2>3, SourceLoops
<1>8. PICK o, u : o = Outer(k, j, q) /\ u = Inner(k, j, q)
  OBVIOUS
<1>9. IsHalf(o) /\ HalfOf(loop, q, "o", o) /\ IsHalf(u) /\ HalfOf(loop, q, "i", u)
  BY <1>7, <1>8, <1>20, HalvesAre DEF LoopAt
<1>10. PICK a : a = All(f)
  OBVIOUS
<1>11. InPlace(a, All(k), n, p, o, u)
  BY <1>5, <1>8, <1>10
<1>12. PICK e : e = Len(f.root) + ChainLen(f)
  OBVIOUS
<1>13. /\ e \in Nat /\ 1 .. e \subseteq DOMAIN All(f)
       /\ Items(f) \in [1 .. e -> ToSet(Items(f))]
       /\ \A i \in 1 .. e : Items(f)[i] = [All(f)[i] EXCEPT !.name = LoopName(All(f)[i], i - 1)]
  BY <1>6, <1>12, ItemsAre
<1>14. f.root = k.root
  BY <1>4, <1>20, SplitFields
<1>15. ASSUME NEW i \in 1 .. e PROVE All(f)[i].dep = NoLoop
  <2>2. \A x \in DOMAIN k.root : k.root[x].dep = NoLoop
    BY SourceLoops
  <2>1. \A x \in DOMAIN f.root : f.root[x].dep = NoLoop
    BY <1>14, <2>2
  <2> QED
    BY <1>6, <1>12, <2>1, ItemsIndependent
<1>16. ASSUME NEW i \in 1 .. e PROVE i \in 1 .. n + 1 /\ MadeOf(k, loop, q, p, i, Items(f)[i])
  <2>1. i \in 1 .. n + 1
    BY <1>5, <1>13
  <2>2. PICK l, m : l = a[i] /\ m = Items(f)[i]
    OBVIOUS
  <2>3. l.dep = NoLoop /\ m = [l EXCEPT !.name = LoopName(l, i - 1)]
    BY <1>10, <1>13, <1>15, <2>2
  <2>4. MadeOf(k, loop, q, p, i, m)
    BY <1>5, <1>9, <1>11, <2>1, <2>2, <2>3, ItemMade
  <2> QED
    BY <2>1, <2>2, <2>4
<1>17. DOMAIN Items(f) = 1 .. e /\ Items(f) \in Seq(ToSet(Items(f)))
  <2>1. PICK items, I : items = Items(f) /\ I = ToSet(Items(f))
    OBVIOUS
  <2>2. items \in [1 .. e -> I] /\ e \in Nat
    BY <1>13, <2>1
  <2> QED
    BY <2>1, <2>2
<1>18. ASSUME NEW i \in 1 .. e, NEW x \in 1 .. e, i # x
       PROVE  Items(f)[i].id # Items(f)[x].id /\ Items(f)[i].name # Items(f)[x].name
  BY <1>5, <1>16, <1>18, MadeApart
<1>19. ASSUME NEW i \in 1 .. e
       PROVE  /\ Fits(k, Items(f)[i])
              /\ \/ FromSource(Items(f)[i])
                 \/ HalfOf(loop, q, "o", Items(f)[i]) \/ HalfOf(loop, q, "i", Items(f)[i])
  <2>1. MadeOf(k, loop, q, p, i, Items(f)[i])
    BY <1>16
  <2>2. i < p \/ i = p \/ i = p + 1 \/ i > p + 1
    BY <1>5
  <2> QED
    BY <2>1, <2>2 DEF MadeOf, Kept
<1> QED
  BY <1>17, <1>18, <1>19 DEF ItemsOK, Apart

-----------------------------------------------------------------------------
(* The functions of the module. *)

(* f is k, or k with a loop split.                                          *)
SplitOf(k, f) == \E j, loop, q : SplitAt(k, j, loop, q, f)

BaseOf(k, f) == f = k \/ SplitOf(k, f)

LEMMA SplitsAre ==
  ASSUME NEW k, NEW f \in SplitsOf(k)
  PROVE  SplitOf(k, f)
<1>3. PICK j \in 1 .. ChainLen(k) : \E q \in FloorDivisors(k, k.loops[j]) : f = SplitLoop(k, j, q)
  BY DEF SplitsOf
<1>1. PICK q \in FloorDivisors(k, k.loops[j]) : f = SplitLoop(k, j, q)
  BY <1>3
<1>2. PICK loop : loop = k.loops[j]
  OBVIOUS
<1> QED
  BY <1>1, <1>2 DEF SplitOf, SplitAt, LoopAt

LEMMA BaseItems ==
  ASSUME NEW k, KernelOK(k), NEW f, BaseOf(k, f)
  PROVE  ItemsOK(k, f) /\ IsFunc(f)
<1>1. CASE f = k
  BY <1>1, SourceItems, SourceIsFunc
<1>2. CASE SplitOf(k, f)
  <2>3. PICK j, loop, q : SplitAt(k, j, loop, q, f)
    BY <1>2 DEF SplitOf
  <2>4. IsFunc(f)
    BY <2>3, SplitFields DEF SplitAt
  <2>5. ItemsOK(k, f)
    BY <2>3, SplitItems
  <2> QED
    BY <2>4, <2>5
<1> QED
  BY <1>1, <1>2 DEF BaseOf

(* What the loops of f at the positions of S are and how far they run.      *)
PickedAt(f, S) == {<<Items(f)[i].id, Items(f)[i].extent>> : i \in S}

Spatial(f) == {<<l.id, l.extent>> : l \in ToSet(f.root)}

LEMMA VariantSpatial ==
  ASSUME NEW k, KernelOK(k), NEW f, BaseOf(k, f), NEW S \in SUBSET DOMAIN Items(f)
  PROVE  /\ ToSet(Select(Items(f), S)) = {Items(f)[i] : i \in S}
         /\ Spatial(Rebuild(f, S)) = PickedAt(f, S)
<1>1. PICK items, R : items = Items(f) /\ R = ToSet(Items(f))
  OBVIOUS
<1>2. items \in Seq(R) /\ IsFunc(f)
  BY <1>1, BaseItems DEF ItemsOK
<1>3. ToSet(Select(items, S)) = {items[i] : i \in S \cap DOMAIN items}
  BY <1>2, SelectElements
<1>4. ToSet(Select(items, S)) = {items[i] : i \in S}
  BY <1>1, <1>3
<1>5. Rebuild(f, S).root = Select(items, S)
  BY <1>1, <1>2, RebuildFields
<1>6. Spatial(Rebuild(f, S)) = {<<items[i].id, items[i].extent>> : i \in S}
  BY <1>4, <1>5 DEF Spatial
<1> QED
  BY <1>1, <1>4, <1>6 DEF PickedAt

(* The parallel loop of the source.                                         *)
LEMMA SourceSpatial ==
  ASSUME NEW k, KernelOK(k)
  PROVE  DOMAIN k.root \subseteq DOMAIN Items(k) /\ Spatial(k) = PickedAt(k, DOMAIN k.root)
<1>1. PICK R : LoopsOK(k, R)
  BY SourceLoops
<1>2. PICK n, r, root : n = Len(k.root) + ChainLen(k) /\ r = Len(k.root) /\ root = k.root
  OBVIOUS
<1>3. /\ n \in Nat /\ r \in 0 .. n /\ 1 .. n \subseteq DOMAIN All(k)
      /\ Items(k) \in [1 .. n -> ToSet(Items(k))]
      /\ \A i \in 1 .. n : Items(k)[i] = [All(k)[i] EXCEPT !.name = LoopName(All(k)[i], i - 1)]
  BY <1>1, <1>2, ItemsAre
<1>4. DOMAIN root = 1 .. r /\ DOMAIN Items(k) = 1 .. n /\ ToSet(root) = {root[i] : i \in 1 .. r}
  BY <1>1, <1>2, <1>3, LenProperties DEF LoopsOK, ToSet
<1>5. ASSUME NEW i \in 1 .. r
      PROVE  i \in 1 .. n /\ Items(k)[i].id = root[i].id /\ Items(k)[i].extent = root[i].extent
  <2>1. i \in 1 .. n /\ i <= r
    BY <1>3
  <2>2. All(k)[i] = root[i]
    <3>1. PICK m : m = Len(k.loops)
      OBVIOUS
    <3>2. m \in Nat /\ \A x \in 1 .. r + m : All(k)[x] = IF x <= r THEN root[x] ELSE k.loops[x - r]
      BY <1>1, <1>2, <3>1, AllAt
    <3>3. i \in 1 .. r + m
      BY <1>3, <3>2
    <3> QED
      BY <2>1, <3>2, <3>3
  <2>3. IsLoop(All(k)[i])
    BY <1>3, <2>1, SourceLoops
  <2>4. PICK l, m, name : l = All(k)[i] /\ m = Items(k)[i] /\ name = LoopName(All(k)[i], i - 1)
    OBVIOUS
  <2>5. m = [l EXCEPT !.name = name]
    BY <1>3, <2>1, <2>4
  <2>6. m.id = l.id /\ m.extent = l.extent
    BY <2>3, <2>4, <2>5, Renamed
  <2> QED
    BY <2>1, <2>2, <2>4, <2>6
<1>6. Spatial(k) = {<<root[i].id, root[i].extent>> : i \in 1 .. r}
  BY <1>2, <1>4 DEF Spatial
<1>7. PickedAt(k, 1 .. r) = {<<root[i].id, root[i].extent>> : i \in 1 .. r}
  BY <1>5 DEF PickedAt
<1>8. 1 .. r \subseteq 1 .. n
  BY <1>5
<1> QED
  BY <1>2, <1>4, <1>6, <1>7, <1>8

NamesAt(f, S) == {Items(f)[i].name : i \in S}

(* Different choices from the same function.                                *)
LEMMA PickedDiffer ==
  ASSUME NEW k, NEW f, ItemsOK(k, f), NEW S \in SUBSET DOMAIN Items(f),
         NEW T \in SUBSET DOMAIN Items(f), S # T
  PROVE  PickedAt(f, S) # PickedAt(f, T) /\ NamesAt(f, S) # NamesAt(f, T)
<1>1. \A i, j \in DOMAIN Items(f) :
        i # j => Items(f)[i].id # Items(f)[j].id /\ Items(f)[i].name # Items(f)[j].name
  BY DEF ItemsOK, Apart
<1>2. ASSUME NEW A \in SUBSET DOMAIN Items(f), NEW B \in SUBSET DOMAIN Items(f),
             NEW x \in A, x \notin B
      PROVE  /\ <<Items(f)[x].id, Items(f)[x].extent>> \in PickedAt(f, A)
             /\ <<Items(f)[x].id, Items(f)[x].extent>> \notin PickedAt(f, B)
             /\ Items(f)[x].name \in NamesAt(f, A)
             /\ Items(f)[x].name \notin NamesAt(f, B)
  <2>1. \A i \in B : Items(f)[i].id # Items(f)[x].id /\ Items(f)[i].name # Items(f)[x].name
    BY <1>1, <1>2
  <2>2. <<Items(f)[x].id, Items(f)[x].extent>> \notin PickedAt(f, B)
    BY <2>1 DEF PickedAt
  <2> QED
    BY <2>1, <2>2 DEF PickedAt, NamesAt
<1>3. PICK x : (x \in S /\ x \notin T) \/ (x \in T /\ x \notin S)
  OBVIOUS
<1>4. CASE x \in S /\ x \notin T
  BY <1>2, <1>4
<1>5. CASE x \in T /\ x \notin S
  BY <1>2, <1>5
<1> QED
  BY <1>3, <1>4, <1>5

(* What comes after the first m elements.                                   *)
After(n, m) == {n[i] : i \in {x \in DOMAIN n : x > m}}

LEMMA AfterFirst ==
  ASSUME NEW Q, NEW s \in Seq(Q), NEW t \in Seq(Q), NEW u, u = s \o t
  PROVE  After(u, Len(s)) = ToSet(t)
<1>1. PICK m, n : m = Len(s) /\ n = Len(t)
  OBVIOUS
<1>2. /\ m \in Nat /\ n \in Nat /\ DOMAIN u = 1 .. m + n
      /\ \A i \in 1 .. m + n : u[i] = IF i <= m THEN s[i] ELSE t[i - m]
  BY <1>1, ConcatAt
<1>3. ToSet(t) = {t[i] : i \in 1 .. n}
  BY <1>1, LenProperties DEF ToSet
<1>4. ASSUME NEW x \in After(u, m) PROVE x \in ToSet(t)
  <2>1. PICK i \in DOMAIN u : i > m /\ x = u[i]
    BY <1>4 DEF After
  <2>2. i \in 1 .. m + n /\ ~ (i <= m) /\ i - m \in 1 .. n
    BY <1>2, <2>1
  <2>3. x = t[i - m]
    BY <1>2, <2>1, <2>2
  <2> QED
    BY <1>3, <2>2, <2>3
<1>5. ASSUME NEW x \in ToSet(t) PROVE x \in After(u, m)
  <2>1. PICK i \in 1 .. n : x = t[i]
    BY <1>3, <1>5
  <2>2. PICK y : y = m + i
    OBVIOUS
  <2>3. y \in 1 .. m + n /\ ~ (y <= m) /\ y > m /\ y - m = i
    BY <1>2, <2>2
  <2>4. u[y] = x
    BY <1>2, <2>1, <2>3
  <2> QED
    BY <1>2, <2>3, <2>4 DEF After
<1> QED
  BY <1>1, <1>4, <1>5

(* The first part of the name of a variant of f, and the rest.              *)
NamedAfter(f, S, v) ==
  /\ Len(f.name) \in Nat /\ v # <<>>
  /\ v[1] = IF Len(f.name) = 0 THEN Named("par", 0) ELSE f.name[1]
  /\ After(v, Len(f.name) + 1) = NamesAt(f, S)

LEMMA VariantName ==
  ASSUME NEW k, KernelOK(k), NEW f, BaseOf(k, f), NEW S \in SUBSET DOMAIN Items(f),
         NEW Q, f.name \in Seq(Q), NEW v, v = Rebuild(f, S).name
  PROVE  NamedAfter(f, S, v)
<1>1. PICK sp, names, par, name : /\ sp = Select(Items(f), S) /\ par = Named("par", 0)
          /\ names = [i \in DOMAIN sp |-> sp[i].name] /\ name = f.name
  OBVIOUS
<1>2. v = name \o <<par>> \o names
  BY <1>1, BaseItems, RebuildFields
<1>3. Items(f) \in Seq(ToSet(Items(f)))
  BY BaseItems DEF ItemsOK
<1>4. sp \in Seq(ToSet(Items(f))) /\ ToSet(sp) = {Items(f)[i] : i \in S}
  BY <1>1, <1>3, SelectElements, VariantSpatial
<1>5. DOMAIN sp = 1 .. Len(sp) /\ Len(sp) \in Nat /\ ToSet(sp) = {sp[i] : i \in DOMAIN sp}
  BY <1>4, LenProperties DEF ToSet
<1>6. PICK P : P = Q \cup {par} \cup {sp[i].name : i \in DOMAIN sp}
  OBVIOUS
<1>7. names \in Seq(P) /\ DOMAIN names = DOMAIN sp
  <2>1. names \in [1 .. Len(sp) -> P]
    BY <1>1, <1>5, <1>6
  <2> QED
    BY <1>5, <2>1
<1>8. name \in Seq(P) /\ <<par>> \in Seq(P)
  <2>1. Q \subseteq P
    BY <1>6
  <2>2. par \in P
    BY <1>6
  <2> QED
    BY <1>1, <2>1, <2>2, SeqOfMore
<1>9. PICK m, first, one : m = Len(name) /\ one = <<par>> /\ first = name \o one
  OBVIOUS
<1>10. Len(one) = 1 /\ one[1] = par /\ one \in Seq(P)
  BY <1>8, <1>9
<1>11. PICK w : w = 1
  OBVIOUS
<1>12. /\ first \in Seq(P) /\ Len(first) = m + w /\ m \in Nat
       /\ \A i \in 1 .. m + w : first[i] = IF i <= m THEN name[i] ELSE one[i - m]
  <2>1. w = Len(one)
    BY <1>10, <1>11
  <2> QED
    BY <1>8, <1>9, <1>10, <2>1, ConcatAt
<1>13. PICK a, b : a = Len(first) /\ b = Len(names)
  OBVIOUS
<1>14. v = first \o names
  BY <1>2, <1>9
<1>15. /\ a \in Nat /\ b \in Nat /\ DOMAIN v = 1 .. a + b /\ a = m + 1
       /\ \A i \in 1 .. a + b : v[i] = IF i <= a THEN first[i] ELSE names[i - a]
  <2>1. /\ DOMAIN v = 1 .. a + b /\ a \in Nat /\ b \in Nat
        /\ \A i \in 1 .. a + b : v[i] = IF i <= a THEN first[i] ELSE names[i - a]
    BY <1>7, <1>12, <1>13, <1>14, ConcatAt
  <2> QED
    BY <1>11, <1>12, <1>13, <2>1
<1>16. v # <<>> /\ v[1] = first[1]
  <2>1. 1 \in 1 .. a + b /\ 1 <= a
    BY <1>12, <1>15
  <2> QED
    BY <1>15, <2>1
<1>17. first[1] = IF m = 0 THEN par ELSE name[1]
  <2>1. 1 \in 1 .. m + w
    BY <1>11, <1>12
  <2>2. CASE m = 0
    <3>1. ~ (1 <= m) /\ 1 - m = 1
      BY <2>2
    <3> QED
      BY <1>10, <1>12, <2>1, <2>2, <3>1
  <2>3. CASE m # 0
    <3>1. 1 <= m
      BY <1>12, <2>3
    <3> QED
      BY <1>12, <2>1, <2>3, <3>1
  <2> QED
    BY <2>2, <2>3
<1>18. After(v, a) = ToSet(names)
  BY <1>7, <1>12, <1>13, <1>14, AfterFirst
<1>19. ToSet(names) = NamesAt(f, S)
  <2>1. ToSet(names) = {sp[i].name : i \in DOMAIN sp}
    BY <1>1 DEF ToSet
  <2>2. {sp[i].name : i \in DOMAIN sp} = {l.name : l \in ToSet(sp)}
    BY <1>5
  <2>3. {l.name : l \in ToSet(sp)} = NamesAt(f, S)
    BY <1>4 DEF NamesAt
  <2> QED
    BY <2>1, <2>2, <2>3
<1> QED
  BY <1>1, <1>9, <1>12, <1>15, <1>16, <1>17, <1>18, <1>19 DEF NamedAfter

(* The name of a split of the loop called a.                                *)
SplitName(a, q) == [a EXCEPT !.part = "split", !.by = q]

LEMMA SplitNameIs ==
  ASSUME NEW s, NEW n, NEW q
  PROVE  SplitName(Named(s, n), q) = [sym |-> s, idx |-> n, part |-> "split", by |-> q]
<1>1. PICK a : a = SplitName(Named(s, n), q)
  OBVIOUS
<1>2. a = [sym |-> s, idx |-> n, part |-> "split", by |-> q]
  BY <1>1 DEF SplitName, Named
<1> QED
  BY <1>1, <1>2

LEMMA SplitNamesDiffer ==
  ASSUME NEW s, NEW n, NEW t, NEW m, NEW q, NEW p,
         SplitName(Named(s, n), q) = SplitName(Named(t, m), p)
  PROVE  Named(s, n) = Named(t, m) /\ q = p
<1>2. PICK a, b : a = SplitName(Named(s, n), q) /\ b = SplitName(Named(t, m), p)
  OBVIOUS
<1>3. a.sym = s /\ a.idx = n /\ a.by = q
  BY <1>2, SplitNameIs
<1>4. b.sym = t /\ b.idx = m /\ b.by = p
  BY <1>2, SplitNameIs
<1>5. a = b
  BY <1>2
<1>6. s = t /\ n = m /\ q = p
  BY <1>3, <1>4, <1>5
<1> QED
  BY <1>6

(* Where loop j is in Items.                                                *)
ItemAt(k, j, i) == i = Len(k.root) + j

(* The name loop j is split with.                                           *)
BaseName(k, j, loop) == LoopName(loop, Len(k.root) + j - 1)

(* Loop j of k as Items sees it.                                            *)
LEMMA ItemOfLoop ==
  ASSUME NEW k, KernelOK(k), NEW j, NEW loop, LoopAt(k, j, loop),
         NEW i, ItemAt(k, j, i)
  PROVE  /\ i \in DOMAIN Items(k) /\ SourceLoop(loop)
         /\ Items(k)[i].id = loop.id /\ Items(k)[i].name = BaseName(k, j, loop)
<1>1. PICK R : LoopsOK(k, R)
  BY SourceLoops
<1>2. PICK r, c, m, n : r = Len(k.root) /\ c = ChainLen(k) /\ m = Len(k.loops) /\ n = r + c
  OBVIOUS
<1>3. /\ r \in Nat /\ m \in Nat
      /\ \A x \in 1 .. r + m : All(k)[x] = IF x <= r THEN k.root[x] ELSE k.loops[x - r]
  BY <1>1, <1>2, AllAt
<1>4. c \in 0 .. m
  BY <1>1, <1>2, ChainPromotable DEF LoopsOK
<1>5. /\ 1 .. n \subseteq DOMAIN All(k) /\ Items(k) \in [1 .. n -> ToSet(Items(k))]
      /\ \A x \in 1 .. n : Items(k)[x] = [All(k)[x] EXCEPT !.name = LoopName(All(k)[x], x - 1)]
  BY <1>1, <1>2, ItemsAre
<1>6. PICK p : p = r + j
  OBVIOUS
<1>7. p \in 1 .. n /\ p \in 1 .. r + m /\ ~ (p <= r) /\ p - r = j
  <2>1. j \in 1 .. c
    BY <1>2 DEF LoopAt
  <2>2. r \in Nat /\ m \in Nat /\ c \in 0 .. m /\ n = r + c /\ p = r + j
    BY <1>2, <1>3, <1>4, <1>6
  <2> QED
    BY <2>1, <2>2
<1>8. All(k)[p] = loop
  BY <1>3, <1>7 DEF LoopAt
<1>9. SourceLoop(loop) /\ IsLoop(loop)
  BY <1>5, <1>7, <1>8, SourceLoops
<1>10. PICK l, it, name : l = loop /\ it = Items(k)[p] /\ name = LoopName(loop, p - 1)
  OBVIOUS
<1>11. it = [l EXCEPT !.name = name]
  BY <1>5, <1>7, <1>8, <1>10
<1>12. it.id = l.id /\ it.name = name
  <2>1. IsLoop(l)
    BY <1>9, <1>10
  <2> QED
    BY <1>11, <2>1, Renamed
<1>13. p = i /\ p - 1 = Len(k.root) + j - 1 /\ p \in DOMAIN Items(k)
  BY <1>2, <1>5, <1>6, <1>7 DEF ItemAt
<1> QED
  BY <1>9, <1>10, <1>12, <1>13 DEF BaseName

(* A name of a loop of the source.                                          *)
SourceName(n) == \E sym, m : n = Named(sym, m)

HasName(f) == \E Q : f.name \in Seq(Q)

(* Of f, which is k with loop i of Items split by q.                        *)
SplitFacts(k, i, loop, q, f) ==
  /\ f.base = TRUE /\ Len(f.name) = 1 /\ HasName(f)
  /\ f.name[1] = SplitName(Items(k)[i].name, q)
  /\ f.name[1] # Named("par", 0)
  /\ i \in DOMAIN Items(k) /\ Items(k)[i].id = loop.id /\ SourceLoop(loop)
  /\ SourceName(Items(k)[i].name)

LEMMA SplitNamed ==
  ASSUME NEW k, KernelOK(k), NEW j, NEW loop, NEW q, NEW f,
         SplitAt(k, j, loop, q, f), NEW i, ItemAt(k, j, i)
  PROVE  SplitFacts(k, i, loop, q, f)
<1>1. LoopAt(k, j, loop) /\ f = SplitLoop(k, j, q)
  BY DEF SplitAt
<1>2. PICK name : name = BaseName(k, j, loop)
  OBVIOUS
<1>3. /\ i \in DOMAIN Items(k) /\ SourceLoop(loop)
      /\ Items(k)[i].id = loop.id /\ Items(k)[i].name = name
  BY <1>1, <1>2, ItemOfLoop
<1>4. f.base = TRUE /\ f.name = Append(<<>>, SplitName(name, q))
  BY <1>1, <1>2, SplitFields DEF SplitName, LoopAt, BaseName
<1>5. PICK s : s = SplitName(name, q)
  OBVIOUS
<1>6. Len(f.name) = 1 /\ f.name[1] = s /\ f.name \in Seq({s})
  BY <1>4, <1>5
<1>7. PICK sym, n : name = Named(sym, n)
  <2>1. PICK idx : idx = Len(k.root) + j - 1
    OBVIOUS
  <2>3. SourceLoop(loop)
    BY <1>3
  <2>2. PICK sym, n : LoopName(loop, idx) = Named(sym, n) /\ sym # ""
    BY <2>3, SymName
  <2> QED
    BY <1>2, <2>1, <2>2 DEF BaseName
<1>8. s.part = "split"
  <2>1. s = [sym |-> sym, idx |-> n, part |-> "split", by |-> q]
    BY <1>5, <1>7, SplitNameIs
  <2> QED
    BY <2>1
<1>9. PICK par : par = Named("par", 0)
  OBVIOUS
<1>10. par.part = ""
  BY <1>9 DEF Named
<1>11. s # par
  BY <1>8, <1>10
<1> QED
  BY <1>3, <1>4, <1>5, <1>6, <1>7, <1>9, <1>11 DEF SourceName, HasName, SplitFacts

(* A loop of the source is whole; a half of loop has its index, and as many *)
(* iterations as there are groups, or members of one.                       *)
WholeKey(x) == x[1][2] = ""

HalfKey(loop, q, x) ==
  \/ x[1] = <<loop.id[1], "o">> /\ x[2] = loop.extent \div q
  \/ x[1] = <<loop.id[1], "i">> /\ x[2] = q

LEMMA HalfIsNotWhole ==
  ASSUME NEW loop, NEW q, NEW x, HalfKey(loop, q, x)
  PROVE  ~ WholeKey(x)
<1>1. x[1][2] \in {"o", "i"}
  BY DEF HalfKey
<1> QED
  BY <1>1 DEF WholeKey

LEMMA SourceKeys ==
  ASSUME NEW k, KernelOK(k), NEW S \in SUBSET DOMAIN Items(k), NEW x \in PickedAt(k, S)
  PROVE  WholeKey(x)
<1>1. PICK i \in S : x = <<Items(k)[i].id, Items(k)[i].extent>>
  BY DEF PickedAt
<1>2. FromSource(Items(k)[i])
  BY <1>1, SourceItems
<1>3. Items(k)[i].id[2] = ""
  BY <1>2 DEF FromSource
<1> QED
  BY <1>1, <1>3 DEF WholeKey

LEMMA ItemKey ==
  ASSUME NEW loop, NEW q, NEW m, HalfOf(loop, q, "o", m) \/ HalfOf(loop, q, "i", m)
  PROVE  HalfKey(loop, q, <<m.id, m.extent>>)
<1>1. PICK x : x = <<m.id, m.extent>>
  OBVIOUS
<1>2. x[1] = m.id /\ x[2] = m.extent
  BY <1>1
<1>3. HalfOf(loop, q, "o", m) => m.id = <<loop.id[1], "o">> /\ m.extent = loop.extent \div q
  BY DEF HalfOf
<1>4. HalfOf(loop, q, "i", m) => m.id = <<loop.id[1], "i">> /\ m.extent = q
  BY DEF HalfOf
<1>5. HalfKey(loop, q, x)
  BY <1>2, <1>3, <1>4 DEF HalfKey
<1> QED
  BY <1>1, <1>5

LEMMA SplitKeys ==
  ASSUME NEW k, KernelOK(k), NEW j, NEW loop, NEW q,
         NEW f, SplitAt(k, j, loop, q, f), NEW S \in SUBSET DOMAIN Items(f)
  PROVE  /\ \A x \in PickedAt(f, S) : WholeKey(x) \/ HalfKey(loop, q, x)
         /\ WorthExploring(f, S) => \E x \in PickedAt(f, S) : HalfKey(loop, q, x)
<1>1. ASSUME NEW i \in S
      PROVE  \/ FromSource(Items(f)[i])
             \/ HalfOf(loop, q, "o", Items(f)[i]) \/ HalfOf(loop, q, "i", Items(f)[i])
  BY SplitItems
<1>2. ASSUME NEW x \in PickedAt(f, S) PROVE WholeKey(x) \/ HalfKey(loop, q, x)
  <2>1. PICK i \in S : x = <<Items(f)[i].id, Items(f)[i].extent>>
    BY <1>2 DEF PickedAt
  <2>2. CASE FromSource(Items(f)[i])
    <3>1. Items(f)[i].id[2] = ""
      BY <2>2 DEF FromSource
    <3> QED
      BY <2>1, <3>1 DEF WholeKey
  <2>3. CASE HalfOf(loop, q, "o", Items(f)[i]) \/ HalfOf(loop, q, "i", Items(f)[i])
    BY <2>1, <2>3, ItemKey
  <2> QED
    BY <1>1, <2>2, <2>3
<1>3. ASSUME WorthExploring(f, S) PROVE \E x \in PickedAt(f, S) : HalfKey(loop, q, x)
  <2>1. f.base = TRUE /\ BaseOf(k, f)
    <3>1. PICK i : ItemAt(k, j, i)
      BY DEF ItemAt
    <3> QED
      BY <3>1, SplitNamed DEF BaseOf, SplitOf, SplitFacts
  <2>2. \E l \in ToSet(Select(Items(f), S)) : IsSplit(l)
    BY <1>3, <2>1 DEF WorthExploring
  <2>3. ToSet(Select(Items(f), S)) = {Items(f)[i] : i \in S}
    BY <2>1, VariantSpatial
  <2>4. PICK i \in S : IsSplit(Items(f)[i])
    BY <2>2, <2>3
  <2>5. ~ FromSource(Items(f)[i])
    BY <2>4 DEF IsSplit, FromSource
  <2>6. HalfKey(loop, q, <<Items(f)[i].id, Items(f)[i].extent>>)
    BY <1>1, <2>5, ItemKey
  <2> QED
    BY <2>6 DEF PickedAt
<1> QED
  BY <1>2, <1>3

(* Two splits that share a half are the same.                               *)
LEMMA SharedHalf ==
  ASSUME NEW e \in Nat \ {0}, NEW loop, loop.extent = e, NEW other, other.extent = e,
         NEW q \in Nat \ {0}, NEW p \in Nat \ {0}, NEW x, e % q = 0, e % p = 0,
         HalfKey(loop, q, x), HalfKey(other, p, x)
  PROVE  q = p
<1>1. e = q * (e \div q) /\ e = p * (e \div p) /\ e \div q \in Nat \ {0} /\ e \div p \in Nat \ {0}
  <2>1. PICK r, s : r = e % q /\ s = e % p
    OBVIOUS
  <2>2. r = 0 /\ s = 0
    BY <2>1
  <2> QED
    BY <2>1, <2>2, DivExact
<1>2. x[1][2] = "o" => x[2] = e \div q /\ x[2] = e \div p
  BY DEF HalfKey
<1>3. x[1][2] = "i" => x[2] = q /\ x[2] = p
  BY DEF HalfKey
<1>4. x[1][2] \in {"o", "i"}
  BY DEF HalfKey
<1>5. CASE e \div q = e \div p
  <2>1. PICK d : d = e \div q
    OBVIOUS
  <2>2. d \in Nat \ {0} /\ q * d = p * d
    BY <1>1, <1>5, <2>1
  <2>3. ~ (q < p) /\ ~ (p < q)
    BY <2>2
  <2> QED
    BY <2>3
<1> QED
  BY <1>2, <1>3, <1>4, <1>5

LEMMA SplitsDiffer ==
  ASSUME NEW k, KernelOK(k), NEW j, NEW y, NEW loop, NEW other, NEW q, NEW p,
         NEW f, SplitAt(k, j, loop, q, f), NEW g, SplitAt(k, y, other, p, g), f # g
  PROVE  f.name[1] # g.name[1] /\ \A x : ~ (HalfKey(loop, q, x) /\ HalfKey(other, p, x))
<1>1. PICK i, z : ItemAt(k, j, i) /\ ItemAt(k, y, z)
  BY DEF ItemAt
<1>2. SplitFacts(k, i, loop, q, f) /\ SplitFacts(k, z, other, p, g)
  BY <1>1, SplitNamed
<1>3. /\ f.name[1] = SplitName(Items(k)[i].name, q) /\ i \in DOMAIN Items(k)
      /\ Items(k)[i].id = loop.id /\ SourceLoop(loop)
  BY <1>2 DEF SplitFacts
<1>4. /\ g.name[1] = SplitName(Items(k)[z].name, p) /\ z \in DOMAIN Items(k)
      /\ Items(k)[z].id = other.id /\ SourceLoop(other)
  BY <1>2 DEF SplitFacts
<1>5. f.name[1] = g.name[1] => Items(k)[i].name = Items(k)[z].name /\ q = p
  <2>4. SourceName(Items(k)[i].name) /\ SourceName(Items(k)[z].name)
    BY <1>2 DEF SplitFacts
  <2>1. PICK s, n : Items(k)[i].name = Named(s, n)
    BY <2>4 DEF SourceName
  <2>2. PICK t, m : Items(k)[z].name = Named(t, m)
    BY <2>4 DEF SourceName
  <2>3. SplitName(Named(s, n), q) = SplitName(Named(t, m), p) => Named(s, n) = Named(t, m) /\ q = p
    BY SplitNamesDiffer
  <2> QED
    BY <1>3, <1>4, <2>1, <2>2, <2>3
<1>6. CASE j = y
  <2>1. loop = other
    BY <1>6 DEF SplitAt, LoopAt
  <2>2. q # p
    BY <1>6, <2>1 DEF SplitAt
  <2>3. ASSUME NEW x, HalfKey(loop, q, x), HalfKey(other, p, x) PROVE FALSE
    <3>1. PICK e : e = loop.extent
      OBVIOUS
    <3>2. e \in Nat \ {0} /\ other.extent = e
      BY <1>3, <2>1, <3>1, SourceFields
    <3>3. q \in 2 .. e - 1 /\ e % q = 0 /\ p \in 2 .. e - 1 /\ e % p = 0
      BY <2>1, <3>1 DEF SplitAt, FloorDivisors
    <3>4. q \in Nat \ {0} /\ p \in Nat \ {0}
      BY <3>2, <3>3
    <3> QED
      BY <2>2, <2>3, <3>1, <3>2, <3>3, <3>4, SharedHalf
  <2> QED
    BY <1>5, <2>2, <2>3
<1>7. CASE j # y
  <2>1. i # z
    <3>1. PICK R : LoopsOK(k, R)
      BY SourceLoops
    <3>2. PICK r, c : r = Len(k.root) /\ c = ChainLen(k)
      OBVIOUS
    <3>3. r \in Nat /\ c \in Nat
      <4>1. r \in Nat /\ Len(k.loops) \in Nat
        BY <3>1, <3>2, AllAt
      <4>2. c \in 0 .. Len(k.loops)
        BY <3>1, <3>2, ChainPromotable DEF LoopsOK
      <4> QED
        BY <4>1, <4>2
    <3>4. j \in 1 .. c /\ y \in 1 .. c /\ i = r + j /\ z = r + y
      BY <1>1, <3>2 DEF ItemAt, SplitAt, LoopAt
    <3> QED
      BY <1>7, <3>3, <3>4
  <2>2. Items(k)[i].id # Items(k)[z].id /\ Items(k)[i].name # Items(k)[z].name
    BY <1>3, <1>4, <2>1, SourceItems DEF ItemsOK, Apart
  <2>3. PICK u : loop.id = <<u, "">>
    BY <1>3, SourceNames
  <2>4. PICK v : other.id = <<v, "">>
    BY <1>4, SourceNames
  <2>7. loop.id # other.id
    BY <1>3, <1>4, <2>2
  <2>8. loop.id[1] = u /\ other.id[1] = v
    <3>1. PICK c, d : c = loop.id /\ d = other.id
      OBVIOUS
    <3>2. c = <<u, "">> /\ d = <<v, "">>
      BY <2>3, <2>4, <3>1
    <3>3. c[1] = u
      BY <3>2
    <3>4. d[1] = v
      BY <3>2
    <3> QED
      BY <3>1, <3>3, <3>4
  <2>5. u # v /\ loop.id[1] = u /\ other.id[1] = v
    BY <2>3, <2>4, <2>7, <2>8
  <2>6. ASSUME NEW x, HalfKey(loop, q, x), HalfKey(other, p, x) PROVE FALSE
    <3>1. x[1][1] = loop.id[1]
      BY <2>6 DEF HalfKey
    <3>2. x[1][1] = other.id[1]
      BY <2>6 DEF HalfKey
    <3> QED
      BY <2>5, <3>1, <3>2
  <2> QED
    BY <1>5, <2>2, <2>6
<1> QED
  BY <1>6, <1>7

(* The functions made from k.                                               *)
VariantOf(k, g) ==
  \E f : \E S \in SUBSET DOMAIN Items(f) :
    BaseOf(k, f) /\ WorthExploring(f, S) /\ g = Rebuild(f, S)

LEMMA BaseHasName ==
  ASSUME NEW k, KernelOK(k), NEW f, BaseOf(k, f)
  PROVE  HasName(f)
<1>1. CASE f = k
  <2>1. f.name = <<>>
    BY <1>1, SourceLoops
  <2>2. <<>> \in Seq({})
    OBVIOUS
  <2> QED
    BY <2>1, <2>2 DEF HasName
<1>2. CASE SplitOf(k, f)
  <2>1. PICK j, loop, q : SplitAt(k, j, loop, q, f)
    BY <1>2 DEF SplitOf
  <2>2. PICK i : ItemAt(k, j, i)
    BY DEF ItemAt
  <2> QED
    BY <2>1, <2>2, SplitNamed DEF HasName, SplitFacts
<1> QED
  BY <1>1, <1>2 DEF BaseOf

(* Two variants of the same function.                                       *)
LEMMA SiblingsDiffer ==
  ASSUME NEW k, KernelOK(k), NEW f, BaseOf(k, f), NEW S \in SUBSET DOMAIN Items(f),
         NEW T \in SUBSET DOMAIN Items(f), S # T
  PROVE  /\ Rebuild(f, S).name # Rebuild(f, T).name
         /\ Spatial(Rebuild(f, S)) # Spatial(Rebuild(f, T))
<1>1. PICK Q : f.name \in Seq(Q)
  BY BaseHasName DEF HasName
<1>2. PICK v : v = Rebuild(f, S).name
  OBVIOUS
<1>8. PICK w : w = Rebuild(f, T).name
  OBVIOUS
<1>9. NamedAfter(f, S, v) /\ NamedAfter(f, T, w)
  BY <1>1, <1>2, <1>8, VariantName
<1>7. After(v, Len(f.name) + 1) = NamesAt(f, S)
  BY <1>9 DEF NamedAfter
<1>3. After(w, Len(f.name) + 1) = NamesAt(f, T)
  BY <1>9 DEF NamedAfter
<1>4. PickedAt(f, S) # PickedAt(f, T) /\ NamesAt(f, S) # NamesAt(f, T)
  <2>1. ItemsOK(k, f)
    BY BaseItems
  <2> QED
    BY <2>1, PickedDiffer
<1>5. v # w
  BY <1>3, <1>4, <1>7
<1>6. Spatial(Rebuild(f, S)) = PickedAt(f, S) /\ Spatial(Rebuild(f, T)) = PickedAt(f, T)
  BY VariantSpatial
<1> QED
  BY <1>2, <1>4, <1>5, <1>6, <1>8

(* The first part of the name of every variant of f.                        *)
Prefix(f) == IF Len(f.name) = 0 THEN Named("par", 0) ELSE f.name[1]

LEMMA SourceVsSplit ==
  ASSUME NEW k, KernelOK(k), NEW f, SplitOf(k, f), NEW S \in SUBSET DOMAIN Items(f),
         WorthExploring(f, S), NEW T \in SUBSET DOMAIN Items(k)
  PROVE  Prefix(f) # Prefix(k) /\ PickedAt(f, S) # PickedAt(k, T)
<1>1. PICK j, loop, q : SplitAt(k, j, loop, q, f)
  BY DEF SplitOf
<1>2. PICK i : ItemAt(k, j, i)
  BY DEF ItemAt
<1>3. SplitFacts(k, i, loop, q, f)
  BY <1>1, <1>2, SplitNamed
<1>4. Prefix(f) # Named("par", 0)
  BY <1>3 DEF SplitFacts, Prefix
<1>5. Prefix(k) = Named("par", 0)
  <2>1. k.name = <<>>
    BY SourceLoops
  <2> QED
    BY <2>1 DEF Prefix
<1>6. PICK x \in PickedAt(f, S) : HalfKey(loop, q, x)
  BY <1>1, SplitKeys
<1>7. x \notin PickedAt(k, T)
  BY <1>6, SourceKeys, HalfIsNotWhole
<1> QED
  BY <1>4, <1>5, <1>6, <1>7

LEMMA SplitVsSplit ==
  ASSUME NEW k, KernelOK(k), NEW f, SplitOf(k, f), NEW S \in SUBSET DOMAIN Items(f),
         WorthExploring(f, S), NEW g, SplitOf(k, g), NEW T \in SUBSET DOMAIN Items(g), f # g
  PROVE  Prefix(f) # Prefix(g) /\ PickedAt(f, S) # PickedAt(g, T)
<1>1. PICK j, loop, q : SplitAt(k, j, loop, q, f)
  BY DEF SplitOf
<1>2. PICK y, other, p : SplitAt(k, y, other, p, g)
  BY DEF SplitOf
<1>3. PICK i, z : ItemAt(k, j, i) /\ ItemAt(k, y, z)
  BY DEF ItemAt
<1>4. SplitFacts(k, i, loop, q, f) /\ SplitFacts(k, z, other, p, g)
  BY <1>1, <1>2, <1>3, SplitNamed
<1>5. Prefix(f) = f.name[1] /\ Prefix(g) = g.name[1]
  BY <1>4 DEF SplitFacts, Prefix
<1>6. f.name[1] # g.name[1] /\ \A x : ~ (HalfKey(loop, q, x) /\ HalfKey(other, p, x))
  BY <1>1, <1>2, SplitsDiffer
<1>7. PICK x \in PickedAt(f, S) : HalfKey(loop, q, x)
  BY <1>1, SplitKeys
<1>8. x \in PickedAt(g, T) => WholeKey(x) \/ HalfKey(other, p, x)
  BY <1>2, SplitKeys
<1>9. x \notin PickedAt(g, T)
  BY <1>6, <1>7, <1>8, HalfIsNotWhole
<1> QED
  BY <1>5, <1>6, <1>7, <1>9

LEMMA BasesDiffer ==
  ASSUME NEW k, KernelOK(k), NEW f, BaseOf(k, f), NEW S \in SUBSET DOMAIN Items(f),
         WorthExploring(f, S), NEW g, BaseOf(k, g), NEW T \in SUBSET DOMAIN Items(g),
         WorthExploring(g, T), f # g
  PROVE  Prefix(f) # Prefix(g) /\ PickedAt(f, S) # PickedAt(g, T)
<1>1. CASE f = k
  <2>1. SplitOf(k, g)
    BY <1>1 DEF BaseOf
  <2> QED
    BY <1>1, <2>1, SourceVsSplit
<1>2. CASE g = k
  <2>1. SplitOf(k, f)
    BY <1>2 DEF BaseOf
  <2> QED
    BY <1>2, <2>1, SourceVsSplit
<1>3. CASE f # k /\ g # k
  <2>1. SplitOf(k, f) /\ SplitOf(k, g)
    BY <1>3 DEF BaseOf
  <2> QED
    BY <2>1, SplitVsSplit
<1> QED
  BY <1>1, <1>2, <1>3

LEMMA VariantPrefix ==
  ASSUME NEW k, KernelOK(k), NEW f, BaseOf(k, f), NEW S \in SUBSET DOMAIN Items(f),
         NEW v, v = Rebuild(f, S).name
  PROVE  v # <<>> /\ v[1] = Prefix(f)
<1>1. PICK Q : f.name \in Seq(Q)
  BY BaseHasName DEF HasName
<1>2. NamedAfter(f, S, v)
  BY <1>1, VariantName
<1> QED
  BY <1>2 DEF NamedAfter, Prefix

(* Two variants differ in name and in what they run spatially.              *)
LEMMA VariantsDiffer ==
  ASSUME NEW k, KernelOK(k), NEW g, VariantOf(k, g), NEW h, VariantOf(k, h), g # h
  PROVE  g.name # h.name /\ Spatial(g) # Spatial(h)
<1>1. PICK f : \E S \in SUBSET DOMAIN Items(f) :
                 BaseOf(k, f) /\ WorthExploring(f, S) /\ g = Rebuild(f, S)
  BY DEF VariantOf
<1>2. PICK S \in SUBSET DOMAIN Items(f) : WorthExploring(f, S) /\ g = Rebuild(f, S)
  BY <1>1
<1>3. PICK e : \E T \in SUBSET DOMAIN Items(e) :
                 BaseOf(k, e) /\ WorthExploring(e, T) /\ h = Rebuild(e, T)
  BY DEF VariantOf
<1>4. PICK T \in SUBSET DOMAIN Items(e) : WorthExploring(e, T) /\ h = Rebuild(e, T)
  BY <1>3
<1>5. BaseOf(k, f) /\ BaseOf(k, e)
  BY <1>1, <1>3
<1>6. CASE f = e
  <2>1. S # T
    BY <1>2, <1>4, <1>6
  <2> QED
    BY <1>2, <1>4, <1>5, <1>6, <2>1, SiblingsDiffer
<1>7. CASE f # e
  <2>1. Prefix(f) # Prefix(e) /\ PickedAt(f, S) # PickedAt(e, T)
    BY <1>2, <1>4, <1>5, <1>7, BasesDiffer
  <2>2. Spatial(g) = PickedAt(f, S) /\ Spatial(h) = PickedAt(e, T)
    BY <1>2, <1>4, <1>5, VariantSpatial
  <2>3. g.name[1] = Prefix(f) /\ h.name[1] = Prefix(e)
    BY <1>2, <1>4, <1>5, VariantPrefix
  <2> QED
    BY <2>1, <2>2, <2>3
<1> QED
  BY <1>6, <1>7

(* A variant differs from the source.                                       *)
LEMMA VariantIsNew ==
  ASSUME NEW k, KernelOK(k), NEW g, VariantOf(k, g)
  PROVE  g.name # k.name /\ Spatial(g) # Spatial(k)
<1>1. PICK f : \E S \in SUBSET DOMAIN Items(f) :
                 BaseOf(k, f) /\ WorthExploring(f, S) /\ g = Rebuild(f, S)
  BY DEF VariantOf
<1>2. PICK S \in SUBSET DOMAIN Items(f) :
        BaseOf(k, f) /\ WorthExploring(f, S) /\ g = Rebuild(f, S)
  BY <1>1
<1>3. g.name # <<>> /\ k.name = <<>>
  BY <1>2, VariantPrefix, SourceLoops
<1>4. /\ Spatial(g) = PickedAt(f, S) /\ Spatial(k) = PickedAt(k, DOMAIN k.root)
      /\ DOMAIN k.root \subseteq DOMAIN Items(k)
  BY <1>2, VariantSpatial, SourceSpatial
<1>5. CASE f = k
  <2>1. S # DOMAIN k.root
    BY <1>2, <1>5 DEF WorthExploring
  <2>2. ItemsOK(k, k)
    BY <1>2, <1>5, BaseItems
  <2>3. PICK T \in SUBSET DOMAIN Items(k) : T = DOMAIN k.root
    BY <1>4
  <2>4. PickedAt(k, S) # PickedAt(k, T)
    BY <1>2, <1>5, <2>1, <2>2, <2>3, PickedDiffer
  <2> QED
    BY <1>3, <1>4, <1>5, <2>3, <2>4
<1>6. CASE f # k
  <2>1. SplitOf(k, f)
    BY <1>2, <1>6 DEF BaseOf
  <2>2. PickedAt(f, S) # PickedAt(k, DOMAIN k.root)
    <3>1. PICK T \in SUBSET DOMAIN Items(k) : T = DOMAIN k.root
      BY <1>4
    <3> QED
      BY <1>2, <2>1, <3>1, SourceVsSplit
  <2> QED
    BY <1>3, <1>4, <2>2
<1> QED
  BY <1>5, <1>6

-----------------------------------------------------------------------------
(* The iterations of the spatial loops. *)

(* Sequences of the same length, one after the other.                       *)
LEMMA FlattenLength ==
  ASSUME NEW E, NEW n \in Nat, NEW c \in Nat, NEW ss \in Seq(Seq(E)), Len(ss) = n,
         \A i \in 1 .. n : Len(ss[i]) = c
  PROVE  FlattenSeq(ss) \in Seq(E) /\ Len(FlattenSeq(ss)) = n * c
<1>1. FlattenSeq(ss) \in Seq(E)
  BY FlattenSeqElements
<1>2. CASE ss = <<>>
  <2>1. FlattenSeq(ss) = <<>> /\ n = 0
    BY <1>2 DEF FlattenSeq
  <2> QED
    BY <1>1, <2>1
<1>3. CASE ss # <<>>
  <2>1. n >= 1
    BY <1>3, EmptySeq
  <2>2. PICK f \in [1 .. n -> Seq(E)] :
          /\ \A i \in 1 .. n : f[i] = IF i = 1 THEN ss[i] ELSE f[i - 1] \o ss[i]
          /\ FlattenSeq(ss) = f[n]
    BY <1>3, FlattenSeqSteps
  <2> DEFINE D == {j \in Nat : j >= 1 /\ j <= n => Len(f[j]) = j * c}
  <2>3. 0 \in D
    OBVIOUS
  <2>4. ASSUME NEW j \in 0 .. n - 1, j \in D PROVE j + 1 \in D
    <3>1. PICK m : m = j + 1
      OBVIOUS
    <3>2. m \in 1 .. n /\ m - 1 = j /\ m = j + 1 /\ j \in Nat
      BY <3>1
    <3>3. Len(ss[m]) = c
      BY <3>2
    <3>4. j # 0 => Len(f[j]) = j * c /\ j \in 1 .. n
      BY <2>4
    <3> HIDE DEF D
    <3>5. Len(f[m]) = m * c
      <4>1. CASE j = 0
        <5>1. m = 1
          BY <3>2, <4>1
        <5>2. f[1] = ss[1]
          BY <2>1, <2>2
        <5> QED
          BY <3>3, <5>1, <5>2
      <4>2. CASE j # 0
        <5>1. m # 1
          BY <3>2, <4>2
        <5>2. f[m] = f[m - 1] \o ss[m]
          BY <2>2, <3>2, <5>1
        <5>3. PICK u, v : u = f[j] /\ v = ss[m]
          OBVIOUS
        <5>4. u \in Seq(E) /\ v \in Seq(E)
          BY <2>2, <3>2, <3>4, <4>2, <5>3, ElementOfSeq
        <5>5. Len(u \o v) = Len(u) + Len(v)
          BY <5>4, ConcatProperties
        <5>6. f[m] = u \o v /\ Len(u) = j * c /\ Len(v) = c
          BY <3>2, <3>3, <3>4, <4>2, <5>2, <5>3
        <5>7. Len(f[m]) = j * c + c
          BY <5>5, <5>6
        <5>8. j * c + c = (j + 1) * c
          BY <3>2
        <5> QED
          BY <3>2, <5>7, <5>8
      <4> QED
        BY <4>1, <4>2
    <3> QED
      BY <3>2, <3>5 DEF D
  <2> HIDE DEF D
  <2>5. \A j \in 0 .. n : j \in D
    BY <2>3, <2>4, Upwards
  <2>6. n \in D
    BY <2>5
  <2> QED
    BY <1>1, <2>1, <2>2, <2>6 DEF D
<1> QED
  BY <1>2, <1>3

(* Larger factors, a larger product.                                        *)
LEMMA ProductGrows ==
  ASSUME NEW a \in Nat, NEW b \in Nat, NEW c \in Nat, NEW d \in Nat, a <= c, b <= d
  PROVE  a * b <= c * d
<1>1. PICK x \in Nat : c = a + x
  <2>1. c - a \in Nat /\ c = a + (c - a)
    OBVIOUS
  <2> QED
    BY <2>1
<1>2. PICK y \in Nat : d = b + y
  <2>1. d - b \in Nat /\ d = b + (d - b)
    OBVIOUS
  <2> QED
    BY <2>1
<1>3. /\ (a + x) * (b + y) = a * b + (a * y + (x * b + x * y))
      /\ a * b \in Nat /\ a * y \in Nat /\ x * b \in Nat /\ x * y \in Nat
  OBVIOUS
<1> QED
  BY <1>1, <1>2, <1>3

LEMMA ProductsGrow ==
  ASSUME NEW n \in Nat, NEW f \in [1 .. n -> Nat], NEW g \in [1 .. n -> Nat],
         \A i \in 1 .. n : f[i] <= g[i],
         NEW r, NEW q, Products(r, f, n), Products(q, g, n)
  PROVE  r[n] <= q[n]
<1> DEFINE D == {m \in Nat : m <= n => r[m] <= q[m]}
<1>1. 0 \in D
  BY DEF Products
<1>2. ASSUME NEW j \in 0 .. n - 1, j \in D PROVE j + 1 \in D
  <2>1. PICK m : m = j + 1
    OBVIOUS
  <2>2. m \in 1 .. n /\ m - 1 = j /\ r[j] <= q[j] /\ r[j] \in Nat /\ q[j] \in Nat
    BY <1>2, <2>1 DEF Products
  <2>3. r[m] = r[j] * f[m] /\ q[m] = q[j] * g[m]
    BY <2>2 DEF Products
  <2>4. f[m] \in Nat /\ g[m] \in Nat /\ f[m] <= g[m]
    BY <2>2
  <2>5. r[j] * f[m] <= q[j] * g[m]
    BY <2>2, <2>4, ProductGrows
  <2> QED
    BY <2>1, <2>3, <2>5
<1> HIDE DEF D
<1>3. \A j \in 0 .. n : j \in D
  BY <1>1, <1>2, Upwards
<1>4. n \in D
  BY <1>3
<1> QED
  BY <1>4 DEF D

-----------------------------------------------------------------------------
(* The indices of the loops around. *)
Envs(I) == UNION {[X -> Int] : X \in SUBSET I}

(* A loop of a fixed number of iterations. *)
Fixed(l, I) == l.dep = NoLoop /\ l.scale \in Int /\ l.id \in I /\ l.of \in I

BoundTo(env, l, sizes, I) ==
  Turns(env, l, sizes) \in Seq(Envs(I)) /\ Len(Turns(env, l, sizes)) = Trips(l, sizes, <<>>)

LEMMA TurnsOfOne ==
  ASSUME NEW I, NEW l, Fixed(l, I), NEW sizes, Trips(l, sizes, <<>>) \in Nat, NEW env \in Envs(I)
  PROVE  BoundTo(env, l, sizes, I)
<1> DEFINE m == Trips(l, sizes, <<>>)
<1>1. Trips(l, sizes, env) = m
  BY DEF Trips, Fixed
<1>2. m \in Nat
  OBVIOUS
<1> HIDE DEF m
<1>3. PICK X \in SUBSET I : env \in [X -> Int]
  BY DEF Envs
<1>4. ASSUME NEW i \in Int PROVE Bind(env, l, i) \in Envs(I)
  <2> DEFINE u == IF l.of \in DOMAIN env THEN env[l.of] ELSE 0
             Y == X \cup {l.of, l.id}
             f == [x \in Y |-> IF x = l.of THEN u + i * l.scale ELSE IF x = l.id THEN i ELSE env[x]]
  <2>1. Bind(env, l, i) = f
    BY <1>3 DEF Bind
  <2>2. u \in Int /\ i * l.scale \in Int
    BY <1>3 DEF Fixed
  <2>3. u + i * l.scale \in Int
    BY <2>2
  <2>4. \A x \in Y : x # l.of /\ x # l.id => env[x] \in Int
    BY <1>3
  <2>5. f \in [Y -> Int]
    <3> HIDE DEF u
    <3> QED
      BY <2>3, <2>4
  <2>6. Y \in SUBSET I
    BY DEF Fixed
  <2> HIDE DEF f, Y
  <2> QED
    BY <2>1, <2>5, <2>6 DEF Envs
<1>5. Turns(env, l, sizes) = [n \in 1 .. m |-> Bind(env, l, n - 1)]
  BY <1>1 DEF Turns
<1>6. \A n \in 1 .. m : Bind(env, l, n - 1) \in Envs(I)
  <2>1. ASSUME NEW n \in 1 .. m PROVE Bind(env, l, n - 1) \in Envs(I)
    <3>1. PICK i : i = n - 1
      OBVIOUS
    <3>2. i \in Int
      BY <3>1
    <3> QED
      BY <1>4, <3>1, <3>2
  <2> QED
    BY <2>1
<1>7. PICK t : t = Turns(env, l, sizes)
  OBVIOUS
<1>8. t \in [1 .. m -> Envs(I)]
  BY <1>5, <1>6, <1>7
<1>9. t \in Seq(Envs(I)) /\ Len(t) = m
  BY <1>2, <1>8
<1> QED
  BY <1>7, <1>9 DEF BoundTo, m

(* One more loop multiplies the iterations. *)
Longer(envs, l, sizes) == FlattenSeq([i \in DOMAIN envs |-> Turns(envs[i], l, sizes)])

Multiplied(envs, l, sizes, I) ==
  /\ Longer(envs, l, sizes) \in Seq(Envs(I))
  /\ Len(Longer(envs, l, sizes)) = Len(envs) * Trips(l, sizes, <<>>)

LEMMA OneMoreLoop ==
  ASSUME NEW I, NEW l, Fixed(l, I), NEW sizes, Trips(l, sizes, <<>>) \in Nat,
         NEW envs \in Seq(Envs(I))
  PROVE  Multiplied(envs, l, sizes, I)
<1>1. PICK c : c = Trips(l, sizes, <<>>)
  OBVIOUS
<1>2. PICK ss : ss = [i \in DOMAIN envs |-> Turns(envs[i], l, sizes)]
  OBVIOUS
<1>3. PICK n : n = Len(envs)
  OBVIOUS
<1>4. PICK E : E = Envs(I)
  OBVIOUS
<1>5. n \in Nat /\ c \in Nat /\ DOMAIN envs = 1 .. n /\ \A i \in 1 .. n : envs[i] \in E
  BY <1>1, <1>3, <1>4, LenProperties, ElementOfSeq
<1>6. ASSUME NEW i \in 1 .. n PROVE ss[i] \in Seq(E) /\ Len(ss[i]) = c
  <2>1. BoundTo(envs[i], l, sizes, I)
    BY <1>4, <1>5, <1>6, TurnsOfOne
  <2>2. ss[i] = Turns(envs[i], l, sizes)
    BY <1>2, <1>5
  <2> QED
    BY <1>1, <1>4, <2>1, <2>2 DEF BoundTo
<1>7. ss \in [1 .. n -> Seq(E)]
  BY <1>2, <1>5, <1>6
<1>8. ss \in Seq(Seq(E)) /\ Len(ss) = n
  BY <1>5, <1>7
<1>9. FlattenSeq(ss) \in Seq(E) /\ Len(FlattenSeq(ss)) = n * c
  BY <1>5, <1>6, <1>8, FlattenLength
<1> QED
  BY <1>1, <1>2, <1>3, <1>4, <1>9 DEF Multiplied, Longer

(* The iterations of loops of fixed numbers of iterations are their product.*)
PointsAre(s, sizes, trips, n) ==
  \E r : Products(r, trips, n) /\ Len(Points(s, sizes)) = r[n]

LEMMA PointsProduct ==
  ASSUME NEW I, NEW R, NEW n \in Nat, NEW s \in [1 .. n -> R], NEW sizes,
         NEW trips \in [1 .. n -> Nat],
         \A k \in 1 .. n : Fixed(s[k], I) /\ Trips(s[k], sizes, <<>>) = trips[k]
  PROVE  PointsAre(s, sizes, trips, n)
<1> DEFINE F(a, b) == FlattenSeq([i \in DOMAIN a |-> Turns(a[i], b, sizes)])
           Sol(h) == h = [t \in SUBSET DOMAIN s |->
                            IF t = {} THEN <<<<>>>> ELSE F(h[t \ {Max(t)}], s[Max(t)])]
           it == CHOOSE h : Sol(h)
           T == Points(s, sizes)
           V == Seq(Envs(I))
           G == [x \in (1 .. n) \X V |-> F(x[2], s[x[1]])]
<1>1. T = it[DOMAIN s]
  BY DEF FoldLeft, MapThenFoldSet, Points
<1>2. DOMAIN s = 1 .. n /\ Len(s) = n
  OBVIOUS
<1>3. ASSUME NEW k \in 1 .. n, NEW v \in V
      PROVE  F(v, s[k]) \in V /\ Len(F(v, s[k])) = Len(v) * trips[k]
  <2>1. trips[k] \in Nat /\ Fixed(s[k], I) /\ Trips(s[k], sizes, <<>>) = trips[k]
    OBVIOUS
  <2>2. PICK l : l = s[k]
    OBVIOUS
  <2>3. Multiplied(v, l, sizes, I)
    BY <2>1, <2>2, OneMoreLoop
  <2>4. F(v, l) = Longer(v, l, sizes)
    BY DEF Longer
  <2> HIDE DEF F
  <2> QED
    BY <2>1, <2>2, <2>3, <2>4 DEF Multiplied
<1> HIDE DEF F, V
<1>4. \A k \in 1 .. n, v \in V : G[<<k, v>>] = F(v, s[k])
  OBVIOUS
<1>5. G \in [(1 .. n) \X V -> V]
  BY <1>3
<1>6. <<<<>>>> \in V
  <2>1. <<>> \in [{} -> Int]
    OBVIOUS
  <2>2. {} \in SUBSET I
    OBVIOUS
  <2>3. <<>> \in Envs(I)
    BY <2>1, <2>2 DEF Envs
  <2> HIDE DEF G
  <2> QED
    BY <2>3 DEF V
<1> HIDE DEF G, T
<1>7. PICK h : FoldsWith(h, <<<<>>>>, G, n) /\ \A t \in SUBSET (1 .. n) : h[t] \in V
  BY <1>5, <1>6, FoldExists
<1>8. Sol(h)
  <2> DEFINE X(t) == IF t = {} THEN <<<<>>>> ELSE G[<<Max(t), h[t \ {Max(t)}]>>]
             Y(t) == IF t = {} THEN <<<<>>>> ELSE F(h[t \ {Max(t)}], s[Max(t)])
  <2>1. h = [t \in SUBSET (1 .. n) |-> X(t)]
    BY <1>7 DEF FoldsWith
  <2>2. ASSUME NEW t \in SUBSET (1 .. n) PROVE X(t) = Y(t)
    <3>1. ASSUME t # {} PROVE Max(t) \in t
      <4>1. t \in SUBSET (0 .. n)
        BY <2>2
      <4> QED
        BY <3>1, <4>1, MaxOf
    <3>2. \A u \in SUBSET (1 .. n) : h[u] \in V
      BY <1>7
    <3>3. ASSUME t # {} PROVE Max(t) \in 1 .. n /\ h[t \ {Max(t)}] \in V
      BY <3>1, <3>2, <3>3
    <3> QED
      BY <1>4, <3>3
  <2> HIDE DEF X, Y
  <2>3. h = [t \in SUBSET DOMAIN s |-> Y(t)]
    BY <1>2, <2>1, <2>2
  <2> QED
    BY <2>3 DEF Y
<1>9. Sol(it)
  <2> HIDE DEF Sol
  <2> QED
    BY <1>8
<1> HIDE DEF it
<1>10. /\ it[1 .. 0] = <<<<>>>>
       /\ \A k \in 1 .. n : it[1 .. k] = F(it[1 .. k - 1], s[k])
  <2> DEFINE Y(t) == IF t = {} THEN <<<<>>>> ELSE F(it[t \ {Max(t)}], s[Max(t)])
  <2>1. it = [t \in SUBSET (1 .. n) |-> Y(t)]
    BY <1>2, <1>9
  <2> HIDE DEF Y
  <2>2. \A t \in SUBSET (1 .. n) : it[t] = Y(t)
    BY <2>1
  <2>3. it[1 .. 0] = <<<<>>>>
    BY <2>2, PrefixFacts DEF Y
  <2>4. ASSUME NEW k \in 1 .. n PROVE it[1 .. k] = F(it[1 .. k - 1], s[k])
    <3>1. Max(1 .. k) = k
      BY PrefixFacts
    <3>2. (1 .. k) \ {k} = 1 .. k - 1 /\ 1 .. k # {} /\ 1 .. k \in SUBSET (1 .. n)
      BY PrefixFacts
    <3>3. it[1 .. k] = Y(1 .. k)
      BY <2>2, <3>2
    <3> QED
      BY <3>1, <3>2, <3>3 DEF Y
  <2> QED
    BY <2>3, <2>4
<1> HIDE DEF Sol
<1> DEFINE r == [k \in 0 .. n |-> Len(it[1 .. k])]
           D == {k \in Nat : k <= n => it[1 .. k] \in V}
<1>11. \A k \in 0 .. n : it[1 .. k] \in V
  <2>1. 0 \in D
    BY <1>6, <1>10
  <2>2. ASSUME NEW j \in 0 .. n - 1, j \in D PROVE j + 1 \in D
    <3>1. it[1 .. j] \in V /\ j + 1 \in 1 .. n /\ (j + 1) - 1 = j
      BY <2>2
    <3>2. it[1 .. j + 1] = F(it[1 .. j], s[j + 1])
      BY <1>10, <3>1
    <3>3. it[1 .. j + 1] \in V
      BY <1>3, <3>1, <3>2
    <3> QED
      BY <3>1, <3>3
  <2> HIDE DEF D
  <2>3. \A j \in 0 .. n : j \in D
    BY <2>1, <2>2, Upwards
  <2> QED
    BY <2>3 DEF D
<1>12. \A k \in 0 .. n : Len(it[1 .. k]) \in Nat
  BY <1>11, LenProperties DEF V
<1>13. r \in [0 .. n -> Nat] /\ r[n] = Len(it[1 .. n])
  BY <1>12
<1>14. r[0] = 1
  <2>1. 0 \in 0 .. n
    OBVIOUS
  <2>2. r[0] = Len(it[1 .. 0])
    BY <2>1
  <2> HIDE DEF r
  <2> QED
    BY <1>10, <2>2
<1>15. ASSUME NEW k \in 1 .. n PROVE r[k] = r[k - 1] * trips[k]
  <2>1. r[k] = Len(it[1 .. k]) /\ r[k - 1] = Len(it[1 .. k - 1]) /\ k - 1 \in 0 .. n
    OBVIOUS
  <2> HIDE DEF r
  <2> QED
    BY <1>3, <1>10, <1>11, <2>1
<1> HIDE DEF r
<1>16. Products(r, trips, n)
  BY <1>13, <1>14, <1>15 DEF Products
<1>17. Len(T) = r[n]
  BY <1>1, <1>2, <1>13
<1> QED
  BY <1>16, <1>17 DEF PointsAre, T

(* Blocks of at most the size that the symbol allows.                       *)
Sized(l, b) == l.block > 0 => b[l.name] \in 1 .. l.block

(* Smaller blocks, no fewer of them.                                        *)
LEMMA SmallerBlocks ==
  ASSUME NEW e \in Nat \ {0}, NEW B \in Nat, NEW b \in 1 .. B
  PROVE  /\ CeilDiv(e, B) \in Nat /\ CeilDiv(e, b) \in Nat
         /\ CeilDiv(e, B) <= CeilDiv(e, b)
<1>1. PICK q, c, x, y : q = CeilDiv(e, B) /\ c = CeilDiv(e, b) /\ x = e + B - 1 /\ y = e + b - 1
  OBVIOUS
<1>2. x \in Nat /\ y \in Nat /\ B \in Nat \ {0} /\ b \in Nat \ {0} /\ b <= B
  BY <1>1
<1>3. q = x \div B /\ c = y \div b
  BY <1>1 DEF CeilDiv
<1>4. PICK u, v : u = x % B /\ v = y % b
  OBVIOUS
<1>5. q \in Nat /\ u \in 0 .. B - 1 /\ x = B * q + u
  BY <1>2, <1>3, <1>4, Quotient
<1>6. c \in Nat /\ v \in 0 .. b - 1 /\ y = b * c + v
  BY <1>2, <1>3, <1>4, Quotient
<1>7. b * c <= B * c
  BY <1>2, <1>6, ProductGrows
<1>8. b * c \in Nat /\ B * c \in Nat /\ B * q \in Nat
  BY <1>2, <1>5, <1>6
<1>9. B * q <= B * c + B - 1
  <2>1. e <= b * c
    BY <1>1, <1>2, <1>6, <1>8
  <2>2. B * q <= e + B - 1
    BY <1>1, <1>2, <1>5, <1>8
  <2> QED
    BY <1>2, <1>7, <1>8, <2>1, <2>2
<1>10. q <= c
  <2>1. SUFFICES ASSUME ~ (q <= c) PROVE FALSE
    OBVIOUS
  <2>2. PICK d \in Nat : q = c + 1 + d
    <3>1. q - c - 1 \in Nat /\ q = c + 1 + (q - c - 1)
      BY <1>5, <1>6, <2>1
    <3> QED
      BY <3>1
  <2>3. B * q = B * c + B + B * d /\ B * d \in Nat
    BY <1>2, <1>6, <2>2
  <2> QED
    BY <1>2, <1>8, <1>9, <2>3
<1> QED
  BY <1>1, <1>5, <1>6, <1>10

LEMMA EnoughTrips ==
  ASSUME NEW k, NEW l, Fits(k, l), NEW b, Sized(l, b)
  PROVE  /\ MinTrips(l) \in Nat /\ Trips(l, b, <<>>) \in Nat
         /\ MinTrips(l) <= Trips(l, b, <<>>)
<1>1. l.dep = NoLoop /\ l.extent \in Nat \ {0} /\ l.block \in Nat
  BY DEF Fits
<1>2. CASE l.block = 0
  BY <1>1, <1>2 DEF MinTrips, Trips
<1>3. CASE l.block # 0
  <2>1. b[l.name] \in 1 .. l.block
    BY <1>1, <1>3 DEF Sized
  <2>2. MinTrips(l) = CeilDiv(l.extent, l.block) /\ Trips(l, b, <<>>) = CeilDiv(l.extent, b[l.name])
    BY <1>1, <1>3 DEF MinTrips, Trips
  <2>3. PICK e, B, c : e = l.extent /\ B = l.block /\ c = b[l.name]
    OBVIOUS
  <2>4. /\ CeilDiv(e, B) \in Nat /\ CeilDiv(e, c) \in Nat
        /\ CeilDiv(e, B) <= CeilDiv(e, c)
    BY <1>1, <2>1, <2>3, SmallerBlocks
  <2> QED
    BY <2>2, <2>3, <2>4
<1> QED
  BY <1>2, <1>3

(* The loops run at least as often as reckoned for the largest blocks.      *)
WorkDone(s, b) == \E w, p \in Nat : Work(s) = w /\ Len(Points(s, b)) = p /\ w <= p

LEMMA EnoughPoints ==
  ASSUME NEW k, NEW b, NEW R, NEW s \in Seq(R),
         \A i \in DOMAIN s : Fits(k, s[i]) /\ Sized(s[i], b)
  PROVE  WorkDone(s, b)
<1>1. PICK n : n = Len(s)
  OBVIOUS
<1>2. n \in Nat /\ DOMAIN s = 1 .. n /\ s \in [1 .. n -> R]
  BY <1>1, LenProperties
<1>3. PICK f, g : /\ f = [i \in 1 .. n |-> MinTrips(s[i])]
                  /\ g = [i \in 1 .. n |-> Trips(s[i], b, <<>>)]
  OBVIOUS
<1>4. ASSUME NEW i \in 1 .. n
      PROVE  /\ MinTrips(s[i]) \in Nat /\ Trips(s[i], b, <<>>) \in Nat
             /\ MinTrips(s[i]) <= Trips(s[i], b, <<>>)
  <2>1. PICK l : l = s[i]
    OBVIOUS
  <2>2. Fits(k, l) /\ Sized(l, b)
    BY <1>2, <1>4, <2>1
  <2> QED
    BY <2>1, <2>2, EnoughTrips
<1>5. f \in [1 .. n -> Nat] /\ g \in [1 .. n -> Nat] /\ \A i \in 1 .. n : f[i] <= g[i]
  BY <1>3, <1>4
<1>6. PICK I : I = {s[i].id : i \in 1 .. n} \cup {s[i].of : i \in 1 .. n}
  OBVIOUS
<1>7. ASSUME NEW i \in 1 .. n PROVE Fixed(s[i], I) /\ Trips(s[i], b, <<>>) = g[i]
  <2>1. Fits(k, s[i])
    BY <1>2
  <2>2. s[i].dep = NoLoop /\ s[i].scale \in Int
    BY <2>1 DEF Fits
  <2>3. s[i].id \in I /\ s[i].of \in I
    BY <1>6
  <2> QED
    BY <1>3, <2>2, <2>3 DEF Fixed
<1>8. PointsAre(s, b, g, n)
  BY <1>2, <1>5, <1>7, PointsProduct
<1>9. PICK q : Products(q, g, n) /\ Len(Points(s, b)) = q[n]
  BY <1>8 DEF PointsAre
<1>10. PICK r : Products(r, f, n) /\ FoldLeft(LAMBDA x, y : x * y, 1, f) = r[n]
  BY <1>2, <1>5, FoldIsLastProduct
<1>11. Work(s) = r[n]
  BY <1>2, <1>3, <1>10 DEF Work
<1>12. r[n] <= q[n]
  BY <1>2, <1>5, <1>9, <1>10, ProductsGrow
<1>13. r[n] \in Nat /\ q[n] \in Nat
  <2>1. n \in 0 .. n
    BY <1>2
  <2> QED
    BY <1>9, <1>10, <2>1 DEF Products
<1> QED
  BY <1>9, <1>11, <1>12, <1>13 DEF WorkDone

(* The loops of a variant, for blocks that the solver may choose. *)
BlocksFit(k, b) == \A l \in ToSet(k.root \o k.loops) : Sized(l, b)

LEMMA VariantCovers ==
  ASSUME NEW k, KernelOK(k), NEW g, VariantOf(k, g), NEW b, BlocksFit(k, b)
  PROVE  Len(Points(g.root, b)) >= Cores
<1>1. PICK f : \E S \in SUBSET DOMAIN Items(f) :
                 BaseOf(k, f) /\ WorthExploring(f, S) /\ g = Rebuild(f, S)
  BY DEF VariantOf
<1>2. PICK S \in SUBSET DOMAIN Items(f) :
        BaseOf(k, f) /\ WorthExploring(f, S) /\ g = Rebuild(f, S)
  BY <1>1
<1>3. ItemsOK(k, f) /\ IsFunc(f)
  BY <1>2, BaseItems
<1>4. PICK s, R : s = Select(Items(f), S) /\ R = ToSet(Items(f))
  OBVIOUS
<1>5. g.root = s
  BY <1>2, <1>3, <1>4, RebuildFields
<1>6. s \in Seq(R) /\ ToSet(s) = {Items(f)[i] : i \in S \cap DOMAIN Items(f)}
  BY <1>3, <1>4, SelectElements DEF ItemsOK
<1>7. ASSUME NEW l \in ToSet(s) PROVE Fits(k, l) /\ Sized(l, b)
  <2>1. Fits(k, l)
    BY <1>3, <1>6, <1>7 DEF ItemsOK
  <2>2. Sized(l, b)
    <3>1. SUFFICES ASSUME l.block > 0 PROVE b[l.name] \in 1 .. l.block
      BY DEF Sized
    <3>2. PICK i \in DOMAIN All(k) : All(k)[i].name = l.name /\ All(k)[i].block = l.block
      BY <2>1, <3>1 DEF Fits
    <3>3. PICK m : m = All(k)[i]
      OBVIOUS
    <3>4. m \in ToSet(k.root \o k.loops)
      BY <3>2, <3>3 DEF ToSet, All
    <3>5. Sized(m, b)
      BY <3>4 DEF BlocksFit
    <3> QED
      BY <3>1, <3>2, <3>3, <3>5 DEF Sized
  <2> QED
    BY <2>1, <2>2
<1>8. \A i \in DOMAIN s : Fits(k, s[i]) /\ Sized(s[i], b)
  BY <1>7 DEF ToSet
<1>9. WorkDone(s, b)
  BY <1>6, <1>8, EnoughPoints
<1>10. Work(s) >= Cores
  BY <1>2, <1>4 DEF WorthExploring
<1>11. PICK w \in Nat, p \in Nat : Work(s) = w /\ Len(Points(s, b)) = p /\ w <= p
  BY <1>9 DEF WorkDone
<1>12. p >= Cores
  <2>1. w >= Cores /\ Cores \in Nat
    BY <1>10, <1>11, CoresAssumption
  <2> QED
    BY <1>11, <2>1
<1> QED
  BY <1>5, <1>11, <1>12

-----------------------------------------------------------------------------
(* What the module holds at each stage. *)

VariantInv ==
  /\ source \in Kernels
  /\ stage \in {"split", "explore", "materialize", "hoist"}
  /\ stage = "split" => funcs = {source}
  /\ stage = "explore" => funcs \subseteq {source} \cup SplitsOf(source)
  /\ stage = "materialize" => \A f \in funcs : f = source \/ VariantOf(source, f)
  /\ stage = "hoist" => /\ fn = source \/ VariantOf(source, fn)
                        /\ BlocksFit(source, blocks)

LEMMA ExploredFromSource ==
  ASSUME NEW k, KernelOK(k), NEW fs, fs \subseteq {k} \cup SplitsOf(k)
  PROVE  \A g \in {f \in fs : ~ f.base} \cup UNION {VariantsOf(f) : f \in fs} :
           g = k \/ VariantOf(k, g)
<1>1. ASSUME NEW f \in fs PROVE BaseOf(k, f)
  BY <1>1, SplitsAre DEF BaseOf
<1>2. ASSUME NEW f \in fs, ~ f.base PROVE f = k
  <2>1. SUFFICES ASSUME f # k PROVE FALSE
    OBVIOUS
  <2>2. PICK j, loop, q : SplitAt(k, j, loop, q, f)
    BY <1>1, <2>1 DEF BaseOf, SplitOf
  <2>3. f.base = TRUE
    BY <2>2, SplitFields DEF SplitAt
  <2> QED
    BY <1>2, <2>3
<1>3. ASSUME NEW f \in fs, NEW g \in VariantsOf(f) PROVE VariantOf(k, g)
  <2>1. PICK S \in SUBSET DOMAIN Items(f) : WorthExploring(f, S) /\ g = Rebuild(f, S)
    BY <1>3 DEF VariantsOf
  <2>2. BaseOf(k, f)
    BY <1>1
  <2> QED
    BY <2>1, <2>2 DEF VariantOf
<1> QED
  BY <1>2, <1>3

LEMMA MaterializedFit ==
  ASSUME KernelOK(source), Materialize
  PROVE  BlocksFit(source, blocks')
<1>1. /\ blocks' \in [BlockNames -> UNION {1 .. l.block : l \in BlockLoops}]
      /\ \A l \in BlockLoops : blocks'[l.name] <= l.block
  BY DEF Materialize
<1>2. ASSUME NEW l \in ToSet(source.root \o source.loops), l.block > 0
      PROVE  blocks'[l.name] \in 1 .. l.block
  <2>1. l \in BlockLoops /\ l.name \in BlockNames
    BY <1>2 DEF BlockLoops, BlockNames
  <2>2. l.block \in Nat
    <3>1. PICK i \in DOMAIN All(source) : l = All(source)[i]
      BY <1>2 DEF ToSet, All
    <3>2. SourceLoop(l)
      BY <3>1, SourceLoops
    <3> QED
      BY <3>2 DEF SourceLoop
  <2>3. PICK m \in BlockLoops : blocks'[l.name] \in 1 .. m.block
    BY <1>1, <2>1
  <2>4. PICK v : v = blocks'[l.name]
    OBVIOUS
  <2>5. v \in Int /\ v >= 1
    BY <2>3, <2>4
  <2>6. v <= l.block
    BY <1>1, <2>1, <2>4
  <2> QED
    BY <2>2, <2>4, <2>5, <2>6
<1> QED
  BY <1>2 DEF BlocksFit, Sized

LEMMA VariantInvHolds == VariantSpec => []VariantInv
<1> DEFINE Next == SplitFloorDivLoops \/ ExploreParallelSets \/ Materialize
<1>1. VariantInit => VariantInv
  BY DEF VariantInit, VariantInv
<1>2. VariantInv /\ [Next]_variantVars => VariantInv'
  <2> SUFFICES ASSUME VariantInv, [Next]_variantVars PROVE VariantInv'
    OBVIOUS
  <2>1. source \in Kernels /\ KernelOK(source)
    BY KernelsAssumption DEF VariantInv
  <2>2. CASE SplitFloorDivLoops
    <3>1. /\ stage' = "explore" /\ source' = source /\ funcs = {source}
          /\ \E on \in BOOLEAN : funcs' = funcs \cup (IF on THEN SplitsOf(source) ELSE {})
      BY <2>2 DEF SplitFloorDivLoops, VariantInv
    <3>2. funcs' \subseteq {source'} \cup SplitsOf(source')
      BY <3>1
    <3> QED
      BY <2>1, <3>1, <3>2 DEF VariantInv
  <2>3. CASE ExploreParallelSets
    <3>1. /\ stage' = "materialize" /\ source' = source
          /\ funcs \subseteq {source} \cup SplitsOf(source)
          /\ funcs' = {f \in funcs : ~ f.base} \cup UNION {VariantsOf(f) : f \in funcs}
      BY <2>3 DEF ExploreParallelSets, VariantInv
    <3>2. \A f \in funcs' : f = source \/ VariantOf(source, f)
      BY <2>1, <3>1, ExploredFromSource
    <3>3. \A f \in funcs' : f = source' \/ VariantOf(source', f)
      BY <3>1, <3>2
    <3> QED
      BY <2>1, <3>1, <3>3 DEF VariantInv
  <2>4. CASE Materialize
    <3>1. /\ stage' = "hoist" /\ source' = source /\ fn' \in funcs
          /\ \A f \in funcs : f = source \/ VariantOf(source, f)
      BY <2>4 DEF Materialize, VariantInv
    <3>2. BlocksFit(source, blocks')
      BY <2>1, <2>4, MaterializedFit
    <3>3. fn' = source' \/ VariantOf(source', fn')
      BY <3>1
    <3>4. BlocksFit(source', blocks')
      BY <3>1, <3>2
    <3> QED
      BY <2>1, <3>1, <3>3, <3>4 DEF VariantInv
  <2>5. CASE UNCHANGED variantVars
    <3>1. source' = source /\ stage' = stage /\ funcs' = funcs /\ fn' = fn /\ blocks' = blocks
      BY <2>5 DEF variantVars
    <3> QED
      BY <3>1 DEF VariantInv
  <2> QED
    BY <2>2, <2>3, <2>4, <2>5
<1> QED
  BY <1>1, <1>2, PTL DEF VariantSpec

(* For every kernel, machine and choice of block sizes, a variant made for  *)
(* full occupancy has an iteration of its spatial loops for every core:     *)
(* hasEnoughParallelism reckons with the largest blocks, and smaller ones   *)
(* make no fewer iterations.                                                *)
THEOREM VariantsCoverCores == VariantSpec => []CoversCores
<1>1. VariantInv => CoversCores
  <2> SUFFICES ASSUME VariantInv, stage = "hoist", fn.full PROVE Len(Points(fn.root, blocks)) >= Cores
    BY DEF CoversCores
  <2>1. KernelOK(source)
    BY KernelsAssumption DEF VariantInv
  <2>2. VariantOf(source, fn)
    <3>1. source.full = FALSE
      BY <2>1, SourceLoops
    <3> QED
      BY <3>1 DEF VariantInv
  <2>3. BlocksFit(source, blocks)
    BY DEF VariantInv
  <2> QED
    BY <2>1, <2>2, <2>3, VariantCovers
<1> QED
  BY <1>1, VariantInvHolds, PTL

(* For every kernel, the functions of the module after the exploration have *)
(* different names and run different loops spatially, those that come of a  *)
(* split function included.                                                 *)
THEOREM VariantsAreDistinct == VariantSpec => []VariantsDistinct
<1>1. VariantInv => VariantsDistinct
  <2> SUFFICES ASSUME VariantInv, stage = "materialize", NEW f \in funcs, NEW g \in funcs, f # g
               PROVE  f.name # g.name /\ Spatial(f) # Spatial(g)
    BY DEF VariantsDistinct, Spatial
  <2>1. KernelOK(source)
    BY KernelsAssumption DEF VariantInv
  <2>2. (f = source \/ VariantOf(source, f)) /\ (g = source \/ VariantOf(source, g))
    BY DEF VariantInv
  <2>3. CASE f = source
    <3>1. VariantOf(source, g)
      BY <2>2, <2>3
    <3>2. g.name # source.name /\ Spatial(g) # Spatial(source)
      BY <2>1, <3>1, VariantIsNew
    <3> QED
      BY <2>3, <3>2
  <2>4. CASE g = source
    <3>1. VariantOf(source, f)
      BY <2>2, <2>4
    <3>2. f.name # source.name /\ Spatial(f) # Spatial(source)
      BY <2>1, <3>1, VariantIsNew
    <3> QED
      BY <2>4, <3>2
  <2>5. CASE f # source /\ g # source
    <3>1. VariantOf(source, f) /\ VariantOf(source, g)
      BY <2>2, <2>5
    <3> QED
      BY <2>1, <3>1, VariantsDiffer
  <2> QED
    BY <2>3, <2>4, <2>5
<1> QED
  BY <1>1, VariantInvHolds, PTL

=============================================================================

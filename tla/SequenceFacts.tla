----------------------------- MODULE SequenceFacts -----------------------------
(***************************************************************************)
(* Facts about numbers, sequences and sums over finite sets that the       *)
(* proofs of several components need. Induction over numbers and over      *)
(* finite sets is done by the least counterexample.                        *)
(***************************************************************************)
EXTENDS Integers, Sequences, FiniteSets, SequencesExt, SequenceTheorems, FiniteSetTheorems,
        TLAPS

(* A set of numbers that is not empty has a least one: the interval up to  *)
(* it is least among finite sets.                                          *)
LEMMA LeastOf ==
  ASSUME NEW D \in SUBSET Nat, D # {}
  PROVE  \E m \in D : \A k \in D : m <= k
<1> DEFINE T == {0 .. d : d \in D}
<1>1. T \subseteq FiniteSubsetsOf(Nat) /\ T # {}
  <2>1. \A d \in D : 0 .. d \in SUBSET Nat /\ IsFiniteSet(0 .. d)
    BY FS_Interval
  <2> QED BY <2>1 DEF FiniteSubsetsOf
<1>2. PICK x \in T : \A y \in T : ~ (<<y, x>> \in StrictSubsetOrdering(Nat))
  <2> HIDE DEF T
  <2> QED BY <1>1, FS_StrictSubsetOrderingWellFounded, WFMin
<1>3. PICK m \in D : x = 0 .. m
  OBVIOUS
<1>4. SUFFICES ASSUME NEW k \in D, k < m PROVE FALSE
  OBVIOUS
<1>5. 0 .. k \subseteq 0 .. m /\ m \notin 0 .. k /\ m \in 0 .. m
  BY <1>4
<1>6. <<0 .. k, 0 .. m>> \in StrictSubsetOrdering(Nat)
  BY <1>5 DEF StrictSubsetOrdering
<1> QED BY <1>2, <1>3, <1>6

(* Flattening is the last of a series of concatenations: it is defined by   *)
(* recursion, and there is a function that satisfies the recursion.         *)
LEMMA FlattenSeqSteps ==
  ASSUME NEW S, NEW ss \in Seq(Seq(S)), ss # <<>>
  PROVE  \E f \in [1 .. Len(ss) -> Seq(S)] :
           /\ \A i \in 1 .. Len(ss) : f[i] = IF i = 1 THEN ss[i] ELSE f[i - 1] \o ss[i]
           /\ FlattenSeq(ss) = f[Len(ss)]
<1> DEFINE n == Len(ss)
           Step(f, i) == IF i = 1 THEN ss[i] ELSE f[i - 1] \o ss[i]
           Solves(f, m) == \A i \in 1 .. m : f[i] = Step(f, i)
<1>1. n \in Nat /\ \A i \in 1 .. n : ss[i] \in Seq(S)
  BY ElementOfSeq
<1> HIDE DEF n
<1>2. CASE n = 0
  <2>1. ss = <<>>
    BY <1>2, EmptySeq DEF n
  <2> QED
    BY <2>1
<1>3. CASE n # 0
  <2> DEFINE Solved(m) == \E f \in [1 .. m -> Seq(S)] : Solves(f, m)
             Bad == {m \in Nat : m <= n /\ ~ Solved(m)}
  <2>1. Bad = {}
    <3> SUFFICES ASSUME Bad # {} PROVE FALSE
      OBVIOUS
    <3>1. PICK m \in Bad : \A k \in Bad : m <= k
      <4>1. Bad \in SUBSET Nat
        OBVIOUS
      <4> HIDE DEF Bad
      <4> QED
        BY <4>1, LeastOf
    <3>2. m # 0
      <4>1. [i \in 1 .. 0 |-> <<>>] \in [1 .. 0 -> Seq(S)] /\ Solves([i \in 1 .. 0 |-> <<>>], 0)
        OBVIOUS
      <4> QED
        BY <3>1, <4>1
    <3>3. m - 1 \in Nat /\ m - 1 <= n /\ m - 1 \notin Bad
      <4>1. m \in Nat /\ m <= n
        BY <3>1
      <4> HIDE DEF Bad
      <4> QED
        BY <1>1, <3>1, <3>2, <4>1
    <3>4. PICK f \in [1 .. m - 1 -> Seq(S)] : Solves(f, m - 1)
      BY <3>3
    <3> DEFINE g == [i \in 1 .. m |-> IF i = m THEN Step(f, m) ELSE f[i]]
    <3>5. Step(f, m) \in Seq(S)
      <4>1. m \in 1 .. n
        BY <1>1, <3>1, <3>2
      <4>2. CASE m = 1
        BY <1>1, <4>1, <4>2
      <4>3. CASE m # 1
        <5>1. f[m - 1] \in Seq(S)
          BY <3>4, <4>1, <4>3
        <5> QED
          BY <1>1, <4>1, <4>3, <5>1, ConcatProperties
      <4> QED
        BY <4>2, <4>3
    <3>6. g \in [1 .. m -> Seq(S)]
      BY <3>1, <3>4, <3>5
    <3>7. Solves(g, m)
      <4> SUFFICES ASSUME NEW i \in 1 .. m PROVE g[i] = Step(g, i)
        OBVIOUS
      <4>1. i # 1 => i - 1 \in 1 .. m /\ i - 1 # m /\ g[i - 1] = f[i - 1]
        BY <3>1
      <4>2. Step(g, i) = Step(f, i)
        BY <4>1
      <4>3. i # m => i \in 1 .. m - 1
        BY <3>1
      <4> QED
        BY <3>4, <4>2, <4>3
    <3> QED
      BY <3>1, <3>6, <3>7
  <2>2. PICK f \in [1 .. n -> Seq(S)] : Solves(f, n)
    <3>1. Solved(n)
      <4>1. n \notin Bad
        BY <2>1
      <4> HIDE DEF Solved
      <4> QED
        BY <1>1, <4>1
    <3> QED
      BY <3>1
  <2> DEFINE flatten == CHOOSE h : h = [i \in 1 .. n |-> Step(h, i)]
  <2>3. flatten = [i \in 1 .. n |-> Step(flatten, i)]
    <3>1. f = [i \in 1 .. n |-> Step(f, i)]
      BY <2>2
    <3> QED
      BY <3>1
  <2>4. FlattenSeq(ss) = flatten[n]
    BY <1>3 DEF FlattenSeq, n
  <2> HIDE DEF flatten
  <2>5. \A i \in 1 .. n : flatten[i] = Step(flatten, i)
    <3> HIDE DEF Step
    <3> QED
      BY <2>3
  <2> DEFINE Wrong == {m \in Nat : m + 1 \in 1 .. n /\ flatten[m + 1] \notin Seq(S)}
  <2>6. Wrong = {}
    <3> SUFFICES ASSUME Wrong # {} PROVE FALSE
      OBVIOUS
    <3>1. PICK m \in Wrong : \A k \in Wrong : m <= k
      <4>1. Wrong \in SUBSET Nat
        OBVIOUS
      <4> HIDE DEF Wrong
      <4> QED
        BY <4>1, LeastOf
    <3>2. m \in Nat /\ m + 1 \in 1 .. n /\ (m + 1) - 1 = m /\ flatten[m + 1] \notin Seq(S)
      BY <3>1
    <3>3. flatten[m + 1] = Step(flatten, m + 1)
      <4> HIDE DEF Step
      <4> QED
        BY <2>5, <3>2
    <3>4. CASE m = 0
      BY <1>1, <3>2, <3>3, <3>4
    <3>5. CASE m # 0
      <4>1. m - 1 \in Nat /\ (m - 1) + 1 = m /\ m \in 1 .. n /\ m - 1 < m
        BY <1>1, <3>1, <3>2, <3>5
      <4>2. m - 1 \notin Wrong
        <5> HIDE DEF Wrong
        <5> QED
          BY <3>1, <4>1
      <4>3. flatten[m] \in Seq(S)
        BY <4>1, <4>2
      <4>4. flatten[m + 1] = flatten[m] \o ss[m + 1]
        <5>1. m + 1 # 1
          BY <3>2, <3>5
        <5>2. Step(flatten, m + 1) = flatten[(m + 1) - 1] \o ss[m + 1]
          BY <5>1
        <5> HIDE DEF Step
        <5> QED
          BY <3>2, <3>3, <5>2
      <4> QED
        <5>1. flatten[m] \o ss[m + 1] \in Seq(S)
          BY <1>1, <3>2, <4>3, ConcatProperties
        <5> QED
          BY <3>1, <4>4, <5>1
    <3> QED
      BY <3>4, <3>5
  <2>7. flatten \in [1 .. n -> Seq(S)]
    <3>1. \A i \in 1 .. n : flatten[i] \in Seq(S)
      <4> SUFFICES ASSUME NEW i \in 1 .. n PROVE flatten[i] \in Seq(S)
        OBVIOUS
      <4>1. i - 1 \in Nat /\ (i - 1) + 1 = i
        BY <1>1
      <4>2. i - 1 \notin Wrong
        BY <2>6
      <4> QED
        BY <4>1, <4>2
    <3>2. \E g : flatten = [i \in 1 .. n |-> g[i]]
      <4>1. flatten = [i \in 1 .. n |-> Step(flatten, i)]
        BY <2>3
      <4> DEFINE g == [i \in 1 .. n |-> Step(flatten, i)]
      <4>2. flatten = [i \in 1 .. n |-> g[i]]
        BY <4>1
      <4> QED
        BY <4>2
    <3> QED
      BY <3>1, <3>2
  <2>8. \A i \in 1 .. n : flatten[i] = IF i = 1 THEN ss[i] ELSE flatten[i - 1] \o ss[i]
    BY <2>5
  <2> HIDE DEF Step
  <2> QED
    BY <2>4, <2>7, <2>8 DEF n
<1> QED
  BY <1>2, <1>3, EmptySeq DEF n

(* The positions of a flattened sequence: h[i] is the part that position i  *)
(* comes from and o[i] the place in that part. The parts follow each other, *)
(* and every place of every part occurs once.                               *)
Positions(flat, ss, m, h, o) ==
  LET D == 1 .. Len(flat)
  IN  /\ h \in [D -> 1 .. m] /\ o \in [D -> Nat]
      /\ \A i \in D : o[i] \in 1 .. Len(ss[h[i]]) /\ flat[i] = ss[h[i]][o[i]]
      /\ \A i, j \in D : i < j => h[i] <= h[j]
      /\ \A i, j \in D : h[i] = h[j] /\ o[i] = o[j] => i = j
      /\ \A k \in 1 .. m : \A q \in 1 .. Len(ss[k]) : \E i \in D : h[i] = k /\ o[i] = q

(* One more part. *)
LEMMA PositionsStep ==
  ASSUME NEW S, NEW ss \in Seq(Seq(S)), NEW flat \in Seq(S), NEW m \in Nat,
         m + 1 \in 1 .. Len(ss), NEW h, NEW o, Positions(flat, ss, m, h, o)
  PROVE  \E h1, o1 : Positions(flat \o ss[m + 1], ss, m + 1, h1, o1)
<1> DEFINE part == ss[m + 1]
           flat1 == flat \o part
           n == Len(flat)
           D == 1 .. n
           D1 == 1 .. Len(flat1)
           h1 == [i \in D1 |-> IF i <= n THEN h[i] ELSE m + 1]
           o1 == [i \in D1 |-> IF i <= n THEN o[i] ELSE i - n]
<1>1. part \in Seq(S) /\ n \in Nat /\ Len(part) \in Nat
  BY ElementOfSeq
<1>2. /\ Len(flat1) = n + Len(part)
      /\ \A i \in D1 : flat1[i] = IF i <= n THEN flat[i] ELSE part[i - n]
  BY <1>1, ConcatProperties
<1>3. \A i \in D1 : i \in Int /\ (i <= n => i \in D) /\ (~ i <= n => i - n \in 1 .. Len(part))
  BY <1>1, <1>2
<1>4. /\ h \in [D -> 1 .. m] /\ o \in [D -> Nat]
      /\ \A i \in D : o[i] \in 1 .. Len(ss[h[i]]) /\ flat[i] = ss[h[i]][o[i]]
      /\ \A i, j \in D : i < j => h[i] <= h[j]
      /\ \A i, j \in D : h[i] = h[j] /\ o[i] = o[j] => i = j
      /\ \A k \in 1 .. m : \A q \in 1 .. Len(ss[k]) : \E i \in D : h[i] = k /\ o[i] = q
  BY DEF Positions
<1> HIDE DEF part, flat1, n
<1>5. h1 \in [D1 -> 1 .. m + 1] /\ o1 \in [D1 -> Nat]
  BY <1>1, <1>3, <1>4
<1>6. ASSUME NEW i \in D1
      PROVE  o1[i] \in 1 .. Len(ss[h1[i]]) /\ flat1[i] = ss[h1[i]][o1[i]]
  <2>1. CASE i <= n
    BY <1>2, <1>3, <1>4, <2>1
  <2>2. CASE ~ i <= n
    BY <1>2, <1>3, <2>2 DEF part
  <2> QED
    BY <2>1, <2>2
<1>7. ASSUME NEW i \in D1, NEW j \in D1, i < j
      PROVE  h1[i] <= h1[j]
  <2>1. CASE j <= n
    <3>1. i <= n
      BY <1>1, <1>3, <1>7, <2>1
    <3> QED
      BY <1>3, <1>4, <1>7, <2>1, <3>1
  <2>2. CASE ~ j <= n
    <3>1. h1[j] = m + 1 /\ h1[i] \in 1 .. m + 1
      BY <1>5, <2>2
    <3> QED
      BY <3>1
  <2> QED
    BY <2>1, <2>2
<1>8. ASSUME NEW i \in D1, NEW j \in D1, h1[i] = h1[j], o1[i] = o1[j]
      PROVE  i = j
  <2>1. CASE i <= n /\ j <= n
    BY <1>3, <1>4, <1>8, <2>1
  <2>2. CASE ~ i <= n /\ ~ j <= n
    <3>1. i - n = j - n
      BY <1>8, <2>2
    <3> QED
      BY <1>1, <1>3, <3>1
  <2>3. CASE i <= n /\ ~ j <= n
    <3>1. h1[i] \in 1 .. m /\ h1[j] = m + 1
      BY <1>3, <1>4, <2>3
    <3> QED
      BY <1>8, <3>1
  <2>4. CASE ~ i <= n /\ j <= n
    <3>1. h1[j] \in 1 .. m /\ h1[i] = m + 1
      BY <1>3, <1>4, <2>4
    <3> QED
      BY <1>8, <3>1
  <2> QED
    BY <2>1, <2>2, <2>3, <2>4
<1>9. ASSUME NEW k \in 1 .. m + 1, NEW q \in 1 .. Len(ss[k])
      PROVE  \E i \in D1 : h1[i] = k /\ o1[i] = q
  <2>1. CASE k = m + 1
    <3>1. n + q \in D1 /\ ~ n + q <= n /\ (n + q) - n = q
      BY <1>1, <1>2, <2>1 DEF part
    <3> QED
      BY <2>1, <3>1
  <2>2. CASE k # m + 1
    <3>1. k \in 1 .. m
      BY <2>2
    <3>2. PICK i \in D : h[i] = k /\ o[i] = q
      BY <1>4, <3>1
    <3>3. i \in D1 /\ i <= n
      BY <1>1, <1>2
    <3> QED
      BY <3>2, <3>3
  <2> QED
    BY <2>1, <2>2
<1>10. Positions(flat1, ss, m + 1, h1, o1)
  <2> HIDE DEF h1, o1
  <2> QED
    BY <1>5, <1>6, <1>7, <1>8, <1>9 DEF Positions
<1> QED
  BY <1>10 DEF flat1, part

LEMMA FlattenSeqPositions ==
  ASSUME NEW S, NEW ss \in Seq(Seq(S))
  PROVE  /\ FlattenSeq(ss) \in Seq(S)
         /\ \E h, o : Positions(FlattenSeq(ss), ss, Len(ss), h, o)
<1>1. CASE ss = <<>>
  <2>1. FlattenSeq(ss) = <<>> /\ Len(ss) = 0
    BY <1>1 DEF FlattenSeq
  <2>2. Positions(<<>>, ss, 0, <<>>, <<>>)
    BY DEF Positions
  <2>3. \E h, o : Positions(FlattenSeq(ss), ss, Len(ss), h, o)
    <3>1. Positions(FlattenSeq(ss), ss, Len(ss), <<>>, <<>>)
      BY <2>1, <2>2
    <3> QED
      BY <3>1
  <2> QED
    BY <2>1, <2>3, EmptySeq
<1>2. CASE ss # <<>>
  <2> DEFINE n == Len(ss)
  <2>1. n \in Nat \ {0} /\ \A i \in 1 .. n : ss[i] \in Seq(S)
    BY <1>2, ElementOfSeq, EmptySeq
  <2>2. PICK f \in [1 .. n -> Seq(S)] :
          /\ \A i \in 1 .. n : f[i] = IF i = 1 THEN ss[i] ELSE f[i - 1] \o ss[i]
          /\ FlattenSeq(ss) = f[n]
    BY <1>2, FlattenSeqSteps
  <2> HIDE DEF n
  <2> DEFINE Known(m) == \E h, o : Positions(f[m], ss, m, h, o)
             Bad == {m \in Nat : m \in 1 .. n /\ ~ Known(m)}
  <2>3. Bad = {}
    <3> SUFFICES ASSUME Bad # {} PROVE FALSE
      OBVIOUS
    <3>1. PICK m \in Bad : \A k \in Bad : m <= k
      <4>1. Bad \in SUBSET Nat
        OBVIOUS
      <4> HIDE DEF Bad
      <4> QED
        BY <4>1, LeastOf
    <3>2. m \in Nat /\ m \in 1 .. n /\ ~ Known(m)
      BY <3>1
    <3> HIDE DEF Known
    <3>3. CASE m = 1
      <4>1. Positions(<<>>, ss, 0, <<>>, <<>>)
        BY DEF Positions
      <4>2. \E h, o : Positions(<<>> \o ss[0 + 1], ss, 0 + 1, h, o)
        <5>1. <<>> \in Seq(S) /\ 0 + 1 \in 1 .. Len(ss)
          BY <2>1 DEF n
        <5> QED
          BY <4>1, <5>1, PositionsStep
      <4>3. <<>> \o ss[1] = ss[1] /\ f[1] = ss[1]
        BY <2>1, <2>2, <3>2, <3>3, ConcatEmptySeq
      <4> QED
        BY <3>2, <3>3, <4>2, <4>3 DEF Known
    <3>4. CASE m # 1
      <4> DEFINE k == m - 1
      <4>1. k \in Nat /\ k \in 1 .. n /\ k + 1 = m /\ k < m
        BY <2>1, <3>2, <3>4
      <4>2. Known(k)
        <5>1. k \notin Bad
          <6> HIDE DEF Bad, k
          <6> QED
            BY <3>1, <3>2, <4>1
        <5> HIDE DEF k
        <5> QED
          BY <4>1, <5>1
      <4>3. PICK h, o : Positions(f[k], ss, k, h, o)
        BY <4>2 DEF Known
      <4>4. f[k] \in Seq(S)
        BY <2>2, <4>1
      <4> HIDE DEF k
      <4>5. \E h1, o1 : Positions(f[k] \o ss[k + 1], ss, k + 1, h1, o1)
        BY <3>2, <4>1, <4>3, <4>4, PositionsStep DEF n
      <4>6. f[m] = f[k] \o ss[m]
        BY <2>2, <3>2, <3>4 DEF k
      <4> QED
        BY <3>2, <4>1, <4>5, <4>6 DEF Known
    <3> QED
      BY <3>3, <3>4
  <2>4. n \in Nat /\ n \in 1 .. n
    BY <2>1
  <2>5. Known(n)
    <3> HIDE DEF Known
    <3> QED
      BY <2>3, <2>4
  <2>6. f[n] \in Seq(S)
    BY <2>2, <2>4
  <2> QED
    BY <2>2, <2>5, <2>6 DEF n
<1> QED
  BY <1>1, <1>2

LEMMA FlattenSeqElements ==
  ASSUME NEW S, NEW ss \in Seq(Seq(S))
  PROVE  FlattenSeq(ss) \in Seq(S)
BY FlattenSeqPositions

(* The positions after one is removed. *)
LEMMA RemoveAtElements ==
  ASSUME NEW S, NEW s \in Seq(S), NEW k \in 1 .. Len(s)
  PROVE  /\ RemoveAt(s, k) \in Seq(S) /\ Len(RemoveAt(s, k)) = Len(s) - 1
         /\ \A i \in 1 .. Len(s) - 1 : RemoveAt(s, k)[i] = s[IF i < k THEN i ELSE i + 1]
<1> DEFINE n == Len(s)
           a == SubSeq(s, 1, k - 1)
           b == SubSeq(s, k + 1, n)
<1>1. n \in Nat /\ k \in 1 .. n /\ \A i \in 1 .. n : s[i] \in S
  BY ElementOfSeq
<1> HIDE DEF n
<1>2. a \in Seq(S) /\ Len(a) = k - 1 /\ \A i \in 1 .. k - 1 : a[i] = s[i]
  <2>1. \A i \in 1 .. k - 1 : s[i] \in S
    BY <1>1
  <2>2. /\ a \in Seq(S) /\ Len(a) = IF 1 <= k - 1 THEN (k - 1) - 1 + 1 ELSE 0
        /\ \A i \in 1 .. (k - 1) - 1 + 1 : a[i] = s[1 + i - 1]
    BY <1>1, <2>1, SubSeqProperties
  <2>3. \A i \in 1 .. k - 1 : i \in 1 .. (k - 1) - 1 + 1 /\ 1 + i - 1 = i
    BY <1>1
  <2> QED
    BY <1>1, <2>2, <2>3
<1>3. b \in Seq(S) /\ Len(b) = n - k /\ \A i \in 1 .. n - k : b[i] = s[k + i]
  <2>1. \A i \in k + 1 .. n : s[i] \in S
    BY <1>1
  <2>2. /\ b \in Seq(S) /\ Len(b) = IF k + 1 <= n THEN n - (k + 1) + 1 ELSE 0
        /\ \A i \in 1 .. n - (k + 1) + 1 : b[i] = s[(k + 1) + i - 1]
    BY <1>1, <2>1, SubSeqProperties
  <2>3. \A i \in 1 .. n - k : i \in 1 .. n - (k + 1) + 1 /\ (k + 1) + i - 1 = k + i
    BY <1>1
  <2> QED
    BY <1>1, <2>2, <2>3
<1> HIDE DEF a, b
<1>4. /\ a \o b \in Seq(S) /\ Len(a \o b) = Len(a) + Len(b)
      /\ \A i \in 1 .. Len(a) + Len(b) :
           (a \o b)[i] = IF i <= Len(a) THEN a[i] ELSE b[i - Len(a)]
  BY <1>2, <1>3, ConcatProperties
<1>5. RemoveAt(s, k) = a \o b
  BY DEF RemoveAt, a, b, n
<1>6. ASSUME NEW i \in 1 .. n - 1 PROVE (a \o b)[i] = s[IF i < k THEN i ELSE i + 1]
  <2>1. i \in 1 .. Len(a) + Len(b)
    BY <1>1, <1>2, <1>3
  <2>2. CASE i < k
    <3>1. i <= Len(a) /\ i \in 1 .. k - 1
      BY <1>1, <1>2, <2>2
    <3> QED
      BY <1>2, <1>4, <2>1, <2>2, <3>1
  <2>3. CASE ~ i < k
    <3>1. ~ i <= Len(a) /\ i - Len(a) \in 1 .. n - k /\ k + (i - Len(a)) = i + 1
      BY <1>1, <1>2, <2>3
    <3> QED
      BY <1>3, <1>4, <2>1, <2>3, <3>1
  <2> QED
    BY <2>2, <2>3
<1>7. Len(a \o b) = n - 1
  BY <1>1, <1>2, <1>3, <1>4
<1> QED
  BY <1>4, <1>5, <1>6, <1>7 DEF n

(* Two sequences without a common element. *)
LEMMA ConcatDisjoint ==
  ASSUME NEW S, NEW s \in Seq(S), NEW t \in Seq(S)
  PROVE  /\ ToSet(s \o t) = ToSet(s) \cup ToSet(t)
         /\ (IsInjective(s) /\ IsInjective(t) /\ ToSet(s) \cap ToSet(t) = {}) => IsInjective(s \o t)
<1> DEFINE m == Len(s)
           n == Len(t)
           u == s \o t
<1>1. m \in Nat /\ DOMAIN s = 1 .. m /\ n \in Nat /\ DOMAIN t = 1 .. n
  BY LenProperties
<1>2. /\ u \in Seq(S) /\ Len(u) = m + n
      /\ \A i \in 1 .. m + n : u[i] = IF i <= m THEN s[i] ELSE t[i - m]
  BY ConcatProperties
<1>3. DOMAIN u = 1 .. m + n
  BY <1>2, LenProperties
<1> HIDE DEF m, n, u
<1>4. \A i \in 1 .. m : i \in 1 .. m + n /\ u[i] = s[i]
  BY <1>1, <1>2
<1>5. \A i \in 1 .. n : m + i \in 1 .. m + n /\ u[m + i] = t[i]
  <2>1. \A i \in 1 .. n : m + i \in 1 .. m + n /\ ~ m + i <= m /\ (m + i) - m = i
    BY <1>1
  <2> QED
    BY <1>2, <2>1
<1>6. \A i \in 1 .. m + n : \/ i \in 1 .. m /\ u[i] = s[i]
                            \/ i - m \in 1 .. n /\ ~ i <= m /\ u[i] = t[i - m]
  <2>1. \A i \in 1 .. m + n : i \in 1 .. m \/ (i - m \in 1 .. n /\ ~ i <= m)
    BY <1>1
  <2> QED
    BY <1>2, <1>4, <2>1
<1>7. ToSet(u) = ToSet(s) \cup ToSet(t)
  <2>1. ToSet(u) \subseteq ToSet(s) \cup ToSet(t)
    BY <1>1, <1>3, <1>6 DEF ToSet
  <2>2. ToSet(s) \subseteq ToSet(u)
    BY <1>1, <1>3, <1>4 DEF ToSet
  <2>3. ToSet(t) \subseteq ToSet(u)
    BY <1>1, <1>3, <1>5 DEF ToSet
  <2> QED
    BY <2>1, <2>2, <2>3
<1>8. ASSUME IsInjective(s), IsInjective(t), ToSet(s) \cap ToSet(t) = {}
      PROVE  IsInjective(u)
  <2> SUFFICES ASSUME NEW i \in 1 .. m + n, NEW j \in 1 .. m + n, u[i] = u[j]
               PROVE  i = j
    BY <1>3 DEF IsInjective
  <2>1. \A k \in 1 .. m, l \in 1 .. n : s[k] # t[l]
    BY <1>1, <1>8 DEF ToSet
  <2>2. CASE i \in 1 .. m /\ j \in 1 .. m
    BY <1>1, <1>4, <1>8, <2>2 DEF IsInjective
  <2>3. CASE i - m \in 1 .. n /\ u[i] = t[i - m] /\ j - m \in 1 .. n /\ u[j] = t[j - m]
    <3>1. i - m = j - m
      BY <1>1, <1>8, <2>3 DEF IsInjective
    <3> QED
      BY <1>1, <3>1
  <2> QED
    BY <1>6, <2>1, <2>2, <2>3
<1> QED
  BY <1>7, <1>8 DEF u

(* One more element. *)
LEMMA AppendNew ==
  ASSUME NEW S, NEW s \in Seq(S), NEW e \in S
  PROVE  /\ s \o <<e>> \in Seq(S) /\ ToSet(s \o <<e>>) = ToSet(s) \cup {e}
         /\ IsInjective(s) /\ e \notin ToSet(s) => IsInjective(s \o <<e>>)
<1> DEFINE n == Len(s)
           t == s \o <<e>>
<1>1. n \in Nat /\ DOMAIN s = 1 .. n
  BY LenProperties
<1>2. <<e>> \in Seq(S) /\ Len(<<e>>) = 1 /\ <<e>>[1] = e
  OBVIOUS
<1>3. /\ t \in Seq(S) /\ Len(t) = n + 1
      /\ \A i \in 1 .. n + 1 : t[i] = IF i <= n THEN s[i] ELSE <<e>>[i - n]
  <2> HIDE DEF t
  <2>1. \A a, b \in Seq(S) : /\ a \o b \in Seq(S) /\ Len(a \o b) = Len(a) + Len(b)
                            /\ \A i \in 1 .. Len(a) + Len(b) :
                                 (a \o b)[i] = IF i <= Len(a) THEN a[i] ELSE b[i - Len(a)]
    BY ConcatProperties
  <2> QED
    BY <1>2, <2>1 DEF t
<1>4. DOMAIN t = 1 .. n + 1
  BY <1>3, LenProperties
<1> HIDE DEF n, t
<1>5. t[n + 1] = e /\ \A i \in 1 .. n : t[i] = s[i]
  <2>1. n + 1 \in 1 .. n + 1 /\ ~ n + 1 <= n /\ (n + 1) - n = 1
    BY <1>1
  <2>2. \A i \in 1 .. n : i \in 1 .. n + 1 /\ i <= n
    BY <1>1
  <2> QED
    BY <1>2, <1>3, <2>1, <2>2
<1>6. \A i \in 1 .. n + 1 : i \in 1 .. n \/ i = n + 1
  BY <1>1
<1>7. ToSet(t) = ToSet(s) \cup {e}
  <2>1. 1 .. n + 1 = 1 .. n \cup {n + 1}
    BY <1>1
  <2> QED
    BY <1>1, <1>4, <1>5, <2>1 DEF ToSet
<1>8. IsInjective(s) /\ e \notin ToSet(s) => IsInjective(t)
  <2> SUFFICES ASSUME IsInjective(s), e \notin ToSet(s),
                      NEW i \in 1 .. n + 1, NEW j \in 1 .. n + 1, t[i] = t[j]
               PROVE  i = j
    BY <1>4 DEF IsInjective
  <2>1. \A k \in 1 .. n : t[k] # e
    BY <1>1, <1>5 DEF ToSet
  <2>2. CASE i = n + 1 \/ j = n + 1
    BY <1>5, <1>6, <2>1, <2>2
  <2>3. CASE i \in 1 .. n /\ j \in 1 .. n
    BY <1>1, <1>5, <2>3 DEF IsInjective
  <2> QED
    BY <1>6, <2>2, <2>3
<1> QED
  BY <1>3, <1>7, <1>8 DEF t

(* The largest and the smallest of a set of numbers. *)
LEMMA MaxOf ==
  ASSUME NEW n \in Nat, NEW S \in SUBSET (0 .. n), S # {}
  PROVE  Max(S) \in S /\ \A x \in S : x <= Max(S)
<1> DEFINE D == {d \in Nat : n - d \in S}
<1>1. PICK i \in S : TRUE
  OBVIOUS
<1>2. n - i \in Nat /\ n - (n - i) = i
  BY <1>1
<1>3. PICK d \in D : \A c \in D : d <= c
  <2>1. D \in SUBSET Nat /\ D # {}
    BY <1>1, <1>2
  <2> HIDE DEF D
  <2> QED
    BY <2>1, LeastOf
<1>4. \A j \in S : n - d >= j
  <2> SUFFICES ASSUME NEW j \in S PROVE n - d >= j
    OBVIOUS
  <2>1. n - j \in Nat /\ n - (n - j) = j /\ j \in Int
    OBVIOUS
  <2>2. d <= n - j
    BY <1>3, <2>1
  <2> QED
    BY <1>3, <2>1, <2>2
<1>5. Max(S) \in S /\ \A x \in S : Max(S) >= x
  BY <1>3, <1>4 DEF Max
<1> QED
  BY <1>5

LEMMA MinOf ==
  ASSUME NEW S \in SUBSET Nat, S # {}
  PROVE  Min(S) \in S /\ \A x \in S : Min(S) <= x
<1>1. \E m \in S : \A k \in S : m <= k
  BY LeastOf
<1> QED
  BY <1>1 DEF Min

(* A set of pairs has a lexicographically first one. *)
LEMMA FirstPair ==
  ASSUME NEW S \in SUBSET (Nat \X Nat), S # {}
  PROVE  \E m \in S : \A n \in S : m[1] < n[1] \/ (m[1] = n[1] /\ m[2] <= n[2])
<1> DEFINE A == {m[1] : m \in S}
<1>1. A \in SUBSET Nat /\ A # {}
  OBVIOUS
<1>2. PICK a \in A : \A c \in A : a <= c
  <2> HIDE DEF A
  <2> QED
    BY <1>1, LeastOf
<1> DEFINE B == {m[2] : m \in {x \in S : x[1] = a}}
<1>3. B \in SUBSET Nat /\ B # {}
  BY <1>2
<1>4. PICK b \in B : \A c \in B : b <= c
  <2> HIDE DEF B
  <2> QED
    BY <1>3, LeastOf
<1>5. PICK m \in S : m[1] = a /\ m[2] = b
  BY <1>4
<1>6. ASSUME NEW x \in S
      PROVE  m[1] < x[1] \/ (m[1] = x[1] /\ m[2] <= x[2])
  <2>1. x[1] \in A /\ x[1] \in Nat /\ a \in Nat
    BY <1>1, <1>2
  <2>2. a <= x[1]
    BY <1>2, <2>1
  <2>3. x[1] = a => b <= x[2]
    BY <1>4
  <2> QED
    BY <1>5, <2>1, <2>2, <2>3
<1> QED
  BY <1>6

-----------------------------------------------------------------------------
(* A sum over a finite set is defined by recursion over its subsets, which *)
(* takes out the element that CHOOSE picks. g solves that recursion for the *)
(* weights w on the subsets of S.                                           *)
Picked(s) == CHOOSE x \in s : TRUE

Sums(g, w, S) ==
  g = [s \in SUBSET S |-> IF s = {} THEN 0 ELSE w[Picked(s)] + g[s \ {Picked(s)}]]

(* What may be shown of the subsets of a finite set by the least            *)
(* counterexample.                                                          *)
LEMMA LeastSubset ==
  ASSUME NEW S, IsFiniteSet(S), NEW D \in SUBSET (SUBSET S), D # {}
  PROVE  \E m \in D : \A k \in D : k \subseteq m => k = m
<1>1. D \subseteq FiniteSubsetsOf(S)
  BY FS_Subset DEF FiniteSubsetsOf
<1>2. PICK m \in D : \A k \in D : ~ (<<k, m>> \in StrictSubsetOrdering(S))
  BY <1>1, FS_StrictSubsetOrderingWellFounded, WFMin
<1>3. SUFFICES ASSUME NEW k \in D, k \subseteq m, k # m PROVE FALSE
  BY <1>2
<1>4. <<k, m>> \in StrictSubsetOrdering(S)
  BY <1>3 DEF StrictSubsetOrdering
<1> QED
  BY <1>2, <1>4

LEMMA SumsValue ==
  ASSUME NEW S, NEW w, NEW g, Sums(g, w, S), NEW s \in SUBSET S
  PROVE  g[s] = IF s = {} THEN 0 ELSE w[Picked(s)] + g[s \ {Picked(s)}]
<1> DEFINE F(t) == IF t = {} THEN 0 ELSE w[Picked(t)] + g[t \ {Picked(t)}]
<1>1. g = [t \in SUBSET S |-> F(t)]
  BY DEF Sums
<1> HIDE DEF F
<1>2. g[s] = F(s)
  BY <1>1
<1> QED
  BY <1>2 DEF F

(* Two solutions agree where both are defined. *)
LEMMA SumsAgree ==
  ASSUME NEW S, NEW T, IsFiniteSet(S), NEW w, NEW g, NEW h,
         Sums(g, w, S), Sums(h, w, T), NEW s \in SUBSET S, s \in SUBSET T
  PROVE  g[s] = h[s]
<1> DEFINE Bad == {t \in SUBSET S : t \in SUBSET T /\ g[t] # h[t]}
<1>1. SUFFICES ASSUME Bad # {} PROVE FALSE
  OBVIOUS
<1>2. PICK m \in Bad : \A k \in Bad : k \subseteq m => k = m
  <2>1. Bad \in SUBSET (SUBSET S)
    OBVIOUS
  <2> HIDE DEF Bad
  <2> QED
    BY <1>1, <2>1, LeastSubset
<1> DEFINE x == Picked(m)
<1>3. m \in SUBSET S /\ m \in SUBSET T /\ g[m] # h[m]
  BY <1>2
<1> HIDE DEF Bad
<1>4. /\ g[m] = IF m = {} THEN 0 ELSE w[x] + g[m \ {x}]
      /\ h[m] = IF m = {} THEN 0 ELSE w[x] + h[m \ {x}]
  <2>1. g[m] = IF m = {} THEN 0 ELSE w[x] + g[m \ {x}]
    BY <1>3, SumsValue
  <2>2. h[m] = IF m = {} THEN 0 ELSE w[x] + h[m \ {x}]
    BY <1>3, SumsValue
  <2> QED
    BY <2>1, <2>2
<1>5. m # {}
  BY <1>3, <1>4
<1>6. x \in m
  BY <1>5 DEF Picked
<1>7. m \ {x} \in SUBSET S /\ m \ {x} \in SUBSET T /\ m \ {x} \subseteq m /\ m \ {x} # m
  BY <1>3, <1>6
<1> HIDE DEF x
<1>8. m \ {x} \notin Bad
  BY <1>2, <1>7
<1>9. g[m \ {x}] = h[m \ {x}]
  BY <1>7, <1>8 DEF Bad
<1> QED
  BY <1>3, <1>4, <1>9

(* There is a solution for every finite set. *)
LEMMA SumsExist ==
  ASSUME NEW S, IsFiniteSet(S), NEW w
  PROVE  \E g : Sums(g, w, S)
<1> DEFINE Solved(t) == \E g : Sums(g, w, t)
           Bad == {t \in SUBSET S : ~ Solved(t)}
<1>1. SUFFICES ASSUME Bad # {} PROVE FALSE
  <2>1. S \notin Bad => Solved(S)
    OBVIOUS
  <2> QED
    BY <2>1
<1>2. PICK m \in Bad : \A k \in Bad : k \subseteq m => k = m
  <2>1. Bad \in SUBSET (SUBSET S)
    OBVIOUS
  <2> HIDE DEF Bad
  <2> QED
    BY <1>1, <2>1, LeastSubset
<1>3. m \in SUBSET S /\ ~ Solved(m)
  BY <1>2
<1>4. ASSUME NEW t \in SUBSET m, t # m PROVE \E g : Sums(g, w, t)
  <2>1. t \in SUBSET S /\ t \notin Bad
    <3> HIDE DEF Bad
    <3> QED
      BY <1>2, <1>3, <1>4
  <2> QED
    BY <2>1
<1> DEFINE part(t) == CHOOSE g : Sums(g, w, t)
           val(t) == IF t = {} THEN 0
                     ELSE w[Picked(t)] + part(t \ {Picked(t)})[t \ {Picked(t)}]
           all == [t \in SUBSET m |-> val(t)]
<1>5. ASSUME NEW t \in SUBSET m, t # {}
      PROVE  /\ Picked(t) \in t /\ t \ {Picked(t)} \in SUBSET m
             /\ part(t \ {Picked(t)})[t \ {Picked(t)}] = all[t \ {Picked(t)}]
  <2> DEFINE x == Picked(t)
             r == t \ {x}
  <2>1. x \in t
    BY <1>5 DEF Picked
  <2>2. r \in SUBSET m /\ r # m
    BY <2>1
  <2>3. \E g : Sums(g, w, r)
    BY <1>4, <2>2
  <2>4. Sums(part(r), w, r)
    BY <2>3
  <2> HIDE DEF part, r
  <2>5. all[r] = val(r)
    BY <2>2
  <2>6. part(r)[r] = IF r = {} THEN 0 ELSE w[Picked(r)] + part(r)[r \ {Picked(r)}]
    BY <2>4, SumsValue
  <2>7. ASSUME r # {} PROVE part(r)[r \ {Picked(r)}] = part(r \ {Picked(r)})[r \ {Picked(r)}]
    <3> DEFINE q == r \ {Picked(r)}
    <3>1. Picked(r) \in r
      BY <2>7 DEF Picked
    <3>2. q \in SUBSET m /\ q # m /\ q \in SUBSET r
      BY <2>2, <3>1
    <3>3. \E g : Sums(g, w, q)
      BY <1>4, <3>2
    <3>4. Sums(part(q), w, q)
      BY <3>3 DEF part
    <3>5. IsFiniteSet(r)
      BY <1>3, <2>2, FS_Subset
    <3> HIDE DEF q
    <3>6. q \in SUBSET q
      OBVIOUS
    <3>7. part(r)[q] = part(q)[q]
      BY <2>4, <3>2, <3>4, <3>5, <3>6, SumsAgree
    <3> QED
      BY <3>7 DEF q
  <2>8. part(r)[r] = all[r]
    BY <2>5, <2>6, <2>7
  <2> QED
    BY <2>1, <2>2, <2>8 DEF r
<1> HIDE DEF part
<1>6. ASSUME NEW t \in SUBSET m
      PROVE  val(t) = IF t = {} THEN 0 ELSE w[Picked(t)] + all[t \ {Picked(t)}]
  BY <1>5 DEF val
<1>7. Sums(all, w, m)
  <2> HIDE DEF val
  <2>1. all = [t \in SUBSET m |-> val(t)]
    OBVIOUS
  <2> HIDE DEF all
  <2>2. [t \in SUBSET m |-> val(t)]
         = [t \in SUBSET m |-> IF t = {} THEN 0 ELSE w[Picked(t)] + all[t \ {Picked(t)}]]
    BY <1>6
  <2> QED
    BY <2>1, <2>2 DEF Sums
<1> QED
  BY <1>3, <1>7

(* Any element may be taken out first. *)
LEMMA SumsTakeOut ==
  ASSUME NEW D, NEW w \in [D -> Nat], NEW S \in SUBSET D, IsFiniteSet(S), NEW g, Sums(g, w, S)
  PROVE  /\ \A s \in SUBSET S : g[s] \in Nat
         /\ \A s \in SUBSET S : \A y \in s : g[s] = w[y] + g[s \ {y}]
<1>1. \A s \in SUBSET S : g[s] \in Nat
  <2> DEFINE Bad == {s \in SUBSET S : g[s] \notin Nat}
  <2>1. SUFFICES ASSUME Bad # {} PROVE FALSE
    OBVIOUS
  <2>2. PICK m \in Bad : \A k \in Bad : k \subseteq m => k = m
    <3>1. Bad \in SUBSET (SUBSET S)
      OBVIOUS
    <3> HIDE DEF Bad
    <3> QED
      BY <2>1, <3>1, LeastSubset
  <2>3. m \in SUBSET S /\ g[m] \notin Nat
    BY <2>2
  <2> DEFINE x == Picked(m)
  <2>4. g[m] = IF m = {} THEN 0 ELSE w[x] + g[m \ {x}]
    BY <2>3, SumsValue
  <2>5. m # {}
    BY <2>3, <2>4
  <2>6. x \in m
    BY <2>5 DEF Picked
  <2> HIDE DEF x
  <2>7. m \ {x} \in SUBSET S /\ m \ {x} \subseteq m /\ m \ {x} # m
    BY <2>3, <2>6
  <2>8. m \ {x} \notin Bad
    <3> HIDE DEF Bad
    <3> QED
      BY <2>2, <2>7
  <2>9. g[m \ {x}] \in Nat /\ w[x] \in Nat
    BY <2>3, <2>6, <2>7, <2>8
  <2> QED
    BY <2>3, <2>4, <2>5, <2>9
<1>2. \A s \in SUBSET S : \A y \in s : g[s] = w[y] + g[s \ {y}]
  <2> DEFINE Bad == {s \in SUBSET S : \E y \in s : g[s] # w[y] + g[s \ {y}]}
  <2>1. SUFFICES ASSUME Bad # {} PROVE FALSE
    OBVIOUS
  <2>2. PICK m \in Bad : \A k \in Bad : k \subseteq m => k = m
    <3>1. Bad \in SUBSET (SUBSET S)
      OBVIOUS
    <3> HIDE DEF Bad
    <3> QED
      BY <2>1, <3>1, LeastSubset
  <2>3. m \in SUBSET S
    BY <2>2
  <2>4. PICK y \in m : g[m] # w[y] + g[m \ {y}]
    BY <2>2
  <2> DEFINE x == Picked(m)
  <2>5. x \in m
    BY <2>4 DEF Picked
  <2>6. g[m] = w[x] + g[m \ {x}]
    <3>1. g[m] = IF m = {} THEN 0 ELSE w[x] + g[m \ {x}]
      BY <2>3, SumsValue
    <3> QED
      BY <2>5, <3>1
  <2> HIDE DEF x
  <2>7. ASSUME NEW z \in m, NEW u \in m \ {z}
        PROVE  g[m \ {z}] = w[u] + g[(m \ {z}) \ {u}]
    <3>1. m \ {z} \in SUBSET S /\ m \ {z} \subseteq m /\ m \ {z} # m
      BY <2>3
    <3>2. m \ {z} \notin Bad
      <4> HIDE DEF Bad
      <4> QED
        BY <2>2, <3>1
    <3> QED
      BY <2>7, <3>1, <3>2
  <2> DEFINE r == (m \ {x}) \ {y}
  <2>8. x # y
    BY <2>4, <2>6
  <2>9. g[m \ {x}] = w[y] + g[r]
    BY <2>5, <2>7, <2>8
  <2>10. g[m \ {y}] = w[x] + g[r]
    <3>1. (m \ {y}) \ {x} = r
      OBVIOUS
    <3>2. g[m \ {y}] = w[x] + g[(m \ {y}) \ {x}]
      BY <2>5, <2>7, <2>8
    <3> QED
      BY <3>1, <3>2
  <2>11. g[r] \in Nat /\ w[x] \in Nat /\ w[y] \in Nat
    BY <1>1, <2>3, <2>5
  <2> HIDE DEF r
  <2> QED
    BY <2>4, <2>6, <2>9, <2>10, <2>11
<1> QED
  BY <1>1, <1>2

(* n is the sum of the weights w over S. *)
IsSum(n, w, S) == \E g : Sums(g, w, S) /\ n = g[S]

LEMMA SumOfNone ==
  ASSUME NEW w, NEW n, IsSum(n, w, {})
  PROVE  n = 0
<1>1. PICK g : Sums(g, w, {}) /\ n = g[{}]
  BY DEF IsSum
<1>2. g[{}] = IF {} = {} THEN 0 ELSE w[Picked({})] + g[{} \ {Picked({})}]
  BY <1>1, SumsValue
<1> QED
  BY <1>1, <1>2

(* One element more, one weight more. *)
LEMMA SumOfOneMore ==
  ASSUME NEW D, NEW w \in [D -> Nat], NEW S \in SUBSET D, IsFiniteSet(S),
         NEW y \in D, y \notin S, NEW n, NEW m, IsSum(n, w, S), IsSum(m, w, S \cup {y})
  PROVE  n \in Nat /\ m = n + w[y]
<1>1. PICK g : Sums(g, w, S) /\ n = g[S]
  BY DEF IsSum
<1>2. PICK h : Sums(h, w, S \cup {y}) /\ m = h[S \cup {y}]
  BY DEF IsSum
<1>3. PICK T \in SUBSET D : T = S \cup {y}
  OBVIOUS
<1>4. IsFiniteSet(T)
  BY <1>3, FS_AddElement
<1>5. S \in SUBSET T /\ y \in T /\ T \ {y} = S
  BY <1>3
<1>6. Sums(h, w, T) /\ m = h[T]
  BY <1>2, <1>3
<1>7. /\ \A s \in SUBSET T : h[s] \in Nat
      /\ \A s \in SUBSET T : \A z \in s : h[s] = w[z] + h[s \ {z}]
  BY <1>4, <1>6, SumsTakeOut
<1>8. g[S] = h[S]
  <2>1. S \in SUBSET S /\ S \in SUBSET T
    BY <1>5
  <2> QED
    BY <1>1, <1>6, <2>1, SumsAgree
<1>9. h[T] = w[y] + h[S] /\ h[S] \in Nat /\ w[y] \in Nat
  BY <1>5, <1>7
<1> QED
  BY <1>1, <1>6, <1>8, <1>9

(* Induction up to n over a set.                                            *)
LEMMA Upwards ==
  ASSUME NEW n \in Nat, NEW D, 0 \in D, \A j \in 0 .. n - 1 : j \in D => j + 1 \in D
  PROVE  \A j \in 0 .. n : j \in D
<1> DEFINE Bad == {j \in Nat : j <= n /\ j \notin D}
<1>1. SUFFICES ASSUME Bad # {} PROVE FALSE
  OBVIOUS
<1>2. PICK m \in Bad : \A k \in Bad : m <= k
  <2>1. Bad \in SUBSET Nat
    OBVIOUS
  <2> HIDE DEF Bad
  <2> QED
    BY <1>1, <2>1, LeastOf
<1>3. m \in Nat /\ m <= n /\ m \notin D /\ m # 0
  BY <1>2
<1>4. m - 1 \in 0 .. n - 1 /\ m - 1 \in Nat /\ m - 1 <= n /\ m - 1 + 1 = m
  BY <1>3
<1>5. m - 1 \in D
  <2>1. ~ (m <= m - 1)
    BY <1>3
  <2>2. m - 1 \notin Bad
    <3> HIDE DEF Bad
    <3> QED
      BY <1>2, <2>1
  <2> QED
    BY <1>4, <2>2
<1> QED
  BY <1>3, <1>4, <1>5

(* The greatest of an interval's subset that has the interval's last.       *)
LEMMA MaxIsLast ==
  ASSUME NEW k \in Nat, NEW t \in SUBSET (1 .. k), k \in t
  PROVE  Max(t) = k
<1>1. \A y \in t : k >= y
  OBVIOUS
<1>2. \A x \in t : (\A y \in t : x >= y) => x = k
  OBVIOUS
<1> QED
  BY <1>1, <1>2 DEF Max

LEMMA PrefixFacts ==
  ASSUME NEW n \in Nat
  PROVE  /\ 1 .. 0 = {} /\ 1 .. 0 \in SUBSET (1 .. n)
         /\ \A k \in 1 .. n : /\ Max(1 .. k) = k /\ (1 .. k) \ {k} = 1 .. k - 1
                             /\ 1 .. k # {} /\ 1 .. k \in SUBSET (1 .. n)
<1>1. 1 .. 0 = {} /\ 1 .. 0 \in SUBSET (1 .. n)
  OBVIOUS
<1>2. ASSUME NEW k \in 1 .. n
      PROVE  /\ Max(1 .. k) = k /\ (1 .. k) \ {k} = 1 .. k - 1
             /\ 1 .. k # {} /\ 1 .. k \in SUBSET (1 .. n)
  <2>1. k \in 1 .. k /\ k \in Nat /\ \A m \in 1 .. k : m \in 1 .. n
    OBVIOUS
  <2>2. Max(1 .. k) = k
    BY <2>1, MaxIsLast
  <2>3. ASSUME NEW m PROVE m \in (1 .. k) \ {k} <=> m \in 1 .. k - 1
    OBVIOUS
  <2>4. (1 .. k) \ {k} = 1 .. k - 1
    BY <2>3
  <2> QED
    BY <2>1, <2>2, <2>4
<1> QED
  BY <1>1, <1>2

(* A fold over the numbers up to n is defined: G is what it does with one   *)
(* number and what it has so far.                                           *)
FoldsWith(h, base, G, n) ==
  h = [t \in SUBSET (1 .. n) |-> IF t = {} THEN base ELSE G[<<Max(t), h[t \ {Max(t)}]>>]]

LEMMA FoldExists ==
  ASSUME NEW n \in Nat, NEW V, NEW base \in V, NEW G \in [(1 .. n) \X V -> V]
  PROVE  \E h : FoldsWith(h, base, G, n) /\ \A t \in SUBSET (1 .. n) : h[t] \in V
<1> DEFINE Good(h, k) == FoldsWith(h, base, G, k) /\ \A t \in SUBSET (1 .. k) : h[t] \in V
           D == {k \in Nat : k <= n => \E h : Good(h, k)}
<1>1. 0 \in D
  <2> DEFINE h == [t \in SUBSET (1 .. 0) |-> base]
  <2>1. SUBSET (1 .. 0) = {{}}
    OBVIOUS
  <2>2. FoldsWith(h, base, G, 0)
    BY <2>1 DEF FoldsWith
  <2>3. \A t \in SUBSET (1 .. 0) : h[t] \in V
    OBVIOUS
  <2> HIDE DEF h
  <2> QED
    BY <2>2, <2>3
<1>2. ASSUME NEW j \in 0 .. n - 1, j \in D PROVE j + 1 \in D
  <2>1. PICK g : Good(g, j)
    BY <1>2
  <2> DEFINE k == j + 1
             val(t) == IF k \in t THEN G[<<k, g[t \ {k}]>>] ELSE g[t]
             h == [t \in SUBSET (1 .. k) |-> val(t)]
  <2>2. k \in 1 .. n /\ k \in Nat /\ 1 .. j \subseteq 1 .. k /\ 1 .. k = 1 .. j \cup {k} /\ k \notin 1 .. j
    BY <1>2
  <2>3. \A t \in SUBSET (1 .. j) :
          g[t] \in V /\ g[t] = IF t = {} THEN base ELSE G[<<Max(t), g[t \ {Max(t)}]>>]
    <3> DEFINE F(t) == IF t = {} THEN base ELSE G[<<Max(t), g[t \ {Max(t)}]>>]
    <3>1. g = [t \in SUBSET (1 .. j) |-> F(t)] /\ \A t \in SUBSET (1 .. j) : g[t] \in V
      BY <2>1 DEF FoldsWith
    <3> HIDE DEF F
    <3>2. \A t \in SUBSET (1 .. j) : g[t] = F(t)
      BY <3>1
    <3> QED
      BY <3>1, <3>2 DEF F
  <2> HIDE DEF k
  <2>4. ASSUME NEW t \in SUBSET (1 .. k)
        PROVE  val(t) \in V /\ val(t) = IF t = {} THEN base ELSE G[<<Max(t), h[t \ {Max(t)}]>>]
    <3>1. CASE k \in t
      <4>1. Max(t) = k
        BY <2>2, <3>1, MaxIsLast
      <4>2. t \ {k} \in SUBSET (1 .. j) /\ t \ {k} \in SUBSET (1 .. k) /\ k \notin t \ {k}
        BY <2>2
      <4>3. h[t \ {k}] = g[t \ {k}] /\ g[t \ {k}] \in V
        BY <2>3, <4>2
      <4> HIDE DEF h
      <4> QED
        BY <2>2, <3>1, <4>1, <4>3
    <3>2. CASE k \notin t
      <4>1. t \in SUBSET (1 .. j)
        BY <2>2, <3>2
      <4>2. val(t) = g[t] /\ g[t] \in V
        BY <2>3, <3>2, <4>1
      <4>3. ASSUME t # {} PROVE h[t \ {Max(t)}] = g[t \ {Max(t)}]
        BY <3>2
      <4> HIDE DEF h, val
      <4> QED
        BY <2>3, <4>1, <4>2, <4>3
    <3> QED
      BY <3>1, <3>2
  <2> HIDE DEF val
  <2>5. h = [t \in SUBSET (1 .. k) |-> IF t = {} THEN base ELSE G[<<Max(t), h[t \ {Max(t)}]>>]]
    <3> DEFINE X(t) == IF t = {} THEN base ELSE G[<<Max(t), h[t \ {Max(t)}]>>]
    <3>1. \A t \in SUBSET (1 .. k) : val(t) = X(t)
      BY <2>4
    <3> HIDE DEF X
    <3>2. h = [t \in SUBSET (1 .. k) |-> X(t)]
      BY <3>1
    <3> QED
      BY <3>2 DEF X
  <2>6. \A t \in SUBSET (1 .. k) : h[t] \in V
    BY <2>4
  <2>7. FoldsWith(h, base, G, k)
    BY <2>5 DEF FoldsWith
  <2> HIDE DEF h
  <2>8. Good(h, k)
    BY <2>6, <2>7
  <2> QED
    BY <2>2, <2>8 DEF k
<1> HIDE DEF D
<1>3. \A j \in 0 .. n : j \in D
  BY <1>1, <1>2, Upwards
<1>4. n \in D
  BY <1>3
<1> QED
  BY <1>4 DEF D

(* r holds the products of the first n values of f.                         *)
Products(r, f, n) ==
  /\ r \in [0 .. n -> Nat] /\ r[0] = 1
  /\ \A k \in 1 .. n : r[k] = r[k - 1] * f[k]

(* r holds the sums of the first n values of f.                             *)
Totals(r, f, n) ==
  /\ r \in [0 .. n -> Nat] /\ r[0] = 0
  /\ \A k \in 1 .. n : r[k] = r[k - 1] + f[k]

LEMMA TotalsExist ==
  ASSUME NEW n \in Nat, NEW f, \A k \in 1 .. n : f[k] \in Nat
  PROVE  \E r : Totals(r, f, n)
<1> DEFINE D == {m \in Nat : m <= n => \E r : Totals(r, f, m)}
<1>1. 0 \in D
  <2> DEFINE r == [k \in 0 .. 0 |-> 0]
  <2>1. Totals(r, f, 0)
    BY DEF Totals
  <2> QED
    BY <2>1
<1>2. ASSUME NEW j \in 0 .. n - 1, j \in D PROVE j + 1 \in D
  <2>1. PICK r : Totals(r, f, j)
    BY <1>2
  <2> DEFINE m == j + 1
             q == [k \in 0 .. m |-> IF k = m THEN r[j] + f[m] ELSE r[k]]
  <2>2. m \in 1 .. n /\ m \in Nat /\ m - 1 = j /\ j \in 0 .. j /\ j \in Nat
    BY <1>2
  <2>3. r \in [0 .. j -> Nat] /\ r[0] = 0 /\ \A k \in 1 .. j : r[k] = r[k - 1] + f[k]
    BY <2>1 DEF Totals
  <2>4. f[m] \in Nat /\ r[j] \in Nat
    BY <2>2, <2>3
  <2> HIDE DEF m
  <2>5. \A k \in 0 .. m : k = m \/ k \in 0 .. j
    BY <2>2
  <2>6. q \in [0 .. m -> Nat] /\ q[0] = 0
    BY <2>2, <2>3, <2>4, <2>5
  <2>7. ASSUME NEW k \in 1 .. m PROVE q[k] = q[k - 1] + f[k]
    <3>1. CASE k = m
      <4>1. q[k] = r[j] + f[m] /\ q[k - 1] = r[j]
        BY <2>2, <3>1
      <4> QED
        BY <3>1, <4>1
    <3>2. CASE k # m
      <4>1. k \in 1 .. j /\ k - 1 \in 0 .. j
        BY <2>2, <3>2
      <4>2. q[k] = r[k] /\ q[k - 1] = r[k - 1]
        BY <2>2, <4>1
      <4> QED
        BY <2>3, <4>1, <4>2
    <3> QED
      BY <3>1, <3>2
  <2> HIDE DEF q
  <2>8. Totals(q, f, m)
    BY <2>6, <2>7 DEF Totals
  <2> QED
    BY <2>2, <2>8 DEF m
<1> HIDE DEF D
<1>3. \A j \in 0 .. n : j \in D
  BY <1>1, <1>2, Upwards
<1>4. n \in D
  BY <1>3
<1> QED
  BY <1>4 DEF D

(* The same values have the same sums.                                      *)
LEMMA TotalsSame ==
  ASSUME NEW n \in Nat, NEW f, NEW g, \A k \in 1 .. n : f[k] = g[k],
         NEW r, NEW q, Totals(r, f, n), Totals(q, g, n)
  PROVE  r[n] = q[n]
<1> DEFINE D == {m \in Nat : m <= n => r[m] = q[m]}
<1>1. 0 \in D
  BY DEF Totals
<1>2. ASSUME NEW j \in 0 .. n - 1, j \in D PROVE j + 1 \in D
  <2>1. j + 1 \in 1 .. n /\ (j + 1) - 1 = j /\ r[j] = q[j] /\ f[j + 1] = g[j + 1]
    BY <1>2
  <2>2. r[j + 1] = r[j] + f[j + 1] /\ q[j + 1] = q[j] + g[j + 1]
    BY <2>1 DEF Totals
  <2> QED
    BY <1>2, <2>1, <2>2
<1> HIDE DEF D
<1>3. \A j \in 0 .. n : j \in D
  BY <1>1, <1>2, Upwards
<1>4. n \in D
  BY <1>3
<1> QED
  BY <1>4 DEF D

(* No values but zeros, no sum.                                             *)
LEMMA TotalOfZeros ==
  ASSUME NEW n \in Nat, NEW f, \A k \in 1 .. n : f[k] = 0, NEW r, Totals(r, f, n)
  PROVE  r[n] = 0
<1> DEFINE D == {m \in Nat : m <= n => r[m] = 0}
<1>1. 0 \in D
  BY DEF Totals
<1>2. ASSUME NEW j \in 0 .. n - 1, j \in D PROVE j + 1 \in D
  <2>1. j + 1 \in 1 .. n /\ (j + 1) - 1 = j /\ r[j] = 0 /\ f[j + 1] = 0
    BY <1>2
  <2>2. r[j + 1] = r[j] + f[j + 1]
    BY <2>1 DEF Totals
  <2> QED
    BY <1>2, <2>1, <2>2
<1> HIDE DEF D
<1>3. \A j \in 0 .. n : j \in D
  BY <1>1, <1>2, Upwards
<1>4. n \in D
  BY <1>3
<1> QED
  BY <1>4 DEF D

(* No factors but ones, the product is one.                                 *)
LEMMA ProductOfOnes ==
  ASSUME NEW n \in Nat, NEW f, \A k \in 1 .. n : f[k] = 1, NEW r, Products(r, f, n)
  PROVE  r[n] = 1
<1> DEFINE D == {m \in Nat : m <= n => r[m] = 1}
<1>1. 0 \in D
  BY DEF Products
<1>2. ASSUME NEW j \in 0 .. n - 1, j \in D PROVE j + 1 \in D
  <2>1. j + 1 \in 1 .. n /\ (j + 1) - 1 = j /\ r[j] = 1 /\ f[j + 1] = 1
    BY <1>2
  <2>2. r[j + 1] = r[j] * f[j + 1]
    BY <2>1 DEF Products
  <2> QED
    BY <1>2, <2>1, <2>2
<1> HIDE DEF D
<1>3. \A j \in 0 .. n : j \in D
  BY <1>1, <1>2, Upwards
<1>4. n \in D
  BY <1>3
<1> QED
  BY <1>4 DEF D

(* g has e where f has its i-th value.                                      *)
Without(g, f, i, n, e) ==
  /\ i \in 1 .. n /\ g[i] = e
  /\ \A k \in 1 .. n : f[k] \in Nat /\ (k # i => g[k] = f[k])

(* One value more is added once, wherever it stands.                        *)
LEMMA TotalChanged ==
  ASSUME NEW n \in Nat, NEW f, NEW g, NEW i, Without(g, f, i, n, 0),
         NEW r, NEW q, Totals(r, f, n), Totals(q, g, n)
  PROVE  r[n] = q[n] + f[i]
<1>5. /\ i \in 1 .. n /\ g[i] = 0
      /\ \A k \in 1 .. n : f[k] \in Nat /\ (k # i => g[k] = f[k])
  BY DEF Without
<1> DEFINE D == {m \in Nat : m <= n => r[m] = IF m < i THEN q[m] ELSE q[m] + f[i]}
<1>1. 0 \in D
  BY <1>5 DEF Totals
<1>2. ASSUME NEW j \in 0 .. n - 1, j \in D PROVE j + 1 \in D
  <2> DEFINE k == j + 1
  <2>1. k \in 1 .. n /\ k - 1 = j /\ r[j] = IF j < i THEN q[j] ELSE q[j] + f[i]
    BY <1>2
  <2>2. r[k] = r[j] + f[k] /\ q[k] = q[j] + g[k]
    BY <2>1 DEF Totals
  <2>3. f[k] \in Nat /\ f[i] \in Nat /\ q[j] \in Nat
    BY <1>2, <1>5, <2>1 DEF Totals
  <2>4. k \in Nat /\ j \in Nat /\ j < k
    BY <1>2
  <2> HIDE DEF k
  <2>5. CASE k = i
    <3>1. j < i /\ g[k] = 0
      BY <1>5, <2>4, <2>5
    <3>2. r[k] = q[k] + f[i] /\ ~ (k < i)
      BY <2>1, <2>2, <2>3, <2>4, <2>5, <3>1
    <3> QED
      BY <2>4, <3>2 DEF k
  <2>6. CASE k < i
    <3>1. j < i /\ g[k] = f[k]
      BY <1>5, <2>1, <2>4, <2>6
    <3>2. r[k] = q[k]
      BY <2>1, <2>2, <3>1
    <3> QED
      BY <2>4, <2>6, <3>2 DEF k
  <2>7. CASE i < k
    <3>1. ~ (j < i) /\ g[k] = f[k] /\ ~ (k < i)
      BY <1>5, <2>1, <2>4, <2>7 DEF k
    <3>2. r[k] = q[k] + f[i]
      BY <2>1, <2>2, <2>3, <3>1
    <3> QED
      BY <2>4, <3>1, <3>2 DEF k
  <2> QED
    BY <1>5, <2>4, <2>5, <2>6, <2>7
<1> HIDE DEF D
<1>3. \A j \in 0 .. n : j \in D
  BY <1>1, <1>2, Upwards
<1>4. n \in D
  BY <1>3
<1> QED
  BY <1>4, <1>5 DEF D

(* One factor more multiplies the product once, wherever it stands.         *)
LEMMA ProductChanged ==
  ASSUME NEW n \in Nat, NEW f, NEW g, NEW i, Without(g, f, i, n, 1),
         NEW r, NEW q, Products(r, f, n), Products(q, g, n)
  PROVE  r[n] = q[n] * f[i]
<1>5. /\ i \in 1 .. n /\ g[i] = 1
      /\ \A k \in 1 .. n : f[k] \in Nat /\ (k # i => g[k] = f[k])
  BY DEF Without
<1> DEFINE D == {m \in Nat : m <= n => r[m] = IF m < i THEN q[m] ELSE q[m] * f[i]}
<1>0. \A x, y, z \in Nat : (x * y) * z = (x * z) * y
  OBVIOUS
<1>1. 0 \in D
  BY <1>5 DEF Products
<1>2. ASSUME NEW j \in 0 .. n - 1, j \in D PROVE j + 1 \in D
  <2> DEFINE k == j + 1
  <2>1. k \in 1 .. n /\ k - 1 = j /\ r[j] = IF j < i THEN q[j] ELSE q[j] * f[i]
    BY <1>2
  <2>2. r[k] = r[j] * f[k] /\ q[k] = q[j] * g[k]
    BY <2>1 DEF Products
  <2>3. f[k] \in Nat /\ f[i] \in Nat /\ q[j] \in Nat
    BY <1>2, <1>5, <2>1 DEF Products
  <2>4. k \in Nat /\ j \in Nat /\ j < k
    BY <1>2
  <2> HIDE DEF k
  <2>5. CASE k = i
    <3>1. j < i /\ g[k] = 1
      BY <1>5, <2>4, <2>5
    <3>2. q[j] * 1 = q[j]
      BY <2>3
    <3>3. r[k] = q[k] * f[i] /\ ~ (k < i)
      BY <2>1, <2>2, <2>4, <2>5, <3>1, <3>2
    <3> QED
      BY <2>4, <3>3 DEF k
  <2>6. CASE k < i
    <3>1. j < i /\ g[k] = f[k]
      BY <1>5, <2>1, <2>4, <2>6
    <3>2. r[k] = q[k]
      BY <2>1, <2>2, <3>1
    <3> QED
      BY <2>4, <2>6, <3>2 DEF k
  <2>7. CASE i < k
    <3>1. ~ (j < i) /\ g[k] = f[k] /\ ~ (k < i)
      BY <1>5, <2>1, <2>4, <2>7 DEF k
    <3>2. r[k] = (q[j] * f[i]) * f[k] /\ q[k] = q[j] * f[k]
      BY <2>1, <2>2, <3>1
    <3>3. (q[j] * f[i]) * f[k] = (q[j] * f[k]) * f[i]
      BY <1>0, <2>3
    <3> QED
      BY <2>4, <3>1, <3>2, <3>3 DEF k
  <2> QED
    BY <1>5, <2>4, <2>5, <2>6, <2>7
<1> HIDE DEF D
<1>3. \A j \in 0 .. n : j \in D
  BY <1>1, <1>2, Upwards
<1>4. n \in D
  BY <1>3
<1> QED
  BY <1>4, <1>5 DEF D

(* Folding a sequence with multiplication gives the last of its products.   *)
LEMMA FoldIsLastProduct ==
  ASSUME NEW n \in Nat, NEW s \in [1 .. n -> Nat]
  PROVE  \E r : Products(r, s, n) /\ FoldLeft(LAMBDA a, b : a * b, 1, s) = r[n]
<1> DEFINE F(a, b) == a * b
           Sol(h) == h = [t \in SUBSET DOMAIN s |->
                            IF t = {} THEN 1 ELSE F(h[t \ {Max(t)}], s[Max(t)])]
           it == CHOOSE h : Sol(h)
           T == FoldLeft(LAMBDA a, b : a * b, 1, s)
           G == [x \in (1 .. n) \X Nat |-> x[2] * s[x[1]]]
<1>1. T = it[DOMAIN s]
  BY DEF FoldLeft, MapThenFoldSet
<1>2. DOMAIN s = 1 .. n /\ Len(s) = n
  OBVIOUS
<1>3. G \in [(1 .. n) \X Nat -> Nat] /\ \A k \in 1 .. n, v \in Nat : G[<<k, v>>] = F(v, s[k])
  OBVIOUS
<1> HIDE DEF G, T
<1>4. PICK h : FoldsWith(h, 1, G, n) /\ \A t \in SUBSET (1 .. n) : h[t] \in Nat
  BY <1>3, FoldExists
<1>5. Sol(h)
  <2> DEFINE X(t) == IF t = {} THEN 1 ELSE G[<<Max(t), h[t \ {Max(t)}]>>]
             Y(t) == IF t = {} THEN 1 ELSE F(h[t \ {Max(t)}], s[Max(t)])
  <2>1. h = [t \in SUBSET (1 .. n) |-> X(t)]
    BY <1>4 DEF FoldsWith
  <2>2. ASSUME NEW t \in SUBSET (1 .. n) PROVE X(t) = Y(t)
    <3>1. ASSUME t # {} PROVE Max(t) \in t
      <4>1. t \in SUBSET (0 .. n)
        BY <2>2
      <4> QED
        BY <3>1, <4>1, MaxOf
    <3>2. \A u \in SUBSET (1 .. n) : h[u] \in Nat
      BY <1>4
    <3>3. ASSUME t # {} PROVE Max(t) \in 1 .. n /\ h[t \ {Max(t)}] \in Nat
      BY <3>1, <3>2, <3>3
    <3> HIDE DEF F
    <3> QED
      BY <1>3, <3>3
  <2> HIDE DEF X, Y
  <2>3. h = [t \in SUBSET DOMAIN s |-> Y(t)]
    BY <1>2, <2>1, <2>2
  <2> QED
    BY <2>3 DEF Y
<1> HIDE DEF F
<1>6. Sol(it)
  <2> HIDE DEF Sol
  <2> QED
    BY <1>5
<1> HIDE DEF it
<1>7. /\ it[1 .. 0] = 1
      /\ \A k \in 1 .. n : it[1 .. k] = F(it[1 .. k - 1], s[k])
  <2> DEFINE Y(t) == IF t = {} THEN 1 ELSE F(it[t \ {Max(t)}], s[Max(t)])
  <2>1. it = [t \in SUBSET (1 .. n) |-> Y(t)]
    BY <1>2, <1>6
  <2> HIDE DEF Y
  <2>2. \A t \in SUBSET (1 .. n) : it[t] = Y(t)
    BY <2>1
  <2>3. it[1 .. 0] = 1
    BY <2>2, PrefixFacts DEF Y
  <2>4. ASSUME NEW k \in 1 .. n PROVE it[1 .. k] = F(it[1 .. k - 1], s[k])
    <3>1. Max(1 .. k) = k
      BY PrefixFacts
    <3>2. (1 .. k) \ {k} = 1 .. k - 1 /\ 1 .. k # {} /\ 1 .. k \in SUBSET (1 .. n)
      BY PrefixFacts
    <3>3. it[1 .. k] = Y(1 .. k)
      BY <2>2, <3>2
    <3> QED
      BY <3>1, <3>2, <3>3 DEF Y
  <2> QED
    BY <2>3, <2>4
<1> HIDE DEF Sol
<1> DEFINE r == [k \in 0 .. n |-> it[1 .. k]]
           D == {k \in Nat : k <= n => it[1 .. k] \in Nat}
<1>8. \A k \in 0 .. n : it[1 .. k] \in Nat
  <2>1. 0 \in D
    BY <1>7
  <2>2. ASSUME NEW j \in 0 .. n - 1, j \in D PROVE j + 1 \in D
    <3>1. it[1 .. j] \in Nat /\ j + 1 \in 1 .. n /\ (j + 1) - 1 = j
      BY <2>2
    <3>2. it[1 .. j + 1] = F(it[1 .. j], s[j + 1])
      BY <1>7, <3>1
    <3> QED
      BY <3>1, <3>2 DEF F
  <2> HIDE DEF D
  <2>3. \A j \in 0 .. n : j \in D
    BY <2>1, <2>2, Upwards
  <2> QED
    BY <2>3 DEF D
<1>9. r \in [0 .. n -> Nat] /\ r[0] = 1 /\ r[n] = it[1 .. n]
  BY <1>7, <1>8
<1>10. ASSUME NEW k \in 1 .. n PROVE r[k] = r[k - 1] * s[k]
  <2>1. r[k] = it[1 .. k] /\ r[k - 1] = it[1 .. k - 1]
    OBVIOUS
  <2> HIDE DEF r
  <2> QED
    BY <1>7, <2>1 DEF F
<1> HIDE DEF r
<1>11. Products(r, s, n)
  BY <1>2, <1>9, <1>10 DEF Products
<1>12. \E q : Products(q, s, n) /\ T = q[n]
  BY <1>1, <1>2, <1>9, <1>11
<1> QED
  BY <1>12 DEF T

(* The product of two sequences one after the other.                        *)
LEMMA ProductsConcat ==
  ASSUME NEW u \in Seq(Nat), NEW v \in Seq(Nat),
         NEW r, Products(r, u, Len(u)), NEW q, Products(q, v, Len(v)),
         NEW p, Products(p, u \o v, Len(u) + Len(v))
  PROVE  p[Len(u) + Len(v)] = r[Len(u)] * q[Len(v)]
<1> DEFINE m == Len(u)
           k == Len(v)
           s == u \o v
<1>1. m \in Nat /\ k \in Nat
  OBVIOUS
<1>2. /\ \A i \in 1 .. m : u[i] \in Nat /\ s[i] = u[i]
      /\ \A i \in 1 .. k : v[i] \in Nat /\ s[m + i] = v[i]
  <2>1. \A i \in 1 .. m : i <= m /\ i \in 1 .. m + k
    BY <1>1
  <2>2. \A i \in 1 .. k : m + i \in 1 .. m + k /\ ~ (m + i <= m) /\ (m + i) - m = i
    BY <1>1
  <2> QED
    BY <2>1, <2>2, ElementOfSeq
<1> HIDE DEF s
<1>3. Products(p, s, m + k) /\ Products(r, u, m) /\ Products(q, v, k)
  BY DEF s
<1> HIDE DEF m, k
<1> DEFINE D == {j \in Nat : j <= m => p[j] = r[j]}
<1>4. \A j \in 0 .. m : j \in D
  <2>1. 0 \in D
    BY <1>3 DEF Products
  <2>2. ASSUME NEW j \in 0 .. m - 1, j \in D PROVE j + 1 \in D
    <3>1. /\ j + 1 \in 1 .. m /\ j + 1 \in 1 .. m + k /\ (j + 1) - 1 = j
          /\ p[j] = r[j] /\ j + 1 \in Nat
      BY <1>1, <2>2
    <3>2. p[j + 1] = p[j] * s[j + 1] /\ r[j + 1] = r[j] * u[j + 1]
      BY <1>3, <3>1 DEF Products
    <3> QED
      BY <1>2, <3>1, <3>2
  <2> HIDE DEF D
  <2> QED
    BY <1>1, <2>1, <2>2, Upwards
<1>5. p[m] = r[m]
  BY <1>1, <1>4
<1> DEFINE E == {j \in Nat : j <= k => p[m + j] = r[m] * q[j]}
<1>6. r[m] \in Nat /\ \A j \in 0 .. k : q[j] \in Nat
  BY <1>1, <1>3 DEF Products
<1>7. \A x, y, z \in Nat : (x * y) * z = x * (y * z)
  OBVIOUS
<1>8. \A j \in 0 .. k : j \in E
  <2>1. 0 \in E
    <3>1. q[0] = 1 /\ m + 0 = m /\ r[m] * 1 = r[m]
      BY <1>1, <1>3, <1>6 DEF Products
    <3> QED
      BY <1>5, <3>1
  <2>2. ASSUME NEW j \in 0 .. k - 1, j \in E PROVE j + 1 \in E
    <3>1. /\ j + 1 \in 1 .. k /\ m + (j + 1) \in 1 .. m + k /\ (j + 1) - 1 = j
          /\ (m + (j + 1)) - 1 = m + j /\ j \in 0 .. k
          /\ p[m + j] = r[m] * q[j] /\ j + 1 \in Nat
      BY <1>1, <2>2
    <3>2. /\ p[m + (j + 1)] = p[m + j] * s[m + (j + 1)]
          /\ q[j + 1] = q[j] * v[j + 1]
      BY <1>3, <3>1 DEF Products
    <3>3. s[m + (j + 1)] = v[j + 1] /\ v[j + 1] \in Nat /\ q[j] \in Nat
      BY <1>2, <1>6, <3>1
    <3>4. (r[m] * q[j]) * v[j + 1] = r[m] * (q[j] * v[j + 1])
      BY <1>6, <1>7, <3>3
    <3> QED
      BY <3>1, <3>2, <3>3, <3>4
  <2> HIDE DEF E
  <2> QED
    BY <1>1, <2>1, <2>2, Upwards
<1>9. k \in E
  BY <1>1, <1>8
<1> QED
  BY <1>1, <1>9 DEF m, k

=============================================================================

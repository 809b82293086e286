-------------------------- MODULE InterconnectProofs --------------------------
(***************************************************************************)
(* Proofs about Interconnect, for all units, pools, parts and requests.    *)
(* UnitsBalance speaks of the moments between two calls only; within a     *)
(* call the parts in hand count too, and putting one of them back must not *)
(* free what another part or another request holds.  The inductive         *)
(* invariant IInv says that all of them are apart from each other; for the *)
(* bytes PoolsOK adds what the call in progress has drawn (InCall).  Lists *)
(* that name a part twice are included: what their rollback leaves taken   *)
(* is at positions that are Exposed (lemma UndoFacts).                     *)
(***************************************************************************)
EXTENDS Interconnect, SequenceFacts

Part(r, i) == UnitsOf(r.parts[i])

(* A unit is in the hands of someone. *)
Taken(u) ==
  \/ \E r \in granted : u \in UnitsNeeded(r)
  \/ \E i \in InHand : u \in Part(req, i)

(* No such unit is free; all others are, but for those a rollback may leave. *)
FreeOK ==
  \A u \in Units : /\ u \in free => ~ Taken(u)
                   /\ u \notin free => Taken(u) \/ u \in UnitsExposed

(* The parts of a request at the positions S share no unit. *)
Apart(r, S) == \A i, j \in S : i # j => Part(r, i) \cap Part(r, j) = {}

ApartOK ==
  /\ \A q, r \in granted : q # r => UnitsNeeded(q) \cap UnitsNeeded(r) = {}
  /\ \A r \in granted : Apart(r, DOMAIN r.parts)
  /\ Apart(req, InHand)
  /\ \A r \in granted, i \in InHand : UnitsNeeded(r) \cap Part(req, i) = {}
  /\ mode = "take" => req \notin granted

IInv == TypeOK /\ FreeOK /\ ApartOK

-----------------------------------------------------------------------------
(* What the assumption on the hardware says of one request. *)
LEMMA RequestFacts ==
  ASSUME NEW r \in Requests
  PROVE  /\ Len(r.parts) \in Nat \ {0} /\ DOMAIN r.parts = 1 .. Len(r.parts)
         /\ r.bytes \in Nat /\ r # NoRequest
         /\ \A i \in DOMAIN r.parts :
              /\ r.parts[i] \in DOMAIN Parts
              /\ Part(r, i) \subseteq Units
              /\ Part(r, i) \subseteq UnitsNeeded(r)
         /\ \A u \in UnitsNeeded(r) : \E i \in DOMAIN r.parts : u \in Part(r, i)
<1>1. r.parts \in Seq(DOMAIN Parts) /\ r.parts # <<>> /\ r.bytes \in Nat
  BY HardwareAssumption DEF RequestOK
<1>2. Len(r.parts) \in Nat \ {0} /\ DOMAIN r.parts = 1 .. Len(r.parts)
  BY <1>1
<1>3. ASSUME NEW i \in DOMAIN r.parts
      PROVE  r.parts[i] \in DOMAIN Parts /\ Part(r, i) \subseteq Units
  <2>1. r.parts[i] \in DOMAIN Parts
    BY <1>1
  <2>2. Parts[r.parts[i]].units \in Seq(Units)
    BY <2>1, HardwareAssumption DEF PartOK
  <2> QED
    BY <2>1, <2>2 DEF Part, UnitsOf
<1>4. r # NoRequest
  BY HardwareAssumption
<1> QED
  BY <1>1, <1>2, <1>3, <1>4 DEF Part, UnitsNeeded

(* What is at an exposed position counts as exposed. *)
LEMMA ExposedFacts ==
  ASSUME NEW r \in Requests, NEW i \in Exposed(r)
  PROVE  /\ i \in DOMAIN r.parts
         /\ Part(r, i) \subseteq UnitsExposed
         /\ Parts[r.parts[i]].pool \in PoolsExposed
BY DEF Exposed, UnitsExposed, PoolsExposed, Part

(* A rollback puts back what the call has taken, but for exposed positions. *)
LEMMA UndoFacts ==
  ASSUME NEW r \in Requests, NEW k \in DOMAIN r.parts
  PROVE  /\ UndoTo(r, k) \in 0 .. k - 1
         /\ \A i \in 1 .. k - 1 : i > UndoTo(r, k) => i \in Exposed(r)
<1> DEFINE S == {j \in 1 .. k : r.parts[j] = r.parts[k] /\ SameList(r, j, k)}
<1>1. k \in 1 .. Len(r.parts) /\ Len(r.parts) \in Nat /\ DOMAIN r.parts = 1 .. Len(r.parts)
  BY RequestFacts
<1>2. k \in S
  BY <1>1 DEF SameList
<1>3. S \subseteq 1 .. k
  OBVIOUS
<1>4. Min(S) \in S
  <2>1. S \in SUBSET Nat /\ S # {}
    BY <1>1, <1>2
  <2> HIDE DEF S
  <2> QED
    BY <2>1, MinOf
<1>5. UndoTo(r, k) = Min(S) - 1
  BY DEF UndoTo
<1>6. PICK m \in 1 .. k : m = Min(S) /\ r.parts[m] = r.parts[k] /\ SameList(r, m, k)
  BY <1>4
<1> HIDE DEF S
<1>7. ASSUME NEW i \in 1 .. k - 1, i > UndoTo(r, k) PROVE i \in Exposed(r)
  <2>1. m <= i /\ i < k /\ i \in DOMAIN r.parts /\ m \in DOMAIN r.parts
    BY <1>1, <1>5, <1>6, <1>7
  <2> QED
    BY <1>6, <2>1 DEF Exposed
<1>8. UndoTo(r, k) \in 0 .. k - 1
  BY <1>1, <1>5, <1>6
<1> QED
  BY <1>7, <1>8

-----------------------------------------------------------------------------
(* Types: consume and release keep a capacity between nothing and all. *)
LEMMA ConsumedType ==
  ASSUME TypeOK, NEW c, NEW b \in Nat, CanConsume(c, b)
  PROVE  /\ Consumed(c, b) \in [Pools -> Nat]
         /\ \A q \in Pools : Consumed(c, b)[q] <= Total[q]
<1>1. \A q \in Pools : avail[q] \in Nat /\ Total[q] \in Nat /\ avail[q] <= Total[q]
  BY HardwareAssumption DEF TypeOK
<1>2. \A q \in Pools : q = c => b <= avail[q]
  BY DEF CanConsume
<1> QED
  BY <1>1, <1>2 DEF Consumed

LEMMA CreditedType ==
  ASSUME TypeOK, NEW c, NEW b \in Nat
  PROVE  /\ Credited(c, b) \in [Pools -> Nat]
         /\ \A q \in Pools : Credited(c, b)[q] <= Total[q]
<1>1. \A q \in Pools : avail[q] \in Nat /\ Total[q] \in Nat /\ avail[q] <= Total[q]
  BY HardwareAssumption DEF TypeOK
<1> QED
  BY <1>1 DEF Credited

LEMMA TypeInv == TypeOK /\ [Next]_vars => TypeOK'
<1> SUFFICES ASSUME TypeOK, [Next]_vars PROVE TypeOK'
  OBVIOUS
<1>1. ASSUME NEW r \in Requests, Acquire(r) PROVE TypeOK'
  BY <1>1, RequestFacts DEF Acquire, TypeOK
<1>2. ASSUME NEW r \in Requests, Refuse(r) PROVE TypeOK'
  BY <1>2 DEF Refuse, TypeOK, vars
<1>3. ASSUME NEW r \in Requests, Release(r) PROVE TypeOK'
  BY <1>3, RequestFacts DEF Release, TypeOK
<1>4. ASSUME Take PROVE TypeOK'
  <2>1. req \in Requests /\ pos \in DOMAIN req.parts /\ last = Len(req.parts)
    BY <1>4 DEF Take, TypeOK
  <2>2. req.bytes \in Nat /\ DOMAIN req.parts = 1 .. Len(req.parts) /\ Len(req.parts) \in Nat
    BY <2>1, RequestFacts
  <2>3. avail' \in [Pools -> Nat] /\ \A q \in Pools : avail'[q] <= Total[q]
    BY <1>4, <2>2, ConsumedType DEF Take, Obtainable, Available
  <2>4. CASE pos < last
    BY <1>4, <2>1, <2>2, <2>3, <2>4 DEF Take, TypeOK
  <2>5. CASE ~ pos < last
    BY <1>4, <2>1, <2>3, <2>5 DEF Take, TypeOK
  <2> QED
    BY <2>4, <2>5
<1>5. ASSUME Fail PROVE TypeOK'
  <2>1. req \in Requests /\ pos \in DOMAIN req.parts
    BY <1>5 DEF Fail, TypeOK
  <2>2. DOMAIN req.parts = 1 .. Len(req.parts) /\ Len(req.parts) \in Nat
    BY <2>1, RequestFacts
  <2>3. last' \in 0 .. pos - 1
    BY <1>5, <2>1, UndoFacts DEF Fail
  <2> QED
    BY <1>5, <2>1, <2>2, <2>3 DEF Fail, TypeOK
<1>6. ASSUME Put PROVE TypeOK'
  <2>1. req \in Requests /\ last \in 0 .. Len(req.parts) /\ pos \in 1 .. last + 1
    BY <1>6 DEF Put, TypeOK
  <2>2. DOMAIN req.parts = 1 .. Len(req.parts) /\ Len(req.parts) \in Nat /\ req.bytes \in Nat
    BY <2>1, RequestFacts
  <2>3. avail' \in [Pools -> Nat] /\ \A q \in Pools : avail'[q] <= Total[q]
    BY <1>6, <2>2, CreditedType DEF Put, PutBack
  <2>4. pos \in DOMAIN req.parts
    BY <1>6, <2>1, <2>2 DEF Put
  <2>5. free' \subseteq Units
    BY <1>6, <2>1, <2>4, RequestFacts DEF Put, PutBack, TypeOK, Part
  <2> QED
    BY <1>6, <2>1, <2>2, <2>3, <2>5 DEF Put, TypeOK
<1>7. ASSUME Return PROVE TypeOK'
  BY <1>7 DEF Return, TypeOK
<1>8. ASSUME UNCHANGED vars PROVE TypeOK'
  BY <1>8 DEF vars, TypeOK
<1> QED
  BY <1>1, <1>2, <1>3, <1>4, <1>5, <1>6, <1>7, <1>8 DEF Next

-----------------------------------------------------------------------------
(* Who holds what, action by action. *)
LEMMA InitInv == Init => IInv
<1> SUFFICES ASSUME Init PROVE IInv
  OBVIOUS
<1>1. TypeOK
  BY HardwareAssumption DEF Init, TypeOK
<1>2. InHand = {}
  BY DEF Init, InHand
<1>3. FreeOK
  BY <1>2 DEF Init, FreeOK, Taken
<1>4. ApartOK
  BY <1>2 DEF Init, ApartOK, Apart
<1> QED
  BY <1>1, <1>3, <1>4 DEF IInv

LEMMA AcquireInv ==
  ASSUME IInv, NEW r \in Requests, Acquire(r)
  PROVE  FreeOK' /\ ApartOK'
<1>1. InHand = {} /\ InHand' = {}
  BY DEF Acquire, InHand
<1>2. granted' = granted /\ free' = free /\ req' = r /\ r \notin granted
  BY DEF Acquire
<1>3. FreeOK'
  BY <1>1, <1>2 DEF IInv, FreeOK, Taken
<1>4. ApartOK'
  BY <1>1, <1>2 DEF IInv, ApartOK, Apart
<1> QED
  BY <1>3, <1>4

LEMMA TakeInv ==
  ASSUME IInv, Take
  PROVE  FreeOK' /\ ApartOK'
<1> DEFINE P == Part(req, pos)
<1>1. /\ req \in Requests /\ pos \in DOMAIN req.parts /\ last = Len(req.parts)
      /\ mode = "take" /\ req \notin granted /\ granted \subseteq Requests
  BY DEF Take, IInv, TypeOK, ApartOK
<1>2. /\ DOMAIN req.parts = 1 .. last /\ last \in Nat \ {0}
      /\ P \subseteq UnitsNeeded(req)
      /\ \A i \in DOMAIN req.parts : Part(req, i) \subseteq UnitsNeeded(req)
      /\ \A u \in UnitsNeeded(req) : \E i \in DOMAIN req.parts : u \in Part(req, i)
  BY <1>1, RequestFacts
<1>3. P \subseteq free /\ free' = free \ P /\ free \subseteq Units
  BY DEF Take, Obtainable, Available, Part, IInv, TypeOK
<1>4. InHand = 1 .. pos - 1
  BY <1>1 DEF InHand
<1>5. /\ \A q \in granted : UnitsNeeded(q) \cap P = {}
      /\ \A i \in InHand : Part(req, i) \cap P = {}
  BY <1>3 DEF IInv, FreeOK, Taken
<1>6. Apart(req, 1 .. pos)
  BY <1>1, <1>2, <1>4, <1>5 DEF IInv, ApartOK, Apart
<1>7. \A q \in granted, i \in 1 .. pos : UnitsNeeded(q) \cap Part(req, i) = {}
  BY <1>1, <1>2, <1>4, <1>5 DEF IInv, ApartOK
<1> DEFINE TakenNow(u) == \/ \E q \in granted : u \in UnitsNeeded(q)
                          \/ \E i \in 1 .. pos : u \in Part(req, i)
<1>8. \A u \in Units : /\ u \in free' => ~ TakenNow(u)
                       /\ u \notin free' => TakenNow(u) \/ u \in UnitsExposed
  BY <1>1, <1>2, <1>3, <1>4 DEF IInv, FreeOK, Taken
<1>9. CASE pos < last
  <2>1. req' = req /\ granted' = granted /\ InHand' = 1 .. pos
    BY <1>1, <1>2, <1>9 DEF Take, InHand
  <2>2. FreeOK'
    BY <1>8, <2>1 DEF FreeOK, Taken
  <2>3. ApartOK'
    BY <1>1, <1>6, <1>7, <2>1 DEF IInv, ApartOK, Apart
  <2> QED
    BY <2>2, <2>3
<1>10. CASE ~ pos < last
  <2>1. granted' = granted \cup {req} /\ InHand' = {} /\ mode' = "idle"
    BY <1>10 DEF Take, InHand
  <2>2. pos = last
    BY <1>1, <1>2, <1>10
  <2>3. \A q \in granted : UnitsNeeded(q) \cap UnitsNeeded(req) = {}
    BY <1>2, <1>7, <2>2
  <2>4. FreeOK'
    BY <1>2, <1>8, <2>1, <2>2 DEF FreeOK, Taken
  <2>5. ApartOK'
    BY <1>2, <1>6, <2>1, <2>2, <2>3 DEF IInv, ApartOK, Apart
  <2> QED
    BY <2>4, <2>5
<1> QED
  BY <1>9, <1>10

LEMMA FailInv ==
  ASSUME IInv, Fail
  PROVE  FreeOK' /\ ApartOK'
<1>1. /\ req \in Requests /\ pos \in DOMAIN req.parts /\ mode = "take"
      /\ DOMAIN req.parts = 1 .. Len(req.parts) /\ Len(req.parts) \in Nat
  BY RequestFacts DEF Fail, IInv, TypeOK
<1>2. /\ last' \in 0 .. pos - 1
      /\ \A i \in 1 .. pos - 1 : i > last' => i \in Exposed(req)
  BY <1>1, UndoFacts DEF Fail
<1>3. InHand = 1 .. pos - 1 /\ InHand' = 1 .. last' /\ mode' = "undo"
  BY <1>1 DEF Fail, InHand
<1>4. UNCHANGED <<free, granted, req>>
  BY DEF Fail
<1>5. InHand' \subseteq InHand /\ \A i \in InHand \ InHand' : i \in Exposed(req)
  BY <1>1, <1>2, <1>3
<1>6. \A i \in InHand \ InHand' : Part(req, i) \subseteq UnitsExposed
  BY <1>1, <1>5, ExposedFacts
<1>7. FreeOK'
  BY <1>4, <1>5, <1>6 DEF IInv, FreeOK, Taken
<1>8. ApartOK'
  BY <1>3, <1>4, <1>5 DEF IInv, ApartOK, Apart
<1> QED
  BY <1>7, <1>8

LEMMA ReleaseInv ==
  ASSUME IInv, NEW r \in Requests, Release(r)
  PROVE  FreeOK' /\ ApartOK'
<1>1. InHand = {} /\ InHand' = DOMAIN r.parts
  BY RequestFacts DEF Release, InHand
<1>2. /\ r \in granted /\ granted' = granted \ {r} /\ req' = r /\ free' = free
      /\ mode' = "give"
  BY DEF Release
<1>3. /\ \A i \in DOMAIN r.parts : Part(r, i) \subseteq UnitsNeeded(r)
      /\ \A u \in UnitsNeeded(r) : \E i \in DOMAIN r.parts : u \in Part(r, i)
  BY RequestFacts
<1>4. FreeOK'
  BY <1>1, <1>2, <1>3 DEF IInv, FreeOK, Taken
<1>5. ApartOK'
  BY <1>1, <1>2, <1>3 DEF IInv, ApartOK, Apart
<1> QED
  BY <1>4, <1>5

LEMMA PutInv ==
  ASSUME IInv, Put
  PROVE  FreeOK' /\ ApartOK'
<1> DEFINE P == Part(req, pos)
<1>1. /\ req \in Requests /\ mode \in {"undo", "give"}
      /\ last \in 0 .. Len(req.parts) /\ pos \in 1 .. last
      /\ Len(req.parts) \in Nat
  BY RequestFacts DEF Put, IInv, TypeOK
<1>2. /\ free' = free \cup P /\ pos' = pos + 1
      /\ UNCHANGED <<granted, req, mode, last>>
  BY DEF Put, PutBack, Part
<1>3. InHand = pos .. last /\ InHand' = pos + 1 .. last
  BY <1>1, <1>2 DEF InHand
<1>4. pos \in InHand /\ InHand' \subseteq InHand /\ InHand = InHand' \cup {pos}
      /\ pos \notin InHand'
  BY <1>1, <1>3
<1>5. /\ \A q \in granted : UnitsNeeded(q) \cap P = {}
      /\ \A i \in InHand' : Part(req, i) \cap P = {}
  BY <1>4 DEF IInv, ApartOK, Apart
<1>6. FreeOK'
  BY <1>2, <1>4, <1>5 DEF IInv, FreeOK, Taken
<1>7. ApartOK'
  BY <1>1, <1>2, <1>4 DEF IInv, ApartOK, Apart
<1> QED
  BY <1>6, <1>7

LEMMA ReturnInv ==
  ASSUME IInv, Return
  PROVE  FreeOK' /\ ApartOK'
<1>1. InHand = {} /\ InHand' = {}
  BY DEF Return, InHand, IInv, TypeOK
<1>2. UNCHANGED <<free, granted>> /\ mode' = "idle"
  BY DEF Return
<1>3. FreeOK'
  BY <1>1, <1>2 DEF IInv, FreeOK, Taken
<1>4. ApartOK'
  BY <1>1, <1>2 DEF IInv, ApartOK, Apart
<1> QED
  BY <1>3, <1>4

LEMMA NextInv == IInv /\ [Next]_vars => IInv'
<1> SUFFICES ASSUME IInv, [Next]_vars PROVE IInv'
  OBVIOUS
<1>1. TypeOK'
  BY TypeInv DEF IInv
<1>2. ASSUME NEW r \in Requests, Acquire(r) PROVE FreeOK' /\ ApartOK'
  BY <1>2, AcquireInv
<1>3. ASSUME NEW r \in Requests, Release(r) PROVE FreeOK' /\ ApartOK'
  BY <1>3, ReleaseInv
<1>4. ASSUME UNCHANGED vars PROVE FreeOK' /\ ApartOK'
  <2>1. InHand' = InHand /\ UNCHANGED <<free, granted, req, mode>>
    BY <1>4 DEF vars, InHand
  <2> QED
    BY <2>1 DEF IInv, FreeOK, Taken, ApartOK, Apart
<1>5. ASSUME NEW r \in Requests, Refuse(r) PROVE FreeOK' /\ ApartOK'
  BY <1>4, <1>5 DEF Refuse
<1> QED
  BY <1>1, <1>2, <1>3, <1>4, <1>5, TakeInv, FailInv, PutInv, ReturnInv DEF Next, IInv

THEOREM InvariantHolds == Spec => []IInv
BY InitInv, NextInv, PTL DEF Spec

-----------------------------------------------------------------------------
(* The state is well-typed; in particular no capacity is ever overdrawn or  *)
(* credited beyond its size (MemoryCapacity::consume and release).          *)
THEOREM TypeCorrect == Spec => []TypeOK
<1>1. IInv => TypeOK
  BY DEF IInv
<1> QED
  BY <1>1, InvariantHolds, PTL

(* Between two calls no unit of a request held is free, and no other unit   *)
(* is taken, unless a rollback may have left it so because a list names a   *)
(* part twice: no other acquire that fails half way and no release loses a  *)
(* link or a port, or frees one that somebody else holds.                   *)
THEOREM NothingIsLost == Spec => []UnitsBalance
<1>1. IInv => UnitsBalance
  <2> SUFFICES ASSUME IInv, mode = "idle" PROVE UnitsBalance
    BY DEF UnitsBalance
  <2>1. InHand = {} /\ free \subseteq Units
    BY DEF InHand, IInv, TypeOK
  <2> QED
    BY <2>1 DEF IInv, FreeOK, Taken, UnitsBalance
<1> QED
  BY <1>1, InvariantHolds, PTL

(* The calls, taken part by part, implement Reservation, where a request is *)
(* granted or returned in one step.                                         *)
THEOREM AcquireIsAtomic == Spec => Reserves
<1>1. Init => Atomic!Init
  BY DEF Init, Atomic!Init
<1>2. IInv /\ [Next]_vars => [Atomic!Next]_granted
  <2> SUFFICES ASSUME IInv, [Next]_vars, granted' # granted PROVE Atomic!Next
    OBVIOUS
  <2>1. ASSUME NEW r \in Requests, Release(r) PROVE Atomic!Next
    BY <2>1 DEF Release, Atomic!Next, Atomic!Return
  <2>2. ASSUME Take PROVE Atomic!Next
    <3>1. req \in Requests /\ req \notin granted /\ granted \subseteq Requests
      BY <2>2 DEF Take, IInv, TypeOK, ApartOK
    <3>2. granted' = granted \cup {req}
      BY <2>2 DEF Take
    <3>3. \A q \in granted : UnitsNeeded(q) \cap UnitsNeeded(req) = {}
      BY <2>2, <3>1, <3>2, TakeInv DEF ApartOK
    <3>4. Atomic!Grant(req)
      BY <3>1, <3>2, <3>3 DEF Atomic!Grant, Atomic!Fits, Needs
    <3> QED
      BY <3>1, <3>4 DEF Atomic!Next
  <2> QED
    BY <2>1, <2>2 DEF Next, Acquire, Refuse, Fail, Put, Return, vars
<1> QED
  BY <1>1, <1>2, InvariantHolds, PTL DEF Spec, Reserves, Atomic!Spec

(* Two requests held at the same time never share a link or a port (the     *)
(* modules' acquire and release).                                           *)
THEOREM HoldersExclusive == Spec => []Atomic!Exclusive
<1>1. IInv => Atomic!Exclusive
  BY DEF IInv, TypeOK, ApartOK, Atomic!Exclusive, Needs
<1> QED
  BY <1>1, InvariantHolds, PTL

-----------------------------------------------------------------------------
(* Bytes. DrawnBy adds up what the requests held draw; as a fold it is the  *)
(* sum of these weights.                                                    *)
Weight(c) == [r \in Requests |-> Draw(r, DOMAIN r.parts, c)]

LEMMA DrawnIsSum ==
  ASSUME NEW G \in SUBSET Requests, IsFiniteSet(G), NEW c
  PROVE  IsSum(DrawnBy(G, c), Weight(c), G)
<1> DEFINE D(q) == Draw(q, DOMAIN q.parts, c)
           w == Weight(c)
           Sol(h) == h = [s \in SUBSET G |->
                            IF s = {} THEN 0
                            ELSE LET x == CHOOSE y \in s : TRUE IN D(x) + h[s \ {x}]]
           it == CHOOSE h : Sol(h)
<1>1. DrawnBy(G, c) = it[G]
  BY DEF DrawnBy, MapThenSumSet, MapThenFoldSet
<1>2. ASSUME NEW h PROVE Sol(h) <=> Sums(h, w, G)
  <2>1. \A s \in SUBSET G : s # {} => D(Picked(s)) = w[Picked(s)]
    BY DEF Weight, Picked
  <2> DEFINE F(s) == IF s = {} THEN 0 ELSE D(Picked(s)) + h[s \ {Picked(s)}]
             E(s) == IF s = {} THEN 0 ELSE w[Picked(s)] + h[s \ {Picked(s)}]
  <2> HIDE DEF D, w
  <2>2. [s \in SUBSET G |-> F(s)] = [s \in SUBSET G |-> E(s)]
    BY <2>1
  <2>3. Sol(h) <=> h = [s \in SUBSET G |-> F(s)]
    BY DEF Picked
  <2>4. Sums(h, w, G) <=> h = [s \in SUBSET G |-> E(s)]
    BY DEF Sums
  <2> QED
    BY <2>2, <2>3, <2>4
<1>3. \E h : Sums(h, w, G)
  BY SumsExist
<1> HIDE DEF Sol, w
<1>4. \E h : Sol(h)
  BY <1>2, <1>3
<1>5. Sol(it)
  BY <1>4
<1> HIDE DEF it
<1>6. Sums(it, w, G)
  BY <1>2, <1>5
<1> QED
  BY <1>1, <1>6 DEF IsSum, w

(* What some of a request's parts draw, and one part more. *)
LEMMA DrawOfParts ==
  ASSUME NEW r \in Requests, NEW S \in SUBSET DOMAIN r.parts, NEW c
  PROVE  /\ IsFiniteSet({j \in S : Parts[r.parts[j]].pool = c})
         /\ Draw(r, S, c) \in Nat
<1> DEFINE P == {j \in S : Parts[r.parts[j]].pool = c}
<1>1. r.bytes \in Nat /\ DOMAIN r.parts = 1 .. Len(r.parts) /\ Len(r.parts) \in Nat
  BY RequestFacts
<1>2. IsFiniteSet(P) /\ Cardinality(P) \in Nat
  <2>1. IsFiniteSet(DOMAIN r.parts)
    BY <1>1, FS_Interval
  <2>2. P \in SUBSET DOMAIN r.parts
    OBVIOUS
  <2> HIDE DEF P
  <2> QED
    BY <2>1, <2>2, FS_Subset, FS_CardinalityType
<1>3. Draw(r, S, c) = r.bytes * Cardinality(P)
  BY DEF Draw
<1> HIDE DEF P
<1>4. r.bytes * Cardinality(P) \in Nat
  BY <1>1, <1>2
<1> QED
  BY <1>2, <1>3, <1>4 DEF P

LEMMA DrawOfOneMore ==
  ASSUME NEW r \in Requests, NEW S \in SUBSET DOMAIN r.parts, NEW i \in DOMAIN r.parts,
         i \notin S, NEW c
  PROVE  Draw(r, S \cup {i}, c)
           = Draw(r, S, c) + (IF Parts[r.parts[i]].pool = c THEN r.bytes ELSE 0)
<1> DEFINE P(T) == {j \in T : Parts[r.parts[j]].pool = c}
           b == r.bytes
           n == Cardinality(P(S))
<1>1. b \in Nat
  BY RequestFacts
<1>2. IsFiniteSet(P(S)) /\ n \in Nat
  BY DrawOfParts, FS_CardinalityType
<1>3. Cardinality(P(S \cup {i})) = IF Parts[r.parts[i]].pool = c THEN n + 1 ELSE n
  <2>1. CASE Parts[r.parts[i]].pool = c
    <3>1. P(S \cup {i}) = P(S) \cup {i} /\ i \notin P(S)
      BY <2>1
    <3> HIDE DEF P
    <3> QED
      BY <1>2, <2>1, <3>1, FS_AddElement
  <2>2. CASE Parts[r.parts[i]].pool # c
    <3>1. P(S \cup {i}) = P(S)
      BY <2>2
    <3> HIDE DEF P
    <3> QED
      BY <2>2, <3>1
  <2> QED
    BY <2>1, <2>2
<1>4. Draw(r, S, c) = b * n /\ Draw(r, S \cup {i}, c) = b * Cardinality(P(S \cup {i}))
  BY DEF Draw
<1> HIDE DEF P, n, b
<1>5. b * n \in Nat /\ b * (n + 1) = b * n + b
  BY <1>1, <1>2
<1> QED
  BY <1>1, <1>3, <1>4, <1>5 DEF b

(* Fewer parts draw no more, and as much if the others draw elsewhere. *)
LEMMA DrawOfFewer ==
  ASSUME NEW r \in Requests, NEW S \in SUBSET DOMAIN r.parts, NEW T \in SUBSET S, NEW c
  PROVE  /\ Draw(r, T, c) <= Draw(r, S, c)
         /\ \/ \E i \in S \ T : Parts[r.parts[i]].pool = c
            \/ Draw(r, T, c) = Draw(r, S, c)
<1> DEFINE P(Q) == {j \in Q : Parts[r.parts[j]].pool = c}
           b == r.bytes
<1>1. b \in Nat
  BY RequestFacts
<1>2. Draw(r, T, c) = b * Cardinality(P(T)) /\ Draw(r, S, c) = b * Cardinality(P(S))
  BY DEF Draw
<1>3. IsFiniteSet(P(S)) /\ P(T) \subseteq P(S)
  BY DrawOfParts
<1>4. (\E i \in S \ T : Parts[r.parts[i]].pool = c) \/ P(T) = P(S)
  OBVIOUS
<1> HIDE DEF P, b
<1>5. /\ Cardinality(P(T)) \in Nat /\ Cardinality(P(S)) \in Nat
      /\ Cardinality(P(T)) <= Cardinality(P(S))
  BY <1>3, FS_Subset, FS_CardinalityType
<1>6. ASSUME NEW m \in Nat, NEW n \in Nat, m <= n PROVE b * m <= b * n
  <2>1. PICK d \in Nat : n = m + d
    <3>1. n - m \in Nat /\ n = m + (n - m)
      BY <1>6
    <3> QED
      BY <3>1
  <2>2. b * (m + d) = b * m + b * d /\ b * m \in Nat /\ b * d \in Nat
    BY <1>1
  <2> QED
    BY <2>1, <2>2
<1> QED
  BY <1>2, <1>4, <1>5, <1>6

(* What the requests held draw, and one request more. *)
LEMMA DrawnInNat ==
  ASSUME NEW G \in SUBSET Requests, IsFiniteSet(G), NEW c
  PROVE  /\ Weight(c) \in [Requests -> Nat]
         /\ DrawnBy(G, c) \in Nat
<1>1. Weight(c) \in [Requests -> Nat]
  BY DrawOfParts DEF Weight
<1>2. PICK g : Sums(g, Weight(c), G) /\ DrawnBy(G, c) = g[G]
  BY DrawnIsSum DEF IsSum
<1>3. \A s \in SUBSET G : g[s] \in Nat
  BY <1>1, <1>2, SumsTakeOut
<1> QED
  BY <1>1, <1>2, <1>3

LEMMA DrawnByOneMore ==
  ASSUME NEW G \in SUBSET Requests, IsFiniteSet(G), NEW r \in Requests, r \notin G, NEW c
  PROVE  DrawnBy(G \cup {r}, c) = DrawnBy(G, c) + Draw(r, DOMAIN r.parts, c)
<1>1. IsFiniteSet(G \cup {r}) /\ G \cup {r} \in SUBSET Requests
  BY FS_AddElement
<1>2. IsSum(DrawnBy(G, c), Weight(c), G) /\ IsSum(DrawnBy(G \cup {r}, c), Weight(c), G \cup {r})
  BY <1>1, DrawnIsSum
<1>3. Weight(c) \in [Requests -> Nat]
  BY DrawnInNat
<1>4. DrawnBy(G \cup {r}, c) = DrawnBy(G, c) + Weight(c)[r]
  BY <1>2, <1>3, SumOfOneMore
<1> QED
  BY <1>4 DEF Weight

(* What the call in progress has in hand of pool c: the bytes that are      *)
(* missing besides those of the requests held.                              *)
InCall(c) == IF mode = "idle" THEN 0 ELSE Draw(req, InHand, c)

(* Of what should be left of a pool only a rollback may withhold some. *)
Balanced(a, rest, c) == a <= rest /\ (a < rest => c \in PoolsExposed)

PoolsOK ==
  /\ IsFiniteSet(granted)
  /\ \A c \in Pools : Balanced(avail[c], Total[c] - DrawnBy(granted, c) - InCall(c), c)

LEMMA PoolsTypes ==
  ASSUME TypeOK, IsFiniteSet(granted), NEW c \in Pools
  PROVE  /\ avail[c] \in Nat /\ Total[c] \in Nat
         /\ DrawnBy(granted, c) \in Nat
<1>1. avail[c] \in Nat /\ Total[c] \in Nat
  BY HardwareAssumption DEF TypeOK
<1> QED
  BY <1>1, DrawnInNat DEF TypeOK

(* Between two calls: a request begins to be taken, or to be given back. *)
LEMMA PoolsAcquire ==
  ASSUME TypeOK, PoolsOK, NEW r \in Requests, Acquire(r)
  PROVE  PoolsOK'
<1>1. InHand' = {} /\ mode' = "take" /\ req' = r /\ mode = "idle"
  BY DEF Acquire, InHand
<1>2. granted' = granted /\ avail' = avail
  BY DEF Acquire
<1>3. ASSUME NEW c \in Pools PROVE Draw(r, {}, c) = 0
  <2>1. {j \in {} : Parts[r.parts[j]].pool = c} = {}
    OBVIOUS
  <2> QED
    BY <2>1, FS_EmptySet, RequestFacts DEF Draw
<1>4. ASSUME NEW c \in Pools PROVE InCall(c)' = 0 /\ InCall(c) = 0
  BY <1>1, <1>3 DEF InCall
<1> QED
  BY <1>2, <1>4 DEF PoolsOK

LEMMA PoolsRelease ==
  ASSUME TypeOK, PoolsOK, NEW r \in Requests, Release(r)
  PROVE  PoolsOK'
<1>1. InHand' = DOMAIN r.parts /\ mode' = "give" /\ req' = r /\ mode = "idle"
  BY RequestFacts DEF Release, InHand
<1>2. r \in granted /\ granted' = granted \ {r} /\ avail' = avail
  BY DEF Release
<1>3. IsFiniteSet(granted') /\ granted' \in SUBSET Requests /\ granted = granted' \cup {r}
  BY <1>2, FS_RemoveElement DEF PoolsOK, TypeOK
<1>4. ASSUME NEW c \in Pools
      PROVE  Balanced(avail'[c], Total[c] - DrawnBy(granted', c) - InCall(c)', c)
  <2>1. InCall(c) = 0 /\ InCall(c)' = Draw(r, DOMAIN r.parts, c)
    BY <1>1 DEF InCall
  <2>2. DrawnBy(granted, c) = DrawnBy(granted', c) + Draw(r, DOMAIN r.parts, c)
    <3>1. PICK G \in SUBSET Requests : G = granted' /\ IsFiniteSet(G) /\ r \notin G
      BY <1>2, <1>3
    <3>2. DrawnBy(G \cup {r}, c) = DrawnBy(G, c) + Draw(r, DOMAIN r.parts, c)
      BY <3>1, DrawnByOneMore
    <3> QED
      BY <1>3, <3>1, <3>2
  <2>3. DrawnBy(granted', c) \in Nat /\ Draw(r, DOMAIN r.parts, c) \in Nat
    BY <1>3, DrawnInNat, DrawOfParts
  <2>4. /\ Balanced(avail[c], Total[c] - DrawnBy(granted, c) - InCall(c), c)
        /\ Total[c] \in Nat /\ avail[c] \in Nat
    BY PoolsTypes DEF PoolsOK
  <2> QED
    BY <1>2, <2>1, <2>2, <2>3, <2>4 DEF Balanced
<1> QED
  BY <1>3, <1>4 DEF PoolsOK

(* Part by part: what the call has in hand is what the pool has less. *)
LEMMA PoolsTake ==
  ASSUME IInv, PoolsOK, Take
  PROVE  PoolsOK'
<1>1. /\ req \in Requests /\ pos \in DOMAIN req.parts /\ last = Len(req.parts)
      /\ mode = "take" /\ req \notin granted /\ granted \subseteq Requests
  BY DEF Take, IInv, TypeOK, ApartOK
<1>2. DOMAIN req.parts = 1 .. last /\ last \in Nat \ {0} /\ req.bytes \in Nat
  BY <1>1, RequestFacts
<1>3. InHand = 1 .. pos - 1 /\ InHand \in SUBSET DOMAIN req.parts /\ pos \notin InHand
      /\ InHand \cup {pos} = 1 .. pos
  BY <1>1, <1>2 DEF InHand
<1> DEFINE own(c) == IF Parts[req.parts[pos]].pool = c THEN req.bytes ELSE 0
<1>4. ASSUME NEW c \in Pools
      PROVE  /\ Balanced(avail'[c], Total[c] - DrawnBy(granted, c) - Draw(req, 1 .. pos, c), c)
             /\ Draw(req, 1 .. pos, c) \in Nat
  <2>1. Balanced(avail[c], Total[c] - DrawnBy(granted, c) - Draw(req, InHand, c), c)
    BY <1>1 DEF PoolsOK, InCall
  <2>2. Draw(req, InHand \cup {pos}, c) = Draw(req, InHand, c) + own(c)
    <3>1. /\ req \in Requests /\ InHand \in SUBSET DOMAIN req.parts
          /\ pos \in DOMAIN req.parts /\ pos \notin InHand
      BY <1>1, <1>3
    <3> QED
      BY <3>1, DrawOfOneMore
  <2>3. Draw(req, InHand, c) \in Nat /\ Draw(req, InHand \cup {pos}, c) \in Nat
    <3>1. InHand \cup {pos} \in SUBSET DOMAIN req.parts
      BY <1>1, <1>3
    <3> QED
      BY <1>1, <1>3, <3>1, DrawOfParts
  <2>4. avail'[c] = avail[c] - own(c)
    <3>1. avail' = Consumed(Parts[req.parts[pos]].pool, req.bytes)
      BY DEF Take
    <3>2. avail[c] \in Nat
      BY DEF IInv, TypeOK
    <3> QED
      BY <3>1, <3>2 DEF Consumed
  <2>5. Total[c] \in Nat /\ avail[c] \in Nat /\ DrawnBy(granted, c) \in Nat /\ own(c) \in Nat
    BY <1>2, PoolsTypes DEF IInv, PoolsOK
  <2>6. Draw(req, 1 .. pos, c) = Draw(req, InHand, c) + own(c)
    BY <1>3, <2>2
  <2> HIDE DEF own
  <2> QED
    BY <2>1, <2>3, <2>4, <2>5, <2>6 DEF Balanced
<1>5. CASE pos < last
  <2>1. req' = req /\ granted' = granted /\ InHand' = 1 .. pos /\ mode' # "idle"
    BY <1>1, <1>2, <1>5 DEF Take, InHand
  <2>2. ASSUME NEW c \in Pools PROVE InCall(c)' = Draw(req, 1 .. pos, c)
    BY <2>1 DEF InCall
  <2> QED
    BY <1>4, <2>1, <2>2 DEF PoolsOK
<1>6. CASE ~ pos < last
  <2>1. granted' = granted \cup {req} /\ mode' = "idle"
    BY <1>6 DEF Take
  <2>2. 1 .. pos = DOMAIN req.parts
    BY <1>1, <1>2, <1>6
  <2>3. IsFiniteSet(granted) /\ IsFiniteSet(granted')
    BY <2>1, FS_AddElement DEF PoolsOK
  <2>4. ASSUME NEW c \in Pools
        PROVE  Balanced(avail'[c], Total[c] - DrawnBy(granted', c) - InCall(c)', c)
    <3>1. DrawnBy(granted', c) = DrawnBy(granted, c) + Draw(req, 1 .. pos, c)
      BY <1>1, <2>1, <2>2, <2>3, DrawnByOneMore
    <3>2. InCall(c)' = 0
      BY <2>1 DEF InCall
    <3>3. DrawnBy(granted, c) \in Nat /\ Total[c] \in Nat
      BY PoolsTypes DEF IInv, PoolsOK
    <3>4. Total[c] - DrawnBy(granted', c) - InCall(c)'
            = Total[c] - DrawnBy(granted, c) - Draw(req, 1 .. pos, c)
      BY <1>4, <3>1, <3>2, <3>3
    <3> QED
      BY <1>4, <3>4
  <2> QED
    BY <2>3, <2>4 DEF PoolsOK
<1> QED
  BY <1>5, <1>6

(* What a rollback leaves taken is missing only from exposed pools. *)
LEMMA PoolsFail ==
  ASSUME IInv, PoolsOK, Fail
  PROVE  PoolsOK'
<1>1. /\ req \in Requests /\ pos \in DOMAIN req.parts /\ mode = "take"
      /\ DOMAIN req.parts = 1 .. Len(req.parts) /\ Len(req.parts) \in Nat
  BY RequestFacts DEF Fail, IInv, TypeOK
<1>2. /\ last' \in 0 .. pos - 1
      /\ \A i \in 1 .. pos - 1 : i > last' => i \in Exposed(req)
  BY <1>1, UndoFacts DEF Fail
<1>3. InHand = 1 .. pos - 1 /\ InHand' = 1 .. last' /\ mode' = "undo"
  BY <1>1 DEF Fail, InHand
<1>4. UNCHANGED <<avail, granted, req>>
  BY DEF Fail
<1>5. /\ InHand \in SUBSET DOMAIN req.parts /\ InHand' \in SUBSET InHand
      /\ \A i \in InHand \ InHand' : i \in Exposed(req)
  BY <1>1, <1>2, <1>3
<1>6. ASSUME NEW c \in Pools
      PROVE  Balanced(avail[c], Total[c] - DrawnBy(granted, c) - Draw(req, InHand', c), c)
  <2>1. /\ Draw(req, InHand', c) \in Nat /\ Draw(req, InHand, c) \in Nat
        /\ Draw(req, InHand', c) <= Draw(req, InHand, c)
        /\ \/ \E i \in InHand \ InHand' : Parts[req.parts[i]].pool = c
           \/ Draw(req, InHand', c) = Draw(req, InHand, c)
    <3>1. PICK S \in SUBSET DOMAIN req.parts : S = InHand
      BY <1>5
    <3>2. PICK T \in SUBSET S : T = InHand'
      BY <1>5, <3>1
    <3>3. Draw(req, T, c) \in Nat /\ Draw(req, S, c) \in Nat
      BY <1>1, DrawOfParts
    <3>4. /\ Draw(req, T, c) <= Draw(req, S, c)
          /\ \/ \E i \in S \ T : Parts[req.parts[i]].pool = c
             \/ Draw(req, T, c) = Draw(req, S, c)
      BY <1>1, DrawOfFewer
    <3> QED
      BY <3>1, <3>2, <3>3, <3>4
  <2>2. c \in PoolsExposed \/ Draw(req, InHand', c) = Draw(req, InHand, c)
    BY <1>1, <1>5, <2>1, ExposedFacts
  <2>3. Balanced(avail[c], Total[c] - DrawnBy(granted, c) - Draw(req, InHand, c), c)
    BY <1>1 DEF PoolsOK, InCall
  <2>4. Total[c] \in Nat /\ avail[c] \in Nat /\ DrawnBy(granted, c) \in Nat
    BY PoolsTypes DEF IInv, PoolsOK
  <2> QED
    BY <2>1, <2>2, <2>3, <2>4 DEF Balanced
<1>7. ASSUME NEW c \in Pools PROVE InCall(c)' = Draw(req, InHand', c)
  BY <1>3, <1>4 DEF InCall
<1> QED
  BY <1>4, <1>6, <1>7 DEF PoolsOK

(* The capacity never refuses the credit: what is put back was drawn. *)
LEMMA PoolsPut ==
  ASSUME IInv, PoolsOK, Put
  PROVE  PoolsOK'
<1>1. /\ req \in Requests /\ mode \in {"undo", "give"} /\ last \in 0 .. Len(req.parts)
      /\ pos \in 1 .. last /\ Len(req.parts) \in Nat /\ req.bytes \in Nat
      /\ DOMAIN req.parts = 1 .. Len(req.parts)
  BY RequestFacts DEF Put, IInv, TypeOK
<1>2. /\ avail' = Credited(Parts[req.parts[pos]].pool, req.bytes) /\ pos' = pos + 1
      /\ UNCHANGED <<granted, req, mode, last>>
  BY DEF Put, PutBack
<1>3. InHand = pos .. last /\ InHand' = pos + 1 .. last
  BY <1>1, <1>2 DEF InHand
<1> DEFINE rest == pos + 1 .. last
           own(c) == IF Parts[req.parts[pos]].pool = c THEN req.bytes ELSE 0
<1>4. /\ rest \in SUBSET DOMAIN req.parts /\ pos \in DOMAIN req.parts
      /\ pos \notin rest /\ rest \cup {pos} = InHand
  BY <1>1, <1>3
<1> HIDE DEF rest
<1>5. ASSUME NEW c \in Pools
      PROVE  Balanced(avail'[c], Total[c] - DrawnBy(granted', c) - InCall(c)', c)
  <2>1. Balanced(avail[c], Total[c] - DrawnBy(granted, c) - Draw(req, InHand, c), c)
    BY <1>1 DEF PoolsOK, InCall
  <2>2. InCall(c)' = Draw(req, rest, c)
    BY <1>1, <1>2, <1>3 DEF InCall, rest
  <2>3. Draw(req, InHand, c) = Draw(req, rest, c) + own(c) /\ Draw(req, rest, c) \in Nat
    <3>1. Draw(req, rest \cup {pos}, c) = Draw(req, rest, c) + own(c)
      BY <1>1, <1>4, DrawOfOneMore
    <3>2. Draw(req, rest, c) \in Nat
      BY <1>1, <1>4, DrawOfParts
    <3> QED
      BY <1>4, <3>1, <3>2
  <2>4. Total[c] \in Nat /\ avail[c] \in Nat /\ DrawnBy(granted, c) \in Nat /\ own(c) \in Nat
    BY <1>1, PoolsTypes DEF IInv, PoolsOK
  <2>5. own(c) <= Total[c] - avail[c]
    <3> HIDE DEF own
    <3> QED
      BY <2>1, <2>3, <2>4 DEF Balanced
  <2>6. avail'[c] = avail[c] + own(c)
    BY <1>2, <2>4, <2>5 DEF Credited
  <2> HIDE DEF own
  <2> QED
    BY <1>2, <2>1, <2>2, <2>3, <2>4, <2>6 DEF Balanced
<1> QED
  BY <1>2, <1>5 DEF PoolsOK

LEMMA PoolsReturn ==
  ASSUME IInv, PoolsOK, Return
  PROVE  PoolsOK'
<1>1. req \in Requests /\ mode # "idle" /\ InHand = {}
  BY DEF Return, IInv, TypeOK, InHand
<1>2. UNCHANGED <<avail, granted>> /\ mode' = "idle"
  BY DEF Return
<1>3. ASSUME NEW c \in Pools PROVE InCall(c) = 0
  <2>1. {j \in {} : Parts[req.parts[j]].pool = c} = {}
    OBVIOUS
  <2> QED
    BY <1>1, <2>1, FS_EmptySet, RequestFacts DEF InCall, Draw
<1> QED
  BY <1>2, <1>3 DEF PoolsOK, InCall

(* What is left of every pool, between two calls and within one. *)
LEMMA PoolsInv == Spec => []PoolsOK
<1>1. Init => PoolsOK
  <2> SUFFICES ASSUME Init PROVE PoolsOK
    OBVIOUS
  <2>1. granted = {} /\ avail = Total /\ mode = "idle" /\ IsFiniteSet(granted)
    BY FS_EmptySet DEF Init
  <2>2. ASSUME NEW c \in Pools PROVE DrawnBy({}, c) = 0
    BY <2>1, DrawnIsSum, SumOfNone
  <2>3. \A c \in Pools : Total[c] \in Nat
    BY HardwareAssumption
  <2> QED
    BY <2>1, <2>2, <2>3 DEF PoolsOK, InCall, Balanced
<1>2. IInv /\ PoolsOK /\ [Next]_vars => PoolsOK'
  <2> SUFFICES ASSUME IInv, PoolsOK, [Next]_vars PROVE PoolsOK'
    OBVIOUS
  <2>1. ASSUME UNCHANGED vars PROVE PoolsOK'
    BY <2>1 DEF vars, PoolsOK, InCall, InHand
  <2>2. ASSUME NEW r \in Requests, Refuse(r) PROVE PoolsOK'
    BY <2>1, <2>2 DEF Refuse
  <2>3. TypeOK
    BY DEF IInv
  <2> QED
    BY <2>1, <2>2, <2>3, PoolsAcquire, PoolsRelease, PoolsTake, PoolsFail, PoolsPut, PoolsReturn DEF Next
<1> QED
  BY <1>1, <1>2, InvariantHolds, PTL DEF Spec

(* Between two calls no pool has more than the requests held leave of it,   *)
(* nor less, unless it is a pool from which a list that names a part twice  *)
(* draws: no other rollback loses bytes, and no capacity refuses a credit   *)
(* that releaseTransfer does not look at.                                   *)
THEOREM NoBytesLost == Spec => []PoolsBalance
<1>1. PoolsOK /\ IInv => PoolsBalance
  <2> SUFFICES ASSUME PoolsOK, IInv, mode = "idle", NEW c \in Pools
               PROVE  Balanced(avail[c], Total[c] - DrawnBy(granted, c), c)
    BY DEF PoolsBalance, Balanced
  <2>1. Balanced(avail[c], Total[c] - DrawnBy(granted, c) - 0, c)
    BY DEF PoolsOK, InCall
  <2>2. Total[c] \in Nat /\ DrawnBy(granted, c) \in Nat
    BY PoolsTypes DEF IInv, PoolsOK
  <2> QED
    BY <2>1, <2>2
<1> QED
  BY <1>1, PoolsInv, InvariantHolds, PTL

(* The balance without the parts that a rollback may leave taken. *)
UnitsExact == mode = "idle" => free = Units \ UNION {UnitsNeeded(r) : r \in granted}

PoolsExact ==
  mode = "idle" => \A c \in Pools : avail[c] = Total[c] - DrawnBy(granted, c)

(* If no list names a part twice, the units taken and the bytes drawn       *)
(* between two calls are exactly those of the requests held: the rollbacks  *)
(* of acquireForBroadcast and of Mesh2D::acquire put back all they should.  *)
THEOREM WholeUnlessRepeated ==
  ASSUME \A r \in Requests : Exposed(r) = {}
  PROVE  Spec => [](UnitsExact /\ PoolsExact)
<1>1. UnitsExposed = {} /\ PoolsExposed = {}
  BY DEF UnitsExposed, PoolsExposed
<1>2. TypeOK /\ UnitsBalance => UnitsExact
  BY <1>1 DEF TypeOK, UnitsBalance, UnitsExact
<1>3. IInv /\ PoolsOK /\ PoolsBalance => PoolsExact
  <2> SUFFICES ASSUME IInv, PoolsOK, PoolsBalance, mode = "idle", NEW c \in Pools
               PROVE  avail[c] = Total[c] - DrawnBy(granted, c)
    BY DEF PoolsExact
  <2>1. avail[c] \in Nat /\ Total[c] \in Nat /\ DrawnBy(granted, c) \in Nat
    BY PoolsTypes DEF IInv, PoolsOK
  <2>2. /\ avail[c] <= Total[c] - DrawnBy(granted, c)
        /\ ~ avail[c] < Total[c] - DrawnBy(granted, c)
    BY <1>1 DEF PoolsBalance
  <2> QED
    BY <2>1, <2>2
<1> QED
  BY <1>2, <1>3, TypeCorrect, NothingIsLost, NoBytesLost, PoolsInv, InvariantHolds, PTL
==============================================================================

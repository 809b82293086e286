----------------------------- MODULE Interconnect -----------------------------
(***************************************************************************)
(* The hardware modules of lib/modules (Chain, Mesh2D, Torus) and the      *)
(* resources of lib/resources they take hold of: links (rings and chains), *)
(* memory ports and memory capacity, which several modules may refer to.   *)
(*                                                                         *)
(* A module takes its parts one after the other and, if one is not to be   *)
(* had, puts those before it back.  A part is a link, a MemoryBank or a    *)
(* bare MemoryCapacity; a request is one acquire call: of a Chain or a     *)
(* Mesh2D, of a Torus for a reduction, or for a broadcast of so many       *)
(* bytes.  Callers release what they were granted, and nothing else.       *)
(* There are no locks: one thread makes all calls.                         *)
(***************************************************************************)
EXTENDS Integers, Sequences, FiniteSets, FiniteSetsExt, Functions

CONSTANTS
  Units,     \* rings, chains and ports: each is free or taken
  Pools,     \* memory capacities
  Total,     \* their sizes in bytes
  NoPool,    \* the pool of a part without capacity
  NoRequest,
  Parts,     \* parts by identity (their address): [units |-> the part's units in
             \* the order it takes them, pool |-> its capacity or NoPool]
  Requests   \* [parts |-> the part identities in the order of the call, first |->
             \* how many of them form the first list, bytes |-> bytes per part]

PartOK(p) == p.units \in Seq(Units) /\ p.pool \in Pools \cup {NoPool}

(* The constructors take any lists of parts, also one that names a part     *)
(* twice: a bank or a capacity that two cores share, for instance.          *)
RequestOK(r) ==
  /\ r.parts \in Seq(DOMAIN Parts) /\ r.parts # <<>>
  /\ r.first \in 0 .. Len(r.parts)
  /\ r.bytes \in Nat

(* The lists are a ring and the banks, or the rows and the columns of a     *)
(* mesh.                                                                    *)
SameList(r, i, j) == i <= r.first <=> j <= r.first

ASSUME HardwareAssumption ==
  /\ NoPool \notin Pools /\ NoRequest \notin Requests
  /\ Total \in [Pools -> Nat]
  /\ \A p \in DOMAIN Parts : PartOK(Parts[p])
  /\ \A r \in Requests : RequestOK(r)

VARIABLES
  free,     \* the units whose is_available_ is true
  avail,    \* per pool its available_size_
  granted,  \* the requests for which acquire returned true, not yet released
  req,      \* the request of the call being executed
  mode,     \* "idle", or what the call is doing: "take", "undo", "give"
  pos,      \* the next position of req.parts
  last      \* the last position to undo or to give

vars == <<free, avail, granted, req, mode, pos, last>>
-----------------------------------------------------------------------------
(* MemoryCapacity::canConsume, consume and release.                         *)
CanConsumeMore(c, bytes) ==  \* mutant: off by one
  \A q \in Pools \cap {c} : bytes <= avail[q] + 1

CanConsume(c, bytes) == \A q \in Pools \cap {c} : bytes <= avail[q]

Consumed(c, bytes) == [q \in Pools |-> IF q = c THEN avail[q] - bytes ELSE avail[q]]

Credited(c, bytes) ==
  [q \in Pools |-> IF q = c /\ bytes <= Total[q] - avail[q] THEN avail[q] + bytes
                   ELSE avail[q]]

UnitsOf(p) == {Parts[p].units[i] : i \in DOMAIN Parts[p].units}

(* A part that looks free to isAvailable, canConsume or                     *)
(* canAcquireForTransfer, and one that acquire really gets: a MemoryBank    *)
(* whose read port is its write port finds the second of them taken.        *)
AvailableByCapacity(p, bytes) == CanConsume(Parts[p].pool, bytes)  \* mutant: no port check

Available(p, bytes) == UnitsOf(p) \subseteq free /\ CanConsume(Parts[p].pool, bytes)

Obtainable(p, bytes) == Available(p, bytes) /\ IsInjective(Parts[p].units)

PutBackPortsOnly(p, bytes) == free' = free \cup UnitsOf(p) /\ UNCHANGED avail  \* mutant: no credit

PutBack(p, bytes) ==
  /\ free' = free \cup UnitsOf(p)
  /\ avail' = Credited(Parts[p].pool, bytes)

(* The rollback stops at the first part of the list that is the one that    *)
(* failed; the lists before that are put back whole.  If the list names the *)
(* failed part twice, that first one is not the one that failed, and it and *)
(* the parts between the two stay taken.                                    *)
UndoToEarly(r, k) == IF k > 1 THEN k - 2 ELSE 0  \* mutant: off by one

UndoTo(r, k) ==
  Min({j \in 1 .. k : r.parts[j] = r.parts[k] /\ SameList(r, j, k)}) - 1
-----------------------------------------------------------------------------
Init ==
  /\ free = Units /\ avail = Total /\ granted = {}
  /\ req = NoRequest /\ mode = "idle" /\ pos = 0 /\ last = 0

(* Every part looks free; else the call returns false at once.              *)
Acquire(r) ==
  /\ mode = "idle" /\ r \notin granted
  /\ \A i \in DOMAIN r.parts : Available(r.parts[i], r.bytes)
  /\ req' = r /\ mode' = "take" /\ pos' = 1 /\ last' = Len(r.parts)
  /\ UNCHANGED <<free, avail, granted>>

Refuse(r) ==
  /\ mode = "idle" /\ r \notin granted
  /\ \E i \in DOMAIN r.parts : ~ Available(r.parts[i], r.bytes)
  /\ UNCHANGED vars

Take ==
  /\ mode = "take" /\ Obtainable(req.parts[pos], req.bytes)
  /\ free' = free \ UnitsOf(req.parts[pos])
  /\ avail' = Consumed(Parts[req.parts[pos]].pool, req.bytes)
  /\ IF pos < last
     THEN pos' = pos + 1 /\ UNCHANGED <<granted, req, mode, last>>
     ELSE /\ granted' = granted \cup {req}
          /\ req' = NoRequest /\ mode' = "idle" /\ pos' = 0 /\ last' = 0

(* A part that looked free is not to be had: another part of the same       *)
(* request has taken it.                                                    *)
Fail ==
  /\ mode = "take" /\ ~ Obtainable(req.parts[pos], req.bytes)
  /\ mode' = "undo" /\ pos' = 1 /\ last' = UndoTo(req, pos)
  /\ UNCHANGED <<free, avail, granted, req>>

Release(r) ==
  /\ mode = "idle" /\ r \in granted
  /\ granted' = granted \ {r}
  /\ req' = r /\ mode' = "give" /\ pos' = 1 /\ last' = Len(r.parts)
  /\ UNCHANGED <<free, avail>>

Put ==
  /\ mode \in {"undo", "give"} /\ pos <= last
  /\ PutBack(req.parts[pos], req.bytes)
  /\ pos' = pos + 1
  /\ UNCHANGED <<granted, req, mode, last>>

Return ==
  /\ mode \in {"undo", "give"} /\ pos > last
  /\ req' = NoRequest /\ mode' = "idle" /\ pos' = 0 /\ last' = 0
  /\ UNCHANGED <<free, avail, granted>>

Next ==
  \/ \E r \in Requests : Acquire(r) \/ Refuse(r) \/ Release(r)
  \/ Take \/ Fail \/ Put \/ Return

Spec == Init /\ [][Next]_vars
-----------------------------------------------------------------------------
UnitsNeeded(r) == UNION {UnitsOf(r.parts[i]) : i \in DOMAIN r.parts}

Needs == [r \in Requests |-> UnitsNeeded(r)]

(* The positions of req.parts that the call holds at the moment.            *)
InHand ==
  IF mode = "take" THEN 1 .. pos - 1 ELSE IF mode = "idle" THEN {} ELSE pos .. last

(* The bytes of pool c that the parts of r at the positions S stand for.    *)
Draw(r, S, c) == r.bytes * Cardinality({i \in S : Parts[r.parts[i]].pool = c})

DrawnBy(G, c) == MapThenSumSet(LAMBDA q : Draw(q, DOMAIN q.parts, c), G)

TypeOK ==
  /\ free \subseteq Units
  /\ avail \in [Pools -> Nat] /\ \A c \in Pools : avail[c] <= Total[c]
  /\ granted \subseteq Requests
  /\ mode \in {"idle", "take", "undo", "give"}
  /\ req \in IF mode = "idle" THEN {NoRequest} ELSE Requests
  /\ mode = "take" => pos \in DOMAIN req.parts /\ last = Len(req.parts)
  /\ mode \in {"undo", "give"} => last \in 0 .. Len(req.parts) /\ pos \in 1 .. last + 1

(* The positions that a rollback may leave taken: from a part to before the *)
(* place where the same list names it again.                                *)
Exposed(r) ==
  {i \in DOMAIN r.parts :
     \E j, k \in DOMAIN r.parts :
       j <= i /\ i < k /\ SameList(r, j, k) /\ r.parts[j] = r.parts[k]}

UnitsExposed == UNION {UNION {UnitsOf(r.parts[i]) : i \in Exposed(r)} : r \in Requests}

PoolsExposed == UNION {{Parts[r.parts[i]].pool : i \in Exposed(r)} : r \in Requests}

(* Whatever was granted, refused half way or released before: between two   *)
(* calls no unit of a request held is free, and every other unit is, but    *)
(* for those that a rollback leaves taken because a list names a part twice *)
(* (Torus::acquireForBroadcast, Mesh2D::acquire and their rollbacks).       *)
UnitsBalance ==
  mode = "idle" =>
    LET held == UNION {UnitsNeeded(r) : r \in granted}
    IN  free \cap held = {} /\ Units \ held \subseteq free \cup UnitsExposed

(* And no pool has more than the requests held leave of it, nor less,       *)
(* unless a list names a part twice that draws from it; a credit that the   *)
(* capacity refuses (releaseTransfer does not look) would be missing.       *)
PoolsBalance ==
  mode = "idle" =>
    \A c \in Pools :
      LET rest == Total[c] - DrawnBy(granted, c)
      IN  avail[c] <= rest /\ (avail[c] < rest => c \in PoolsExposed)

(* As far as links and ports go, the calls are atomic: the requests held    *)
(* change as in Reservation, where a request is granted at once or not at   *)
(* all, and never while another one holds what it needs.                    *)
Atomic == INSTANCE Reservation
Reserves == Atomic!Spec
==============================================================================

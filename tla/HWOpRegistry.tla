---------------------------- MODULE HWOpRegistry ----------------------------
(***************************************************************************)
(* The registry of what the hardware can do: every function of a platform  *)
(* file under a key, in a std::map ordered by HWOpKey::operator<, and the  *)
(* lookups of a kernel's operations in it.                                 *)
(*                                                                         *)
(* A key is [head, tail]: head is the kind (Named, Generic or DataMover)   *)
(* followed by the fields compared first, tail the vector compared last,   *)
(* that is the memory kinds of a compute function's operands or the        *)
(* broadcast factors of a data mover. Names, memory spaces and classes are *)
(* their positions in the order; an absent memory kind of a data mover is  *)
(* 0 and a present one its successor, as std::optional orders them.        *)
(***************************************************************************)
EXTENDS Integers, Sequences, FiniteSets, SequencesExt

Named == 0
Generic == 1
DataMover == 2
Dynamic == -1   \* a broadcast factor that is a symbol of the hardware
NoFunc == [none |-> TRUE]

HWOpKey == [head : Seq(Nat), tail : Seq(Nat)]   \* but for symbolic areas

KindOf(k) == k.head[1]

LexLess(s, t) ==
  \E n \in 0 .. Len(s) :
    /\ n < Len(t)
    /\ \A i \in 1 .. n : s[i] = t[i]
    /\ n < Len(s) => s[n + 1] < t[n + 1]

HasOnlyDefaultMemoryOperands(tail) == \A i \in 1 .. Len(tail) : tail[i] = 0

BothDefault(k, l) ==
  /\ KindOf(k) = Generic
  /\ HasOnlyDefaultMemoryOperands(k.tail)
  /\ HasOnlyDefaultMemoryOperands(l.tail)

LessEitherDefault(k, l) ==  \* mutant: one default signature is enough
  \/ LexLess(k.head, l.head)
  \/ /\ k.head = l.head
     /\ ~ (KindOf(k) = Generic /\ HasOnlyDefaultMemoryOperands(k.tail))
     /\ LexLess(k.tail, l.tail)

Less(k, l) ==
  \/ LexLess(k.head, l.head)
  \/ /\ k.head = l.head
     /\ ~ BothDefault(k, l)
     /\ LexLess(k.tail, l.tail)

-----------------------------------------------------------------------------
(* The map: entries [key, func] in the order of their keys. *)

LowerBound(map, k) == 1 + Cardinality({i \in DOMAIN map : Less(map[i].key, k)})

Found(map, k) == LowerBound(map, k) \in DOMAIN map /\ ~ Less(k, map[LowerBound(map, k)].key)

Lookup(map, k) == IF Found(map, k) THEN map[LowerBound(map, k)].func ELSE NoFunc

(* registry_[key] = func keeps the key that is there. *)
Assign(map, k, f) ==
  IF Found(map, k)
    THEN [map EXCEPT ![LowerBound(map, k)].func = f]
    ELSE InsertAt(map, LowerBound(map, k), [key |-> k, func |-> f])

IsSymbolicArea(area) == \E i \in DOMAIN area : area[i] = Dynamic
IsAllOnes(area) == \A i \in DOMAIN area : area[i] = 1
AreaMatches(hw, area) ==
  Len(hw) = Len(area) /\ \A i \in DOMAIN area : hw[i] \in {Dynamic, area[i]}

CopyKind == 0   \* the second field of a data mover's head; a gather's is 1

(* Symbolic data movers are tried in the order they were read. *)
LookupDataMover(map, symbolic, k) ==
  IF Lookup(map, k) # NoFunc THEN Lookup(map, k)
  ELSE IF k.head[2] = CopyKind /\ IsAllOnes(k.tail) THEN NoFunc
  ELSE LET fit == SelectSeq(symbolic, LAMBDA e : e.key.head = k.head
                                               /\ AreaMatches(e.key.tail, k.tail))
       IN IF fit = <<>> THEN NoFunc ELSE fit[1].func

-----------------------------------------------------------------------------
CONSTANT Platforms   \* platform files

(* A platform is [processors, modules]: the exclusive resources of each     *)
(* processor, and the modules with their functions in the order of the      *)
(* file. A function is [key, name, bodies]; bodies counts the arith and     *)
(* math operations in the body of a linalg.generic.                         *)
FunctionKey(k) ==
  /\ k \in [head : Seq(Nat), tail : Seq(Nat \cup {Dynamic})]
  /\ KindOf(k) # DataMover => k \in HWOpKey

IsSequence(s) == s \in Seq(ToSet(s))

ASSUME PlatformsAssumption ==
  \A p \in Platforms :
    /\ IsSequence(p.modules)
    /\ \A i \in DOMAIN p.modules :
         /\ IsSequence(p.modules[i].funcs)
         /\ \A j \in DOMAIN p.modules[i].funcs : FunctionKey(p.modules[i].funcs[j].key)

VARIABLES
  platform,   \* the platform file
  unread,     \* the functions still to index, each with its module
  registry,   \* registry_
  symbolic,   \* symbolic_data_movers_
  indexed     \* history: the functions indexed so far, in order

registryVars == <<platform, unread, registry, symbolic, indexed>>

IsMoverModule(m) == \E i \in DOMAIN m.funcs : KindOf(m.funcs[i].key) = DataMover

FunctionsOf(p) ==
  FlattenSeq([i \in DOMAIN p.modules |->
    [j \in DOMAIN p.modules[i].funcs |->
      [module |-> p.modules[i], func |-> p.modules[i].funcs[j]]]])

RegistryInit ==
  /\ platform \in Platforms
  /\ unread = FunctionsOf(platform)
  /\ registry = <<>> /\ symbolic = <<>> /\ indexed = <<>>

ResourcesOf(component) ==
  IF component \in DOMAIN platform.processors
    THEN platform.processors[component] ELSE {}

(* In a module of data movers nothing else is indexed; a linalg.generic     *)
(* whose body has several operations stands for no hardware function.       *)
Extracted(u) ==
  /\ IsMoverModule(u.module) <=> KindOf(u.func.key) = DataMover
  /\ KindOf(u.func.key) = Generic => u.func.bodies = 1

IndexModule ==
  /\ unread # <<>>
  /\ LET u == Head(unread)
         k == u.func.key
         f == [name |-> u.func.name, component |-> u.module.component,
               resources |-> ResourcesOf(u.module.component)]
         aside == KindOf(k) = DataMover /\ IsSymbolicArea(k.tail)
     IN IF Extracted(u)
          THEN /\ registry' = IF aside THEN registry ELSE Assign(registry, k, f)
               /\ symbolic' = IF aside THEN Append(symbolic, [key |-> k, func |-> f])
                                       ELSE symbolic
               /\ indexed' = Append(indexed, [key |-> k, func |-> f])
          ELSE UNCHANGED <<registry, symbolic, indexed>>
  /\ unread' = Tail(unread)
  /\ UNCHANGED platform

(* Indexing on its own, as the builder does it before anything else. *)
RegistrySpec == RegistryInit /\ [][IndexModule]_registryVars

-----------------------------------------------------------------------------
Matches(probe, k) == k.head = probe.head /\ (k.tail = probe.tail \/ BothDefault(probe, k))

Latest(probe) ==
  LET fit == {i \in DOMAIN indexed : Matches(probe, indexed[i].key)}
  IN IF fit = {} THEN NoFunc ELSE indexed[Max(fit)].func

(* A lookup returns the function that was read last among those the key     *)
(* stands for: the same operand memory kinds, or for a linalg.generic any   *)
(* number of operands of the default kind. The map finds entries by         *)
(* comparing keys, so this needs operator< to be a strict weak order, with  *)
(* the default signatures as one class, whatever else is registered between *)
(* them.                                                                    *)
LookupsExact ==
  unread = <<>> =>
  \A e \in ToSet(indexed) :
    \A n \in 0 .. 2 : \A tail \in [1 .. n -> {0, 1}] :
      LET probe == [head |-> e.key.head, tail |-> tail]
      IN KindOf(probe) # DataMover => Lookup(registry, probe) = Latest(probe)
=============================================================================

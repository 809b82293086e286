----------------------------- MODULE Reservation -----------------------------
(***************************************************************************)
(* What acquire and release of a hardware module promise (lib/modules/     *)
(* README.md: "Acquisition ensures every underlying chain is reserved      *)
(* atomically"): a request gets all the links and ports it needs, at one   *)
(* moment, or none of them.                                                *)
(***************************************************************************)
CONSTANTS
  Requests,  \* what callers ask for
  Needs      \* the links and ports each request needs, a set

VARIABLE granted  \* the requests that were granted and are not yet returned

Fits(r) == \A q \in granted : Needs[q] \cap Needs[r] = {}

Init == granted = {}

Grant(r) == r \notin granted /\ Fits(r) /\ granted' = granted \cup {r}

Return(r) == r \in granted /\ granted' = granted \ {r}

Next == \E r \in Requests : Grant(r) \/ Return(r)

Spec == Init /\ [][Next]_granted

(* Two requests held at the same time share no link and no port. *)
Exclusive == \A q, r \in granted : q # r => Needs[q] \cap Needs[r] = {}
==============================================================================

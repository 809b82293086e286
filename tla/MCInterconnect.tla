---------------------------- MODULE MCInterconnect ----------------------------
(* Two cores with banks and a mesh.  Requests share banks, ports, capacities *)
(* and chains with each other and within a list; some lists name a bank, a   *)
(* capacity or a chain twice, which the constructors of Torus and Mesh2D     *)
(* accept.  Those have units and a pool of their own (r3, w3, h3, v2, v3     *)
(* and L3), so that the balance of all the others is exact.                  *)
EXTENDS Interconnect, TLC

MCUnits == {"ring1", "ring2", "h1", "h2", "v1", "r1", "w1", "r2", "w2", "rw",
            "r3", "w3", "h3", "v2", "v3"}
MCPools == {"L1", "L2", "L3"}
MCTotal == [c \in MCPools |-> IF c = "L1" THEN 3 ELSE 2]

Link(u) == [units |-> <<u>>, pool |-> "none"]
Bank(read, write, c) == [units |-> <<read, write>>, pool |-> c]
Capacity(c) == [units |-> <<>>, pool |-> c]

(* Two banks over one capacity, two over one port, one whose two ports are   *)
(* one READ_WRITE port, two module chains over one resource chain.           *)
MCParts ==
  "ring1" :> Link("ring1") @@ "ring2" :> Link("ring2") @@
  "row1" :> Link("h1") @@ "row2" :> Link("h2") @@ "row2b" :> Link("h2") @@ "col1" :> Link("v1") @@
  "bank1" :> Bank("r1", "w1", "L1") @@ "bank2" :> Bank("r2", "w2", "L2") @@
  "bank3" :> Bank("r2", "rw", "L1") @@ "bank4" :> Bank("rw", "rw", "L2") @@
  "cap1" :> Capacity("L1") @@ "cap2" :> Capacity("L2") @@ "cap3" :> Capacity("L3") @@
  "bank5" :> Bank("r3", "w3", "L3") @@ "row3" :> Link("h3") @@
  "col2" :> Link("v2") @@ "col3" :> Link("v3")

Request(f, s, bytes) == [parts |-> f \o s, first |-> Len(f), bytes |-> bytes]

Broadcasts ==
  {Request(<<x>>, s, b) : x \in {"ring1", "ring2"}, b \in 1 .. 2,
     s \in {<<"bank1", "bank2">>, <<"bank1", "bank3">>, <<"bank2", "bank3">>, <<"bank2", "bank4">>,
            <<"cap1", "cap2">>, <<"cap2">>}}
Reductions == {Request(<<x>>, <<>>, 0) : x \in {"ring1", "ring2"}}
Chains == {Request(<<x>>, <<>>, 0) : x \in {"row1", "row2b", "col1"}}
Meshes == {Request(<<"row1", "row2">>, <<"col1">>, 0), Request(<<"row2", "row2b">>, <<"col1">>, 0),
           Request(<<"row1">>, <<"col1", "row1">>, 0)}

(* Lists with a part twice.  Two bytes of cap3 fail at the second one, a     *)
(* single byte is granted and released twice; the bank and the chains fail   *)
(* always, and cap1, ring1, ring2, row1 and col1 must be put back.           *)
Repeats ==
  {Request(<<"ring1">>, <<"cap1", "cap3", "cap3">>, b) : b \in 1 .. 2} \cup
  {Request(<<"ring2">>, <<"bank5", "bank5">>, 1),
   Request(<<"row3", "row3">>, <<"col1">>, 0),
   Request(<<"row1">>, <<"col1", "col2", "col3", "col2">>, 0)}

MCRequests == Broadcasts \cup Reductions \cup Chains \cup Meshes \cup Repeats
==============================================================================

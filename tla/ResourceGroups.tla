--------------------------- MODULE ResourceGroups ---------------------------
(***************************************************************************)
(* groupWorkloadsByResources: the workloads of one stage are put into      *)
(* groups that share no resource. A group runs its workloads one after the *)
(* other, the groups of a stage run in parallel.                           *)
(***************************************************************************)
EXTENDS Integers, Sequences, FiniteSets

CONSTANT
  Workload,    \* the workloads, each a record with its set of resources
  Resource

ASSUME WorkloadResources == \A w \in Workload : w.resources \in SUBSET Resource

VARIABLES
  pending,    \* the workloads still to group, in the order of their queues
  groups      \* the groups, each [resources, works]

groupVars == <<pending, groups>>

GroupInit == pending \in Seq(Workload) /\ groups = {}

Shares(g, w) == g.resources \cap w.resources # {}

OverlappingFirst(w) ==  \* mutant: the search stops at the first group
  {g \in groups : Shares(g, w) /\ g = CHOOSE h \in groups : Shares(h, w)}

Overlapping(w) == {g \in groups : Shares(g, w)}

Joined(w) ==
  [resources |-> w.resources \cup UNION {g.resources : g \in Overlapping(w)},
   works |-> {w} \cup UNION {g.works : g \in Overlapping(w)}]

(* The workload and every group that shares a resource with it become one. *)
GroupWorkload ==
  /\ pending # <<>>
  /\ groups' = (groups \ Overlapping(Head(pending))) \cup {Joined(Head(pending))}
  /\ pending' = Tail(pending)

GroupSpec == GroupInit /\ [][GroupWorkload]_groupVars

-----------------------------------------------------------------------------
(* Two groups share no resource: what runs in parallel never waits for the  *)
(* same unit, however late the workload comes that ties two groups.         *)
GroupsExclusive ==
  \A g, h \in groups : g # h => g.resources \cap h.resources = {}

(* No group is larger than it has to be: its workloads hang together by the *)
(* resources they share, so nothing is serialized without need.             *)
GroupsConnected ==
  \A g \in groups : \A part \in SUBSET g.works :
    part \notin {{}, g.works} =>
      \E v \in part, w \in g.works \ part : v.resources \cap w.resources # {}

(* The groups are the connected components of sharing a resource. *)
GroupsAreComponents == GroupsExclusive /\ GroupsConnected
=============================================================================

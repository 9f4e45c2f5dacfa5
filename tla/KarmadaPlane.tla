---------------------------- MODULE KarmadaPlane ----------------------------
(***************************************************************************)
(* What the requests of the Karmada and member cluster clients amount to:  *)
(* every write of a PropagationPolicy is one atomic step, sets nothing but *)
(* the policy's placement, and comes after the CRD it needs.  Where others *)
(* have a hand in a policy, Karmada stamps it with labels of its own, and  *)
(* users change or delete it.                                              *)
(***************************************************************************)
CONSTANTS
  Clusters,    \* member clusters
  Names,       \* names of PropagationPolicies
  Placements,  \* for each name: the sets of clusters it may be written with
  Needs,       \* for each name: the clusters that must have the CRD before
  Shared       \* the names of policies that Karmada and users write to, too

VARIABLES
  crds,        \* clusters with the CheckpointBackup CRD
  policies     \* the existing policies: placement, and stamped by Karmada?

vars == <<crds, policies>>

Policy == [clusters : SUBSET Clusters, stamped : BOOLEAN]

Init ==
  /\ crds = {}
  /\ policies = [n \in {} |-> [clusters |-> {}, stamped |-> FALSE]]

Install(c) ==
  /\ crds' = crds \cup {c}
  /\ UNCHANGED policies

\* A policy is created, or given a placement; the stamp stays.
Write(n, placement) ==
  /\ Needs[n] \subseteq crds
  /\ policies' =
       [x \in DOMAIN policies \cup {n} |->
          IF x # n THEN policies[x]
          ELSE IF n \in DOMAIN policies
               THEN [policies[n] EXCEPT !.clusters = placement]
               ELSE [clusters |-> placement, stamped |-> FALSE]]
  /\ UNCHANGED crds

Stamp(n) ==
  /\ n \in DOMAIN policies
  /\ policies' = [policies EXCEPT ![n].stamped = TRUE]
  /\ UNCHANGED crds

Move(n, placement) ==
  /\ n \in DOMAIN policies
  /\ policies' = [policies EXCEPT ![n].clusters = placement]
  /\ UNCHANGED crds

Delete(n) ==
  /\ n \in DOMAIN policies
  /\ policies' = [x \in DOMAIN policies \ {n} |-> policies[x]]
  /\ UNCHANGED crds

Next ==
  \/ \E c \in Clusters : Install(c)
  \/ \E n \in Names : \E placement \in Placements[n] : Write(n, placement)
  \/ \E n \in Shared : Stamp(n) \/ Delete(n)
  \/ \E n \in Shared, placement \in SUBSET Clusters : Move(n, placement)

Spec == Init /\ [][Next]_vars

=============================================================================

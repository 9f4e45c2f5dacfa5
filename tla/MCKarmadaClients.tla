-------------------------- MODULE MCKarmadaClients --------------------------
(***************************************************************************)
(* A small instance of KarmadaClients: a migration on two clusters, and    *)
(* two managers during a leader hand-over.                                 *)
(***************************************************************************)
EXTENDS KarmadaClients

BothClusters == [m \in Migrations |-> <<"c1", "c2">>]

=============================================================================

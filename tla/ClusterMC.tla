----------------------------- MODULE ClusterMC -----------------------------
(* Small instances of Cluster for TLC.                                     *)
EXTENDS Cluster

CONSTANTS n1, n2

MCTwoNodes == {n1, n2}
=============================================================================

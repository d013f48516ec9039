-------------------------- MODULE MCSyncCoordinator --------------------------
(* SyncCoordinator on two or three nodes that share one account.             *)
EXTENDS SyncCoordinator, TLC

CONSTANTS laptop, desktop, server

MCNodeSymmetry == Permutations(Nodes)
=============================================================================

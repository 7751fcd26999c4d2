------------------------ MODULE MCReplicaReconciler ------------------------
(***************************************************************************)
(* A pool of three names that is not sorted, and a user who may ask for    *)
(* one more pod than it has names.                                         *)
(***************************************************************************)
EXTENDS ReplicaReconciler

MCPodPool == <<2, 3, 1>>
=============================================================================

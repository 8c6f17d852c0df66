-------------------------- MODULE StorageCleanupMC --------------------------
(* Instances of StorageCleanup for TLC. *)
EXTENDS StorageCleanup

OneOwner == [j \in Jobs |-> CHOOSE o \in Owners : TRUE]

=============================================================================

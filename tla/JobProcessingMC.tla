-------------------------- MODULE JobProcessingMC --------------------------
(* Instances of JobProcessing for TLC. *)
EXTENDS JobProcessing, TLC

\* One owner, one partition: every job waits behind the one before it.
OneOwner == [j \in Jobs |-> CHOOSE o \in Owners : TRUE]
OnePartition == [j \in Jobs |-> CHOOSE p \in Partitions : TRUE]

\* Without the announcements and the durable attempt counter, which no guard of
\* another action reads and the properties of the two-job run do not mention.
PipelineView == <<status, holder, lease, expires, ownerDeleted, createdOutbox, log,
                  committed, owner, deadLetters, localVars, faultVars>>

FullSymmetry == Permutations(Workers) \cup Permutations(Jobs)

=============================================================================

---------------------------- MODULE JobLifecycle ----------------------------
(***************************************************************************)
(* What the job pipeline promises: a submitted job stays queued until it   *)
(* is settled, moves only along the statuses the API documents, and a      *)
(* settled job never moves again. No worker, lease, message or retry is    *)
(* visible here; JobProcessing implements this specification.              *)
(***************************************************************************)
CONSTANT Jobs

VARIABLES
    status,  \* the status the API shows
    queued   \* the jobs some worker will still be handed

vars == <<status, queued>>

Active  == {"PENDING", "PROCESSING", "RETRYING"}
Settled == {"COMPLETED", "FAILED", "CANCELLED", "REMOVED"}

Init ==
    /\ status = [j \in Jobs |-> "ABSENT"]
    /\ queued = {}

Move(j, from, to) ==
    /\ status[j] \in from
    /\ status' = [status EXCEPT ![j] = to]
    /\ UNCHANGED queued

Submit(j) ==
    /\ status[j] = "ABSENT"
    /\ status' = [status EXCEPT ![j] = "PENDING"]
    /\ queued' = queued \cup {j}

\* Only a job that will be handed out again may be started, however often.
Start(j) == j \in queued /\ Move(j, Active, "PROCESSING")

Retry(j) == j \in queued /\ Move(j, {"PROCESSING", "RETRYING"}, "RETRYING")

Finish(j) ==
    /\ j \in queued
    /\ \E s \in {"COMPLETED", "FAILED"} : Move(j, {"PROCESSING", "RETRYING"}, s)

Cancel(S) ==
    /\ \A j \in S : status[j] \in Active
    /\ status' = [j \in Jobs |-> IF j \in S THEN "CANCELLED" ELSE status[j]]
    /\ UNCHANGED queued

Remove(j) == Move(j, Settled, "REMOVED")

\* The last copy of the job's message is committed.
Forget(j) ==
    /\ status[j] \in Settled
    /\ queued' = queued \ {j}
    /\ UNCHANGED status

Next ==
    \/ \E j \in Jobs : \/ Submit(j)
                       \/ Start(j)
                       \/ Retry(j)
                       \/ Finish(j)
                       \/ Remove(j)
                       \/ Forget(j)
    \/ \E S \in SUBSET Jobs : Cancel(S)

Spec == Init /\ [][Next]_vars

=============================================================================

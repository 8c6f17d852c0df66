--------------------------- MODULE StorageCleanup ---------------------------
(***************************************************************************)
(* The private objects of a job from its upload to their deletion: the     *)
(* worker that adds stems, the retention deadline, the deletion of the     *)
(* owner's account, and the cleanup processes that claim expired rows in   *)
(* batches, list and delete the objects of one job at a time and record    *)
(* the result.                                                             *)
(*                                                                         *)
(* How a job is processed is JobProcessing; here a job is ACTIVE until it  *)
(* settles, and its worker matters for the objects it writes.              *)
(***************************************************************************)
EXTENDS Naturals, FiniteSets

CONSTANTS
    Jobs,
    Owners,
    OwnerOf,    \* the account that owns each job
    Stems,      \* the result objects of a job
    Cleaners,   \* cleanup processes
    BatchSize,  \* CLEANUP_BATCH_SIZE
    MaxFaults   \* bound on failed calls, crashes and claims that slip

ASSUME CleanupAssumption ==
    /\ OwnerOf \in [Jobs -> Owners]
    /\ "input" \notin Stems
    /\ BatchSize \in Nat \ {0}
    /\ MaxFaults \in Nat

VARIABLES
    \* the jobs and users tables
    accounts,      \* the accounts that exist
    status,
    results,       \* result_object_keys
    deadline,      \* storage_expires_at: NULL, ahead, or reached
    ownerDeleted,  \* rows with owner_deleted_at IS NOT NULL
    cleaned,       \* rows with storage_deleted_at IS NOT NULL
    claim,         \* cleanup_claim_id, 0 for NULL; the id is the attempt's number
    overdue,       \* rows whose cleanup_claimed_at is past the claim timeout
    attempts,      \* cleanup_attempts
    \* object storage
    objects,
    \* the worker of each job
    work,          \* working, about to report an upload, or stopped
    \* each cleanup process
    pc,
    batch,         \* claims it has not come to yet
    current,       \* the claim it works on
    keys,          \* what collectObjectKeys returned
    \* observers
    completions,   \* how often the cleanup of a job was recorded as done
    slipped,       \* jobs whose claim timed out under a living process
    faults

jobVars     == <<accounts, status, results, deadline, ownerDeleted>>
claimVars   == <<claim, overdue, attempts>>
localVars   == <<pc, batch, current, keys>>
faultVars   == <<slipped, faults>>
vars == <<jobVars, cleaned, completions, claimVars, objects, work, localVars,
          faultVars>>

-----------------------------------------------------------------------------
Keys == {"input"} \cup Stems
Claims == [job : Jobs, id : Nat \ {0}, results : SUBSET Stems]
NoClaim == [id |-> 0]

TypeOK ==
    /\ accounts \in SUBSET Owners
    /\ status \in [Jobs -> {"ACTIVE", "COMPLETED", "FAILED", "CANCELLED", "REMOVED"}]
    /\ results \in [Jobs -> SUBSET Stems]
    /\ deadline \in [Jobs -> {"none", "later", "past"}]
    /\ ownerDeleted \in SUBSET Jobs
    /\ cleaned \in SUBSET Jobs
    /\ claim \in [Jobs -> Nat]
    /\ overdue \in SUBSET Jobs
    /\ attempts \in [Jobs -> Nat]
    /\ objects \in [Jobs -> SUBSET Keys]
    /\ work \in [Jobs -> {"working", "report", "stopped"}]
    /\ pc \in [Cleaners -> {"idle", "next", "list", "delete", "mark", "fail"}]
    /\ batch \in [Cleaners -> SUBSET Claims]
    /\ current \in [Cleaners -> Claims \cup {NoClaim}]
    /\ \A c \in Cleaners : pc[c] \in {"idle", "next"} <=> current[c] = NoClaim
    /\ keys \in [Cleaners -> SUBSET Keys]
    /\ completions \in [Jobs -> Nat]
    /\ slipped \in SUBSET Jobs
    /\ faults \in 0..MaxFaults

\* Every job has been created, its source uploaded.
Init ==
    /\ accounts = Owners
    /\ status = [j \in Jobs |-> "ACTIVE"]
    /\ results = [j \in Jobs |-> {}]
    /\ deadline = [j \in Jobs |-> "none"]
    /\ ownerDeleted = {}
    /\ cleaned = {}
    /\ claim = [j \in Jobs |-> 0]
    /\ overdue = {}
    /\ attempts = [j \in Jobs |-> 0]
    /\ objects = [j \in Jobs |-> {"input"}]
    /\ work = [j \in Jobs |-> "working"]
    /\ pc = [c \in Cleaners |-> "idle"]
    /\ batch = [c \in Cleaners |-> {}]
    /\ current = [c \in Cleaners |-> NoClaim]
    /\ keys = [c \in Cleaners |-> {}]
    /\ completions = [j \in Jobs |-> 0]
    /\ slipped = {}
    /\ faults = 0

Fault == faults < MaxFaults /\ faults' = faults + 1

-----------------------------------------------------------------------------
(* The worker of a job *)

\* upload_demucs_results: one stem; report_stem_upload comes next.
UploadStem(j, s) ==
    /\ work[j] = "working"
    /\ s \notin objects[j]
    /\ objects' = [objects EXCEPT ![j] = @ \cup {s}]
    /\ work' = [work EXCEPT ![j] = "report"]
    /\ UNCHANGED <<jobVars, cleaned, completions, claimVars, localVars, faultVars>>

\* A cancellation check or progress write: the worker goes on while the row is
\* its own.
CheckRow(j) ==
    /\ \/ work[j] = "report"
       \/ work[j] = "working" /\ status[j] # "ACTIVE"
    /\ work' = [work EXCEPT ![j] = IF status[j] = "ACTIVE" THEN "working"
                                                           ELSE "stopped"]
    /\ UNCHANGED <<jobVars, cleaned, completions, claimVars, objects, localVars,
                   faultVars>>

\* update_job_status with a terminal status: COMPLETED with every stem, or FAILED
\* with whatever the attempts left behind.
FinishJob(j, s, stems) ==
    /\ work[j] = "working"
    /\ status[j] = "ACTIVE"
    /\ status' = [status EXCEPT ![j] = s]
    /\ results' = [results EXCEPT ![j] = stems]
    /\ deadline' = [deadline EXCEPT ![j] = "later"]
    /\ work' = [work EXCEPT ![j] = "stopped"]
    /\ UNCHANGED <<accounts, ownerDeleted, cleaned, completions, claimVars,
                   objects, localVars, faultVars>>

CompleteJob(j) == Stems \subseteq objects[j] /\ FinishJob(j, "COMPLETED", Stems)
FailJob(j)     == FinishJob(j, "FAILED", {})

-----------------------------------------------------------------------------
(* The backend and the clock *)

CancelJob(j) ==
    /\ status[j] = "ACTIVE"
    /\ status' = [status EXCEPT ![j] = "CANCELLED"]
    /\ deadline' = [deadline EXCEPT ![j] = "later"]
    /\ UNCHANGED <<accounts, results, ownerDeleted, cleaned, completions,
                   claimVars, objects, work, localVars, faultVars>>

\* The retention period, hours to days, ends. By then the worker has long seen
\* that the job is settled: it looks every half second and after every stem.
Expire(j) ==
    /\ deadline[j] = "later"
    /\ work[j] = "stopped"
    /\ deadline' = [deadline EXCEPT ![j] = "past"]
    /\ UNCHANGED <<accounts, status, results, ownerDeleted, cleaned, completions,
                   claimVars, objects, work, localVars, faultVars>>

\* Mutant: rows whose storage was removed earlier are left to the cleanup.
DeleteAccountKeepsCleaned(o) ==
    LET owned == {j \in Jobs : OwnerOf[j] = o}
    IN  /\ o \in accounts
        /\ accounts' = accounts \ {o}
        /\ status' = [j \in Jobs |-> IF j \in owned /\ status[j] = "ACTIVE"
                                     THEN "CANCELLED" ELSE status[j]]
        /\ deadline' = [j \in Jobs |-> IF j \in owned THEN "past" ELSE deadline[j]]
        /\ ownerDeleted' = ownerDeleted \cup owned
        /\ UNCHANGED <<results, cleaned, completions, claimVars, objects, work,
                       localVars, faultVars>>

\* deleteUserAccount: no retention, and no row where no object is left. (The locks
\* of its statements make it one step for a row.)
DeleteAccount(o) ==
    LET owned == {j \in Jobs : OwnerOf[j] = o}
    IN  /\ o \in accounts
        /\ accounts' = accounts \ {o}
        /\ status' = [j \in Jobs |->
               IF j \notin owned THEN status[j]
               ELSE IF j \in cleaned THEN "REMOVED"
               ELSE IF status[j] = "ACTIVE" THEN "CANCELLED" ELSE status[j]]
        /\ deadline' = [j \in Jobs |-> IF j \in owned THEN "past" ELSE deadline[j]]
        /\ ownerDeleted' = ownerDeleted \cup owned
        /\ UNCHANGED <<results, cleaned, completions, claimVars, objects, work,
                       localVars, faultVars>>

\* CLEANUP_CLAIM_TIMEOUT_MINUTES after the claim of a process that is gone ...
Held(c) == batch[c] \cup IF current[c] = NoClaim THEN {} ELSE {current[c]}
Holds(c, j) == \E b \in Held(c) : b.job = j /\ b.id = claim[j]

ClaimTimesOut(j) ==
    /\ claim[j] # 0
    /\ j \notin overdue
    /\ \A c \in Cleaners : ~Holds(c, j)
    /\ overdue' = overdue \cup {j}
    /\ UNCHANGED <<jobVars, cleaned, completions, claim, attempts, objects, work,
                   localVars, faultVars>>

\* ... or of one that took that long, as the last claim of a slow batch may.
ClaimSlips(j) ==
    /\ claim[j] # 0
    /\ j \notin overdue
    /\ \E c \in Cleaners : Holds(c, j)
    /\ Fault
    /\ overdue' = overdue \cup {j}
    /\ slipped' = slipped \cup {j}
    /\ UNCHANGED <<jobVars, cleaned, completions, claim, attempts, objects, work,
                   localVars>>

-----------------------------------------------------------------------------
(* A cleanup process *)

Goto(c, l) == pc' = [pc EXCEPT ![c] = l]

\* Mutants: a claimed row is claimed again; the deadline is not looked at; a claim
\* never times out.
CandidatesClaimed ==
    {j \in Jobs : status[j] # "REMOVED" /\ deadline[j] = "past" /\ j \notin cleaned}
CandidatesEarly ==
    {j \in Jobs : /\ status[j] # "REMOVED" /\ deadline[j] # "none"
                  /\ j \notin cleaned
                  /\ claim[j] = 0 \/ j \in overdue}
CandidatesOnce ==
    {j \in Jobs : /\ status[j] # "REMOVED" /\ deadline[j] = "past"
                  /\ j \notin cleaned
                  /\ claim[j] = 0}

Candidates ==
    {j \in Jobs : /\ status[j] # "REMOVED" /\ deadline[j] = "past"
                  /\ j \notin cleaned
                  /\ claim[j] = 0 \/ j \in overdue}

\* claimExpiredJobs: rows another process has just locked are skipped.
ClaimExpiredJobs(c) ==
    /\ pc[c] = "idle"
    /\ \E S \in SUBSET Candidates :
          /\ Cardinality(S) \in 1..BatchSize
          /\ attempts' = [j \in Jobs |-> IF j \in S THEN attempts[j] + 1 ELSE attempts[j]]
          /\ claim' = [j \in Jobs |-> IF j \in S THEN attempts[j] + 1 ELSE claim[j]]
          /\ overdue' = overdue \ S
          /\ batch' = [batch EXCEPT ![c] =
                {[job |-> j, id |-> attempts[j] + 1, results |-> results[j]] : j \in S}]
    /\ Goto(c, "next")
    /\ UNCHANGED <<jobVars, cleaned, completions, objects, work, current, keys,
                   faultVars>>

\* Mutant: the claim of the row before is worked on again.
NextJobForgetful(c) ==
    /\ pc[c] = "next"
    /\ \E b \in batch[c] : batch' = [batch EXCEPT ![c] = @ \ {b}]
    /\ Goto(c, "list")
    /\ UNCHANGED <<jobVars, cleaned, completions, claimVars, objects, work, current,
                   keys, faultVars>>

NextJob(c) ==
    /\ pc[c] = "next"
    /\ \E b \in batch[c] :
          /\ current' = [current EXCEPT ![c] = b]
          /\ batch' = [batch EXCEPT ![c] = @ \ {b}]
    /\ Goto(c, "list")
    /\ UNCHANGED <<jobVars, cleaned, completions, claimVars, objects, work, keys,
                   faultVars>>

EndBatch(c) ==
    /\ pc[c] = "next"
    /\ batch[c] = {}
    /\ Goto(c, "idle")
    /\ UNCHANGED <<jobVars, cleaned, completions, claimVars, objects, work, batch,
                   current, keys, faultVars>>

\* Mutant: only what the row knows of is deleted.
CollectRecordedKeys(c) ==
    /\ pc[c] = "list"
    /\ keys' = [keys EXCEPT ![c] = {"input"} \cup current[c].results]
    /\ Goto(c, "delete")
    /\ UNCHANGED <<jobVars, cleaned, completions, claimVars, objects, work, batch,
                   current, faultVars>>

\* collectObjectKeys: what the row named when it was claimed, and what is there.
CollectObjectKeys(c) ==
    /\ pc[c] = "list"
    /\ keys' = [keys EXCEPT ![c] = {"input"} \cup current[c].results
                                     \cup (objects[current[c].job] \cap Stems)]
    /\ Goto(c, "delete")
    /\ UNCHANGED <<jobVars, cleaned, completions, claimVars, objects, work, batch,
                   current, faultVars>>

Deleted(c, K) ==
    /\ pc[c] = "delete"
    /\ objects' = [objects EXCEPT ![current[c].job] = @ \ K]

DeleteJobObjects(c) ==
    /\ Deleted(c, keys[c])
    /\ Goto(c, "mark")
    /\ UNCHANGED <<jobVars, cleaned, completions, claimVars, work, batch, current,
                   keys, faultVars>>

\* The deletion reports an error for some keys, or gets no answer.
DeleteSomeObjects(c) ==
    /\ \E K \in SUBSET keys[c] : Deleted(c, K)
    /\ Fault
    /\ Goto(c, "fail")
    /\ UNCHANGED <<jobVars, cleaned, completions, claimVars, work, batch, current,
                   keys, slipped>>

ListFails(c) ==
    /\ pc[c] = "list"
    /\ Fault
    /\ Goto(c, "fail")
    /\ UNCHANGED <<jobVars, cleaned, completions, claimVars, objects, work, batch,
                   current, keys, slipped>>

\* The WHERE clause of both results.
OwnsClaim(c) == /\ status[current[c].job] # "REMOVED"
                /\ claim[current[c].job] = current[c].id

\* The row's claim is over.
Released(j) ==
    /\ claim' = [claim EXCEPT ![j] = 0]
    /\ overdue' = overdue \ {j}
    /\ UNCHANGED attempts

JobDone(c) ==
    /\ current' = [current EXCEPT ![c] = NoClaim]
    /\ keys' = [keys EXCEPT ![c] = {}]
    /\ Goto(c, "next")
    /\ UNCHANGED batch

Recorded(j) ==
    /\ Released(j)
    /\ cleaned' = cleaned \cup {j}
    /\ completions' = [completions EXCEPT ![j] = @ + 1]
    /\ status' = [status EXCEPT ![j] = IF j \in ownerDeleted THEN "REMOVED" ELSE @]
    /\ UNCHANGED <<accounts, results, deadline, ownerDeleted, objects, work>>

\* Mutant: the claim is not compared.
MarkAnyClaim(c) ==
    /\ pc[c] = "mark"
    /\ status[current[c].job] # "REMOVED"
    /\ Recorded(current[c].job)
    /\ JobDone(c)
    /\ UNCHANGED faultVars

\* markCleanupCompleted commits ...
MarkCleanupCompleted(c) ==
    /\ pc[c] = "mark"
    /\ OwnsClaim(c)
    /\ Recorded(current[c].job)
    /\ JobDone(c)
    /\ UNCHANGED faultVars

\* ... commits without an answer ...
MarkUnconfirmed(c) ==
    /\ pc[c] = "mark"
    /\ OwnsClaim(c)
    /\ Fault
    /\ Recorded(current[c].job)
    /\ Goto(c, "fail")
    /\ UNCHANGED <<batch, current, keys, slipped>>

\* ... finds that another process has claimed the row since, or fails.
MarkRefused(c) ==
    /\ pc[c] = "mark"
    /\ \/ ~OwnsClaim(c) /\ UNCHANGED faults
       \/ OwnsClaim(c) /\ Fault
    /\ Goto(c, "fail")
    /\ UNCHANGED <<jobVars, cleaned, completions, claimVars, objects, work, batch,
                   current, keys, slipped>>

\* Mutant: the claim is not compared.
ReleaseAnyClaim(c) ==
    /\ pc[c] = "fail"
    /\ Released(current[c].job)
    /\ JobDone(c)
    /\ UNCHANGED <<jobVars, cleaned, completions, objects, work, faultVars>>

\* markCleanupFailed
MarkCleanupFailed(c) ==
    /\ pc[c] = "fail"
    /\ IF OwnsClaim(c) THEN Released(current[c].job) ELSE UNCHANGED claimVars
    /\ JobDone(c)
    /\ UNCHANGED <<jobVars, cleaned, completions, objects, work, faultVars>>

\* The process dies, or markCleanupFailed fails and ends the batch: its claims stay.
DropBatch(c) ==
    /\ pc[c] # "idle"
    /\ Fault
    /\ Goto(c, "idle")
    /\ batch' = [batch EXCEPT ![c] = {}]
    /\ current' = [current EXCEPT ![c] = NoClaim]
    /\ keys' = [keys EXCEPT ![c] = {}]
    /\ UNCHANGED <<jobVars, cleaned, completions, claimVars, objects, work, slipped>>

-----------------------------------------------------------------------------
Worker(j) == \/ \E s \in Stems : UploadStem(j, s)
             \/ CheckRow(j)
             \/ CompleteJob(j)
             \/ FailJob(j)

Cleanup(c) == \/ ClaimExpiredJobs(c)
              \/ NextJob(c)
              \/ EndBatch(c)
              \/ CollectObjectKeys(c)
              \/ DeleteJobObjects(c)
              \/ MarkCleanupCompleted(c)
              \/ MarkRefused(c)
              \/ MarkCleanupFailed(c)

CleanupFault(c) == \/ DeleteSomeObjects(c)
                   \/ ListFails(c)
                   \/ MarkUnconfirmed(c)
                   \/ DropBatch(c)

Next ==
    \/ \E j \in Jobs : \/ Worker(j)
                       \/ CancelJob(j)
                       \/ Expire(j)
                       \/ ClaimTimesOut(j)
                       \/ ClaimSlips(j)
    \/ \E o \in Owners : DeleteAccount(o)
    \/ \E c \in Cleaners : Cleanup(c) \/ CleanupFault(c)

Spec == Init /\ [][Next]_vars

\* A cleanup process keeps its cycle, retention and claims run out, and a worker
\* looks at its row. Nobody owes a cancellation, a deletion or a fault.
Fairness ==
    /\ \A c \in Cleaners : WF_vars(Cleanup(c))
    /\ \A j \in Jobs : /\ WF_vars(ClaimTimesOut(j))
                       /\ WF_vars(Expire(j))
                       /\ WF_vars(CheckRow(j))

FairSpec == Spec /\ Fairness

-----------------------------------------------------------------------------
(* Properties *)

\* What the API hands out links for exists: no cleanup, of whatever claim and
\* however late, deletes an object of a completed job before its deadline.
AvailableHasObjects ==
    \A j \in Jobs : status[j] = "COMPLETED" /\ deadline[j] = "later"
                        => results[j] \subseteq objects[j]

\* Storage is recorded as deleted only when nothing is left, stems that no row
\* ever named included (comment in collectObjectKeys).
CleanedIsEmpty ==
    \A j \in cleaned \ ownerDeleted : objects[j] = {}

\* Rows and objects agree: what a row offers is there, what it reports as deleted
\* is not.
StorageSafety == AvailableHasObjects /\ CleanedIsEmpty

\* "Horizontal instances may still work concurrently because database claims
\* prevent overlap" (storageCleanup.ts): two processes hold one job only after
\* a claim timed out under its process.
ClaimsPreventOverlap ==
    \A c, d \in Cleaners : \A a \in Held(c) : \A b \in Held(d) :
        c # d /\ a.job = b.job => a.job \in slipped

\* A process that lost its claim does not release the claim of its successor: the
\* newest claim stands until its holder records a result.
NewestClaimStands ==
    \A c \in Cleaners : \A b \in Held(c) :
        b.id = attempts[b.job] => \/ claim[b.job] = b.id
                                  \/ b.job \in cleaned

\* "The older process must not complete work belonging to a newer cleanup attempt"
\* (storageCleanup.ts), so that it is recorded once, with its row's owner in view.
CompletedOnce == \A j \in Jobs : completions[j] <= 1

\* A claim that ran out under a slow process harms neither its successor nor the
\* record of the deletion.
ClaimSafety == ClaimsPreventOverlap /\ NewestClaimStands /\ CompletedOnce

\* Private audio does not stay for ever: after failed deletions, crashes and lost
\* claims an expired job is cleaned in the end.
ExpiredIsCleaned ==
    \A j \in Jobs : deadline[j] = "past" ~> j \in cleaned

\* Nor does the row of a deleted account, wherever the deletion found the cleanup.
DeletedIsForgotten ==
    \A j \in Jobs : j \in ownerDeleted ~> status[j] = "REMOVED"

\* Neither audio nor rows outlive their term for ever.
StorageEnds == ExpiredIsCleaned /\ DeletedIsForgotten

=============================================================================

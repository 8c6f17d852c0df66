--------------------------- MODULE JobProcessing ---------------------------
(***************************************************************************)
(* A job from the request that creates it to its terminal status: the jobs *)
(* table, the created topic that the outbox feeds, and the workers that    *)
(* consume it, claim a row under a lease, retry, dead-letter and commit.   *)
(*                                                                         *)
(* Every PostgreSQL transaction, Kafka call and in-memory decision of a    *)
(* worker is one action, because cancellation, another worker, a rebalance *)
(* or a crash may come between any two of them.                            *)
(*                                                                         *)
(* Abstracted: the progress percentage, error text and result keys, which  *)
(* are written by the same UPDATE as the status; the wall clock, which is  *)
(* the three-valued lease; the local workspace.                            *)
(***************************************************************************)
EXTENDS Naturals, Sequences, FiniteSets

CONSTANTS
    Jobs,         \* one per upload that is turned into a job
    Owners,       \* the users and anonymous sessions that own jobs
    Workers,      \* worker containers; the identity is the host name
    Partitions,   \* partitions of the created topic
    OwnerOf,      \* the owner of each job
    PartitionOf,  \* the partition its key hashes to
    None,         \* the SQL NULL, and "no worker"
    MaxActive,    \* MAX_ACTIVE_JOBS_PER_OWNER
    MaxAttempts,  \* MAX_PROCESSING_ATTEMPTS
    MaxFaults     \* bound on the faults of one behaviour

ASSUME JobsAssumption ==
    /\ None \notin Jobs \cup Workers
    /\ OwnerOf \in [Jobs -> Owners]
    /\ PartitionOf \in [Jobs -> Partitions]

ASSUME LimitsAssumption ==
    /\ MaxActive \in Nat \ {0}
    /\ MaxAttempts \in Nat \ {0}
    /\ MaxFaults \in Nat

VARIABLES
    \* the jobs table
    status,         \* ABSENT before the INSERT, REMOVED after the DELETE
    holder,         \* processing_worker_id
    lease,          \* processing_heartbeat_at: NULL, recent, or too old
    attempts,       \* processing_attempts
    expires,        \* storage_expires_at IS NOT NULL
    ownerDeleted,   \* rows with owner_deleted_at IS NOT NULL
    \* the outbox table and Kafka
    createdOutbox,  \* jobs whose created event is still PENDING
    statusOutbox,   \* jobs with a PENDING status event
    log,            \* the created topic
    committed,      \* the group's committed offset per partition
    owner,          \* the consumer each partition is assigned to
    deadLetters,    \* jobs on the dead-letter topic
    \* each worker process
    pc,             \* where it is
    job,            \* the job of the message it holds
    offset,         \* the position of that message
    attempt,        \* the local attempt counter
    heartbeat,      \* the lease heartbeat thread is running
    stopping,       \* SIGTERM was received
    \* observers
    seen,           \* the status the backends last announced
    faults,         \* faults so far
    slipped         \* jobs whose lease expired under a live worker

rowVars   == <<status, holder, lease, attempts, expires, ownerDeleted,
               statusOutbox>>
topicVars == <<createdOutbox, log, deadLetters, seen>>
groupVars == <<committed, owner>>
localVars == <<pc, job, offset, attempt, heartbeat, stopping>>
faultVars == <<faults, slipped>>
vars == <<rowVars, topicVars, groupVars, localVars, faultVars>>

-----------------------------------------------------------------------------
Terminal == {"COMPLETED", "FAILED", "CANCELLED"}
Leased   == {"PROCESSING", "RETRYING"}
Active   == {"PENDING"} \cup Leased
Statuses == {"ABSENT", "REMOVED"} \cup Active \cup Terminal

\* Inside handle_job's lease block.
Running == {"begin", "work", "workLookup", "complete", "failed",
            "deadLetter", "fail", "handlerLookup"}
\* Holding a message that is not committed.
Busy == {"claim", "claimed", "skipped", "done"} \cup Running
Locations == {"down", "poll"} \cup Busy

TypeOK ==
    /\ status \in [Jobs -> Statuses]
    /\ holder \in [Jobs -> Workers \cup {None}]
    /\ lease \in [Jobs -> {"null", "fresh", "stale"}]
    /\ attempts \in [Jobs -> Nat]
    /\ expires \in [Jobs -> BOOLEAN]
    /\ ownerDeleted \in SUBSET Jobs
    /\ createdOutbox \in SUBSET Jobs
    /\ statusOutbox \in SUBSET Jobs
    /\ log \in [Partitions -> Seq(Jobs)]
    /\ committed \in [Partitions -> Nat]
    /\ owner \in [Partitions -> Workers \cup {None}]
    /\ deadLetters \in SUBSET Jobs
    /\ pc \in [Workers -> Locations]
    /\ job \in [Workers -> Jobs \cup {None}]
    /\ offset \in [Workers -> Nat]
    /\ attempt \in [Workers -> 0..MaxAttempts]
    /\ heartbeat \in [Workers -> BOOLEAN]
    /\ stopping \in [Workers -> BOOLEAN]
    /\ seen \in [Jobs -> Statuses]
    /\ faults \in 0..MaxFaults
    /\ slipped \in SUBSET Jobs

Init ==
    /\ status = [j \in Jobs |-> "ABSENT"]
    /\ holder = [j \in Jobs |-> None]
    /\ lease = [j \in Jobs |-> "null"]
    /\ attempts = [j \in Jobs |-> 0]
    /\ expires = [j \in Jobs |-> FALSE]
    /\ ownerDeleted = {}
    /\ createdOutbox = {}
    /\ statusOutbox = {}
    /\ log = [p \in Partitions |-> <<>>]
    /\ committed = [p \in Partitions |-> 0]
    /\ owner = [p \in Partitions |-> None]
    /\ deadLetters = {}
    /\ pc = [w \in Workers |-> "poll"]
    /\ job = [w \in Workers |-> None]
    /\ offset = [w \in Workers |-> 0]
    /\ attempt = [w \in Workers |-> 0]
    /\ heartbeat = [w \in Workers |-> FALSE]
    /\ stopping = [w \in Workers |-> FALSE]
    /\ seen = [j \in Jobs |-> "ABSENT"]
    /\ faults = 0
    /\ slipped = {}

-----------------------------------------------------------------------------
(* Helpers *)

Goto(w, l) == pc' = [pc EXCEPT ![w] = l]

\* Mutant: the update forgets its status event.
WriteRowSilently(j, s, w, l) ==
    /\ status' = [status EXCEPT ![j] = s]
    /\ holder' = [holder EXCEPT ![j] = w]
    /\ lease' = [lease EXCEPT ![j] = l]
    /\ UNCHANGED statusOutbox

\* One UPDATE of a job row; the status event is inserted by the transaction.
WriteRow(j, s, w, l) ==
    /\ status' = [status EXCEPT ![j] = s]
    /\ holder' = [holder EXCEPT ![j] = w]
    /\ lease' = [lease EXCEPT ![j] = l]
    /\ statusOutbox' = statusOutbox \cup {j}

\* Mutant: only a worker's success starts the retention.
SettleUnretained(j, s) ==
    /\ WriteRow(j, s, None, "null")
    /\ expires' = [expires EXCEPT ![j] = @ \/ s = "COMPLETED"]
    /\ UNCHANGED <<attempts, ownerDeleted>>

\* The UPDATE that settles a row: the owner is cleared, retention starts.
Settle(j, s) ==
    /\ WriteRow(j, s, None, "null")
    /\ expires' = [expires EXCEPT ![j] = TRUE]
    /\ UNCHANGED <<attempts, ownerDeleted>>

\* The WHERE clause of every later write of a worker.
Owns(w) == holder[job[w]] = w

Fault == faults < MaxFaults /\ faults' = faults + 1

\* The message is put down, and the partitions w has go back to the group.
Released(w) == [p \in Partitions |-> IF owner[p] = w THEN None ELSE owner[p]]

PutDown(w, l) ==
    /\ Goto(w, l)
    /\ job' = [job EXCEPT ![w] = None]
    /\ offset' = [offset EXCEPT ![w] = 0]
    /\ attempt' = [attempt EXCEPT ![w] = 0]
    /\ heartbeat' = [heartbeat EXCEPT ![w] = FALSE]

Exit(w) ==
    /\ PutDown(w, "down")
    /\ stopping' = [stopping EXCEPT ![w] = FALSE]
    /\ owner' = Released(w)
    /\ UNCHANGED committed

-----------------------------------------------------------------------------
(* The backend *)

\* createJob: under the owner's advisory lock, so the count cannot be stale.
\* ABSENT is the duplicate check: an upload becomes a job once.
CreateJob(j) ==
    /\ status[j] = "ABSENT"
    /\ Cardinality({k \in Jobs : OwnerOf[k] = OwnerOf[j] /\ status[k] \in Active})
           < MaxActive
    /\ status' = [status EXCEPT ![j] = "PENDING"]
    /\ seen' = [seen EXCEPT ![j] = "PENDING"]
    /\ createdOutbox' = createdOutbox \cup {j}
    /\ UNCHANGED <<holder, lease, attempts, expires, ownerDeleted, statusOutbox,
                   log, deadLetters, groupVars, localVars, faultVars>>

\* cancelJob
CancelJob(j) ==
    /\ status[j] \in Active
    /\ Settle(j, "CANCELLED")
    /\ UNCHANGED <<topicVars, groupVars, localVars, faultVars>>

\* deleteUserAccount: active jobs are cancelled and every row is marked.
DeleteAccount(o) ==
    LET owned == {j \in Jobs : OwnerOf[j] = o /\ status[j] \notin {"ABSENT", "REMOVED"}}
        cancelled == {j \in owned : status[j] \in Active}
    IN  /\ owned \ ownerDeleted # {}
        /\ status' = [j \in Jobs |-> IF j \in cancelled THEN "CANCELLED" ELSE status[j]]
        /\ holder' = [j \in Jobs |-> IF j \in cancelled THEN None ELSE holder[j]]
        /\ lease' = [j \in Jobs |-> IF j \in cancelled THEN "null" ELSE lease[j]]
        /\ expires' = [j \in Jobs |-> expires[j] \/ j \in owned]
        /\ ownerDeleted' = ownerDeleted \cup owned
        /\ statusOutbox' = statusOutbox \cup cancelled
        /\ UNCHANGED <<attempts, topicVars, groupVars, localVars, faultVars>>

\* Storage cleanup, or the DELETE in deleteUserAccount, removes a marked row.
RemoveRow(j) ==
    /\ j \in ownerDeleted
    /\ status[j] # "REMOVED"
    /\ status' = [status EXCEPT ![j] = "REMOVED"]
    /\ holder' = [holder EXCEPT ![j] = None]
    /\ lease' = [lease EXCEPT ![j] = "null"]
    /\ UNCHANGED <<attempts, expires, ownerDeleted, statusOutbox, topicVars,
                   groupVars, localVars, faultVars>>

\* publishPendingOutboxEvents, one created event: sent and marked PUBLISHED ...
SendCreated(j) ==
    /\ j \in createdOutbox
    /\ log' = [log EXCEPT ![PartitionOf[j]] = Append(@, j)]
    /\ UNCHANGED <<deadLetters, seen, rowVars, groupVars, localVars>>

\* Mutant: marked PUBLISHED although the send failed.
PublishCreatedUnsent(j) ==
    /\ j \in createdOutbox
    /\ createdOutbox' = createdOutbox \ {j}
    /\ UNCHANGED <<log, deadLetters, seen, rowVars, groupVars, localVars, faultVars>>

PublishCreated(j) ==
    /\ SendCreated(j)
    /\ createdOutbox' = createdOutbox \ {j}
    /\ UNCHANGED faultVars

\* ... or sent while the transaction that marks it rolls back.
PublishCreatedAgain(j) ==
    /\ SendCreated(j)
    /\ Fault
    /\ UNCHANGED <<createdOutbox, slipped>>

\* A status event reaches the backends, which read the row again.
PublishStatus(j) ==
    /\ j \in statusOutbox
    /\ statusOutbox' = statusOutbox \ {j}
    /\ seen' = [seen EXCEPT ![j] = status[j]]
    /\ UNCHANGED <<status, holder, lease, attempts, expires, ownerDeleted,
                   createdOutbox, log, deadLetters, groupVars, localVars,
                   faultVars>>

-----------------------------------------------------------------------------
(* Time, the consumer group and the processes *)

HeldByLiveWorker(j) == \E w \in Workers : /\ holder[j] = w
                                          /\ job[w] = j
                                          /\ pc[w] \in Running \cup {"claimed"}

\* The worker that held the lease is gone.
LeaseExpires(j) ==
    /\ lease[j] = "fresh"
    /\ ~HeldByLiveWorker(j)
    /\ lease' = [lease EXCEPT ![j] = "stale"]
    /\ UNCHANGED <<status, holder, attempts, expires, ownerDeleted, statusOutbox,
                   topicVars, groupVars, localVars, faultVars>>

\* The lease runs out although its worker lives: PostgreSQL was out of reach, or
\* the process was paused, for the whole lease timeout.
LeaseSlips(j) ==
    /\ lease[j] = "fresh"
    /\ HeldByLiveWorker(j)
    /\ Fault
    /\ lease' = [lease EXCEPT ![j] = "stale"]
    /\ slipped' = slipped \cup {j}
    /\ UNCHANGED <<status, holder, attempts, expires, ownerDeleted, statusOutbox,
                   topicVars, groupVars, localVars>>

\* The group gives a partition to a consumer, which learns it in poll.
AssignPartition(p, w) ==
    /\ owner[p] = None
    /\ pc[w] = "poll"
    /\ owner' = [owner EXCEPT ![p] = w]
    /\ UNCHANGED <<committed, rowVars, topicVars, localVars, faultVars>>

\* A rebalance or an eviction takes it away, whatever the worker is doing.
LosePartition(p) ==
    /\ owner[p] # None
    /\ Fault
    /\ owner' = [owner EXCEPT ![p] = None]
    /\ UNCHANGED <<committed, slipped, rowVars, topicVars, localVars>>

Crash(w) ==
    /\ pc[w] # "down"
    /\ Fault
    /\ Exit(w)
    /\ UNCHANGED <<slipped, rowVars, topicVars>>

\* SIGTERM
RequestShutdown(w) ==
    /\ pc[w] # "down"
    /\ ~stopping[w]
    /\ Fault
    /\ stopping' = [stopping EXCEPT ![w] = TRUE]
    /\ UNCHANGED <<pc, job, offset, attempt, heartbeat, slipped, rowVars,
                   topicVars, groupVars>>

\* Docker starts the container again, under the same host name.
Restart(w) ==
    /\ pc[w] = "down"
    /\ Goto(w, "poll")
    /\ UNCHANGED <<job, offset, attempt, heartbeat, stopping, rowVars, topicVars,
                   groupVars, faultVars>>

-----------------------------------------------------------------------------
(* A worker: run_consumer_session, wait_for_job_claim, handle_job *)

\* Nothing is polled once the shutdown event is set; the session closes.
StopPolling(w) ==
    /\ pc[w] = "poll"
    /\ stopping[w]
    /\ Exit(w)
    /\ UNCHANGED <<rowVars, topicVars, faultVars>>

\* The next message of an assigned partition. Positions restart from the committed
\* offset with each assignment, and each message is committed before the next.
Poll(w, p) ==
    /\ pc[w] = "poll"
    /\ ~stopping[w]
    /\ owner[p] = w
    /\ committed[p] < Len(log[p])
    /\ Goto(w, "claim")
    /\ job' = [job EXCEPT ![w] = log[p][committed[p] + 1]]
    /\ offset' = [offset EXCEPT ![w] = committed[p] + 1]
    /\ UNCHANGED <<attempt, heartbeat, stopping, rowVars, topicVars, groupVars,
                   faultVars>>

\* Mutants: no lease is respected; a stale lease is not recovered; a failed job
\* is run again.
ClaimableAlways(j) == status[j] \in Active
ClaimableOnce(j) == status[j] = "PENDING"
ClaimableFailed(j) == \/ status[j] \in {"PENDING", "FAILED"}
                      \/ status[j] \in Leased /\ lease[j] \in {"null", "stale"}

Claimable(j) == \/ status[j] = "PENDING"
                \/ status[j] \in Leased /\ lease[j] \in {"null", "stale"}

\* claim_job wins the row.
ClaimJob(w) ==
    /\ pc[w] = "claim"
    /\ ~stopping[w]
    /\ Claimable(job[w])
    /\ WriteRow(job[w], "PROCESSING", w, "fresh")
    /\ Goto(w, "claimed")
    /\ UNCHANGED <<attempts, expires, ownerDeleted, job, offset, attempt,
                   heartbeat, stopping, topicVars, groupVars, faultVars>>

\* Mutant: a row another worker holds counts as unavailable.
ClaimRefusedEarly(w) ==
    /\ pc[w] = "claim"
    /\ ~stopping[w]
    /\ ~Claimable(job[w])
    /\ Goto(w, "skipped")
    /\ UNCHANGED <<job, offset, attempt, heartbeat, stopping, rowVars, topicVars,
                   groupVars, faultVars>>

\* The row is terminal or gone. A leased row is asked for again: no step.
ClaimRefused(w) ==
    /\ pc[w] = "claim"
    /\ ~stopping[w]
    /\ status[job[w]] \in Terminal \cup {"REMOVED"}
    /\ Goto(w, "skipped")
    /\ UNCHANGED <<job, offset, attempt, heartbeat, stopping, rowVars, topicVars,
                   groupVars, faultVars>>

\* Mutant: the wait for a lease does not look at the shutdown event.
AbandonOnlyAfterClaim(w) ==
    /\ pc[w] \in {"claimed", "skipped"}
    /\ stopping[w]
    /\ Exit(w)
    /\ UNCHANGED <<rowVars, topicVars, faultVars>>

\* Shutdown during the wait or just after the claim: the message stays
\* uncommitted, and a row just claimed stays claimed.
AbandonMessage(w) ==
    /\ pc[w] \in {"claim", "claimed", "skipped"}
    /\ stopping[w]
    /\ Exit(w)
    /\ UNCHANGED <<rowVars, topicVars, faultVars>>

SkipMessage(w) ==
    /\ pc[w] = "skipped"
    /\ ~stopping[w]
    /\ Goto(w, "done")
    /\ UNCHANGED <<job, offset, attempt, heartbeat, stopping, rowVars, topicVars,
                   groupVars, faultVars>>

\* JobLeaseHeartbeat.__enter__, then the first iteration of _run_attempts.
StartAttempts(w) ==
    /\ pc[w] = "claimed"
    /\ ~stopping[w]
    /\ Goto(w, "begin")
    /\ attempt' = [attempt EXCEPT ![w] = 1]
    /\ heartbeat' = [heartbeat EXCEPT ![w] = TRUE]
    /\ UNCHANGED <<job, offset, stopping, rowVars, topicVars, groupVars, faultVars>>

\* The heartbeat thread, joined when the block is left: refresh_job_lease, or
\* the end of the thread.
RefreshLease(w) ==
    /\ pc[w] \in Running
    /\ heartbeat[w]
    /\ IF Owns(w) /\ status[job[w]] \in Leased
       THEN /\ lease' = [lease EXCEPT ![job[w]] = "fresh"]
            /\ UNCHANGED heartbeat
       ELSE /\ heartbeat' = [heartbeat EXCEPT ![w] = FALSE]
            /\ UNCHANGED lease
    /\ UNCHANGED <<status, holder, attempts, expires, ownerDeleted, statusOutbox,
                   pc, job, offset, attempt, stopping, topicVars, groupVars,
                   faultVars>>

\* consumer.commit: refused when the partition is not this consumer's any more,
\* which replaces the session.
Commit(w) ==
    LET p == PartitionOf[job[w]]
    IN  /\ pc[w] = "done"
        /\ IF owner[p] = w
           THEN /\ committed' = [committed EXCEPT ![p] = offset[w]]
                /\ UNCHANGED owner
           ELSE /\ owner' = Released(w)
                /\ UNCHANGED committed
        /\ PutDown(w, "poll")
        /\ UNCHANGED <<stopping, rowVars, topicVars, faultVars>>

-----------------------------------------------------------------------------
(* A worker: _run_attempts *)

\* A write that finds its row: the worker goes on at l.
OwnedWrite(w, s, l) ==
    /\ Owns(w)
    /\ WriteRow(job[w], s, w, "fresh")
    /\ Goto(w, l)
    /\ UNCHANGED <<expires, ownerDeleted, job, offset, heartbeat, stopping,
                   topicVars, groupVars, faultVars>>

OwnedSettle(w, s, l) ==
    /\ Owns(w)
    /\ Settle(job[w], s)
    /\ Goto(w, l)
    /\ UNCHANGED <<job, offset, attempt, heartbeat, stopping, topicVars,
                   groupVars, faultVars>>

\* A step of the worker that writes nothing.
Step(w, from, to) ==
    /\ pc[w] = from
    /\ Goto(w, to)
    /\ UNCHANGED <<job, offset, attempt, heartbeat, stopping, rowVars, topicVars,
                   groupVars, faultVars>>

Cancelled(w) == status[job[w]] = "CANCELLED"

\* Any exception in the try block: a failed stage, storage or PostgreSQL out of
\* reach, or begin_job_attempt that finds no row it may start.
AttemptFails(w) ==
    \E l \in {"begin", "work", "workLookup", "complete"} : Step(w, l, "failed")

\* begin_job_attempt
BeginAttempt(w) ==
    /\ pc[w] = "begin"
    /\ status[job[w]] \in Leased
    /\ OwnedWrite(w, "PROCESSING", "work")
    /\ attempts' = [attempts EXCEPT ![job[w]] = @ + 1]
    /\ UNCHANGED attempt

\* process_audio_job alternates progress writes and cancellation checks, and
\* may end at any of them.
ReportProgress(w) ==
    /\ pc[w] = "work"
    /\ OwnedWrite(w, "PROCESSING", "work")
    /\ UNCHANGED <<attempts, attempt>>

ReportRefused(w) == Step(w, "work", "workLookup") /\ ~Owns(w)

CheckCancelled(w) == Step(w, "work", "done") /\ Cancelled(w)

WorkSucceeds(w) == Step(w, "work", "complete")

\* The COMPLETED write, acknowledged or not.
Complete(w) ==
    /\ pc[w] = "complete"
    /\ \E l \in {"done", "failed"} : OwnedSettle(w, "COMPLETED", l)

CompleteRefused(w) == Step(w, "complete", "workLookup") /\ ~Owns(w)

\* A refused write asks whether the job was cancelled, in a second transaction.
LookupInWork(w) ==
    Step(w, "workLookup", IF Cancelled(w) THEN "done" ELSE "failed")

\* Mutants: one attempt too many; the local counter is never advanced.
RetryOnceMore(w) ==
    /\ pc[w] = "failed"
    /\ attempt[w] <= MaxAttempts
    /\ OwnedWrite(w, "RETRYING", "begin")
    /\ attempt' = [attempt EXCEPT ![w] = @ + 1]
    /\ UNCHANGED attempts
RetryUncounted(w) ==
    /\ pc[w] = "failed"
    /\ attempt[w] < MaxAttempts
    /\ OwnedWrite(w, "RETRYING", "begin")
    /\ UNCHANGED <<attempts, attempt>>

\* except Exception, attempts left: RETRYING, backoff, next iteration.
Retry(w) ==
    /\ pc[w] = "failed"
    /\ attempt[w] < MaxAttempts
    /\ OwnedWrite(w, "RETRYING", "begin")
    /\ attempt' = [attempt EXCEPT ![w] = @ + 1]
    /\ UNCHANGED attempts

RetryRefused(w) ==
    /\ Step(w, "failed", "handlerLookup")
    /\ attempt[w] < MaxAttempts
    /\ ~Owns(w)

\* Mutant: FAILED is written without the dead letter.
LastCheckSkipsDeadLetter(w) ==
    /\ attempt[w] = MaxAttempts
    /\ Step(w, "failed", IF Cancelled(w) THEN "done" ELSE "fail")

\* except Exception, last attempt: raise_if_job_cancelled ...
LastCheck(w) ==
    /\ attempt[w] = MaxAttempts
    /\ Step(w, "failed", IF Cancelled(w) THEN "done" ELSE "deadLetter")

\* ... publish_dead_letter ...
PublishDeadLetter(w) ==
    /\ pc[w] = "deadLetter"
    /\ deadLetters' = deadLetters \cup {job[w]}
    /\ Goto(w, "fail")
    /\ UNCHANGED <<createdOutbox, log, seen, job, offset, attempt, heartbeat,
                   stopping, rowVars, groupVars, faultVars>>

\* ... (not acknowledged within ten seconds, delivered all the same or not) ...
DeadLetterUnconfirmed(w) ==
    /\ pc[w] = "deadLetter"
    /\ Fault
    /\ deadLetters' \in {deadLetters, deadLetters \cup {job[w]}}
    /\ Exit(w)
    /\ UNCHANGED <<createdOutbox, log, seen, slipped, rowVars>>

\* ... and the FAILED write.
FailJob(w) ==
    /\ pc[w] = "fail"
    /\ OwnedSettle(w, "FAILED", "done")

FailRefused(w) == Step(w, "fail", "handlerLookup") /\ ~Owns(w)

\* A refused write in the handler: JobCancelled ends the job, RuntimeError the
\* process.
LookupInHandler(w) == Step(w, "handlerLookup", "done") /\ Cancelled(w)

DieInHandler(w) ==
    /\ pc[w] = "handlerLookup"
    /\ ~Cancelled(w)
    /\ Exit(w)
    /\ UNCHANGED <<rowVars, topicVars, faultVars>>

-----------------------------------------------------------------------------
Backend ==
    \/ \E j \in Jobs : \/ CreateJob(j)
                       \/ CancelJob(j)
                       \/ RemoveRow(j)
                       \/ PublishCreated(j)
                       \/ PublishCreatedAgain(j)
                       \/ PublishStatus(j)
    \/ \E o \in Owners : DeleteAccount(o)

Environment ==
    \/ \E j \in Jobs : LeaseExpires(j) \/ LeaseSlips(j)
    \/ \E p \in Partitions : \/ LosePartition(p)
                             \/ \E w \in Workers : AssignPartition(p, w)
    \/ \E w \in Workers : Crash(w) \/ RequestShutdown(w) \/ Restart(w)

Attempts(w) ==
    \/ BeginAttempt(w)      \/ AttemptFails(w)
    \/ ReportProgress(w)    \/ ReportRefused(w)
    \/ CheckCancelled(w)    \/ WorkSucceeds(w)
    \/ Complete(w)          \/ CompleteRefused(w)
    \/ LookupInWork(w)
    \/ Retry(w)             \/ RetryRefused(w)
    \/ LastCheck(w)
    \/ PublishDeadLetter(w) \/ DeadLetterUnconfirmed(w)
    \/ FailJob(w)           \/ FailRefused(w)
    \/ LookupInHandler(w)   \/ DieInHandler(w)

Session(w) ==
    \/ StopPolling(w)   \/ (\E p \in Partitions : Poll(w, p))
    \/ ClaimJob(w)      \/ ClaimRefused(w)
    \/ AbandonMessage(w) \/ SkipMessage(w)
    \/ StartAttempts(w) \/ RefreshLease(w)
    \/ Commit(w)

Next == Backend \/ Environment \/ \E w \in Workers : Session(w) \/ Attempts(w)

Spec == Init /\ [][Next]_vars

\* The main thread of a worker runs on, and the processing of one attempt ends;
\* the publisher and the lease clock tick, the group assigns what is free,
\* and Docker restarts what died. No fault and no request is ever owed.
Fairness ==
    /\ \A w \in Workers :
         /\ WF_vars(Session(w))
         /\ WF_vars(Attempts(w) /\ pc'[w] # pc[w])
         /\ WF_vars(Restart(w))
    /\ \A j \in Jobs : /\ WF_vars(PublishCreated(j))
                       /\ WF_vars(PublishStatus(j))
                       /\ WF_vars(LeaseExpires(j))
    /\ \A p \in Partitions : WF_vars(\E w \in Workers : AssignPartition(p, w))

FairSpec == Spec /\ Fairness

-----------------------------------------------------------------------------
(* Properties *)

Settled(j) == status[j] \in Terminal \cup {"REMOVED"}

\* A committed offset never covers a job that still needs a worker, whatever
\* crashes, shutdowns and rebalances came between claim and commit (README.md,
\* "offsets are committed only after a job reaches a terminal state").
CommittedIsSettled ==
    \A p \in Partitions : \A i \in 1..committed[p] :
        i \in DOMAIN log[p] => Settled(log[p][i])

\* The outbox and the consumer group between them never lose a job: as long as
\* it is active, its created event waits in the outbox or is above the
\* committed offset, so that some worker will be handed it.
Queued(j) ==
    \/ j \in createdOutbox
    \/ \E i \in DOMAIN log[PartitionOf[j]] : /\ i > committed[PartitionOf[j]]
                                             /\ log[PartitionOf[j]][i] = j
NoLostJob == \A j \in Jobs : status[j] \in Active => Queued(j)

\* Outbox, topic and committed offsets together: what still needs a worker is
\* ahead of the group, and what the group has passed needs none.
QueueSafety == CommittedIsSettled /\ NoLostJob

\* Two workers are never processing one job at a time unless the lease of a
\* living worker ran out: not after a crash, a redelivery, a duplicate
\* created event, a cancellation or a rebalance (docstring of
\* wait_for_job_claim).
ExclusiveProcessing ==
    \A v, w \in Workers :
        /\ v # w
        /\ pc[v] \in Running
        /\ pc[w] \in Running
        /\ job[v] = job[w]
        => job[v] \in slipped

\* A job is FAILED only when the dead-letter topic has its event, also when the
\* worker died between the two (comment before the FAILED update).
FailedIsDeadLettered ==
    \A j \in Jobs : status[j] = "FAILED" => j \in deadLetters

\* What the backends last announced is out of date only while a status event is
\* waiting in the outbox: no committed change goes unannounced.
NoLostNotification ==
    \A j \in Jobs : \/ seen[j] = status[j]
                    \/ j \in statusOutbox
                    \/ status[j] = "REMOVED"

\* Whoever settles a job starts its retention period, or its files would stay
\* in storage for ever.
SettledExpires == \A j \in Jobs : Settled(j) => expires[j]

\* Whoever settles a job, and whichever effect of it fails, none of its traces is
\* missing: the dead letter, the announcement, the retention period.
SettlingIsComplete == FailedIsDeadLettered /\ NoLostNotification /\ SettledExpires

\* Every claim of a row buys at most MaxAttempts attempts and costs a fault,
\* although the local counter starts again with each delivery.
AttemptsBounded ==
    \A j \in Jobs : attempts[j] <= MaxAttempts * (1 + faults)

\* Nothing moves a settled job to another status, although a worker's update
\* checks only who holds the row: the status is not in its WHERE clause.
TerminalIsFinal ==
    [][\A j \in Jobs : Settled(j) => status'[j] \in {status[j], "REMOVED"}]_status

\* A job is processed, or cancelled, in the end.
EveryJobSettles == \A j \in Jobs : status[j] = "PENDING" ~> Settled(j)

\* A worker asked to stop does, whatever it was waiting for.
ShutdownCompletes == \A w \in Workers : stopping[w] ~> pc[w] = "down"

\* The pipeline implements JobLifecycle: every step of workers, consumer group
\* and outbox is one of its steps or leaves status and queue alone.
Lifecycle == INSTANCE JobLifecycle
                 WITH queued <- {j \in Jobs : Queued(j)}
ImplementsLifecycle == Lifecycle!Spec

=============================================================================

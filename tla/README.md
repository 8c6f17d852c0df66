# A specification of the audio processing system

TLA+ modules, TLC configurations and TLAPS proofs for the distributed audio processing system in this
repository: an Express backend with several replicas, PostgreSQL, a Kafka topic fed by a transactional
outbox, Python workers that run Demucs, S3-compatible object storage with a cleanup process, and a browser
that follows its job over a WebSocket. Every definition is written from the source; `PROJECT.json` maps
each one to the lines it stands for.

    tlc  -workers 2 -config JobProcessing_one.cfg JobProcessingMC.tla
    tlc  -workers 2 -config BrowserApp.cfg BrowserAppMC.tla
    tlapm JobProcessing_proofs.tla        (and the other *_proofs modules; BrowserApp_proofs takes some minutes)

## The system

| Component | State | Operations | Talks to |
|---|---|---|---|
| Job service (`services/jobService.ts`, `routes/jobs.ts`) | `jobs` rows | createJob, cancelJob, findOwnedJob | PostgreSQL; outbox rows in the same transaction |
| Transactional outbox (`kafka/outboxPublisher.ts`, `kafka/producer.ts`) | `outbox_events` rows, PENDING or PUBLISHED; one pass and one producer per replica | a batch under row locks: send, mark, note a failure, commit | Kafka, at least once |
| Backend process (`server.ts`, `kafka/jobStatusConsumer.ts`) | timers, the promises of the consumer, requests being handled | start with retries, ordered shutdown, forced exit | Kafka, PostgreSQL |
| Job worker (`worker/*.py`) | its message, offset and attempt; the row's lease | claim, heartbeat thread, attempts, retry, dead letter, settle, commit, shutdown | Kafka, PostgreSQL, storage |
| Demucs child (`demucs_process.py`, `demucs_runner.py`) | a process, a reader thread, files in the workspace | spawn, supervise, stop | the worker's parent process |
| Storage cleanup (`services/storageCleanup.ts`, `cleanup.ts`) | claim columns of `jobs`, a batch in memory | claim, list, delete, record | PostgreSQL, storage |
| Accounts and sessions (`auth/*.ts`) | `users`, `user_sessions`, owner of jobs | register, login (adopt anonymous jobs), change password, delete account, revoke | PostgreSQL |
| Realtime server (`websocket/*.ts`, `kafka/jobStatusConsumer.ts`) | sockets, one subscription each, timers | authenticate, subscribe, refresh, heartbeat, close | browsers, PostgreSQL, status topic |
| Realtime client (`frontend/src/realtime`, `hooks/useSelectedJob.ts`) | one socket, three timers, flags, the screen | open, reconnect, poll, deliver, clean up | realtime server, HTTP API |
| Worker registry (`worker_presence.py`, `worker_registry.py`, `operationsService.ts`, `useWorkerAvailability.ts`) | `worker_instances` rows, the page's status | register, heartbeat, activity, unregister, aggregate, poll | PostgreSQL, HTTP API |
| Browser application (`hooks/*.ts`, the panels in `components`, `api/*.ts`) | user, history, selected job, links, sessions, busy flags | start, sign in and out, manage the account, upload, cancel, select, receive updates | HTTP API, realtime client |
| Upload admission (`routes/uploads.ts`, `services/audioStorage.ts`) | none | validate, sign, verify the object | storage |
| Configuration, middleware, deployment | environment | | |

What makes these correct, and what makes that hard:

* **Job processing.** A job runs on one worker at a time, is not lost, is announced, ends in one terminal
  status that nothing changes, and is dead-lettered if it fails. The claim, the heartbeat, the attempts, the
  dead letter, the settling update and the Kafka commit are separate effects on three systems; a
  cancellation, an account deletion, a takeover, a rebalance, a SIGTERM or a crash may fall between any two.
* **Separation.** A child process works in parallel with a parent that sees the row only when it writes
  progress or checks; the child may hang, fail or outlive its attempt.
* **Storage.** Objects are deleted by processes that may be slow, fail half-way or lose their claim, while the
  worker may still write and the account may be deleted.
* **Realtime.** Every database read is a gap in which commands, events, closes and other reads are handled;
  on the browser's side an HTTP poll and a socket deliver the same job.
* **Accounts.** Statements of one transaction interleave with those of other requests.
* **Outbox and backend process.** Two replicas lock, send and mark batches; a failed statement aborts the whole
  batch after some of it was sent; a shutdown meets passes, starts, requests and the queries of
  WebSockets that use what it closes.
* **Registry.** Two threads write one row, rows age, are swept and may be lost, and answers overtake each other.
* **Browser.** Every call is a gap in which the user goes on and other answers arrive: identity, history,
  selection, links and subscription are set by different continuations and must belong together.

`PROJECT.json` lists each hazard at its line with the property that covers it.

## Modules

### JobProcessing (with JobLifecycle and JobProcessingMC)

The jobs table, the created topic, the consumer group and the workers. A row is `status`, `holder`
(`processing_worker_id`), `lease` (`processing_heartbeat_at`: NULL, recent enough, or too old), `attempts`,
`expires`, `ownerDeleted`. `createdOutbox` and `statusOutbox` are the pending outbox rows, `log` and
`committed` the topic with its offsets, `owner` the assignment. A worker's `pc` names the point of
`run_consumer_session`, `wait_for_job_claim` or `_run_attempts` it is at; every transaction, Kafka call and
decision is one action.

Points a reader of the code may look for:

* `Complete` may be acknowledged or not: if not, the exception branch of `_run_attempts` runs on a row that
  is COMPLETED. `LookupInWork` and `LookupInHandler` are the second transaction with which
  `update_job_status` finds out why it found no row; the row may change again before it.
* `ClaimRefused` has no action for a row leased by another worker: the loop waits and asks again.
* `RefreshLease` is the heartbeat thread; `LeaseExpires` needs no living holder, `LeaseSlips` is the fault
  that it runs out all the same (a paused process, PostgreSQL out of reach).
* `Commit` of a partition that was taken away fails and ends the session, as `main.py` does.
* `AttemptFails` is any exception in the try block. `ReportProgress` repeats without bound; the progress
  value, the error text and the result keys are in the same UPDATE as the status and are left out.
* `DeleteAccount` is one step on the rows; see "Not modelled".

`JobLifecycle` is what the pipeline promises: a submitted job stays queued until it is settled, moves only
along the documented statuses, and does not move afterwards. `ImplementsLifecycle` is the refinement, with
`queued` mapped to "in the outbox or above the committed offset".

### DemucsProcess

The attempts of one job inside one worker: the parent (`run_demucs`, `upload_demucs_results`,
`_run_attempts`), the child of each attempt and the files in the job's workspace, which is the same path for
every attempt. `row` is what the database would answer: this worker's, cancelled, or lost (taken over, or
removed with its account). An event in the queue is always possible, so every order and loss of the
lines a child prints is covered. `strays` is an observer: the earlier children that were still running when the attempt
cleaned its directory, the one exception of `CompletedIsWhole`.

### StorageCleanup (with StorageCleanupMC)

The objects of each job, the worker that adds to them, the retention deadline, account deletion and the
cleanup processes. A claim's UUID is the number of the attempt that drew it. A process holds a `batch`, the
`current` claim and the `keys` it collected; listing, deleting and recording are separate steps. A batch is a
set, because `UPDATE ... RETURNING` keeps no order. `Expire` is enabled only when the worker has stopped:
the retention is counted in whole hours and a worker looks at its row every half second. An account deletion has no
such delay, and that is the case in which objects are left behind.

### JobSubscription

The WebSocket side of one replica. `findOwnedJob` is three steps (call, evaluation, continuation), for a
subscribe command (`pending`) and for a refresh (`reads`), so that anything may be handled in between. `version` is
`subscriptionVersion`; a subscription carries the id of the command that made it, which stands for the
object identity `refreshSubscription` compares. A row is a version that grows to `Last` (terminal), or `Gone`.
The consumer also awaits the refreshes of one event before it takes the next; the model allows more.

### RealtimeClient

The closure of `startJobSubscription` and the screen above it: the flags and timers by name, each connection
with its messages, HTTP polls in flight, and `shown`, the version the user sees. A timer that is set may fire
at any time. The server is what JobSubscription promises: states in order, ending at the newest; its actions are
mapped to the code of the backend, and only the network is external.

### Accounts

Requests of browsers on the tables `jobs`, `users` and `user_sessions`. A request is received with the principal it
resolves (`Receive`) and uses it in later steps, one per SQL statement. `tx` is what its open transaction wrote: the
rows in it are locked, and change for the others at COMMIT. The request's number is also the number of the
job it creates or the session it opens. `late` is an observer: the jobs that became a user's after the deletion of
that user had begun; `DeletionReachesJobs` is about the others. Workers and the cleanup are one action
each (`SettleJob`, `CleanJob`), the last UPDATE of the components modelled above.

### Backend (with OutboxDelivery)

The process of each replica and the table they share. `pub` is the pass of `publishPendingOutboxEvents` a replica
is in: what it has claimed (and so locked), handled and marked; `isPublishing` is `pc # "idle"`. Each `await` is an
action and may fail: `ConnectProducer`, `Claim` (BEGIN and SELECT ... SKIP LOCKED), `Send`, `Mark`,
`NoteFailure`, `CommitBatch`, `Rollback`. A failed send is noted and the batch goes on; a failed statement
aborts the transaction, so the UPDATE of the catch block fails with it and the pass is rolled back, with
everything it had sent still on the topic. A send or a COMMIT may also take effect and look as if it failed.
`listener` and `retry` are `startPromise`, `runPromise` and the retry timer of the status consumer, `proc` is the
phase of `shutdown`: stopping, disconnecting the producer, ending the pool. `web` is what the WebSockets of a
closing process still do: a socket that is not closed yet, the kinds of queries under way (`command` for a
principal or a subscribe, `refresh`), an interval that was set after its socket closed. While the process serves, their use of the pool
concerns nothing else here and JobSubscription has it; what is left of it when the wait ends is therefore chosen in `AllStopped`. A forced exit, a second process started by Docker
and a crash at any point are included. Events are ordered by `created_at`; their topic, key and payload are left out.

`OutboxDelivery` is what the outbox promises: submitted, then delivered at least once, then retired, and each
submitted event gets there. Backend implements it, fairness included.

### WorkerPresence (with WorkerRegistry)

`WorkerRegistry` declares what the workers, the API and the page share and says what its rows are to say at every
moment; `WorkerPresence` extends it with the behaviour. A registry row is an activity and an age (fresh, past its timeout, older than a day). `main` and `beat`
are the two threads of a worker with one step per transaction, so that "no row" and the registration which
follows can be split by the other thread. `doing` is what the main thread has reported, or is about to. The
observers are sets of workers: `missed`, whose row was lost, or whose report failed, since the last report that
arrived; `lost`, whose row was lost since the process started; `reset`, whom the heartbeat thread has registered
again since the last report; `left`, whose row was removed by a graceful stop.
The page's requests overlap, because its interval does not wait. `current_job_id` and the number of workers in the
answer are left out; the page is modelled while its backend is connected.

### BrowserApp (with BrowserAppMC)

The state that the hooks of the page keep and the calls that are in flight. A call is a record: its kind, the session
it was sent with, the snapshot in its answer. `Handle` is the route of the API with all its checks, as one step;
`Lose` is a call that fails before or after the API acted (a lost update changes nothing on the page, so it is
one that was not asked for); `Arrive` is the continuation of the `await`, which may start the next call. The
user acts at any time a control is enabled. Sessions are numbered, so that a cookie outlives the session it
names; `login` also stands for `register`, which continues in the same way. A job that failed counts as
"cancelled": it is final and without results.

The subscription of the selected job does what RealtimeClient shows: it asks for the row again and again, two requests
may be in flight, and it ends with the first terminal update (`ended`). `watching` is `subscribedJobId`, which stays
after that. A selection sets it to null and to the new id in one render, so that re-selecting the id of an ended
subscription starts none. A request of a subscription that was given up may still be answered (`old`). What an
ended subscription asks while the links of its job are awaited, and two equal snapshots of an active job, are left out.
`over` is an observer, the jobs the history has ever shown as final, and the one exception of
`ScreenIsConsistent`: only a list or a poll that was answered late can show such a job as active again, and
nothing need follow it then.

`WorkspaceMatchesIdentity` has exceptions, which the model states instead of hiding: it does not hold after a
call of `Identity`, or of the history, was lost or failed, nor after two calls overlapped that `Conflict` names (a sign-in, sign-out or
deletion with an update, a cancellation or the sessions; a load of the history with another or with the creation of a
job). Each exception is needed: without any one of them TLC finds a page that shows the job, the list or the sessions of another identity, or lacks a
job. What the property says of every other overlap, an upload that runs during a sign-in for instance, is the point of it.

## Runs

| Run | Instance | Question |
|---|---|---|
| `processing_one_job` | 1 job, 2 workers, 2 attempts, 1 fault | type, one worker per job, complete settling, attempts; every job settles, every shutdown ends |
| `processing_two_jobs` | 2 jobs in one partition, 2 workers, 1 attempt, 2 faults | committed offsets and no lost job, refinement of JobLifecycle |
| `backend` | 2 replicas, 2 events, batches of 2, 1 fault, 1 signal | duplicates, order of the shutdown, refinement of OutboxDelivery with its liveness; the consumer gets started |
| `demucs` | 2 attempts, 2 stems, 2 faults | complete results, stopped children, cancellation without the child's help |
| `cleanup` | 2 jobs, 2 processes, batches of 2, 1 fault | rows and objects agree, claims; expired jobs are cleaned, deleted accounts forgotten |
| `subscription` | 1 socket, 2 jobs, 2 commands, 1 fault | current subscriptions, order of updates; intervals repair what was missed, and end |
| `client` | 2 versions of a job, 2 polls in flight, 4 faults | one connection, quiet after the end; the end is noticed |
| `accounts` | 3 requests of 2 browsers, 2 users, 2 uploads, limit 1, 1 fault | job limit and one job per upload, adoption, complete deletion; every request ends |
| `browser` | 2 accounts, 1 old job and 1 new, 3 actions, 2 updates in flight, 1 fault | screen, workspace and flags after every order of answers |
| `presence` | 2 workers, 2 requests in flight, 2 mishaps | true activity, no row of a stopped worker; the page follows the workers |
| `demucs_stems` | 2 attempts, 1 fault | violation: a job completes with a file of another attempt |
| `accounts_deleted` | 3 requests of 1 browser, no fault | violation: a deleted account owns an unmarked job |

Safety and liveness of a component share one run, under the specification with fairness. Related properties are
checked as one definition with named parts (`SettlingIsComplete`, `QueueSafety`, `StorageSafety`, `ClaimSafety`,
`AdmissionLimits`, `DeletionIsComplete`, ...), and each part has a mutant.

**Bounds.** `MaxFaults` (`MaxMishaps` in the registry) counts what the environment may do wrong (crash, SIGTERM, rebalance, duplicate
event, slipped lease or claim, failed call, lost event). In `processing_two_jobs` and `demucs` the second
may hit the recovery from the first: a crash, then a rebalance while the job is processed again. In `presence` it may hit the repair of a lost row. The
temporal properties of `processing_one_job`, `cleanup` and `subscription` are checked after one; the safety
properties of `processing_one_job` are proved for any number of faults. Cancellation,
account deletion and row removal are not counted and may always happen. Two workers are enough for a takeover and its taken-over
holder; two attempts separate "attempts left" from "last attempt"; two jobs in one partition are needed for an
offset to pass a job, and one attempt is enough there. In RealtimeClient the third lost connection starts polling,
so three faults reach it and a fourth may hit the polls. `MaxCommands` 2 gives one command that overtakes another; with `Last` 1 a row of
`subscription` is active or terminal, which is all its guards tell apart. Three requests of
Accounts are enough for a job, a sign-in and a deletion, or for two creations at the limit after an adoption. The
model of JobProcessing is independent of the number of partitions as long as they are different owners' affair, so one is used. Two events in batches of two
let one replica hold both, or each hold one. Three actions of the user are enough for a workflow, one that overtakes it and a
third that meets both (an upload, a sign-in and a sign-out); a job from before and a new one are enough for
every pair of jobs on the screen; two updates in flight are an older and a newer answer of one subscription, or one of a
subscription that was given up beside one of the current.

`Symmetry` of BrowserAppMC makes the accounts interchangeable in `browser`, which checks invariants only.
`FullSymmetry` and `PipelineView` are used in `processing_two_jobs` only, which has no liveness property.
(Its refinement is checked with them as a safety property: JobLifecycle states no fairness, and its state is a
function of the view, with jobs treated alike.) `PipelineView` leaves out `seen`, `statusOutbox` and `attempts`: no guard of another action reads them and the properties of that run do
not mention them. Deadlock is not checked, since a system whose jobs are settled, or whose faults are used
up with every browser gone, may stop.

**Fairness.** In JobProcessing the main thread of a worker runs on and an attempt ends (Demucs ends or fails,
which `pc'[w] # pc[w]` says: progress writes alone do not count), the publisher and the lease clock tick, the
group assigns free partitions and Docker restarts containers. In DemucsProcess only the parent is fair, and no event of the child is owed.
In StorageCleanup the cleanup loop and the two timeouts run, and a worker looks at its row. In JobSubscription timers fire,
queries end, and a browser that is there answers pings. In RealtimeClient events and timers fire and the
server answers. In Accounts PostgreSQL answers, and nothing else is owed.
In Backend the event loop runs timers and continues what was answered, requests and the queries of WebSockets end, and Docker
starts a process again; no peer owes the close of a socket. In WorkerPresence the heartbeat thread
runs, because it is a thread of its own while Demucs works; a report or a removal ends; the row of a worker that is gone ages; and the interval of
the page goes on. BrowserApp has no fairness, because `fetch` has no timeout and a user owes nothing: its properties are about
what is shown, and `FlagsFollowCalls` says that no control stays disabled once its call is over. Weak fairness suffices everywhere, and no user, fault, signal or cancellation is ever owed.

## What the violations show

Each is a disagreement between a sentence in the repository and what the code does; `findings` quotes both.

* `run_demucs` stops its child only when it finds the row cancelled. The child of an attempt that failed on a
  database error lives on and shares its directory with the next attempt, which may upload its half-written file.
* `deleteUserAccount` finds the jobs that exist when its UPDATE runs. A createJob that resolved its principal
  earlier inserts a job for an owner that is gone; a login in flight hands over adopted jobs in the same way.
  `accounts` shows that the jobs present when the deletion begins are all reached.

## What else the models show

These have no run of their own. The models contain each behaviour, and the properties above are stated so that
they hold in its presence.

* A stem that a worker uploads after the prefix of a deleted account's job was listed stays in storage when the row
  goes; `CleanedIsEmpty` excepts deleted accounts for it.
* A subscribe command answered after its socket closed leaves a subscription and an interval behind, until the job
  ends (`IntervalsEnd` says that it does end).
* `closeServer` waits for the sockets and for none of their queries (jobUpdates.ts:193-201): resolving a principal, a
  subscribe or a refresh may still be reading when the pool is ended, and an interval set by a subscribe that was answered
  after its socket closed fires on a pool that is ending and is refused, contrary to the comment "without new
  work trying to use them" (server.ts:294-295). `ResourcesOutliveUsers` is about everything else, and
  the process exits when the connections in use are back.
* The browser does nothing after a failed subscribe command, hence the third case of `EndIsNoticed`.
* A job on the dead-letter topic may still become COMPLETED, because the dead letter precedes the FAILED
  update and is not part of its transaction.
* A history list or a poll that is answered late may show as active a job the page had been told is over. If the
  subscription of that id has ended, or was given up, nothing follows the job then: `subscribedJobId` is set to null and
  back in one render (useSelectedJob.ts:112-127), so the effect does not run again (useJobWebSocket.ts:27-43), and
  the subscription ended for good at its terminal update (realtime/jobSubscription.ts:113-123).
  The job stays active on the screen until another one, or a newer snapshot of it, is selected; `over` is the observer.
* A status consumer whose loop ended with an error is not started again by its process; the browsers of that
  replica then live on the safety interval.
* A heartbeat thread that found no row registers the worker as IDLE, even if the main thread has registered it and
  reported BUSY in between: the busy worker is counted as available until its next report, and the heartbeats that
  follow do not repair it, contrary to the comment in `_set_activity` (worker_presence.py:70-71). `ReportsStand`
  allows this (`reset`) only to a worker whose row was lost.
* A failed report of the end of a job leaves the row of an idle worker BUSY until its next job.

## Proofs

Eight modules prove every invariant and every action property that a run checks, for every value of the
constants: any number of jobs, accounts, owners, workers, replicas, sockets, requests, stems, versions, attempts, actions and
faults. Each proof rests on the assumption its component's module states and TLC evaluates, and on nothing
else: `JobsAssumption` and `LimitsAssumption`, `CleanupAssumption`, `SubscriptionAssumption`, `BackendAssumption` (which
says that the replicas are finitely many), `AccountsAssumption`, `ClientAssumption`, `DemucsAssumption`,
`PresenceAssumption` and `BrowserAssumption`. There is one module for each component, except that `Worker_proofs` is about the
two models of what a worker keeps beside its job: it extends DemucsProcess and WorkerRegistry, and takes the behaviour of the
registry as the instance `W` of WorkerPresence, because both models have an `Init` and a `Next`.

| Module | Theorem | Property |
|---|---|---|
| JobProcessing_proofs | TypeCorrect | TypeOK |
| JobProcessing_proofs | RetentionStarts | SettledExpires |
| JobProcessing_proofs | TerminalStatusFinal | TerminalIsFinal |
| JobProcessing_proofs | CommitsAreSafe | CommittedIsSettled |
| JobProcessing_proofs | JobsAreNotLost | NoLostJob |
| JobProcessing_proofs | OneWorkerPerJob | ExclusiveProcessing |
| JobProcessing_proofs | FailedJobsAreDeadLettered | FailedIsDeadLettered |
| JobProcessing_proofs | ChangesAreAnnounced | NoLostNotification |
| JobProcessing_proofs | QueueIsSafe | QueueSafety |
| JobProcessing_proofs | SettlingCompletes | SettlingIsComplete |
| JobProcessing_proofs | AttemptsAreBounded | AttemptsBounded |
| JobProcessing_proofs | PipelineImplementsLifecycle | ImplementsLifecycle |
| StorageCleanup_proofs | TypeCorrect | TypeOK |
| StorageCleanup_proofs | ClaimsAreSafe | ClaimSafety |
| StorageCleanup_proofs | StorageIsSafe | StorageSafety |
| JobSubscription_proofs | TypeCorrect | TypeOK |
| JobSubscription_proofs | SubscriptionsStayCurrent | SubscriptionsAreCurrent |
| JobSubscription_proofs | UpdatesAreOrdered | UpdatesMoveForward |
| Backend_proofs | TypeCorrect | TypeOK |
| Backend_proofs | CopiesAreOwed | DuplicatesNeedFaults |
| Backend_proofs | ShutdownIsOrdered | ResourcesOutliveUsers |
| Backend_proofs | OutboxDelivers | the safety half of ImplementsDelivery |
| Accounts_proofs | TypeCorrect | TypeOK |
| Accounts_proofs | LimitsHold | AdmissionLimits |
| Accounts_proofs | DeletionReachesAll | DeletionIsComplete |
| Accounts_proofs | AdoptionIsFinal | AdoptedOnce |
| RealtimeClient_proofs | TypeCorrect | TypeOK |
| RealtimeClient_proofs | ConnectionsBounded | ConnectionsAreBounded |
| Worker_proofs | TypeCorrect | TypeOK (DemucsProcess) |
| Worker_proofs | CompletedWithWholeStems | CompletedIsWhole |
| Worker_proofs | CancelledChildrenStop | CancelledIsStopped |
| Worker_proofs | RegistryTypeCorrect | RegistryTypeOK |
| Worker_proofs | PresenceHolds | PresenceIsTrue |
| BrowserApp_proofs | TypeCorrect | TypeOK |
| BrowserApp_proofs | ControlsFollowCalls | FlagsFollowCalls |
| BrowserApp_proofs | ScreenStaysConsistent | ScreenIsConsistent |
| BrowserApp_proofs | WorkspaceStaysMatched | WorkspaceMatchesIdentity |

The argument about JobProcessing has six layers.

1. `TypeInv` adds to TypeOK that a worker with a message has a job.
2. `RowInv` says what the columns of a row say of each other. Its main conjunct, that only a PROCESSING or
   RETRYING row has a holder, is why an UPDATE that checks the holder and not the status cannot touch a settled
   job (`OwnedIsLeased`, `SettledStays`).
3. `StepEffect` and `SafetyEffect` summarise the forty actions in the few effects the invariants depend
   on, so that each later proof splits on effects and not on actions.
4. `QueueInv` relates the offset a worker holds to its partition's committed offset, the log to
   the rows and the outbox to the log; `DeadLetterInv` says that a worker about to write FAILED has
   published; `LeaseInv`, that a worker which has begun a job holds it under a running lease, unless the job is settled or its lease
   slipped, and that no other does. `NoLostNotification` is inductive with `RowInv`.

5. `BudgetInv` counts attempts. A leased row has used up no more than MaxAttempts for each fault so far, unless a
   worker works on it under a lease that runs; that worker's local counter then stands for what it has
   spent of one more budget. A row comes into other hands only when its worker is gone or its lease has run out,
   which costs a fault, or when its worker never began. `HandlerInv` excludes the one exit without a fault: a process that dies of a refused write holds no row.
6. For the refinement, `PipelineEffect` says what a step may do to the four variables the mapping is made of. Sending
   an event leaves its job queued (`SendKeepsQueued`), a commit takes at most the job of its own message out of
   the queue, which is settled (`CommitForgets`), and `NoLostJob` gives the abstract guard that a job is started,
   tried again or finished only while it is queued. `DeletedInv` is why RemoveRow removes settled rows only.

None of the properties is inductive by itself: `CommittedIsSettled`, for instance, fails in a state with a
worker at `done` whose job is active, which `QueueInv` excludes.

For WorkerPresence (in Worker_proofs), `PresenceInv` adds that the row of a running process is there unless it was
lost, that only then its heartbeat thread is about to register it again, and that a main thread at rest has nothing
left to report. A step of one worker leaves the others `Undisturbed`: their row stays, or goes and that is noted, so
that each action is proved for its own worker alone.

For StorageCleanup, `ClaimStepEffect` says what a step may do to the claims: leave them (`Quiet`), let one run out
(`Late`), take free rows (`Claimed`) or record the result of a claim that stands (`Ended`). `ClaimInv` adds to ClaimSafety
what makes it inductive: a row's claim number is NULL or the number of its last attempt, no two processes hold
one number, and a claim that is outdated or overdue in a process's hands is one that slipped. `ObjectInv` adds that
a row is claimed only after its deadline, when its worker has stopped unless the owner's account was deleted, so that what was
listed is all there is.

For JobSubscription, `CommandInv` says that commands are numbered: no two queries under way have one number, none has
the number of the subscription, and the newest subscribe is for the job wanted. `ReadInv` says that a
subscription has one read under way at most, whose answer is neither ahead of the row nor behind what was sent;
without it `UpdatesMoveForward` fails from a state with two reads of one subscription, which the
isRefreshing guard excludes. `BegunOn`, `Sent` and `Set` summarise the three steps that change a subscription.

For Backend, `LockInv` says what FOR UPDATE SKIP LOCKED gives: no two passes have claimed one event, a claimed event is
pending, and what is about to be marked or is PUBLISHED was sent. `DuplicatesNeedFaults` is not inductive, since
a pass that will be rolled back leaves copies behind and no trace of them in the row. `CopiesInv` therefore lets one
copy go free only while the row says PUBLISHED or the pass that sent it can still record it (`Kept`), has every
other copy paid for with a fault, and charges each failed start of the status consumer in advance, because it may take down its process and with it one pass. `LifeInv` adds
that a process that is not up starts nothing and that one that has stopped has no socket left;
`WebSocketsApart`, that the WebSockets of a closing process touch nothing else. For the refinement, a request submits the event after the last one
(`SubmitOnly`), a send delivers a claimed event (`SendDelivers`), which is not retired, and a COMMIT retires what its
pass has marked (`CommitRetires`), so that `Delivery!Next` is taken or nothing of it changes.

For Accounts, `LocksInv` says that what a transaction wrote are rows of jobs, no two transactions wrote one row, and a row a
login holds is its browser's and one a deletion holds its user's until it ends. `AdvisoryInv` is the advisory lock of
createJob, and `Admitted` is what it has checked so far: it still holds when the job is inserted,
because only the owner's own createJob could break it. A job counts for the owner that made it, so an adoption
takes from that number and never adds to it (`MovedRowsGainNothing`). `DeleteInv` says of a deletion under way which rows it has dealt
with: a job of its user is cancelled by it or settled, and later marked by it, except those of `late`. Rows that arrive in
between are in `late` by the definition of that observer, and workers and the cleanup move a row
only toward where the deletion wants it.

For RealtimeClient, `SocketInv` says that the connections before the current one are closed and those after it
not opened, and that a reconnection timer is set only when the current socket is closed. All but the last have
cost a fault, hence TypeOK: the faults leave a connection for each reconnection. `EndInv` is the end of the subscription:
its socket is closing or closed and nothing polls.

For DemucsProcess (in Worker_proofs), `FilesInv` and `UploadsInv` hold as long as no stray child has a directory to write into (`Alone`):
a stem the child has saved is whole and its own, and is either still to be uploaded or was uploaded whole. `StraysInv` says that an
earlier child that runs is a stray, so that all writes are the current child's. Without `Alone` both are false, which is
the finding of `demucs_stems`.

For BrowserApp, two summaries stand for the actions in every later proof. `Became` is what the API or the network does: one call
takes its answer (`Served` or `Refused`) and the page does not move. `Turn(done, new)` is what a step of the page does to
the calls: some are over, some are sent, the updates of a subscription that ends grow old, and the step is
`disturbed` if a conflict arises. The invariant has five parts.

* `FlagInv`: at most one upload, one cancellation and one sign-in or sign-out are in flight. Without it `FlagsFollowCalls` is not inductive:
  the first of two calls to end would enable the control of the other.
* `ScreenInv`: a row is cancelled for good and completed for good, and nothing on the page *or in an answer on
  its way* contradicts its row (`SeenInv`); the updates that are current belong to the subscription that stands
  (`Watched`); a subscription has ended only for a job in `over`, and so is a job on the screen that has
  no subscription (`Followed`). This is what a late answer needs, since `ScreenIsConsistent` says nothing of the calls.
* `FreshInv`: no call, and not the cookie, has the session that a sign-in under way will make. `StartInv`: until the first history
  has arrived the page is empty and the calls of the start run alone.
* `Calm`, as long as `disturbed` is false. Of each call, the session it was sent with (`Timely`); a deletion that
  will succeed is for the identity of the page, and every other change of identity in flight was sent with the same session (`Agreed`).
  While no change of identity that the API has made waits for its continuation (`Pending`), the page knows its identity
  (`Known`), all it shows is of that identity (`OwnPage`) and so is every answer on its way (`OwnCall`). From such a state
  the API may take the cookie's session away, which begins a `Pending`; the continuation ends it by emptying the workspace and
  reloading (`Reloading`), or by taking the new identity.

`WorkspaceMatchesIdentity` is far from inductive: it holds in states in which the answer to a call in flight is about
another identity. TLC checked this invariant at the bounds of `browser` before it was proved.

What is checked by TLC only: every liveness property, and the fairness of `ImplementsDelivery`, because fairness and ENABLED are out
of the prover's reach (`OutboxDelivers` is the implication without it; JobLifecycle states none). The violations of `demucs_stems` and `accounts_deleted` are counterexamples, which TLC finds.

## Not modelled

* Progress values, error texts, result keys in JobProcessing, and the delays of backoff and reconnection.
* In JobProcessing and StorageCleanup `deleteUserAccount` is one step. For rows that exist the row locks make it
  so; Accounts has its statements, and the jobs that arrive between them.
* In Accounts a statement takes its row locks together. Where PostgreSQL takes them one by one and breaks a
  deadlock, the victim's error is `Fail`.
* The worker's mock mode; pages of a listing and chunks of a deletion, which are one step each.
* In Backend a broker that appends an event after the process that sent it has crashed, and the retries inside
  KafkaJS: both only add copies, for which the fault is already counted. The middleware and the routes server.ts mounts.
* In BrowserApp the validation of uploads and form fields, message texts and the bytes that are sent; several tabs of one browser.
  In WorkerPresence the health check and the operations snapshot, which read only.
* nginx, Docker, logging, metrics, environment validation, password hashing, rate limits, the rendering of React
  components and styles: no protocol state.

## Plan

Every invariant and action property is proved. What is left are models: the validation of uploads, if a property
beyond a single check appears.

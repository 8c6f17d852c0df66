------------------------------ MODULE Backend ------------------------------
(***************************************************************************)
(* The backend process on several replicas: the outbox publisher with its  *)
(* Kafka producer, the start of the status consumer with its retries, HTTP *)
(* requests, and the ordered shutdown with what it does not wait for: the  *)
(* queries of the WebSockets. Each `await` of the publisher is a  *)
(* step of its own, so that two replicas interleave between any two        *)
(* statements of a batch; the rows of outbox_events are shared.            *)
(***************************************************************************)
EXTENDS Naturals, FiniteSetsExt

CONSTANTS
    Replicas,
    MaxEvents,   \* bound on outbox events
    Batch,       \* LIMIT of the query that claims events
    MaxFaults,   \* bound on failed calls, crashes and forced exits
    MaxSignals   \* bound on SIGTERM and SIGINT

ASSUME BackendAssumption ==
    /\ IsFiniteSet(Replicas)
    /\ MaxEvents \in Nat
    /\ Batch \in Nat \ {0}
    /\ MaxFaults \in Nat
    /\ MaxSignals \in Nat

\* In the order of created_at.
Events == 1..MaxEvents

VARIABLES
    created,    \* events whose transaction committed: 1..created
    published,  \* events whose row says PUBLISHED
    copies,     \* how often each event is on its topic
    proc,       \* the process: up, in one of the phases of shutdown, or down
    tick,       \* publishInterval
    pub,        \* the pass of publishPendingOutboxEvents and its transaction
    linked,     \* connectionPromise of the producer
    listener,   \* startPromise and runPromise of the status consumer
    retry,      \* kafkaStatusRetryTimer
    open,       \* an HTTP request that creates a job is being handled
    web,        \* the WebSockets and their use of the pool, during a shutdown
    faults,
    signals

vars == <<created, published, copies, proc, tick, pub, linked, listener, retry,
          open, web, faults, signals>>
rows    == <<created, published>>
process == <<proc, tick, open, web, signals>>
status  == <<listener, retry>>

-----------------------------------------------------------------------------
Idle == [pc |-> "idle", claimed |-> {}, handled |-> {}, marked |-> {}]

Passes ==
    [pc : {"idle", "connecting", "selecting", "sending", "marking", "noting",
           "rollback"},
     claimed : SUBSET Events, handled : SUBSET Events, marked : SUBSET Events]

\* Some socket is not closed yet, the kinds of queries under way, and whether a
\* safety interval is left. What they are before the end of the wait concerns
\* nothing else, so it is chosen there.
NoSockets == [closing |-> FALSE, reads |-> {}, timer |-> FALSE]
Sockets == [closing : BOOLEAN, reads : SUBSET {"command", "refresh"}, timer : BOOLEAN]

\* The type of every variable; a pass that is over has left no row locked, and
\* it marks only what it has claimed.
TypeOK ==
    /\ created \in Events \cup {0}
    /\ published \subseteq 1..created
    /\ copies \in [Events -> 0..(MaxFaults + 1)]
    /\ proc \in [Replicas -> {"up", "stopping", "unlinking", "ending", "down"}]
    /\ pub \in [Replicas -> Passes]
    /\ \A r \in Replicas :
        /\ pub[r].marked \subseteq pub[r].handled
        /\ pub[r].handled \subseteq pub[r].claimed
        /\ pub[r].pc \in {"idle", "connecting"} => pub[r].claimed = {}
    /\ tick \in [Replicas -> BOOLEAN]
    /\ linked \in [Replicas -> BOOLEAN]
    /\ listener \in [Replicas -> {"none", "starting", "cleaning", "running", "dead"}]
    /\ retry \in [Replicas -> BOOLEAN]
    /\ open \in [Replicas -> BOOLEAN]
    /\ web \in [Replicas -> Sockets]
    /\ faults \in 0..MaxFaults
    /\ signals \in 0..MaxSignals

\* server.listen: the publisher starts with a pass, the status consumer with
\* an attempt, independently of each other.
Init ==
    /\ created = 0
    /\ published = {}
    /\ copies = [e \in Events |-> 0]
    /\ proc = [r \in Replicas |-> "up"]
    /\ tick = [r \in Replicas |-> TRUE]
    /\ pub = [r \in Replicas |-> [Idle EXCEPT !.pc = "connecting"]]
    /\ linked = [r \in Replicas |-> FALSE]
    /\ listener = [r \in Replicas |-> "starting"]
    /\ retry = [r \in Replicas |-> FALSE]
    /\ open = [r \in Replicas |-> FALSE]
    /\ web = [r \in Replicas |-> NoSockets]
    /\ faults = 0
    /\ signals = 0

Fault == faults < MaxFaults /\ faults' = faults + 1

\* Any of these calls returns, or fails.
Works(ok) == IF ok THEN UNCHANGED faults ELSE Fault

-----------------------------------------------------------------------------
(* The publisher. FOR UPDATE holds the claimed rows until the transaction   *)
(* ends; SKIP LOCKED passes over the rows of others.                        *)

Locked == UNION {pub[r].claimed : r \in Replicas}

\* Mutant: the query does not lock what it selects, or waits for no lock.
ClaimableByAll == (1..created) \ published

Claimable == ((1..created) \ published) \ Locked

\* ORDER BY created_at LIMIT Batch.
Oldest(events) ==
    {e \in events : Quantify(events, LAMBDA f : f < e) < Batch}

Todo(r) == pub[r].claimed \ pub[r].handled
Current(r) == Min(Todo(r))

\* The tick of the interval finds isPublishing false.
Tick(r) ==
    /\ tick[r]
    /\ pub[r].pc = "idle"
    /\ pub' = [pub EXCEPT ![r].pc = "connecting"]
    /\ UNCHANGED <<rows, copies, process, linked, status, faults>>

ConnectProducer(r) == \E ok \in BOOLEAN :
    /\ pub[r].pc = "connecting"
    /\ linked[r] => ok
    /\ Works(ok)
    /\ linked' = [linked EXCEPT ![r] = ok]
    /\ pub' = [pub EXCEPT ![r].pc = IF ok THEN "selecting" ELSE "idle"]
    /\ UNCHANGED <<rows, copies, process, status>>

Claim(r) == \E ok \in BOOLEAN :
    /\ pub[r].pc = "selecting"
    /\ Works(ok)
    /\ pub' = [pub EXCEPT ![r].pc = IF ok THEN "sending" ELSE "rollback",
                          ![r].claimed = IF ok THEN Oldest(Claimable) ELSE {}]
    /\ UNCHANGED <<rows, copies, process, linked, status>>

\* A send that fails may have reached the broker.
Send(r) == \E ok, appended \in BOOLEAN :
    /\ pub[r].pc = "sending"
    /\ Todo(r) # {}
    /\ ok => appended
    /\ Works(ok)
    /\ copies' = IF appended THEN [copies EXCEPT ![Current(r)] = @ + 1] ELSE copies
    /\ pub' = [pub EXCEPT ![r].pc = IF ok THEN "marking" ELSE "noting"]
    /\ UNCHANGED <<rows, process, linked, status>>

\* A failed statement aborts the transaction, so the UPDATE in the catch block
\* fails as well and the whole batch is rolled back.
Mark(r) == \E ok \in BOOLEAN :
    /\ pub[r].pc = "marking"
    /\ Works(ok)
    /\ pub' = IF ok
              THEN [pub EXCEPT ![r].pc = "sending",
                               ![r].handled = @ \cup {Current(r)},
                               ![r].marked = @ \cup {Current(r)}]
              ELSE [pub EXCEPT ![r].pc = "rollback"]
    /\ UNCHANGED <<rows, copies, process, linked, status>>

\* Mutant: the catch block records the failure and marks the row PUBLISHED.
NoteFailureMarks(r) == \E ok \in BOOLEAN :
    /\ pub[r].pc = "noting"
    /\ Works(ok)
    /\ pub' = IF ok
              THEN [pub EXCEPT ![r].pc = "sending",
                               ![r].handled = @ \cup {Current(r)},
                               ![r].marked = @ \cup {Current(r)}]
              ELSE [pub EXCEPT ![r].pc = "rollback"]
    /\ UNCHANGED <<rows, copies, process, linked, status>>

\* The failure of a send is recorded; the event stays PENDING.
NoteFailure(r) == \E ok \in BOOLEAN :
    /\ pub[r].pc = "noting"
    /\ Works(ok)
    /\ pub' = IF ok
              THEN [pub EXCEPT ![r].pc = "sending",
                               ![r].handled = @ \cup {Current(r)}]
              ELSE [pub EXCEPT ![r].pc = "rollback"]
    /\ UNCHANGED <<rows, copies, process, linked, status>>

\* The answer to COMMIT may be lost after it took effect.
CommitBatch(r) == \E ok, committed \in BOOLEAN :
    /\ pub[r].pc = "sending"
    /\ Todo(r) = {}
    /\ ok => committed
    /\ Works(ok)
    /\ published' = IF committed THEN published \cup pub[r].marked ELSE published
    /\ pub' = [pub EXCEPT ![r] =
                IF ok THEN Idle ELSE [Idle EXCEPT !.pc = "rollback"]]
    /\ UNCHANGED <<created, copies, process, linked, status>>

\* Mutant: the client goes back to the pool with its transaction open.
ReleaseOnly(r) ==
    /\ pub[r].pc = "rollback"
    /\ pub' = [pub EXCEPT ![r].pc = "idle"]
    /\ UNCHANGED <<rows, copies, process, linked, status, faults>>

Rollback(r) ==
    /\ pub[r].pc = "rollback"
    /\ pub' = [pub EXCEPT ![r] = Idle]
    /\ UNCHANGED <<rows, copies, process, linked, status, faults>>

Publish(r) ==
    \/ Tick(r) \/ ConnectProducer(r) \/ Claim(r) \/ Send(r) \/ Mark(r)
    \/ NoteFailure(r) \/ CommitBatch(r) \/ Rollback(r)

-----------------------------------------------------------------------------
(* The end of a process: its locks go with its connections.                 *)

Exit(r) ==
    /\ proc' = [proc EXCEPT ![r] = "down"]
    /\ tick' = [tick EXCEPT ![r] = FALSE]
    /\ pub' = [pub EXCEPT ![r] = Idle]
    /\ linked' = [linked EXCEPT ![r] = FALSE]
    /\ listener' = [listener EXCEPT ![r] = "none"]
    /\ retry' = [retry EXCEPT ![r] = FALSE]
    /\ open' = [open EXCEPT ![r] = FALSE]
    /\ web' = [web EXCEPT ![r] = NoSockets]
    /\ UNCHANGED <<rows, copies, signals>>

Crash(r) == proc[r] # "down" /\ Fault /\ Exit(r)

Boot(r) ==
    /\ proc[r] = "down"
    /\ proc' = [proc EXCEPT ![r] = "up"]
    /\ tick' = [tick EXCEPT ![r] = TRUE]
    /\ pub' = [pub EXCEPT ![r].pc = "connecting"]
    /\ listener' = [listener EXCEPT ![r] = "starting"]
    /\ UNCHANGED <<rows, copies, linked, retry, open, web, faults, signals>>

-----------------------------------------------------------------------------
(* The status consumer: startPromise is set in every state but "none".      *)

Listening(r, to) ==
    /\ listener' = [listener EXCEPT ![r] = to]
    /\ UNCHANGED <<rows, copies, pub, linked, process>>

StartConsumer(r) == \E ok \in BOOLEAN :
    /\ listener[r] = "starting"
    /\ Works(ok)
    /\ Listening(r, IF ok THEN "running" ELSE "cleaning")
    /\ UNCHANGED retry

\* Mutant: the supervisor logs the failed start and schedules nothing.
StartFailedForGood(r) ==
    /\ listener[r] = "cleaning"
    /\ IF proc[r] = "up"
       THEN Listening(r, "none") /\ UNCHANGED retry
       ELSE Exit(r)
    /\ UNCHANGED faults

\* A failed start has disconnected the partial client. Its supervisor schedules
\* another, unless shutdown has begun; a shutdown that waits for it fails.
StartFailed(r) ==
    /\ listener[r] = "cleaning"
    /\ IF proc[r] = "up"
       THEN /\ Listening(r, "none")
            /\ retry' = [retry EXCEPT ![r] = TRUE]
       ELSE Exit(r)
    /\ UNCHANGED faults

RetryFires(r) ==
    /\ retry[r]
    /\ retry' = [retry EXCEPT ![r] = FALSE]
    /\ Listening(r, "starting")
    /\ UNCHANGED faults

\* The polling loop ends with an error: it is logged and nothing else.
RunFails(r) ==
    /\ listener[r] = "running"
    /\ Fault
    /\ Listening(r, "dead")
    /\ UNCHANGED retry

Listen(r) == StartConsumer(r) \/ StartFailed(r) \/ RetryFires(r)

-----------------------------------------------------------------------------
(* The request whose transaction inserts the next event; it may fail.       *)

BeginRequest(r) ==
    /\ proc[r] = "up"
    /\ ~open[r]
    /\ created + Quantify(Replicas, LAMBDA q : open[q]) < MaxEvents
    /\ open' = [open EXCEPT ![r] = TRUE]
    /\ UNCHANGED <<rows, copies, proc, tick, pub, linked, status, web, faults, signals>>

EndRequest(r) ==
    /\ open[r]
    /\ open' = [open EXCEPT ![r] = FALSE]
    /\ \/ UNCHANGED created
       \/ created' = created + 1
    /\ UNCHANGED <<published, copies, proc, tick, pub, linked, status, web, faults,
                   signals>>

-----------------------------------------------------------------------------
(* The WebSockets, once a shutdown closes them. closeServer waits for the   *)
(* sockets and for none of their queries.                                   *)

Become(r, sockets) ==
    /\ web' = [web EXCEPT ![r] = sockets]
    /\ UNCHANGED <<rows, copies, proc, tick, pub, linked, status, open, faults, signals>>

\* The last of them closes.
SocketsClose(r) ==
    /\ web[r].closing
    /\ Become(r, [web[r] EXCEPT !.closing = FALSE])

\* The principal of a connection is resolved, or a command answered. A subscribe
\* on a socket that has closed sets an interval that nobody clears, in the place
\* of one it has set before.
CommandAnswered(r) == \E last, timer \in BOOLEAN :
    /\ "command" \in web[r].reads
    /\ Become(r, [web[r] EXCEPT !.reads = IF last THEN @ \ {"command"} ELSE @,
                                !.timer = timer])

\* A pool that is ending refuses the query of an interval.
IntervalFires(r) ==
    /\ web[r].timer
    /\ proc[r] # "ending"
    /\ Become(r, [web[r] EXCEPT !.reads = @ \cup {"refresh"}])

\* The job has ended, or is gone: no interval is left of this subscription.
RefreshEnds(r) == \E last, kept \in BOOLEAN :
    /\ "refresh" \in web[r].reads
    /\ Become(r, [web[r] EXCEPT !.reads = IF last THEN @ \ {"refresh"} ELSE @,
                                !.timer = @ /\ kept])

QueryEnds(r) == CommandAnswered(r) \/ RefreshEnds(r)

UseWebSockets(r) == SocketsClose(r) \/ QueryEnds(r) \/ IntervalFires(r)

-----------------------------------------------------------------------------
(* Shutdown. The four members of Promise.all finish in any order: sockets,  *)
(* HTTP requests, the publisher, the status consumer.                       *)

Phase(r, from, to) ==
    /\ proc[r] = from
    /\ proc' = [proc EXCEPT ![r] = to]

\* The reconnect timer and the interval are cancelled and the sockets told to
\* close at once. A second signal finds isShuttingDown.
Shutdown(r) ==
    /\ signals < MaxSignals
    /\ signals' = signals + 1
    /\ Phase(r, "up", "stopping")
    /\ retry' = [retry EXCEPT ![r] = FALSE]
    /\ tick' = [tick EXCEPT ![r] = FALSE]
    /\ \E some \in BOOLEAN : web' = [web EXCEPT ![r].closing = some]
    /\ UNCHANGED <<rows, copies, pub, linked, listener, open, faults>>

\* The start has to end before the consumer is stopped.
StopConsumer(r) == \E ok \in BOOLEAN :
    /\ proc[r] = "stopping"
    /\ listener[r] \in {"running", "dead"}
    /\ Works(ok)
    /\ IF ok THEN Listening(r, "none") /\ UNCHANGED retry ELSE Exit(r)

\* Mutant: stopOutboxPublisher clears the interval and does not wait.
StoppedButPublishing(r) ==
    /\ listener[r] = "none"
    /\ ~open[r]
    /\ ~web[r].closing

\* Mutant: nobody waits for the WebSocket server.
StoppedWithSockets(r) ==
    /\ pub[r].pc = "idle"
    /\ listener[r] = "none"
    /\ ~open[r]

Stopped(r) ==
    /\ pub[r].pc = "idle"
    /\ listener[r] = "none"
    /\ ~open[r]
    /\ ~web[r].closing

AllStopped(r) ==
    /\ Phase(r, "stopping", "unlinking")
    /\ Stopped(r)
    /\ \E left \in Sockets :
        left.closing = web[r].closing /\ web' = [web EXCEPT ![r] = left]
    /\ UNCHANGED <<rows, copies, tick, pub, linked, status, open, faults, signals>>

DisconnectProducer(r) == \E ok \in BOOLEAN :
    /\ proc[r] = "unlinking"
    /\ ~linked[r] => ok
    /\ Works(ok)
    /\ IF ok
       THEN /\ Phase(r, "unlinking", "ending")
            /\ linked' = [linked EXCEPT ![r] = FALSE]
            /\ UNCHANGED <<rows, copies, tick, pub, status, open, web, signals>>
       ELSE Exit(r)

\* pool.end waits for the connections in use.
EndPool(r) ==
    /\ proc[r] = "ending"
    /\ web[r].reads = {}
    /\ Exit(r)
    /\ UNCHANGED faults

\* The 30-second timer: a dependency that hangs, counted as a fault.
ForceExit(r) ==
    /\ proc[r] \in {"stopping", "unlinking", "ending"}
    /\ Fault
    /\ Exit(r)

Stop(r) == StopConsumer(r) \/ AllStopped(r) \/ DisconnectProducer(r) \/ EndPool(r)

-----------------------------------------------------------------------------
Next == \E r \in Replicas :
    \/ Publish(r) \/ Listen(r) \/ Stop(r)
    \/ RunFails(r) \/ Crash(r) \/ ForceExit(r) \/ Boot(r)
    \/ BeginRequest(r) \/ EndRequest(r) \/ Shutdown(r)
    \/ UseWebSockets(r)

Spec == Init /\ [][Next]_vars

\* The event loop runs timers and continues what has been answered; the
\* container platform starts a process again. Nobody has to send requests or
\* signals or to close a socket, and faults are bounded.
Fairness == \A r \in Replicas :
    /\ WF_vars(Publish(r))
    /\ WF_vars(Listen(r))
    /\ WF_vars(Stop(r))
    /\ WF_vars(Boot(r))
    /\ WF_vars(EndRequest(r))
    /\ WF_vars(QueryEnds(r))

FairSpec == Spec /\ Fairness

-----------------------------------------------------------------------------
Delivery == INSTANCE OutboxDelivery WITH
    submitted <- 1..created,
    delivered <- {e \in Events : copies[e] > 0},
    retired <- published

\* An event is on its topic before its row says PUBLISHED, is never sent after
\* that, and every committed event gets there, whatever pass, replica, statement
\* or process fails in between (publishPendingOutboxEvents, shutdown).
ImplementsDelivery == Delivery!FairSpec

\* FOR UPDATE SKIP LOCKED keeps two replicas from sending one event: each copy
\* beyond the first is owed to a fault.
DuplicatesNeedFaults == \A e \in Events : copies[e] <= 1 + faults

\* Shutdown disconnects the producer and ends the pool only when the publisher,
\* the status consumer, the requests and the sockets are done, and nothing is
\* left that would start one of them again, although a start may have failed or
\* a pass begun since the signal. It does not wait for the queries of sockets
\* that have closed: those, and an interval that such a query sets, may meet a
\* pool that is ending (web), unlike the comment in shutdown has it.
ResourcesOutliveUsers ==
    \A r \in Replicas : proc[r] \in {"unlinking", "ending"} =>
        /\ pub[r].pc = "idle" /\ ~tick[r]
        /\ listener[r] = "none" /\ ~retry[r]
        /\ ~open[r] /\ ~web[r].closing

\* A process that stays up gets its status consumer started, however often the
\* start fails (startJobStatusConsumerWithRetry).
ListenerStarts ==
    \A r \in Replicas :
        proc[r] = "up" ~> listener[r] \in {"running", "dead"} \/ proc[r] # "up"
=============================================================================

-------------------------- MODULE JobSubscription --------------------------
(***************************************************************************)
(* The WebSocket side of one backend replica: connections, the one job a   *)
(* socket watches, and the reads of PostgreSQL that status events and the  *)
(* 30-second safety interval start. Each `await` splits an operation into  *)
(* the part before the query, the moment PostgreSQL evaluates it, and the  *)
(* part that continues with the answer.                                    *)
(*                                                                         *)
(* A job is a row version that only grows: Last is the terminal one, and   *)
(* Gone is a row this owner cannot read any more.                          *)
(***************************************************************************)
EXTENDS Naturals

CONSTANTS
    Sockets,
    Jobs,
    Last,         \* versions of a row before the terminal one
    NoJob,
    MaxCommands,  \* bound on the commands a browser sends over one socket
    MaxFaults     \* bound on lost events, failed queries and vanished peers

ASSUME SubscriptionAssumption ==
    /\ NoJob \notin Jobs
    /\ Last \in Nat \ {0}
    /\ MaxCommands \in Nat
    /\ MaxFaults \in Nat

VARIABLES
    row,      \* the version of each job's row
    events,   \* jobs with a status event this replica has not handled
    conn,     \* the state of each connection
    peer,     \* whether the browser still answers
    alive,    \* isAlive; undefined before authentication, which is falsy
    version,  \* subscriptionVersion
    want,     \* observer: the job of the last command handled
    pending,  \* subscribe commands that wait for findOwnedJob
    sub,      \* the subscription of each socket
    reads,    \* refreshes that wait for findOwnedJob
    faults

vars == <<row, events, conn, peer, alive, version, want, pending, sub, reads,
          faults>>
dbVars   == <<row, events>>
connVars == <<conn, peer, alive>>
cmdVars  == <<version, want, pending>>

-----------------------------------------------------------------------------
Gone     == Last + 1
Unread   == Last + 2
Versions == 0..Last

\* `missed` is an observer: an update this subscription was never told of.
Subscriptions ==
    [id : Nat, job : Jobs, previous : Versions, interval : BOOLEAN,
     isRefreshing : BOOLEAN, requested : BOOLEAN, missed : BOOLEAN]
NoSub == [id |-> 0]

\* A call of findOwnedJob: for which command or subscription, and its answer.
Queries == [id : 1..MaxCommands, job : Jobs, answer : 0..Unread]

TypeOK ==
    /\ row \in [Jobs -> 0..Gone]
    /\ events \in SUBSET Jobs
    /\ conn \in [Sockets -> {"new", "auth", "open", "closed", "terminated"}]
    /\ peer \in [Sockets -> {"up", "vanished"}]
    /\ alive \in [Sockets -> BOOLEAN]
    /\ version \in [Sockets -> 0..MaxCommands]
    /\ want \in [Sockets -> Jobs \cup {NoJob}]
    /\ pending \in [Sockets -> SUBSET Queries]
    /\ sub \in [Sockets -> Subscriptions \cup {NoSub}]
    /\ reads \in [Sockets -> SUBSET Queries]
    /\ faults \in 0..MaxFaults

Init ==
    /\ row = [j \in Jobs |-> 0]
    /\ events = {}
    /\ conn = [s \in Sockets |-> "new"]
    /\ peer = [s \in Sockets |-> "up"]
    /\ alive = [s \in Sockets |-> FALSE]
    /\ version = [s \in Sockets |-> 0]
    /\ want = [s \in Sockets |-> NoJob]
    /\ pending = [s \in Sockets |-> {}]
    /\ sub = [s \in Sockets |-> NoSub]
    /\ reads = [s \in Sockets |-> {}]
    /\ faults = 0

Fault == faults < MaxFaults /\ faults' = faults + 1

-----------------------------------------------------------------------------
(* The jobs table and the status topic *)

\* A worker or a request changes the row; the outbox brings the event.
ChangeRow(j) ==
    /\ row[j] < Last
    /\ \E v \in (row[j] + 1)..Last : row' = [row EXCEPT ![j] = v]
    /\ events' = events \cup {j}
    /\ UNCHANGED <<connVars, cmdVars, sub, reads, faults>>

\* The row is deleted, or adopted by an account: no event tells.
HideRow(j) ==
    /\ row[j] # Gone
    /\ row' = [row EXCEPT ![j] = Gone]
    /\ UNCHANGED <<events, connVars, cmdVars, sub, reads, faults>>

\* The replica's consumer was not running when the event passed.
LoseEvent(j) ==
    /\ j \in events
    /\ Fault
    /\ events' = events \ {j}
    /\ sub' = [s \in Sockets |-> IF sub[s] # NoSub /\ sub[s].job = j
                                 THEN [sub[s] EXCEPT !.missed = TRUE]
                                 ELSE sub[s]]
    /\ UNCHANGED <<row, connVars, cmdVars, reads>>

-----------------------------------------------------------------------------
(* Connections *)

Connect(s) ==
    /\ conn[s] = "new"
    /\ conn' = [conn EXCEPT ![s] = "auth"]
    /\ UNCHANGED <<dbVars, peer, alive, cmdVars, sub, reads, faults>>

\* resolveRequestPrincipal answers: the fields are set, the handlers registered.
Authenticate(s) ==
    /\ conn[s] = "auth"
    /\ conn' = [conn EXCEPT ![s] = "open"]
    /\ alive' = [alive EXCEPT ![s] = TRUE]
    /\ UNCHANGED <<dbVars, peer, cmdVars, sub, reads, faults>>

\* No session, a refused origin, a failed lookup, or the browser left meanwhile.
Refuse(s) ==
    /\ conn[s] = "auth"
    /\ conn' = [conn EXCEPT ![s] = "closed"]
    /\ UNCHANGED <<dbVars, peer, alive, cmdVars, sub, reads, faults>>

\* The browser goes away, or closeClients at shutdown.
Close(s) ==
    /\ conn[s] = "open"
    /\ conn' = [conn EXCEPT ![s] = "closed"]
    /\ sub' = [sub EXCEPT ![s] = NoSub]
    /\ UNCHANGED <<dbVars, peer, alive, cmdVars, reads, faults>>

\* The network path disappears without a close frame.
Vanish(s) ==
    /\ conn[s] \in {"auth", "open"}
    /\ peer[s] = "up"
    /\ Fault
    /\ peer' = [peer EXCEPT ![s] = "vanished"]
    /\ UNCHANGED <<dbVars, conn, alive, cmdVars, sub, reads>>

Pong(s) ==
    /\ conn[s] = "open"
    /\ peer[s] = "up"
    /\ ~alive[s]
    /\ alive' = [alive EXCEPT ![s] = TRUE]
    /\ UNCHANGED <<dbVars, conn, peer, cmdVars, sub, reads, faults>>

Clients == {s \in Sockets : conn[s] \in {"auth", "open"}}

\* The 30-second tick: who has not answered since the last one is terminated. A
\* browser that is there answers within the interval.
Heartbeat ==
    LET silent == {s \in Clients : ~alive[s]}
    IN  /\ Clients # {}
        /\ \A s \in Clients : conn[s] = "open" /\ peer[s] = "up" => alive[s]
        /\ conn' = [s \in Sockets |-> IF s \in silent THEN "terminated" ELSE conn[s]]
        /\ alive' = [s \in Sockets |-> IF s \in Clients THEN FALSE ELSE alive[s]]
        /\ sub' = [s \in Sockets |-> IF s \in silent THEN NoSub ELSE sub[s]]
        /\ UNCHANGED <<dbVars, peer, cmdVars, reads, faults>>

-----------------------------------------------------------------------------
(* Commands: handleClientMessage *)

Command(s, j) ==
    /\ conn[s] = "open"
    /\ peer[s] = "up"
    /\ version[s] < MaxCommands
    /\ version' = [version EXCEPT ![s] = @ + 1]
    /\ want' = [want EXCEPT ![s] = j]

Subscribe(s, j) ==
    /\ Command(s, j)
    /\ pending' = [pending EXCEPT
          ![s] = @ \cup {[id |-> version[s] + 1, job |-> j, answer |-> Unread]}]
    /\ UNCHANGED <<dbVars, connVars, sub, reads, faults>>

Unsubscribe(s) ==
    /\ Command(s, NoJob)
    /\ sub' = [sub EXCEPT ![s] = NoSub]
    /\ UNCHANGED <<pending, dbVars, connVars, reads, faults>>

\* PostgreSQL evaluates the query of a subscribe command.
AnswerSubscribe(s, c) ==
    /\ c \in pending[s]
    /\ c.answer = Unread
    /\ pending' = [pending EXCEPT ![s] =
          (@ \ {c}) \cup {[c EXCEPT !.answer = row[c.job]]}]
    /\ UNCHANGED <<version, want, dbVars, connVars, sub, reads, faults>>

\* A command that changes nothing: a newer one was handled meanwhile, the job is
\* not found, or the query failed.
DropSubscribe(s, c) ==
    /\ c \in pending[s]
    /\ \/ c.answer # Unread /\ (c.id # version[s] \/ c.answer = Gone) /\ UNCHANGED faults
       \/ c.answer = Unread /\ Fault
    /\ pending' = [pending EXCEPT ![s] = @ \ {c}]
    /\ UNCHANGED <<version, want, dbVars, connVars, sub, reads>>

Registered(c, interval) ==
    [id |-> c.id, job |-> c.job, previous |-> c.answer, interval |-> interval,
     isRefreshing |-> FALSE, requested |-> FALSE,
     missed |-> c.answer < row[c.job] /\ c.job \notin events]

\* Mutants: an overtaken command registers all the same; no safety interval; a
\* job that was not found is registered.
RegisterMissing(s, c) ==
    /\ c \in pending[s]
    /\ c.answer # Unread
    /\ c.id = version[s]
    /\ pending' = [pending EXCEPT ![s] = @ \ {c}]
    /\ sub' = [sub EXCEPT ![s] = Registered(c, c.answer # Last)]
    /\ UNCHANGED <<version, want, dbVars, connVars, reads, faults>>
RegisterOvertaken(s, c) ==
    /\ c \in pending[s]
    /\ c.answer \in Versions
    /\ pending' = [pending EXCEPT ![s] = @ \ {c}]
    /\ sub' = [sub EXCEPT ![s] = Registered(c, c.answer # Last)]
    /\ UNCHANGED <<version, want, dbVars, connVars, reads, faults>>
RegisterWithoutInterval(s, c) ==
    /\ c \in pending[s]
    /\ c.answer \in Versions
    /\ c.id = version[s]
    /\ pending' = [pending EXCEPT ![s] = @ \ {c}]
    /\ sub' = [sub EXCEPT ![s] = Registered(c, FALSE)]
    /\ UNCHANGED <<version, want, dbVars, connVars, reads, faults>>

\* The rest of subscribeToJob: the old subscription is cleared, the new one set,
\* the snapshot sent, and the interval started unless it was terminal.
Register(s, c) ==
    /\ c \in pending[s]
    /\ c.answer \in Versions
    /\ c.id = version[s]
    /\ pending' = [pending EXCEPT ![s] = @ \ {c}]
    /\ sub' = [sub EXCEPT ![s] = Registered(c, c.answer # Last)]
    /\ UNCHANGED <<version, want, dbVars, connVars, reads, faults>>

-----------------------------------------------------------------------------
(* refreshSubscription *)

Read(s) == [id |-> sub[s].id, job |-> sub[s].job, answer |-> Unread]

\* Mutant: a refresh may overlap another.
BegunOverlapping(S) ==
    /\ sub' = [s \in Sockets |->
                 IF s \in S THEN [sub[s] EXCEPT !.isRefreshing = TRUE] ELSE sub[s]]
    /\ reads' = [s \in Sockets |->
                 IF s \in S THEN reads[s] \cup {Read(s)} ELSE reads[s]]

\* The part before the query, on the sockets S: one refresh at a time.
Begun(S) ==
    /\ sub' = [s \in Sockets |->
                 IF s \notin S THEN sub[s]
                 ELSE IF sub[s].isRefreshing
                 THEN [sub[s] EXCEPT !.requested = TRUE]
                 ELSE [sub[s] EXCEPT !.isRefreshing = TRUE, !.requested = FALSE]]
    /\ reads' = [s \in Sockets |->
                 IF s \in S /\ ~sub[s].isRefreshing
                 THEN reads[s] \cup {Read(s)} ELSE reads[s]]

\* eachMessage, then notifyJobChanged: every socket that watches the job. (The
\* consumer also awaits these refreshes before its next message.)
Notify(j) ==
    /\ j \in events
    /\ events' = events \ {j}
    /\ Begun({s \in Sockets : sub[s] # NoSub /\ conn[s] = "open" /\ sub[s].job = j})
    /\ UNCHANGED <<row, connVars, cmdVars, faults>>

SafetyTick(s) ==
    /\ sub[s] # NoSub
    /\ sub[s].interval
    /\ Begun({s})
    /\ UNCHANGED <<dbVars, connVars, cmdVars, faults>>

AnswerRefresh(s, r) ==
    /\ r \in reads[s]
    /\ r.answer = Unread
    /\ reads' = [reads EXCEPT ![s] =
          (@ \ {r}) \cup {[r EXCEPT !.answer = row[r.job]]}]
    /\ UNCHANGED <<dbVars, connVars, cmdVars, sub, faults>>

\* The subscription the read was for has been replaced or cleared.
DropRefresh(s, r) ==
    /\ r \in reads[s]
    /\ r.answer # Unread
    /\ r.id # sub[s].id
    /\ reads' = [reads EXCEPT ![s] = @ \ {r}]
    /\ UNCHANGED <<dbVars, connVars, cmdVars, sub, faults>>

Current(s, r) == r \in reads[s] /\ r.answer # Unread /\ r.id = sub[s].id

\* "Job not found": the subscription is cleared.
EndSubscription(s, r) ==
    /\ Current(s, r)
    /\ r.answer = Gone
    /\ sub' = [sub EXCEPT ![s] = NoSub]
    /\ reads' = [reads EXCEPT ![s] = @ \ {r}]
    /\ UNCHANGED <<dbVars, connVars, cmdVars, faults>>

\* Mutants: the event that came during the read is forgotten; the interval of
\* a terminal job runs on.
SendForgetful(s, r) ==
    /\ Current(s, r)
    /\ r.answer \in Versions
    /\ sub' = [sub EXCEPT ![s] = [@ EXCEPT !.previous = r.answer,
                                           !.interval = sub[s].interval /\ r.answer # Last,
                                           !.isRefreshing = FALSE,
                                           !.requested = FALSE]]
    /\ reads' = [reads EXCEPT ![s] = @ \ {r}]
    /\ UNCHANGED <<dbVars, connVars, cmdVars, faults>>
SendForEver(s, r) ==
    /\ Current(s, r)
    /\ r.answer \in Versions
    /\ sub' = [sub EXCEPT ![s] = [@ EXCEPT !.previous = r.answer,
                                           !.isRefreshing = sub[s].requested,
                                           !.requested = FALSE]]
    /\ reads' = [reads EXCEPT ![s] =
          (@ \ {r}) \cup IF sub[s].requested THEN {Read(s)} ELSE {}]
    /\ UNCHANGED <<dbVars, connVars, cmdVars, faults>>

\* sendJobUpdate, then once more round the loop if an event came meanwhile.
Send(s, r) ==
    /\ Current(s, r)
    /\ r.answer \in Versions
    /\ sub' = [sub EXCEPT ![s] = [@ EXCEPT !.previous = r.answer,
                                           !.interval = sub[s].interval /\ r.answer # Last,
                                           !.isRefreshing = sub[s].requested,
                                           !.requested = FALSE]]
    /\ reads' = [reads EXCEPT ![s] =
          (@ \ {r}) \cup IF sub[s].requested THEN {Read(s)} ELSE {}]
    /\ UNCHANGED <<dbVars, connVars, cmdVars, faults>>

\* The query fails: the guard is released, a requested second read never happens.
FailRefresh(s, r) ==
    /\ r \in reads[s]
    /\ r.answer = Unread
    /\ Fault
    /\ reads' = [reads EXCEPT ![s] = @ \ {r}]
    /\ sub' = [sub EXCEPT ![s] =
                 IF sub[s].id = r.id
                 THEN [@ EXCEPT !.isRefreshing = FALSE, !.missed = TRUE] ELSE @]
    /\ UNCHANGED <<dbVars, connVars, cmdVars>>

-----------------------------------------------------------------------------
Answers(s) ==
    \/ \E c \in pending[s] : \/ AnswerSubscribe(s, c)
                             \/ DropSubscribe(s, c)
                             \/ Register(s, c)
    \/ \E r \in reads[s] : \/ AnswerRefresh(s, r)
                           \/ DropRefresh(s, r)
                           \/ EndSubscription(s, r)
                           \/ Send(s, r)
                           \/ FailRefresh(s, r)

Next ==
    \/ \E j \in Jobs : ChangeRow(j) \/ HideRow(j) \/ LoseEvent(j) \/ Notify(j)
    \/ \E s \in Sockets :
          \/ Connect(s) \/ Authenticate(s) \/ Refuse(s)
          \/ Close(s)   \/ Vanish(s)       \/ Pong(s)
          \/ \E j \in Jobs : Subscribe(s, j)
          \/ Unsubscribe(s)
          \/ SafetyTick(s)
          \/ Answers(s)
    \/ Heartbeat

Spec == Init /\ [][Next]_vars

\* Timers fire, queries end, browsers that are there answer pings. No browser
\* owes a command and no row a change.
Fairness ==
    /\ WF_vars(Heartbeat)
    /\ \A s \in Sockets : /\ WF_vars(Authenticate(s) \/ Refuse(s))
                          /\ WF_vars(Pong(s))
                          /\ WF_vars(SafetyTick(s))
                          /\ WF_vars(Answers(s))

FairSpec == Spec /\ Fairness

-----------------------------------------------------------------------------
(* Properties *)

\* After unsubscribe no job is watched, although the query of an earlier
\* subscribe may answer later (comment on subscriptionVersion).
UnsubscribeHolds ==
    \A s \in Sockets : want[s] = NoJob => sub[s] = NoSub

\* What a socket is sent never goes back to an older command or, for one
\* subscription, to an older state (comment in refreshSubscription).
UpdatesMoveForward ==
    [][\A s \in Sockets :
          sub[s] # NoSub /\ sub'[s] # NoSub =>
              \/ sub[s].id < sub'[s].id
              \/ sub[s].id = sub'[s].id /\ sub[s].previous <= sub'[s].previous]_sub

\* An event is never lost between two reads: a subscription that is behind its
\* row has the event still to come, or a read that is to see the row; except for
\* a lost event, a failed query, or a row changed before it was registered.
EventsReachSubscribers ==
    \A s \in Sockets : sub[s] # NoSub /\ conn[s] = "open" =>
        \/ sub[s].previous = row[sub[s].job]
        \/ row[sub[s].job] = Gone
        \/ sub[s].job \in events
        \/ sub[s].requested
        \/ \E r \in reads[s] : /\ r.id = sub[s].id
                               /\ r.answer \in {Unread, row[sub[s].job]}
        \/ sub[s].missed

\* A socket watches what it asked for last, and its view of it is current or
\* about to be.
SubscriptionsAreCurrent == UnsubscribeHolds /\ EventsReachSubscribers

\* The safety interval repairs whatever was missed: a browser that stays
\* connected is told of the terminal state in the end.
Behind(s) == /\ conn[s] = "open"
             /\ sub[s] # NoSub
             /\ row[sub[s].job] = Last
             /\ sub[s].previous # Last
SubscribersCatchUp == \A s \in Sockets : Behind(s) ~> ~Behind(s)

\* No interval queries for ever a job that is terminal or gone, not even one a
\* closed socket was left with, or for a browser that has vanished.
Polling(s) == /\ sub[s] # NoSub
              /\ sub[s].interval
              /\ \/ row[sub[s].job] >= Last
                 \/ conn[s] = "open" /\ peer[s] = "vanished"
IntervalsEnd == \A s \in Sockets : Polling(s) ~> ~Polling(s)

\* The safety interval lasts as long as it is of use, and no longer.
IntervalsServe == SubscribersCatchUp /\ IntervalsEnd

=============================================================================

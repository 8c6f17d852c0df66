--------------------------- MODULE RealtimeClient ---------------------------
(***************************************************************************)
(* The browser's subscription to the job on its screen: a WebSocket that   *)
(* is opened again after each failure, an HTTP poll as the backup, and the *)
(* screen both of them update. The server is what JobSubscription promises *)
(* of it: per connection, states in order that end at the newest one.      *)
(*                                                                         *)
(* A job is its version: 1 when the page opens, Last when it is terminal.  *)
(* Delays are abstracted: a timer that is set may fire at any time.        *)
(***************************************************************************)
EXTENDS Naturals, Sequences, FiniteSets

CONSTANTS
    Last,      \* the terminal version
    MaxPolls,  \* bound on the HTTP requests in flight
    MaxFaults  \* bound on lost connections and failed requests

ASSUME ClientAssumption ==
    /\ Last \in Nat \ {0, 1}
    /\ MaxPolls \in Nat \ {0}
    /\ MaxFaults \in Nat

VARIABLES
    current,             \* the row
    net,                 \* the state of each connection, server side included
    told,                \* the newest version sent over it
    inbox,               \* the messages on their way to the browser
    socket,              \* the connection the closure holds, 0 for null
    connectionTimer,
    reconnectTimer,
    fallbackPolling,     \* fallbackPollingTimer !== null
    reconnectAttempt,    \* 3 stands for three and more
    stopped,
    terminalJobReached,
    previous,            \* previousJobPayload, 0 for the empty string
    requests,            \* HTTP polls in flight
    delivering,          \* a terminal update whose onJobUpdate is awaited
    selected,            \* the screen still shows this job
    shown,               \* the version it shows
    faults

vars == <<current, net, told, inbox, socket, connectionTimer, reconnectTimer,
          fallbackPolling, reconnectAttempt, stopped, terminalJobReached,
          previous, requests, delivering, selected, shown, faults>>
serverVars == <<net, told, inbox>>
timerVars  == <<connectionTimer, reconnectTimer, fallbackPolling, reconnectAttempt>>
endVars    == <<stopped, terminalJobReached>>
screenVars == <<previous, delivering, selected, shown>>

-----------------------------------------------------------------------------
\* Every connection but the last is lost by a fault.
Connections == 1..(MaxFaults + 1)
Live == {"connecting", "open", "asked", "read", "watching", "refused"}
Unread == 0
Messages == {<<"ready">>, <<"subscribed">>} \cup ({"update"} \X (1..Last))

TypeOK ==
    /\ current \in 1..Last
    /\ net \in [Connections -> Live \cup {"none", "closing", "closed"}]
    /\ told \in [Connections -> 0..Last]
    /\ inbox \in [Connections -> Seq(Messages)]
    /\ socket \in {0} \cup Connections
    /\ connectionTimer \in BOOLEAN
    /\ reconnectTimer \in BOOLEAN
    /\ fallbackPolling \in BOOLEAN
    /\ reconnectAttempt \in 0..3
    /\ stopped \in BOOLEAN
    /\ terminalJobReached \in BOOLEAN
    /\ previous \in 0..Last
    /\ requests \in SUBSET [id : 1..MaxPolls, answer : 0..Last]
    /\ delivering \in BOOLEAN
    /\ selected \in BOOLEAN
    /\ shown \in 1..Last
    /\ faults \in 0..MaxFaults

\* startJobSubscription has just been called for a job that is selected.
Init ==
    /\ current = 1
    /\ net = [i \in Connections |-> IF i = 1 THEN "connecting" ELSE "none"]
    /\ told = [i \in Connections |-> 0]
    /\ inbox = [i \in Connections |-> <<>>]
    /\ socket = 1
    /\ connectionTimer = TRUE
    /\ reconnectTimer = FALSE
    /\ fallbackPolling = FALSE
    /\ reconnectAttempt = 0
    /\ stopped = FALSE
    /\ terminalJobReached = FALSE
    /\ previous = 0
    /\ requests = {}
    /\ delivering = FALSE
    /\ selected = TRUE
    /\ shown = 1
    /\ faults = 0

Fault == faults < MaxFaults /\ faults' = faults + 1

\* socket?.close(...)
Closed == [i \in Connections |->
              IF i = socket /\ net[i] \in Live THEN "closing" ELSE net[i]]

\* pollJobStatus: one more request, unless the bound is reached.
Polled ==
    LET free == {i \in 1..MaxPolls : \A r \in requests : r.id # i}
    IN  requests' = requests \cup {[id |-> i, answer |-> Unread] :
                                      i \in {f \in free : \A g \in free : f <= g}}

-----------------------------------------------------------------------------
(* The row and the server *)

ChangeRow ==
    /\ current < Last
    /\ current' \in (current + 1)..Last
    /\ UNCHANGED <<serverVars, socket, timerVars, endVars, screenVars, requests, faults>>

\* The subscribe command is handled: the row is read, or the query fails and
\* an error message is all that is sent.
ReadJob(i) ==
    /\ net[i] = "asked"
    /\ net' = [net EXCEPT ![i] = "read"]
    /\ told' = [told EXCEPT ![i] = current]
    /\ UNCHANGED <<current, inbox, socket, timerVars, endVars, screenVars, requests, faults>>

RefuseJob(i) ==
    /\ net[i] = "asked"
    /\ Fault
    /\ net' = [net EXCEPT ![i] = "refused"]
    /\ UNCHANGED <<current, told, inbox, socket, timerVars, endVars, screenVars, requests>>

Watch(i) ==
    /\ net[i] = "read"
    /\ net' = [net EXCEPT ![i] = "watching"]
    /\ inbox' = [inbox EXCEPT ![i] = @ \o << <<"subscribed">>, <<"update", told[i]>> >>]
    /\ UNCHANGED <<current, told, socket, timerVars, endVars, screenVars, requests, faults>>

Push(i) ==
    /\ net[i] = "watching"
    /\ \E v \in (told[i] + 1)..current :
          /\ told' = [told EXCEPT ![i] = v]
          /\ inbox' = [inbox EXCEPT ![i] = Append(@, <<"update", v>>)]
    /\ UNCHANGED <<current, net, socket, timerVars, endVars, screenVars, requests, faults>>

\* The server, a proxy or the network ends the connection, at any stage.
Lose(i) ==
    /\ net[i] \in Live
    /\ Fault
    /\ net' = [net EXCEPT ![i] = "closing"]
    /\ inbox' = [inbox EXCEPT ![i] = <<>>]
    /\ UNCHANGED <<current, told, socket, timerVars, endVars, screenVars, requests>>

-----------------------------------------------------------------------------
(* deliverJobUpdate *)

\* A payload equal to the previous one is dropped; else onJobUpdate is called
\* and, for a terminal job, awaited.
Delivered(v) ==
    IF v = previous
    THEN UNCHANGED screenVars
    ELSE /\ previous' = v
         /\ shown' = IF selected THEN v ELSE shown
         /\ delivering' = (delivering \/ v = Last)
         /\ UNCHANGED selected

\* Mutant: the end of the job is not remembered.
FinishDeliveryForgetful ==
    /\ delivering
    /\ delivering' = FALSE
    /\ fallbackPolling' = FALSE
    /\ net' = Closed
    /\ UNCHANGED <<current, told, inbox, socket, connectionTimer, reconnectTimer,
                   reconnectAttempt, endVars, previous, selected, shown, requests, faults>>

\* onJobUpdate has ended (for COMPLETED, after the download links arrived).
FinishDelivery ==
    /\ delivering
    /\ delivering' = FALSE
    /\ terminalJobReached' = TRUE
    /\ fallbackPolling' = FALSE
    /\ net' = Closed
    /\ UNCHANGED <<current, told, inbox, socket, connectionTimer, reconnectTimer,
                   reconnectAttempt, stopped, previous, selected, shown, requests, faults>>

-----------------------------------------------------------------------------
(* Polling *)

PollTick ==
    /\ fallbackPolling
    /\ Polled
    /\ UNCHANGED <<current, serverVars, socket, timerVars, endVars, screenVars, faults>>

AnswerPoll(r) ==
    /\ r \in requests
    /\ r.answer = Unread
    /\ requests' = (requests \ {r}) \cup {[r EXCEPT !.answer = current]}
    /\ UNCHANGED <<current, serverVars, socket, timerVars, endVars, screenVars, faults>>

PollArrives(r) ==
    /\ r \in requests
    /\ r.answer # Unread
    /\ requests' = requests \ {r}
    /\ Delivered(r.answer)
    /\ UNCHANGED <<current, serverVars, socket, timerVars, endVars, faults>>

\* Mutant: a failed request is delivered as if it had an answer.
PollFailsUncaught(r) ==
    /\ r \in requests
    /\ Fault
    /\ requests' = requests \ {r}
    /\ Delivered(Unread)
    /\ UNCHANGED <<current, serverVars, socket, timerVars, endVars>>

PollFails(r) ==
    /\ r \in requests
    /\ Fault
    /\ requests' = requests \ {r}
    /\ UNCHANGED <<current, serverVars, socket, timerVars, endVars, screenVars>>

-----------------------------------------------------------------------------
(* The socket *)

\* onopen; connection_ready follows once the server knows the session.
OnOpen(i) ==
    /\ net[i] = "connecting"
    /\ net' = [net EXCEPT ![i] = "open"]
    /\ inbox' = [inbox EXCEPT ![i] = << <<"ready">> >>]
    /\ connectionTimer' = FALSE
    /\ UNCHANGED <<current, told, socket, reconnectTimer, fallbackPolling,
                   reconnectAttempt, endVars, screenVars, requests, faults>>

\* onmessage: nothing is delivered once the socket is closing.
OnMessage(i) ==
    /\ net[i] \in Live
    /\ inbox[i] # <<>>
    /\ inbox' = [inbox EXCEPT ![i] = Tail(@)]
    /\ LET m == Head(inbox[i])
       IN  \/ /\ m = <<"ready">>
              /\ net' = [net EXCEPT ![socket] = "asked"]
              /\ UNCHANGED <<timerVars, screenVars>>
           \/ /\ m = <<"subscribed">>
              /\ reconnectAttempt' = 0
              /\ fallbackPolling' = FALSE
              /\ UNCHANGED <<net, connectionTimer, reconnectTimer, screenVars>>
           \/ /\ m[1] = "update"
              /\ Delivered(m[2])
              /\ UNCHANGED <<net, timerVars>>
    /\ UNCHANGED <<current, told, socket, endVars, requests, faults>>

\* onclose, then scheduleReconnect: the third failure in a row starts polling.
OnClose(i) ==
    /\ net[i] = "closing"
    /\ net' = [net EXCEPT ![i] = "closed"]
    /\ connectionTimer' = FALSE
    /\ IF stopped \/ terminalJobReached
       THEN UNCHANGED <<reconnectTimer, fallbackPolling, reconnectAttempt, requests>>
       ELSE /\ reconnectTimer' = TRUE
            /\ reconnectAttempt' = IF reconnectAttempt < 3 THEN reconnectAttempt + 1 ELSE 3
            /\ IF reconnectAttempt' = 3 /\ ~fallbackPolling
               THEN fallbackPolling' = TRUE /\ Polled
               ELSE UNCHANGED <<fallbackPolling, requests>>
    /\ UNCHANGED <<current, told, inbox, socket, endVars, screenVars, faults>>

\* Mutant: the timeout schedules the reconnection itself, and onclose does again.
ConnectionTimeoutReconnects ==
    /\ connectionTimer
    /\ Fault
    /\ connectionTimer' = FALSE
    /\ reconnectTimer' = TRUE
    /\ net' = Closed
    /\ UNCHANGED <<current, told, inbox, socket, fallbackPolling,
                   reconnectAttempt, endVars, screenVars, requests>>

\* No open event in ten seconds.
ConnectionTimeout ==
    /\ connectionTimer
    /\ Fault
    /\ connectionTimer' = FALSE
    /\ net' = Closed
    /\ UNCHANGED <<current, told, inbox, socket, reconnectTimer, fallbackPolling,
                   reconnectAttempt, endVars, screenVars, requests>>

\* Mutant: openSocket does not look whether it is still wanted.
ReconnectUnguarded ==
    /\ reconnectTimer
    /\ reconnectTimer' = FALSE
    /\ socket' = socket + 1
    /\ net' = [net EXCEPT ![socket + 1] = "connecting"]
    /\ connectionTimer' = TRUE
    /\ UNCHANGED <<current, told, inbox, fallbackPolling, reconnectAttempt,
                   endVars, screenVars, requests, faults>>

\* openSocket, called by the timer.
Reconnect ==
    /\ reconnectTimer
    /\ reconnectTimer' = FALSE
    /\ IF stopped \/ terminalJobReached
       THEN UNCHANGED <<socket, net, connectionTimer>>
       ELSE /\ socket' = socket + 1
            /\ net' = [net EXCEPT ![socket + 1] = "connecting"]
            /\ connectionTimer' = TRUE
    /\ UNCHANGED <<current, told, inbox, fallbackPolling, reconnectAttempt,
                   endVars, screenVars, requests, faults>>

-----------------------------------------------------------------------------
(* The user *)

\* The function startJobSubscription returned, which React calls.
Cleanup ==
    /\ ~stopped
    /\ stopped' = TRUE
    /\ connectionTimer' = FALSE
    /\ reconnectTimer' = FALSE
    /\ fallbackPolling' = FALSE
    /\ net' = Closed
    /\ UNCHANGED <<told, inbox, socket, reconnectAttempt, terminalJobReached,
                   previous, delivering, requests, faults>>

\* Another job is selected, or none.
SelectOther ==
    /\ Cleanup
    /\ selected' = FALSE
    /\ UNCHANGED <<current, shown>>

\* The job is cancelled; the response is selected, and is not watched any more.
CancelJob ==
    /\ current < Last
    /\ Cleanup
    /\ current' = Last
    /\ shown' = Last
    /\ UNCHANGED selected

-----------------------------------------------------------------------------
Browser ==
    \/ FinishDelivery \/ PollTick \/ ConnectionTimeout \/ Reconnect
    \/ \E r \in requests : AnswerPoll(r) \/ PollArrives(r) \/ PollFails(r)
    \/ \E i \in Connections : OnOpen(i) \/ OnMessage(i) \/ OnClose(i)

Next ==
    \/ ChangeRow \/ SelectOther \/ CancelJob
    \/ Browser
    \/ \E i \in Connections : \/ ReadJob(i) \/ RefuseJob(i)
                              \/ Watch(i)   \/ Push(i)
                              \/ Lose(i)

Spec == Init /\ [][Next]_vars

\* Events and timers fire, the server answers; no fault is owed, and the user
\* and the job may do nothing.
Fairness ==
    /\ WF_vars(FinishDelivery)
    /\ WF_vars(Reconnect)
    /\ \A i \in Connections : /\ WF_vars(OnOpen(i))
                              /\ WF_vars(OnMessage(i))
                              /\ WF_vars(OnClose(i))
                              /\ WF_vars(ReadJob(i))
                              /\ WF_vars(Watch(i))
                              /\ WF_vars(Push(i))
    /\ WF_vars(PollTick)
    /\ WF_vars(\E r \in requests : AnswerPoll(r) \/ PollArrives(r))

FairSpec == Spec /\ Fairness

-----------------------------------------------------------------------------
(* Properties *)

\* One connection at a time, whatever order errors, timeouts, closes and the
\* reconnect timer come in.
OneConnection ==
    /\ Cardinality({i \in Connections : net[i] \in Live \cup {"closing"}}) <= 1
    /\ reconnectTimer => \A i \in Connections : net[i] \notin Live \cup {"closing"}

\* After the end of the job or of the subscription nothing is polled and no
\* connection is open, although callbacks set before may still run.
QuietAtTheEnd ==
    stopped \/ terminalJobReached =>
        /\ ~fallbackPolling
        /\ \A i \in Connections : net[i] \notin Live

\* Sockets and timers never add up: neither while the job runs nor after it.
ConnectionsAreBounded == OneConnection /\ QuietAtTheEnd

\* The browser learns of the end of the job, after any failures of connections
\* and requests, unless the server refused a subscribe command.
EndIsNoticed ==
    current = Last ~> \/ terminalJobReached
                      \/ stopped
                      \/ \E i \in Connections : net[i] = "refused"

=============================================================================

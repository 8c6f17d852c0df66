------------------------ MODULE RealtimeClient_proofs ------------------------
(***************************************************************************)
(* For any number of versions, polls and faults: the browser has one       *)
(* connection at a time, and none after the end of its subscription.       *)
(***************************************************************************)
EXTENDS RealtimeClient, FiniteSetTheorems, TLAPS

USE ClientAssumption

\* A row is read before it is sent.
ReadInv == \A i \in Connections : net[i] \in {"read", "watching"} => told[i] \in 1..Last

Ended == stopped \/ terminalJobReached

\* The connections before the one the closure holds are closed and those after it
\* are not opened yet. Each but the last has cost a fault, unless it was closed at
\* the end; only then, or when its socket is closed, may a timer be set.
SocketInv ==
    /\ socket \in Connections
    /\ \A i \in Connections : i < socket => net[i] = "closed"
    /\ \A i \in Connections : i > socket => net[i] = "none"
    /\ net[socket] # "none"
    /\ reconnectTimer => net[socket] = "closed"
    /\ socket <= faults + 1
    /\ net[socket] \in {"closing", "closed"} => Ended \/ socket <= faults

\* The end closes the socket and stops the polls.
EndInv == Ended => ~fallbackPolling /\ net[socket] \notin Live

Inv == TypeOK /\ ReadInv /\ SocketInv /\ EndInv

-----------------------------------------------------------------------------
(* Messages and polls.                                                      *)

LEMMA MessagesAreTyped ==
    /\ <<"ready">> \in Messages /\ <<"subscribed">> \in Messages
    /\ \A v \in 1..Last : <<"update", v>> \in Messages
    /\ \A m \in Messages : m[1] = "update" => m[2] \in 1..Last
<1>1. \A v \in 1..Last : <<"update", v>> \in Messages
  BY DEF Messages
<1>2. ASSUME NEW m \in Messages, m[1] = "update" PROVE m[2] \in 1..Last
  <2>1. m # <<"ready">> /\ m # <<"subscribed">>
    BY <1>2
  <2>2. m \in {"update"} \X (1..Last)
    BY <2>1 DEF Messages
  <2>3. QED
    BY <2>2
<1>3. QED
  BY <1>1, <1>2 DEF Messages

LEMMA PolledIsTyped ==
    ASSUME TypeOK, Polled
    PROVE  requests' \in SUBSET [id : 1..MaxPolls, answer : 0..Last]
BY DEF TypeOK, Polled, Unread

LEMMA DeliveredIsTyped ==
    ASSUME TypeOK, NEW v \in 1..Last, Delivered(v)
    PROVE  /\ previous' \in 0..Last /\ delivering' \in BOOLEAN
           /\ selected' \in BOOLEAN /\ shown' \in 1..Last
<1>1. CASE v = previous
  BY <1>1 DEF TypeOK, Delivered, screenVars
<1>2. CASE v # previous
  <2>1. /\ previous' = v /\ shown' \in {v, shown} /\ selected' = selected
        /\ delivering' = (delivering \/ v = Last)
    BY <1>2 DEF Delivered
  <2>2. delivering' \in BOOLEAN
    BY <2>1, Zenon DEF TypeOK
  <2>3. v \in 0..Last
    OBVIOUS
  <2>4. QED
    BY <2>1, <2>2, <2>3 DEF TypeOK
<1>3. QED
  BY <1>1, <1>2

LEMMA FaultIsTyped ==
    ASSUME TypeOK, Fault
    PROVE  faults' \in 0..MaxFaults
BY DEF TypeOK, Fault

LEMMA OthersAreClosed ==
    ASSUME SocketInv, NEW i \in Connections, i # socket
    PROVE  net[i] \in {"closed", "none"} /\ net[i] \notin Live \cup {"closing"}
<1>1. i < socket \/ i > socket
  BY DEF SocketInv, Connections
<1>2. QED
  BY <1>1 DEF SocketInv, Live

\* The faults leave a connection for each reconnection.
LEMMA NextIsConnection ==
    ASSUME TypeOK, SocketInv, reconnectTimer, ~Ended
    PROVE  socket + 1 \in Connections
<1>1. socket \in Nat \ {0} /\ socket <= faults
  BY DEF SocketInv, Connections
<1>2. faults \in 0..MaxFaults
  BY DEF TypeOK
<1>3. QED
  BY <1>1, <1>2 DEF Connections

LEMMA ClosedIsTyped ==
    ASSUME TypeOK
    PROVE  /\ Closed \in [Connections -> Live \cup {"none", "closing", "closed"}]
           /\ \A i \in Connections : i # socket => Closed[i] = net[i]
           /\ socket \in Connections =>
                 Closed[socket] = IF net[socket] \in Live THEN "closing" ELSE net[socket]
BY DEF TypeOK, Closed

LEMMA TypeStep == Inv /\ [Next]_vars => TypeOK'
<1> SUFFICES ASSUME Inv, [Next]_vars PROVE TypeOK'
  OBVIOUS
<1> TypeOK /\ ReadInv /\ SocketInv
  BY DEF Inv
<1>1. ASSUME ChangeRow PROVE TypeOK'
  BY <1>1 DEF ChangeRow, serverVars, timerVars, endVars, screenVars, TypeOK
<1>2. ASSUME SelectOther PROVE TypeOK'
  BY <1>2, ClosedIsTyped DEF SelectOther, Cleanup, TypeOK
<1>3. ASSUME CancelJob PROVE TypeOK'
  <2>1. Last \in 1..Last
    OBVIOUS
  <2>2. current' \in 1..Last /\ shown' \in 1..Last
    BY <1>3, <2>1 DEF CancelJob
  <2>3. QED
    BY <1>3, <2>2, ClosedIsTyped DEF CancelJob, Cleanup, TypeOK
<1>4. ASSUME FinishDelivery PROVE TypeOK'
  BY <1>4, ClosedIsTyped DEF FinishDelivery, TypeOK
<1>5. ASSUME PollTick PROVE TypeOK'
  BY <1>5, PolledIsTyped
     DEF PollTick, serverVars, timerVars, endVars, screenVars, TypeOK
<1>6. ASSUME ConnectionTimeout PROVE TypeOK'
  <2>1. faults' \in 0..MaxFaults
    BY <1>6, FaultIsTyped DEF ConnectionTimeout
  <2>2. QED
    BY <1>6, <2>1, ClosedIsTyped DEF ConnectionTimeout, endVars, screenVars, TypeOK
<1>7. ASSUME Reconnect PROVE TypeOK'
  <2>1. CASE Ended
    BY <1>7, <2>1 DEF Reconnect, Ended, endVars, screenVars, TypeOK
  <2>2. CASE ~Ended
    <3>1. socket + 1 \in Connections
      BY <1>7, <2>2, NextIsConnection DEF Reconnect
    <3>2. /\ socket' = socket + 1 /\ connectionTimer' = TRUE
          /\ net' = [net EXCEPT ![socket + 1] = "connecting"]
      BY <1>7, <2>2 DEF Reconnect, Ended
    <3>3. /\ socket' \in {0} \cup Connections
          /\ net' \in [Connections -> Live \cup {"none", "closing", "closed"}]
      BY <3>1, <3>2 DEF TypeOK, Live
    <3>4. QED
      BY <1>7, <3>2, <3>3 DEF Reconnect, endVars, screenVars, TypeOK
  <2>3. QED
    BY <2>1, <2>2
<1>8. ASSUME NEW r \in requests, AnswerPoll(r) PROVE TypeOK'
  <2>1. r \in [id : 1..MaxPolls, answer : 0..Last] /\ current \in 0..Last
    BY DEF TypeOK
  <2>2. [r EXCEPT !.answer = current] \in [id : 1..MaxPolls, answer : 0..Last]
    BY <2>1
  <2>3. requests' \in SUBSET [id : 1..MaxPolls, answer : 0..Last]
    BY <1>8, <2>2 DEF AnswerPoll, TypeOK
  <2>4. QED
    BY <1>8, <2>3 DEF AnswerPoll, serverVars, timerVars, endVars, screenVars, TypeOK
<1>9. ASSUME NEW r \in requests, PollArrives(r) PROVE TypeOK'
  BY <1>9, DeliveredIsTyped
     DEF PollArrives, serverVars, timerVars, endVars, screenVars, TypeOK, Unread
<1>10. ASSUME NEW r \in requests, PollFails(r) PROVE TypeOK'
  BY <1>10
     DEF PollFails, Fault, serverVars, timerVars, endVars, screenVars, TypeOK,
         Unread
<1>11. ASSUME NEW i \in Connections, OnOpen(i) PROVE TypeOK'
  <2>1. << <<"ready">> >> \in Seq(Messages)
    BY MessagesAreTyped
  <2>2. inbox' \in [Connections -> Seq(Messages)]
    BY <1>11, <2>1 DEF OnOpen, TypeOK
  <2>3. net' \in [Connections -> Live \cup {"none", "closing", "closed"}]
    BY <1>11 DEF OnOpen, TypeOK, Live
  <2>4. QED
    BY <1>11, <2>2, <2>3 DEF OnOpen, endVars, screenVars, TypeOK
<1>12. ASSUME NEW i \in Connections, OnMessage(i) PROVE TypeOK'
  <2>1. PICK m : /\ m = Head(inbox[i])
                 /\ \/ /\ m = <<"ready">>
                       /\ net' = [net EXCEPT ![socket] = "asked"]
                       /\ UNCHANGED <<timerVars, screenVars>>
                    \/ /\ m = <<"subscribed">>
                       /\ reconnectAttempt' = 0
                       /\ fallbackPolling' = FALSE
                       /\ UNCHANGED <<net, connectionTimer, reconnectTimer, screenVars>>
                    \/ /\ m[1] = "update"
                       /\ Delivered(m[2])
                       /\ UNCHANGED <<net, timerVars>>
    BY <1>12 DEF OnMessage
  <2>2. inbox[i] \in Seq(Messages) /\ inbox[i] # <<>>
    BY <1>12 DEF OnMessage, TypeOK
  <2>3. m \in Messages /\ Tail(inbox[i]) \in Seq(Messages)
    BY <2>1, <2>2
  <2>4. inbox' \in [Connections -> Seq(Messages)]
    BY <1>12, <2>3 DEF OnMessage, TypeOK
  <2>5. /\ net' \in [Connections -> Live \cup {"none", "closing", "closed"}]
        /\ connectionTimer' \in BOOLEAN /\ reconnectTimer' \in BOOLEAN
        /\ fallbackPolling' \in BOOLEAN /\ reconnectAttempt' \in 0..3
    <3>1. CASE net' = [net EXCEPT ![socket] = "asked"] /\ UNCHANGED timerVars
      BY <3>1 DEF TypeOK, Live, timerVars
    <3>2. CASE net' = net /\ UNCHANGED timerVars
      BY <3>2 DEF TypeOK, timerVars
    <3>3. ASSUME UNCHANGED <<net, connectionTimer, reconnectTimer>>,
                 reconnectAttempt' = 0, fallbackPolling' = FALSE
          PROVE  /\ net' \in [Connections -> Live \cup {"none", "closing", "closed"}]
                 /\ connectionTimer' \in BOOLEAN /\ reconnectTimer' \in BOOLEAN
                 /\ fallbackPolling' \in BOOLEAN /\ reconnectAttempt' \in 0..3
      <4>1. reconnectAttempt' \in 0..3
        BY <3>3
      <4>2. fallbackPolling' \in BOOLEAN
        BY <3>3
      <4>3. net' \in [Connections -> Live \cup {"none", "closing", "closed"}]
        BY <3>3 DEF TypeOK
      <4>4. connectionTimer' \in BOOLEAN
        BY <3>3 DEF TypeOK
      <4>5. reconnectTimer' \in BOOLEAN
        BY <3>3 DEF TypeOK
      <4>6. QED
        BY <4>1, <4>2, <4>3, <4>4, <4>5
    <3>4. QED
      BY <2>1, <3>1, <3>2, <3>3, Zenon
  <2>6. /\ previous' \in 0..Last /\ delivering' \in BOOLEAN
        /\ selected' \in BOOLEAN /\ shown' \in 1..Last
    BY <2>1, <2>3, MessagesAreTyped, DeliveredIsTyped DEF TypeOK, screenVars
  <2>7. QED
    BY <1>12, <2>4, <2>5, <2>6 DEF OnMessage, TypeOK, endVars
<1>13. ASSUME NEW i \in Connections, OnClose(i) PROVE TypeOK'
  <2>1. net' \in [Connections -> Live \cup {"none", "closing", "closed"}]
    BY <1>13 DEF OnClose, TypeOK
  <2>2. /\ reconnectTimer' \in BOOLEAN /\ fallbackPolling' \in BOOLEAN
        /\ reconnectAttempt' \in 0..3
        /\ requests' = requests \/ Polled
    <3>1. CASE stopped \/ terminalJobReached
      BY <1>13, <3>1 DEF OnClose, TypeOK
    <3>2. CASE ~(stopped \/ terminalJobReached)
      <4>1. /\ reconnectTimer' = TRUE
            /\ reconnectAttempt' = IF reconnectAttempt < 3 THEN reconnectAttempt + 1 ELSE 3
            /\ \/ fallbackPolling' = TRUE /\ Polled
               \/ UNCHANGED <<fallbackPolling, requests>>
        BY <1>13, <3>2, Zenon DEF OnClose
      <4>2. reconnectAttempt' \in 0..3
        BY <4>1 DEF TypeOK
      <4>3. QED
        BY <4>1, <4>2 DEF TypeOK
    <3>3. QED
      BY <3>1, <3>2
  <2>3. requests' \in SUBSET [id : 1..MaxPolls, answer : 0..Last]
    BY <2>2, PolledIsTyped DEF TypeOK
  <2>4. QED
    BY <1>13, <2>1, <2>2, <2>3 DEF OnClose, endVars, screenVars, TypeOK
<1>14. ASSUME NEW i \in Connections, ReadJob(i) PROVE TypeOK'
  BY <1>14 DEF ReadJob, timerVars, endVars, screenVars, TypeOK, Live
<1>15. ASSUME NEW i \in Connections, RefuseJob(i) PROVE TypeOK'
  BY <1>15 DEF RefuseJob, Fault, timerVars, endVars, screenVars, TypeOK, Live
<1>16. ASSUME NEW i \in Connections, Watch(i) PROVE TypeOK'
  BY <1>16, MessagesAreTyped
     DEF Watch, timerVars, endVars, screenVars, TypeOK, Live, ReadInv
<1>17. ASSUME NEW i \in Connections, Push(i) PROVE TypeOK'
  BY <1>17, MessagesAreTyped
     DEF Push, timerVars, endVars, screenVars, TypeOK, Live, ReadInv
<1>18. ASSUME NEW i \in Connections, Lose(i) PROVE TypeOK'
  BY <1>18 DEF Lose, Fault, timerVars, endVars, screenVars, TypeOK, Live
<1>19. CASE UNCHANGED vars
  BY <1>19 DEF vars, TypeOK
<1>20. QED
  BY <1>1, <1>2, <1>3, <1>4, <1>5, <1>6, <1>7, <1>8, <1>9, <1>10, <1>11, <1>12,
     <1>13, <1>14, <1>15, <1>16, <1>17, <1>18, <1>19
     DEF Next, Browser

LEMMA ReadStep == Inv /\ [Next]_vars => ReadInv'
<1> SUFFICES ASSUME Inv, [Next]_vars PROVE ReadInv'
  OBVIOUS
<1> TypeOK /\ ReadInv /\ SocketInv
  BY DEF Inv
<1>1. ASSUME ChangeRow PROVE ReadInv'
  BY <1>1 DEF ChangeRow, serverVars, timerVars, endVars, screenVars, TypeOK, ReadInv
<1>2. ASSUME SelectOther PROVE ReadInv'
  BY <1>2, ClosedIsTyped DEF SelectOther, Cleanup, TypeOK, ReadInv, SocketInv
<1>3. ASSUME CancelJob PROVE ReadInv'
  BY <1>3, ClosedIsTyped DEF CancelJob, Cleanup, TypeOK, ReadInv, SocketInv
<1>4. ASSUME FinishDelivery PROVE ReadInv'
  BY <1>4, ClosedIsTyped DEF FinishDelivery, TypeOK, ReadInv, SocketInv
<1>5. ASSUME PollTick PROVE ReadInv'
  BY <1>5 DEF PollTick, serverVars, timerVars, endVars, screenVars, TypeOK, ReadInv
<1>6. ASSUME ConnectionTimeout PROVE ReadInv'
  BY <1>6, ClosedIsTyped
     DEF ConnectionTimeout, Fault, endVars, screenVars, TypeOK, ReadInv, SocketInv
<1>7. ASSUME Reconnect PROVE ReadInv'
  BY <1>7 DEF Reconnect, endVars, screenVars, TypeOK, ReadInv, SocketInv
<1>8. ASSUME NEW r \in requests, AnswerPoll(r) PROVE ReadInv'
  BY <1>8
     DEF AnswerPoll, serverVars, timerVars, endVars, screenVars, TypeOK, ReadInv
<1>9. ASSUME NEW r \in requests, PollArrives(r) PROVE ReadInv'
  BY <1>9
     DEF PollArrives, serverVars, timerVars, endVars, screenVars, TypeOK, ReadInv
<1>10. ASSUME NEW r \in requests, PollFails(r) PROVE ReadInv'
  BY <1>10
     DEF PollFails, Fault, serverVars, timerVars, endVars, screenVars, TypeOK,
         ReadInv
<1>11. ASSUME NEW i \in Connections, OnOpen(i) PROVE ReadInv'
  BY <1>11 DEF OnOpen, endVars, screenVars, TypeOK, ReadInv
<1>12. ASSUME NEW i \in Connections, OnMessage(i) PROVE ReadInv'
  BY <1>12 DEF OnMessage, timerVars, endVars, screenVars, TypeOK, ReadInv
<1>13. ASSUME NEW i \in Connections, OnClose(i) PROVE ReadInv'
  BY <1>13 DEF OnClose, endVars, screenVars, TypeOK, ReadInv
<1>14. ASSUME NEW i \in Connections, ReadJob(i) PROVE ReadInv'
  BY <1>14 DEF ReadJob, timerVars, endVars, screenVars, TypeOK, ReadInv
<1>15. ASSUME NEW i \in Connections, RefuseJob(i) PROVE ReadInv'
  BY <1>15 DEF RefuseJob, Fault, timerVars, endVars, screenVars, TypeOK, ReadInv
<1>16. ASSUME NEW i \in Connections, Watch(i) PROVE ReadInv'
  BY <1>16 DEF Watch, timerVars, endVars, screenVars, TypeOK, ReadInv
<1>17. ASSUME NEW i \in Connections, Push(i) PROVE ReadInv'
  BY <1>17 DEF Push, timerVars, endVars, screenVars, TypeOK, ReadInv
<1>18. ASSUME NEW i \in Connections, Lose(i) PROVE ReadInv'
  BY <1>18 DEF Lose, Fault, timerVars, endVars, screenVars, TypeOK, ReadInv
<1>19. CASE UNCHANGED vars
  BY <1>19 DEF vars, ReadInv
<1>20. QED
  BY <1>1, <1>2, <1>3, <1>4, <1>5, <1>6, <1>7, <1>8, <1>9, <1>10, <1>11, <1>12,
     <1>13, <1>14, <1>15, <1>16, <1>17, <1>18, <1>19
     DEF Next, Browser

-----------------------------------------------------------------------------
(* Connections.                                                             *)

LEMMA SocketStep == Inv /\ [Next]_vars => SocketInv'
<1> SUFFICES ASSUME Inv, [Next]_vars PROVE SocketInv'
  OBVIOUS
<1> TypeOK /\ ReadInv /\ SocketInv /\ EndInv
  BY DEF Inv
<1>1. ASSUME ChangeRow PROVE SocketInv'
  BY <1>1
     DEF ChangeRow, serverVars, timerVars, endVars, screenVars, TypeOK, SocketInv,
         Ended, Live, Connections
<1>2. ASSUME SelectOther PROVE SocketInv'
  BY <1>2, ClosedIsTyped
     DEF SelectOther, Cleanup, TypeOK, SocketInv, Ended, Live, Connections
<1>3. ASSUME CancelJob PROVE SocketInv'
  BY <1>3, ClosedIsTyped
     DEF CancelJob, Cleanup, TypeOK, SocketInv, Ended, Live, Connections
<1>4. ASSUME FinishDelivery PROVE SocketInv'
  BY <1>4, ClosedIsTyped
     DEF FinishDelivery, TypeOK, SocketInv, Ended, Live, Connections
<1>5. ASSUME PollTick PROVE SocketInv'
  BY <1>5
     DEF PollTick, serverVars, timerVars, endVars, screenVars, TypeOK, SocketInv,
         Ended, Live, Connections
<1>6. ASSUME ConnectionTimeout PROVE SocketInv'
  <2>1. /\ net' = Closed /\ faults' = faults + 1
        /\ UNCHANGED <<socket, reconnectTimer, endVars>>
    BY <1>6 DEF ConnectionTimeout, Fault
  <2>2. /\ \A k \in Connections : k # socket => net'[k] = net[k]
        /\ net'[socket] = IF net[socket] \in Live THEN "closing" ELSE net[socket]
    BY <2>1, ClosedIsTyped DEF SocketInv
  <2>3. net'[socket] # "none" /\ (reconnectTimer' => net'[socket] = "closed")
    BY <2>1, <2>2 DEF SocketInv, Live
  <2>4. socket' \in Connections /\ socket' <= faults' /\ socket' <= faults' + 1
    BY <2>1 DEF SocketInv, Connections, TypeOK
  <2>5. QED
    BY <2>1, <2>2, <2>3, <2>4 DEF SocketInv, Connections
<1>7. ASSUME Reconnect PROVE SocketInv'
  <2>1. CASE Ended
    BY <1>7, <2>1 DEF Reconnect, SocketInv, Ended, endVars
  <2>2. CASE ~Ended
    <3>1. socket + 1 \in Connections /\ net[socket] = "closed" /\ socket <= faults
      BY <1>7, <2>2, NextIsConnection DEF Reconnect, SocketInv
    <3>2. /\ socket' = socket + 1 /\ reconnectTimer' = FALSE
          /\ net' = [net EXCEPT ![socket + 1] = "connecting"]
          /\ UNCHANGED <<endVars, faults>>
      BY <1>7, <2>2 DEF Reconnect, Ended
    <3>3. /\ net'[socket + 1] = "connecting"
          /\ \A k \in Connections : k # socket + 1 => net'[k] = net[k]
      BY <3>1, <3>2 DEF TypeOK
    <3>4. \A k \in Connections : k < socket' => net'[k] = "closed"
      BY <3>1, <3>2, <3>3 DEF SocketInv, Connections
    <3>5. \A k \in Connections : k > socket' => net'[k] = "none"
      BY <3>1, <3>2, <3>3 DEF SocketInv, Connections
    <3>6. socket' <= faults' + 1
      BY <3>1, <3>2 DEF SocketInv, Connections, TypeOK
    <3>7. QED
      BY <3>1, <3>2, <3>3, <3>4, <3>5, <3>6 DEF SocketInv
  <2>3. QED
    BY <2>1, <2>2
<1>8. ASSUME NEW r \in requests, AnswerPoll(r) PROVE SocketInv'
  BY <1>8
     DEF AnswerPoll, serverVars, timerVars, endVars, screenVars, TypeOK, SocketInv,
         Ended, Live, Connections
<1>9. ASSUME NEW r \in requests, PollArrives(r) PROVE SocketInv'
  BY <1>9
     DEF PollArrives, serverVars, timerVars, endVars, screenVars, TypeOK, SocketInv,
         Ended, Live, Connections
<1>10. ASSUME NEW r \in requests, PollFails(r) PROVE SocketInv'
  BY <1>10
     DEF PollFails, Fault, serverVars, timerVars, endVars, screenVars, TypeOK,
         SocketInv, Ended, Live, Connections
<1>11. ASSUME NEW i \in Connections, OnOpen(i) PROVE SocketInv'
  BY <1>11
     DEF OnOpen, endVars, screenVars, TypeOK, SocketInv, Ended, Live, Connections
<1>12. ASSUME NEW i \in Connections, OnMessage(i) PROVE SocketInv'
  <2>1. i = socket
    BY <1>12, OthersAreClosed DEF OnMessage
  <2>2. \/ net' = net
        \/ net' = [net EXCEPT ![socket] = "asked"] /\ UNCHANGED timerVars
    BY <1>12 DEF OnMessage
  <2>3. reconnectTimer' = reconnectTimer /\ UNCHANGED <<socket, endVars, faults>>
    BY <1>12 DEF OnMessage, timerVars
  <2>4. net[socket] \in Live
    BY <1>12, <2>1 DEF OnMessage
  <2>5. \A k \in Connections : k # socket => net'[k] = net[k]
    BY <2>2 DEF TypeOK
  <2>6. net'[socket] \in Live
    BY <2>2, <2>4 DEF TypeOK, SocketInv, Live
  <2>7. ~reconnectTimer
    BY <2>4 DEF SocketInv, Live
  <2>8. QED
    BY <2>3, <2>5, <2>6, <2>7 DEF SocketInv, Ended, endVars, Live, Connections
<1>13. ASSUME NEW i \in Connections, OnClose(i) PROVE SocketInv'
  <2>1. i = socket
    BY <1>13, OthersAreClosed DEF OnClose
  <2>2. /\ net' = [net EXCEPT ![socket] = "closed"]
        /\ net[socket] = "closing" /\ UNCHANGED <<socket, endVars, faults>>
    BY <1>13, <2>1 DEF OnClose
  <2>3. /\ \A k \in Connections : k # socket => net'[k] = net[k]
        /\ net'[socket] = "closed"
    BY <2>2 DEF TypeOK, SocketInv
  <2>4. QED
    BY <2>2, <2>3 DEF SocketInv, Ended, endVars, Connections
<1>14. ASSUME NEW i \in Connections, ReadJob(i) PROVE SocketInv'
  BY <1>14
     DEF ReadJob, timerVars, endVars, screenVars, TypeOK, SocketInv, Ended, Live,
         Connections
<1>15. ASSUME NEW i \in Connections, RefuseJob(i) PROVE SocketInv'
  BY <1>15
     DEF RefuseJob, Fault, timerVars, endVars, screenVars, TypeOK, SocketInv, Ended,
         Live, Connections
<1>16. ASSUME NEW i \in Connections, Watch(i) PROVE SocketInv'
  BY <1>16
     DEF Watch, timerVars, endVars, screenVars, TypeOK, SocketInv, Ended, Live,
         Connections
<1>17. ASSUME NEW i \in Connections, Push(i) PROVE SocketInv'
  BY <1>17
     DEF Push, timerVars, endVars, screenVars, TypeOK, SocketInv, Ended, Live,
         Connections
<1>18. ASSUME NEW i \in Connections, Lose(i) PROVE SocketInv'
  BY <1>18
     DEF Lose, Fault, timerVars, endVars, screenVars, TypeOK, SocketInv, Ended,
         Live, Connections
<1>19. CASE UNCHANGED vars
  BY <1>19 DEF vars, SocketInv, Ended
<1>20. QED
  BY <1>1, <1>2, <1>3, <1>4, <1>5, <1>6, <1>7, <1>8, <1>9, <1>10, <1>11, <1>12,
     <1>13, <1>14, <1>15, <1>16, <1>17, <1>18, <1>19
     DEF Next, Browser

LEMMA EndStep == Inv /\ [Next]_vars => EndInv'
<1> SUFFICES ASSUME Inv, [Next]_vars PROVE EndInv'
  OBVIOUS
<1> TypeOK /\ ReadInv /\ SocketInv /\ EndInv
  BY DEF Inv
<1>1. ASSUME ChangeRow PROVE EndInv'
  BY <1>1
     DEF ChangeRow, serverVars, timerVars, endVars, screenVars, TypeOK, SocketInv,
         EndInv, Ended, Live
<1>2. ASSUME SelectOther PROVE EndInv'
  BY <1>2, ClosedIsTyped
     DEF SelectOther, Cleanup, TypeOK, SocketInv, EndInv, Ended, Live
<1>3. ASSUME CancelJob PROVE EndInv'
  BY <1>3, ClosedIsTyped
     DEF CancelJob, Cleanup, TypeOK, SocketInv, EndInv, Ended, Live
<1>4. ASSUME FinishDelivery PROVE EndInv'
  BY <1>4, ClosedIsTyped DEF FinishDelivery, TypeOK, SocketInv, EndInv, Ended, Live
<1>5. ASSUME PollTick PROVE EndInv'
  BY <1>5
     DEF PollTick, serverVars, timerVars, endVars, screenVars, TypeOK, SocketInv,
         EndInv, Ended, Live
<1>6. ASSUME ConnectionTimeout PROVE EndInv'
  BY <1>6, ClosedIsTyped
     DEF ConnectionTimeout, Fault, endVars, screenVars, TypeOK, SocketInv, EndInv,
         Ended, Live
<1>7. ASSUME Reconnect PROVE EndInv'
  BY <1>7 DEF Reconnect, endVars, screenVars, TypeOK, SocketInv, EndInv, Ended, Live
<1>8. ASSUME NEW r \in requests, AnswerPoll(r) PROVE EndInv'
  BY <1>8
     DEF AnswerPoll, serverVars, timerVars, endVars, screenVars, TypeOK, SocketInv,
         EndInv, Ended, Live
<1>9. ASSUME NEW r \in requests, PollArrives(r) PROVE EndInv'
  BY <1>9
     DEF PollArrives, serverVars, timerVars, endVars, screenVars, TypeOK, SocketInv,
         EndInv, Ended, Live
<1>10. ASSUME NEW r \in requests, PollFails(r) PROVE EndInv'
  BY <1>10
     DEF PollFails, Fault, serverVars, timerVars, endVars, screenVars, TypeOK,
         SocketInv, EndInv, Ended, Live
<1>11. ASSUME NEW i \in Connections, OnOpen(i) PROVE EndInv'
  BY <1>11 DEF OnOpen, endVars, screenVars, TypeOK, SocketInv, EndInv, Ended, Live
<1>12. ASSUME NEW i \in Connections, OnMessage(i) PROVE EndInv'
  BY <1>12
     DEF OnMessage, timerVars, endVars, screenVars, TypeOK, SocketInv, EndInv,
         Ended, Live
<1>13. ASSUME NEW i \in Connections, OnClose(i) PROVE EndInv'
  BY <1>13 DEF OnClose, endVars, screenVars, TypeOK, SocketInv, EndInv, Ended, Live
<1>14. ASSUME NEW i \in Connections, ReadJob(i) PROVE EndInv'
  BY <1>14
     DEF ReadJob, timerVars, endVars, screenVars, TypeOK, SocketInv, EndInv, Ended,
         Live
<1>15. ASSUME NEW i \in Connections, RefuseJob(i) PROVE EndInv'
  BY <1>15
     DEF RefuseJob, Fault, timerVars, endVars, screenVars, TypeOK, SocketInv,
         EndInv, Ended, Live
<1>16. ASSUME NEW i \in Connections, Watch(i) PROVE EndInv'
  BY <1>16
     DEF Watch, timerVars, endVars, screenVars, TypeOK, SocketInv, EndInv, Ended,
         Live
<1>17. ASSUME NEW i \in Connections, Push(i) PROVE EndInv'
  BY <1>17
     DEF Push, timerVars, endVars, screenVars, TypeOK, SocketInv, EndInv, Ended,
         Live
<1>18. ASSUME NEW i \in Connections, Lose(i) PROVE EndInv'
  BY <1>18
     DEF Lose, Fault, timerVars, endVars, screenVars, TypeOK, SocketInv, EndInv,
         Ended, Live
<1>19. CASE UNCHANGED vars
  BY <1>19 DEF vars, EndInv, Ended
<1>20. QED
  BY <1>1, <1>2, <1>3, <1>4, <1>5, <1>6, <1>7, <1>8, <1>9, <1>10, <1>11, <1>12,
     <1>13, <1>14, <1>15, <1>16, <1>17, <1>18, <1>19
     DEF Next, Browser

-----------------------------------------------------------------------------
(* Theorems.                                                                *)

\* The sockets, timers and polls of a subscription, in every state.
THEOREM Invariance == Spec => []Inv
<1>1. Init => Inv
  <2> SUFFICES ASSUME Init PROVE Inv
    OBVIOUS
  <2>1. 1 \in Connections /\ 1 \in 1..Last
    BY DEF Connections
  <2>2. <<>> \in Seq(Messages)
    OBVIOUS
  <2>3. TypeOK
    <3>1. net \in [Connections -> Live \cup {"none", "closing", "closed"}]
      BY DEF Init, Live
    <3>2. told \in [Connections -> 0..Last] /\ inbox \in [Connections -> Seq(Messages)]
      BY <2>2 DEF Init
    <3>3. requests \in SUBSET [id : 1..MaxPolls, answer : 0..Last]
      BY DEF Init
    <3>4. faults \in 0..MaxFaults
      BY DEF Init
    <3>5. reconnectAttempt \in 0..3 /\ previous \in 0..Last /\ current \in 1..Last
          /\ shown \in 1..Last
      BY <2>1 DEF Init
    <3>6. QED
      BY <2>1, <3>1, <3>2, <3>3, <3>4, <3>5, Zenon DEF Init, TypeOK
  <2>4. ReadInv /\ EndInv
    BY <2>1 DEF Init, ReadInv, EndInv, Ended
  <2>5. SocketInv
    BY <2>1 DEF Init, SocketInv, Connections
  <2>6. QED
    BY <2>3, <2>4, <2>5 DEF Inv
<1>2. Inv /\ [Next]_vars => Inv'
  BY TypeStep, ReadStep, SocketStep, EndStep DEF Inv
<1>3. QED
  BY <1>1, <1>2, PTL DEF Spec

\* Whatever messages, answers and timers arrive, and however late: no connection
\* beyond those the faults account for is opened, and only versions are delivered.
THEOREM TypeCorrect == Spec => []TypeOK
<1>1. Inv => TypeOK
  BY DEF Inv
<1>2. QED
  BY <1>1, Invariance, PTL

\* openSocket, scheduleReconnect and the cleanup function: errors, timeouts and
\* closes in any order leave one connection and no timer beside it; after the end
\* nothing is open or polled.
THEOREM ConnectionsBounded == Spec => []ConnectionsAreBounded
<1>1. ASSUME Inv PROVE ConnectionsAreBounded
  <2> DEFINE open == {i \in Connections : net[i] \in Live \cup {"closing"}}
  <2> TypeOK /\ SocketInv /\ EndInv
    BY <1>1 DEF Inv
  <2>1. open \subseteq {socket}
    BY OthersAreClosed
  <2>2. IsFiniteSet({socket}) /\ Cardinality({socket}) = 1
    BY FS_Singleton
  <2>3. Cardinality(open) <= 1
    BY <2>1, <2>2, FS_Subset
  <2>4. OneConnection
    BY <2>1, <2>3 DEF OneConnection, SocketInv, Live
  <2>5. QuietAtTheEnd
    BY <2>1 DEF QuietAtTheEnd, EndInv, Ended, Live
  <2>6. QED
    BY <2>4, <2>5 DEF ConnectionsAreBounded
<1>2. QED
  BY <1>1, Invariance, PTL

=============================================================================

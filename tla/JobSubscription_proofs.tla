----------------------- MODULE JobSubscription_proofs -----------------------
(***************************************************************************)
(* What a socket is told: the job it asked for last, in order and without  *)
(* a lost event, for any number of sockets, jobs, versions, commands and   *)
(* faults.                                                                 *)
(***************************************************************************)
EXTENDS JobSubscription, TLAPS

-----------------------------------------------------------------------------
(* Types.                                                                   *)

\* A subscription has the number of the command that set it.
TypeInv ==
    /\ TypeOK
    /\ \A s \in Sockets : sub[s] # NoSub => sub[s].id \in 1..MaxCommands

\* What beginning a refresh does to the sockets S: a read of the row is on its way,
\* or will be after the one under way.
BegunOn(s) ==
    /\ sub'[s] \in Subscriptions
    /\ sub'[s].id = sub[s].id /\ sub'[s].job = sub[s].job
    /\ sub'[s].previous = sub[s].previous
    /\ sub'[s].isRefreshing
    /\ \/ sub[s].isRefreshing /\ sub'[s].requested /\ reads'[s] = reads[s]
       \/ ~sub[s].isRefreshing /\ reads'[s] = reads[s] \cup {Read(s)}

LEMMA BegunEffect ==
    ASSUME TypeInv, NEW S \in SUBSET Sockets, Begun(S), \A s \in S : sub[s] # NoSub
    PROVE  \A s \in Sockets : IF s \in S THEN BegunOn(s)
                              ELSE sub'[s] = sub[s] /\ reads'[s] = reads[s]
<1> SUFFICES ASSUME NEW s \in Sockets
             PROVE  IF s \in S THEN BegunOn(s)
                    ELSE sub'[s] = sub[s] /\ reads'[s] = reads[s]
  OBVIOUS
<1>1. CASE s \notin S
  BY <1>1 DEF Begun
<1>2. CASE s \in S /\ sub[s].isRefreshing
  <2>1. sub[s] \in Subscriptions
    BY <1>2 DEF TypeInv, TypeOK
  <2>2. sub'[s] = [sub[s] EXCEPT !.requested = TRUE] /\ reads'[s] = reads[s]
    BY <1>2 DEF Begun
  <2>3. QED
    BY <1>2, <2>1, <2>2 DEF BegunOn, Subscriptions
<1>3. CASE s \in S /\ ~sub[s].isRefreshing
  <2>1. sub[s] \in Subscriptions
    BY <1>3 DEF TypeInv, TypeOK
  <2>2. /\ sub'[s] = [sub[s] EXCEPT !.isRefreshing = TRUE, !.requested = FALSE]
        /\ reads'[s] = reads[s] \cup {Read(s)}
    BY <1>3 DEF Begun
  <2>3. QED
    BY <1>3, <2>1, <2>2 DEF BegunOn, Subscriptions
<1>4. QED
  BY <1>1, <1>2, <1>3

\* For Zenon, which has no arithmetic.
LEMMA NotBehind == \A m, n \in Nat : m <= n => m < n \/ m = n
OBVIOUS

\* What an answered read does: its answer is sent, and an event that came meanwhile
\* starts another.
Sent(s, r) ==
    /\ sub[s] \in Subscriptions /\ sub[s] # NoSub /\ r.id = sub[s].id
    /\ r.answer \in Versions
    /\ sub'[s] \in Subscriptions
    /\ sub'[s].id = sub[s].id /\ sub'[s].job = sub[s].job
    /\ sub'[s].previous = r.answer
    /\ sub'[s].missed = sub[s].missed
    /\ sub' = [sub EXCEPT ![s] = sub'[s]] /\ reads' = [reads EXCEPT ![s] = reads'[s]]
    /\ IF sub[s].requested THEN reads'[s] = (reads[s] \ {r}) \cup {Read(s)}
                           ELSE reads'[s] = reads[s] \ {r}
    /\ UNCHANGED <<dbVars, connVars, cmdVars, faults>>

LEMMA SendEffect ==
    ASSUME TypeInv, NEW s \in Sockets, NEW r \in reads[s], Send(s, r)
    PROVE  Sent(s, r)
<1> DEFINE i == sub[s].interval /\ r.answer # Last
<1>1. r.id = sub[s].id /\ r.answer \in Versions
  BY DEF Send, Current
<1>2. sub[s] # NoSub
  BY <1>1 DEF TypeInv, TypeOK, Queries, NoSub
<1>3. sub[s] \in Subscriptions
  BY <1>2 DEF TypeInv, TypeOK
<1>4. i \in BOOLEAN
  OBVIOUS
<1>5. sub' = [sub EXCEPT ![s] = [sub[s] EXCEPT !.previous = r.answer, !.interval = i,
                    !.isRefreshing = sub[s].requested, !.requested = FALSE]]
  BY Zenon DEF Send
<1>6. reads' = [reads EXCEPT ![s] =
              (@ \ {r}) \cup IF sub[s].requested THEN {Read(s)} ELSE {}]
  BY Zenon DEF Send
<1> HIDE DEF i
<1>7. sub'[s] = [sub[s] EXCEPT !.previous = r.answer, !.interval = i,
                    !.isRefreshing = sub[s].requested, !.requested = FALSE]
  BY <1>5 DEF TypeInv, TypeOK
<1>8. /\ sub'[s] \in Subscriptions
      /\ sub'[s].id = sub[s].id /\ sub'[s].job = sub[s].job
      /\ sub'[s].previous = r.answer
  BY <1>1, <1>3, <1>4, <1>7 DEF Subscriptions
<1>9. sub'[s].missed = sub[s].missed
  BY <1>3, <1>7 DEF Subscriptions
<1>10. sub' = [sub EXCEPT ![s] = sub'[s]] /\ reads' = [reads EXCEPT ![s] = reads'[s]]
  BY <1>5, <1>6 DEF TypeInv, TypeOK
<1>11. IF sub[s].requested THEN reads'[s] = (reads[s] \ {r}) \cup {Read(s)}
                           ELSE reads'[s] = reads[s] \ {r}
  BY <1>6 DEF TypeInv, TypeOK
<1>12. QED
  BY <1>1, <1>2, <1>3, <1>8, <1>9, <1>10, <1>11 DEF Sent, Send

\* What a subscribe command sets in the end.
Set(s, c) ==
    /\ c.id = version[s] /\ c.answer \in Versions
    /\ sub'[s].id = c.id /\ sub'[s].job = c.job
    /\ sub'[s].previous = c.answer
    /\ c.answer < row[c.job] /\ c.job \notin events => sub'[s].missed
    /\ \A t \in Sockets \ {s} : sub'[t] = sub[t]

LEMMA RegisterEffect ==
    ASSUME TypeInv, NEW s \in Sockets, NEW c \in pending[s], Register(s, c)
    PROVE  Set(s, c)
<1>1. /\ c.id = version[s] /\ c.answer \in Versions
      /\ sub' = [sub EXCEPT ![s] = Registered(c, c.answer # Last)]
  BY DEF Register
<1>2. /\ sub'[s] = Registered(c, c.answer # Last)
      /\ \A t \in Sockets \ {s} : sub'[t] = sub[t]
  BY <1>1 DEF TypeInv, TypeOK
<1> DEFINE f == c.answer < row[c.job] /\ c.job \notin events
<1>3. Registered(c, c.answer # Last) =
        [id |-> c.id, job |-> c.job, previous |-> c.answer, interval |-> c.answer # Last,
         isRefreshing |-> FALSE, requested |-> FALSE, missed |-> f]
  BY Zenon DEF Registered
<1> HIDE DEF f
<1>4. /\ sub'[s].id = c.id /\ sub'[s].job = c.job /\ sub'[s].previous = c.answer
      /\ sub'[s].missed = f
  <2>1. sub'[s] = [id |-> c.id, job |-> c.job, previous |-> c.answer,
                   interval |-> c.answer # Last, isRefreshing |-> FALSE,
                   requested |-> FALSE, missed |-> f]
    BY Zenon, <1>2, <1>3
  <2>2. QED
    BY <2>1
<1>5. QED
  BY Zenon, <1>1, <1>2, <1>4 DEF f, Set

LEMMA TypeInvCorrect == Spec => []TypeInv
<1> USE SubscriptionAssumption
    DEF TypeInv, TypeOK, Subscriptions, Queries, Versions, Gone, Unread, NoSub
<1>1. Init => TypeInv
  BY DEF Init
<1>2. TypeInv /\ [Next]_vars => TypeInv'
  <2> SUFFICES ASSUME TypeInv, [Next]_vars PROVE TypeInv'
    OBVIOUS
  <2> USE DEF vars, dbVars, connVars, cmdVars
  <2>1. ASSUME NEW j \in Jobs, ChangeRow(j) PROVE TypeInv'
    BY <2>1 DEF ChangeRow
  <2>2. ASSUME NEW j \in Jobs, HideRow(j) PROVE TypeInv'
    BY <2>2 DEF HideRow
  <2>3. ASSUME NEW j \in Jobs, LoseEvent(j) PROVE TypeInv'
    <3>1. ASSUME NEW t \in Sockets
          PROVE  /\ sub'[t] \in Subscriptions \cup {NoSub}
                 /\ sub'[t] # NoSub => sub'[t].id \in 1..MaxCommands
      <4>1. CASE sub[t] # NoSub /\ sub[t].job = j
        <5>1. sub[t] \in Subscriptions
          BY <4>1
        <5>2. sub'[t] = [sub[t] EXCEPT !.missed = TRUE]
          BY <2>3, <4>1 DEF LoseEvent
        <5>3. QED
          BY <4>1, <5>1, <5>2
      <4>2. CASE ~(sub[t] # NoSub /\ sub[t].job = j)
        BY <2>3, <4>2 DEF LoseEvent
      <4>3. QED
        BY <4>1, <4>2
    <3>2. QED
      BY <2>3, <3>1 DEF LoseEvent, Fault
  <2>4. ASSUME NEW j \in Jobs, Notify(j) PROVE TypeInv'
    <3> DEFINE S == {t \in Sockets : sub[t] # NoSub /\ conn[t] = "open" /\ sub[t].job = j}
    <3>1. Begun(S) /\ S \in SUBSET Sockets /\ \A t \in S : sub[t] # NoSub
      BY <2>4 DEF Notify
    <3>2. \A t \in Sockets : IF t \in S THEN BegunOn(t)
                                ELSE sub'[t] = sub[t] /\ reads'[t] = reads[t]
      BY <3>1, BegunEffect
    <3>3. ASSUME NEW t \in Sockets
          PROVE  /\ sub'[t] \in Subscriptions \cup {NoSub}
                 /\ reads'[t] \in SUBSET Queries
                 /\ sub'[t] # NoSub => sub'[t].id \in 1..MaxCommands
      <4>1. CASE t \in S
        <5>1. Read(t) \in Queries
          BY <3>1, <4>1 DEF Read
        <5>2. QED
          BY <3>1, <3>2, <4>1, <5>1 DEF BegunOn
      <4>2. CASE t \notin S
        BY <3>2, <4>2
      <4>3. QED
        BY <4>1, <4>2
    <3>4. QED
      BY <2>4, <3>1, <3>3 DEF Notify, Begun
  <2>5. ASSUME NEW s \in Sockets, Connect(s) PROVE TypeInv'
    BY <2>5 DEF Connect
  <2>6. ASSUME NEW s \in Sockets, Authenticate(s) PROVE TypeInv'
    BY <2>6 DEF Authenticate
  <2>7. ASSUME NEW s \in Sockets, Refuse(s) PROVE TypeInv'
    BY <2>7 DEF Refuse
  <2>8. ASSUME NEW s \in Sockets, Close(s) PROVE TypeInv'
    BY <2>8 DEF Close
  <2>9. ASSUME NEW s \in Sockets, Vanish(s) PROVE TypeInv'
    BY <2>9 DEF Vanish, Fault
  <2>10. ASSUME NEW s \in Sockets, Pong(s) PROVE TypeInv'
    BY <2>10 DEF Pong
  <2>11. ASSUME NEW s \in Sockets, NEW j \in Jobs, Subscribe(s, j) PROVE TypeInv'
    BY <2>11 DEF Subscribe, Command
  <2>12. ASSUME NEW s \in Sockets, Unsubscribe(s) PROVE TypeInv'
    BY <2>12 DEF Unsubscribe, Command
  <2>13. ASSUME NEW s \in Sockets, SafetyTick(s) PROVE TypeInv'
    <3> DEFINE S == {s}
    <3>1. Begun(S) /\ S \in SUBSET Sockets /\ \A t \in S : sub[t] # NoSub
      BY <2>13 DEF SafetyTick
    <3>2. \A t \in Sockets : IF t \in S THEN BegunOn(t)
                                ELSE sub'[t] = sub[t] /\ reads'[t] = reads[t]
      BY <3>1, BegunEffect
    <3>3. ASSUME NEW t \in Sockets
          PROVE  /\ sub'[t] \in Subscriptions \cup {NoSub}
                 /\ reads'[t] \in SUBSET Queries
                 /\ sub'[t] # NoSub => sub'[t].id \in 1..MaxCommands
      <4>1. CASE t \in S
        <5>1. Read(t) \in Queries
          BY <3>1, <4>1 DEF Read
        <5>2. QED
          BY <3>1, <3>2, <4>1, <5>1 DEF BegunOn
      <4>2. CASE t \notin S
        BY <3>2, <4>2
      <4>3. QED
        BY <4>1, <4>2
    <3>4. QED
      BY <2>13, <3>1, <3>3 DEF SafetyTick, Begun
  <2>14. ASSUME NEW s \in Sockets, NEW c \in pending[s], AnswerSubscribe(s, c) PROVE TypeInv'
    BY <2>14 DEF AnswerSubscribe
  <2>15. ASSUME NEW s \in Sockets, NEW c \in pending[s], DropSubscribe(s, c) PROVE TypeInv'
    BY <2>15 DEF DropSubscribe, Fault
  <2>16. ASSUME NEW s \in Sockets, NEW c \in pending[s], Register(s, c) PROVE TypeInv'
    BY <2>16 DEF Register, Registered
  <2>17. ASSUME NEW s \in Sockets, NEW r \in reads[s], AnswerRefresh(s, r) PROVE TypeInv'
    BY <2>17 DEF AnswerRefresh
  <2>18. ASSUME NEW s \in Sockets, NEW r \in reads[s], DropRefresh(s, r) PROVE TypeInv'
    BY <2>18 DEF DropRefresh
  <2>19. ASSUME NEW s \in Sockets, NEW r \in reads[s], EndSubscription(s, r) PROVE TypeInv'
    BY <2>19 DEF EndSubscription, Current
  <2>20. ASSUME NEW s \in Sockets, NEW r \in reads[s], Send(s, r) PROVE TypeInv'
    <3>1. Sent(s, r)
      BY <2>20, SendEffect
    <3>2. Read(s) \in Queries
      BY <3>1 DEF Read, Sent
    <3>3. QED
      BY <3>1, <3>2 DEF Sent
  <2>21. ASSUME NEW s \in Sockets, NEW r \in reads[s], FailRefresh(s, r) PROVE TypeInv'
    <3>1. CASE sub[s].id = r.id
      <4>1. sub[s] \in Subscriptions /\ sub[s] # NoSub
        BY <3>1
      <4>2. sub'[s] = [sub[s] EXCEPT !.isRefreshing = FALSE, !.missed = TRUE]
        BY <2>21, <3>1 DEF FailRefresh
      <4>3. sub'[s] \in Subscriptions /\ sub'[s].id = sub[s].id
        BY <4>1, <4>2
      <4>4. QED
        BY <2>21, <4>1, <4>3 DEF FailRefresh, Fault
    <3>2. CASE sub[s].id # r.id
      BY <2>21, <3>2 DEF FailRefresh, Fault
    <3>3. QED
      BY <3>1, <3>2
  <2>22. CASE Heartbeat
    BY <2>22 DEF Heartbeat, Clients
  <2>23. CASE UNCHANGED vars
    BY <2>23
  <2>24. QED
    BY <2>1, <2>2, <2>3, <2>4, <2>5, <2>6, <2>7, <2>8, <2>9, <2>10,
       <2>11, <2>12, <2>13, <2>14, <2>15, <2>16, <2>17, <2>18, <2>19, <2>20,
       <2>21, <2>22, <2>23
       DEF Next, Answers
<1>3. QED
  BY <1>1, <1>2, PTL DEF Spec

\* Every variable keeps its type.
THEOREM TypeCorrect == Spec => []TypeOK
BY TypeInvCorrect, PTL DEF TypeInv

-----------------------------------------------------------------------------
(* Commands, subscriptions and reads of one socket.                         *)

\* Commands are numbered: a subscribe that is the newest is for the job wanted,
\* and no two queries that are under way have one number, nor one with the
\* subscription. (A socket that is not open yet has had no command.)
CommandInv ==
    \A s \in Sockets :
        /\ conn[s] \in {"new", "auth"} => version[s] = 0
        /\ sub[s].id <= version[s]
        /\ want[s] = NoJob => sub[s] = NoSub
        /\ \A c \in pending[s] : /\ c.id <= version[s]
                                 /\ c.id = version[s] => want[s] = c.job
                                 /\ c.id # sub[s].id
                                 /\ c.answer # Unread => c.answer <= row[c.job]
        /\ \A c, d \in pending[s] : c.id = d.id => c = d

\* A subscription is never ahead of its row, and has one read under way at most,
\* whose answer is not older than what was sent.
ReadOf(s) ==
    /\ sub[s] # NoSub => sub[s].previous <= row[sub[s].job]
    /\ \A r \in reads[s] :
          /\ r.id <= version[s]
          /\ \A c \in pending[s] : c.id # r.id
          /\ r.answer # Unread => r.answer <= row[r.job]
          /\ r.id = sub[s].id =>
                /\ r.job = sub[s].job
                /\ sub[s].isRefreshing
                /\ r.answer # Unread => sub[s].previous <= r.answer
    /\ \A r, q \in reads[s] : r.id = q.id => r = q
ReadInv == \A s \in Sockets : ReadOf(s)

SubscriptionInv == CommandInv /\ ReadInv

LEMMA SubscriptionInvCorrect == Spec => []SubscriptionInv
<1> USE SubscriptionAssumption
    DEF TypeInv, TypeOK, Subscriptions, Queries, Versions, Gone, Unread, NoSub,
        SubscriptionInv, CommandInv, ReadInv, ReadOf
<1>1. Init => SubscriptionInv
  BY DEF Init
<1>2. TypeInv /\ SubscriptionInv /\ [Next]_vars => SubscriptionInv'
  <2> SUFFICES ASSUME TypeInv, SubscriptionInv, [Next]_vars PROVE SubscriptionInv'
    OBVIOUS
  <2> USE DEF vars, dbVars, connVars, cmdVars
  <2>1. ASSUME NEW j \in Jobs, ChangeRow(j) PROVE SubscriptionInv'
    BY <2>1 DEF ChangeRow
  <2>2. ASSUME NEW j \in Jobs, HideRow(j) PROVE SubscriptionInv'
    BY <2>2 DEF HideRow
  <2>3. ASSUME NEW j \in Jobs, LoseEvent(j) PROVE SubscriptionInv'
    BY <2>3 DEF LoseEvent, Fault
  <2>4. ASSUME NEW j \in Jobs, Notify(j) PROVE SubscriptionInv'
    <3> DEFINE S == {t \in Sockets : sub[t] # NoSub /\ conn[t] = "open" /\ sub[t].job = j}
    <3>1. Begun(S) /\ S \in SUBSET Sockets /\ \A t \in S : sub[t] # NoSub
      BY <2>4 DEF Notify
    <3>2. \A t \in Sockets : IF t \in S THEN BegunOn(t)
                                ELSE sub'[t] = sub[t] /\ reads'[t] = reads[t]
      BY <3>1, BegunEffect
    <3>3. QED
      BY <2>4, <3>1, <3>2 DEF Notify, BegunOn, Read
  <2>5. ASSUME NEW s \in Sockets, Connect(s) PROVE SubscriptionInv'
    BY <2>5 DEF Connect
  <2>6. ASSUME NEW s \in Sockets, Authenticate(s) PROVE SubscriptionInv'
    BY <2>6 DEF Authenticate
  <2>7. ASSUME NEW s \in Sockets, Refuse(s) PROVE SubscriptionInv'
    BY <2>7 DEF Refuse
  <2>8. ASSUME NEW s \in Sockets, Close(s) PROVE SubscriptionInv'
    BY <2>8 DEF Close
  <2>9. ASSUME NEW s \in Sockets, Vanish(s) PROVE SubscriptionInv'
    BY <2>9 DEF Vanish, Fault
  <2>10. ASSUME NEW s \in Sockets, Pong(s) PROVE SubscriptionInv'
    BY <2>10 DEF Pong
  <2>11. ASSUME NEW s \in Sockets, NEW j \in Jobs, Subscribe(s, j) PROVE SubscriptionInv'
    BY <2>11 DEF Subscribe, Command
  <2>12. ASSUME NEW s \in Sockets, Unsubscribe(s) PROVE SubscriptionInv'
    BY <2>12 DEF Unsubscribe, Command
  <2>13. ASSUME NEW s \in Sockets, SafetyTick(s) PROVE SubscriptionInv'
    <3> DEFINE S == {s}
    <3>1. Begun(S) /\ S \in SUBSET Sockets /\ \A t \in S : sub[t] # NoSub
      BY <2>13 DEF SafetyTick
    <3>2. \A t \in Sockets : IF t \in S THEN BegunOn(t)
                                ELSE sub'[t] = sub[t] /\ reads'[t] = reads[t]
      BY <3>1, BegunEffect
    <3>3. ReadInv'
      <4> SUFFICES ASSUME NEW t \in Sockets PROVE ReadOf(t)'
        BY DEF ReadInv
      <4>1. CASE t \in S
        BY <2>13, <3>1, <3>2, <4>1 DEF SafetyTick, BegunOn, Read
      <4>2. CASE t \notin S
        BY <2>13, <3>2, <4>2 DEF SafetyTick
      <4>3. QED
        BY <4>1, <4>2
    <3>4. CommandInv'
      BY <2>13, <3>1, <3>2 DEF SafetyTick, BegunOn
    <3>5. QED
      BY <3>3, <3>4
  <2>14. ASSUME NEW s \in Sockets, NEW c \in pending[s], AnswerSubscribe(s, c) PROVE SubscriptionInv'
    BY <2>14 DEF AnswerSubscribe
  <2>15. ASSUME NEW s \in Sockets, NEW c \in pending[s], DropSubscribe(s, c) PROVE SubscriptionInv'
    BY <2>15 DEF DropSubscribe, Fault
  <2>16. ASSUME NEW s \in Sockets, NEW c \in pending[s], Register(s, c) PROVE SubscriptionInv'
    BY <2>16 DEF Register, Registered
  <2>17. ASSUME NEW s \in Sockets, NEW r \in reads[s], AnswerRefresh(s, r) PROVE SubscriptionInv'
    BY <2>17 DEF AnswerRefresh
  <2>18. ASSUME NEW s \in Sockets, NEW r \in reads[s], DropRefresh(s, r) PROVE SubscriptionInv'
    BY <2>18 DEF DropRefresh
  <2>19. ASSUME NEW s \in Sockets, NEW r \in reads[s], EndSubscription(s, r) PROVE SubscriptionInv'
    BY <2>19 DEF EndSubscription, Current
  <2>20. ASSUME NEW s \in Sockets, NEW r \in reads[s], Send(s, r) PROVE SubscriptionInv'
    BY <2>20 DEF Send, Current, Read
  <2>21. ASSUME NEW s \in Sockets, NEW r \in reads[s], FailRefresh(s, r) PROVE SubscriptionInv'
    BY <2>21 DEF FailRefresh, Fault
  <2>22. CASE Heartbeat
    BY <2>22 DEF Heartbeat, Clients
  <2>23. CASE UNCHANGED vars
    BY <2>23
  <2>24. QED
    BY <2>1, <2>2, <2>3, <2>4, <2>5, <2>6, <2>7, <2>8, <2>9, <2>10,
       <2>11, <2>12, <2>13, <2>14, <2>15, <2>16, <2>17, <2>18, <2>19, <2>20,
       <2>21, <2>22, <2>23
       DEF Next, Answers
<1>3. QED
  BY <1>1, <1>2, TypeInvCorrect, PTL DEF Spec

\* What EventsReachSubscribers says of one socket.
Reached(s) ==
    \/ sub[s].previous = row[sub[s].job]
    \/ row[sub[s].job] = Gone
    \/ sub[s].job \in events
    \/ sub[s].requested
    \/ \E r \in reads[s] : /\ r.id = sub[s].id
                           /\ r.answer \in {Unread, row[sub[s].job]}
    \/ sub[s].missed

\* A socket that unsubscribed watches nothing, whatever query of it is still
\* under way, and no update or event is lost between two reads (handleClientMessage,
\* subscribeToJob, refreshSubscription).
THEOREM SubscriptionsStayCurrent == Spec => []SubscriptionsAreCurrent
<1> USE SubscriptionAssumption
    DEF TypeInv, TypeOK, Subscriptions, Queries, Versions, Gone, Unread, NoSub
<1>1. Init => EventsReachSubscribers
  BY DEF Init, EventsReachSubscribers
<1>2. TypeInv /\ SubscriptionInv /\ EventsReachSubscribers /\ [Next]_vars
        => EventsReachSubscribers'
  <2> SUFFICES ASSUME TypeInv, SubscriptionInv, EventsReachSubscribers, [Next]_vars
               PROVE  EventsReachSubscribers'
    OBVIOUS
  <2> USE DEF vars, dbVars, connVars, cmdVars, SubscriptionInv, CommandInv, ReadInv, ReadOf,
              EventsReachSubscribers, Reached
  <2>1. ASSUME NEW j \in Jobs, ChangeRow(j) PROVE EventsReachSubscribers'
    BY <2>1 DEF ChangeRow
  <2>2. ASSUME NEW j \in Jobs, HideRow(j) PROVE EventsReachSubscribers'
    BY <2>2 DEF HideRow
  <2>3. ASSUME NEW j \in Jobs, LoseEvent(j) PROVE EventsReachSubscribers'
    BY <2>3 DEF LoseEvent, Fault
  <2>4. ASSUME NEW j \in Jobs, Notify(j) PROVE EventsReachSubscribers'
    <3> DEFINE S == {t \in Sockets : sub[t] # NoSub /\ conn[t] = "open" /\ sub[t].job = j}
    <3>1. Begun(S) /\ S \in SUBSET Sockets /\ \A t \in S : sub[t] # NoSub
      BY <2>4 DEF Notify
    <3>2. \A t \in Sockets : IF t \in S THEN BegunOn(t)
                                ELSE sub'[t] = sub[t] /\ reads'[t] = reads[t]
      BY <3>1, BegunEffect
    <3>3. ASSUME NEW t \in Sockets, sub'[t] # NoSub, conn'[t] = "open" PROVE Reached(t)'
      <4>1. CASE t \in S
        <5>1. CASE sub[t].isRefreshing
          BY <3>1, <3>2, <4>1, <5>1 DEF BegunOn
        <5>2. CASE ~sub[t].isRefreshing
          <6>1. /\ Read(t) \in reads'[t] /\ Read(t).id = sub'[t].id
                /\ Read(t).answer = Unread
            BY <3>1, <3>2, <4>1, <5>2 DEF BegunOn, Read
          <6>2. QED
            BY <6>1
        <5>3. QED
          BY <5>1, <5>2
      <4>2. CASE t \notin S
        BY <2>4, <3>2, <3>3, <4>2 DEF Notify
      <4>3. QED
        BY <4>1, <4>2
    <3>4. QED
      BY <3>3 DEF EventsReachSubscribers
  <2>5. ASSUME NEW s \in Sockets, Connect(s) PROVE EventsReachSubscribers'
    BY <2>5 DEF Connect
  <2>6. ASSUME NEW s \in Sockets, Authenticate(s) PROVE EventsReachSubscribers'
    BY <2>6 DEF Authenticate
  <2>7. ASSUME NEW s \in Sockets, Refuse(s) PROVE EventsReachSubscribers'
    BY <2>7 DEF Refuse
  <2>8. ASSUME NEW s \in Sockets, Close(s) PROVE EventsReachSubscribers'
    BY <2>8 DEF Close
  <2>9. ASSUME NEW s \in Sockets, Vanish(s) PROVE EventsReachSubscribers'
    BY <2>9 DEF Vanish, Fault
  <2>10. ASSUME NEW s \in Sockets, Pong(s) PROVE EventsReachSubscribers'
    BY <2>10 DEF Pong
  <2>11. ASSUME NEW s \in Sockets, NEW j \in Jobs, Subscribe(s, j) PROVE EventsReachSubscribers'
    BY <2>11 DEF Subscribe, Command
  <2>12. ASSUME NEW s \in Sockets, Unsubscribe(s) PROVE EventsReachSubscribers'
    BY <2>12 DEF Unsubscribe, Command
  <2>13. ASSUME NEW s \in Sockets, SafetyTick(s) PROVE EventsReachSubscribers'
    <3> DEFINE S == {s}
    <3>1. Begun(S) /\ S \in SUBSET Sockets /\ \A t \in S : sub[t] # NoSub
      BY <2>13 DEF SafetyTick
    <3>2. \A t \in Sockets : IF t \in S THEN BegunOn(t)
                                ELSE sub'[t] = sub[t] /\ reads'[t] = reads[t]
      BY <3>1, BegunEffect
    <3>3. ASSUME NEW t \in Sockets, sub'[t] # NoSub, conn'[t] = "open" PROVE Reached(t)'
      <4>1. CASE t \in S
        <5>1. CASE sub[t].isRefreshing
          BY <3>1, <3>2, <4>1, <5>1 DEF BegunOn
        <5>2. CASE ~sub[t].isRefreshing
          <6>1. /\ Read(t) \in reads'[t] /\ Read(t).id = sub'[t].id
                /\ Read(t).answer = Unread
            BY <3>1, <3>2, <4>1, <5>2 DEF BegunOn, Read
          <6>2. QED
            BY <6>1
        <5>3. QED
          BY <5>1, <5>2
      <4>2. CASE t \notin S
        BY <2>13, <3>2, <3>3, <4>2 DEF SafetyTick
      <4>3. QED
        BY <4>1, <4>2
    <3>4. QED
      BY <3>3 DEF EventsReachSubscribers
  <2>14. ASSUME NEW s \in Sockets, NEW c \in pending[s], AnswerSubscribe(s, c) PROVE EventsReachSubscribers'
    BY <2>14 DEF AnswerSubscribe
  <2>15. ASSUME NEW s \in Sockets, NEW c \in pending[s], DropSubscribe(s, c) PROVE EventsReachSubscribers'
    BY <2>15 DEF DropSubscribe, Fault
  <2>16. ASSUME NEW s \in Sockets, NEW c \in pending[s], Register(s, c) PROVE EventsReachSubscribers'
    <3>2. Set(s, c)
      BY <2>16, RegisterEffect
    <3>3. ASSUME NEW t \in Sockets, sub'[t] # NoSub, conn'[t] = "open" PROVE Reached(t)'
      <4>1. CASE t = s
        <5>1. c.answer <= row[c.job] /\ c.answer \in Nat /\ row[c.job] \in Nat
          BY <3>2 DEF Set
        <5>2. UNCHANGED <<row, events>>
          BY <2>16 DEF Register
        <5>3. sub'[s].job = c.job /\ sub'[s].previous = c.answer
          BY <3>2 DEF Set
        <5>4. c.answer = row[c.job] \/ c.job \in events \/ sub'[s].missed
          <6>1. c.answer < row[c.job] \/ c.answer = row[c.job]
            BY Zenon, <5>1, NotBehind
          <6>2. QED
            BY Zenon, <6>1, <3>2 DEF Set
        <5>5. QED
          BY <4>1, <5>2, <5>3, <5>4
      <4>2. CASE t # s
        BY <2>16, <3>2, <3>3, <4>2 DEF Register, Set
      <4>3. QED
        BY <4>1, <4>2
    <3>4. QED
      BY <3>3 DEF EventsReachSubscribers
  <2>17. ASSUME NEW s \in Sockets, NEW r \in reads[s], AnswerRefresh(s, r) PROVE EventsReachSubscribers'
    <3>3. ASSUME NEW t \in Sockets, sub'[t] # NoSub, conn'[t] = "open" PROVE Reached(t)'
      <4>1. CASE t = s /\ r.id = sub[s].id
        <5> DEFINE a == [r EXCEPT !.answer = row[r.job]]
        <5>1. a \in reads'[s] /\ a.id = sub'[s].id /\ a.answer = row'[sub'[s].job]
          BY <2>17, <3>3, <4>1 DEF AnswerRefresh
        <5>2. QED
          BY <4>1, <5>1
      <4>2. CASE t # s \/ r.id # sub[s].id
        <5>1. \A q \in reads[t] : q.id = sub[t].id => q \in reads'[t]
          BY <2>17, <4>2 DEF AnswerRefresh
        <5>2. QED
          BY <2>17, <3>3, <5>1 DEF AnswerRefresh
      <4>3. QED
        BY <4>1, <4>2
    <3>4. QED
      BY <3>3 DEF EventsReachSubscribers
  <2>18. ASSUME NEW s \in Sockets, NEW r \in reads[s], DropRefresh(s, r) PROVE EventsReachSubscribers'
    BY <2>18 DEF DropRefresh
  <2>19. ASSUME NEW s \in Sockets, NEW r \in reads[s], EndSubscription(s, r) PROVE EventsReachSubscribers'
    BY <2>19 DEF EndSubscription, Current
  <2>20. ASSUME NEW s \in Sockets, NEW r \in reads[s], Send(s, r) PROVE EventsReachSubscribers'
    <3>2. Sent(s, r)
      BY <2>20, SendEffect
    <3>3. ASSUME NEW t \in Sockets, sub'[t] # NoSub, conn'[t] = "open" PROVE Reached(t)'
      <4>1. CASE t = s /\ sub[s].requested
        <5>1. /\ Read(s) \in reads'[s] /\ Read(s).id = sub'[s].id
              /\ Read(s).answer = Unread
          BY <2>20, <4>1, <3>2 DEF Sent, Read
        <5>2. QED
          BY <4>1, <5>1
      <4>2. CASE t = s /\ ~sub[s].requested
        <5>1. /\ r.answer <= row[sub[s].job]
              /\ sub[s].previous <= r.answer
              /\ \A q \in reads[s] : q.id = sub[s].id => q = r
          BY <3>2 DEF Sent
        <5>2. Reached(s)
          BY <2>20, <3>3, <4>2, <3>2 DEF Sent
        <5>3. QED
          <6>1. sub[s].previous \in Nat /\ r.answer \in Nat /\ row[sub[s].job] \in Nat
            BY <3>2 DEF Sent
          <6>2. \/ sub'[s].previous = row[sub[s].job] \/ row[sub[s].job] = Gone
                \/ sub[s].job \in events \/ sub[s].missed
            BY <3>2, <4>2, <5>1, <5>2, <6>1 DEF Sent
          <6>3. QED
            BY <3>2, <4>2, <6>2 DEF Sent
      <4>3. CASE t # s
        BY <2>20, <3>3, <4>3, <3>2 DEF Sent
      <4>4. QED
        BY <4>1, <4>2, <4>3
    <3>4. QED
      BY <3>3 DEF EventsReachSubscribers
  <2>21. ASSUME NEW s \in Sockets, NEW r \in reads[s], FailRefresh(s, r) PROVE EventsReachSubscribers'
    BY <2>21 DEF FailRefresh, Fault
  <2>22. CASE Heartbeat
    BY <2>22 DEF Heartbeat, Clients
  <2>23. CASE UNCHANGED vars
    BY <2>23
  <2>24. QED
    BY <2>1, <2>2, <2>3, <2>4, <2>5, <2>6, <2>7, <2>8, <2>9, <2>10,
       <2>11, <2>12, <2>13, <2>14, <2>15, <2>16, <2>17, <2>18, <2>19, <2>20,
       <2>21, <2>22, <2>23
       DEF Next, Answers
<1>3. SubscriptionInv => UnsubscribeHolds
  BY DEF SubscriptionInv, CommandInv, UnsubscribeHolds
<1>4. QED
  BY <1>1, <1>2, <1>3, TypeInvCorrect, SubscriptionInvCorrect, PTL
     DEF Spec, SubscriptionsAreCurrent

\* What a socket is sent never goes back to an older command, nor to an older state
\* of the job it watches (the comment in refreshSubscription).
Forward ==
    \A s \in Sockets :
        sub[s] # NoSub /\ sub'[s] # NoSub =>
            \/ sub[s].id < sub'[s].id
            \/ sub[s].id = sub'[s].id /\ sub[s].previous <= sub'[s].previous

THEOREM UpdatesAreOrdered == Spec => UpdatesMoveForward
<1> USE SubscriptionAssumption
    DEF TypeInv, TypeOK, Subscriptions, Queries, Versions, Gone, Unread, NoSub
<1>1. TypeInv /\ SubscriptionInv /\ [Next]_vars => Forward
  <2> SUFFICES ASSUME TypeInv, SubscriptionInv, [Next]_vars PROVE Forward
    OBVIOUS
  <2> USE DEF vars, dbVars, connVars, cmdVars, SubscriptionInv, CommandInv, ReadInv, ReadOf,
              Forward
  <2>1. ASSUME NEW j \in Jobs, ChangeRow(j) PROVE Forward
    BY <2>1 DEF ChangeRow
  <2>2. ASSUME NEW j \in Jobs, HideRow(j) PROVE Forward
    BY <2>2 DEF HideRow
  <2>3. ASSUME NEW j \in Jobs, LoseEvent(j) PROVE Forward
    BY <2>3 DEF LoseEvent, Fault
  <2>4. ASSUME NEW j \in Jobs, Notify(j) PROVE Forward
    <3> DEFINE S == {t \in Sockets : sub[t] # NoSub /\ conn[t] = "open" /\ sub[t].job = j}
    <3>1. Begun(S) /\ S \in SUBSET Sockets /\ \A t \in S : sub[t] # NoSub
      BY <2>4 DEF Notify
    <3>2. \A t \in Sockets : IF t \in S THEN BegunOn(t)
                                ELSE sub'[t] = sub[t] /\ reads'[t] = reads[t]
      BY <3>1, BegunEffect
    <3>3. QED
      BY <2>4, <3>1, <3>2 DEF Notify, BegunOn, Read
  <2>5. ASSUME NEW s \in Sockets, Connect(s) PROVE Forward
    BY <2>5 DEF Connect
  <2>6. ASSUME NEW s \in Sockets, Authenticate(s) PROVE Forward
    BY <2>6 DEF Authenticate
  <2>7. ASSUME NEW s \in Sockets, Refuse(s) PROVE Forward
    BY <2>7 DEF Refuse
  <2>8. ASSUME NEW s \in Sockets, Close(s) PROVE Forward
    BY <2>8 DEF Close
  <2>9. ASSUME NEW s \in Sockets, Vanish(s) PROVE Forward
    BY <2>9 DEF Vanish, Fault
  <2>10. ASSUME NEW s \in Sockets, Pong(s) PROVE Forward
    BY <2>10 DEF Pong
  <2>11. ASSUME NEW s \in Sockets, NEW j \in Jobs, Subscribe(s, j) PROVE Forward
    BY <2>11 DEF Subscribe, Command
  <2>12. ASSUME NEW s \in Sockets, Unsubscribe(s) PROVE Forward
    BY <2>12 DEF Unsubscribe, Command
  <2>13. ASSUME NEW s \in Sockets, SafetyTick(s) PROVE Forward
    <3> DEFINE S == {s}
    <3>1. Begun(S) /\ S \in SUBSET Sockets /\ \A t \in S : sub[t] # NoSub
      BY <2>13 DEF SafetyTick
    <3>2. \A t \in Sockets : IF t \in S THEN BegunOn(t)
                                ELSE sub'[t] = sub[t] /\ reads'[t] = reads[t]
      BY <3>1, BegunEffect
    <3>3. QED
      BY <2>13, <3>1, <3>2 DEF SafetyTick, BegunOn, Read
  <2>14. ASSUME NEW s \in Sockets, NEW c \in pending[s], AnswerSubscribe(s, c) PROVE Forward
    BY <2>14 DEF AnswerSubscribe
  <2>15. ASSUME NEW s \in Sockets, NEW c \in pending[s], DropSubscribe(s, c) PROVE Forward
    BY <2>15 DEF DropSubscribe, Fault
  <2>16. ASSUME NEW s \in Sockets, NEW c \in pending[s], Register(s, c) PROVE Forward
    <3>1. Set(s, c)
      BY <2>16, RegisterEffect
    <3>2. sub[s] # NoSub => sub[s].id < sub'[s].id
      <4>1. sub[s].id <= version[s] /\ c.id # sub[s].id
        OBVIOUS
      <4>2. sub[s] # NoSub => sub[s].id \in 1..MaxCommands
        OBVIOUS
      <4>3. sub'[s].id = version[s] /\ version[s] \in Nat /\ c.id = version[s]
        BY <3>1 DEF Set
      <4>4. QED
        BY <4>1, <4>2, <4>3
    <3>3. \A t \in Sockets \ {s} : sub'[t] = sub[t]
      BY <3>1 DEF Set
    <3>4. \A t \in Sockets : sub[t] # NoSub => sub[t].previous <= sub[t].previous
      OBVIOUS
    <3>5. QED
      BY <3>2, <3>3, <3>4
  <2>17. ASSUME NEW s \in Sockets, NEW r \in reads[s], AnswerRefresh(s, r) PROVE Forward
    BY <2>17 DEF AnswerRefresh
  <2>18. ASSUME NEW s \in Sockets, NEW r \in reads[s], DropRefresh(s, r) PROVE Forward
    BY <2>18 DEF DropRefresh
  <2>19. ASSUME NEW s \in Sockets, NEW r \in reads[s], EndSubscription(s, r) PROVE Forward
    BY <2>19 DEF EndSubscription, Current
  <2>20. ASSUME NEW s \in Sockets, NEW r \in reads[s], Send(s, r) PROVE Forward
    BY <2>20 DEF Send, Current, Read
  <2>21. ASSUME NEW s \in Sockets, NEW r \in reads[s], FailRefresh(s, r) PROVE Forward
    BY <2>21 DEF FailRefresh, Fault
  <2>22. CASE Heartbeat
    BY <2>22 DEF Heartbeat, Clients
  <2>23. CASE UNCHANGED vars
    BY <2>23
  <2>24. QED
    BY <2>1, <2>2, <2>3, <2>4, <2>5, <2>6, <2>7, <2>8, <2>9, <2>10,
       <2>11, <2>12, <2>13, <2>14, <2>15, <2>16, <2>17, <2>18, <2>19, <2>20,
       <2>21, <2>22, <2>23
       DEF Next, Answers
<1>2. TypeInv /\ SubscriptionInv /\ [Next]_vars => [Forward]_sub
  BY <1>1
<1>3. QED
  BY <1>2, TypeInvCorrect, SubscriptionInvCorrect, PTL
     DEF Spec, UpdatesMoveForward, Forward

=============================================================================

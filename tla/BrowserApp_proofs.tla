-------------------------- MODULE BrowserApp_proofs --------------------------
(***************************************************************************)
(* For any number of accounts, jobs, actions of the user and faults: the   *)
(* screen stays consistent, the controls follow their calls, and once      *)
(* nothing is in flight the page shows the workspace of the identity the   *)
(* API knows, unless calls overlapped that must not.                       *)
(***************************************************************************)
EXTENDS BrowserApp, NaturalsInduction, WellFoundedInduction, TLAPS

USE BrowserAssumption DEF past, Recall

-----------------------------------------------------------------------------
(* Jobs and sessions.                                                       *)

\* A set of numbers that is not empty has a least element.
LEMMA MinIsLeast ==
    ASSUME NEW S \in SUBSET Nat, S # {}
    PROVE  \E x \in S : \A y \in S : x <= y
<1>1. \E x \in S : \A y \in S : ~(<<y, x>> \in OpToRel(<, Nat))
  BY NatLessThanWellFounded, WFMin
<1>2. \A x, y \in Nat : y < x => <<y, x>> \in OpToRel(<, Nat)
  BY Zenon DEF OpToRel
<1>3. \E x \in S : \A y \in S : ~(y < x)
  BY <1>1, <1>2, Zenon
<1>4. QED
  BY <1>3

\* The id that createJob takes is free.
LEMMA FreeJob == FreeIds # {} => Min(FreeIds) \in FreeIds
<1>1. FreeIds \in SUBSET Nat
  BY DEF FreeIds, Jobs
<1>2. QED
  BY <1>1, MinIsLeast DEF Min

\* The newest active job is an active job.
LEMMA NewestIsActive ==
    ASSUME NEW seen, Newest(seen) # NoJob
    PROVE  Newest(seen) \in Jobs /\ seen[Newest(seen)] = "active"
<1> DEFINE S == {j \in Jobs : seen[j] = "active"}
           T == {MaxJobs - j : j \in S}
<1>1. S # {} /\ Newest(seen) = Max(S)
  BY DEF Newest
<1>2. T \in SUBSET Nat /\ T # {}
  BY <1>1 DEF Jobs
<1>3. PICK x \in T : \A y \in T : x <= y
  BY <1>2, MinIsLeast
<1>4. PICK i \in S : x = MaxJobs - i
  OBVIOUS
<1>5. \A j \in S : MaxJobs - i <= MaxJobs - j
  BY <1>3, <1>4
<1>6. \A j \in S : i >= j
  BY <1>5 DEF Jobs
<1>7. Max(S) \in S
  BY <1>6 DEF Max
<1>8. QED
  BY <1>1, <1>7

\* What the proofs use of the numbers of jobs, workflows and sessions.
LEMMA Numbers ==
    /\ NoJob \notin Jobs
    /\ \A n \in 0..MaxActions : n \in Sessions /\ n # NoCookie
    /\ NoCookie \in Sessions /\ 0 \in 0..MaxActions
    /\ \A n \in 0..MaxActions : n < MaxActions => n + 1 \in 0..MaxActions
    /\ Visitor \in Owners /\ Accounts \subseteq Owners /\ Nobody \notin Owners
BY DEF NoJob, Jobs, Sessions, NoCookie, Owners

-----------------------------------------------------------------------------
(* Calls in flight.                                                         *)

\* A request is a call.
LEMMA AskIsCall ==
    ASSUME NEW n \in 0..MaxActions, NEW op \in Ops, NEW j \in Jobs \cup {NoJob},
           NEW key \in Owners, NEW who \in Sessions
    PROVE  Ask(n, op, j, key, who) \in Calls
BY DEF Ask, Calls, Nothing, States

Aged(c) == [c EXCEPT !.old = TRUE]

\* An update of a subscription that was given up is the same call, marked old.
LEMMA AgedIsCall ==
    ASSUME NEW c \in Calls
    PROVE  /\ Aged(c) \in Calls /\ Aged(c).old
           /\ Aged(c).n = c.n /\ Aged(c).op = c.op /\ Aged(c).job = c.job
           /\ Aged(c).key = c.key /\ Aged(c).who = c.who /\ Aged(c).st = c.st
           /\ Aged(c).seen = c.seen
BY DEF Aged, Calls

\* The calls after a step of the page: those of `done` are over, those of `new`
\* are sent, and updates of a subscription that ends grow old.
Turn(done, new) ==
    /\ new \subseteq calls'
    /\ \A d \in calls' : \/ d \in new
                         \/ d \in calls /\ d \notin done
                         \/ \E c \in calls : c.op = "update" /\ d = Aged(c)
    /\ \A c \in calls \ done : c \in calls' \/ (c.op = "update" /\ Aged(c) \in calls')
    /\ disturbed' \in BOOLEAN /\ (disturbed => disturbed')
    /\ ~disturbed' => \A c \in new, d \in calls' :
                            c # d => ~Conflict(c, d) /\ ~Conflict(d, c)

\* Issue is such a turn,
LEMMA IssueTurns ==
    ASSUME NEW done, NEW new, Issue(done, new), disturbed \in BOOLEAN
    PROVE  Turn(done, new)
<1>1. /\ calls' = (calls \ done) \cup new
      /\ disturbed' = (disturbed \/ \E c, d \in calls' :
                c # d /\ {c, d} \cap new # {} /\ Conflict(c, d))
  BY DEF Issue
<1>2. ~disturbed' => \A c \in new, d \in calls' :
                            c # d => ~Conflict(c, d) /\ ~Conflict(d, c)
  BY <1>1, Zenon
<1>3. QED
  BY <1>1, <1>2 DEF Turn

\* and so is Show, after which only the subscription it begins is current.
LEMMA ShowTurns ==
    ASSUME calls \subseteq Calls, disturbed \in BOOLEAN,
           NEW scr, NEW done, NEW new, Show(scr, done, new)
    PROVE  /\ Turn(done, new)
           /\ screen' = scr
           /\ \A d \in calls' \ new : d.op = "update" /\ ~d.old => d.job = scr.watching
<1> DEFINE cut == GiveUp(scr.watching)
           all == new \cup Old(cut)
<1>1. screen' = scr /\ Issue(done \cup cut, all)
  BY DEF Show
<1>2. /\ calls' = (calls \ (done \cup cut)) \cup all
      /\ disturbed' = (disturbed \/ \E c, d \in calls' :
                c # d /\ {c, d} \cap all # {} /\ Conflict(c, d))
  BY <1>1 DEF Issue
<1> HIDE DEF all
<1>3. ~disturbed' => \A c \in all, d \in calls' :
                            c # d => ~Conflict(c, d) /\ ~Conflict(d, c)
  BY <1>2, Zenon
<1>4. disturbed' \in BOOLEAN /\ (disturbed => disturbed')
  BY <1>2, Zenon
<1> USE DEF all
<1>5. \A c \in cut : c.op = "update" /\ Aged(c) \in calls'
  BY <1>2 DEF GiveUp, Old, Aged
<1>6. \A d \in Old(cut) : \E c \in calls : c.op = "update" /\ d = Aged(c)
  BY DEF GiveUp, Old, Aged
<1>7. \A d \in Old(cut) : d.old
  BY <1>6, AgedIsCall
<1> HIDE DEF cut
<1>8. Turn(done, new)
  BY <1>2, <1>3, <1>4, <1>5, <1>6 DEF Turn
<1>9. \A d \in calls : d.op = "update" /\ ~d.old /\ d.job # scr.watching => d \in cut
  BY DEF cut, GiveUp
<1>10. QED
  BY <1>1, <1>2, <1>7, <1>8, <1>9

-----------------------------------------------------------------------------
(* Types.                                                                   *)

\* A sign-in is for an account, and an update is for a job.
TypedCalls == {c \in Calls : /\ c.op = "login" => c.key \in Accounts
                             /\ c.op = "update" => c.job \in Jobs}

TypeInv == TypeOK /\ calls \subseteq TypedCalls

\* Call r takes the place of call c: the API or the network has answered it.
Became(c, r) ==
    /\ c \in calls /\ r \in TypedCalls
    /\ calls' = (calls \ {c}) \cup {r}
    /\ r.n = c.n /\ r.op = c.op /\ r.who = c.who /\ r.old = c.old
    /\ UNCHANGED <<account, past, screen, settings, file, ready, busy, actions>>

Refused(c, r) ==
    /\ r.st = "failed" /\ r.job = c.job /\ r.key = c.key /\ r.seen = c.seen

\* What the API does with call c that it does not refuse.
Served(c, r) ==
    /\ r.st = "ok"
    /\ c.op \notin {"create"} => r.job = c.job
    /\ c.op \notin {"history", "update"} => r.seen = c.seen
    /\ c.op \notin {"sessions", "revoke", "password", "start", "presign"} => r.key = c.key
    /\ c.op \notin {"login", "logout", "delete"} => UNCHANGED <<valid, accounts>>
    /\ c.op \notin {"login", "delete", "create", "cancel"} => UNCHANGED rows
    /\ c.op = "login" =>
        /\ accounts' = accounts \cup {c.key}
        /\ valid' = [valid EXCEPT ![c.who] = Visitor, ![c.n] = c.key]
        /\ rows' = [j \in Jobs |-> IF rows[j].owner = Visitor
                                   THEN [rows[j] EXCEPT !.owner = c.key]
                                   ELSE rows[j]]
    /\ c.op = "logout" => /\ valid' = [valid EXCEPT ![c.who] = Visitor]
                          /\ UNCHANGED accounts
    /\ c.op = "delete" =>
        /\ valid[c.who] # Visitor
        /\ valid' = [k \in Sessions |-> IF valid[k] = valid[c.who] THEN Visitor
                                                                 ELSE valid[k]]
        /\ accounts' = accounts \ {valid[c.who]}
        /\ rows' = [j \in Jobs |-> IF rows[j].owner = valid[c.who]
                        THEN [owner |-> Nobody, state |-> "cancelled"]
                        ELSE rows[j]]
    /\ c.op \in {"sessions", "revoke", "password"} => valid[c.who] # Visitor
    /\ c.op \in {"sessions", "revoke", "password", "start"} => r.key = valid[c.who]
    /\ c.op = "history" => r.seen = View(valid[c.who])
    /\ c.op = "create" => /\ r.job \in FreeIds /\ c.key = valid[c.who]
                          /\ rows' = [rows EXCEPT ![r.job] =
                                        [owner |-> c.key, state |-> "active"]]
    /\ c.op = "cancel" => /\ rows[c.job].owner = valid[c.who]
                          /\ rows[c.job].state = "active"
                          /\ rows' = [rows EXCEPT ![c.job].state = "cancelled"]
    /\ c.op = "urls" => /\ rows[c.job].owner = valid[c.who]
                        /\ rows[c.job].state = "done"
    /\ c.op = "update" => /\ rows[c.job].owner \in {c.key, valid[c.who]}
                          /\ r.seen = [c.seen EXCEPT ![c.job] = rows[c.job].state]

\* The API's Answer puts a call in the place of another.
LEMMA AnswerBecomes ==
    ASSUME NEW c \in calls, NEW r0, NEW r,
           r = [r0 EXCEPT !.st = "ok"], r \in TypedCalls, Answer(c, r0),
           r.n = c.n, r.op = c.op, r.who = c.who, r.old = c.old
    PROVE  Became(c, r) /\ UNCHANGED <<faults, disturbed>>
BY DEF Answer, Became

\* The routes of the API, one by one: a call is refused, which changes nothing on
\* the server, or served. These four kinds of call are never refused.
LEMMA ServedOrRefused ==
    ASSUME TypeInv, NEW c \in calls, Handle(c)
    PROVE  /\ c.st = "sent"
           /\ UNCHANGED <<faults, disturbed>>
           /\ \E r : /\ Became(c, r)
                     /\ \/ /\ Refused(c, r) /\ UNCHANGED server
                           /\ c.op \notin {"logout", "start", "history", "put"}
                        \/ Served(c, r)
<1> DEFINE Goal == /\ UNCHANGED <<faults, disturbed>>
                   /\ \E r : /\ Became(c, r)
                             /\ \/ /\ Refused(c, r) /\ UNCHANGED server
                                   /\ c.op \notin {"logout", "start", "history", "put"}
                                \/ Served(c, r)
<1>0. /\ c \in TypedCalls /\ c \in Calls
      /\ c.who \in Sessions /\ valid[c.who] \in Owners
      /\ c.job \in Jobs \cup {NoJob} /\ c.seen \in [Jobs -> States]
      /\ rows \in [Jobs -> [owner : Owners \cup {Nobody}, state : States]]
  BY DEF TypeInv, TypeOK, TypedCalls, Calls, Owners
<1>1. ASSUME Refuse(c), c.op \notin {"logout", "start", "history", "put"}
      PROVE  Goal
  <2> DEFINE r == [c EXCEPT !.st = "failed"]
  <2>1. /\ r \in TypedCalls /\ Refused(c, r)
        /\ r.n = c.n /\ r.op = c.op /\ r.who = c.who /\ r.old = c.old
    BY <1>0 DEF TypedCalls, Calls, Refused
  <2>2. Became(c, r) /\ UNCHANGED <<server, faults, disturbed>>
    BY <1>1, <2>1 DEF Refuse, Became
  <2>3. QED
    BY <1>1, <2>1, <2>2
<1>2. ASSUME NEW r0, NEW r, r = [r0 EXCEPT !.st = "ok"],
             r \in TypedCalls, Answer(c, r0), Served(c, r),
             r.n = c.n, r.op = c.op, r.who = c.who, r.old = c.old
      PROVE  Goal
  BY <1>2, AnswerBecomes
<1> DEFINE ok == [c EXCEPT !.st = "ok"]
<1>3. /\ ok \in TypedCalls /\ ok.st = "ok"
      /\ ok.n = c.n /\ ok.op = c.op /\ ok.who = c.who /\ ok.old = c.old
      /\ ok.job = c.job /\ ok.key = c.key /\ ok.seen = c.seen
  BY <1>0 DEF TypedCalls, Calls
<1> HIDE DEF Goal
<1>4. ASSUME Answer(c, c), Served(c, ok) PROVE Goal
  BY <1>0, <1>2, <1>3, <1>4 DEF TypedCalls
<1> HIDE DEF ok
<1>5. ASSUME c.op = "login", HandleLogin(c) PROVE Goal
  <2>1. CASE Refuse(c)
    BY <1>1, <1>5, <2>1
  <2>2. CASE ~Refuse(c)
    <3>1. Answer(c, c) /\ Served(c, ok)
      BY <1>3, <1>5, <2>2 DEF HandleLogin, Served
    <3>2. QED
      BY <1>4, <3>1
  <2>3. QED
    BY <2>1, <2>2
<1>6. ASSUME c.op = "logout", HandleLogout(c) PROVE Goal
  <2>1. Answer(c, c) /\ Served(c, ok)
    BY <1>3, <1>6 DEF HandleLogout, Served
  <2>2. QED
    BY <1>4, <2>1
<1>7. ASSUME c.op = "delete", HandleDelete(c) PROVE Goal
  <2>1. CASE Refuse(c)
    BY <1>1, <1>7, <2>1
  <2>2. CASE ~Refuse(c)
    <3>1. Answer(c, c) /\ Served(c, ok)
      BY <1>3, <1>7, <2>2 DEF HandleDelete, Served, Principal
    <3>2. QED
      BY <1>4, <3>1
  <2>3. QED
    BY <2>1, <2>2
<1>8. ASSUME c.op \in {"sessions", "revoke", "password", "start", "presign"},
             c.op \in {"sessions", "revoke", "password"} => valid[c.who] # Visitor,
             Answer(c, [c EXCEPT !.key = Principal(c.who)]), UNCHANGED server
      PROVE  Goal
  <2> DEFINE r0 == [c EXCEPT !.key = Principal(c.who)]
             r  == [r0 EXCEPT !.st = "ok"]
  <2>1. /\ r \in TypedCalls /\ r.st = "ok" /\ r.key = valid[c.who]
        /\ r.n = c.n /\ r.op = c.op /\ r.who = c.who /\ r.old = c.old
        /\ r.job = c.job /\ r.seen = c.seen
    BY <1>0, <1>8 DEF TypedCalls, Calls, Principal
  <2>2. Served(c, r)
    BY <1>8, <2>1 DEF Served, server
  <2>3. QED
    BY <1>2, <1>8, <2>1, <2>2
<1>9. ASSUME c.op \in {"sessions", "revoke", "password"}, HandleManagement(c)
      PROVE  Goal
  <2>1. CASE Refuse(c)
    BY <1>1, <1>9, <2>1
  <2>2. CASE ~Refuse(c)
    BY <1>8, <1>9, <2>2 DEF HandleManagement, Principal
  <2>3. QED
    BY <2>1, <2>2
<1>10. ASSUME c.op = "start", HandleStart(c) PROVE Goal
  BY <1>8, <1>10 DEF HandleStart
<1>11. ASSUME c.op = "history", HandleHistory(c) PROVE Goal
  <2> DEFINE r0 == [c EXCEPT !.seen = View(Principal(c.who))]
             r  == [r0 EXCEPT !.st = "ok"]
  <2>1. View(Principal(c.who)) \in [Jobs -> States]
    BY <1>0 DEF View, States
  <2>2. /\ r \in TypedCalls /\ r.st = "ok" /\ r.seen = View(valid[c.who])
        /\ r.n = c.n /\ r.op = c.op /\ r.who = c.who /\ r.old = c.old
        /\ r.job = c.job /\ r.key = c.key
    BY <1>0, <1>11, <2>1 DEF TypedCalls, Calls, Principal
  <2>3. Served(c, r)
    BY <1>11, <2>2 DEF HandleHistory, Served, server
  <2>4. QED
    BY <1>2, <1>11, <2>2, <2>3 DEF HandleHistory
<1>12. ASSUME c.op = "presign", HandlePresign(c) PROVE Goal
  <2>1. CASE Refuse(c)
    BY <1>1, <1>12, <2>1
  <2>2. CASE ~Refuse(c)
    BY <1>8, <1>12, <2>2 DEF HandlePresign
  <2>3. QED
    BY <2>1, <2>2
<1>13. ASSUME c.op = "put", HandlePut(c) PROVE Goal
  <2>1. Answer(c, c) /\ Served(c, ok)
    BY <1>3, <1>13 DEF HandlePut, Served, server
  <2>2. QED
    BY <1>4, <2>1
<1>14. ASSUME c.op = "create", HandleCreate(c) PROVE Goal
  <2>1. CASE Refuse(c)
    BY <1>1, <1>14, <2>1
  <2>2. CASE ~Refuse(c)
    <3> DEFINE j  == Min(FreeIds)
               r0 == [c EXCEPT !.job = j]
               r  == [r0 EXCEPT !.st = "ok"]
    <3>1. /\ j \in FreeIds /\ c.key = valid[c.who]
          /\ rows' = [rows EXCEPT ![j] = [owner |-> c.key, state |-> "active"]]
          /\ UNCHANGED <<accounts, valid>>
          /\ Answer(c, r0)
      BY <1>14, <2>2, FreeJob DEF HandleCreate, Creatable, Principal
    <3> HIDE DEF j
    <3>2. /\ r \in TypedCalls /\ r.st = "ok" /\ r.job = j
          /\ r.n = c.n /\ r.op = c.op /\ r.who = c.who /\ r.old = c.old
          /\ r.key = c.key /\ r.seen = c.seen
      BY <1>0, <1>14, <3>1 DEF TypedCalls, Calls, FreeIds
    <3>3. Served(c, r)
      BY <1>14, <3>1, <3>2 DEF Served
    <3>4. QED
      BY <1>2, <3>1, <3>2, <3>3
  <2>3. QED
    BY <2>1, <2>2
<1>15. ASSUME c.op = "cancel", HandleCancel(c) PROVE Goal
  <2>1. CASE Refuse(c)
    BY <1>1, <1>15, <2>1
  <2>2. CASE ~Refuse(c)
    <3>1. Answer(c, c) /\ Served(c, ok)
      BY <1>3, <1>15, <2>2 DEF HandleCancel, Owned, Served, Principal
    <3>2. QED
      BY <1>4, <3>1
  <2>3. QED
    BY <2>1, <2>2
<1>16. ASSUME c.op = "urls", HandleDownloads(c) PROVE Goal
  <2>1. CASE Refuse(c)
    BY <1>1, <1>16, <2>1
  <2>2. CASE ~Refuse(c)
    <3>1. Answer(c, c) /\ Served(c, ok)
      BY <1>3, <1>16, <2>2 DEF HandleDownloads, Owned, Served, Principal, server
    <3>2. QED
      BY <1>4, <3>1
  <2>3. QED
    BY <2>1, <2>2
<1>17. ASSUME c.op = "update", HandleUpdate(c) PROVE Goal
  <2>1. CASE Refuse(c)
    BY <1>1, <1>17, <2>1
  <2>2. CASE ~Refuse(c)
    <3> DEFINE r0 == [c EXCEPT !.seen[c.job] = rows[c.job].state]
               r  == [r0 EXCEPT !.st = "ok"]
               seen == [c.seen EXCEPT ![c.job] = rows[c.job].state]
    <3>1. /\ rows[c.job].owner \in {c.key, valid[c.who]}
          /\ Answer(c, r0) /\ UNCHANGED server
      BY <1>17, <2>2 DEF HandleUpdate, Principal
    <3>2. c.job \in Jobs /\ seen \in [Jobs -> States]
      BY <1>0, <1>17 DEF TypedCalls
    <3>3. /\ r \in TypedCalls /\ r.st = "ok" /\ r.seen = seen
          /\ r.n = c.n /\ r.op = c.op /\ r.who = c.who /\ r.old = c.old
          /\ r.job = c.job /\ r.key = c.key
      BY <1>0, <1>17, <3>2 DEF TypedCalls, Calls
    <3>4. Served(c, r)
      BY <1>17, <3>1, <3>3 DEF Served, server
    <3>5. QED
      BY <1>2, <3>1, <3>3, <3>4
  <2>3. QED
    BY <2>1, <2>2
<1>18. c.st = "sent" /\ Goal
  BY <1>5, <1>6, <1>7, <1>9, <1>10, <1>11, <1>12, <1>13, <1>14, <1>15, <1>16,
     <1>17 DEF Handle
<1>19. QED
  BY <1>18 DEF Goal

\* A sign-in changes two sessions.
LEMMA TwoSessions ==
    ASSUME NEW Values, NEW f \in [Sessions -> Values], NEW p \in Sessions,
           NEW q \in Sessions, NEW x \in Values, NEW y \in Values
    PROVE  /\ [f EXCEPT ![p] = x, ![q] = y] \in [Sessions -> Values]
           /\ \A k \in Sessions : [f EXCEPT ![p] = x, ![q] = y][k] =
                    IF k = q THEN y ELSE IF k = p THEN x ELSE f[k]
<1> DEFINE g == [f EXCEPT ![p] = x]
<1>1. g \in [Sessions -> Values] /\ \A k \in Sessions : g[k] = IF k = p THEN x ELSE f[k]
  OBVIOUS
<1>2. [f EXCEPT ![p] = x, ![q] = y] = [g EXCEPT ![q] = y]
  OBVIOUS
<1> HIDE DEF g
<1>3. QED
  BY <1>1, <1>2

\* The API keeps the types of its tables: a session stands for an account that
\* exists.
LEMMA ServerTyped ==
    ASSUME TypeInv, NEW c, NEW r, Became(c, r),
           Served(c, r) \/ (Refused(c, r) /\ UNCHANGED server)
    PROVE  /\ rows' \in [Jobs -> [owner : Owners \cup {Nobody}, state : States]]
           /\ accounts' \subseteq Accounts
           /\ valid' \in [Sessions -> accounts' \cup {Visitor}]
           /\ valid'[NoCookie] = Visitor
<1>0. /\ rows \in [Jobs -> [owner : Owners \cup {Nobody}, state : States]]
      /\ accounts \subseteq Accounts
      /\ valid \in [Sessions -> accounts \cup {Visitor}]
      /\ valid[NoCookie] = Visitor
      /\ c \in TypedCalls /\ c.who \in Sessions /\ c.n \in Sessions \ {NoCookie}
      /\ c.op = "login" => c.key \in Accounts
      /\ c.key \in Owners /\ r.op = c.op
  BY Numbers DEF TypeInv, TypeOK, Became, TypedCalls, Calls
<1> USE DEF server
<1>1. CASE UNCHANGED server
  BY <1>0, <1>1
<1>2. CASE Served(c, r) /\ c.op = "login"
  <2>1. /\ accounts' = accounts \cup {c.key}
        /\ valid' = [valid EXCEPT ![c.who] = Visitor, ![c.n] = c.key]
        /\ rows' = [j \in Jobs |-> IF rows[j].owner = Visitor
                                   THEN [rows[j] EXCEPT !.owner = c.key]
                                   ELSE rows[j]]
    BY <1>2 DEF Served
  <2>2. rows' \in [Jobs -> [owner : Owners \cup {Nobody}, state : States]]
    BY <1>0, <2>1
  <2>3. valid' \in [Sessions -> accounts' \cup {Visitor}] /\ valid'[NoCookie] = Visitor
    <3> DEFINE Values == accounts \cup {c.key} \cup {Visitor}
    <3>1. valid \in [Sessions -> Values] /\ c.key \in Values /\ Visitor \in Values
      BY <1>0
    <3> HIDE DEF Values
    <3>2. /\ valid' \in [Sessions -> Values]
          /\ \A k \in Sessions : valid'[k] =
                IF k = c.n THEN c.key ELSE IF k = c.who THEN Visitor ELSE valid[k]
      BY <1>0, <2>1, <3>1, TwoSessions
    <3>3. QED
      BY <1>0, <2>1, <3>2, Numbers DEF Values
  <2>4. QED
    BY <1>0, <1>2, <2>1, <2>2, <2>3
<1>3. CASE Served(c, r) /\ c.op = "delete"
  <2>1. /\ valid' = [k \in Sessions |-> IF valid[k] = valid[c.who] THEN Visitor
                                                                 ELSE valid[k]]
        /\ accounts' = accounts \ {valid[c.who]}
        /\ rows' = [j \in Jobs |-> IF rows[j].owner = valid[c.who]
                        THEN [owner |-> Nobody, state |-> "cancelled"]
                        ELSE rows[j]]
    BY <1>3 DEF Served
  <2>2. rows' \in [Jobs -> [owner : Owners \cup {Nobody}, state : States]]
    BY <1>0, <2>1 DEF States
  <2>3. QED
    BY <1>0, <2>1, <2>2, Numbers
<1>4. CASE Served(c, r) /\ c.op = "logout"
  <2>1. /\ valid' = [valid EXCEPT ![c.who] = Visitor]
        /\ UNCHANGED <<rows, accounts>>
    BY <1>4 DEF Served
  <2>2. QED
    BY <1>0, <2>1
<1>5. CASE Served(c, r) /\ c.op \in {"create", "cancel"}
  BY <1>0, <1>5, Numbers DEF Served, States
<1>6. CASE Served(c, r) /\ c.op \notin {"login", "logout", "delete", "create", "cancel"}
  BY <1>0, <1>6 DEF Served
<1>7. QED
  BY <1>1, <1>2, <1>3, <1>4, <1>5, <1>6

\* A turn that sends typed calls keeps all of them typed.
LEMMA TurnTyped ==
    ASSUME TypeInv, NEW done, NEW new, Turn(done, new), new \subseteq TypedCalls
    PROVE  calls' \subseteq TypedCalls /\ disturbed' \in BOOLEAN
<1>1. \A c \in calls : Aged(c) \in TypedCalls
  BY AgedIsCall DEF TypeInv, TypedCalls
<1>2. calls' \subseteq TypedCalls
  BY <1>1 DEF Turn, TypeInv
<1>3. disturbed' \in BOOLEAN
  BY Zenon DEF Turn
<1>4. QED
  BY <1>2, <1>3

\* A request is typed like its arguments.
LEMMA AskIsTyped ==
    ASSUME NEW n \in 0..MaxActions, NEW op \in Ops, NEW j \in Jobs \cup {NoJob},
           NEW key \in Owners, NEW who \in Sessions,
           op = "login" => key \in Accounts, op = "update" => j \in Jobs
    PROVE  Ask(n, op, j, key, who) \in TypedCalls
<1>1. Ask(n, op, j, key, who).op = op /\ Ask(n, op, j, key, who).key = key
      /\ Ask(n, op, j, key, who).job = j
  BY DEF Ask
<1>2. QED
  BY <1>1, AskIsCall DEF TypedCalls

\* What the page keeps of the types when only its calls change.
PageTyped ==
    /\ cookie \in Sessions
    /\ {user, sessions} \subseteq Owners
    /\ history \in [Jobs -> States]
    /\ screen \in [selected : Jobs \cup {NoJob}, job : Jobs \cup {NoJob},
                   state : States, ended : BOOLEAN, urls : Jobs \cup {NoJob},
                   watching : Jobs \cup {NoJob}]
    /\ over \subseteq Jobs
    /\ {settings, file, ready, disturbed} \subseteq BOOLEAN
    /\ busy \subseteq {"uploading", "cancelling", "authenticating", "managing", "loading"}
    /\ calls \subseteq TypedCalls
    /\ actions \in 0..MaxActions
    /\ faults \in 0..MaxFaults

\* A step that leaves the server alone keeps the types if the page does.
LEMMA PageAndServer ==
    ASSUME TypeInv, UNCHANGED server, PageTyped'
    PROVE  TypeInv'
<1>1. TypedCalls \subseteq Calls
  BY DEF TypedCalls
<1>2. QED
  BY <1>1 DEF TypeInv, TypeOK, PageTyped, server

\* A selection is a screen.
LEMMA SelectedTyped ==
    ASSUME NEW j \in Jobs \cup {NoJob}, NEW state \in States
    PROVE  Selected(j, state) \in [selected : Jobs \cup {NoJob}, job : Jobs \cup {NoJob},
                   state : States, ended : BOOLEAN, urls : Jobs \cup {NoJob},
                   watching : Jobs \cup {NoJob}]
BY DEF Selected

\* Requests for links are typed.
LEMMA LinksTyped ==
    ASSUME TypeInv, NEW j \in Jobs \cup {NoJob}, NEW state
    PROVE  Links(j, state) \subseteq TypedCalls
<1>1. Ask(0, "urls", j, Visitor, cookie) \in TypedCalls
  BY AskIsTyped, Numbers DEF TypeInv, TypeOK, Ops
<1>2. QED
  BY <1>1 DEF Links

\* The next number of a workflow is that of a session.
LEMMA ActionsCounted ==
    ASSUME TypeInv, Acts
    PROVE  /\ actions + 1 \in 0..MaxActions /\ actions' = actions + 1
           /\ actions' \in 0..MaxActions /\ actions + 1 \in Sessions \ {NoCookie}
BY Numbers DEF TypeInv, TypeOK, Acts

\* The user's actions keep the types.
LEMMA UserTyped ==
    ASSUME TypeInv,
           \/ \E a \in Accounts : Login(a)
           \/ Logout \/ OpenSettings \/ CloseSettings \/ SelectFile
           \/ StartProcessing \/ CancelJob \/ Subscription
           \/ \E op \in Management \ {"sessions"} : Manage(op)
           \/ \E j \in Jobs : SelectHistoryJob(j)
    PROVE  TypeInv'
<1>0. /\ PageTyped /\ disturbed \in BOOLEAN /\ calls \subseteq Calls
      /\ valid[cookie] \in Owners
  BY DEF TypeInv, TypeOK, PageTyped, TypedCalls, Owners
<1> USE DEF PageTyped, account, server
<1>1. ASSUME NEW op \in {"login", "logout", "presign", "cancel"} \cup Management,
             NEW j \in Jobs \cup {NoJob}, NEW key \in Owners, Acts,
             op = "login" => key \in Accounts,
             Issue({}, {Ask(actions + 1, op, j, key, cookie)})
      PROVE  calls' \subseteq TypedCalls /\ disturbed' \in BOOLEAN
  <2>1. Ask(actions + 1, op, j, key, cookie) \in TypedCalls
    BY <1>0, <1>1, ActionsCounted, AskIsTyped
       DEF Ops, Authentication, Management, Uploading
  <2>2. Turn({}, {Ask(actions + 1, op, j, key, cookie)})
    BY <1>0, <1>1, IssueTurns
  <2>3. QED
    BY <2>1, <2>2, TurnTyped
<1>2. ASSUME NEW a \in Accounts, Login(a) PROVE TypeInv'
  <2>1. calls' \subseteq TypedCalls /\ disturbed' \in BOOLEAN
    BY <1>1, <1>2, Numbers DEF Login, Authenticate
  <2>2. PageTyped' /\ UNCHANGED server
    BY <1>0, <1>2, <2>1, ActionsCounted DEF Login, Authenticate, Flag
  <2>3. QED
    BY <2>2, PageAndServer
<1>3. CASE Logout
  <2>1. calls' \subseteq TypedCalls /\ disturbed' \in BOOLEAN
    BY <1>1, <1>3, Numbers DEF Logout, Authenticate
  <2>2. PageTyped' /\ UNCHANGED server
    BY <1>0, <1>3, <2>1, ActionsCounted DEF Logout, Authenticate, Flag
  <2>3. QED
    BY <2>2, PageAndServer
<1>4. CASE OpenSettings
  <2>1. calls' \subseteq TypedCalls /\ disturbed' \in BOOLEAN
    BY <1>1, <1>4, Numbers DEF OpenSettings, Management
  <2>2. PageTyped' /\ UNCHANGED server
    BY <1>0, <1>4, <2>1, ActionsCounted DEF OpenSettings, Flag
  <2>3. QED
    BY <2>2, PageAndServer
<1>5. CASE CloseSettings
  <2>1. PageTyped' /\ UNCHANGED server
    BY <1>0, <1>5 DEF CloseSettings
  <2>2. QED
    BY <2>1, PageAndServer
<1>6. CASE SelectFile
  <2>1. Show(Cleared, {}, {})
    BY <1>6 DEF SelectFile
  <2>2. Turn({}, {}) /\ screen' = Cleared
    BY <1>0, <2>1, ShowTurns
  <2>3. calls' \subseteq TypedCalls /\ disturbed' \in BOOLEAN
    BY <2>2, TurnTyped
  <2>4. PageTyped' /\ UNCHANGED server
    BY <1>0, <1>6, <2>2, <2>3, ActionsCounted DEF SelectFile, Cleared, States
  <2>5. QED
    BY <2>4, PageAndServer
<1>7. CASE StartProcessing
  <2>1. calls' \subseteq TypedCalls /\ disturbed' \in BOOLEAN
    <3> DEFINE op == "presign"
    <3>1. Acts /\ Issue({}, {Ask(actions + 1, op, NoJob, Visitor, cookie)})
      BY <1>7 DEF StartProcessing
    <3>2. op \in {"login", "logout", "presign", "cancel"} /\ op # "login"
      OBVIOUS
    <3> HIDE DEF op
    <3>3. QED
      BY <1>1, <3>1, <3>2, Numbers
  <2>2. PageTyped' /\ UNCHANGED server
    BY <1>0, <1>7, <2>1, ActionsCounted DEF StartProcessing, Flag
  <2>3. QED
    BY <2>2, PageAndServer
<1>8. CASE CancelJob
  <2>1. calls' \subseteq TypedCalls /\ disturbed' \in BOOLEAN
    BY <1>0, <1>1, <1>8, Numbers DEF CancelJob
  <2>2. PageTyped' /\ UNCHANGED server
    BY <1>0, <1>8, <2>1, ActionsCounted DEF CancelJob, Flag
  <2>3. QED
    BY <2>2, PageAndServer
<1>9. CASE Subscription
  <2> DEFINE ask == Ask(0, "update", screen.watching, Principal(cookie), cookie)
  <2>1. ask \in TypedCalls
    BY <1>0, <1>9, AskIsTyped, Numbers DEF Subscription, Principal, Ops
  <2>2. Turn({}, {ask})
    BY <1>0, <1>9, IssueTurns DEF Subscription
  <2>3. calls' \subseteq TypedCalls /\ disturbed' \in BOOLEAN
    BY <2>1, <2>2, TurnTyped
  <2>4. PageTyped' /\ UNCHANGED server
    BY <1>0, <1>9, <2>3 DEF Subscription
  <2>5. QED
    BY <2>4, PageAndServer
<1>10. ASSUME NEW op \in Management \ {"sessions"}, Manage(op) PROVE TypeInv'
  <2>1. calls' \subseteq TypedCalls /\ disturbed' \in BOOLEAN
    BY <1>1, <1>10, Numbers DEF Manage, Management
  <2>2. PageTyped' /\ UNCHANGED server
    BY <1>0, <1>10, <2>1, ActionsCounted DEF Manage, Flag
  <2>3. QED
    BY <2>2, PageAndServer
<1>11. ASSUME NEW j \in Jobs, SelectHistoryJob(j) PROVE TypeInv'
  <2> DEFINE new == Links(j, history[j])
  <2>1. /\ history' = [history EXCEPT ![j] = history[j]] /\ over' \subseteq Jobs
        /\ Show(Selected(j, history[j]), {}, new)
    BY <1>0, <1>11 DEF SelectHistoryJob, SelectJob
  <2>2. history[j] \in States /\ new \subseteq TypedCalls
    BY <1>0, <1>11, ActionsCounted, LinksTyped DEF SelectHistoryJob
  <2>3. Turn({}, new) /\ screen' = Selected(j, history[j])
    BY <1>0, <2>1, ShowTurns
  <2>4. calls' \subseteq TypedCalls /\ disturbed' \in BOOLEAN
    BY <2>2, <2>3, TurnTyped
  <2>5. PageTyped' /\ UNCHANGED server
    BY <1>0, <1>11, <2>1, <2>2, <2>3, <2>4, ActionsCounted, SelectedTyped
       DEF SelectHistoryJob
  <2>6. QED
    BY <2>5, PageAndServer
<1>12. QED
  BY <1>2, <1>3, <1>4, <1>5, <1>6, <1>7, <1>8, <1>9, <1>10, <1>11

\* A lost call looks like a refused one.
LEMMA LostIsRefused ==
    ASSUME TypeInv, NEW c \in calls, Lose(c)
    PROVE  /\ \E r : Became(c, r) /\ Refused(c, r)
           /\ UNCHANGED server
           /\ faults' \in 0..MaxFaults
           /\ disturbed' = (disturbed \/ c.op \in Identity \cup {"history", "create"})
<1> DEFINE r == [c EXCEPT !.st = "failed"]
<1>1. c \in TypedCalls
  BY DEF TypeInv
<1>2. /\ r \in TypedCalls /\ Refused(c, r)
      /\ r.n = c.n /\ r.op = c.op /\ r.who = c.who /\ r.old = c.old
  BY <1>1 DEF TypedCalls, Calls, Refused
<1>3. Became(c, r) /\ UNCHANGED server
  BY <1>2 DEF Lose, Became
<1>4. faults' \in 0..MaxFaults
  BY DEF Lose, TypeInv, TypeOK
<1>5. disturbed' = (disturbed \/ c.op \in Identity \cup {"history", "create"})
  BY DEF Lose
<1>6. QED
  BY <1>2, <1>3, <1>4, <1>5

\* An update leaves a screen.
LEMMA UpdatedTyped ==
    ASSUME TypeInv, NEW c \in calls, c.op = "update"
    PROVE  Updated(c) \in [selected : Jobs \cup {NoJob}, job : Jobs \cup {NoJob},
                   state : States, ended : BOOLEAN, urls : Jobs \cup {NoJob},
                   watching : Jobs \cup {NoJob}]
<1>1. /\ c.job \in Jobs /\ c.seen[c.job] \in States /\ c.old \in BOOLEAN
      /\ screen \in [selected : Jobs \cup {NoJob}, job : Jobs \cup {NoJob},
                   state : States, ended : BOOLEAN, urls : Jobs \cup {NoJob},
                   watching : Jobs \cup {NoJob}]
  BY DEF TypeInv, TypeOK, TypedCalls, Calls
<1>2. QED
  BY <1>1 DEF Updated

\* The continuations of the calls keep the types.
LEMMA ArriveTyped ==
    ASSUME TypeInv, NEW c \in calls, Arrive(c)
    PROVE  TypeInv'
<1>0. /\ PageTyped /\ disturbed \in BOOLEAN /\ calls \subseteq Calls
      /\ valid[cookie] \in Owners /\ c \in TypedCalls
      /\ c.n \in 0..MaxActions /\ c.n \in Sessions /\ c.key \in Owners
      /\ c.job \in Jobs \cup {NoJob}
      /\ c.seen \in [Jobs -> States] /\ NoCookie \in Sessions
      /\ UNCHANGED <<server, file, actions, faults>>
      /\ "cancelled" \in States /\ "active" \in States
  BY Numbers DEF TypeInv, TypeOK, PageTyped, TypedCalls, Calls, Owners, Arrive, States
<1> USE DEF account
<1>1. SUFFICES PageTyped'
  BY <1>0, PageAndServer
<1>2. ASSUME Issue({c}, {}) PROVE calls' \subseteq TypedCalls /\ disturbed' \in BOOLEAN
  <2>1. Turn({c}, {})
    BY <1>0, <1>2, IssueTurns
  <2>2. QED
    BY <2>1, TurnTyped
<1>3. ASSUME NEW op \in {"history", "sessions", "put", "create"},
             NEW key \in Owners, NEW who \in Sessions,
             Issue({c}, {Ask(c.n, op, NoJob, key, who)})
      PROVE  calls' \subseteq TypedCalls /\ disturbed' \in BOOLEAN
  <2>1. Ask(c.n, op, NoJob, key, who) \in TypedCalls
    BY <1>0, <1>3, AskIsTyped DEF Ops, Authentication, Management, Uploading
  <2>2. Turn({c}, {Ask(c.n, op, NoJob, key, who)})
    BY <1>0, <1>3, IssueTurns
  <2>3. QED
    BY <2>1, <2>2, TurnTyped
<1>4. ASSUME NEW scr, NEW new, new \subseteq TypedCalls, Show(scr, {c}, new)
      PROVE  calls' \subseteq TypedCalls /\ disturbed' \in BOOLEAN /\ screen' = scr
  BY <1>0, <1>4, ShowTurns, TurnTyped
<1> HIDE DEF PageTyped
<1>5. CASE c.op \in Identity /\ IdentityChanged(c)
  <2>1. ASSUME NEW owner \in Owners, NEW session \in Sessions,
               ReloadJobs(c, owner, session)
        PROVE  PageTyped'
    <3>1. Ask(c.n, "history", NoJob, owner, session) \in TypedCalls
      BY <1>0, AskIsTyped DEF Ops
    <3>2. /\ calls' \subseteq TypedCalls /\ disturbed' \in BOOLEAN
          /\ screen' = Cleared
      BY <1>4, <2>1, <3>1 DEF ReloadJobs
    <3>3. QED
      BY <1>0, <2>1, <3>2, Numbers DEF ReloadJobs, PageTyped, Cleared, States
  <2>2. CASE c.st = "ok"
    BY <1>0, <1>5, <2>1, <2>2, Numbers DEF IdentityChanged
  <2>3. CASE c.st # "ok"
    <3>1. calls' \subseteq TypedCalls /\ disturbed' \in BOOLEAN
      BY <1>2, <1>5, <2>3 DEF IdentityChanged
    <3>2. QED
      BY <1>0, <1>5, <2>3, <3>1 DEF IdentityChanged, Flag, PageTyped
  <2>4. QED
    BY <2>2, <2>3
<1>6. CASE Managed(c)
  <2>1. calls' \subseteq TypedCalls /\ disturbed' \in BOOLEAN
    BY <1>0, <1>2, <1>3, <1>6, Numbers DEF Managed, PageTyped
  <2>2. QED
    BY <1>0, <1>6, <2>1 DEF Managed, Flag, PageTyped
<1>7. CASE Started(c)
  <2>1. calls' \subseteq TypedCalls /\ disturbed' \in BOOLEAN
    BY <1>0, <1>2, <1>3, <1>7 DEF Started, PageTyped
  <2>2. QED
    BY <1>0, <1>7, <2>1 DEF Started, Flag, PageTyped
<1>8. CASE HistoryLoaded(c)
  <2> DEFINE j == Newest(c.seen)
  <2>1. CASE c.st = "ok" /\ j # NoJob
    <3>1. j \in Jobs
      BY <2>1, NewestIsActive
    <3>2. /\ calls' \subseteq TypedCalls /\ disturbed' \in BOOLEAN
          /\ screen' = Selected(j, "active")
      BY <1>4, <1>8, <2>1 DEF HistoryLoaded
    <3>3. QED
      BY <1>0, <1>8, <3>1, <3>2, SelectedTyped DEF HistoryLoaded, Flag, PageTyped
  <2>2. CASE ~(c.st = "ok" /\ j # NoJob)
    <3>1. /\ calls' \subseteq TypedCalls /\ disturbed' \in BOOLEAN
          /\ screen' = screen
      BY <1>2, <1>8, <2>2 DEF HistoryLoaded
    <3>2. QED
      BY <1>0, <1>8, <3>1 DEF HistoryLoaded, Flag, PageTyped
  <2>3. QED
    BY <2>1, <2>2
<1>9. CASE LinksArrive(c)
  <2>1. calls' \subseteq TypedCalls /\ disturbed' \in BOOLEAN
    BY <1>2, <1>9 DEF LinksArrive
  <2>2. QED
    BY <1>0, <1>9, <2>1 DEF LinksArrive, PageTyped
<1>10. CASE c.op = "update" /\ UpdateArrives(c)
  <2>1. /\ \/ /\ history' = [history EXCEPT ![c.job] = c.seen[c.job]]
              /\ screen' = Updated(c)
           \/ UNCHANGED <<history, screen>>
        /\ over' \subseteq Jobs
    BY <1>0, <1>10 DEF UpdateArrives, PageTyped
  <2>2. calls' \subseteq TypedCalls /\ disturbed' \in BOOLEAN
    <3>1. Links(c.job, c.seen[c.job]) \subseteq TypedCalls
      BY <1>0, LinksTyped, Numbers
    <3>2. PICK new \in SUBSET TypedCalls : Issue({c}, new)
      BY <1>10, <3>1 DEF UpdateArrives
    <3>3. Turn({c}, new)
      BY <1>0, <3>2, IssueTurns
    <3>4. QED
      BY <3>2, <3>3, TurnTyped
  <2>3. c.job \in Jobs /\ c.seen[c.job] \in States
    BY <1>0, <1>10 DEF TypedCalls
  <2>4. QED
    BY <1>0, <1>10, <2>1, <2>2, <2>3, UpdatedTyped DEF UpdateArrives, PageTyped
<1>11. ASSUME NEW state \in States, SelectJob(c.job, state, {c})
       PROVE  /\ calls' \subseteq TypedCalls /\ disturbed' \in BOOLEAN
              /\ screen' = Selected(c.job, state)
              /\ history' = [history EXCEPT ![c.job] = state] /\ over' \subseteq Jobs
  <2>1. Links(c.job, state) \subseteq TypedCalls
    BY <1>0, LinksTyped
  <2>2. over' \subseteq Jobs
    BY <1>0, <1>11 DEF SelectJob, PageTyped
  <2>3. QED
    BY <1>4, <1>11, <2>1, <2>2 DEF SelectJob
<1>12. CASE UploadContinues(c)
  <2>1. CASE c.st = "ok" /\ c.op # "create"
    <3>1. calls' \subseteq TypedCalls /\ disturbed' \in BOOLEAN
      BY <1>0, <1>3, <1>12, <2>1 DEF UploadContinues, NextStage, PageTyped
    <3>2. QED
      BY <1>0, <1>12, <2>1, <3>1 DEF UploadContinues, PageTyped
  <2>2. CASE c.st = "ok" /\ c.op = "create"
    <3>1. /\ calls' \subseteq TypedCalls /\ disturbed' \in BOOLEAN
          /\ screen' = Selected(c.job, "active")
          /\ history' = [history EXCEPT ![c.job] = "active"] /\ over' \subseteq Jobs
      BY <1>0, <1>11, <1>12, <2>2 DEF UploadContinues
    <3>2. QED
      BY <1>0, <1>12, <2>2, <3>1, SelectedTyped DEF UploadContinues, Flag, PageTyped
  <2>3. CASE c.st # "ok"
    <3>1. calls' \subseteq TypedCalls /\ disturbed' \in BOOLEAN
      BY <1>2, <1>12, <2>3 DEF UploadContinues
    <3>2. QED
      BY <1>0, <1>12, <2>3, <3>1 DEF UploadContinues, Flag, PageTyped
  <2>4. QED
    BY <2>1, <2>2, <2>3
<1>13. CASE CancelArrives(c)
  <2>1. CASE c.st = "ok"
    <3>1. /\ calls' \subseteq TypedCalls /\ disturbed' \in BOOLEAN
          /\ screen' = Selected(c.job, "cancelled")
          /\ history' = [history EXCEPT ![c.job] = "cancelled"] /\ over' \subseteq Jobs
      BY <1>0, <1>11, <1>13, <2>1 DEF CancelArrives
    <3>2. QED
      BY <1>0, <1>13, <3>1, SelectedTyped DEF CancelArrives, Flag, PageTyped
  <2>2. CASE c.st # "ok"
    <3>1. calls' \subseteq TypedCalls /\ disturbed' \in BOOLEAN
      BY <1>2, <1>13, <2>2 DEF CancelArrives
    <3>2. QED
      BY <1>0, <1>13, <2>2, <3>1 DEF CancelArrives, Flag, PageTyped
  <2>3. QED
    BY <2>1, <2>2
<1>14. QED
  BY <1>5, <1>6, <1>7, <1>8, <1>9, <1>10, <1>12, <1>13 DEF Arrive

\* Every variable keeps its type: a session stands for an account that exists
\* or for the visitor, whatever accounts are deleted meanwhile.
LEMMA TypeStep ==
    ASSUME TypeInv, [Next]_vars
    PROVE  TypeInv'
<1>1. ASSUME NEW c, NEW r, Became(c, r), faults' \in 0..MaxFaults,
             disturbed' \in BOOLEAN,
             Served(c, r) \/ (Refused(c, r) /\ UNCHANGED server)
      PROVE  TypeInv'
  <2>1. calls' \subseteq TypedCalls
    BY <1>1 DEF Became, TypeInv
  <2>2. TypedCalls \subseteq Calls
    BY DEF TypedCalls
  <2>3. /\ rows' \in [Jobs -> [owner : Owners \cup {Nobody}, state : States]]
        /\ accounts' \subseteq Accounts
        /\ valid' \in [Sessions -> accounts' \cup {Visitor}]
        /\ valid'[NoCookie] = Visitor
    BY <1>1, ServerTyped
  <2>4. UNCHANGED <<account, past, screen, settings, file, ready, busy, actions>>
    BY <1>1 DEF Became
  <2>5. QED
    BY <1>1, <2>1, <2>2, <2>3, <2>4 DEF TypeInv, TypeOK, account
<1>2. ASSUME NEW c \in calls, Handle(c) PROVE TypeInv'
  BY <1>1, <1>2, ServedOrRefused DEF TypeInv, TypeOK
<1>3. ASSUME NEW c \in calls, Lose(c) PROVE TypeInv'
  <2>1. disturbed' \in BOOLEAN
    BY <1>3, LostIsRefused, Zenon DEF TypeInv, TypeOK
  <2>2. QED
    BY <1>1, <1>3, <2>1, LostIsRefused
<1>4. ASSUME NEW j \in Jobs, Settle(j) PROVE TypeInv'
  <2>1. rows' \in [Jobs -> [owner : Owners \cup {Nobody}, state : States]]
    BY <1>4 DEF Settle, TypeInv, TypeOK, States
  <2>2. QED
    BY <1>4, <2>1 DEF Settle, TypeInv, TypeOK, account
<1>5. CASE UNCHANGED vars
  BY <1>5 DEF vars, TypeInv, TypeOK, server, account
<1>6. QED
  BY <1>2, <1>3, <1>4, <1>5, UserTyped, ArriveTyped DEF Next

\* Variables and calls keep their types in every state.
THEOREM TypeInvCorrect == Spec => []TypeInv
<1>1. ASSUME Init PROVE TypeInv
  <2>1. cookie \in Sessions /\ NoCookie \in Sessions \ {0} /\ 0 \in 0..MaxFaults
    BY <1>1, Numbers DEF Init, Sessions, NoCookie
  <2>2. Ask(0, "start", NoJob, Visitor, cookie) \in TypedCalls
    BY <2>1, Numbers, AskIsTyped DEF Ops
  <2>3. valid \in [Sessions -> accounts \cup {Visitor}] /\ valid[NoCookie] = Visitor
    BY <1>1, <2>1 DEF Init, Owners
  <2>4. calls \subseteq TypedCalls /\ calls \subseteq Calls
    BY <1>1, <2>2 DEF Init, TypedCalls
  <2>5. QED
    BY <1>1, <2>1, <2>3, <2>4, Numbers
       DEF Init, TypeInv, TypeOK, Nothing, Cleared, States
<1>2. QED
  BY <1>1, TypeStep, PTL DEF Spec

\* Every variable keeps its type, with any number of accounts and jobs: and a
\* session stands for an account that exists or for the visitor, however sign-ins
\* and deletions of the account meet (login, deleteUserAccount).
THEOREM TypeCorrect == Spec => []TypeOK
<1>1. TypeInv => TypeOK
  BY DEF TypeInv
<1>2. QED
  BY <1>1, TypeInvCorrect, PTL

-----------------------------------------------------------------------------
(* Which controls are disabled.                                             *)

Flying(ops) == \E c \in calls : c.op \in ops
Sole(ops) == \A c, d \in calls : c.op \in ops /\ d.op \in ops => c = d

\* Two uploads, two sign-ins or two cancellations are never in flight together,
\* so that the first to end may enable the control again.
FlagInv ==
    /\ Sole(Uploading) /\ Sole({"cancel"}) /\ Sole(Authentication)
    /\ FlagsFollowCalls

\* An answer changes nothing about which kinds of call are in flight.
LEMMA BecameKeeps ==
    ASSUME NEW c, NEW r, Became(c, r), NEW ops
    PROVE  /\ Flying(ops)' <=> Flying(ops)
           /\ Sole(ops) => Sole(ops)'
<1>1. Flying(ops)' <=> Flying(ops)
  BY DEF Became, Flying
<1>2. Sole(ops) => Sole(ops)'
  BY DEF Became, Sole
<1>3. QED
  BY <1>1, <1>2

\* A turn that neither ends nor sends calls of `ops` leaves them alone,
LEMMA TurnKeeps ==
    ASSUME calls \subseteq Calls, NEW done, NEW new, Turn(done, new), NEW ops,
           \A c \in done \cup new : c.op \notin ops, "update" \notin ops
    PROVE  /\ Flying(ops)' <=> Flying(ops)
           /\ Sole(ops) => Sole(ops)'
<1>1. \A c \in calls : Aged(c).op = c.op
  BY AgedIsCall
<1>2. \A d \in calls' : d.op \in ops => d \in calls
  BY <1>1 DEF Turn
<1>3. \A d \in calls : d.op \in ops => d \in calls'
  BY DEF Turn
<1>4. QED
  BY <1>2, <1>3 DEF Flying, Sole

\* one that sends the only call of `ops` leaves that one,
LEMMA TurnAdds ==
    ASSUME calls \subseteq Calls, NEW done, NEW new, Turn(done, new), NEW ops,
           NEW c \in new, c.op \in ops, \A d \in new : d.op \in ops => d = c,
           "update" \notin ops,
           \/ ~Flying(ops)
           \/ Sole(ops) /\ \E d \in done \cap calls : d.op \in ops
    PROVE  Flying(ops)' /\ Sole(ops)'
<1>1. \A d \in calls : Aged(d).op = d.op
  BY AgedIsCall
<1>2. \A d \in calls' : d.op \in ops => d = c
  BY <1>1 DEF Turn, Flying, Sole
<1>3. c \in calls'
  BY DEF Turn
<1>4. QED
  BY <1>2, <1>3 DEF Flying, Sole

\* and one that ends the only call of `ops` leaves none.
LEMMA TurnEnds ==
    ASSUME calls \subseteq Calls, NEW done, NEW new, Turn(done, new), NEW ops,
           \A d \in new : d.op \notin ops, "update" \notin ops,
           Sole(ops), \E d \in done \cap calls : d.op \in ops
    PROVE  ~Flying(ops)' /\ Sole(ops)'
<1>1. \A d \in calls : Aged(d).op = d.op
  BY AgedIsCall
<1>2. \A d \in calls' : d.op \notin ops
  BY <1>1 DEF Turn, Sole
<1>3. QED
  BY <1>2 DEF Flying, Sole


\* The flag and the calls of `ops` are left alone, set with a call, or cleared
\* with the only one.
Follows(flag, ops, done, new) ==
    \/ /\ \A c \in done \cup new : c.op \notin ops
       /\ flag \in busy' <=> flag \in busy
    \/ /\ flag \in busy'
       /\ flag \notin busy \/ \E d \in done \cap calls : d.op \in ops
       /\ \E c \in new : c.op \in ops /\ \A d \in new : d.op \in ops => d = c
    \/ /\ flag \notin busy'
       /\ \A d \in new : d.op \notin ops
       /\ \E d \in done \cap calls : d.op \in ops

\* The flag is cleared, set with a call, or none of its calls is over.
Covers(flag, ops, done, new) ==
    \/ flag \notin busy'
    \/ \E c \in new : c.op \in ops
    \/ flag \in busy /\ \A c \in done : c.op \notin ops

\* A flag that follows its calls in a turn agrees with them afterwards.
LEMMA FollowsTurn ==
    ASSUME calls \subseteq Calls, NEW done, NEW new, Turn(done, new),
           NEW flag, NEW ops, "update" \notin ops,
           Sole(ops), flag \in busy <=> Flying(ops), Follows(flag, ops, done, new)
    PROVE  Sole(ops)' /\ (flag \in busy' <=> Flying(ops)')
<1>1. CASE /\ \A c \in done \cup new : c.op \notin ops
           /\ flag \in busy' <=> flag \in busy
  BY <1>1, TurnKeeps
<1>2. CASE /\ flag \in busy'
           /\ flag \notin busy \/ \E d \in done \cap calls : d.op \in ops
           /\ \E c \in new : c.op \in ops /\ \A d \in new : d.op \in ops => d = c
  BY <1>2, TurnAdds
<1>3. CASE /\ flag \notin busy'
           /\ \A d \in new : d.op \notin ops
           /\ \E d \in done \cap calls : d.op \in ops
  BY <1>3, TurnEnds
<1>4. QED
  BY <1>1, <1>2, <1>3 DEF Follows

\* The same, for a flag whose calls may overlap.
LEMMA CoversTurn ==
    ASSUME calls \subseteq Calls, NEW done, NEW new, Turn(done, new),
           NEW flag, NEW ops, "update" \notin ops,
           flag \in busy => Flying(ops), Covers(flag, ops, done, new)
    PROVE  flag \in busy' => Flying(ops)'
BY DEF Covers, Turn, Flying

FlagsTurn(done, new) ==
    /\ Turn(done, new)
    /\ Follows("uploading", Uploading, done, new)
    /\ Follows("cancelling", {"cancel"}, done, new)
    /\ Follows("authenticating", Authentication, done, new)
    /\ Covers("managing", Management, done, new)
    /\ Covers("loading", {"history"}, done, new)

\* All flags together.
LEMMA FlagsFollowTurn ==
    ASSUME TypeInv, FlagInv, NEW done, NEW new, FlagsTurn(done, new)
    PROVE  FlagInv'
<1>0. /\ calls \subseteq Calls /\ Turn(done, new)
      /\ "update" \notin Uploading /\ "update" \notin Authentication
      /\ "update" \notin Management
  BY DEF TypeInv, TypedCalls, FlagsTurn, Uploading, Authentication, Management
<1> USE DEF FlagInv, FlagsFollowCalls, FlagsTurn
<1>1. Sole(Uploading)' /\ ("uploading" \in busy' <=> Flying(Uploading)')
  BY <1>0, FollowsTurn DEF Flying
<1>2. Sole({"cancel"})' /\ ("cancelling" \in busy' <=> Flying({"cancel"})')
  BY <1>0, FollowsTurn DEF Flying
<1>3. Sole(Authentication)' /\ ("authenticating" \in busy' <=> Flying(Authentication)')
  BY <1>0, FollowsTurn DEF Flying
<1>4. "managing" \in busy' => Flying(Management)'
  BY <1>0, CoversTurn DEF Flying
<1>5. "loading" \in busy' => Flying({"history"})'
  BY <1>0, CoversTurn DEF Flying
<1>6. QED
  BY <1>1, <1>2, <1>3, <1>4, <1>5 DEF Flying

\* The user's actions set each flag with the call it belongs to.
LEMMA UserFlags ==
    ASSUME TypeInv, FlagInv,
           \/ \E a \in Accounts : Login(a)
           \/ Logout \/ OpenSettings \/ CloseSettings \/ SelectFile
           \/ StartProcessing \/ CancelJob \/ Subscription
           \/ \E op \in Management \ {"sessions"} : Manage(op)
           \/ \E j \in Jobs : SelectHistoryJob(j)
    PROVE  FlagInv'
<1>0. disturbed \in BOOLEAN /\ calls \subseteq Calls
  BY DEF TypeInv, TypeOK, TypedCalls
<1> USE DEF Uploading, Authentication, Management, Flag
<1>1. ASSUME NEW n, NEW op, NEW j, NEW key, NEW who,
             Issue({}, {Ask(n, op, j, key, who)})
      PROVE  Turn({}, {Ask(n, op, j, key, who)}) /\ Ask(n, op, j, key, who).op = op
  BY <1>0, <1>1, IssueTurns DEF Ask
<1>2. ASSUME NEW op \in Authentication, NEW key, Authenticate(op, key) PROVE FlagInv'
  <2> DEFINE new == {Ask(actions + 1, op, NoJob, key, cookie)}
  <2>1. FlagsTurn({}, new)
    BY <1>1, <1>2 DEF Authenticate, PanelEnabled, FlagsTurn, Follows, Covers
  <2>2. QED
    BY <2>1, FlagsFollowTurn
<1>3. CASE OpenSettings
  <2> DEFINE new == {Ask(actions + 1, "sessions", NoJob, Visitor, cookie)}
  <2>1. FlagsTurn({}, new)
    BY <1>1, <1>3 DEF OpenSettings, FlagsTurn, Follows, Covers
  <2>2. QED
    BY <2>1, FlagsFollowTurn
<1>4. CASE CloseSettings
  BY <1>4 DEF CloseSettings, FlagInv, FlagsFollowCalls, Sole
<1>5. CASE SelectFile
  <2>1. Turn({}, {}) /\ UNCHANGED busy
    BY <1>0, <1>5, ShowTurns DEF SelectFile
  <2>2. FlagsTurn({}, {})
    BY <2>1 DEF FlagsTurn, Follows, Covers
  <2>3. QED
    BY <2>2, FlagsFollowTurn
<1>6. CASE StartProcessing
  <2> DEFINE new == {Ask(actions + 1, "presign", NoJob, Visitor, cookie)}
  <2>1. FlagsTurn({}, new)
    BY <1>1, <1>6 DEF StartProcessing, FlagsTurn, Follows, Covers
  <2>2. QED
    BY <2>1, FlagsFollowTurn
<1>7. CASE CancelJob
  <2> DEFINE new == {Ask(actions + 1, "cancel", screen.job, Visitor, cookie)}
  <2>1. FlagsTurn({}, new)
    BY <1>1, <1>7 DEF CancelJob, FlagsTurn, Follows, Covers
  <2>2. QED
    BY <2>1, FlagsFollowTurn
<1>8. CASE Subscription
  <2> DEFINE new == {Ask(0, "update", screen.watching, Principal(cookie), cookie)}
  <2>1. FlagsTurn({}, new)
    BY <1>1, <1>8 DEF Subscription, FlagsTurn, Follows, Covers
  <2>2. QED
    BY <2>1, FlagsFollowTurn
<1>9. ASSUME NEW op \in Management \ {"sessions"}, Manage(op) PROVE FlagInv'
  <2> DEFINE new == {Ask(actions + 1, op, NoJob, Visitor, cookie)}
  <2>1. FlagsTurn({}, new)
    BY <1>1, <1>9 DEF Manage, FlagsTurn, Follows, Covers
  <2>2. QED
    BY <2>1, FlagsFollowTurn
<1>10. ASSUME NEW j \in Jobs, SelectHistoryJob(j) PROVE FlagInv'
  <2> DEFINE new == Links(j, history[j])
  <2>1. Turn({}, new) /\ UNCHANGED busy
    BY <1>0, <1>10, ShowTurns DEF SelectHistoryJob, SelectJob
  <2>2. \A c \in new : c.op = "urls"
    BY DEF Links, Ask
  <2>3. FlagsTurn({}, new)
    BY <2>1, <2>2 DEF FlagsTurn, Follows, Covers
  <2>4. QED
    BY <2>3, FlagsFollowTurn
<1>11. QED
  BY <1>2, <1>3, <1>4, <1>5, <1>6, <1>7, <1>8, <1>9, <1>10 DEF Login, Logout

\* The continuations clear each flag with the last call it belongs to.
LEMMA ArriveFlags ==
    ASSUME TypeInv, FlagInv, NEW c \in calls, Arrive(c)
    PROVE  FlagInv'
<1>0. disturbed \in BOOLEAN /\ calls \subseteq Calls /\ c.op \in Ops
  BY DEF TypeInv, TypeOK, TypedCalls, Calls
<1> USE DEF Uploading, Authentication, Management, Flag, FlagsTurn, Follows, Covers
<1>1. ASSUME NEW n, NEW op, NEW key, NEW who,
             Issue({c}, {Ask(n, op, NoJob, key, who)})
      PROVE  /\ Turn({c}, {Ask(n, op, NoJob, key, who)})
             /\ Ask(n, op, NoJob, key, who).op = op
  BY <1>0, <1>1, IssueTurns DEF Ask
<1>2. ASSUME Issue({c}, {}) PROVE Turn({c}, {})
  BY <1>0, <1>2, IssueTurns
<1>3. ASSUME NEW j, NEW state
      PROVE  \A d \in Links(j, state) : d.op = "urls"
  BY DEF Links, Ask
<1>4. ASSUME NEW state, SelectJob(c.job, state, {c})
      PROVE  Turn({c}, Links(c.job, state))
  BY <1>0, <1>4, ShowTurns DEF SelectJob
<1>5. CASE c.op \in Identity /\ IdentityChanged(c)
  <2>1. ASSUME NEW owner, NEW session, ReloadJobs(c, owner, session) PROVE FlagInv'
    <3> DEFINE new == {Ask(c.n, "history", NoJob, owner, session)}
    <3>1. Turn({c}, new) /\ \A d \in new : d.op = "history"
      BY <1>0, <2>1, ShowTurns DEF ReloadJobs, Ask
    <3>2. FlagsTurn({c}, new)
      BY <1>5, <2>1, <3>1 DEF ReloadJobs, Identity, Flags
    <3>3. QED
      BY <3>2, FlagsFollowTurn
  <2>2. CASE c.st # "ok"
    <3>1. FlagsTurn({c}, {})
      BY <1>2, <1>5, <2>2 DEF IdentityChanged, Identity, Flags
    <3>2. QED
      BY <3>1, FlagsFollowTurn
  <2>3. QED
    BY <1>5, <2>1, <2>2 DEF IdentityChanged
<1>6. CASE c.op \in Management \ {"delete"} /\ Managed(c)
  <2>1. CASE c.op = "password" /\ c.st = "ok"
    <3> DEFINE new == {Ask(c.n, "sessions", NoJob, Visitor, cookie)}
    <3>1. FlagsTurn({c}, new)
      BY <1>1, <1>6, <2>1 DEF Managed
    <3>2. QED
      BY <3>1, FlagsFollowTurn
  <2>2. CASE ~(c.op = "password" /\ c.st = "ok")
    <3>1. FlagsTurn({c}, {})
      BY <1>2, <1>6, <2>2 DEF Managed
    <3>2. QED
      BY <3>1, FlagsFollowTurn
  <2>3. QED
    BY <2>1, <2>2
<1>7. CASE c.op = "start" /\ Started(c)
  <2>1. CASE c.st = "ok"
    <3> DEFINE new == {Ask(c.n, "history", NoJob, c.key, cookie)}
    <3>1. FlagsTurn({c}, new)
      BY <1>1, <1>7, <2>1 DEF Started
    <3>2. QED
      BY <3>1, FlagsFollowTurn
  <2>2. CASE c.st # "ok"
    <3>1. FlagsTurn({c}, {})
      BY <1>2, <1>7, <2>2 DEF Started
    <3>2. QED
      BY <3>1, FlagsFollowTurn
  <2>3. QED
    BY <2>1, <2>2
<1>8. CASE c.op = "history" /\ HistoryLoaded(c)
  <2>1. Turn({c}, {}) /\ busy' = busy \ {"loading"}
    BY <1>0, <1>2, <1>8, ShowTurns DEF HistoryLoaded
  <2>2. FlagsTurn({c}, {})
    BY <1>8, <2>1
  <2>3. QED
    BY <2>2, FlagsFollowTurn
<1>9. CASE c.op = "urls" /\ LinksArrive(c)
  <2>1. FlagsTurn({c}, {})
    BY <1>2, <1>9 DEF LinksArrive
  <2>2. QED
    BY <2>1, FlagsFollowTurn
<1>10. CASE c.op = "update" /\ UpdateArrives(c)
  <2>1. PICK new \in {{}, Links(c.job, c.seen[c.job])} : Issue({c}, new)
    BY <1>10 DEF UpdateArrives
  <2>2. Turn({c}, new) /\ \A d \in new : d.op = "urls"
    BY <1>0, <1>3, <2>1, IssueTurns
  <2>3. FlagsTurn({c}, new)
    BY <1>10, <2>2 DEF UpdateArrives
  <2>4. QED
    BY <2>3, FlagsFollowTurn
<1>11. CASE c.op \in Uploading /\ UploadContinues(c)
  <2>1. CASE c.st = "ok" /\ c.op # "create"
    <3> DEFINE new == {Ask(c.n, NextStage(c.op), NoJob, c.key, cookie)}
    <3>1. Turn({c}, new) /\ \A d \in new : d.op \in Uploading
      BY <1>1, <1>11, <2>1 DEF UploadContinues, NextStage
    <3>2. "uploading" \in busy /\ UNCHANGED busy
      BY <1>11, <2>1 DEF UploadContinues, FlagInv, FlagsFollowCalls
    <3>3. FlagsTurn({c}, new)
      BY <1>11, <3>1, <3>2
    <3>4. QED
      BY <3>3, FlagsFollowTurn
  <2>2. CASE ~(c.st = "ok" /\ c.op # "create")
    <3>1. PICK new \in {{}, Links(c.job, "active")} : Turn({c}, new)
      BY <1>2, <1>4, <1>11, <2>2 DEF UploadContinues
    <3>2. \A d \in new : d.op = "urls"
      BY <1>3
    <3>3. FlagsTurn({c}, new)
      BY <1>11, <2>2, <3>1, <3>2 DEF UploadContinues
    <3>4. QED
      BY <3>3, FlagsFollowTurn
  <2>3. QED
    BY <2>1, <2>2
<1>12. CASE c.op = "cancel" /\ CancelArrives(c)
  <2>1. PICK new \in {{}, Links(c.job, "cancelled")} : Turn({c}, new)
    BY <1>2, <1>4, <1>12 DEF CancelArrives
  <2>2. \A d \in new : d.op = "urls"
    BY <1>3
  <2>3. FlagsTurn({c}, new)
    BY <1>12, <2>1, <2>2 DEF CancelArrives
  <2>4. QED
    BY <2>3, FlagsFollowTurn
<1>13. QED
  BY <1>5, <1>6, <1>7, <1>8, <1>9, <1>10, <1>11, <1>12 DEF Arrive

\* FlagInv is inductive.
LEMMA FlagStep ==
    ASSUME TypeInv, FlagInv, [Next]_vars
    PROVE  FlagInv'
<1>1. ASSUME NEW c, NEW r, Became(c, r) PROVE FlagInv'
  <2>1. UNCHANGED busy
    BY <1>1 DEF Became
  <2>2. \A ops : (Flying(ops)' <=> Flying(ops)) /\ (Sole(ops) => Sole(ops)')
    BY <1>1, BecameKeeps
  <2>3. QED
    BY <2>1, <2>2 DEF FlagInv, FlagsFollowCalls, Flying
<1>2. ASSUME UNCHANGED <<calls, busy>> PROVE FlagInv'
  BY <1>2 DEF FlagInv, FlagsFollowCalls, Sole
<1>3. QED
  BY <1>1, <1>2, ServedOrRefused, LostIsRefused, UserFlags, ArriveFlags
     DEF Next, Settle, vars

\* No flag parts from its calls (setIsUploading, setIsAuthenticating and so on).
THEOREM FlagInvCorrect == Spec => []FlagInv
<1>1. Init => FlagInv
  BY DEF Init, Ask, FlagInv, FlagsFollowCalls, Sole, Uploading, Authentication, Management
<1>2. QED
  BY <1>1, FlagStep, TypeInvCorrect, PTL DEF Spec

\* A control is disabled only while a call of its own is in flight, and an
\* upload, a cancellation and a sign-in keep theirs disabled until they end
\* (startProcessing, cancelJob, authenticate): whichever calls fail or overlap.
THEOREM ControlsFollowCalls == Spec => []FlagsFollowCalls
<1>1. FlagInv => FlagsFollowCalls
  BY DEF FlagInv
<1>2. QED
  BY <1>1, FlagInvCorrect, PTL

-----------------------------------------------------------------------------
(* The screen and what is known of a job's row.                             *)

\* The page, or an answer on its way, says that job j was cancelled or failed.
CancelInAnswers(j) ==
    \E c \in calls : \/ c.op = "cancel" /\ c.st = "ok" /\ c.job = j
                     \/ c.seen[j] = "cancelled"
CancelSeen(j) ==
    \/ history[j] = "cancelled"
    \/ screen.job = j /\ screen.state = "cancelled"
    \/ CancelInAnswers(j)

\* The page, or an answer on its way, holds the links of job j.
LinksInAnswers(j) == \E c \in calls : c.op = "urls" /\ c.st = "ok" /\ c.job = j
LinksSeen(j) == screen.urls = j \/ LinksInAnswers(j)

Cancelled(j) == rows[j].state = "cancelled"
Gone(j)      == Cancelled(j) /\ rows[j].owner = Nobody
Linked(j)    == rows[j].state \in {"done", "expired"} \/ Gone(j)

\* A row is cancelled for good and completed for good, so that no two answers
\* about one job contradict each other.
RowsInv == \A j \in Jobs : rows[j].state = "absent" => rows[j].owner = Nobody
SeenInv ==
    \A j \in Jobs :
        /\ CancelSeen(j) => Cancelled(j)
        /\ LinksSeen(j) => Linked(j)
        /\ ~(CancelSeen(j) /\ LinksSeen(j))

SameJob ==
    /\ screen.job = screen.selected
    /\ screen.urls # NoJob => screen.urls = screen.selected
    /\ screen.watching # NoJob => screen.watching = screen.selected

\* A subscription ends with a final update, and a job is on the screen without
\* one if it was final when it was selected: the page was told of both.
Followed ==
    /\ \A j \in Jobs : history[j] \in Final => j \in over
    /\ screen.ended => screen.watching \in over
    /\ screen.selected \notin {NoJob, screen.watching} => screen.selected \in over

\* Only the updates of the subscription that stands are current.
Watched == \A c \in calls : c.op = "update" /\ ~c.old => c.job = screen.watching

OnScreen == SameJob /\ Watched /\ Followed

ScreenInv == RowsInv /\ SeenInv /\ OnScreen

\* A row that is cancelled, or has results, stays so.
LEMMA RowStep ==
    ASSUME TypeInv, RowsInv, [Next]_vars
    PROVE  /\ RowsInv'
           /\ \A j \in Jobs : /\ Cancelled(j) => Cancelled(j)'
                              /\ Linked(j) => Linked(j)'
<1>0. /\ rows \in [Jobs -> [owner : Owners \cup {Nobody}, state : States]]
      /\ \A k \in Sessions : valid[k] \in Owners
  BY DEF TypeInv, TypeOK, Owners
<1> DEFINE Goal == /\ RowsInv'
                   /\ \A j \in Jobs : /\ Cancelled(j) => Cancelled(j)'
                                      /\ Linked(j) => Linked(j)'
<1> USE DEF RowsInv, Cancelled, Linked, Gone
<1>1. ASSUME UNCHANGED rows PROVE Goal
  BY <1>1
<1> SUFFICES Goal
  OBVIOUS
<1>2. ASSUME NEW c, NEW r, Became(c, r), Served(c, r) PROVE Goal
  <2>1. CASE c.op = "login"
    <3>1. rows' = [j \in Jobs |-> IF rows[j].owner = Visitor
                                  THEN [rows[j] EXCEPT !.owner = c.key]
                                  ELSE rows[j]]
      BY <1>2, <2>1 DEF Served
    <3>2. \A j \in Jobs : /\ rows'[j].state = rows[j].state
                          /\ rows[j].owner = Nobody => rows'[j].owner = Nobody
      BY <1>0, <3>1, Numbers
    <3>3. QED
      BY <3>2
  <2>2. CASE c.op = "delete"
    <3>1. rows' = [j \in Jobs |-> IF rows[j].owner = valid[c.who]
                        THEN [owner |-> Nobody, state |-> "cancelled"]
                        ELSE rows[j]]
      BY <1>2, <2>2 DEF Served
    <3>2. QED
      BY <1>0, <3>1
  <2>3. CASE c.op = "create"
    <3>1. /\ r.job \in FreeIds
          /\ rows' = [rows EXCEPT ![r.job] = [owner |-> c.key, state |-> "active"]]
      BY <1>2, <2>3 DEF Served
    <3>2. QED
      BY <1>0, <3>1 DEF FreeIds
  <2>4. CASE c.op = "cancel"
    <3>1. /\ rows[c.job].state = "active"
          /\ rows' = [rows EXCEPT ![c.job].state = "cancelled"]
      BY <1>2, <2>4 DEF Served
    <3>2. QED
      BY <1>0, <3>1
  <2>5. CASE c.op \notin {"login", "delete", "create", "cancel"}
    BY <1>1, <1>2, <2>5 DEF Served
  <2>6. QED
    BY <2>1, <2>2, <2>3, <2>4, <2>5
<1>3. ASSUME NEW j \in Jobs, Settle(j) PROVE Goal
  BY <1>0, <1>3 DEF Settle
<1>4. ASSUME UNCHANGED server PROVE Goal
  BY <1>1, <1>4 DEF server
<1> HIDE DEF Goal
<1>5. ASSUME NEW c \in calls, Handle(c) PROVE Goal
  BY <1>2, <1>4, <1>5, ServedOrRefused
<1>6. ASSUME NEW c \in calls, Lose(c) \/ Arrive(c) PROVE Goal
  BY <1>4, <1>6 DEF Lose, Arrive
<1>7. QED
  BY <1>3, <1>4, <1>5, <1>6
     DEF Next, Login, Logout, Authenticate, OpenSettings, CloseSettings, SelectFile,
         StartProcessing, CancelJob, Subscription, Manage, SelectHistoryJob, vars

\* What a step shows of a job, it knew before or has just read from its row.
SeenStep ==
    \A j \in Jobs :
        /\ CancelSeen(j)' => CancelSeen(j) \/ (Cancelled(j)' /\ ~Gone(j)')
        /\ LinksSeen(j)' => \/ LinksSeen(j)
                            \/ rows[j].state = "done" /\ UNCHANGED rows

\* What the page learns of a job in a step is true of its row after it.
LEMMA SeenFollows ==
    ASSUME TypeInv, RowsInv, SeenInv, [Next]_vars, SeenStep
    PROVE  SeenInv'
<1> SUFFICES ASSUME NEW j \in Jobs
             PROVE  /\ CancelSeen(j)' => Cancelled(j)'
                    /\ LinksSeen(j)' => Linked(j)'
                    /\ ~(CancelSeen(j)' /\ LinksSeen(j)')
  BY DEF SeenInv
<1>1. (Cancelled(j) => Cancelled(j)') /\ (Linked(j) => Linked(j)')
  BY RowStep
<1>2. /\ CancelSeen(j)' => CancelSeen(j) \/ (Cancelled(j)' /\ ~Gone(j)')
      /\ LinksSeen(j)' => \/ LinksSeen(j)
                          \/ rows[j].state = "done" /\ UNCHANGED rows
  BY DEF SeenStep
<1>3. /\ CancelSeen(j) => Cancelled(j)
      /\ LinksSeen(j) => Linked(j)
      /\ ~(CancelSeen(j) /\ LinksSeen(j))
  BY DEF SeenInv
<1>4. ~(Cancelled(j)' /\ ~Gone(j)' /\ Linked(j)')
  BY DEF Cancelled, Linked
<1>5. rows[j].state = "done" /\ UNCHANGED rows =>
        ~Cancelled(j) /\ ~Cancelled(j)' /\ Linked(j)'
  BY DEF Cancelled, Linked
<1>6. QED
  BY <1>1, <1>2, <1>3, <1>4, <1>5

\* An answer says what the row is.
LEMMA BecameSeen ==
    ASSUME TypeInv, OnScreen, NEW c, NEW r, Became(c, r),
           \/ Refused(c, r)
           \/ Served(c, r)
    PROVE  OnScreen' /\ SeenStep
<1>0. /\ c \in Calls /\ r \in Calls /\ c \in calls
      /\ rows \in [Jobs -> [owner : Owners \cup {Nobody}, state : States]]
      /\ valid[c.who] \in Owners /\ c.key \in Owners /\ Nobody \notin Owners
      /\ c.seen \in [Jobs -> States]
      /\ calls' = (calls \ {c}) \cup {r}
      /\ r.op = c.op /\ r.old = c.old
      /\ UNCHANGED <<past, screen>>
  BY Numbers DEF TypeInv, TypeOK, TypedCalls, Calls, Became, Owners
<1>1. SameJob' /\ Followed'
  BY <1>0 DEF OnScreen, SameJob, Followed
<1>2. c.op = "update" => r.job = c.job
  BY DEF Refused, Served
<1>3. Watched'
  BY <1>0, <1>2 DEF OnScreen, Watched
<1>4. ASSUME NEW j \in Jobs, r.seen[j] = "cancelled", c.seen[j] # "cancelled"
      PROVE  Cancelled(j)' /\ ~Gone(j)'
  <2>1. Served(c, r) /\ c.op \in {"history", "update"} /\ UNCHANGED rows
    BY <1>4 DEF Refused, Served
  <2>2. CASE c.op = "history"
    <3>1. r.seen = View(valid[c.who])
      BY <2>1, <2>2 DEF Served
    <3>2. QED
      BY <1>0, <1>4, <2>1, <3>1 DEF View, Cancelled, Gone
  <2>3. CASE c.op = "update"
    <3>1. /\ rows[c.job].owner \in {c.key, valid[c.who]}
          /\ r.seen = [c.seen EXCEPT ![c.job] = rows[c.job].state]
      BY <2>1, <2>3 DEF Served
    <3>2. QED
      BY <1>0, <1>4, <2>1, <3>1 DEF Cancelled, Gone
  <2>4. QED
    BY <2>1, <2>2, <2>3
<1>5. ASSUME NEW j \in Jobs, r.op = "cancel", r.st = "ok", r.job = j
      PROVE  Cancelled(j)' /\ ~Gone(j)'
  <2>1. /\ c.job = j /\ rows[j].owner = valid[c.who]
        /\ rows' = [rows EXCEPT ![j].state = "cancelled"]
    BY <1>0, <1>5 DEF Refused, Served
  <2>2. QED
    BY <1>0, <2>1 DEF Cancelled, Gone
<1>6. ASSUME NEW j \in Jobs, r.op = "urls", r.st = "ok", r.job = j
      PROVE  rows[j].state = "done" /\ UNCHANGED rows
  BY <1>0, <1>6 DEF Refused, Served
<1>7. SeenStep
  BY <1>0, <1>4, <1>5, <1>6
     DEF SeenStep, CancelSeen, CancelInAnswers, LinksSeen, LinksInAnswers
<1>8. QED
  BY <1>1, <1>3, <1>7 DEF OnScreen

\* A step of the page with calls that were not handled yet.
Sends(new) == \A c \in new : c.st = "sent" /\ c.seen = Nothing

\* A turn makes no answers,
LEMMA TurnSeen ==
    ASSUME calls \subseteq Calls, NEW done, NEW new, Turn(done, new), Sends(new)
    PROVE  \A j \in Jobs : /\ CancelInAnswers(j)' => CancelInAnswers(j)
                           /\ LinksInAnswers(j)' => LinksInAnswers(j)
<1>1. \A c \in calls : /\ Aged(c).op = c.op /\ Aged(c).st = c.st
                       /\ Aged(c).job = c.job /\ Aged(c).seen = c.seen
  BY AgedIsCall
<1>2. \A d \in calls' : \/ d.st = "sent" /\ d.seen = Nothing
                        \/ \E c \in calls : /\ d.op = c.op /\ d.st = c.st
                                            /\ d.job = c.job /\ d.seen = c.seen
  BY <1>1 DEF Turn, Sends
<1>3. \A j \in Jobs : Nothing[j] # "cancelled"
  BY DEF Nothing
<1>4. QED
  BY <1>2, <1>3 DEF CancelInAnswers, LinksInAnswers

\* and keeps the current updates those of the subscription that stands.
LEMMA TurnWatched ==
    ASSUME calls \subseteq Calls, Watched, NEW done, NEW new, Turn(done, new),
           \A c \in new : c.op = "update" => c.job = screen.watching,
           screen'.watching = screen.watching
    PROVE  Watched'
<1>1. \A c \in calls : Aged(c).old
  BY AgedIsCall
<1>2. QED
  BY <1>1 DEF Turn, Watched

\* What follows the job on the screen goes on, or ends with a final update.
LEMMA FollowsOn ==
    ASSUME Followed, over \subseteq over',
           \A j \in Jobs : history'[j] \in Final => j \in over',
           screen'.watching = screen.watching, screen'.selected = screen.selected,
           screen'.ended => screen.ended \/ screen.watching \in over'
    PROVE  Followed'
BY DEF Followed

\* A request carries no answer.
LEMMA AskSends ==
    ASSUME NEW n, NEW op, NEW j, NEW key, NEW who
    PROVE  /\ Sends({Ask(n, op, j, key, who)})
           /\ \A c \in {Ask(n, op, j, key, who)} : c.op = op /\ c.job = j
BY DEF Sends, Ask

\* Nor does a request for links.
LEMMA LinksSend ==
    ASSUME NEW j, NEW state
    PROVE  Sends(Links(j, state)) /\ \A c \in Links(j, state) : c.op = "urls"
BY DEF Sends, Links, Ask

\* A turn that leaves screen and history alone.
LEMMA ScreenStays ==
    ASSUME TypeInv, OnScreen, NEW done, NEW new, Turn(done, new), Sends(new),
           \A c \in new : c.op = "update" => c.job = screen.watching,
           UNCHANGED <<past, screen>>
    PROVE  OnScreen' /\ SeenStep
<1>1. calls \subseteq Calls
  BY DEF TypeInv, TypedCalls
<1>2. Watched'
  BY <1>1, TurnWatched DEF OnScreen
<1>3. SeenStep
  BY <1>1, TurnSeen DEF SeenStep, CancelSeen, LinksSeen
<1>4. QED
  BY <1>2, <1>3 DEF OnScreen, SameJob, Followed

\* Another job is shown, or none.
LEMMA ScreenShows ==
    ASSUME TypeInv, Followed,
           NEW scr, NEW done, NEW new, Show(scr, done, new), Sends(new),
           \A c \in new : c.op # "update",
           \/ scr = Cleared
           \/ \E j \in Jobs \cup {NoJob}, state \in States :
                /\ scr = Selected(j, state)
                /\ state = "active" \/ j = NoJob \/ j \in over'
                /\ state = "cancelled" /\ j \in Jobs => CancelSeen(j),
           \A j \in Jobs : /\ history'[j] = "cancelled" => CancelSeen(j)
                           /\ history'[j] \in Final => j \in over',
           over \subseteq over'
    PROVE  OnScreen' /\ SeenStep
<1>1. calls \subseteq Calls /\ disturbed \in BOOLEAN
  BY DEF TypeInv, TypeOK, TypedCalls
<1>2. /\ Turn(done, new) /\ screen' = scr
      /\ \A d \in calls' \ new : d.op = "update" /\ ~d.old => d.job = scr.watching
  BY <1>1, ShowTurns
<1>3. /\ SameJob'
      /\ screen'.urls = NoJob
      /\ \A j \in Jobs : screen'.job = j /\ screen'.state = "cancelled" => CancelSeen(j)
  BY <1>2, Numbers DEF SameJob, Cleared, Selected
<1>4. Watched'
  BY <1>2 DEF Watched
<1>5. SeenStep
  BY <1>1, <1>2, <1>3, TurnSeen, Numbers DEF SeenStep, CancelSeen, LinksSeen
<1>6. CASE scr = Cleared
  BY <1>2, <1>3, <1>4, <1>5, <1>6, Numbers DEF OnScreen, Followed, Cleared
<1>7. ASSUME NEW j \in Jobs \cup {NoJob}, NEW state, scr = Selected(j, state),
             state = "active" \/ j = NoJob \/ j \in over'
      PROVE  Followed'
  <2>1. /\ screen'.selected = j
        /\ screen'.watching = IF state = "active" THEN j ELSE NoJob
        /\ screen'.ended => state = "active" /\ screen.watching = j /\ screen.ended
    BY <1>2, <1>7 DEF Selected
  <2>2. QED
    BY <1>7, <2>1 DEF Followed
<1>8. QED
  BY <1>3, <1>4, <1>5, <1>6, <1>7 DEF OnScreen

\* The user's actions put nothing on the screen that the page did not know.
LEMMA UserScreen ==
    ASSUME TypeInv, OnScreen,
           \/ \E a \in Accounts : Login(a)
           \/ Logout \/ OpenSettings \/ CloseSettings \/ SelectFile
           \/ StartProcessing \/ CancelJob \/ Subscription
           \/ \E op \in Management \ {"sessions"} : Manage(op)
           \/ \E j \in Jobs : SelectHistoryJob(j)
    PROVE  OnScreen' /\ SeenStep
<1>0. /\ disturbed \in BOOLEAN /\ calls \subseteq Calls
      /\ history \in [Jobs -> States]
  BY DEF TypeInv, TypeOK, TypedCalls
<1>1. ASSUME NEW n, NEW op, NEW j, NEW key, NEW who,
             Issue({}, {Ask(n, op, j, key, who)}), UNCHANGED <<past, screen>>,
             op = "update" => j = screen.watching
      PROVE  OnScreen' /\ SeenStep
  <2> DEFINE new == {Ask(n, op, j, key, who)}
  <2>1. Turn({}, new) /\ Sends(new) /\ \A c \in new : c.op = op /\ c.job = j
    BY <1>0, <1>1, IssueTurns, AskSends
  <2> HIDE DEF new
  <2>2. \A c \in new : c.op = "update" => c.job = screen.watching
    BY <1>1, <2>1
  <2>3. QED
    BY <1>1, <2>1, <2>2, ScreenStays
<1>2. ASSUME NEW op \in Authentication, NEW key, Authenticate(op, key)
      PROVE  OnScreen' /\ SeenStep
  BY <1>1, <1>2 DEF Authenticate, Authentication
<1>3. CASE OpenSettings
  BY <1>1, <1>3 DEF OpenSettings
<1>4. CASE StartProcessing
  BY <1>1, <1>4 DEF StartProcessing
<1>5. CASE CancelJob
  BY <1>1, <1>5 DEF CancelJob
<1>6. ASSUME NEW op \in Management \ {"sessions"}, Manage(op)
       PROVE  OnScreen' /\ SeenStep
  BY <1>1, <1>6 DEF Manage, Management
<1>7. CASE Subscription
  BY <1>1, <1>7 DEF Subscription
<1>8. CASE CloseSettings
  <2>1. UNCHANGED <<past, screen, calls>>
    BY <1>8 DEF CloseSettings
  <2>2. QED
    BY <2>1 DEF OnScreen, SameJob, Watched, Followed, SeenStep, CancelSeen,
                CancelInAnswers, LinksSeen, LinksInAnswers
<1>9. CASE SelectFile
  BY <1>9, ScreenShows DEF SelectFile, Sends, CancelSeen, OnScreen, Followed
<1>10. ASSUME NEW j \in Jobs, SelectHistoryJob(j) PROVE OnScreen' /\ SeenStep
  <2>1. /\ history' = [history EXCEPT ![j] = history[j]]
        /\ over' = over \cup {i \in Jobs : history'[i] \in Final}
        /\ Show(Selected(j, history[j]), {}, Links(j, history[j]))
        /\ history[j] # "absent"
    BY <1>10 DEF SelectHistoryJob, SelectJob
  <2>2. history' = history /\ history[j] \in States
    BY <1>0, <2>1
  <2>3. history[j] = "active" \/ j \in over'
    BY <2>1, <2>2 DEF States, Final
  <2>4. QED
    BY <2>1, <2>2, <2>3, ScreenShows, LinksSend DEF CancelSeen, OnScreen
<1>11. QED
  BY <1>2, <1>7, <1>8, <1>9, <1>10, <1>3, <1>5, <1>6, <1>4
     DEF Login, Logout, Authentication

\* The continuations put on the screen what their answers say.
LEMMA ArriveScreen ==
    ASSUME TypeInv, OnScreen, NEW c \in calls, Arrive(c)
    PROVE  OnScreen' /\ SeenStep
<1>0. /\ disturbed \in BOOLEAN /\ calls \subseteq Calls
      /\ history \in [Jobs -> States] /\ c.job \in Jobs \cup {NoJob}
      /\ c.seen \in [Jobs -> States]
      /\ "active" \in States /\ "cancelled" \in States
  BY DEF TypeInv, TypeOK, TypedCalls, Calls, States
<1>1. ASSUME NEW n, NEW op, NEW key, NEW who, op # "update",
             Issue({c}, {Ask(n, op, NoJob, key, who)}), UNCHANGED <<past, screen>>
      PROVE  OnScreen' /\ SeenStep
  <2> DEFINE new == {Ask(n, op, NoJob, key, who)}
  <2>1. Turn({c}, new) /\ Sends(new) /\ \A d \in new : d.op = op
    BY <1>0, <1>1, IssueTurns, AskSends
  <2> HIDE DEF new
  <2>2. QED
    BY <1>1, <2>1, ScreenStays
<1>2. ASSUME Issue({c}, {}), UNCHANGED <<past, screen>>
      PROVE  OnScreen' /\ SeenStep
  BY <1>0, <1>2, IssueTurns, ScreenStays DEF Sends
<1>3. ASSUME NEW state \in States, SelectJob(c.job, state, {c}),
             state \in {"active"} \cup Final,
             state = "cancelled" /\ c.job \in Jobs => CancelSeen(c.job)
      PROVE  OnScreen' /\ SeenStep
  <2>1. /\ history' = [history EXCEPT ![c.job] = state]
        /\ over' = over \cup {j \in Jobs : history'[j] \in Final}
        /\ Show(Selected(c.job, state), {c}, Links(c.job, state))
    BY <1>3 DEF SelectJob
  <2>2. \A j \in Jobs : history'[j] = "cancelled" => CancelSeen(j)
    BY <1>0, <1>3, <2>1 DEF CancelSeen
  <2>3. state = "active" \/ c.job = NoJob \/ c.job \in over'
    BY <1>0, <1>3, <2>1
  <2>4. QED
    BY <1>0, <1>3, <2>1, <2>2, <2>3, ScreenShows, LinksSend DEF OnScreen
<1>4. CASE c.op \in Identity /\ IdentityChanged(c)
  <2>1. ASSUME NEW owner, NEW session, ReloadJobs(c, owner, session)
        PROVE  OnScreen' /\ SeenStep
    <3> DEFINE new == {Ask(c.n, "history", NoJob, owner, session)}
    <3>1. Sends(new) /\ \A d \in new : d.op = "history"
      BY AskSends
    <3>2. Show(Cleared, {c}, new) /\ UNCHANGED past
      BY <2>1 DEF ReloadJobs
    <3> HIDE DEF new
    <3>3. QED
      BY <3>1, <3>2, ScreenShows DEF CancelSeen, OnScreen, Followed
  <2>2. QED
    BY <1>2, <1>4, <2>1 DEF IdentityChanged
<1>5. CASE Managed(c)
  BY <1>1, <1>2, <1>5 DEF Managed
<1>6. CASE Started(c)
  BY <1>1, <1>2, <1>6 DEF Started
<1>7. CASE HistoryLoaded(c)
  <2> DEFINE j == Newest(c.seen)
  <2>1. \A i \in Jobs : history'[i] = "cancelled" => CancelSeen(i)
    BY <1>7 DEF HistoryLoaded, CancelSeen, CancelInAnswers
  <2>2. over \subseteq over' /\ \A i \in Jobs : history'[i] \in Final => i \in over'
    BY <1>7 DEF HistoryLoaded, OnScreen, Followed
  <2>3. CASE c.st = "ok" /\ j # NoJob
    <3>1. j \in Jobs /\ Show(Selected(j, "active"), {c}, {})
      BY <1>7, <2>3, NewestIsActive DEF HistoryLoaded
    <3>2. QED
      BY <1>0, <2>1, <2>2, <3>1, ScreenShows DEF Sends, OnScreen
  <2>4. CASE ~(c.st = "ok" /\ j # NoJob)
    <3>1. Issue({c}, {}) /\ UNCHANGED screen
      BY <1>7, <2>4 DEF HistoryLoaded
    <3>2. Turn({c}, {})
      BY <1>0, <3>1, IssueTurns
    <3>3. Watched' /\ Followed'
      BY <1>0, <2>2, <3>1, <3>2, TurnWatched, FollowsOn DEF OnScreen
    <3>4. SeenStep
      BY <1>0, <2>1, <3>1, <3>2, TurnSeen DEF Sends, SeenStep, CancelSeen, LinksSeen
    <3>5. QED
      BY <3>1, <3>3, <3>4 DEF OnScreen, SameJob
  <2>5. QED
    BY <2>3, <2>4
<1>8. CASE c.op = "urls" /\ LinksArrive(c)
  <2>1. Turn({c}, {}) /\ UNCHANGED past
    BY <1>0, <1>8, IssueTurns DEF LinksArrive
  <2>2. screen' = IF c.st = "ok" /\ screen.selected = c.job
                  THEN [screen EXCEPT !.urls = c.job] ELSE screen
    BY <1>8 DEF LinksArrive
  <2>3. /\ screen'.job = screen.job /\ screen'.selected = screen.selected
        /\ screen'.state = screen.state /\ screen'.ended = screen.ended
        /\ screen'.watching = screen.watching
        /\ \/ screen'.urls = screen.urls
           \/ c.st = "ok" /\ screen'.urls = c.job /\ screen.selected = c.job
    BY <2>2 DEF TypeInv, TypeOK
  <2>4. Watched' /\ Followed'
    BY <1>0, <2>1, <2>3, TurnWatched DEF OnScreen, Followed
  <2>5. SeenStep
    BY <1>0, <1>8, <2>1, <2>3, TurnSeen
       DEF Sends, SeenStep, CancelSeen, LinksSeen, LinksInAnswers
  <2>6. QED
    BY <2>3, <2>4, <2>5 DEF OnScreen, SameJob
<1>9. CASE c.op = "update" /\ UpdateArrives(c)
  <2>1. CASE ~(c.st = "ok" /\ ~Repeats(c))
    BY <1>2, <1>9, <2>1 DEF UpdateArrives
  <2>2. CASE c.st = "ok" /\ ~Repeats(c)
    <3>1. /\ history' = [history EXCEPT ![c.job] = c.seen[c.job]]
          /\ over' = over \cup {j \in Jobs : history'[j] \in Final}
          /\ screen' = Updated(c)
      BY <1>9, <2>2 DEF UpdateArrives
    <3>2. PICK new \in {{}, Links(c.job, c.seen[c.job])} : Issue({c}, new)
      BY <1>9, <2>2 DEF UpdateArrives
    <3>3. Turn({c}, new) /\ Sends(new) /\ \A d \in new : d.op = "urls"
      BY <1>0, <3>2, IssueTurns, LinksSend DEF Sends
    <3>4. \/ screen' = screen
          \/ /\ screen.selected = c.job
             /\ screen'.selected = screen.selected /\ screen'.watching = screen.watching
             /\ screen'.job = c.job /\ screen'.state = c.seen[c.job]
             /\ screen'.ended => screen.ended \/ (~c.old /\ c.seen[c.job] \in Final)
             /\ screen'.urls \in {NoJob, screen.urls}
      BY <3>1 DEF Updated, TypeInv, TypeOK
    <3>5. Watched'
      BY <1>0, <3>3, <3>4, TurnWatched DEF OnScreen
    <3>6. SameJob'
      BY <1>9, <3>4 DEF OnScreen, SameJob, Watched
    <3>7. c.seen[c.job] \in Final => c.job \in over'
      BY <1>0, <1>9, <3>1 DEF TypeInv, TypedCalls
    <3>8. Followed'
      BY <1>9, <3>1, <3>4, <3>7, FollowsOn DEF OnScreen, Watched
    <3>9. ASSUME NEW j \in Jobs, CancelSeen(j)' PROVE CancelSeen(j)
      BY <1>0, <3>1, <3>3, <3>4, <3>9, TurnSeen DEF CancelSeen, CancelInAnswers
    <3>10. ASSUME NEW j \in Jobs, LinksSeen(j)' PROVE LinksSeen(j)
      BY <1>0, <3>3, <3>4, <3>10, TurnSeen, Numbers DEF LinksSeen
    <3>11. QED
      BY <3>5, <3>6, <3>8, <3>9, <3>10 DEF OnScreen, SeenStep
  <2>3. QED
    BY <2>1, <2>2
<1>10. CASE UploadContinues(c)
  <2>1. CASE c.st = "ok" /\ c.op # "create"
    BY <1>1, <1>10, <2>1 DEF UploadContinues, NextStage
  <2>2. CASE c.st = "ok" /\ c.op = "create"
    BY <1>0, <1>3, <1>10, <2>2 DEF UploadContinues
  <2>3. CASE c.st # "ok"
    BY <1>2, <1>10, <2>3 DEF UploadContinues
  <2>4. QED
    BY <2>1, <2>2, <2>3
<1>11. CASE c.op = "cancel" /\ CancelArrives(c)
  <2>1. c.st = "ok" => CancelSeen(c.job)
    BY <1>11 DEF CancelSeen, CancelInAnswers
  <2>2. QED
    BY <1>0, <1>2, <1>3, <1>11, <2>1 DEF CancelArrives, Final
<1>12. QED
  BY <1>4, <1>5, <1>6, <1>7, <1>8, <1>9, <1>10, <1>11 DEF Arrive

\* ScreenInv is inductive.
LEMMA ScreenStep ==
    ASSUME TypeInv, ScreenInv, [Next]_vars
    PROVE  ScreenInv'
<1> USE DEF ScreenInv
<1>1. ASSUME UNCHANGED <<past, screen, calls>> PROVE OnScreen' /\ SeenStep
  BY <1>1 DEF OnScreen, SameJob, Watched, Followed, SeenStep, CancelSeen, CancelInAnswers, LinksSeen,
              LinksInAnswers
<1>2. OnScreen' /\ SeenStep
  BY <1>1, ServedOrRefused, LostIsRefused, BecameSeen, UserScreen, ArriveScreen
     DEF Next, Settle, vars
<1>3. QED
  BY <1>2, RowStep, SeenFollows

\* Screen, history and answers in flight agree with the rows in every state.
THEOREM ScreenInvCorrect == Spec => []ScreenInv
<1>1. ASSUME Init PROVE ScreenInv
  <2>1. RowsInv /\ SameJob /\ Followed
    BY <1>1 DEF Init, RowsInv, SameJob, Followed, Cleared, NoJob, Nothing, Final
  <2>2. \A c \in calls : c.op = "start" /\ c.seen = Nothing
    BY <1>1 DEF Init, Ask
  <2>3. \A j \in Jobs : ~CancelSeen(j) /\ ~LinksSeen(j)
    BY <1>1, <2>2, Numbers
       DEF Init, Nothing, Cleared, CancelSeen, CancelInAnswers, LinksSeen, LinksInAnswers
  <2>4. QED
    BY <2>1, <2>2, <2>3 DEF ScreenInv, SeenInv, OnScreen, Watched
<1>2. QED
  BY <1>1, ScreenStep, TypeInvCorrect, PTL DEF Spec

\* Whatever answers arrive late, the panel, its links and its subscription
\* belong to one job, and links are shown only for a completed job; an active
\* job on the screen is followed by a subscription that has not ended, unless
\* the page was told before that the job is over (selectJob, handleJobUpdate,
\* deliverJobUpdate): with any number of jobs and calls in flight.
THEOREM ScreenStaysConsistent == Spec => []ScreenIsConsistent
<1>1. ASSUME TypeInv, ScreenInv PROVE ScreenIsConsistent
  <2>1. screen.urls \in Jobs \cup {NoJob}
    BY <1>1 DEF TypeInv, TypeOK
  <2>2. screen.urls # NoJob /\ screen.urls = screen.job => screen.state # "cancelled"
    BY <1>1, <2>1 DEF ScreenInv, SeenInv, CancelSeen, LinksSeen
  <2>3. QED
    BY <1>1, <2>2, Numbers DEF ScreenInv, OnScreen, SameJob, Followed, ScreenIsConsistent
<1>2. QED
  BY <1>1, TypeInvCorrect, ScreenInvCorrect, PTL

-----------------------------------------------------------------------------
(* Sessions and start-up.                                                   *)

\* The sessions there have been so far.
Past == 0..actions \cup {NoCookie}

\* The session that a sign-in will make is known to nobody yet.
FreshInv ==
    /\ cookie \in Past
    /\ \A c \in calls : c.n \in 0..actions /\ c.who \in Past
    /\ \A c \in calls : c.op = "login" /\ c.st = "sent" =>
            c.n # cookie /\ \A d \in calls : d.who # c.n

\* Before the first list has arrived the page shows nothing, and one call at
\* most is in flight.
StartInv ==
    /\ ready => ~Flying({"start"})
    /\ ~ready => /\ \A c \in calls : c.op \in {"start", "history"}
                 /\ Sole(Ops)
                 /\ Flying({"start"}) => user = Visitor
                 /\ history = Nothing /\ screen = Cleared /\ sessions = Visitor
                 /\ ~settings

\* A turn that may start a sign-in, or store the cookie of one.
LEMMA FreshTurn ==
    ASSUME TypeInv, FreshInv, NEW done, NEW new, Turn(done, new),
           actions' \in Nat, actions <= actions', cookie' \in Past',
           \A c \in new : /\ c.n \in 0..actions' /\ c.who = cookie'
                          /\ c.op = "login" => c.n \notin Past /\ cookie' = cookie,
           cookie' = cookie \/ \A c \in calls' : c.op = "login" => c.n # cookie'
    PROVE  FreshInv'
<1>0. calls \subseteq Calls /\ actions \in Nat
  BY DEF TypeInv, TypeOK, TypedCalls
<1>1. \A c \in calls : /\ Aged(c).op = c.op /\ Aged(c).n = c.n /\ Aged(c).who = c.who
  BY <1>0, AgedIsCall
<1>2. Past \subseteq Past' /\ 0..actions \subseteq 0..actions'
  BY <1>0 DEF Past
<1>3. \A d \in calls' : \/ d \in new
                        \/ d.op = "update" /\ d.n \in 0..actions /\ d.who \in Past
                        \/ d \in calls
  BY <1>1 DEF Turn, FreshInv
<1>4. \A d \in calls' : \/ d \in new
                        \/ \E c \in calls : d.who = c.who
  BY <1>1 DEF Turn
<1>5. \A c \in calls' : c.n \in 0..actions' /\ c.who \in Past'
  BY <1>2, <1>3 DEF FreshInv
<1>6. ASSUME NEW c \in calls', c.op = "login", c.st = "sent"
      PROVE  c.n # cookie' /\ \A d \in calls' : d.who # c.n
  <2>1. CASE c \in new
    BY <1>4, <1>6, <2>1 DEF FreshInv
  <2>2. CASE c \in calls
    BY <1>4, <1>6, <2>2 DEF FreshInv
  <2>3. QED
    BY <1>3, <1>6, <2>1, <2>2
<1>7. QED
  BY <1>5, <1>6 DEF FreshInv

\* A turn that does neither.
LEMMA FreshStays ==
    ASSUME TypeInv, FreshInv, NEW done, NEW new, Turn(done, new),
           \A c \in new : c.n \in 0..actions /\ c.who = cookie /\ c.op # "login",
           UNCHANGED <<actions, cookie>>
    PROVE  FreshInv'
<1>1. actions \in Nat
  BY DEF TypeInv, TypeOK
<1>2. cookie' \in Past'
  BY DEF FreshInv, Past
<1>3. QED
  BY <1>1, <1>2, FreshTurn

\* An answer brings no new session to the page until it arrives.
LEMMA FreshBecame ==
    ASSUME FreshInv, NEW c, NEW r, Became(c, r), r.st # "sent"
    PROVE  FreshInv'
<1>1. /\ calls' = (calls \ {c}) \cup {r} /\ c \in calls
      /\ r.n = c.n /\ r.who = c.who
      /\ UNCHANGED <<cookie, actions>>
  BY DEF Became, account
<1>2. QED
  BY <1>1 DEF FreshInv, Past

\* The user's actions number a sign-in anew.
LEMMA UserFresh ==
    ASSUME TypeInv, FreshInv,
           \/ \E a \in Accounts : Login(a)
           \/ Logout \/ OpenSettings \/ CloseSettings \/ SelectFile
           \/ StartProcessing \/ CancelJob \/ Subscription
           \/ \E op \in Management \ {"sessions"} : Manage(op)
           \/ \E j \in Jobs : SelectHistoryJob(j)
    PROVE  FreshInv'
<1>0. /\ disturbed \in BOOLEAN /\ calls \subseteq Calls
      /\ actions \in Nat /\ cookie \in Past /\ 0 \in 0..actions
  BY DEF TypeInv, TypeOK, TypedCalls, FreshInv
<1>1. Acts => /\ actions' = actions + 1 /\ actions + 1 \in 0..MaxActions
              /\ actions + 1 \notin Past /\ actions + 1 \in 0..(actions + 1)
  BY <1>0, ActionsCounted, Numbers DEF Past
<1>2. ASSUME NEW new, Turn({}, new), Acts, UNCHANGED cookie,
             \A c \in new : c.n = actions + 1 /\ c.who = cookie
      PROVE  FreshInv'
  <2>1. cookie' \in Past' /\ actions' \in Nat /\ actions <= actions'
    BY <1>0, <1>1, <1>2 DEF Past
  <2>2. QED
    BY <1>1, <1>2, <2>1, FreshTurn
<1>3. ASSUME NEW op, NEW j, NEW key, Acts, UNCHANGED account,
             Issue({}, {Ask(actions + 1, op, j, key, cookie)})
      PROVE  FreshInv'
  <2> DEFINE new == {Ask(actions + 1, op, j, key, cookie)}
  <2>1. Turn({}, new) /\ \A c \in new : c.n = actions + 1 /\ c.who = cookie
    BY <1>0, <1>3, IssueTurns DEF Ask
  <2> HIDE DEF new
  <2>2. QED
    BY <1>2, <1>3, <2>1 DEF account
<1>4. ASSUME NEW op, NEW key, Authenticate(op, key) PROVE FreshInv'
  BY <1>3, <1>4 DEF Authenticate
<1>5. CASE OpenSettings
  BY <1>3, <1>5 DEF OpenSettings
<1>6. CASE StartProcessing
  BY <1>3, <1>6 DEF StartProcessing
<1>7. CASE CancelJob
  BY <1>3, <1>7 DEF CancelJob
<1>8. ASSUME NEW op, Manage(op) PROVE FreshInv'
  BY <1>3, <1>8 DEF Manage
<1>9. CASE CloseSettings
  BY <1>9 DEF CloseSettings, account, FreshInv, Past
<1>10. CASE SelectFile
  <2>1. Turn({}, {}) /\ Acts /\ UNCHANGED cookie
    BY <1>0, <1>10, ShowTurns DEF SelectFile, account
  <2>2. QED
    BY <1>2, <2>1
<1>11. CASE Subscription
  <2> DEFINE new == {Ask(0, "update", screen.watching, Principal(cookie), cookie)}
  <2>1. /\ Turn({}, new) /\ UNCHANGED <<actions, cookie>>
        /\ \A c \in new : c.n = 0 /\ c.who = cookie /\ c.op # "login"
    BY <1>0, <1>11, IssueTurns DEF Subscription, account, Ask
  <2> HIDE DEF new
  <2>2. QED
    BY <1>0, <2>1, FreshStays
<1>12. ASSUME NEW j \in Jobs, SelectHistoryJob(j) PROVE FreshInv'
  <2> DEFINE new == Links(j, history[j])
  <2>1. Turn({}, new) /\ Acts /\ UNCHANGED cookie
    BY <1>0, <1>12, ShowTurns DEF SelectHistoryJob, SelectJob, account
  <2>2. \A c \in new : c.n = 0 /\ c.who = cookie /\ c.op = "urls"
    BY DEF Links, Ask
  <2>3. 0 \in 0..actions' /\ cookie' \in Past' /\ actions' \in Nat /\ actions <= actions'
    BY <1>0, <1>1, <2>1 DEF Past
  <2>4. QED
    BY <2>1, <2>2, <2>3, FreshTurn
<1>13. QED
  BY <1>4, <1>5, <1>6, <1>7, <1>8, <1>9, <1>10, <1>11, <1>12 DEF Login, Logout

\* The continuations store a cookie only when its sign-in is over.
LEMMA ArriveFresh ==
    ASSUME TypeInv, FlagInv, FreshInv, NEW c \in calls, Arrive(c)
    PROVE  FreshInv'
<1>0. /\ disturbed \in BOOLEAN /\ calls \subseteq Calls
      /\ actions \in Nat /\ cookie \in Past /\ 0 \in 0..actions
      /\ c.n \in 0..actions /\ UNCHANGED actions /\ c.n \in Nat
      /\ \A d \in calls : d.n # NoCookie
  BY Numbers DEF TypeInv, TypeOK, TypedCalls, Calls, FreshInv, Arrive
<1>1. ASSUME NEW new, Turn({c}, new), UNCHANGED cookie,
             \A d \in new : d.n \in {c.n, 0} /\ d.who = cookie /\ d.op # "login"
      PROVE  FreshInv'
  BY <1>0, <1>1, FreshStays
<1>2. ASSUME NEW op, op # "login", NEW key, UNCHANGED cookie,
             Issue({c}, {Ask(c.n, op, NoJob, key, cookie)})
      PROVE  FreshInv'
  <2> DEFINE new == {Ask(c.n, op, NoJob, key, cookie)}
  <2>1. Turn({c}, new) /\ \A d \in new : d.n = c.n /\ d.who = cookie /\ d.op = op
    BY <1>0, <1>2, IssueTurns DEF Ask
  <2> HIDE DEF new
  <2>2. QED
    BY <1>1, <1>2, <2>1
<1>3. ASSUME Issue({c}, {}), UNCHANGED cookie PROVE FreshInv'
  BY <1>0, <1>1, <1>3, IssueTurns
<1>4. ASSUME NEW j, NEW state, Show(Selected(j, state), {c}, {}), UNCHANGED cookie
      PROVE  FreshInv'
  BY <1>0, <1>1, <1>4, ShowTurns
<1>5. \A j, state : \A d \in Links(j, state) :
            d.n = 0 /\ d.who = cookie /\ d.op # "login"
  BY DEF Links, Ask
<1>6. ASSUME NEW state, SelectJob(c.job, state, {c}), UNCHANGED cookie
      PROVE  FreshInv'
  <2>1. Turn({c}, Links(c.job, state))
    BY <1>0, <1>6, ShowTurns DEF SelectJob
  <2>2. QED
    BY <1>1, <1>5, <1>6, <2>1
<1>7. CASE c.op \in Identity /\ IdentityChanged(c)
  <2>1. ASSUME NEW owner, NEW session \in {NoCookie, c.n},
               session = c.n => c.op = "login",
               ReloadJobs(c, owner, session)
        PROVE  FreshInv'
    <3> DEFINE new == {Ask(c.n, "history", NoJob, owner, session)}
    <3>1. /\ Turn({c}, new) /\ cookie' = session
          /\ \A d \in new : d.n = c.n /\ d.who = session /\ d.op = "history"
      BY <1>0, <2>1, ShowTurns DEF ReloadJobs, Ask
    <3> HIDE DEF new
    <3>2. \A d \in calls' : d.op = "login" => d \in calls /\ d # c
      <4>1. \A d \in calls : Aged(d).op = d.op
        BY <1>0, AgedIsCall
      <4>2. QED
        BY <3>1, <4>1 DEF Turn
    <3>3. \A d \in calls' : d.op = "login" => d.n # session
      <4>1. CASE session = NoCookie
        BY <1>0, <3>2, <4>1
      <4>2. CASE c.op = "login"
        BY <3>2, <4>2 DEF FlagInv, Sole, Authentication
      <4>3. QED
        BY <2>1, <4>1, <4>2
    <3>4. cookie' \in Past'
      BY <1>0, <2>1, <3>1 DEF Past
    <3>5. /\ actions' \in Nat /\ actions <= actions'
          /\ \A d \in new : /\ d.n \in 0..actions' /\ d.who = cookie'
                            /\ d.op = "login" => d.n \notin Past /\ cookie' = cookie
          /\ cookie' = cookie \/ \A d \in calls' : d.op = "login" => d.n # cookie'
      BY <1>0, <3>1, <3>3
    <3>6. QED
      BY <3>1, <3>4, <3>5, FreshTurn
  <2>2. CASE c.st = "ok"
    BY <1>0, <1>7, <2>1, <2>2 DEF IdentityChanged
  <2>3. CASE c.st # "ok"
    BY <1>3, <1>7, <2>3 DEF IdentityChanged, account
  <2>4. QED
    BY <2>2, <2>3
<1>8. CASE Managed(c)
  BY <1>2, <1>3, <1>8 DEF Managed
<1>9. CASE Started(c)
  BY <1>2, <1>3, <1>9 DEF Started
<1>10. CASE HistoryLoaded(c)
  BY <1>3, <1>4, <1>10 DEF HistoryLoaded, account
<1>11. CASE LinksArrive(c)
  BY <1>3, <1>11 DEF LinksArrive, account
<1>12. CASE UpdateArrives(c)
  <2>1. PICK new \in {{}, Links(c.job, c.seen[c.job])} : Issue({c}, new)
    BY <1>12 DEF UpdateArrives
  <2>2. Turn({c}, new) /\ \A d \in new : d.n = 0 /\ d.who = cookie /\ d.op # "login"
    BY <1>0, <1>5, <2>1, IssueTurns
  <2>3. QED
    BY <1>1, <1>12, <2>2 DEF UpdateArrives, account
<1>13. CASE UploadContinues(c)
  BY <1>2, <1>3, <1>6, <1>13 DEF UploadContinues, NextStage, account
<1>14. CASE CancelArrives(c)
  BY <1>3, <1>6, <1>14 DEF CancelArrives, account
<1>15. QED
  BY <1>7, <1>8, <1>9, <1>10, <1>11, <1>12, <1>13, <1>14 DEF Arrive

\* Once the page is ready, start-up is over for good.
LEMMA ReadyStays ==
    ASSUME TypeInv, StartInv, ready, ready', NEW done, NEW new, Turn(done, new),
           \A c \in new : c.op # "start"
    PROVE  StartInv'
<1>1. calls \subseteq Calls
  BY DEF TypeInv, TypedCalls
<1>2. Flying({"start"})' => Flying({"start"})
  <2>1. \A c \in calls : Aged(c).op = c.op
    BY <1>1, AgedIsCall
  <2>2. QED
    BY <2>1 DEF Turn, Flying
<1>3. QED
  BY <1>2 DEF StartInv

\* Nothing but the selection of a file is possible before the page is ready.
LEMMA UserStart ==
    ASSUME TypeInv, StartInv,
           \/ \E a \in Accounts : Login(a)
           \/ Logout \/ OpenSettings \/ CloseSettings \/ SelectFile
           \/ StartProcessing \/ CancelJob \/ Subscription
           \/ \E op \in Management \ {"sessions"} : Manage(op)
           \/ \E j \in Jobs : SelectHistoryJob(j)
    PROVE  StartInv'
<1>0. disturbed \in BOOLEAN /\ calls \subseteq Calls /\ ready \in BOOLEAN
  BY DEF TypeInv, TypeOK, TypedCalls
<1>1. ASSUME NEW n, NEW op, NEW j, NEW key, NEW who, op # "start",
             Issue({}, {Ask(n, op, j, key, who)}), UNCHANGED ready, ready
      PROVE  StartInv'
  <2> DEFINE new == {Ask(n, op, j, key, who)}
  <2>1. Turn({}, new) /\ \A d \in new : d.op = op
    BY <1>0, <1>1, IssueTurns DEF Ask
  <2> HIDE DEF new
  <2>2. QED
    BY <1>1, <2>1, ReadyStays
<1>2. ASSUME NEW op \in Authentication, NEW key, Authenticate(op, key) PROVE StartInv'
  BY <1>1, <1>2 DEF Authenticate, PanelEnabled, Authentication
<1>3. CASE OpenSettings
  BY <1>1, <1>3 DEF OpenSettings, PanelEnabled
<1>4. CASE StartProcessing
  BY <1>1, <1>4 DEF StartProcessing
<1>5. CASE CancelJob
  <2>1. ready
    BY <1>5 DEF CancelJob, StartInv, Cleared
  <2>2. QED
    BY <1>1, <1>5, <2>1 DEF CancelJob
<1>6. ASSUME NEW op \in Management, Manage(op) PROVE StartInv'
  <2>1. ready
    BY <1>6 DEF Manage, StartInv
  <2>2. QED
    BY <1>1, <1>6, <2>1 DEF Manage, Management
<1>7. CASE CloseSettings
  BY <1>7 DEF CloseSettings, StartInv, Flying, account
<1>8. CASE Subscription
  <2>1. ready
    BY <1>8 DEF Subscription, StartInv, Cleared
  <2>2. QED
    BY <1>1, <1>8, <2>1 DEF Subscription
<1>9. ASSUME NEW j \in Jobs, SelectHistoryJob(j) PROVE StartInv'
  <2> DEFINE new == Links(j, history[j])
  <2>1. ready /\ UNCHANGED ready
    BY <1>9 DEF SelectHistoryJob, StartInv, Nothing
  <2>2. Turn({}, new) /\ \A d \in new : d.op = "urls"
    BY <1>0, <1>9, ShowTurns, LinksSend DEF SelectHistoryJob, SelectJob
  <2>3. QED
    BY <2>1, <2>2, ReadyStays
<1>10. CASE SelectFile
  <2>1. /\ Turn({}, {}) /\ screen' = Cleared
        /\ UNCHANGED <<user, sessions, past, settings, ready>>
    BY <1>0, <1>10, ShowTurns DEF SelectFile, account
  <2>2. CASE ready
    BY <2>1, <2>2, ReadyStays
  <2>3. CASE ~ready
    <3>1. calls' \subseteq calls
      BY <2>1, <2>3 DEF Turn, StartInv
    <3>2. QED
      BY <2>1, <2>3, <3>1 DEF StartInv, Flying, Sole
  <2>4. QED
    BY <2>2, <2>3
<1>11. QED
  BY <1>2, <1>3, <1>4, <1>5, <1>6, <1>7, <1>8, <1>9, <1>10
     DEF Login, Logout, Authentication

\* The continuations before the page is ready are those of start-up.
LEMMA ArriveStart ==
    ASSUME TypeInv, StartInv, NEW c \in calls, Arrive(c)
    PROVE  StartInv'
<1>0. disturbed \in BOOLEAN /\ calls \subseteq Calls /\ ready \in BOOLEAN
      /\ c.op \in Ops /\ \A d \in calls : d.op \in Ops
  BY DEF TypeInv, TypeOK, TypedCalls, Calls
<1>1. ready => c.op # "start"
  BY DEF StartInv, Flying
<1>2. ~ready => /\ c.op \in {"start", "history"} /\ \A d \in calls : d = c
                /\ history = Nothing /\ screen = Cleared /\ sessions = Visitor
                /\ ~settings
  BY <1>0 DEF StartInv, Sole
<1>3. ASSUME NEW n, NEW op, NEW key, NEW who, op # "start",
             Issue({c}, {Ask(n, op, NoJob, key, who)})
      PROVE  /\ Turn({c}, {Ask(n, op, NoJob, key, who)})
             /\ \A d \in {Ask(n, op, NoJob, key, who)} : d.op = op
  BY <1>0, <1>3, IssueTurns DEF Ask
<1>4. ASSUME Issue({c}, {}) PROVE Turn({c}, {})
  BY <1>0, <1>4, IssueTurns
<1>5. CASE c.op = "start" /\ Started(c)
  <2>1. ~ready /\ UNCHANGED <<past, screen, sessions, settings, ready>>
    BY <1>1, <1>5 DEF Started
  <2>2. CASE c.st = "ok"
    <3> DEFINE ask == Ask(c.n, "history", NoJob, c.key, cookie)
    <3>1. calls' = {ask} /\ ask.op = "history"
      BY <1>2, <1>5, <2>1, <2>2 DEF Started, Issue, Ask
    <3> HIDE DEF ask
    <3>2. QED
      BY <1>2, <2>1, <3>1 DEF StartInv, Flying, Sole
  <2>3. CASE c.st # "ok"
    <3>1. calls' = {}
      BY <1>2, <1>5, <2>1, <2>3 DEF Started, Issue
    <3>2. QED
      BY <1>2, <2>1, <3>1 DEF StartInv, Flying, Sole
  <2>4. QED
    BY <2>2, <2>3
<1>6. CASE c.op = "history" /\ HistoryLoaded(c)
  <2>1. Turn({c}, {}) /\ ready' = TRUE
    BY <1>0, <1>4, <1>6, ShowTurns DEF HistoryLoaded
  <2>2. CASE ready
    BY <2>1, <2>2, ReadyStays
  <2>3. CASE ~ready
    <3>1. calls' = {}
      BY <1>2, <1>6, <2>1, <2>3 DEF Turn
    <3>2. QED
      BY <2>1, <3>1 DEF StartInv, Flying
  <2>4. QED
    BY <2>2, <2>3
<1> DEFINE others == c.op \notin {"start", "history"}
<1>7. ASSUME others, UNCHANGED ready, NEW new, Turn({c}, new),
             \A d \in new : d.op # "start"
      PROVE  StartInv'
  <2>1. ready
    BY <1>0, <1>2, <1>7
  <2>2. QED
    BY <1>7, <2>1, ReadyStays
<1>8. ASSUME others, UNCHANGED ready, NEW n, NEW op, NEW key, NEW who, op # "start",
             Issue({c}, {Ask(n, op, NoJob, key, who)})
      PROVE  StartInv'
  <2> DEFINE new == {Ask(n, op, NoJob, key, who)}
  <2>1. Turn({c}, new) /\ \A d \in new : d.op = op
    BY <1>3, <1>8
  <2> HIDE DEF new
  <2>2. QED
    BY <1>7, <1>8, <2>1
<1>9. ASSUME others, UNCHANGED ready, Issue({c}, {}) PROVE StartInv'
  BY <1>4, <1>7, <1>9
<1>10. ASSUME others, UNCHANGED ready, NEW j, NEW state, NEW new,
              new = Links(j, state), Turn({c}, new)
       PROVE  StartInv'
  BY <1>7, <1>10, LinksSend
<1>11. CASE others /\ IdentityChanged(c)
  <2>1. ASSUME NEW owner, NEW session, ReloadJobs(c, owner, session) PROVE StartInv'
    <3> DEFINE new == {Ask(c.n, "history", NoJob, owner, session)}
    <3>1. Turn({c}, new) /\ UNCHANGED ready /\ \A d \in new : d.op = "history"
      BY <1>0, <2>1, ShowTurns DEF ReloadJobs, Ask
    <3> HIDE DEF new
    <3>2. QED
      BY <1>7, <1>11, <3>1
  <2>2. QED
    BY <1>9, <1>11, <2>1 DEF IdentityChanged
<1>12. CASE others /\ Managed(c)
  BY <1>8, <1>9, <1>12 DEF Managed
<1>13. CASE others /\ LinksArrive(c)
  BY <1>9, <1>13 DEF LinksArrive
<1>14. CASE others /\ UpdateArrives(c)
  <2>1. PICK new \in {{}, Links(c.job, c.seen[c.job])} : Issue({c}, new)
    BY <1>14 DEF UpdateArrives
  <2>2. Turn({c}, new) /\ \A d \in new : d.op = "urls"
    BY <1>0, <2>1, IssueTurns, LinksSend
  <2>3. QED
    BY <1>7, <1>14, <2>2 DEF UpdateArrives
<1>15. ASSUME NEW state, SelectJob(c.job, state, {c}), others, UNCHANGED ready
       PROVE  StartInv'
  <2>1. Turn({c}, Links(c.job, state))
    BY <1>0, <1>15, ShowTurns DEF SelectJob
  <2>2. QED
    BY <1>10, <1>15, <2>1
<1>16. CASE others /\ UploadContinues(c)
  BY <1>8, <1>9, <1>15, <1>16 DEF UploadContinues, NextStage
<1>17. CASE others /\ CancelArrives(c)
  BY <1>9, <1>15, <1>17 DEF CancelArrives
<1>18. QED
  BY <1>5, <1>6, <1>11, <1>12, <1>13, <1>14, <1>16, <1>17
     DEF Arrive, Identity, Management, Uploading

\* FreshInv and StartInv are inductive.
LEMMA StartStep ==
    ASSUME TypeInv, FlagInv, FreshInv, StartInv, [Next]_vars
    PROVE  FreshInv' /\ StartInv'
<1>1. ASSUME NEW c, NEW r, Became(c, r), r.st # "sent" PROVE FreshInv' /\ StartInv'
  <2>1. \A ops : (Flying(ops)' <=> Flying(ops)) /\ (Sole(ops) => Sole(ops)')
    BY <1>1, BecameKeeps
  <2>2. \A d \in calls' : \E e \in calls : d.op = e.op
    BY <1>1 DEF Became
  <2>3. UNCHANGED <<user, sessions, past, screen, settings, ready>>
    BY <1>1 DEF Became, account
  <2>4. StartInv'
    BY <2>1, <2>2, <2>3 DEF StartInv
  <2>5. QED
    BY <1>1, <2>4, FreshBecame
<1>2. ASSUME UNCHANGED <<account, past, screen, settings, ready, calls, actions>>
      PROVE  FreshInv' /\ StartInv'
  BY <1>2 DEF FreshInv, Past, StartInv, Flying, Sole, account
<1>3. \A c, r : Refused(c, r) \/ Served(c, r) => r.st # "sent"
  BY DEF Refused, Served
<1>4. ASSUME NEW c \in calls, Handle(c) \/ Lose(c) PROVE FreshInv' /\ StartInv'
  BY <1>1, <1>3, <1>4, ServedOrRefused, LostIsRefused
<1>5. ASSUME NEW c \in calls, Arrive(c) PROVE FreshInv' /\ StartInv'
  BY <1>5, ArriveFresh, ArriveStart
<1>6. QED
  BY <1>2, <1>4, <1>5, UserFresh, UserStart DEF Next, Settle, vars

\* A sign-in's session is new, and start-up runs alone, in every state.
THEOREM StartInvCorrect == Spec => [](FreshInv /\ StartInv)
<1>1. ASSUME Init PROVE FreshInv /\ StartInv
  <2>1. \A c \in calls : c.n = 0 /\ c.who = cookie /\ c.op = "start"
    BY <1>1 DEF Init, Ask
  <2>2. cookie \in Past /\ 0 \in 0..actions
    BY <1>1, Numbers DEF Init, Past
  <2>3. QED
    BY <1>1, <2>1, <2>2 DEF Init, FreshInv, StartInv, Sole
<1>2. QED
  BY <1>1, StartStep, TypeInvCorrect, FlagInvCorrect, PTL DEF Spec

-----------------------------------------------------------------------------
(* Whose workspace the page shows.                                          *)

\* The page has yet to learn that its identity has changed.
Pending == \E c \in calls : c.op \in Identity /\ c.st = "ok"
Mine(j) == rows[j].owner = user

NoConflict == \A c, d \in calls : c # d => ~Conflict(c, d)

\* Calls that another identity must not overtake, or that start-up sends.
OfCookie == {"start", "history", "create", "update", "cancel", "sessions", "revoke"}

\* A deletion that will succeed is for the identity of the page, and so are
\* the other changes of identity in flight.
Agreed(c) ==
    /\ c.who = cookie /\ user # Visitor
    /\ \A d \in calls : d.op \in Identity => d.op # "login" /\ d.who = c.who

\* The session that call c was sent with.
Timely(c) ==
    /\ c.op \in OfCookie => c.who = cookie
    /\ c.op = "history" => c.key = user /\ c.st # "failed" /\ "loading" \in busy
    /\ c.op = "login" => user = Visitor
    /\ c.op = "login" /\ c.st = "ok" => valid[c.n] = c.key
    /\ c.op \in {"logout", "delete"} /\ c.st = "ok" => valid[c.who] = Visitor
    /\ c.op = "delete" /\ c.st = "sent" /\ valid[c.who] # Visitor => Agreed(c)
    /\ c.op \in Identity /\ settings /\ user # Visitor => c.who = cookie

\* What the answer to call c says is about the identity of the page.
OwnCall(c) ==
    /\ c.op \in {"start", "sessions", "revoke"} /\ c.st = "ok" => c.key = valid[cookie]
    /\ c.op = "update" => c.key = valid[cookie]
    /\ c.op = "history" /\ c.st = "ok" =>
            \A j \in Jobs : c.seen[j] # "absent" <=> Mine(j)
    /\ c.op \in {"create", "cancel", "update"} /\ c.st = "ok" /\ c.job \in Jobs =>
            Mine(c.job)
    /\ c.op = "update" /\ c.st = "ok" => c.seen[c.job] # "absent"

Created(j) == \E c \in calls : c.op = "create" /\ c.st = "ok" /\ c.job = j

Known == ready \/ Flying({"history"}) => user = valid[cookie]
OwnScreen == screen.selected # NoJob => Mine(screen.selected)
OwnSessions == sessions \in {Visitor, user}
OwnHistory ==
    ready /\ ~Flying({"history"}) =>
        \A j \in Jobs : /\ history[j] # "absent" => Mine(j)
                        /\ Mine(j) => history[j] # "absent" \/ Created(j)
OwnPage == OwnScreen /\ OwnSessions /\ OwnHistory

\* The settings stay open after a sign-out only until the reload is over.
Reloading == ready /\ user = Visitor /\ settings => Flying({"history"})

Calm ==
    /\ NoConflict /\ Reloading
    /\ \A c \in calls : Timely(c)
    /\ ~Pending => Known /\ OwnPage /\ \A c \in calls : OwnCall(c)

Inv == TypeInv /\ FlagInv /\ ScreenInv /\ FreshInv /\ StartInv /\ (~disturbed => Calm)

\* Before the page is ready none of its calls can be in flight.
LEMMA ReadyOrStart ==
    ASSUME StartInv, NEW c \in calls, c.op \notin {"start", "history"}
    PROVE  ready
BY DEF StartInv

\* Only a job's creation gives it an owner, unless the identity changes.
LEMMA OwnersChange ==
    ASSUME TypeInv, NEW c, NEW r, Became(c, r),
           (Served(c, r) /\ c.op \notin Identity) \/ UNCHANGED server
    PROVE  /\ UNCHANGED valid
           /\ \A j \in Jobs :
                \/ rows'[j].owner = rows[j].owner
                \/ /\ Served(c, r) /\ c.op = "create" /\ j = r.job
                   /\ rows'[j].owner = c.key /\ c.key = valid[c.who]
<1>0. rows \in [Jobs -> [owner : Owners \cup {Nobody}, state : States]]
  BY DEF TypeInv, TypeOK
<1>1. CASE UNCHANGED server
  BY <1>1 DEF server
<1>2. CASE Served(c, r) /\ c.op \notin Identity
  <2>1. UNCHANGED valid
    BY <1>2 DEF Served, Identity
  <2>2. CASE c.op = "create"
    <3>1. /\ rows' = [rows EXCEPT ![r.job] = [owner |-> c.key, state |-> "active"]]
          /\ c.key = valid[c.who]
      BY <1>2, <2>2 DEF Served
    <3>2. \A j \in Jobs : \/ rows'[j].owner = rows[j].owner
                          \/ j = r.job /\ rows'[j].owner = c.key
      BY <1>0, <3>1
    <3>3. QED
      BY <1>2, <2>1, <2>2, <3>1, <3>2
  <2>3. CASE c.op = "cancel"
    <3>1. rows' = [rows EXCEPT ![c.job].state = "cancelled"]
      BY <1>2, <2>3 DEF Served
    <3>2. QED
      BY <1>0, <2>1, <3>1
  <2>4. CASE c.op \notin {"create", "cancel"}
    <3>1. UNCHANGED rows
      BY <1>2, <2>4 DEF Served, Identity
    <3>2. QED
      BY <2>1, <3>1
  <2>5. QED
    BY <2>2, <2>3, <2>4
<1>3. QED
  BY <1>1, <1>2

\* The API answers call c, or it is lost without disturbing the page.
Replied(c, r) ==
    /\ Became(c, r)
    /\ \/ Served(c, r) /\ c.st = "sent"
       \/ /\ Refused(c, r) /\ UNCHANGED server /\ c.op # "history"
          /\ c.st = "sent" \/ c.op \notin Identity \cup {"create"}

\* The API's answers, and lost calls, keep calls with their session: a sign-in's
\* session is known to nobody else, and a deletion that succeeds meets no sign-in.
LEMMA TimelyReply ==
    ASSUME TypeInv, FlagInv, FreshInv, \A d \in calls : Timely(d),
           NEW c, NEW r, Replied(c, r)
    PROVE  \A d \in calls' : Timely(d)'
<1>0. /\ c \in calls /\ c.n = r.n /\ c.op = r.op /\ c.who = r.who
      /\ calls' = (calls \ {c}) \cup {r}
      /\ UNCHANGED <<cookie, user, settings, busy>>
  BY DEF Replied, Became, account
<1>1. /\ \A d \in calls : d.who \in Sessions /\ d.n \in Sessions /\ d.key \in Owners
      /\ valid \in [Sessions -> Owners]
  BY Numbers DEF TypeInv, TypeOK, TypedCalls, Calls, Owners
<1>2. \A d \in calls : Agreed(d) => /\ \A e \in calls' : e.n = d.n /\ e.op = d.op
                                            /\ e.who = d.who => Agreed(e)'
  BY <1>0 DEF Agreed
<1>3. CASE Refused(c, r) /\ UNCHANGED server
  <2>1. UNCHANGED valid /\ r.st = "failed" /\ c.op # "history"
    BY <1>3 DEF Replied, server, Refused, Served
  <2>2. ASSUME NEW d \in calls, d # c PROVE Timely(d)'
    BY <1>0, <1>2, <2>1, <2>2 DEF Timely
  <2>3. Timely(r)'
    BY <1>0, <2>1 DEF Timely
  <2>4. QED
    BY <1>0, <2>2, <2>3
<1>4. CASE Served(c, r) /\ c.st = "sent" /\ c.op \notin Identity
  <2>1. UNCHANGED valid /\ r.st = "ok" /\ (c.op = "history" => r.key = c.key)
    BY <1>4 DEF Served, Identity
  <2>2. ASSUME NEW d \in calls, d # c PROVE Timely(d)'
    BY <1>0, <1>2, <2>1, <2>2 DEF Timely
  <2>3. Timely(r)'
    BY <1>0, <1>4, <2>1 DEF Timely, Identity
  <2>4. QED
    BY <1>0, <2>2, <2>3
<1>5. CASE Served(c, r) /\ c.st = "sent" /\ c.op = "logout"
  <2>1. /\ valid' = [valid EXCEPT ![c.who] = Visitor] /\ r.st = "ok"
    BY <1>5 DEF Served
  <2>2. \A k \in Sessions : valid'[k] = IF k = c.who THEN Visitor ELSE valid[k]
    BY <1>0, <1>1, <2>1
  <2>3. ASSUME NEW d \in calls, d # c PROVE Timely(d)'
    <3>1. d.op # "login"
      BY <1>0, <1>5, <2>3 DEF FlagInv, Sole, Authentication
    <3>2. QED
      BY <1>0, <1>1, <1>2, <2>2, <2>3, <3>1 DEF Timely
  <2>4. Timely(r)'
    BY <1>0, <1>1, <1>5, <2>1, <2>2 DEF Timely, OfCookie
  <2>5. QED
    BY <1>0, <2>3, <2>4
<1>6. CASE Served(c, r) /\ c.st = "sent" /\ c.op = "login"
  <2>1. /\ valid' = [valid EXCEPT ![c.who] = Visitor, ![c.n] = c.key]
        /\ r.st = "ok" /\ r.key = c.key
    BY <1>6 DEF Served
  <2>2. \A k \in Sessions : valid'[k] = IF k = c.n THEN c.key
                                        ELSE IF k = c.who THEN Visitor ELSE valid[k]
    BY <1>0, <1>1, <2>1, TwoSessions, Numbers
  <2>3. ASSUME NEW d \in calls, d # c PROVE Timely(d)'
    <3>1. d.op \notin {"login", "logout"} /\ d.who # c.n
      BY <1>0, <1>6, <2>3 DEF FlagInv, Sole, Authentication, FreshInv
    <3>2. valid'[d.who] # Visitor => valid[d.who] # Visitor
      BY <1>1, <2>2, <3>1
    <3>3. ~Agreed(d)
      BY <1>0, <1>6 DEF Agreed, Identity
    <3>4. QED
      BY <1>0, <2>3, <3>1, <3>2, <3>3 DEF Timely
  <2>4. Timely(r)'
    BY <1>0, <1>1, <1>6, <2>1, <2>2 DEF Timely, OfCookie
  <2>5. QED
    BY <1>0, <2>3, <2>4
<1>7. CASE Served(c, r) /\ c.st = "sent" /\ c.op = "delete"
  <2>1. /\ valid' = [k \in Sessions |-> IF valid[k] = valid[c.who] THEN Visitor
                                                                   ELSE valid[k]]
        /\ r.st = "ok" /\ valid[c.who] # Visitor
    BY <1>7 DEF Served
  <2>2. Agreed(c)
    BY <1>0, <1>7, <2>1 DEF Timely
  <2>3. ASSUME NEW d \in calls, d # c PROVE Timely(d)'
    <3>1. d.op # "login"
      BY <2>2, <2>3 DEF Agreed, Identity
    <3>2. valid'[d.who] # Visitor => valid[d.who] # Visitor
      BY <1>1, <2>1
    <3>3. QED
      BY <1>0, <1>2, <2>3, <3>1, <3>2 DEF Timely
  <2>4. Timely(r)'
    BY <1>0, <1>1, <1>7, <2>1 DEF Timely, OfCookie
  <2>5. QED
    BY <1>0, <2>3, <2>4
<1>8. QED
  BY <1>3, <1>4, <1>5, <1>6, <1>7 DEF Replied, Identity

\* While no change of identity waits to arrive, an answer is about the identity of
\* the page, and the rows stay those that the page shows or is about to show.
LEMMA OwnReply ==
    ASSUME Inv, Calm, NEW c, NEW r, Replied(c, r), ~Pending'
    PROVE  /\ ~Pending /\ Known' /\ OwnPage'
           /\ \A d \in calls' : OwnCall(d)'
<1>0. /\ c \in calls /\ c.op = r.op /\ c.who = r.who /\ c \in Calls
      /\ calls' = (calls \ {c}) \cup {r}
      /\ UNCHANGED <<cookie, user, sessions, past, screen, ready>>
      /\ rows \in [Jobs -> [owner : Owners \cup {Nobody}, state : States]]
      /\ user # Nobody
  BY Numbers DEF Inv, TypeInv, TypeOK, TypedCalls, Replied, Became, account
<1>1. \A ops : Flying(ops)' <=> Flying(ops)
  BY BecameKeeps DEF Replied
<1>2. (Served(c, r) /\ c.op \notin Identity) \/ UNCHANGED server
  <2>1. r.st = "ok" => c.op \notin Identity
    BY <1>0 DEF Pending
  <2>2. Served(c, r) => r.st = "ok"
    BY DEF Served
  <2>3. QED
    BY <2>1, <2>2 DEF Replied
<1>3. ~Pending
  <2>1. ASSUME NEW d \in calls, d.op \in Identity, d.st = "ok" PROVE d \in calls'
    <3>1. d # c
      BY <2>1 DEF Replied
    <3>2. QED
      BY <1>0, <3>1
  <2>2. QED
    BY <2>1 DEF Pending
<1>4. Known /\ OwnPage /\ NoConflict /\ \A d \in calls : Timely(d) /\ OwnCall(d)
  BY <1>3 DEF Calm
<1>5. /\ UNCHANGED valid
      /\ \A j \in Jobs :
            \/ rows'[j].owner = rows[j].owner
            \/ /\ Served(c, r) /\ c.op = "create" /\ j = r.job
               /\ rows'[j].owner = c.key /\ c.key = valid[c.who]
  BY <1>2, OwnersChange DEF Inv, Replied
<1>6. c.op \in OfCookie => c.who = cookie
  BY <1>0, <1>4 DEF Timely
<1>7. c.op \in {"history", "create", "cancel", "update"} => user = valid[cookie]
  BY <1>0, <1>4, ReadyOrStart DEF Known, Flying, Inv
<1>8. \A j \in Jobs : /\ Mine(j) => Mine(j)'
                      /\ Mine(j)' => \/ Mine(j)
                                     \/ Served(c, r) /\ c.op = "create" /\ j = r.job
  BY <1>0, <1>5, <1>6, <1>7 DEF Mine, OfCookie
<1>9. Known'
  BY <1>0, <1>1, <1>4, <1>5 DEF Known
<1>10. \A j \in Jobs : Created(j) => Created(j)'
  <2>1. ASSUME NEW d \in calls, d.op = "create", d.st = "ok" PROVE d \in calls'
    <3>1. c.op # "create" \/ c.st # "ok"
      BY DEF Replied
    <3>2. QED
      BY <1>0, <2>1, <3>1
  <2>2. QED
    BY <2>1 DEF Created
<1>11. Served(c, r) /\ c.op = "create" => Created(r.job)'
  BY <1>0 DEF Created, Served
<1>12. OwnPage'
  <2>1. OwnScreen' /\ OwnSessions'
    BY <1>0, <1>4, <1>8 DEF OwnPage, OwnScreen, OwnSessions, Inv, TypeInv, TypeOK
  <2>2. OwnHistory'
    BY <1>0, <1>1, <1>4, <1>8, <1>10, <1>11 DEF OwnPage, OwnHistory
  <2>3. QED
    BY <2>1, <2>2 DEF OwnPage
<1>13. ASSUME NEW d \in calls, d # c PROVE OwnCall(d)'
  <2>1. d.op = "history" => c.op # "create"
    BY <1>0, <1>4, <1>13 DEF NoConflict, Conflict
  <2>2. d.op = "history" => \A j \in Jobs : Mine(j)' <=> Mine(j)
    BY <1>8, <2>1
  <2>3. QED
    BY <1>0, <1>4, <1>5, <1>8, <1>13, <2>2 DEF OwnCall
<1>14. OwnCall(r)'
  <2>1. CASE Refused(c, r) /\ UNCHANGED server
    BY <1>0, <1>4, <1>5, <2>1 DEF Refused, OwnCall
  <2>2. CASE Served(c, r)
    <3>1. r.op \in {"start", "sessions", "revoke"} => r.key = valid[cookie]
      BY <1>0, <1>6, <2>2 DEF Served, OfCookie
    <3>2. r.op = "update" => r.key = valid[cookie]
      BY <1>0, <1>4, <2>2 DEF Served, OwnCall
    <3>3. ASSUME r.op = "history", NEW j \in Jobs
          PROVE  r.seen[j] # "absent" <=> Mine(j)'
      <4>1. r.seen = View(user) /\ c.op # "create"
        BY <1>0, <1>6, <1>7, <2>2, <3>3 DEF Served, OfCookie
      <4>2. r.seen[j] # "absent" <=> Mine(j)
        BY <1>0, <4>1 DEF View, Mine, Inv, ScreenInv, RowsInv
      <4>3. QED
        BY <1>8, <4>1, <4>2
    <3>4. r.op = "create" => Mine(r.job)'
      BY <1>0, <1>5, <1>6, <1>7, <2>2 DEF Served, Mine, OfCookie, FreeIds
    <3>5. r.op = "cancel" /\ r.job \in Jobs => Mine(r.job)
      BY <1>0, <1>6, <1>7, <2>2 DEF Served, Mine, OfCookie
    <3>6. r.op = "update" => Mine(r.job)
      <4>1. c.op = "update" => c.key = valid[cookie]
        BY <1>0, <1>4 DEF OwnCall
      <4>2. QED
        BY <1>0, <1>6, <1>7, <2>2, <4>1 DEF Served, Mine, OfCookie
    <3>7. r.op = "update" => r.seen[r.job] # "absent"
      <4>1. c.op = "update" => c.job \in Jobs /\ r.job = c.job
                               /\ r.seen = [c.seen EXCEPT ![c.job] = rows[c.job].state]
        BY <1>0, <2>2 DEF Served, Inv, TypeInv, TypedCalls
      <4>2. c.op = "update" => rows[c.job].state # "absent"
        BY <1>0, <3>6, <4>1 DEF Mine, Inv, ScreenInv, RowsInv
      <4>3. QED
        BY <1>0, <4>1, <4>2 DEF Calls
    <3>8. QED
      BY <1>0, <1>5, <3>1, <3>2, <3>3, <3>4, <3>5, <3>6, <3>7, <1>8 DEF OwnCall
  <2>3. QED
    BY <2>1, <2>2 DEF Replied
<1>15. QED
  BY <1>0, <1>3, <1>9, <1>12, <1>13, <1>14

\* Calm withstands the API and the network.
LEMMA CalmReply ==
    ASSUME Inv, Calm, NEW c, NEW r, Replied(c, r)
    PROVE  Calm'
<1>1. \A ops : Flying(ops)' <=> Flying(ops)
  BY BecameKeeps DEF Replied
<1>2. NoConflict'
  <2>1. /\ c \in calls /\ c.op = r.op /\ calls' = (calls \ {c}) \cup {r}
    BY DEF Replied, Became
  <2>2. QED
    BY <2>1 DEF Calm, NoConflict, Conflict
<1>3. Reloading'
  BY <1>1 DEF Calm, Reloading, Replied, Became, account
<1>4. \A d \in calls' : Timely(d)'
  BY TimelyReply DEF Calm, Inv
<1>5. QED
  BY <1>2, <1>3, <1>4, OwnReply DEF Calm

\* After a step that overlaps no calls, those in flight still do not conflict.
LEMMA NoConflictTurn ==
    ASSUME calls \subseteq Calls, NoConflict, NEW done, NEW new, Turn(done, new),
           ~disturbed'
    PROVE  NoConflict'
<1>1. \A c \in calls : Aged(c).op = c.op
  BY AgedIsCall
<1>2. ASSUME NEW c \in calls', NEW d \in calls', c # d, c \notin new, d \notin new
      PROVE  ~Conflict(c, d)
  <2>1. PICK e \in calls : e = c \/ (e.op = "update" /\ c = Aged(e))
    BY <1>2 DEF Turn
  <2>2. PICK f \in calls : f = d \/ (f.op = "update" /\ d = Aged(f))
    BY <1>2 DEF Turn
  <2>3. e.op = c.op /\ f.op = d.op
    BY <1>1, <2>1, <2>2
  <2>4. e # f \/ c.op = "update"
    BY <1>2, <2>1, <2>2, <2>3
  <2>5. QED
    BY <2>3, <2>4 DEF NoConflict, Conflict, Identity
<1>3. \A c \in new, d \in calls' : c # d => ~Conflict(c, d) /\ ~Conflict(d, c)
  BY Zenon DEF Turn
<1>4. QED
  BY <1>2, <1>3 DEF NoConflict

\* What the calls that a step of the page sends owe to its identity.
Sincere(c) ==
    /\ c.st = "sent" /\ c.who = cookie /\ c.op \notin {"start", "history"}
    /\ c.op = "update" => c.key = valid[cookie]
    /\ c.op = "login" => user = Visitor
    /\ c.op = "delete" => settings /\ user # Visitor

\* A step of the page that leaves its identity alone.
SameIdentity(done, new) ==
    /\ Turn(done, new)
    /\ UNCHANGED <<server, cookie, user>>
    /\ \A c \in new : Sincere(c)
    /\ \A c \in done : c.op \in Identity => c.st # "ok"
    /\ settings' => settings \/ \A c \in calls' : c.op \notin Identity
    /\ ready' => ready \/ Flying({"history"})
    /\ Flying({"history"})' => "loading" \in busy'
    /\ Reloading'

\* Calm of the calls, after a step of the page that leaves its identity alone.
LEMMA CallsStayCalm ==
    ASSUME Inv, Calm, NEW done, NEW new, SameIdentity(done, new), ~disturbed'
    PROVE  /\ NoConflict' /\ Reloading'
           /\ \A c \in calls' : Timely(c)'
           /\ ~Pending' => ~Pending /\ Known' /\ \A c \in calls' : OwnCall(c)'
<1>0. /\ calls \subseteq Calls /\ Turn(done, new)
      /\ UNCHANGED <<rows, accounts, valid, cookie, user>>
  BY DEF Inv, TypeInv, TypedCalls, SameIdentity, server
<1>1. /\ NoConflict' /\ Reloading'
  BY <1>0, NoConflictTurn DEF Calm, SameIdentity
<1>2. \A c \in calls : /\ Aged(c).op = c.op /\ Aged(c).who = c.who /\ Aged(c).key = c.key
                       /\ Aged(c).st = c.st /\ Aged(c).job = c.job
                       /\ Aged(c).seen = c.seen /\ Aged(c).n = c.n
  BY <1>0, AgedIsCall
<1>3. \A d \in calls' : \/ d \in new
                        \/ d \in calls
                        \/ \E c \in calls : c.op = "update" /\ d = Aged(c)
  BY <1>0 DEF Turn
<1>4. \A c \in calls : Timely(c)
  BY DEF Calm
<1>5. \A d \in calls' : d.op \in Identity => d \in new \/ d \in calls
  BY <1>2, <1>3 DEF Identity
<1>6. ASSUME NEW c, Agreed(c) PROVE Agreed(c)'
  BY <1>0, <1>5, <1>6 DEF Agreed, SameIdentity, Sincere
<1>7. ASSUME NEW c \in calls, c \in calls' PROVE Timely(c)'
  <2>1. c.op = "history" => "loading" \in busy'
    BY <1>7 DEF Flying, SameIdentity
  <2>2. c.op \in Identity /\ settings' /\ user # Visitor => c.who = cookie
    BY <1>4, <1>7 DEF Timely, SameIdentity
  <2>3. QED
    BY <1>0, <1>4, <1>6, <2>1, <2>2 DEF Timely
<1>8. ASSUME NEW c \in calls, c.op = "update" PROVE Timely(Aged(c))'
  BY <1>0, <1>2, <1>4, <1>8 DEF Timely, Identity
<1>9. ASSUME NEW c \in new PROVE Timely(c)'
  <2>1. Sincere(c)
    BY DEF SameIdentity
  <2>2. ASSUME c.op = "delete" PROVE Agreed(c)'
    <3>1. c.who = cookie /\ user # Visitor /\ settings
      BY <2>1, <2>2 DEF Sincere
    <3>2. ASSUME NEW d \in calls', d.op \in Identity
          PROVE  d.op # "login" /\ d.who = cookie
      BY <1>4, <1>5, <3>1, <3>2 DEF SameIdentity, Sincere, Timely
    <3>3. QED
      BY <1>0, <3>1, <3>2 DEF Agreed
  <2>3. QED
    BY <1>0, <2>1, <2>2 DEF Timely, Sincere
<1>10. \A c \in calls' : Timely(c)'
  BY <1>3, <1>7, <1>8, <1>9
<1>11. ASSUME ~Pending' PROVE ~Pending
  <2>1. ASSUME NEW c \in calls, c.op \in Identity, c.st = "ok" PROVE c \in calls'
    <3>1. c \notin done
      BY <2>1 DEF SameIdentity
    <3>2. QED
      BY <1>0, <2>1, <3>1 DEF Turn, Identity
  <2>2. QED
    BY <1>11, <2>1 DEF Pending
<1>12. Flying({"history"})' => Flying({"history"})
  <2>1. \A c \in new : c.op # "history"
    BY DEF SameIdentity, Sincere
  <2>2. QED
    BY <1>2, <1>3, <2>1 DEF Flying
<1>13. ASSUME ~Pending PROVE Known' /\ \A c \in calls' : OwnCall(c)'
  <2>1. Known /\ \A c \in calls : OwnCall(c)
    BY <1>13 DEF Calm
  <2>2. Known'
    BY <1>0, <1>12, <2>1 DEF Known, SameIdentity
  <2>3. \A c \in calls : OwnCall(c)'
    BY <1>0, <2>1 DEF OwnCall, Mine
  <2>4. \A c \in calls : OwnCall(Aged(c))'
    BY <1>2, <2>3 DEF OwnCall
  <2>5. \A c \in new : OwnCall(c)'
    BY <1>0 DEF SameIdentity, Sincere, OwnCall
  <2>6. QED
    BY <1>3, <2>2, <2>3, <2>4, <2>5
<1>14. QED
  BY <1>1, <1>10, <1>11, <1>13

\* The page shows more of its own jobs, and none that is not.
SamePage(done, new) ==
    /\ ready' = ready /\ \A c \in done : c.op # "history"
    /\ screen'.selected # NoJob /\ screen'.selected # screen.selected =>
            Mine(screen'.selected)
    /\ sessions' \in {sessions, Visitor, user}
    /\ \A j \in Jobs :
        /\ history'[j] # "absent" => history[j] # "absent" \/ Mine(j)
        /\ history[j] # "absent" => history'[j] # "absent"
    /\ \A c \in done : c.op = "create" /\ c.st = "ok" /\ c.job \in Jobs =>
            history'[c.job] # "absent"

\* The page stays its identity's own when it shows no other jobs.
LEMMA PageStaysOwn ==
    ASSUME calls \subseteq Calls, OwnPage, NEW done, NEW new, Turn(done, new),
           \A c \in new : c.op # "history", SamePage(done, new),
           UNCHANGED <<server, user>>
    PROVE  OwnPage'
<1>1. /\ UNCHANGED <<rows, user>> /\ \A j : Mine(j)' <=> Mine(j)
  BY DEF server, Mine
<1>2. OwnScreen'
  BY <1>1 DEF OwnPage, OwnScreen, SamePage
<1>3. OwnSessions'
  BY <1>1 DEF OwnPage, OwnSessions, SamePage
<1>4. Flying({"history"}) => Flying({"history"})'
  BY DEF Flying, Turn, SamePage
<1>5. \A j \in Jobs : Created(j) => history'[j] # "absent" \/ Created(j)'
  BY DEF Created, Turn, SamePage
<1>6. OwnHistory'
  BY <1>1, <1>4, <1>5 DEF OwnPage, OwnHistory, SamePage
<1>7. QED
  BY <1>2, <1>3, <1>6 DEF OwnPage

\* The same of steps that neither start nor end a reload.
LEMMA CalmTurn ==
    ASSUME Inv, ~disturbed', NEW done, NEW new, Turn(done, new),
           UNCHANGED <<server, cookie, user, ready>>,
           \A c \in new : Sincere(c),
           \A c \in done : c.op # "history" /\ (c.op \in Identity => c.st # "ok"),
           settings' => \/ settings
                        \/ user # Visitor /\ \A c \in calls' : c.op \notin Identity,
           "loading" \in busy => "loading" \in busy',
           Calm /\ ~Pending => SamePage(done, new)
    PROVE  Calm'
<1>0. calls \subseteq Calls
  BY DEF Inv, TypeInv, TypedCalls
<1>1. Calm
  <2>1. ~disturbed
    BY Zenon DEF Turn
  <2>2. QED
    BY <2>1 DEF Inv
<1>2. \A c \in new : c.op # "history"
  BY DEF Sincere
<1>3. Flying({"history"})' <=> Flying({"history"})
  <2>1. \A c \in calls : Aged(c).op = c.op
    BY <1>0, AgedIsCall
  <2>2. QED
    BY <1>2, <2>1 DEF Turn, Flying
<1>4. Flying({"history"}) => "loading" \in busy
  BY <1>1 DEF Calm, Timely, Flying
<1>5. Reloading'
  BY <1>1, <1>3 DEF Calm, Reloading
<1>6. SameIdentity(done, new)
  BY <1>3, <1>4, <1>5 DEF SameIdentity
<1>7. ~Pending => OwnPage'
  BY <1>0, <1>1, <1>2, PageStaysOwn DEF Calm
<1>8. QED
  BY <1>1, <1>6, <1>7, CallsStayCalm DEF Calm

\* Requests are sent with the cookie of the moment.
LEMMA AskIsSincere ==
    ASSUME NEW n, NEW op, NEW j, NEW key, op \notin {"start", "history"},
           op = "update" => key = valid[cookie], op = "login" => user = Visitor,
           op = "delete" => settings /\ user # Visitor
    PROVE  \A c \in {Ask(n, op, j, key, cookie)} : Sincere(c)
BY DEF Ask, Sincere

\* So are requests for links.
LEMMA LinksAreSincere ==
    ASSUME NEW j, NEW state
    PROVE  \A c \in Links(j, state) : Sincere(c)
BY DEF Links, Ask, Sincere

\* A job that the page shows is put on the screen.
LEMMA SelectedIsOwn ==
    ASSUME TypeInv, NEW j \in Jobs \cup {NoJob},
           NEW state \in States \ {"absent"}, NEW done,
           SelectJob(j, state, done), UNCHANGED <<ready, sessions>>,
           j \in Jobs => Mine(j),
           \A c \in done : c.op # "history",
           \A c \in done : c.op = "create" => c.job = j
    PROVE  SamePage(done, Links(j, state))
<1>1. /\ history' = [history EXCEPT ![j] = state]
      /\ screen' = Selected(j, state)
  BY DEF SelectJob, Show
<1>2. screen'.selected = j
  BY <1>1 DEF Selected
<1>3. history \in [Jobs -> States] /\ NoJob \notin Jobs
  BY Numbers DEF TypeInv, TypeOK
<1>4. \A i \in Jobs : history'[i] = IF i = j THEN state ELSE history[i]
  BY <1>1, <1>3
<1>5. screen'.selected # NoJob /\ screen'.selected # screen.selected =>
            Mine(screen'.selected)
  BY <1>2
<1>6. QED
  BY <1>2, <1>4, <1>5 DEF SamePage

\* Calm withstands the user.
LEMMA UserCalm ==
    ASSUME Inv, ~disturbed',
           \/ \E a \in Accounts : Login(a)
           \/ Logout \/ OpenSettings \/ CloseSettings \/ SelectFile
           \/ StartProcessing \/ CancelJob \/ Subscription
           \/ \E op \in Management \ {"sessions"} : Manage(op)
           \/ \E j \in Jobs : SelectHistoryJob(j)
    PROVE  Calm'
<1>0. /\ disturbed \in BOOLEAN /\ calls \subseteq Calls
  BY DEF Inv, TypeInv, TypeOK, TypedCalls
<1>1. ASSUME NEW n, NEW op, NEW j, NEW key, op \notin {"start", "history"},
             op = "update" => key = valid[cookie], op = "login" => user = Visitor,
             op = "delete" => settings /\ user # Visitor,
             Issue({}, {Ask(n, op, j, key, cookie)}),
             UNCHANGED <<server, account, past, screen, settings, ready>>,
             "loading" \in busy => "loading" \in busy'
      PROVE  Calm'
  <2> DEFINE new == {Ask(n, op, j, key, cookie)}
  <2>1. Turn({}, new)
    BY <1>0, <1>1, IssueTurns
  <2>2. \A c \in new : Sincere(c)
    BY <1>1, AskIsSincere
  <2> HIDE DEF new
  <2>3. SamePage({}, new) /\ UNCHANGED <<cookie, user>>
    BY <1>1 DEF SamePage, account
  <2>4. QED
    BY <1>1, <2>1, <2>2, <2>3, CalmTurn
<1>2. ASSUME NEW name, name # "loading", Flag(name, TRUE)
      PROVE  "loading" \in busy => "loading" \in busy'
  BY <1>2 DEF Flag
<1>3. ASSUME NEW op \in Authentication, NEW key, op = "login" => user = Visitor,
             Authenticate(op, key)
      PROVE  Calm'
  <2>1. /\ Issue({}, {Ask(actions + 1, op, NoJob, key, cookie)})
        /\ UNCHANGED <<server, account, past, screen, settings, ready>>
        /\ Flag("authenticating", TRUE)
    BY <1>3 DEF Authenticate
  <2>2. QED
    BY <1>1, <1>2, <1>3, <2>1 DEF Authentication
<1>4. CASE StartProcessing
  <2> DEFINE op == "presign"
  <2>1. /\ Issue({}, {Ask(actions + 1, op, NoJob, Visitor, cookie)})
        /\ UNCHANGED <<server, account, past, screen, settings, ready>>
        /\ Flag("uploading", TRUE)
    BY <1>4 DEF StartProcessing
  <2>2. op \notin {"start", "history", "update", "login", "delete"}
    OBVIOUS
  <2> HIDE DEF op
  <2>3. QED
    BY <1>1, <1>2, <2>1, <2>2
<1>5. CASE CancelJob
  <2> DEFINE op == "cancel"
  <2>1. /\ Issue({}, {Ask(actions + 1, op, screen.job, Visitor, cookie)})
        /\ UNCHANGED <<server, account, past, screen, settings, ready>>
        /\ Flag("cancelling", TRUE)
    BY <1>5 DEF CancelJob
  <2>2. op \notin {"start", "history", "update", "login", "delete"}
    OBVIOUS
  <2> HIDE DEF op
  <2>3. QED
    BY <1>1, <1>2, <2>1, <2>2
<1>6. ASSUME NEW op \in Management, Manage(op) PROVE Calm'
  <2>1. /\ Issue({}, {Ask(actions + 1, op, NoJob, Visitor, cookie)})
        /\ UNCHANGED <<server, account, past, screen, settings, ready>>
        /\ Flag("managing", TRUE) /\ user # Visitor /\ settings
    BY <1>6 DEF Manage
  <2>2. QED
    BY <1>1, <1>2, <1>6, <2>1 DEF Management
<1>7. CASE Subscription
  BY <1>1, <1>7 DEF Subscription, Principal
<1>8. CASE OpenSettings
  <2> DEFINE new == {Ask(actions + 1, "sessions", NoJob, Visitor, cookie)}
  <2>1. Turn({}, new) /\ \A c \in new : c.op = "sessions"
    BY <1>0, <1>8, IssueTurns DEF OpenSettings, Ask
  <2>2. \A c \in new : Sincere(c)
    BY AskIsSincere
  <2>3. new # {}
    OBVIOUS
  <2> HIDE DEF new
  <2>4. SamePage({}, new) /\ UNCHANGED <<server, cookie, user, ready>> /\ user # Visitor
    BY <1>8 DEF OpenSettings, SamePage, account
  <2>5. \A c \in new, d \in calls' : c # d => ~Conflict(d, c)
    BY <2>1, Zenon DEF Turn
  <2>6. \A d \in calls' : d.op \notin Identity
    BY <2>1, <2>3, <2>5 DEF Conflict, Identity
  <2>7. "loading" \in busy => "loading" \in busy'
    BY <1>2, <1>8 DEF OpenSettings
  <2>8. QED
    BY <2>1, <2>2, <2>4, <2>6, <2>7, CalmTurn
<1>9. CASE CloseSettings
  <2>1. Turn({}, {})
    <3>1. calls' = calls /\ disturbed' = disturbed
      BY <1>9 DEF CloseSettings
    <3>2. QED
      BY <1>0, <3>1 DEF Turn
  <2>2. /\ SamePage({}, {}) /\ UNCHANGED <<server, cookie, user, ready, busy>>
        /\ ~settings'
    BY <1>9 DEF CloseSettings, SamePage, account
  <2>3. QED
    BY <2>1, <2>2, CalmTurn
<1>10. CASE SelectFile
  <2>1. Turn({}, {}) /\ screen' = Cleared
    BY <1>0, <1>10, ShowTurns DEF SelectFile
  <2>2. SamePage({}, {}) /\ UNCHANGED <<server, cookie, user, ready, busy, settings>>
    BY <1>10, <2>1 DEF SelectFile, SamePage, account, Cleared
  <2>3. QED
    BY <2>1, <2>2, CalmTurn
<1>11. ASSUME NEW j \in Jobs, SelectHistoryJob(j) PROVE Calm'
  <2> DEFINE new == Links(j, history[j])
  <2>1. Turn({}, new)
    BY <1>0, <1>11, ShowTurns DEF SelectHistoryJob, SelectJob
  <2>2. UNCHANGED <<server, cookie, user, sessions, ready, busy, settings>>
    BY <1>11 DEF SelectHistoryJob, account
  <2>3. history[j] \in States \ {"absent"} /\ ready
    BY <1>11 DEF SelectHistoryJob, Inv, TypeInv, TypeOK, StartInv, Nothing
  <2>4. ASSUME Calm, ~Pending PROVE SamePage({}, new)
    <3>1. ~Flying({"history"})
      BY <1>11, <2>4 DEF Calm, Timely, Flying, SelectHistoryJob
    <3>2. Mine(j)
      BY <2>3, <2>4, <3>1 DEF Calm, OwnPage, OwnHistory
    <3>3. SelectJob(j, history[j], {})
      BY <1>11 DEF SelectHistoryJob
    <3>4. QED
      BY <2>2, <2>3, <3>2, <3>3, SelectedIsOwn DEF Inv
  <2>5. \A c \in new : Sincere(c)
    BY LinksAreSincere
  <2> HIDE DEF new
  <2>6. QED
    BY <2>1, <2>2, <2>4, <2>5, CalmTurn
<1>12. QED
  BY <1>3, <1>4, <1>5, <1>6, <1>7, <1>8, <1>9, <1>10, <1>11
     DEF Login, Logout, Authentication

\* The identity of the page changes and its history is loaded anew.
LEMMA ReloadCalm ==
    ASSUME Inv, Calm, ~disturbed', NEW c \in calls, c.op \in Identity, c.st = "ok",
           NEW owner, NEW session, ReloadJobs(c, owner, session), UNCHANGED server,
           \/ c.op = "login" /\ owner = c.key /\ session = c.n
           \/ c.op # "login" /\ owner = Visitor /\ session = NoCookie
    PROVE  Calm'
<1> DEFINE ask == Ask(c.n, "history", NoJob, owner, session)
<1>0. /\ calls \subseteq Calls /\ disturbed \in BOOLEAN
      /\ UNCHANGED <<rows, accounts, valid, ready, settings>>
      /\ cookie' = session /\ user' = owner /\ sessions' = Visitor
      /\ "loading" \in busy'
      /\ Show(Cleared, {c}, {ask})
  BY DEF Inv, TypeInv, TypeOK, TypedCalls, server, ReloadJobs
<1>1. Turn({c}, {ask}) /\ screen' = Cleared
  BY <1>0, ShowTurns
<1>2. /\ ask.op = "history" /\ ask.key = owner /\ ask.who = session /\ ask.st = "sent"
  BY DEF Ask
<1> HIDE DEF ask
<1>3. /\ ask \in calls'
      /\ \A d \in calls' : d # ask => ~Conflict(ask, d)
      /\ \A d \in calls' : \/ d = ask
                           \/ d \in calls /\ d # c
                           \/ \E e \in calls : e.op = "update" /\ d = Aged(e)
      /\ \A d \in calls : d.op # "update" /\ d # c => d \in calls'
  BY <1>1, Zenon DEF Turn
<1>4. \A d \in calls : Aged(d).op = d.op
  BY <1>0, AgedIsCall
<1>5. NoConflict /\ Reloading /\ \A d \in calls : Timely(d)
  BY DEF Calm
<1>6. Flying({"history"})' /\ ready
  BY <1>2, <1>3, ReadyOrStart DEF Flying, Identity, Inv
<1>7. \A d \in calls' : d # ask => d \in calls /\ d # c /\ d.op \notin OfCookie
  <2>1. \A d \in calls : d.op \notin {"update", "cancel", "sessions", "revoke"}
    BY <1>5 DEF NoConflict, Conflict, Identity
  <2>2. \A d \in calls : d.op # "start"
    BY <1>6 DEF Inv, StartInv, Flying
  <2>3. \A d \in calls' : d # ask => d.op \notin {"history", "create"}
    BY <1>2, <1>3 DEF Conflict
  <2>4. QED
    BY <1>3, <2>1, <2>2, <2>3 DEF OfCookie
<1>8. ASSUME NEW d \in calls', d # ask PROVE Timely(d)'
  <2>1. d \in calls /\ d # c /\ d.op \notin OfCookie /\ Timely(d)
    BY <1>5, <1>7, <1>8
  <2>2. d.op = "login" => c.op = "delete"
    BY <2>1 DEF Inv, FlagInv, Sole, Authentication, Identity
  <2>3. ~(d.op = "delete" /\ d.st = "sent" /\ valid[d.who] # Visitor)
    <3>1. Agreed(d) => c.op # "login" /\ c.who = d.who
      BY DEF Agreed
    <3>2. c.op # "login" => valid[c.who] = Visitor
      BY <1>5 DEF Timely, Identity
    <3>3. QED
      BY <2>1, <3>1, <3>2 DEF Timely
  <2>4. ~(settings /\ owner # Visitor)
    <3>1. ASSUME settings, owner # Visitor PROVE FALSE
      <4>1. c.op = "login" /\ user = Visitor
        BY <1>5, <3>1 DEF Timely
      <4>2. PICK e \in calls : e.op = "history"
        BY <1>5, <1>6, <3>1, <4>1 DEF Reloading, Flying
      <4>3. e.key = Visitor /\ e # ask /\ e \in calls'
        BY <1>2, <1>3, <1>5, <3>1, <4>1, <4>2 DEF Timely
      <4>4. QED
        BY <1>7, <4>2, <4>3 DEF OfCookie
    <3>2. QED
      BY <3>1
  <2>5. QED
    BY <1>0, <2>1, <2>2, <2>3, <2>4 DEF Timely, OfCookie
<1>9. Timely(ask)'
  BY <1>0, <1>2 DEF Timely, Identity
<1>10. NoConflict'
  BY <1>0, <1>1, <1>5, NoConflictTurn
<1>11. Reloading'
  BY <1>6 DEF Reloading
<1>12. Known'
  <2>1. valid[NoCookie] = Visitor
    BY DEF Inv, TypeInv, TypeOK
  <2>2. c.op = "login" => valid[c.n] = c.key
    BY <1>5 DEF Timely
  <2>3. QED
    BY <1>0, <2>1, <2>2 DEF Known
<1>13. OwnPage'
  BY <1>0, <1>1, <1>6 DEF OwnPage, OwnScreen, OwnSessions, OwnHistory, Cleared
<1>14. \A d \in calls' : OwnCall(d)'
  BY <1>2, <1>7 DEF OwnCall, OfCookie
<1>15. QED
  BY <1>8, <1>9, <1>10, <1>11, <1>12, <1>13, <1>14 DEF Calm

\* The answer to start-up is the identity of the page from then on.
LEMMA StartedCalm ==
    ASSUME Inv, Calm, NEW c \in calls, c.op = "start", c.st \in {"ok", "failed"},
           Started(c), UNCHANGED server
    PROVE  Calm'
<1>0. /\ ~ready /\ \A d \in calls : d = c
      /\ user = Visitor /\ screen = Cleared /\ sessions = Visitor /\ ~settings
      /\ UNCHANGED <<rows, valid, cookie, sessions, past, screen, settings, ready>>
  <2>1. ~ready /\ \A d \in calls : d.op \in Ops
    BY DEF Inv, TypeInv, TypedCalls, Calls, StartInv, Flying
  <2>2. QED
    BY <2>1 DEF Inv, StartInv, Sole, Flying, Started, server
<1>1. Reloading' /\ OwnScreen' /\ OwnSessions' /\ OwnHistory'
  BY <1>0 DEF Reloading, OwnScreen, OwnSessions, OwnHistory, Cleared
<1>2. CASE c.st = "failed"
  <2>1. calls' = {}
    BY <1>0, <1>2 DEF Started, Issue
  <2>2. Known'
    BY <1>0, <2>1 DEF Known, Flying
  <2>3. QED
    BY <1>1, <2>1, <2>2 DEF Calm, NoConflict, OwnPage
<1>3. CASE c.st = "ok"
  <2> DEFINE ask == Ask(c.n, "history", NoJob, c.key, cookie)
  <2>1. calls' = {ask} /\ user' = c.key /\ "loading" \in busy'
    BY <1>0, <1>3 DEF Started, Issue, Flag
  <2>2. /\ ask.op = "history" /\ ask.key = c.key /\ ask.who = cookie /\ ask.st = "sent"
    BY DEF Ask
  <2> HIDE DEF ask
  <2>3. ~Pending
    BY <1>0 DEF Pending, Identity
  <2>4. c.key = valid[cookie]
    BY <1>3, <2>3 DEF Calm, OwnCall
  <2>5. Known'
    <3>1. valid'[cookie'] = valid[cookie]
      BY <1>0
    <3>2. QED
      BY <2>1, <2>4, <3>1 DEF Known
  <2>6. NoConflict' /\ \A d \in calls' : OwnCall(d)'
    BY <2>1, <2>2 DEF NoConflict, OwnCall
  <2>7. \A d \in calls' : Timely(d)'
    BY <1>0, <2>1, <2>2 DEF Timely, Identity
  <2>8. QED
    BY <1>1, <2>1, <2>5, <2>6, <2>7 DEF Calm, OwnPage
<1>4. QED
  BY <1>2, <1>3

\* The list of the identity's jobs has arrived.
LEMMA LoadedCalm ==
    ASSUME Inv, Calm, ~disturbed', NEW c \in calls, c.op = "history",
           c.st \in {"ok", "failed"}, HistoryLoaded(c), UNCHANGED server
    PROVE  Calm'
<1>0. /\ disturbed \in BOOLEAN /\ calls \subseteq Calls
      /\ c.seen \in [Jobs -> States] /\ settings \in BOOLEAN
      /\ UNCHANGED <<rows, accounts, valid, cookie, user, sessions>>
      /\ ready' = TRUE /\ (settings' <=> settings /\ c.key # Visitor)
  BY DEF Inv, TypeInv, TypeOK, TypedCalls, Calls, HistoryLoaded, server, account
<1>1. NoConflict /\ Timely(c) /\ Flying({"history"})
  BY DEF Calm, Flying
<1>2. c.key = user /\ c.st = "ok"
  BY <1>1 DEF Timely
<1>3. Turn({c}, {})
  BY <1>0, IssueTurns, ShowTurns DEF HistoryLoaded
<1>4. ~Flying({"history"})'
  <2>1. \A d \in calls : d.op = "history" => d = c
    BY <1>1 DEF NoConflict, Conflict
  <2>2. \A d \in calls : Aged(d).op = d.op
    BY <1>0, AgedIsCall
  <2>3. QED
    BY <1>3, <2>1, <2>2 DEF Turn, Flying
<1>5. Reloading'
  BY <1>0, <1>2 DEF Reloading
<1>6. SameIdentity({c}, {})
  BY <1>0, <1>1, <1>3, <1>4, <1>5 DEF SameIdentity, Identity, server
<1>7. ASSUME ~Pending PROVE OwnPage'
  <2>1. \A j \in Jobs : c.seen[j] # "absent" <=> Mine(j)
    BY <1>2, <1>7 DEF Calm, OwnCall
  <2>2. OwnPage /\ history' = c.seen
    BY <1>2, <1>7 DEF Calm, HistoryLoaded
  <2>3. screen'.selected # NoJob => Mine(screen'.selected)
    <3>1. CASE Newest(c.seen) # NoJob
      <4>1. screen' = Selected(Newest(c.seen), "active")
        BY <1>2, <3>1 DEF HistoryLoaded, Show
      <4>2. screen'.selected = Newest(c.seen)
        BY <4>1 DEF Selected
      <4>3. QED
        BY <2>1, <3>1, <4>2, NewestIsActive
    <3>2. CASE Newest(c.seen) = NoJob
      <4>1. UNCHANGED screen
        BY <3>2 DEF HistoryLoaded
      <4>2. QED
        BY <2>2, <4>1 DEF OwnPage, OwnScreen
    <3>3. QED
      BY <3>1, <3>2
  <2>4. QED
    BY <1>0, <2>1, <2>2, <2>3 DEF OwnPage, OwnScreen, OwnSessions, OwnHistory, Mine
<1>8. QED
  BY <1>6, <1>7, CallsStayCalm DEF Calm

\* Calm withstands the continuations of the calls, in any order.
LEMMA ArriveCalm ==
    ASSUME Inv, Calm, ~disturbed', NEW c \in calls, Arrive(c)
    PROVE  Calm'
<1>0. /\ disturbed \in BOOLEAN /\ calls \subseteq Calls /\ c \in TypedCalls
      /\ c.job \in Jobs \cup {NoJob} /\ c.st \in {"ok", "failed"} /\ UNCHANGED server
      /\ history \in [Jobs -> States] /\ NoJob \notin Jobs
      /\ c.seen \in [Jobs -> States]
  BY Numbers DEF Inv, TypeInv, TypeOK, TypedCalls, Calls, Arrive
<1>1. ASSUME ~Pending, c.op \notin {"start", "history"}
      PROVE  OwnCall(c) /\ user = valid[cookie]
  BY <1>1, ReadyOrStart DEF Calm, Known, Inv
<1>2. ASSUME NEW new, Turn({c}, new), UNCHANGED <<cookie, user, settings, ready>>,
             \A d \in new : Sincere(d),
             c.op # "history", c.op \in Identity => c.st # "ok",
             "loading" \in busy => "loading" \in busy',
             ~Pending => SamePage({c}, new)
      PROVE  Calm'
  BY <1>0, <1>2, CalmTurn
<1>3. ASSUME Issue({c}, {}), UNCHANGED <<cookie, user, past, settings, ready>>,
             c.op # "history", c.op \in Identity \cup {"create"} => c.st # "ok",
             screen'.selected = screen.selected,
             "loading" \in busy => "loading" \in busy',
             ~Pending => sessions' \in {sessions, user}
      PROVE  Calm'
  <2>1. Turn({c}, {})
    BY <1>0, <1>3, IssueTurns
  <2>2. ~Pending => SamePage({c}, {})
    BY <1>3 DEF SamePage
  <2>3. QED
    BY <1>2, <1>3, <2>1, <2>2
<1>4. ASSUME NEW op, op \in {"sessions", "put", "create"}, NEW key,
             Issue({c}, {Ask(c.n, op, NoJob, key, cookie)}),
             c.op \in {"password", "presign", "put"},
             UNCHANGED <<account, past, screen, settings, ready, busy>>
      PROVE  Calm'
  <2> DEFINE new == {Ask(c.n, op, NoJob, key, cookie)}
  <2>1. Turn({c}, new)
    BY <1>0, <1>4, IssueTurns
  <2>2. \A d \in new : Sincere(d)
    BY <1>4, AskIsSincere
  <2> HIDE DEF new
  <2>3. SamePage({c}, new) /\ UNCHANGED <<cookie, user, settings, ready>>
    BY <1>4 DEF SamePage, account
  <2>4. QED
    BY <1>2, <1>4, <2>1, <2>2, <2>3 DEF Identity
<1>5. ASSUME NEW state \in {"active", "cancelled"}, c.op \in {"create", "cancel"},
             c.st = "ok", SelectJob(c.job, state, {c}),
             UNCHANGED <<account, settings, ready>>,
             "loading" \in busy => "loading" \in busy'
      PROVE  Calm'
  <2> DEFINE new == Links(c.job, state)
  <2>1. Turn({c}, new)
    BY <1>0, <1>5, ShowTurns DEF SelectJob
  <2>2. UNCHANGED <<cookie, user, sessions, ready, settings>>
    BY <1>5 DEF account
  <2>3. state \in States \ {"absent"}
    BY <1>5 DEF States
  <2>4. ASSUME ~Pending PROVE SamePage({c}, new)
    <3>1. c.job \in Jobs => Mine(c.job)
      BY <1>1, <1>5, <2>4 DEF OwnCall
    <3>2. QED
      BY <1>0, <1>5, <2>2, <2>3, <3>1, SelectedIsOwn DEF Inv
  <2>5. \A d \in new : Sincere(d)
    BY LinksAreSincere
  <2> HIDE DEF new
  <2>6. QED
    BY <1>2, <1>5, <2>1, <2>2, <2>4, <2>5 DEF Identity
<1>6. ASSUME NEW name, name # "loading", Flag(name, FALSE)
      PROVE  "loading" \in busy => "loading" \in busy'
  BY <1>6 DEF Flag
<1>7. CASE c.op \in Identity /\ IdentityChanged(c)
  <2>1. CASE c.st = "ok"
    <3>1. PICK owner, session :
             /\ ReloadJobs(c, owner, session)
             /\ \/ c.op = "login" /\ owner = c.key /\ session = c.n
                \/ c.op # "login" /\ owner = Visitor /\ session = NoCookie
      BY <1>7, <2>1 DEF IdentityChanged
    <3>2. QED
      BY <1>0, <1>7, <2>1, <3>1, ReloadCalm
  <2>2. CASE c.st # "ok"
    <3>1. /\ Issue({c}, {}) /\ Flag(Flags(c.op), FALSE)
          /\ UNCHANGED <<account, past, screen, settings, ready>>
      BY <1>7, <2>2 DEF IdentityChanged
    <3>2. Flags(c.op) # "loading"
      BY DEF Flags
    <3>3. UNCHANGED <<cookie, user, sessions>>
      BY <3>1 DEF account
    <3>4. QED
      BY <1>3, <1>6, <1>7, <2>2, <3>1, <3>2, <3>3 DEF Identity
  <2>3. QED
    BY <2>1, <2>2
<1>8. CASE c.op \in Management \ {"delete"} /\ Managed(c)
  <2>1. CASE c.op = "password" /\ c.st = "ok"
    <3> DEFINE op == "sessions"
    <3>1. Issue({c}, {Ask(c.n, op, NoJob, Visitor, cookie)}) /\ op \in {"sessions"}
      BY <1>8, <2>1 DEF Managed
    <3>2. UNCHANGED <<account, past, screen, settings, ready, busy>>
      BY <1>8, <2>1 DEF Managed, account
    <3> HIDE DEF op
    <3>3. QED
      BY <1>4, <2>1, <3>1, <3>2
  <2>2. CASE ~(c.op = "password" /\ c.st = "ok")
    <3>1. /\ Issue({c}, {}) /\ Flag("managing", FALSE)
          /\ sessions' = IF c.st = "ok" THEN c.key ELSE sessions
          /\ UNCHANGED <<cookie, user, past, screen, settings, ready>>
      BY <1>8, <2>2 DEF Managed
    <3>2. ~Pending => sessions' \in {sessions, user}
      BY <1>1, <1>8, <2>2, <3>1 DEF OwnCall, Management
    <3>3. c.op \notin {"history", "create"} \cup Identity
      BY <1>8 DEF Management, Identity
    <3>4. QED
      BY <1>3, <1>6, <3>1, <3>2, <3>3
  <2>3. QED
    BY <2>1, <2>2
<1>9. CASE c.op = "start" /\ Started(c)
  BY <1>0, <1>9, StartedCalm
<1>10. CASE c.op = "history" /\ HistoryLoaded(c)
  BY <1>0, <1>10, LoadedCalm
<1>11. CASE c.op = "urls" /\ LinksArrive(c)
  <2>1. /\ Issue({c}, {}) /\ UNCHANGED <<account, past, settings, ready, busy>>
        /\ screen'.selected = screen.selected
    BY <1>11 DEF LinksArrive, Inv, TypeInv, TypeOK
  <2>2. UNCHANGED <<cookie, user, sessions>>
    BY <2>1 DEF account
  <2>3. QED
    BY <1>3, <1>11, <2>1, <2>2 DEF Identity
<1>12. CASE c.op = "update" /\ UpdateArrives(c)
  <2>1. UNCHANGED <<cookie, user, sessions, settings, ready, busy>>
    BY <1>12 DEF UpdateArrives, account
  <2>2. CASE ~(c.st = "ok" /\ ~Repeats(c))
    BY <1>3, <1>12, <2>1, <2>2 DEF UpdateArrives, Identity
  <2>3. CASE c.st = "ok" /\ ~Repeats(c)
    <3>1. PICK new \in {{}, Links(c.job, c.seen[c.job])} : Issue({c}, new)
      BY <1>12, <2>3 DEF UpdateArrives
    <3>2. Turn({c}, new) /\ \A d \in new : Sincere(d)
      BY <1>0, <3>1, IssueTurns, LinksAreSincere
    <3>3. /\ history' = [history EXCEPT ![c.job] = c.seen[c.job]]
          /\ screen'.selected = screen.selected
      BY <1>12, <2>3 DEF UpdateArrives, Updated, Inv, TypeInv, TypeOK
    <3>4. ASSUME ~Pending PROVE SamePage({c}, new)
      <4>1. c.job \in Jobs /\ Mine(c.job) /\ c.seen[c.job] # "absent"
        BY <1>0, <1>1, <1>12, <2>3, <3>4 DEF OwnCall, TypedCalls
      <4>2. \A j \in Jobs : history'[j] = IF j = c.job THEN c.seen[j] ELSE history[j]
        BY <1>0, <3>3
      <4>3. QED
        BY <1>12, <2>1, <3>3, <4>1, <4>2 DEF SamePage
    <3>5. QED
      BY <1>2, <1>12, <2>1, <3>2, <3>4 DEF Identity
  <2>4. QED
    BY <2>2, <2>3
<1>13. CASE c.op \in Uploading /\ UploadContinues(c)
  <2>1. UNCHANGED <<account, settings, ready>>
    BY <1>13 DEF UploadContinues
  <2>2. CASE c.st = "ok" /\ c.op # "create"
    <3> DEFINE op == NextStage(c.op)
    <3>1. /\ Issue({c}, {Ask(c.n, op, NoJob, c.key, cookie)})
          /\ UNCHANGED <<past, screen, busy>>
      BY <1>13, <2>2 DEF UploadContinues
    <3>2. op \in {"put", "create"} /\ c.op \in {"presign", "put"}
      BY <1>13, <2>2 DEF NextStage, Uploading
    <3> HIDE DEF op
    <3>3. QED
      BY <1>4, <2>1, <3>1, <3>2
  <2>3. CASE c.st = "ok" /\ c.op = "create"
    <3>1. Flag("uploading", FALSE) /\ SelectJob(c.job, "active", {c})
      BY <1>13, <2>3 DEF UploadContinues
    <3>2. QED
      BY <1>5, <1>6, <2>1, <2>3, <3>1
  <2>4. CASE c.st # "ok"
    <3>1. /\ Issue({c}, {}) /\ Flag("uploading", FALSE)
          /\ UNCHANGED <<past, screen, cookie, user, sessions>>
      BY <1>13, <2>4 DEF UploadContinues, account
    <3>2. c.op \notin {"history"}
      BY <1>13 DEF Uploading
    <3>3. QED
      BY <1>3, <1>6, <2>1, <2>4, <3>1, <3>2
  <2>5. QED
    BY <2>2, <2>3, <2>4
<1>14. CASE c.op = "cancel" /\ CancelArrives(c)
  <2>1. UNCHANGED <<account, settings, ready>> /\ Flag("cancelling", FALSE)
    BY <1>14 DEF CancelArrives
  <2>2. CASE c.st = "ok"
    <3>1. SelectJob(c.job, "cancelled", {c})
      BY <1>14, <2>2 DEF CancelArrives
    <3>2. QED
      BY <1>5, <1>6, <1>14, <2>1, <2>2, <3>1
  <2>3. CASE c.st # "ok"
    <3>1. Issue({c}, {}) /\ UNCHANGED <<past, screen, cookie, user, sessions>>
      BY <1>14, <2>3 DEF CancelArrives, account
    <3>2. QED
      BY <1>3, <1>6, <1>14, <2>1, <2>3, <3>1
  <2>4. QED
    BY <2>2, <2>3
<1>15. QED
  BY <1>7, <1>8, <1>9, <1>10, <1>11, <1>12, <1>13, <1>14 DEF Arrive

\* A job settles: its owner stays.
LEMMA SettleCalm ==
    ASSUME Inv, Calm, NEW i \in Jobs, Settle(i)
    PROVE  Calm'
<1>1. UNCHANGED <<accounts, valid, cookie, user, sessions, past, screen, settings,
                  ready, busy, calls>>
  BY DEF Settle, account
<1>2. \A j \in Jobs : Mine(j)' <=> Mine(j)
  BY <1>1 DEF Settle, Mine, Inv, TypeInv, TypeOK
<1>3. /\ Pending' <=> Pending
      /\ NoConflict' <=> NoConflict
      /\ Reloading' <=> Reloading
      /\ Known' <=> Known
      /\ OwnSessions' <=> OwnSessions
  BY <1>1 DEF Pending, NoConflict, Reloading, Known, OwnSessions, Flying
<1>4. \A c \in calls : Timely(c) => Timely(c)'
  BY <1>1 DEF Timely, Agreed
<1>5. \A c \in calls : OwnCall(c) => OwnCall(c)'
  BY <1>1, <1>2 DEF OwnCall
<1>6. OwnScreen => OwnScreen'
  BY <1>1, <1>2 DEF OwnScreen, Inv, TypeInv, TypeOK
<1>7. OwnHistory => OwnHistory'
  BY <1>1, <1>2 DEF OwnHistory, Flying, Created
<1>8. QED
  BY <1>1, <1>3, <1>4, <1>5, <1>6, <1>7 DEF Calm, OwnPage

\* What has disturbed the page stays known.
LEMMA ArriveDisturbs ==
    ASSUME TypeInv, NEW c \in calls, Arrive(c), ~disturbed'
    PROVE  ~disturbed
<1>0. disturbed \in BOOLEAN /\ calls \subseteq Calls
  BY DEF TypeInv, TypeOK, TypedCalls
<1>1. ASSUME NEW done, NEW new, Turn(done, new) PROVE ~disturbed
  BY <1>1, Zenon DEF Turn
<1>2. ASSUME NEW done, NEW new, Issue(done, new) PROVE ~disturbed
  BY <1>0, <1>1, <1>2, IssueTurns
<1>3. ASSUME NEW scr, NEW done, NEW new, Show(scr, done, new) PROVE ~disturbed
  BY <1>0, <1>1, <1>3, ShowTurns
<1>4. CASE IdentityChanged(c)
  BY <1>2, <1>3, <1>4 DEF IdentityChanged, ReloadJobs
<1>5. CASE Managed(c) \/ Started(c)
  BY <1>2, <1>5 DEF Managed, Started
<1>6. CASE HistoryLoaded(c)
  BY <1>2, <1>3, <1>6 DEF HistoryLoaded
<1>7. CASE LinksArrive(c) \/ UpdateArrives(c)
  BY <1>2, <1>7 DEF LinksArrive, UpdateArrives
<1>8. CASE UploadContinues(c)
  BY <1>2, <1>3, <1>8 DEF UploadContinues, SelectJob
<1>9. CASE CancelArrives(c)
  BY <1>2, <1>3, <1>9 DEF CancelArrives, SelectJob
<1>10. QED
  BY <1>4, <1>5, <1>6, <1>7, <1>8, <1>9 DEF Arrive

\* Calm is inductive as long as nothing disturbs the page.
LEMMA CalmStep ==
    ASSUME Inv, [Next]_vars, ~disturbed'
    PROVE  Calm'
<1>0. disturbed \in BOOLEAN /\ calls \subseteq Calls
  BY DEF Inv, TypeInv, TypeOK, TypedCalls
<1>1. CASE UNCHANGED vars
  <2>1. Calm
    BY <1>1, Zenon DEF Inv, vars
  <2>2. QED
    BY <1>1, <2>1 DEF vars, server, account, Calm, NoConflict, Reloading, Timely, Agreed,
                Pending, Known, OwnPage, OwnScreen, OwnSessions, OwnHistory, Created,
                OwnCall, Mine, Flying
<1>2. ASSUME NEW c \in calls, Handle(c) PROVE Calm'
  <2>1. Calm
    BY <1>2, ServedOrRefused, Zenon DEF Inv
  <2>2. \E r : Replied(c, r)
    BY <1>2, ServedOrRefused DEF Inv, Replied
  <2>3. QED
    BY <2>1, <2>2, CalmReply
<1>3. ASSUME NEW c \in calls, Lose(c) PROVE Calm'
  <2>1. Calm /\ c.op \notin Identity \cup {"history", "create"}
    BY <1>3, LostIsRefused, Zenon DEF Inv
  <2>2. \E r : Replied(c, r)
    BY <1>3, <2>1, LostIsRefused DEF Inv, Replied
  <2>3. QED
    BY <2>1, <2>2, CalmReply
<1>4. ASSUME NEW c \in calls, Arrive(c) PROVE Calm'
  <2>1. Calm
    BY <1>4, ArriveDisturbs DEF Inv
  <2>2. QED
    BY <1>4, <2>1, ArriveCalm
<1>5. ASSUME NEW j \in Jobs, Settle(j) PROVE Calm'
  <2>1. Calm
    BY <1>5, Zenon DEF Inv, Settle
  <2>2. QED
    BY <1>5, <2>1, SettleCalm
<1>6. QED
  BY <1>1, <1>2, <1>3, <1>4, <1>5, UserCalm DEF Next

\* Once nothing is in flight, the page shows the workspace of the identity the
\* API knows: unless calls overlapped that Conflict names, or one was lost
\* (reloadJobsAfterIdentityChange).
THEOREM WorkspaceStaysMatched == Spec => []WorkspaceMatchesIdentity
<1> DEFINE Rest == TypeInv /\ FlagInv /\ ScreenInv /\ FreshInv /\ StartInv
           CalmInv == ~disturbed => Calm
<1>1. ASSUME Init PROVE CalmInv
  <2>1. /\ \A c \in calls : c.op = "start" /\ c.who = cookie /\ c.st = "sent"
        /\ \A c, d \in calls : c = d
        /\ ~ready /\ screen.selected = NoJob /\ sessions = Visitor
    BY <1>1 DEF Init, Ask, Cleared
  <2>2. NoConflict /\ Reloading /\ OwnPage
    BY <2>1 DEF NoConflict, Reloading, OwnPage, OwnScreen, OwnSessions, OwnHistory
  <2>3. Known
    BY <2>1 DEF Known, Flying
  <2>4. \A c \in calls : Timely(c) /\ OwnCall(c)
    BY <2>1 DEF Timely, OwnCall, Identity
  <2>5. QED
    BY <2>2, <2>3, <2>4 DEF Calm
<1>2. Rest /\ CalmInv /\ [Next]_vars => CalmInv'
  BY CalmStep DEF Inv
<1>3. Rest /\ CalmInv => WorkspaceMatchesIdentity
  <2> SUFFICES ASSUME Rest, Calm, calls = {}, ready
               PROVE  /\ user = Principal(cookie)
                      /\ \A j \in Jobs : history[j] # "absent" <=> rows[j].owner = user
                      /\ screen.selected # NoJob => rows[screen.selected].owner = user
                      /\ sessions \in {Visitor, user}
    BY DEF WorkspaceMatchesIdentity
  <2>1. Known /\ OwnPage /\ ~Flying({"history"}) /\ \A j \in Jobs : ~Created(j)
    BY DEF Calm, Pending, Flying, Created
  <2>2. QED
    BY <2>1 DEF Known, OwnPage, OwnScreen, OwnSessions, OwnHistory, Mine, Principal
<1>4. QED
  BY <1>1, <1>2, <1>3, TypeInvCorrect, FlagInvCorrect, ScreenInvCorrect,
     StartInvCorrect, PTL DEF Spec
=============================================================================

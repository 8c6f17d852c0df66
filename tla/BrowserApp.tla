----------------------------- MODULE BrowserApp -----------------------------
(***************************************************************************)
(* The page in one browser: its React state, the workflows of the hooks    *)
(* (start-up, upload, cancellation, account and its settings, history and  *)
(* selection), and the API that answers them. Every `await fetch` is a     *)
(* call in flight: it carries the cookie of the moment it is sent, its     *)
(* principal is resolved when the API handles it, and a cookie it sets is  *)
(* stored when its answer arrives. Answers come in any order.              *)
(***************************************************************************)
EXTENDS Naturals, FiniteSetsExt

CONSTANTS
    Accounts,
    Visitor,      \* the anonymous owner of this browser
    Nobody,       \* the owner of the rows of a deleted account
    ActiveLimit,  \* maxActiveJobsPerOwner
    MaxJobs,      \* bound on jobs
    MaxActions,   \* bound on what the user does
    MaxUpdates,   \* bound on requests of subscriptions in flight
    MaxFaults     \* bound on calls that fail and answers that are lost

ASSUME BrowserAssumption ==
    /\ Visitor \notin Accounts
    /\ Nobody \notin Accounts \cup {Visitor}
    /\ {ActiveLimit, MaxJobs, MaxActions, MaxUpdates, MaxFaults} \subseteq Nat

VARIABLES
    rows,       \* the owner and the state of each job in the database
    accounts,   \* accounts that exist
    valid,      \* the account of each session the API knows, or Visitor
    cookie,     \* the session of the authentication cookie, or NoCookie
    user,       \* currentUser
    history,    \* jobHistory: the snapshot of each job, or absent
    screen,     \* useSelectedJob and useJobWebSocket
    sessions,   \* whose accountSessions are held, or Visitor for none
    settings,   \* settingsOpen
    file,       \* a file is selected
    ready,      \* sessionReady
    busy,       \* the Boolean flags of the hooks that are set
    calls,      \* calls in flight
    actions,
    faults,
    over,       \* observer: the jobs that the history has ever shown as final
    disturbed   \* observer: calls overlapped that must not, or one was lost

server  == <<rows, accounts, valid>>
account == <<cookie, user, sessions>>
past    == <<history, over>>
vars == <<server, account, past, screen, settings, file, ready, busy, calls,
          actions, faults, disturbed>>

-----------------------------------------------------------------------------
Jobs   == 1..MaxJobs
NoJob  == 0

\* The session of login n is n; session 0 is from before.
NoCookie == MaxActions + 1
Sessions == 0..NoCookie

Owners == Accounts \cup {Visitor}
\* A job that failed is "cancelled" here: it is final and has no results.
States == {"absent", "active", "done", "expired", "cancelled"}
Final == {"done", "expired", "cancelled"}
Nothing == [j \in Jobs |-> "absent"]

Authentication == {"login", "logout"}
Management == {"sessions", "revoke", "password", "delete"}
Uploading == {"presign", "put", "create"}
Ops == Authentication \cup Management \cup Uploading
        \cup {"start", "history", "cancel", "urls", "update"}

\* `n` is the workflow; `key` the owner a call is about; `seen` the snapshots
\* in its answer; `old` an update of a subscription that was given up.
Calls ==
    [n : 0..MaxActions, op : Ops, job : Jobs \cup {NoJob}, key : Owners,
     who : Sessions, st : {"sent", "ok", "failed"}, seen : [Jobs -> States],
     old : BOOLEAN]

TypeOK ==
    /\ rows \in [Jobs -> [owner : Owners \cup {Nobody}, state : States]]
    /\ accounts \subseteq Accounts
    /\ valid \in [Sessions -> accounts \cup {Visitor}]
    /\ valid[NoCookie] = Visitor
    /\ cookie \in Sessions
    /\ {user, sessions} \subseteq Owners
    /\ history \in [Jobs -> States]
    /\ screen \in [selected : Jobs \cup {NoJob}, job : Jobs \cup {NoJob},
                   state : States, ended : BOOLEAN, urls : Jobs \cup {NoJob},
                   watching : Jobs \cup {NoJob}]
    /\ over \subseteq Jobs
    /\ {settings, file, ready, disturbed} \subseteq BOOLEAN
    /\ busy \subseteq {"uploading", "cancelling", "authenticating", "managing", "loading"}
    /\ calls \subseteq Calls
    /\ actions \in 0..MaxActions
    /\ faults \in 0..MaxFaults

-----------------------------------------------------------------------------
(* Calls.                                                                   *)

\* The wrappers of fetch in src/frontend/src/api: an answer is returned, and a
\* refusal is thrown like a call that fails. Requests to the API include the
\* cookies; the PUT of the file does not.
Ask(n, op, j, key, who) ==
    [n |-> n, op |-> op, job |-> j, key |-> key, who |-> who, st |-> "sent",
     seen |-> Nothing, old |-> FALSE]

Identity == {"login", "logout", "delete"}

\* Two calls whose answers the page cannot put together in every order.
Conflict(c, d) ==
    \/ c.op \in Identity /\ d.op \in {"update", "cancel", "sessions", "revoke"}
    \/ c.op = "history" /\ d.op \in {"history", "create"}

\* Call c is over, and its workflow goes on with the calls of `new`.
Issue(done, new) ==
    LET kept == calls \ done
    IN  /\ calls' = kept \cup new
        /\ disturbed' = (disturbed \/ \E c, d \in kept \cup new :
                c # d /\ {c, d} \cap new # {} /\ Conflict(c, d))

Flags(op) == IF op \in Authentication THEN "authenticating" ELSE "managing"

Acts == actions < MaxActions /\ actions' = actions + 1
Flag(name, set) == busy' = IF set THEN busy \cup {name} ELSE busy \ {name}

-----------------------------------------------------------------------------
(* The selected job. `watching` is subscribedJobId, whose subscription has   *)
(* `ended` when it has delivered a terminal update. Until the links of a     *)
(* completed job are there it may ask on, for what it has said or that the   *)
(* results expired; that is left out. One given up may still deliver.        *)

Cleared ==
    [selected |-> NoJob, job |-> NoJob, state |-> "absent", ended |-> FALSE,
     urls |-> NoJob, watching |-> NoJob]

\* terminalJobReached of one subscription, carried over to the next.
SelectedStillEnded(j, state) ==
    [selected |-> j, job |-> j, state |-> state, ended |-> screen.ended,
     urls |-> NoJob, watching |-> IF state = "active" THEN j ELSE NoJob]

\* subscribedJobId becomes null and then the id in one render: the effect does
\* not run again for an id that was there before, and its subscription stays.
Selected(j, state) ==
    [selected |-> j, job |-> j, state |-> state,
     ended |-> state = "active" /\ screen.watching = j /\ screen.ended,
     urls |-> NoJob, watching |-> IF state = "active" THEN j ELSE NoJob]

\* handleJobUpdate: history takes every update, the detail only its own job.
Updated(c) ==
    IF screen.selected # c.job THEN screen
    ELSE [screen EXCEPT
            !.job = c.job, !.state = c.seen[c.job],
            !.ended = @ \/ (~c.old /\ c.seen[c.job] \in Final),
            !.urls = IF c.seen[c.job] = "expired" THEN NoJob ELSE @]

\* A completed job has its links requested, for no workflow in particular.
Links(j, state) ==
    IF state = "done" THEN {Ask(0, "urls", j, Visitor, cookie)} ELSE {}

\* The updates in flight of a subscription that ends here become old.
GiveUp(watching) ==
    {c \in calls : c.op = "update" /\ ~c.old /\ c.job # watching}
Old(cs) == {[c EXCEPT !.old = TRUE] : c \in cs}

Show(scr, done, new) ==
    LET cut == GiveUp(scr.watching)
    IN  screen' = scr /\ Issue(done \cup cut, new \cup Old(cut))

Recall(shown) ==
    /\ history' = shown
    /\ over' = over \cup {j \in Jobs : shown[j] \in Final}

\* selectJob, called with a snapshot.
SelectJob(j, state, done) ==
    /\ Recall([history EXCEPT ![j] = state])
    /\ Show(Selected(j, state), done, Links(j, state))

Newest(seen) == LET active == {j \in Jobs : seen[j] = "active"}
                IN  IF active = {} THEN NoJob ELSE Max(active)

-----------------------------------------------------------------------------
(* The API. Each request is handled at once; Accounts and JobProcessing     *)
(* take these handlers apart.                                               *)

Principal(who) == valid[who]

View(owner) ==
    [j \in Jobs |-> IF rows[j].owner = owner THEN rows[j].state ELSE "absent"]

Owned(c) == rows[c.job].owner = Principal(c.who)
RunningOf(owner) == {j \in Jobs : rows[j] = [owner |-> owner, state |-> "active"]}
FreeIds == {j \in Jobs : rows[j].state = "absent"}

Answer(c, r) ==
    /\ calls' = (calls \ {c}) \cup {[r EXCEPT !.st = "ok"]}
    /\ UNCHANGED <<account, past, screen, settings, file, ready, busy,
                   actions, faults, disturbed>>

Refuse(c) ==
    /\ calls' = (calls \ {c}) \cup {[c EXCEPT !.st = "failed"]}
    /\ UNCHANGED <<server, account, past, screen, settings, file, ready,
                   busy, actions, faults, disturbed>>

\* A wrong password or a name that is taken or unknown is refused; a session
\* replaces that of the cookie and adopts what the visitor owns.
HandleLogin(c) ==
    \/ Refuse(c)
    \/ /\ accounts' = accounts \cup {c.key}
       /\ valid' = [valid EXCEPT ![c.who] = Visitor, ![c.n] = c.key]
       /\ rows' = [j \in Jobs |-> IF rows[j].owner = Visitor
                                  THEN [rows[j] EXCEPT !.owner = c.key]
                                  ELSE rows[j]]
       /\ Answer(c, c)

HandleLogout(c) ==
    /\ valid' = [valid EXCEPT ![c.who] = Visitor]
    /\ UNCHANGED <<rows, accounts>>
    /\ Answer(c, c)

HandleDeleteKeepingSessions(c) ==
    LET owner == Principal(c.who)
    IN  \/ Refuse(c)
        \/ /\ owner # Visitor
           /\ UNCHANGED valid
           /\ accounts' = accounts \ {owner}
           /\ rows' = [j \in Jobs |-> IF rows[j].owner = owner
                        THEN [owner |-> Nobody, state |-> "cancelled"]
                        ELSE rows[j]]
           /\ Answer(c, c)

\* Sessions and jobs of the account go with it; a wrong password is refused.
HandleDelete(c) ==
    LET owner == Principal(c.who)
    IN  \/ Refuse(c)
        \/ /\ owner # Visitor
           /\ valid' = [k \in Sessions |-> IF valid[k] = owner THEN Visitor ELSE valid[k]]
           /\ accounts' = accounts \ {owner}
           /\ rows' = [j \in Jobs |-> IF rows[j].owner = owner
                        THEN [owner |-> Nobody, state |-> "cancelled"]
                        ELSE rows[j]]
           /\ Answer(c, c)

\* The list of sessions; a new password leaves the current session alone.
HandleManagement(c) ==
    IF Principal(c.who) = Visitor THEN Refuse(c)
    ELSE \/ c.op = "password" /\ Refuse(c)
         \/ Answer(c, [c EXCEPT !.key = Principal(c.who)]) /\ UNCHANGED server

\* Start-up: the session cookie, /auth/me and /health, in this order.
HandleStart(c) == Answer(c, [c EXCEPT !.key = Principal(c.who)]) /\ UNCHANGED server

HandleHistory(c) ==
    Answer(c, [c EXCEPT !.seen = View(Principal(c.who))]) /\ UNCHANGED server

\* The object key names the owner who asked for it.
HandlePresign(c) ==
    IF Cardinality(RunningOf(Principal(c.who))) >= ActiveLimit THEN Refuse(c)
    ELSE Answer(c, [c EXCEPT !.key = Principal(c.who)]) /\ UNCHANGED server

HandlePut(c) == Answer(c, c) /\ UNCHANGED server

Creatable(c) ==
    /\ c.key = Principal(c.who)
    /\ Cardinality(RunningOf(Principal(c.who))) < ActiveLimit

HandleCreate(c) ==
    IF ~Creatable(c) THEN Refuse(c)
    ELSE LET j == Min(FreeIds)
         IN  /\ FreeIds # {}
             /\ rows' = [rows EXCEPT ![j] = [owner |-> c.key, state |-> "active"]]
             /\ UNCHANGED <<accounts, valid>>
             /\ Answer(c, [c EXCEPT !.job = j])

HandleCancel(c) ==
    IF Owned(c) /\ rows[c.job].state = "active"
    THEN /\ rows' = [rows EXCEPT ![c.job].state = "cancelled"]
         /\ UNCHANGED <<accounts, valid>>
         /\ Answer(c, c)
    ELSE Refuse(c)

HandleDownloads(c) ==
    IF Owned(c) /\ rows[c.job].state = "done"
    THEN Answer(c, c) /\ UNCHANGED server
    ELSE Refuse(c)

\* One snapshot for the subscription of a job: a socket keeps the owner it was
\* opened for, a poll is resolved anew.
HandleUpdate(c) ==
    IF rows[c.job].owner \in {c.key, Principal(c.who)}
    THEN /\ Answer(c, [c EXCEPT !.seen[c.job] = rows[c.job].state])
         /\ UNCHANGED server
    ELSE Refuse(c)

Handle(c) ==
    /\ c.st = "sent"
    /\ \/ c.op = "login" /\ HandleLogin(c)
       \/ c.op = "logout" /\ HandleLogout(c)
       \/ c.op = "delete" /\ HandleDelete(c)
       \/ c.op \in {"sessions", "revoke", "password"} /\ HandleManagement(c)
       \/ c.op = "start" /\ HandleStart(c)
       \/ c.op = "history" /\ HandleHistory(c)
       \/ c.op = "presign" /\ HandlePresign(c)
       \/ c.op = "put" /\ HandlePut(c)
       \/ c.op = "create" /\ HandleCreate(c)
       \/ c.op = "cancel" /\ HandleCancel(c)
       \/ c.op = "urls" /\ HandleDownloads(c)
       \/ c.op = "update" /\ HandleUpdate(c)

\* A call fails before it was handled, or its answer is lost. The page does
\* nothing about a lost update: it is one that was not asked for.
Lose(c) ==
    /\ c.st \in {"sent", "ok"}
    /\ c.op # "update"
    /\ faults < MaxFaults
    /\ faults' = faults + 1
    /\ calls' = (calls \ {c}) \cup {[c EXCEPT !.st = "failed"]}
    /\ disturbed' = (disturbed \/ c.op \in Identity \cup {"history", "create"})
    /\ UNCHANGED <<server, account, past, screen, settings, file, ready,
                   busy, actions>>

\* The worker settles a job, and its results expire.
Settle(j) ==
    /\ \/ /\ rows[j].state = "active"
          /\ \E end \in {"done", "cancelled"} : rows' = [rows EXCEPT ![j].state = end]
       \/ /\ rows[j].state = "done"
          /\ rows' = [rows EXCEPT ![j].state = "expired"]
    /\ UNCHANGED <<accounts, valid, account, past, screen, settings, file,
                   ready, busy, calls, actions, faults, disturbed>>

-----------------------------------------------------------------------------
(* The account panel and useAuthentication.                                 *)

\* The controls of the panel are disabled in an upload and before start-up.
PanelEnabled ==
    /\ ready
    /\ "uploading" \notin busy
    /\ "authenticating" \notin busy

Authenticate(op, key) ==
    /\ Acts
    /\ PanelEnabled
    /\ Flag("authenticating", TRUE)
    /\ Issue({}, {Ask(actions + 1, op, NoJob, key, cookie)})
    /\ UNCHANGED <<server, account, past, screen, settings, file, ready, faults>>

Login(a) == user = Visitor /\ Authenticate("login", a)
Logout == user # Visitor /\ Authenticate("logout", Visitor)

\* The list is loaded when the settings open, whatever else is going on.
OpenSettings ==
    /\ Acts
    /\ user # Visitor
    /\ PanelEnabled
    /\ ~settings
    /\ settings' = TRUE
    /\ Flag("managing", TRUE)
    /\ Issue({}, {Ask(actions + 1, "sessions", NoJob, Visitor, cookie)})
    /\ UNCHANGED <<server, account, past, screen, file, ready, faults>>

\* The settings have a button of their own that closes them.
CloseSettings ==
    /\ user # Visitor
    /\ settings
    /\ settings' = FALSE
    /\ UNCHANGED <<server, account, past, screen, file, ready, busy, calls,
                   actions, faults, disturbed>>

\* The forms inside the settings look at isManagingAccount only; the button
\* that signs other browsers out needs a list of sessions.
Manage(op) ==
    /\ Acts
    /\ user # Visitor
    /\ settings
    /\ "managing" \notin busy
    /\ op = "revoke" => sessions # Visitor
    /\ Flag("managing", TRUE)
    /\ Issue({}, {Ask(actions + 1, op, NoJob, Visitor, cookie)})
    /\ UNCHANGED <<server, account, past, screen, settings, file, ready, faults>>

ReloadJobsKeepingSelection(c, owner, session) ==
    /\ cookie' = session
    /\ user' = owner
    /\ sessions' = Visitor
    /\ busy' = (busy \ {Flags(c.op)}) \cup {"loading"}
    /\ Issue({c}, {Ask(c.n, "history", NoJob, owner, session)})
    /\ UNCHANGED <<past, screen, settings, ready>>

\* reloadJobsAfterIdentityChange: the selection goes, the history is loaded.
ReloadJobs(c, owner, session) ==
    /\ cookie' = session
    /\ user' = owner
    /\ sessions' = Visitor
    /\ busy' = (busy \ {Flags(c.op)}) \cup {"loading"}
    /\ Show(Cleared, {c}, {Ask(c.n, "history", NoJob, owner, session)})
    /\ UNCHANGED <<past, settings, ready>>

\* The answers to a sign-in, a sign-out and a deletion of the account.
IdentityChanged(c) ==
    IF c.st = "ok"
    THEN IF c.op = "login" THEN ReloadJobs(c, c.key, c.n)
         ELSE ReloadJobs(c, Visitor, NoCookie)
    ELSE /\ Issue({c}, {})
         /\ Flag(Flags(c.op), FALSE)
         /\ UNCHANGED <<account, past, screen, settings, ready>>

\* A changed password is followed by a request for the sessions.
Managed(c) ==
    /\ IF c.op = "password" /\ c.st = "ok"
       THEN /\ Issue({c}, {Ask(c.n, "sessions", NoJob, Visitor, cookie)})
            /\ UNCHANGED <<busy, sessions>>
       ELSE /\ Issue({c}, {})
            /\ Flag("managing", FALSE)
            /\ sessions' = IF c.st = "ok" THEN c.key ELSE sessions
    /\ UNCHANGED <<cookie, user, past, screen, settings, ready>>

-----------------------------------------------------------------------------
(* Start-up and history.                                                    *)

\* A failed start-up leaves the page without a session.
Started(c) ==
    /\ IF c.st = "ok"
       THEN /\ user' = c.key
            /\ Flag("loading", TRUE)
            /\ Issue({c}, {Ask(c.n, "history", NoJob, c.key, cookie)})
       ELSE Issue({c}, {}) /\ UNCHANGED <<user, busy>>
    /\ UNCHANGED <<cookie, sessions, past, screen, settings, ready>>

\* The list replaces the history, and its newest active job is selected. The
\* panel closes its settings when the reload of a sign-out is over.
HistoryLoaded(c) ==
    LET j == Newest(c.seen)
    IN  /\ Flag("loading", FALSE)
        /\ ready' = TRUE
        /\ settings' = (settings /\ c.key # Visitor)
        /\ IF c.st = "ok" THEN Recall(c.seen) ELSE UNCHANGED past
        /\ IF c.st = "ok" /\ j # NoJob
           THEN Show(Selected(j, "active"), {c}, {})
           ELSE Issue({c}, {}) /\ UNCHANGED screen
        /\ UNCHANGED account

\* A click on a row of the history, which is hidden while it loads.
SelectHistoryJob(j) ==
    /\ Acts
    /\ "loading" \notin busy
    /\ history[j] # "absent"
    /\ SelectJob(j, history[j], {})
    /\ UNCHANGED <<server, account, settings, file, ready, busy, faults>>

LinksArriveUnchecked(c) ==
    /\ Issue({c}, {})
    /\ screen' = IF c.st = "ok" THEN [screen EXCEPT !.urls = c.job] ELSE screen
    /\ UNCHANGED <<account, past, settings, ready, busy>>

\* Links are kept only if their job is still selected.
LinksArrive(c) ==
    /\ Issue({c}, {})
    /\ screen' = IF c.st = "ok" /\ screen.selected = c.job
                 THEN [screen EXCEPT !.urls = c.job] ELSE screen
    /\ UNCHANGED <<account, past, settings, ready, busy>>

\* The subscription asks until it has ended, whatever the screen shows; the
\* interval of its polls does not wait for the answer of the last.
Subscription ==
    /\ screen.watching # NoJob
    /\ ~screen.ended
    /\ Cardinality({c \in calls : c.op = "update"}) < MaxUpdates
    /\ Issue({}, {Ask(0, "update", screen.watching, Principal(cookie), cookie)})
    /\ UNCHANGED <<server, account, past, screen, settings, file, ready,
                   busy, actions, faults>>

\* A final snapshot like the one that was delivered is dropped; of a job that
\* is active, which makes progress, no two are taken to be alike.
Repeats(c) == screen.ended /\ ~c.old /\ c.seen[c.job] = screen.state

UpdateArrives(c) ==
    /\ IF c.st = "ok" /\ ~Repeats(c)
       THEN /\ Recall([history EXCEPT ![c.job] = c.seen[c.job]])
            /\ screen' = Updated(c)
            /\ Issue({c}, IF screen.selected = c.job
                          THEN Links(c.job, c.seen[c.job]) ELSE {})
       ELSE Issue({c}, {}) /\ UNCHANGED <<past, screen>>
    /\ UNCHANGED <<account, settings, ready, busy>>

-----------------------------------------------------------------------------
(* Upload and cancellation.                                                 *)

SelectFile ==
    /\ Acts
    /\ file' \in BOOLEAN
    /\ Show(Cleared, {}, {})
    /\ UNCHANGED <<server, account, past, settings, ready, busy, faults>>

\* The button looks at the file, the session and a running upload.
StartProcessing ==
    /\ Acts
    /\ file
    /\ ready
    /\ "uploading" \notin busy
    /\ Flag("uploading", TRUE)
    /\ Issue({}, {Ask(actions + 1, "presign", NoJob, Visitor, cookie)})
    /\ UNCHANGED <<server, account, past, screen, settings, file, ready, faults>>

NextStage(op) == IF op = "presign" THEN "put" ELSE "create"

UploadContinuesBusy(c) ==
    /\ IF c.st = "ok" /\ c.op # "create"
       THEN /\ Issue({c}, {Ask(c.n, NextStage(c.op), NoJob, c.key, cookie)})
            /\ UNCHANGED <<past, screen, busy>>
       ELSE IF c.st = "ok"
            THEN Flag("uploading", FALSE) /\ SelectJob(c.job, "active", {c})
            ELSE Issue({c}, {}) /\ UNCHANGED <<past, screen, busy>>
    /\ UNCHANGED <<account, settings, ready>>

\* presign, put, create: the first that fails ends the upload.
UploadContinues(c) ==
    /\ IF c.st = "ok" /\ c.op # "create"
       THEN /\ Issue({c}, {Ask(c.n, NextStage(c.op), NoJob, c.key, cookie)})
            /\ UNCHANGED <<past, screen, busy>>
       ELSE /\ Flag("uploading", FALSE)
            /\ IF c.st = "ok"
               THEN SelectJob(c.job, "active", {c})
               ELSE Issue({c}, {}) /\ UNCHANGED <<past, screen>>
    /\ UNCHANGED <<account, settings, ready>>

CancelJob ==
    /\ Acts
    /\ screen.state = "active"
    /\ "cancelling" \notin busy
    /\ Flag("cancelling", TRUE)
    /\ Issue({}, {Ask(actions + 1, "cancel", screen.job, Visitor, cookie)})
    /\ UNCHANGED <<server, account, past, screen, settings, file, ready, faults>>

\* The answer selects its job, even when another was selected meanwhile.
CancelArrives(c) ==
    /\ Flag("cancelling", FALSE)
    /\ IF c.st = "ok"
       THEN SelectJob(c.job, "cancelled", {c})
       ELSE Issue({c}, {}) /\ UNCHANGED <<past, screen>>
    /\ UNCHANGED <<account, settings, ready>>

-----------------------------------------------------------------------------
\* The page was opened anew; jobs, account and session are from before.
Init ==
    /\ rows \in {f \in [Jobs -> [owner : Owners \cup {Nobody}, state : States]] :
                    \A j \in Jobs :
                        /\ f[j].state = "absent" <=> f[j].owner = Nobody
                        /\ f[j].state # "absent" => j = 1}
    /\ accounts = Accounts
    /\ valid \in [Sessions -> Owners]
    /\ \A k \in Sessions \ {0} : valid[k] = Visitor
    /\ cookie = IF valid[0] = Visitor THEN NoCookie ELSE 0
    /\ user = Visitor
    /\ history = Nothing
    /\ over = {}
    /\ screen = Cleared
    /\ sessions = Visitor
    /\ settings = FALSE
    /\ file = FALSE
    /\ ready = FALSE
    /\ busy = {}
    /\ calls = {Ask(0, "start", NoJob, Visitor, cookie)}
    /\ actions = 0
    /\ faults = 0
    /\ disturbed = FALSE

Arrive(c) ==
    /\ c.st \in {"ok", "failed"}
    /\ \/ c.op \in Identity /\ IdentityChanged(c)
       \/ c.op \in Management \ {"delete"} /\ Managed(c)
       \/ c.op = "start" /\ Started(c)
       \/ c.op = "history" /\ HistoryLoaded(c)
       \/ c.op = "urls" /\ LinksArrive(c)
       \/ c.op = "update" /\ UpdateArrives(c)
       \/ c.op \in Uploading /\ UploadContinues(c)
       \/ c.op = "cancel" /\ CancelArrives(c)
    /\ UNCHANGED <<server, file, actions, faults>>

Next ==
    \/ \E c \in calls : Handle(c) \/ Lose(c) \/ Arrive(c)
    \/ \E j \in Jobs : Settle(j) \/ SelectHistoryJob(j)
    \/ \E a \in Accounts : Login(a)
    \/ \E op \in Management \ {"sessions"} : Manage(op)
    \/ Logout \/ OpenSettings \/ CloseSettings \/ SelectFile \/ StartProcessing \/ CancelJob
    \/ Subscription

Spec == Init /\ [][Next]_vars

-----------------------------------------------------------------------------
\* Whatever answers arrive late, the panel, its links and its subscription
\* belong to one job, and links are shown only for a completed job. An active
\* job on the screen is followed by a subscription that has not ended, unless
\* the page was told before that the job is over: only a list or a poll that
\* was answered late can show such a job as active again (selectJob,
\* handleJobUpdate, deliverJobUpdate).
ScreenIsConsistent ==
    /\ screen.job = screen.selected
    /\ screen.urls # NoJob => screen.urls = screen.selected /\ screen.state # "cancelled"
    /\ screen.watching # NoJob => screen.watching = screen.selected
    /\ screen.state = "active" /\ screen.job \notin over =>
            screen.watching = screen.selected /\ ~screen.ended

\* Once nothing is in flight, the page shows the workspace of the identity the
\* API knows: unless calls overlapped that Conflict names, or one was lost
\* (reloadJobsAfterIdentityChange).
WorkspaceMatchesIdentity ==
    calls = {} /\ ready /\ ~disturbed =>
        /\ user = Principal(cookie)
        /\ \A j \in Jobs : history[j] # "absent" <=> rows[j].owner = user
        /\ screen.selected # NoJob => rows[screen.selected].owner = user
        /\ sessions \in {Visitor, user}

\* A control is disabled only while a call of its own is in flight, and an
\* upload, a cancellation and a sign-in keep theirs disabled until they end.
FlagsFollowCalls ==
    LET Flying(ops) == \E c \in calls : c.op \in ops
    IN  /\ "uploading" \in busy <=> Flying(Uploading)
        /\ "cancelling" \in busy <=> Flying({"cancel"})
        /\ "authenticating" \in busy <=> Flying(Authentication)
        /\ "managing" \in busy => Flying(Management)
        /\ "loading" \in busy => Flying({"history"})
=============================================================================

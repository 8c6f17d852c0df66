------------------------------ MODULE Accounts ------------------------------
(***************************************************************************)
(* Requests of browsers that share the tables jobs, users and              *)
(* user_sessions: creating jobs, registering and signing in (which adopts  *)
(* the visitor's jobs), changing a password, deleting an account.          *)
(*                                                                         *)
(* A request resolves its principal when it arrives and uses it later. One *)
(* SQL statement is one step; a transaction's writes become visible at     *)
(* COMMIT, and until then the rows it wrote are locked, so another         *)
(* statement that wants one waits and then looks at the row again. A       *)
(* statement takes its locks together: where PostgreSQL takes them one by  *)
(* one and finds a deadlock, the victim's error is a fault here.           *)
(***************************************************************************)
EXTENDS Naturals, FiniteSets

CONSTANTS
    Users,        \* the accounts: a name registered again is another one
    Browsers,     \* the anonymous owner of each signed cookie
    Files,        \* the uploads of one owner
    MaxActive,    \* MAX_ACTIVE_JOBS_PER_OWNER
    MaxRequests,  \* bound on the requests of one behaviour
    MaxFaults     \* bound on the transactions that fail

ASSUME AccountsAssumption ==
    /\ Users \cap Browsers = {}
    /\ MaxActive \in Nat \ {0}
    /\ MaxRequests \in Nat
    /\ MaxFaults \in Nat

Requests == 1..MaxRequests

VARIABLES
    user,    \* the users table
    row,     \* the jobs table: a job has the number of the request that made it
    active,  \* sessions neither revoked nor removed, by the request that made them
    cookie,  \* the session in each browser's audio_auth cookie, 0 for none
    req,     \* what each request asks for, and its principal
    pc,      \* the statement each request is at
    tx,      \* what its open transaction wrote
    late,    \* observer: jobs that became a user's after its deletion had begun
    faults

vars == <<user, row, active, cookie, req, pc, tx, late, faults>>

-----------------------------------------------------------------------------
Owners == Users \cup Browsers
Kinds  == {"create", "register", "login", "logout", "password", "others", "delete"}

NoJob == [state |-> "none"]
Job(o, f) == [state |-> "active", owner |-> o, by |-> o, file |-> f,
              marked |-> FALSE, cleaned |-> FALSE]
Row == [state : {"active", "settled", "removed"}, owner : Owners, by : Owners,
        file : Files, marked : BOOLEAN, cleaned : BOOLEAN]

\* The statement each kind of request begins with.
First == [create |-> "lock", register |-> "user", login |-> "adopt",
          logout |-> "revoke", password |-> "change", others |-> "others",
          delete |-> "cancel"]

InTransaction == {"check", "count", "insert", "adopt", "session", "cancel", "mark",
                  "purge", "remove"}
Locations == InTransaction \cup {"none", "lock", "user", "revoke", "change", "others",
                                 "respond", "done"}

NoRequest == [kind |-> "none"]
NoWrites  == [rows |-> {}, cancelled |-> {}, marked |-> {}, purged |-> {}]

Issuers == {i \in Requests : req[i].kind \in {"register", "login"}}

TypeOK ==
    /\ user \in [Users -> {"absent", "exists", "deleted"}]
    /\ row \in [Requests -> Row \cup {NoJob}]
    /\ active \in SUBSET Issuers
    /\ cookie \in [Browsers -> Issuers \cup {0}]
    /\ \A i \in Requests :
          req[i] # NoRequest =>
             /\ req[i].kind \in Kinds
             /\ req[i].browser \in Browsers
             /\ req[i].owner \in Owners
             /\ req[i].token \in Issuers \cup {0}
    /\ pc \in [Requests -> Locations]
    /\ tx \in [Requests -> [DOMAIN NoWrites -> SUBSET Requests]]
    /\ late \in SUBSET Requests
    /\ faults \in 0..MaxFaults

Init ==
    /\ user = [u \in Users |-> "absent"]
    /\ row = [i \in Requests |-> NoJob]
    /\ active = {}
    /\ cookie = [b \in Browsers |-> 0]
    /\ req = [i \in Requests |-> NoRequest]
    /\ pc = [i \in Requests |-> "none"]
    /\ tx = [i \in Requests |-> NoWrites]
    /\ late = {}
    /\ faults = 0

-----------------------------------------------------------------------------
Exists(j) == row[j].state \in {"active", "settled"}
Owned(o)  == {j \in Requests : Exists(j) /\ row[j].owner = o}
Running(o) == {j \in Owned(o) : row[j].state = "active"}

\* The statement of request i gets the row locks it needs.
Lockable(i, S) == \A k \in Requests \ {i} : tx[k].rows \cap S = {}

At(i, from, to) == pc[i] = from /\ pc' = [pc EXCEPT ![i] = to]

\* A transaction ends: its locks go.
Release(i) == tx' = [tx EXCEPT ![i] = NoWrites]

\* ROLLBACK, and an error or a refusal for the browser.
RolledBack(i) ==
    /\ pc' = [pc EXCEPT ![i] = "done"]
    /\ Release(i)
    /\ UNCHANGED <<user, row, active, cookie, req, late, faults>>

-----------------------------------------------------------------------------
(* A request arrives *)

\* The cookie's session is not revoked, not expired and has a user.
SignedIn(b) == cookie[b] \in active

\* resolveRequestPrincipal
Principal(b) == IF SignedIn(b) THEN req[cookie[b]].user ELSE b

Request(b, k, u, f) ==
    [kind |-> k, browser |-> b, owner |-> Principal(b), user |-> u, file |-> f,
     token |-> cookie[b]]
NoFile == CHOOSE f \in Files : TRUE

\* What a browser may ask for, after the early returns of the routes: a job for an
\* upload of its principal that storage has, ...
Creations(b) == {Request(b, "create", Principal(b), f) : f \in Files}

\* ... no second registration while signed in, a login whose password was right,
\* and a logout, which needs no more than a cookie, ...
SignIns(b) ==
    UNION {{Request(b, "register", u, NoFile) :
                u \in {v \in Users : ~SignedIn(b) /\ user[v] # "deleted"}},
           {Request(b, "login", u, NoFile) : u \in {v \in Users : user[v] = "exists"}},
           {r \in {Request(b, "logout", Principal(b), NoFile)} : r.token # 0}}

\* ... and the account's own operations, which want a signed-in user.
Managed(b) ==
    {Request(b, k, Principal(b), NoFile) :
        k \in IF SignedIn(b) THEN {"password", "others", "delete"} ELSE {}}

Receive(i, b) ==
    /\ pc[i] = "none"
    /\ \A k \in 1..(i - 1) : pc[k] # "none"
    /\ \E r \in Creations(b) \cup SignIns(b) \cup Managed(b) :
          /\ req' = [req EXCEPT ![i] = r]
          /\ pc' = [pc EXCEPT ![i] = First[r.kind]]
    /\ UNCHANGED <<user, row, active, cookie, tx, late, faults>>

\* Mutant: any response carries a session.
RespondAlways(i) ==
    /\ At(i, "respond", "done")
    /\ cookie' = [cookie EXCEPT ![req[i].browser] = i]
    /\ UNCHANGED <<user, row, active, req, tx, late, faults>>

\* The response sets or clears the cookie, unless it is lost.
Respond(i) ==
    /\ At(i, "respond", "done")
    /\ \/ UNCHANGED cookie
       \/ cookie' = [cookie EXCEPT ![req[i].browser] =
              IF i \in Issuers THEN i
              ELSE IF req[i].kind \in {"logout", "delete"} THEN 0 ELSE @]
    /\ UNCHANGED <<user, row, active, req, tx, late, faults>>

\* A statement or the COMMIT fails: the connection, a deadlock, a crash.
Fail(i) ==
    /\ pc[i] \in InTransaction
    /\ faults < MaxFaults
    /\ faults' = faults + 1
    /\ pc' = [pc EXCEPT ![i] = "done"]
    /\ Release(i)
    /\ UNCHANGED <<user, row, active, cookie, req, late>>

-----------------------------------------------------------------------------
(* createJob *)

\* Mutant: no advisory lock.
LockNothing(i) ==
    /\ At(i, "lock", "check")
    /\ UNCHANGED <<user, row, active, cookie, req, tx, late, faults>>

\* pg_advisory_xact_lock, held until the transaction ends.
Lock(i) ==
    /\ At(i, "lock", "check")
    /\ \A k \in Requests : pc[k] \in {"check", "count", "insert"} => req[k].owner # req[i].owner
    /\ UNCHANGED <<user, row, active, cookie, req, tx, late, faults>>

\* Mutants: only unfinished jobs count as duplicates; the error of a duplicate
\* leaves the transaction open.
SameUpload(i, j) == row[j].by = req[i].owner /\ row[j].file = req[i].file
CheckUnfinished(i) ==
    /\ pc[i] = "check"
    /\ IF \E j \in Running(req[i].owner) : SameUpload(i, j)
       THEN RolledBack(i)
       ELSE /\ At(i, "check", "count")
            /\ UNCHANGED <<user, row, active, cookie, req, tx, late, faults>>
CheckWithoutRollback(i) ==
    /\ At(i, "check", "count")
    /\ ~\E j \in Owned(req[i].owner) : SameUpload(i, j)
    /\ UNCHANGED <<user, row, active, cookie, req, tx, late, faults>>

\* One upload, one job: the object key names the owner it was uploaded for.
CheckDuplicate(i) ==
    /\ pc[i] = "check"
    /\ IF \E j \in Owned(req[i].owner) : SameUpload(i, j)
       THEN RolledBack(i)
       ELSE /\ At(i, "check", "count")
            /\ UNCHANGED <<user, row, active, cookie, req, tx, late, faults>>

CountActive(i) ==
    /\ pc[i] = "count"
    /\ IF Cardinality(Running(req[i].owner)) >= MaxActive
       THEN RolledBack(i)
       ELSE /\ At(i, "count", "insert")
            /\ UNCHANGED <<user, row, active, cookie, req, tx, late, faults>>

\* Jobs S become u's: too late for a deletion that has looked for them.
Belated(u, S) ==
    IF \/ u \in Users /\ user[u] = "deleted"
       \/ \E k \in Requests : pc[k] \in {"mark", "purge", "remove"} /\ req[k].user = u
    THEN late \cup S ELSE late

\* INSERT, the outbox row, COMMIT.
InsertJob(i) ==
    /\ At(i, "insert", "done")
    /\ row' = [row EXCEPT ![i] = Job(req[i].owner, req[i].file)]
    /\ late' = Belated(req[i].owner, {i})
    /\ UNCHANGED <<user, active, cookie, req, tx, faults>>

-----------------------------------------------------------------------------
(* registerUser and createUserSession *)

\* The unique index on the name makes a second registration wait for the first.
InsertUser(i) ==
    /\ pc[i] = "user"
    /\ \A k \in Requests : pc[k] \in {"adopt", "session"} /\ req[k].kind = "register"
                              => req[k].user # req[i].user
    /\ IF user[req[i].user] # "absent"
       THEN RolledBack(i)
       ELSE /\ At(i, "user", "adopt")
            /\ UNCHANGED <<user, row, active, cookie, req, tx, late, faults>>

\* Mutant: the rows are found first and changed later.
AdoptUnlocked(i) ==
    /\ At(i, "adopt", "session")
    /\ tx' = [tx EXCEPT ![i].rows = Owned(req[i].browser)]
    /\ UNCHANGED <<user, row, active, cookie, req, late, faults>>

\* adoptAnonymousJobs
Adopt(i) ==
    /\ At(i, "adopt", "session")
    /\ Lockable(i, Owned(req[i].browser))
    /\ tx' = [tx EXCEPT ![i].rows = Owned(req[i].browser)]
    /\ UNCHANGED <<user, row, active, cookie, req, late, faults>>

\* Mutant: user_sessions without its foreign key.
InsertSessionUnchecked(i) ==
    /\ At(i, "session", "respond")
    /\ user' = [user EXCEPT ![req[i].user] = IF @ = "absent" THEN "exists" ELSE @]
    /\ row' = [j \in Requests |-> IF j \in tx[i].rows
                                  THEN [row[j] EXCEPT !.owner = req[i].user]
                                  ELSE row[j]]
    /\ active' = (active \ {req[i].token}) \cup {i}
    /\ late' = Belated(req[i].user, tx[i].rows)
    /\ Release(i)
    /\ UNCHANGED <<cookie, req, faults>>

\* insertUserSession and COMMIT: the old cookie's session is revoked. A user that
\* is gone violates the foreign key.
InsertSession(i) ==
    /\ pc[i] = "session"
    /\ IF user[req[i].user] = "deleted"
       THEN RolledBack(i)
       ELSE /\ At(i, "session", "respond")
            /\ user' = [user EXCEPT ![req[i].user] = "exists"]
            /\ row' = [j \in Requests |-> IF j \in tx[i].rows
                                          THEN [row[j] EXCEPT !.owner = req[i].user]
                                          ELSE row[j]]
            /\ active' = (active \ {req[i].token}) \cup {i}
            /\ late' = Belated(req[i].user, tx[i].rows)
            /\ Release(i)
            /\ UNCHANGED <<cookie, req, faults>>

-----------------------------------------------------------------------------
(* Sessions *)

SessionsOf(u) == {k \in active : req[k].user = u}

\* A session runs out; deleteInactiveUserSessions removes only such rows, and
\* revoked ones.
ExpireSession(i) ==
    /\ i \in active
    /\ active' = active \ {i}
    /\ UNCHANGED <<user, row, cookie, req, pc, tx, late, faults>>

\* revokeUserSession
Revoke(i) ==
    /\ At(i, "revoke", "respond")
    /\ active' = active \ {req[i].token}
    /\ UNCHANGED <<user, row, cookie, req, tx, late, faults>>

\* revokeOtherUserSessions
RevokeOthers(i) ==
    /\ At(i, "others", "respond")
    /\ active' = active \ (SessionsOf(req[i].user) \ {req[i].token})
    /\ UNCHANGED <<user, row, cookie, req, tx, late, faults>>

\* changeUserPassword: the same in a transaction that fails when the account is
\* gone.
ChangePassword(i) ==
    /\ pc[i] = "change"
    /\ IF user[req[i].user] # "exists"
       THEN RolledBack(i)
       ELSE /\ At(i, "change", "respond")
            /\ active' = active \ (SessionsOf(req[i].user) \ {req[i].token})
            /\ UNCHANGED <<user, row, cookie, req, tx, late, faults>>

-----------------------------------------------------------------------------
(* deleteUserAccount *)

Write(i, S) == /\ Lockable(i, S)
               /\ UNCHANGED <<user, row, active, cookie, req, late, faults>>

CancelJobs(i) ==
    LET S == Running(req[i].user)
    IN  /\ At(i, "cancel", "mark")
        /\ Write(i, S)
        /\ tx' = [tx EXCEPT ![i].rows = S, ![i].cancelled = S]

\* Mutant: only the jobs just cancelled are marked.
MarkCancelled(i) ==
    /\ At(i, "mark", "purge")
    /\ Write(i, tx[i].cancelled)
    /\ tx' = [tx EXCEPT ![i].marked = tx[i].cancelled]

MarkJobs(i) ==
    LET S == Owned(req[i].user)
    IN  /\ At(i, "mark", "purge")
        /\ Write(i, S)
        /\ tx' = [tx EXCEPT ![i].rows = @ \cup S, ![i].marked = S]

PurgeJobs(i) ==
    LET S == {j \in Owned(req[i].user) : row[j].cleaned}
    IN  /\ At(i, "purge", "remove")
        /\ Write(i, S)
        /\ tx' = [tx EXCEPT ![i].rows = @ \cup S, ![i].purged = S]

\* What COMMIT makes of a row.
Deleted(t, j) ==
    [row[j] EXCEPT !.state = IF j \in t.purged THEN "removed"
                             ELSE IF j \in t.cancelled THEN "settled" ELSE @,
                   !.marked = @ \/ j \in t.marked]

\* DELETE FROM users, which takes the sessions with it, and COMMIT.
DeleteUser(i) ==
    /\ pc[i] = "remove"
    /\ IF user[req[i].user] # "exists"
       THEN RolledBack(i)
       ELSE /\ At(i, "remove", "respond")
            /\ user' = [user EXCEPT ![req[i].user] = "deleted"]
            /\ row' = [j \in Requests |-> IF j \in tx[i].rows THEN Deleted(tx[i], j)
                                          ELSE row[j]]
            /\ active' = active \ SessionsOf(req[i].user)
            /\ Release(i)
            /\ UNCHANGED <<cookie, req, late, faults>>

-----------------------------------------------------------------------------
(* Workers and the storage cleanup *)

\* A worker's last update, or cancelJob.
SettleJob(j) ==
    /\ row[j].state = "active"
    /\ Lockable(0, {j})
    /\ row' = [row EXCEPT ![j].state = "settled"]
    /\ UNCHANGED <<user, active, cookie, req, pc, tx, late, faults>>

\* markCleanupCompleted, some time after the job expired or was marked.
CleanJob(j) ==
    /\ row[j].state = "settled" \/ (row[j].state = "active" /\ row[j].marked)
    /\ ~row[j].cleaned
    /\ Lockable(0, {j})
    /\ row' = [row EXCEPT ![j].cleaned = TRUE,
                          ![j].state = IF row[j].marked THEN "removed" ELSE @]
    /\ UNCHANGED <<user, active, cookie, req, pc, tx, late, faults>>

-----------------------------------------------------------------------------
Work(i) ==
    \/ Lock(i)       \/ CheckDuplicate(i) \/ CountActive(i) \/ InsertJob(i)
    \/ InsertUser(i) \/ Adopt(i)          \/ InsertSession(i)
    \/ Revoke(i)     \/ RevokeOthers(i)   \/ ChangePassword(i)
    \/ CancelJobs(i) \/ MarkJobs(i)       \/ PurgeJobs(i)   \/ DeleteUser(i)
    \/ Respond(i)

Next ==
    \E i \in Requests : \/ \E b \in Browsers : Receive(i, b)
                        \/ Work(i)
                        \/ Fail(i)
                        \/ ExpireSession(i)
                        \/ SettleJob(i)
                        \/ CleanJob(i)

Spec == Init /\ [][Next]_vars

\* PostgreSQL answers. No browser, worker or cleanup owes anything.
FairSpec == Spec /\ \A i \in Requests : WF_vars(Work(i))

-----------------------------------------------------------------------------
(* Properties *)

\* Requests of one owner that arrive together cannot take the same free place: of
\* the unfinished jobs an owner has, at most MaxActive are of its own making (the
\* others were adopted; comment on the advisory lock in createJob).
CreationLimit ==
    \A o \in Owners :
        Cardinality({j \in Running(o) : row[j].by = o}) <= MaxActive

\* Nor can they make two jobs of one upload, as long as the first is still theirs.
OneJobPerUpload ==
    \A o \in Owners : \A i, j \in Owned(o) :
        row[i].by = o /\ row[j].by = o /\ row[i].file = row[j].file => i = j

\* What createJob checks before it inserts still holds afterwards, whatever came
\* between its statements.
AdmissionLimits == CreationLimit /\ OneJobPerUpload

\* A browser that signs in to two accounts at once gives each job to one of them,
\* for good (adoptAnonymousJobs).
AdoptedOnce ==
    [][\A j \in Requests : Exists(j) /\ row[j].owner \in Users
          => row'[j].owner = row[j].owner]_row

\* No session outlives its account, whichever of a login and a deletion came first.
SessionsHaveUsers == \A i \in active : user[req[i].user] = "exists"

\* Every job a deleted account had when its deletion began is stopped and marked
\* for removal, whatever its worker and the cleanup did meanwhile (README.md,
\* "Account deletion cancels active processing and schedules ...").
DeletionReachesJobs ==
    \A j \in Requests \ late :
        Exists(j) /\ row[j].owner \in Users /\ user[row[j].owner] = "deleted"
            => row[j].marked /\ row[j].state = "settled"

\* A deletion reaches all an account had when it began, in any order of requests.
DeletionIsComplete == SessionsHaveUsers /\ DeletionReachesJobs

\* Every request ends: no transaction waits for ever for a lock.
RequestsEnd == \A i \in Requests : pc[i] # "none" ~> pc[i] = "done"

\* "Account deletion cancels active processing and schedules owned private audio
\* and job records for removal" (README.md): all of them.
DeletedOwnsNothing ==
    \A j \in Requests :
        Exists(j) /\ row[j].owner \in Users /\ user[row[j].owner] = "deleted"
            => row[j].marked

=============================================================================

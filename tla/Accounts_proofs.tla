--------------------------- MODULE Accounts_proofs ---------------------------
(***************************************************************************)
(* For any number of accounts, browsers, uploads, requests and faults: the *)
(* tables are well formed, an owner's jobs stay within the limits, a job   *)
(* is adopted once, and a deletion reaches all its account had.            *)
(***************************************************************************)
EXTENDS Accounts, FiniteSetTheorems, TLAPS

USE AccountsAssumption

-----------------------------------------------------------------------------
(* Types.                                                                   *)

Asked == [kind : Kinds, browser : Browsers, owner : Owners, user : Owners,
          file : Files \cup {NoFile}, token : Requests \cup {0}]

\* What a request asks for, by what its browser may ask: the account's own
\* operations name a user, and a job an upload.
WellAsked(r) ==
    /\ r \in Asked
    /\ r.token \in Issuers \cup {0}
    /\ r.kind \notin {"create", "logout"} => r.user \in Users
    /\ r.kind = "create" => r.file \in Files

\* The statement a request is at is one of its kind.
Asking(i) ==
    /\ pc[i] = "none" <=> req[i] = NoRequest
    /\ req[i] # NoRequest => WellAsked(req[i])
    /\ pc[i] \in {"lock", "check", "count", "insert"} => req[i].kind = "create"
    /\ pc[i] = "user" => req[i].kind = "register"
    /\ pc[i] \in {"adopt", "session"} => req[i].kind \in {"register", "login"}
    /\ pc[i] \in {"cancel", "mark", "purge", "remove"} => req[i].kind = "delete"
    /\ pc[i] = "revoke" => req[i].kind = "logout"
    /\ pc[i] \in {"change", "others"} => req[i].kind \in {"password", "others"}
    /\ pc[i] = "respond" => req[i].kind # "create"

RequestsTyped ==
    /\ pc \in [Requests -> Locations]
    /\ req \in [Requests -> Asked \cup {NoRequest}]
    /\ \A i \in Requests : Asking(i)

Writes == [rows : SUBSET Requests, cancelled : SUBSET Requests,
           marked : SUBSET Requests, purged : SUBSET Requests]

SessionsTyped ==
    /\ user \in [Users -> {"absent", "exists", "deleted"}]
    /\ active \in SUBSET Issuers
    /\ cookie \in [Browsers -> Issuers \cup {0}]

RowsTyped ==
    /\ row \in [Requests -> Row \cup {NoJob}]
    /\ tx \in [Requests -> Writes]
    /\ late \in SUBSET Requests
    /\ faults \in 0..MaxFaults

\* What a transaction wrote are rows of jobs, which stay as it found them until it
\* ends: a login's belong to its browser, a deletion's to its user.
Holds(k) ==
    /\ pc[k] \notin {"session", "mark", "purge", "remove"} => tx[k].rows = {}
    /\ \A j \in tx[k].rows : Exists(j)
    /\ tx[k].cancelled \cup tx[k].marked \cup tx[k].purged \subseteq tx[k].rows
    /\ pc[k] = "session" => \A j \in tx[k].rows : row[j].owner = req[k].browser
    /\ pc[k] \in {"mark", "purge", "remove"} =>
            \A j \in tx[k].rows : row[j].owner = req[k].user

\* No two transactions wrote one row.
LocksInv ==
    /\ \A k \in Requests : Holds(k)
    /\ \A k, l \in Requests : k # l => tx[k].rows \cap tx[l].rows = {}

\* A job is the row of a request that has made it; a visitor's was made by them.
JobsInv ==
    \A j \in Requests :
        /\ row[j] # NoJob => pc[j] = "done"
        /\ Exists(j) /\ row[j].owner \in Browsers => row[j].by = row[j].owner

TypeInv == RequestsTyped /\ SessionsTyped /\ RowsTyped

LEMMA WritesAreRecords == [DOMAIN NoWrites -> SUBSET Requests] = Writes
<1>1. DOMAIN NoWrites = {"rows", "cancelled", "marked", "purged"}
  BY DEF NoWrites
<1>2. QED
  BY <1>1 DEF Writes

-----------------------------------------------------------------------------
(* Requests.                                                                *)

\* A browser acts as the user of its session, or as itself.
LEMMA PrincipalIsOwner ==
    ASSUME TypeInv, NEW b \in Browsers
    PROVE  /\ Principal(b) \in Owners
           /\ SignedIn(b) => Principal(b) \in Users
           /\ cookie[b] \in Issuers \cup {0}
           /\ cookie[b] \in Requests \cup {0}
<1>1. cookie[b] \in Issuers \cup {0}
  BY DEF TypeInv, SessionsTyped
<1>2. ASSUME SignedIn(b) PROVE req[cookie[b]].user \in Users
  <2>1. cookie[b] \in Issuers
    BY <1>2 DEF SignedIn, TypeInv, SessionsTyped
  <2>2. cookie[b] \in Requests /\ req[cookie[b]].kind \in {"register", "login"}
    BY <2>1 DEF Issuers
  <2>3. req[cookie[b]] # NoRequest
    BY <2>2 DEF NoRequest
  <2>4. QED
    BY <2>2, <2>3 DEF TypeInv, RequestsTyped, Asking, WellAsked
<1>3. QED
  BY <1>1, <1>2 DEF Principal, Owners, Issuers

LEMMA AskedForIsWellAsked ==
    ASSUME TypeInv, NEW b \in Browsers,
           NEW r \in Creations(b) \cup SignIns(b) \cup Managed(b)
    PROVE  WellAsked(r)
<1>1. ASSUME NEW k \in Kinds, NEW u \in Owners, NEW f \in Files \cup {NoFile},
             k \notin {"create", "logout"} => u \in Users, k = "create" => f \in Files
      PROVE  WellAsked(Request(b, k, u, f))
  BY <1>1, PrincipalIsOwner DEF WellAsked, Asked, Request
<1>2. CASE r \in Creations(b)
  BY <1>1, <1>2, PrincipalIsOwner DEF Creations, Kinds
<1>3. CASE r \in SignIns(b)
  BY <1>1, <1>3, PrincipalIsOwner DEF SignIns, Kinds, Owners
<1>4. CASE r \in Managed(b)
  BY <1>1, <1>4, PrincipalIsOwner DEF Managed, Kinds
<1>5. QED
  BY <1>2, <1>3, <1>4

\* The session of a request that issues one is for the user it names.
LEMMA IssuerHasUser ==
    ASSUME TypeInv, NEW i \in Requests,
           req[i].kind \in {"register", "login", "password", "others", "delete"}
    PROVE  req[i] # NoRequest /\ req[i].user \in Users
<1>1. req[i] # NoRequest
  BY DEF NoRequest
<1>2. QED
  BY <1>1 DEF TypeInv, RequestsTyped, Asking, WellAsked

LEMMA RequestGoesOn ==
    ASSUME TypeInv, NEW i \in Requests, NEW to \in Locations \ {"none"},
           UNCHANGED req, pc' = [pc EXCEPT ![i] = to], pc[i] # "none",
           to \in {"lock", "check", "count", "insert"} => req[i].kind = "create",
           to = "user" => req[i].kind = "register",
           to \in {"adopt", "session"} => req[i].kind \in {"register", "login"},
           to \in {"cancel", "mark", "purge", "remove"} => req[i].kind = "delete",
           to = "revoke" => req[i].kind = "logout",
           to \in {"change", "others"} => req[i].kind \in {"password", "others"},
           to = "respond" => req[i].kind # "create"
    PROVE  RequestsTyped'
BY DEF TypeInv, RequestsTyped, Asking, WellAsked, Issuers

LEMMA RequestsStep == TypeInv /\ [Next]_vars => RequestsTyped'
<1> SUFFICES ASSUME TypeInv, [Next]_vars PROVE RequestsTyped'
  OBVIOUS
<1> USE DEF Locations, InTransaction
<1>a. ASSUME UNCHANGED <<pc, req>> PROVE RequestsTyped'
  BY <1>a DEF TypeInv, RequestsTyped, Asking, WellAsked, Issuers
<1>b. ASSUME NEW i \in Requests, RolledBack(i), pc[i] # "none" PROVE RequestsTyped'
  BY <1>b, RequestGoesOn DEF RolledBack
<1>c. \A i \in Requests : Asking(i)
  BY DEF TypeInv, RequestsTyped
<1>1. ASSUME NEW i \in Requests, NEW b \in Browsers, Receive(i, b)
      PROVE  RequestsTyped'
  <2>1. PICK r \in Creations(b) \cup SignIns(b) \cup Managed(b) :
          /\ req' = [req EXCEPT ![i] = r]
          /\ pc' = [pc EXCEPT ![i] = First[r.kind]]
    BY <1>1 DEF Receive
  <2>2. WellAsked(r) /\ r # NoRequest
    BY AskedForIsWellAsked DEF WellAsked, Asked, NoRequest, Kinds
  <2>3. /\ First[r.kind] \in Locations \ {"none"}
        /\ First[r.kind] = "lock" => r.kind = "create"
        /\ First[r.kind] = "user" => r.kind = "register"
        /\ First[r.kind] = "adopt" => r.kind = "login"
        /\ First[r.kind] = "cancel" => r.kind = "delete"
        /\ First[r.kind] = "revoke" => r.kind = "logout"
        /\ First[r.kind] \in {"change", "others"} => r.kind \in {"password", "others"}
        /\ First[r.kind] \in {"lock", "user", "adopt", "revoke", "change", "others",
                             "cancel"}
    <3>1. r.kind \in Kinds
      BY <2>2 DEF WellAsked, Asked
    <3>2. QED
      BY <3>1 DEF First, Kinds
  <2>4. req[i] = NoRequest
    BY <1>1, <1>c DEF Receive, Asking
  <2>5. Issuers \subseteq Issuers'
    BY <2>1, <2>4 DEF Issuers, NoRequest, TypeInv, RequestsTyped
  <2>6. WellAsked(r)'
    BY <2>2, <2>5 DEF WellAsked
  <2>7. ASSUME NEW k \in Requests PROVE Asking(k)'
    <3>1. CASE k = i
      BY <3>1, <2>1, <2>2, <2>3, <2>6 DEF Asking, TypeInv, RequestsTyped
    <3>2. CASE k # i
      <4>1. req'[k] = req[k] /\ pc'[k] = pc[k]
        BY <2>1, <3>2 DEF TypeInv, RequestsTyped
      <4>2. QED
        BY <4>1, <2>5, <1>c DEF Asking, WellAsked
    <3>3. QED
      BY <3>1, <3>2
  <2>8. QED
    BY <2>1, <2>2, <2>3, <2>7 DEF TypeInv, RequestsTyped, WellAsked
<1>2. ASSUME NEW i \in Requests, Lock(i) PROVE RequestsTyped'
  BY <1>2, <1>c, RequestGoesOn DEF Lock, At, Asking
<1>3. ASSUME NEW i \in Requests, CheckDuplicate(i) PROVE RequestsTyped'
  BY <1>3, <1>b, <1>c, RequestGoesOn DEF CheckDuplicate, At, Asking
<1>4. ASSUME NEW i \in Requests, CountActive(i) PROVE RequestsTyped'
  BY <1>4, <1>b, <1>c, RequestGoesOn DEF CountActive, At, Asking
<1>5. ASSUME NEW i \in Requests, InsertJob(i) PROVE RequestsTyped'
  BY <1>5, <1>c, RequestGoesOn DEF InsertJob, At, Asking
<1>6. ASSUME NEW i \in Requests, InsertUser(i) PROVE RequestsTyped'
  BY <1>6, <1>b, <1>c, RequestGoesOn DEF InsertUser, At, Asking
<1>7. ASSUME NEW i \in Requests, Adopt(i) PROVE RequestsTyped'
  BY <1>7, <1>c, RequestGoesOn DEF Adopt, At, Asking
<1>8. ASSUME NEW i \in Requests, InsertSession(i) PROVE RequestsTyped'
  BY <1>8, <1>b, <1>c, RequestGoesOn DEF InsertSession, At, Asking
<1>9. ASSUME NEW i \in Requests, Revoke(i) PROVE RequestsTyped'
  BY <1>9, <1>c, RequestGoesOn DEF Revoke, At, Asking
<1>10. ASSUME NEW i \in Requests, RevokeOthers(i) PROVE RequestsTyped'
  BY <1>10, <1>c, RequestGoesOn DEF RevokeOthers, At, Asking
<1>11. ASSUME NEW i \in Requests, ChangePassword(i) PROVE RequestsTyped'
  BY <1>11, <1>b, <1>c, RequestGoesOn DEF ChangePassword, At, Asking
<1>12. ASSUME NEW i \in Requests, CancelJobs(i) PROVE RequestsTyped'
  BY <1>12, <1>c, RequestGoesOn DEF CancelJobs, At, Asking, Write
<1>13. ASSUME NEW i \in Requests, MarkJobs(i) PROVE RequestsTyped'
  BY <1>13, <1>c, RequestGoesOn DEF MarkJobs, At, Asking, Write
<1>14. ASSUME NEW i \in Requests, PurgeJobs(i) PROVE RequestsTyped'
  BY <1>14, <1>c, RequestGoesOn DEF PurgeJobs, At, Asking, Write
<1>15. ASSUME NEW i \in Requests, DeleteUser(i) PROVE RequestsTyped'
  BY <1>15, <1>b, <1>c, RequestGoesOn DEF DeleteUser, At, Asking
<1>16. ASSUME NEW i \in Requests, Respond(i) PROVE RequestsTyped'
  BY <1>16, <1>c, RequestGoesOn DEF Respond, At, Asking
<1>17. ASSUME NEW i \in Requests, Fail(i) PROVE RequestsTyped'
  BY <1>17, <1>c, RequestGoesOn DEF Fail, At, Asking
<1>18. ASSUME NEW i \in Requests, ExpireSession(i) PROVE RequestsTyped'
  BY <1>18, <1>a DEF ExpireSession
<1>19. ASSUME NEW i \in Requests, SettleJob(i) PROVE RequestsTyped'
  BY <1>19, <1>a DEF SettleJob
<1>20. ASSUME NEW i \in Requests, CleanJob(i) PROVE RequestsTyped'
  BY <1>20, <1>a DEF CleanJob
<1>21. CASE UNCHANGED vars
  BY <1>21, <1>a DEF vars
<1>22. QED
  BY <1>1, <1>2, <1>3, <1>4, <1>5, <1>6, <1>7, <1>8, <1>9, <1>10, <1>11, <1>12,
     <1>13, <1>14, <1>15, <1>16, <1>17, <1>18, <1>19, <1>20, <1>21
     DEF Next, Work

-----------------------------------------------------------------------------
(* What a step does to the rows of jobs.                                    *)

\* No step gives a job another maker or upload, or brings one back.
RowMoves(j) ==
    /\ row[j] \in Row /\ row'[j] \in Row
    /\ row'[j].by = row[j].by /\ row'[j].file = row[j].file
    /\ row'[j].state = "active" => row[j].state = "active"
    /\ row'[j].state = "settled" => row[j].state \in {"active", "settled"}
    /\ row[j].marked => row'[j].marked

LEMMA JobRows ==
    ASSUME TypeInv, NEW j \in Requests
    PROVE  /\ row[j] \in Row \cup {NoJob}
           /\ row[j] # NoJob => row[j] \in Row
           /\ Exists(j) => row[j] \in Row
BY DEF TypeInv, RowsTyped, Exists, NoJob

LEMMA SettleEffect ==
    ASSUME TypeInv, NEW j \in Requests, SettleJob(j)
    PROVE  /\ RowMoves(j) /\ row'[j].owner = row[j].owner
           /\ row[j].state = "active" /\ row'[j].state = "settled"
           /\ \A k \in Requests \ {j} : row'[k] = row[k]
           /\ DOMAIN row' = Requests
           /\ \A k \in Requests : j \notin tx[k].rows
<1>1. row[j] \in Row
  BY JobRows DEF SettleJob, Exists
<1>2. row' = [row EXCEPT ![j].state = "settled"] /\ row \in [Requests -> Row \cup {NoJob}]
  BY DEF SettleJob, TypeInv, RowsTyped
<1>3. row'[j] = [row[j] EXCEPT !.state = "settled"]
  BY <1>2
<1>4. RowMoves(j) /\ row'[j].owner = row[j].owner /\ row'[j].state = "settled"
  BY <1>1, <1>3 DEF RowMoves, Row, SettleJob
<1>5. \A k \in Requests : j \notin tx[k].rows
  BY DEF SettleJob, Lockable, Requests
<1>6. QED
  BY <1>2, <1>4, <1>5 DEF SettleJob

LEMMA CleanEffect ==
    ASSUME TypeInv, NEW j \in Requests, CleanJob(j)
    PROVE  /\ RowMoves(j) /\ row'[j].owner = row[j].owner
           /\ row[j].state \in {"active", "settled"}
           /\ row'[j].state \in {"settled", "removed"}
           /\ \A k \in Requests \ {j} : row'[k] = row[k]
           /\ DOMAIN row' = Requests
           /\ \A k \in Requests : j \notin tx[k].rows
<1>1. row[j] \in Row
  BY JobRows DEF CleanJob, Exists
<1>2. \A k \in Requests : j \notin tx[k].rows
  BY DEF CleanJob, Lockable, Requests
<1>3. row \in [Requests -> Row \cup {NoJob}]
  BY DEF TypeInv, RowsTyped
<1>4. row'[j] = [row[j] EXCEPT !.cleaned = TRUE,
                              !.state = IF row[j].marked THEN "removed" ELSE row[j].state]
  BY <1>3 DEF CleanJob
<1>5. row'[j].state \in {"settled", "removed"}
  BY <1>1, <1>4 DEF CleanJob, Row
<1>6. RowMoves(j) /\ row'[j].owner = row[j].owner
  BY <1>1, <1>4 DEF RowMoves, Row
<1>7. DOMAIN row' = Requests /\ \A k \in Requests \ {j} : row'[k] = row[k]
  BY <1>3 DEF CleanJob
<1>8. QED
  BY <1>2, <1>5, <1>6, <1>7 DEF CleanJob

LEMMA InsertEffect ==
    ASSUME TypeInv, NEW i \in Requests, InsertJob(i)
    PROVE  /\ row'[i] = Job(req[i].owner, req[i].file) /\ row'[i] \in Row
           /\ \A k \in Requests \ {i} : row'[k] = row[k]
           /\ DOMAIN row' = Requests
<1>1. req[i].kind = "create"
  BY DEF InsertJob, At, TypeInv, RequestsTyped, Asking
<1>2. WellAsked(req[i])
  BY <1>1 DEF TypeInv, RequestsTyped, Asking, NoRequest
<1>3. req[i].owner \in Owners /\ req[i].file \in Files
  BY <1>1, <1>2 DEF WellAsked, Asked
<1>4. Job(req[i].owner, req[i].file) \in Row
  BY <1>3 DEF Job, Row
<1>5. QED
  BY <1>4 DEF InsertJob, TypeInv, RowsTyped

\* COMMIT of a login or a registration.
LEMMA AdoptionEffect ==
    ASSUME TypeInv, LocksInv, NEW i \in Requests, InsertSession(i),
           user[req[i].user] # "deleted"
    PROVE  /\ req[i].user \in Users /\ req[i].kind \in {"register", "login"}
           /\ \A j \in tx[i].rows : /\ RowMoves(j) /\ Exists(j)
                                    /\ row[j].owner = req[i].browser
                                    /\ row'[j].owner = req[i].user
                                    /\ row'[j].state = row[j].state
           /\ \A j \in Requests \ tx[i].rows : row'[j] = row[j]
           /\ DOMAIN row' = Requests
<1>1. req[i].kind \in {"register", "login"}
  BY DEF InsertSession, TypeInv, RequestsTyped, Asking
<1>2. req[i].user \in Users
  BY <1>1, IssuerHasUser
<1>3. row' = [j \in Requests |-> IF j \in tx[i].rows
                                 THEN [row[j] EXCEPT !.owner = req[i].user]
                                 ELSE row[j]]
  BY DEF InsertSession
<1>4. ASSUME NEW j \in tx[i].rows
      PROVE  /\ RowMoves(j) /\ Exists(j)
             /\ row[j].owner = req[i].browser /\ row'[j].owner = req[i].user
             /\ row'[j].state = row[j].state
  <2>1. j \in Requests /\ Exists(j) /\ row[j].owner = req[i].browser
    BY DEF InsertSession, LocksInv, Holds, TypeInv, RowsTyped, Writes
  <2>2. row[j] \in Row
    BY <2>1, JobRows
  <2>3. row'[j] = [row[j] EXCEPT !.owner = req[i].user]
    BY <1>3, <2>1
  <2>4. QED
    BY <1>2, <2>1, <2>2, <2>3 DEF RowMoves, Row, Owners
<1>5. QED
  BY <1>1, <1>2, <1>3, <1>4

\* COMMIT of a deletion.
LEMMA DeletionEffect ==
    ASSUME TypeInv, LocksInv, NEW i \in Requests, DeleteUser(i),
           user[req[i].user] = "exists"
    PROVE  /\ req[i].user \in Users
           /\ \A j \in tx[i].rows : /\ RowMoves(j) /\ Exists(j)
                                    /\ row'[j].owner = row[j].owner
                                    /\ j \in tx[i].marked => row'[j].marked
                                    /\ j \in tx[i].cancelled => row'[j].state # "active"
           /\ \A j \in Requests \ tx[i].rows : row'[j] = row[j]
           /\ DOMAIN row' = Requests
<1>1. req[i].kind = "delete"
  BY DEF DeleteUser, TypeInv, RequestsTyped, Asking
<1>2. req[i].user \in Users
  BY <1>1, IssuerHasUser
<1>3. row' = [j \in Requests |-> IF j \in tx[i].rows THEN Deleted(tx[i], j) ELSE row[j]]
  BY DEF DeleteUser
<1>4. ASSUME NEW j \in tx[i].rows
      PROVE  /\ RowMoves(j) /\ Exists(j)
             /\ row'[j].owner = row[j].owner
             /\ j \in tx[i].marked => row'[j].marked
             /\ j \in tx[i].cancelled => row'[j].state # "active"
  <2>1. j \in Requests /\ Exists(j)
    BY DEF LocksInv, Holds, TypeInv, RowsTyped, Writes
  <2>2. row[j] \in Row
    BY <2>1, JobRows
  <2> DEFINE state == IF j \in tx[i].purged THEN "removed"
                      ELSE IF j \in tx[i].cancelled THEN "settled" ELSE row[j].state
             marked == row[j].marked \/ j \in tx[i].marked
  <2>3. row'[j] = [row[j] EXCEPT !.state = state, !.marked = marked]
    BY <1>3, <2>1, Zenon DEF Deleted
  <2>4. /\ state \in {"active", "settled", "removed"} /\ marked \in BOOLEAN
        /\ row[j].marked => marked
        /\ j \in tx[i].marked => marked
        /\ j \in tx[i].cancelled => state # "active"
        /\ state = "active" => row[j].state = "active"
        /\ state = "settled" => row[j].state \in {"active", "settled"}
    BY <2>1, <2>2 DEF Row, Exists
  <2> HIDE DEF state, marked
  <2>5. /\ row'[j] \in Row /\ row'[j].state = state /\ row'[j].marked = marked
        /\ row'[j].owner = row[j].owner
        /\ row'[j].by = row[j].by /\ row'[j].file = row[j].file
    BY <2>2, <2>3, <2>4 DEF Row
  <2>6. QED
    BY <2>1, <2>2, <2>4, <2>5 DEF RowMoves
<1>5. QED
  BY <1>2, <1>3, <1>4

-----------------------------------------------------------------------------
(* What a step does to the transactions.                                    *)

\* The transaction of i has written these rows, no other has written any.
Wrote(i, rows, cancelled, marked, purged) ==
    /\ tx' \in [Requests -> Writes]
    /\ tx'[i].rows = rows /\ tx'[i].cancelled = cancelled
    /\ tx'[i].marked = marked /\ tx'[i].purged = purged
    /\ \A k \in Requests \ {i} : tx'[k] = tx[k]

LEMMA ReleaseEffect ==
    ASSUME TypeInv, NEW i \in Requests, Release(i)
    PROVE  Wrote(i, {}, {}, {}, {})
<1>1. NoWrites \in Writes
  BY DEF NoWrites, Writes
<1>2. QED
  BY <1>1 DEF Release, Wrote, TypeInv, RowsTyped, NoWrites

LEMMA NothingWritten ==
    ASSUME TypeInv, LocksInv, NEW i \in Requests,
           pc[i] \notin {"session", "mark", "purge", "remove"}
    PROVE  /\ tx[i].rows = {} /\ tx[i].cancelled = {}
           /\ tx[i].marked = {} /\ tx[i].purged = {}
BY DEF LocksInv, Holds

LEMMA AdoptEffect ==
    ASSUME TypeInv, LocksInv, NEW i \in Requests, Adopt(i)
    PROVE  Wrote(i, Owned(req[i].browser), {}, {}, {})
<1>1. Owned(req[i].browser) \in SUBSET Requests
  BY DEF Owned
<1>2. /\ tx[i].rows = {} /\ tx[i].cancelled = {}
      /\ tx[i].marked = {} /\ tx[i].purged = {}
  BY NothingWritten DEF Adopt, At
<1>3. QED
  BY <1>1, <1>2 DEF Adopt, Wrote, TypeInv, RowsTyped, Writes

LEMMA CancelEffect ==
    ASSUME TypeInv, LocksInv, NEW i \in Requests, CancelJobs(i)
    PROVE  Wrote(i, Running(req[i].user), Running(req[i].user), {}, {})
<1>1. Running(req[i].user) \in SUBSET Requests
  BY DEF Running, Owned
<1>2. /\ tx[i].rows = {} /\ tx[i].cancelled = {}
      /\ tx[i].marked = {} /\ tx[i].purged = {}
  BY NothingWritten DEF CancelJobs, At
<1>3. tx' = [tx EXCEPT ![i].rows = Running(req[i].user),
                       ![i].cancelled = Running(req[i].user)]
  BY DEF CancelJobs
<1>4. tx[i] \in Writes
  BY DEF TypeInv, RowsTyped
<1>5. /\ tx'[i].rows = Running(req[i].user) /\ tx'[i].cancelled = Running(req[i].user)
      /\ tx'[i].marked = {} /\ tx'[i].purged = {} /\ tx'[i] \in Writes
  BY <1>1, <1>2, <1>3, <1>4 DEF TypeInv, RowsTyped, Writes
<1>6. QED
  BY <1>3, <1>5 DEF Wrote, TypeInv, RowsTyped

LEMMA MarkEffect ==
    ASSUME TypeInv, NEW i \in Requests, MarkJobs(i)
    PROVE  Wrote(i, tx[i].rows \cup Owned(req[i].user), tx[i].cancelled,
                 Owned(req[i].user), tx[i].purged)
<1>1. Owned(req[i].user) \in SUBSET Requests
  BY DEF Owned
<1>2. tx' = [tx EXCEPT ![i].rows = @ \cup Owned(req[i].user),
                       ![i].marked = Owned(req[i].user)]
  BY DEF MarkJobs
<1>3. tx[i] \in Writes
  BY DEF TypeInv, RowsTyped
<1>4. /\ tx'[i].rows = tx[i].rows \cup Owned(req[i].user)
      /\ tx'[i].marked = Owned(req[i].user)
      /\ tx'[i].cancelled = tx[i].cancelled /\ tx'[i].purged = tx[i].purged
      /\ tx'[i] \in Writes
  BY <1>1, <1>2, <1>3 DEF TypeInv, RowsTyped, Writes
<1>5. QED
  BY <1>2, <1>4 DEF Wrote, TypeInv, RowsTyped

LEMMA PurgeEffect ==
    ASSUME TypeInv, NEW i \in Requests, PurgeJobs(i)
    PROVE  \E S \in SUBSET Owned(req[i].user) :
             /\ Wrote(i, tx[i].rows \cup S, tx[i].cancelled, tx[i].marked, S)
             /\ Lockable(i, S)
<1> DEFINE S == {j \in Owned(req[i].user) : row[j].cleaned}
<1>1. S \in SUBSET Requests /\ S \in SUBSET Owned(req[i].user)
  BY DEF Owned
<1>2. /\ tx' = [tx EXCEPT ![i].rows = @ \cup S, ![i].purged = S]
      /\ Lockable(i, S)
  BY DEF PurgeJobs, Write
<1> HIDE DEF S
<1>3. tx[i] \in Writes
  BY DEF TypeInv, RowsTyped
<1>4. /\ tx'[i].rows = tx[i].rows \cup S /\ tx'[i].purged = S
      /\ tx'[i].cancelled = tx[i].cancelled /\ tx'[i].marked = tx[i].marked
      /\ tx'[i] \in Writes
  BY <1>1, <1>2, <1>3 DEF TypeInv, RowsTyped, Writes
<1>5. Wrote(i, tx[i].rows \cup S, tx[i].cancelled, tx[i].marked, S)
  BY <1>2, <1>4 DEF Wrote, TypeInv, RowsTyped
<1>6. QED
  BY <1>1, <1>2, <1>5

LEMMA SessionsStep == TypeInv /\ [Next]_vars => SessionsTyped'
<1> SUFFICES ASSUME TypeInv, [Next]_vars PROVE SessionsTyped'
  OBVIOUS
<1>a. ASSUME UNCHANGED <<user, active, cookie, req>> PROVE SessionsTyped'
  BY <1>a DEF TypeInv, SessionsTyped, Issuers
<1>b. ASSUME NEW i \in Requests, RolledBack(i) PROVE SessionsTyped'
  BY <1>a, <1>b DEF RolledBack
<1>c. ASSUME UNCHANGED <<user, cookie, req>>, active' \subseteq active PROVE SessionsTyped'
  BY <1>c DEF TypeInv, SessionsTyped, Issuers
<1>1. ASSUME NEW i \in Requests, NEW b \in Browsers, Receive(i, b)
      PROVE  SessionsTyped'
  <2>1. PICK r : req' = [req EXCEPT ![i] = r]
    BY <1>1 DEF Receive
  <2>2. req[i] = NoRequest
    BY <1>1 DEF Receive, TypeInv, RequestsTyped, Asking
  <2>3. Issuers \subseteq Issuers'
    BY <2>1, <2>2 DEF Issuers, NoRequest, TypeInv, RequestsTyped
  <2>4. UNCHANGED <<user, active, cookie>>
    BY <1>1 DEF Receive
  <2>5. QED
    BY <2>3, <2>4 DEF TypeInv, SessionsTyped
<1>2. ASSUME NEW i \in Requests, Lock(i) PROVE SessionsTyped'
  BY <1>2, <1>a DEF Lock
<1>3. ASSUME NEW i \in Requests, CheckDuplicate(i) PROVE SessionsTyped'
  BY <1>3, <1>a, <1>b DEF CheckDuplicate
<1>4. ASSUME NEW i \in Requests, CountActive(i) PROVE SessionsTyped'
  BY <1>4, <1>a, <1>b DEF CountActive
<1>5. ASSUME NEW i \in Requests, InsertJob(i) PROVE SessionsTyped'
  BY <1>5, <1>a DEF InsertJob
<1>6. ASSUME NEW i \in Requests, InsertUser(i) PROVE SessionsTyped'
  BY <1>6, <1>a, <1>b DEF InsertUser
<1>7. ASSUME NEW i \in Requests, Adopt(i) PROVE SessionsTyped'
  BY <1>7, <1>a DEF Adopt
<1>8. ASSUME NEW i \in Requests, InsertSession(i) PROVE SessionsTyped'
  <2>1. CASE RolledBack(i)
    BY <2>1, <1>b
  <2>2. CASE user[req[i].user] # "deleted"
    <3>1. Issuers' = Issuers /\ UNCHANGED cookie
      BY <1>8, <2>2 DEF InsertSession, Issuers
    <3>2. i \in Issuers
      BY <1>8 DEF InsertSession, TypeInv, RequestsTyped, Asking, Issuers
    <3>3. /\ user' = [user EXCEPT ![req[i].user] = "exists"]
          /\ active' \subseteq active \cup {i}
      BY <1>8, <2>2 DEF InsertSession
    <3>4. QED
      BY <3>1, <3>2, <3>3 DEF TypeInv, SessionsTyped
  <2>3. QED
    BY <1>8, <2>1, <2>2 DEF InsertSession
<1>9. ASSUME NEW i \in Requests, Revoke(i) PROVE SessionsTyped'
  BY <1>9, <1>c DEF Revoke
<1>10. ASSUME NEW i \in Requests, RevokeOthers(i) PROVE SessionsTyped'
  BY <1>10, <1>c DEF RevokeOthers
<1>11. ASSUME NEW i \in Requests, ChangePassword(i) PROVE SessionsTyped'
  BY <1>11, <1>b, <1>c DEF ChangePassword
<1>12. ASSUME NEW i \in Requests, CancelJobs(i) PROVE SessionsTyped'
  BY <1>12, <1>a DEF CancelJobs, Write
<1>13. ASSUME NEW i \in Requests, MarkJobs(i) PROVE SessionsTyped'
  BY <1>13, <1>a DEF MarkJobs, Write
<1>14. ASSUME NEW i \in Requests, PurgeJobs(i) PROVE SessionsTyped'
  BY <1>14, <1>a DEF PurgeJobs, Write
<1>15. ASSUME NEW i \in Requests, DeleteUser(i) PROVE SessionsTyped'
  <2>1. CASE RolledBack(i)
    BY <2>1, <1>b
  <2>2. CASE user[req[i].user] = "exists"
    BY <1>15, <2>2 DEF DeleteUser, TypeInv, SessionsTyped, Issuers
  <2>3. QED
    BY <1>15, <2>1, <2>2 DEF DeleteUser
<1>16. ASSUME NEW i \in Requests, Respond(i) PROVE SessionsTyped'
  <2>1. Issuers' = Issuers /\ UNCHANGED <<user, active>>
    BY <1>16 DEF Respond, Issuers
  <2>2. cookie' \in [Browsers -> Issuers \cup {0}]
    BY <1>16 DEF Respond, TypeInv, SessionsTyped
  <2>3. QED
    BY <2>1, <2>2 DEF TypeInv, SessionsTyped
<1>17. ASSUME NEW i \in Requests, Fail(i) PROVE SessionsTyped'
  BY <1>17, <1>a DEF Fail
<1>18. ASSUME NEW i \in Requests, ExpireSession(i) PROVE SessionsTyped'
  BY <1>18, <1>c DEF ExpireSession
<1>19. ASSUME NEW i \in Requests, SettleJob(i) PROVE SessionsTyped'
  BY <1>19, <1>a DEF SettleJob
<1>20. ASSUME NEW i \in Requests, CleanJob(i) PROVE SessionsTyped'
  BY <1>20, <1>a DEF CleanJob
<1>21. CASE UNCHANGED vars
  BY <1>21, <1>a DEF vars
<1>22. QED
  BY <1>1, <1>2, <1>3, <1>4, <1>5, <1>6, <1>7, <1>8, <1>9, <1>10, <1>11, <1>12,
     <1>13, <1>14, <1>15, <1>16, <1>17, <1>18, <1>19, <1>20, <1>21
     DEF Next, Work

LEMMA RowsStep == TypeInv /\ LocksInv /\ [Next]_vars => RowsTyped'
<1> SUFFICES ASSUME TypeInv, LocksInv, [Next]_vars PROVE RowsTyped'
  OBVIOUS
<1>a. ASSUME UNCHANGED <<row, tx, late, faults>> PROVE RowsTyped'
  BY <1>a DEF TypeInv, RowsTyped
<1>b. ASSUME NEW i \in Requests, UNCHANGED <<row, late>>, Release(i),
             faults' \in 0..MaxFaults
      PROVE RowsTyped'
  BY <1>b, ReleaseEffect DEF TypeInv, RowsTyped, Wrote
<1>c. ASSUME NEW i \in Requests, RolledBack(i) PROVE RowsTyped'
  BY <1>b, <1>c DEF RolledBack, TypeInv, RowsTyped
<1>d. ASSUME UNCHANGED <<row, late, faults>>, tx' \in [Requests -> Writes] PROVE RowsTyped'
  BY <1>d DEF TypeInv, RowsTyped
<1>e. row \in [Requests -> Row \cup {NoJob}] /\ late \in SUBSET Requests
  BY DEF TypeInv, RowsTyped
<1>1. ASSUME NEW i \in Requests, NEW b \in Browsers, Receive(i, b)
      PROVE  RowsTyped'
  BY <1>1, <1>a DEF Receive
<1>2. ASSUME NEW i \in Requests, Lock(i) PROVE RowsTyped'
  BY <1>2, <1>a DEF Lock
<1>3. ASSUME NEW i \in Requests, CheckDuplicate(i) PROVE RowsTyped'
  BY <1>3, <1>a, <1>c DEF CheckDuplicate
<1>4. ASSUME NEW i \in Requests, CountActive(i) PROVE RowsTyped'
  BY <1>4, <1>a, <1>c DEF CountActive
<1>5. ASSUME NEW i \in Requests, InsertJob(i) PROVE RowsTyped'
  <2>1. /\ row' = [k \in Requests |-> row'[k]]
        /\ \A k \in Requests : row'[k] \in Row \cup {NoJob}
    BY <1>5, <1>e, InsertEffect DEF InsertJob
  <2>2. late' \in SUBSET Requests /\ UNCHANGED <<tx, faults>>
    BY <1>5, <1>e DEF InsertJob, Belated
  <2>3. QED
    BY <2>1, <2>2 DEF TypeInv, RowsTyped
<1>6. ASSUME NEW i \in Requests, InsertUser(i) PROVE RowsTyped'
  BY <1>6, <1>a, <1>c DEF InsertUser
<1>7. ASSUME NEW i \in Requests, Adopt(i) PROVE RowsTyped'
  BY <1>7, <1>d, AdoptEffect DEF Adopt, Wrote
<1>8. ASSUME NEW i \in Requests, InsertSession(i) PROVE RowsTyped'
  <2>1. CASE RolledBack(i)
    BY <2>1, <1>c
  <2>2. CASE user[req[i].user] # "deleted"
    <3>1. \A k \in Requests : row'[k] \in Row \cup {NoJob}
      BY <1>8, <2>2, <1>e, AdoptionEffect DEF RowMoves
    <3>2. row' = [k \in Requests |-> row'[k]]
      BY <1>8, <2>2 DEF InsertSession
    <3>3. late' = Belated(req[i].user, tx[i].rows) /\ Release(i) /\ UNCHANGED faults
      BY <1>8, <2>2 DEF InsertSession
    <3>4. late' \in SUBSET Requests
      BY <1>e, <3>3 DEF Belated, TypeInv, RowsTyped, Writes
    <3>5. tx' \in [Requests -> Writes]
      BY <3>3, ReleaseEffect DEF Wrote
    <3>6. QED
      BY <3>1, <3>2, <3>3, <3>4, <3>5 DEF TypeInv, RowsTyped
  <2>3. QED
    BY <1>8, <2>1, <2>2 DEF InsertSession
<1>9. ASSUME NEW i \in Requests, Revoke(i) PROVE RowsTyped'
  BY <1>9, <1>a DEF Revoke
<1>10. ASSUME NEW i \in Requests, RevokeOthers(i) PROVE RowsTyped'
  BY <1>10, <1>a DEF RevokeOthers
<1>11. ASSUME NEW i \in Requests, ChangePassword(i) PROVE RowsTyped'
  BY <1>11, <1>a, <1>c DEF ChangePassword
<1>12. ASSUME NEW i \in Requests, CancelJobs(i) PROVE RowsTyped'
  BY <1>12, <1>d, CancelEffect DEF CancelJobs, Wrote, Write
<1>13. ASSUME NEW i \in Requests, MarkJobs(i) PROVE RowsTyped'
  BY <1>13, <1>d, MarkEffect DEF MarkJobs, Wrote, Write
<1>14. ASSUME NEW i \in Requests, PurgeJobs(i) PROVE RowsTyped'
  BY <1>14, <1>d, PurgeEffect DEF PurgeJobs, Wrote, Write
<1>15. ASSUME NEW i \in Requests, DeleteUser(i) PROVE RowsTyped'
  <2>1. CASE RolledBack(i)
    BY <2>1, <1>c
  <2>2. CASE user[req[i].user] = "exists"
    <3>1. \A k \in Requests : row'[k] \in Row \cup {NoJob}
      BY <1>15, <2>2, <1>e, DeletionEffect DEF RowMoves
    <3>2. row' = [k \in Requests |-> row'[k]]
      BY <1>15, <2>2 DEF DeleteUser
    <3>3. Release(i) /\ UNCHANGED <<late, faults>>
      BY <1>15, <2>2 DEF DeleteUser
    <3>4. QED
      BY <3>1, <3>2, <3>3, ReleaseEffect DEF TypeInv, RowsTyped, Wrote
  <2>3. QED
    BY <1>15, <2>1, <2>2 DEF DeleteUser
<1>16. ASSUME NEW i \in Requests, Respond(i) PROVE RowsTyped'
  BY <1>16, <1>a DEF Respond
<1>17. ASSUME NEW i \in Requests, Fail(i) PROVE RowsTyped'
  BY <1>17, <1>b DEF Fail, TypeInv, RowsTyped
<1>18. ASSUME NEW i \in Requests, ExpireSession(i) PROVE RowsTyped'
  BY <1>18, <1>a DEF ExpireSession
<1>19. ASSUME NEW i \in Requests, SettleJob(i) PROVE RowsTyped'
  <2>1. row' = [k \in Requests |-> row'[k]]
    BY <1>19, <1>e DEF SettleJob
  <2>2. \A k \in Requests : row'[k] \in Row \cup {NoJob}
    BY <1>19, <1>e, SettleEffect DEF RowMoves
  <2>3. QED
    BY <1>19, <2>1, <2>2 DEF SettleJob, TypeInv, RowsTyped
<1>20. ASSUME NEW i \in Requests, CleanJob(i) PROVE RowsTyped'
  <2>1. row' = [k \in Requests |-> row'[k]]
    BY <1>20, <1>e DEF CleanJob
  <2>2. \A k \in Requests : row'[k] \in Row \cup {NoJob}
    BY <1>20, <1>e, CleanEffect DEF RowMoves
  <2>3. QED
    BY <1>20, <2>1, <2>2 DEF CleanJob, TypeInv, RowsTyped
<1>21. CASE UNCHANGED vars
  BY <1>21, <1>a DEF vars
<1>22. QED
  BY <1>1, <1>2, <1>3, <1>4, <1>5, <1>6, <1>7, <1>8, <1>9, <1>10, <1>11, <1>12,
     <1>13, <1>14, <1>15, <1>16, <1>17, <1>18, <1>19, <1>20, <1>21
     DEF Next, Work

-----------------------------------------------------------------------------
(* Row locks.                                                               *)

\* The others find their rows as they left them.
Undisturbed(i) ==
    \A k \in Requests \ {i} :
        /\ tx'[k] = tx[k] /\ pc'[k] = pc[k] /\ req'[k] = req[k]
        /\ \A j \in tx[k].rows : Exists(j)' /\ row'[j].owner = row[j].owner

LEMMA LocksStay ==
    ASSUME TypeInv, LocksInv, NEW i \in Requests, Undisturbed(i), Holds(i)',
           \A k \in Requests \ {i} : tx'[i].rows \cap tx[k].rows = {}
    PROVE  LocksInv'
<1>1. ASSUME NEW k \in Requests \ {i} PROVE Holds(k)'
  BY DEF LocksInv, Holds, Undisturbed
<1>2. ASSUME NEW k \in Requests, NEW l \in Requests, k # l
      PROVE  tx'[k].rows \cap tx'[l].rows = {}
  BY <1>2 DEF LocksInv, Undisturbed
<1>3. QED
  BY <1>1, <1>2 DEF LocksInv

\* A step of a transaction that has written nothing.
LEMMA QuietStep ==
    ASSUME TypeInv, LocksInv, NEW i \in Requests, UNCHANGED <<row, tx>>,
           pc[i] \notin {"session", "mark", "purge", "remove"},
           \A k \in Requests \ {i} : pc'[k] = pc[k] /\ req'[k] = req[k]
    PROVE  LocksInv'
<1>1. Undisturbed(i)
  BY DEF Undisturbed, LocksInv, Holds, Exists
<1>2. Holds(i)' /\ tx'[i].rows = {}
  BY NothingWritten DEF Holds
<1>3. QED
  BY <1>1, <1>2, LocksStay

\* The end of a transaction, which may have changed the rows it wrote.
LEMMA EndStep ==
    ASSUME TypeInv, LocksInv, NEW i \in Requests, Release(i), UNCHANGED req,
           \A k \in Requests \ {i} : pc'[k] = pc[k],
           \A j \in Requests \ tx[i].rows : row'[j] = row[j]
    PROVE  LocksInv'
<1>1. Wrote(i, {}, {}, {}, {})
  BY ReleaseEffect
<1>2. ASSUME NEW k \in Requests \ {i}, NEW j \in tx[k].rows
      PROVE  Exists(j)' /\ row'[j].owner = row[j].owner
  <2>1. j \in Requests /\ j \notin tx[i].rows /\ Exists(j)
    BY DEF LocksInv, Holds, TypeInv, RowsTyped, Writes
  <2>2. QED
    BY <2>1 DEF Exists
<1>3. Undisturbed(i)
  BY <1>1, <1>2 DEF Undisturbed, Wrote
<1>4. Holds(i)' /\ tx'[i].rows = {}
  BY <1>1 DEF Wrote, Holds
<1>5. QED
  BY <1>3, <1>4, LocksStay

\* A statement that writes rows nobody else has written.
LEMMA WriteStep ==
    ASSUME TypeInv, LocksInv, NEW i \in Requests, NEW rows, NEW cancelled, NEW marked,
           NEW purged, Wrote(i, rows, cancelled, marked, purged), UNCHANGED <<row, req>>,
           \A k \in Requests \ {i} : pc'[k] = pc[k] /\ rows \cap tx[k].rows = {},
           Holds(i)'
    PROVE  LocksInv'
<1>1. Undisturbed(i)
  BY DEF Undisturbed, LocksInv, Holds, Wrote, Exists
<1>2. QED
  BY <1>1, LocksStay DEF Wrote

LEMMA LocksStep == TypeInv /\ LocksInv /\ JobsInv /\ [Next]_vars => LocksInv'
<1> SUFFICES ASSUME TypeInv, LocksInv, JobsInv, [Next]_vars PROVE LocksInv'
  OBVIOUS
<1>a. pc \in [Requests -> Locations] /\ req \in [Requests -> Asked \cup {NoRequest}]
  BY DEF TypeInv, RequestsTyped
<1>b. ASSUME NEW i \in Requests, RolledBack(i) PROVE LocksInv'
  BY <1>a, <1>b, EndStep DEF RolledBack
<1>c. ASSUME UNCHANGED <<row, tx, pc, req>> PROVE LocksInv'
  BY <1>c DEF LocksInv, Holds, Exists
<1>d. ASSUME NEW j \in Requests, \A k \in Requests : j \notin tx[k].rows,
             \A k \in Requests \ {j} : row'[k] = row[k], UNCHANGED <<tx, req>>,
             \A k \in Requests : pc'[k] = pc[k] \/ (tx[k].rows = {} /\ pc'[k] = "done")
      PROVE LocksInv'
  <2>1. ASSUME NEW k \in Requests, NEW l \in tx[k].rows
        PROVE  row'[l] = row[l]
    BY <1>d DEF TypeInv, RowsTyped, Writes
  <2>2. ASSUME NEW k \in Requests PROVE Holds(k)'
    BY <1>d, <2>1 DEF LocksInv, Holds, Exists
  <2>3. QED
    BY <1>d, <2>2 DEF LocksInv
<1>1. ASSUME NEW i \in Requests, NEW b \in Browsers, Receive(i, b)
      PROVE  LocksInv'
  BY <1>1, <1>a, QuietStep DEF Receive
<1>2. ASSUME NEW i \in Requests, Lock(i) PROVE LocksInv'
  BY <1>2, <1>a, QuietStep DEF Lock, At
<1>3. ASSUME NEW i \in Requests, CheckDuplicate(i) PROVE LocksInv'
  BY <1>3, <1>a, <1>b, QuietStep DEF CheckDuplicate, At
<1>4. ASSUME NEW i \in Requests, CountActive(i) PROVE LocksInv'
  BY <1>4, <1>a, <1>b, QuietStep DEF CountActive, At
<1>5. ASSUME NEW i \in Requests, InsertJob(i) PROVE LocksInv'
  <2>1. row[i] = NoJob /\ tx[i].rows = {}
    BY <1>5, NothingWritten DEF InsertJob, At, JobsInv
  <2>2. \A k \in Requests : i \notin tx[k].rows
    BY <2>1 DEF LocksInv, Holds, Exists, NoJob
  <2>3. QED
    BY <1>5, <1>a, <1>d, <2>1, <2>2, InsertEffect DEF InsertJob, At
<1>6. ASSUME NEW i \in Requests, InsertUser(i) PROVE LocksInv'
  BY <1>6, <1>a, <1>b, QuietStep DEF InsertUser, At
<1>7. ASSUME NEW i \in Requests, Adopt(i) PROVE LocksInv'
  <2>1. Wrote(i, Owned(req[i].browser), {}, {}, {})
    BY <1>7, AdoptEffect
  <2>2. \A j \in Owned(req[i].browser) : Exists(j) /\ row[j].owner = req[i].browser
    BY DEF Owned
  <2>3. pc' = [pc EXCEPT ![i] = "session"] /\ UNCHANGED <<row, req>>
    BY <1>7 DEF Adopt, At
  <2>4. Holds(i)'
    BY <1>a, <2>1, <2>2, <2>3 DEF Holds, Wrote, Exists
  <2>5. \A k \in Requests \ {i} : Owned(req[i].browser) \cap tx[k].rows = {}
    BY <1>7 DEF Adopt, Lockable
  <2>6. QED
    BY <1>a, <2>1, <2>3, <2>4, <2>5, WriteStep
<1>8. ASSUME NEW i \in Requests, InsertSession(i) PROVE LocksInv'
  <2>1. CASE RolledBack(i)
    BY <2>1, <1>b
  <2>2. CASE user[req[i].user] # "deleted"
    BY <1>8, <2>2, <1>a, AdoptionEffect, EndStep DEF InsertSession, At
  <2>3. QED
    BY <1>8, <2>1, <2>2 DEF InsertSession
<1>9. ASSUME NEW i \in Requests, Revoke(i) PROVE LocksInv'
  BY <1>9, <1>a, QuietStep DEF Revoke, At
<1>10. ASSUME NEW i \in Requests, RevokeOthers(i) PROVE LocksInv'
  BY <1>10, <1>a, QuietStep DEF RevokeOthers, At
<1>11. ASSUME NEW i \in Requests, ChangePassword(i) PROVE LocksInv'
  BY <1>11, <1>a, <1>b, QuietStep DEF ChangePassword, At
<1>12. ASSUME NEW i \in Requests, CancelJobs(i) PROVE LocksInv'
  <2>1. Wrote(i, Running(req[i].user), Running(req[i].user), {}, {})
    BY <1>12, CancelEffect
  <2>2. \A j \in Running(req[i].user) : Exists(j) /\ row[j].owner = req[i].user
    BY DEF Running, Owned
  <2>3. pc' = [pc EXCEPT ![i] = "mark"] /\ UNCHANGED <<row, req>>
    BY <1>12 DEF CancelJobs, At, Write
  <2>4. Holds(i)'
    BY <1>a, <2>1, <2>2, <2>3 DEF Holds, Wrote, Exists
  <2>5. \A k \in Requests \ {i} : Running(req[i].user) \cap tx[k].rows = {}
    BY <1>12 DEF CancelJobs, Write, Lockable
  <2>6. QED
    BY <1>a, <2>1, <2>3, <2>4, <2>5, WriteStep
<1>13. ASSUME NEW i \in Requests, MarkJobs(i) PROVE LocksInv'
  <2> DEFINE S == Owned(req[i].user)
  <2>1. Wrote(i, tx[i].rows \cup S, tx[i].cancelled, S, tx[i].purged)
    BY <1>13, MarkEffect
  <2>2. \A j \in S : Exists(j) /\ row[j].owner = req[i].user
    BY DEF Owned
  <2>3. /\ pc[i] = "mark" /\ pc' = [pc EXCEPT ![i] = "purge"]
        /\ UNCHANGED <<row, req>>
    BY <1>13 DEF MarkJobs, At, Write
  <2>4. \A k \in Requests \ {i} : S \cap tx[k].rows = {}
    BY <1>13 DEF MarkJobs, Write, Lockable
  <2> HIDE DEF S
  <2>5. Holds(i)'
    BY <1>a, <2>1, <2>2, <2>3 DEF LocksInv, Holds, Wrote, Exists
  <2>6. \A k \in Requests \ {i} : (tx[i].rows \cup S) \cap tx[k].rows = {}
    BY <2>4 DEF LocksInv
  <2>7. QED
    BY <1>a, <2>1, <2>3, <2>5, <2>6, WriteStep
<1>14. ASSUME NEW i \in Requests, PurgeJobs(i) PROVE LocksInv'
  <2>1. PICK S \in SUBSET Owned(req[i].user) :
          /\ Wrote(i, tx[i].rows \cup S, tx[i].cancelled, tx[i].marked, S)
          /\ Lockable(i, S)
    BY <1>14, PurgeEffect
  <2>2. \A j \in S : Exists(j) /\ row[j].owner = req[i].user
    BY DEF Owned
  <2>3. /\ pc[i] = "purge" /\ pc' = [pc EXCEPT ![i] = "remove"]
        /\ UNCHANGED <<row, req>>
    BY <1>14 DEF PurgeJobs, At, Write
  <2>4. Holds(i)'
    BY <1>a, <2>1, <2>2, <2>3 DEF LocksInv, Holds, Wrote, Exists
  <2>5. \A k \in Requests \ {i} : (tx[i].rows \cup S) \cap tx[k].rows = {}
    BY <2>1 DEF LocksInv, Lockable
  <2>6. QED
    BY <1>a, <2>1, <2>3, <2>4, <2>5, WriteStep
<1>15. ASSUME NEW i \in Requests, DeleteUser(i) PROVE LocksInv'
  <2>1. CASE RolledBack(i)
    BY <2>1, <1>b
  <2>2. CASE user[req[i].user] = "exists"
    BY <1>15, <2>2, <1>a, DeletionEffect, EndStep DEF DeleteUser, At
  <2>3. QED
    BY <1>15, <2>1, <2>2 DEF DeleteUser
<1>16. ASSUME NEW i \in Requests, Respond(i) PROVE LocksInv'
  BY <1>16, <1>a, QuietStep DEF Respond, At
<1>17. ASSUME NEW i \in Requests, Fail(i) PROVE LocksInv'
  BY <1>17, <1>a, EndStep DEF Fail
<1>18. ASSUME NEW i \in Requests, ExpireSession(i) PROVE LocksInv'
  BY <1>18, <1>c DEF ExpireSession
<1>19. ASSUME NEW i \in Requests, SettleJob(i) PROVE LocksInv'
  BY <1>19, <1>d, SettleEffect DEF SettleJob
<1>20. ASSUME NEW i \in Requests, CleanJob(i) PROVE LocksInv'
  BY <1>20, <1>d, CleanEffect DEF CleanJob
<1>21. CASE UNCHANGED vars
  BY <1>21, <1>c DEF vars
<1>22. QED
  BY <1>1, <1>2, <1>3, <1>4, <1>5, <1>6, <1>7, <1>8, <1>9, <1>10, <1>11, <1>12,
     <1>13, <1>14, <1>15, <1>16, <1>17, <1>18, <1>19, <1>20, <1>21
     DEF Next, Work

LEMMA NoUserIsABrowser == \A u \in Users : u \notin Browsers
BY DEF AccountsAssumption

LEMMA JobsStep == TypeInv /\ LocksInv /\ JobsInv /\ [Next]_vars => JobsInv'
<1> SUFFICES ASSUME TypeInv, LocksInv, JobsInv, [Next]_vars PROVE JobsInv'
  OBVIOUS
<1>a. pc \in [Requests -> Locations]
  BY DEF TypeInv, RequestsTyped
<1>b. ASSUME UNCHANGED row, \A j \in Requests : pc[j] = "done" => pc'[j] = "done"
      PROVE  JobsInv'
  BY <1>b DEF JobsInv, Exists
<1>c. ASSUME NEW i \in Requests, RolledBack(i) PROVE JobsInv'
  BY <1>a, <1>b, <1>c DEF RolledBack
<1>d. ASSUME \A j \in Requests : \/ row'[j] = row[j]
                                 \/ /\ RowMoves(j)
                                    /\ row'[j].owner \in {row[j].owner} \cup Users,
             \A j \in Requests : pc[j] = "done" => pc'[j] = "done"
      PROVE  JobsInv'
  BY <1>d, NoUserIsABrowser DEF JobsInv, RowMoves, Exists, Row, NoJob
<1>1. ASSUME NEW i \in Requests, NEW b \in Browsers, Receive(i, b)
      PROVE  JobsInv'
  BY <1>1, <1>a, <1>b DEF Receive
<1>2. ASSUME NEW i \in Requests, Lock(i) PROVE JobsInv'
  BY <1>2, <1>a, <1>b DEF Lock, At
<1>3. ASSUME NEW i \in Requests, CheckDuplicate(i) PROVE JobsInv'
  BY <1>3, <1>a, <1>b, <1>c DEF CheckDuplicate, At
<1>4. ASSUME NEW i \in Requests, CountActive(i) PROVE JobsInv'
  BY <1>4, <1>a, <1>b, <1>c DEF CountActive, At
<1>5. ASSUME NEW i \in Requests, InsertJob(i) PROVE JobsInv'
  <2>1. \A j \in Requests \ {i} : row'[j] = row[j] /\ pc'[j] = pc[j]
    BY <1>5, <1>a, InsertEffect DEF InsertJob, At
  <2>2. pc'[i] = "done" /\ row'[i].by = row'[i].owner
    BY <1>5, <1>a, InsertEffect DEF InsertJob, At, Job
  <2>3. QED
    BY <2>1, <2>2 DEF JobsInv, Exists
<1>6. ASSUME NEW i \in Requests, InsertUser(i) PROVE JobsInv'
  BY <1>6, <1>a, <1>b, <1>c DEF InsertUser, At
<1>7. ASSUME NEW i \in Requests, Adopt(i) PROVE JobsInv'
  BY <1>7, <1>a, <1>b DEF Adopt, At
<1>8. ASSUME NEW i \in Requests, InsertSession(i) PROVE JobsInv'
  <2>1. CASE RolledBack(i)
    BY <2>1, <1>c
  <2>2. CASE user[req[i].user] # "deleted"
    BY <1>8, <2>2, <1>a, <1>d, AdoptionEffect DEF InsertSession, At
  <2>3. QED
    BY <1>8, <2>1, <2>2 DEF InsertSession
<1>9. ASSUME NEW i \in Requests, Revoke(i) PROVE JobsInv'
  BY <1>9, <1>a, <1>b DEF Revoke, At
<1>10. ASSUME NEW i \in Requests, RevokeOthers(i) PROVE JobsInv'
  BY <1>10, <1>a, <1>b DEF RevokeOthers, At
<1>11. ASSUME NEW i \in Requests, ChangePassword(i) PROVE JobsInv'
  BY <1>11, <1>a, <1>b, <1>c DEF ChangePassword, At
<1>12. ASSUME NEW i \in Requests, CancelJobs(i) PROVE JobsInv'
  BY <1>12, <1>a, <1>b DEF CancelJobs, At, Write
<1>13. ASSUME NEW i \in Requests, MarkJobs(i) PROVE JobsInv'
  BY <1>13, <1>a, <1>b DEF MarkJobs, At, Write
<1>14. ASSUME NEW i \in Requests, PurgeJobs(i) PROVE JobsInv'
  BY <1>14, <1>a, <1>b DEF PurgeJobs, At, Write
<1>15. ASSUME NEW i \in Requests, DeleteUser(i) PROVE JobsInv'
  <2>1. CASE RolledBack(i)
    BY <2>1, <1>c
  <2>2. CASE user[req[i].user] = "exists"
    BY <1>15, <2>2, <1>a, <1>d, DeletionEffect DEF DeleteUser, At
  <2>3. QED
    BY <1>15, <2>1, <2>2 DEF DeleteUser
<1>16. ASSUME NEW i \in Requests, Respond(i) PROVE JobsInv'
  BY <1>16, <1>a, <1>b DEF Respond, At
<1>17. ASSUME NEW i \in Requests, Fail(i) PROVE JobsInv'
  BY <1>17, <1>a, <1>b DEF Fail, InTransaction
<1>18. ASSUME NEW i \in Requests, ExpireSession(i) PROVE JobsInv'
  BY <1>18, <1>a, <1>b DEF ExpireSession, At
<1>19. ASSUME NEW i \in Requests, SettleJob(i) PROVE JobsInv'
  BY <1>19, <1>d, SettleEffect DEF SettleJob
<1>20. ASSUME NEW i \in Requests, CleanJob(i) PROVE JobsInv'
  BY <1>20, <1>d, CleanEffect DEF CleanJob
<1>21. CASE UNCHANGED vars
  BY <1>21, <1>b DEF vars
<1>22. QED
  BY <1>1, <1>2, <1>3, <1>4, <1>5, <1>6, <1>7, <1>8, <1>9, <1>10, <1>11, <1>12,
     <1>13, <1>14, <1>15, <1>16, <1>17, <1>18, <1>19, <1>20, <1>21
     DEF Next, Work

-----------------------------------------------------------------------------
(* Limits.                                                                  *)

\* The jobs an owner has made and still has, and those of them that run.
Own(o)        == {j \in Owned(o) : row[j].by = o}
OwnRunning(o) == {j \in Running(o) : row[j].by = o}

Admitting == {"check", "count", "insert"}

\* The advisory lock is held by one transaction of an owner.
AdvisoryInv ==
    \A i, k \in Requests :
        i # k /\ pc[i] \in Admitting /\ pc[k] \in Admitting => req[i].owner # req[k].owner

\* What a createJob has checked, it may rely on until it inserts.
Admitted(i) ==
    /\ pc[i] \in {"count", "insert"} =>
            \A j \in Own(req[i].owner) : row[j].file # req[i].file
    /\ pc[i] = "insert" => Cardinality(OwnRunning(req[i].owner)) < MaxActive

AdmitInv ==
    /\ AdvisoryInv
    /\ \A i \in Requests : Admitted(i)
    /\ AdmissionLimits

LEMMA OwnCounted ==
    /\ \A S \in SUBSET Requests : Cardinality(S) \in Nat
    /\ \A S, T \in SUBSET Requests : S \subseteq T => Cardinality(S) <= Cardinality(T)
    /\ \A S \in SUBSET Requests : \A i \in Requests :
            Cardinality(S \cup {i}) <= Cardinality(S) + 1
<1>1. IsFiniteSet(Requests)
  BY FS_Interval DEF Requests
<1>2. \A S \in SUBSET Requests : IsFiniteSet(S) /\ Cardinality(S) \in Nat
  BY <1>1, FS_Subset, FS_CardinalityType
<1>3. ASSUME NEW S \in SUBSET Requests, NEW T \in SUBSET Requests, S \subseteq T
      PROVE  Cardinality(S) <= Cardinality(T)
  BY <1>2, <1>3, FS_Subset
<1>4. ASSUME NEW S \in SUBSET Requests, NEW i \in Requests
      PROVE  Cardinality(S \cup {i}) <= Cardinality(S) + 1
  <2>1. /\ IsFiniteSet(S) /\ Cardinality(S) \in Nat
        /\ Cardinality(S \cup {i}) =
             IF i \in S THEN Cardinality(S) ELSE Cardinality(S) + 1
    BY <1>2, FS_AddElement, Zenon
  <2>2. QED
    BY <2>1
<1>5. QED
  BY <1>2, <1>3, <1>4

LEMMA OwnAreRequests ==
    \A o : /\ OwnRunning(o) \in SUBSET Requests
           /\ OwnRunning(o) \subseteq Own(o) /\ Own(o) \in SUBSET Requests
BY DEF OwnRunning, Own, Running, Owned

LEMMA OwnerOfRequest ==
    ASSUME TypeInv, NEW i \in Requests, pc[i] # "none"
    PROVE  req[i].owner \in Owners
BY DEF TypeInv, RequestsTyped, Asking, WellAsked, Asked

\* No owner has more of its own jobs than before.
NothingGained ==
    \A o \in Owners : /\ Own(o)' \subseteq Own(o)
                      /\ OwnRunning(o)' \subseteq OwnRunning(o)
                      /\ \A j \in Own(o)' : row'[j].file = row[j].file

LEMMA MovedRowsGainNothing ==
    ASSUME TypeInv, JobsInv,
           \A j \in Requests :
              \/ row'[j] = row[j]
              \/ /\ RowMoves(j)
                 /\ \/ row'[j].owner = row[j].owner
                    \/ row'[j].owner \in Users /\ row[j].by \in Browsers
    PROVE  NothingGained
<1>1. ASSUME NEW o \in Owners, NEW j \in Own(o)'
      PROVE  /\ j \in Own(o) /\ row'[j].file = row[j].file
             /\ row'[j].state = "active" => row[j].state = "active"
  <2>1. j \in Requests /\ Exists(j)' /\ row'[j].owner = o /\ row'[j].by = o
    BY DEF Own, Owned
  <2>2. CASE row'[j] = row[j]
    BY <2>1, <2>2 DEF Own, Owned, Exists
  <2>3. CASE RowMoves(j) /\ row'[j].owner = row[j].owner
    BY <2>1, <2>3 DEF RowMoves, Own, Owned, Exists
  <2>4. CASE RowMoves(j) /\ row'[j].owner \in Users /\ row[j].by \in Browsers
    BY <2>1, <2>4, NoUserIsABrowser DEF RowMoves
  <2>5. QED
    BY <2>1, <2>2, <2>3, <2>4
<1>2. QED
  BY <1>1 DEF NothingGained, OwnRunning, Running, Own, Owned

LEMMA SameRowsGainNothing ==
    ASSUME UNCHANGED row
    PROVE  NothingGained
BY DEF NothingGained, Own, OwnRunning, Running, Owned, Exists

LEMMA LimitsStay ==
    ASSUME AdmissionLimits, NothingGained
    PROVE  AdmissionLimits'
<1>1. ASSUME NEW o \in Owners PROVE Cardinality(OwnRunning(o)') <= MaxActive
  <2>1. /\ OwnRunning(o)' \in SUBSET Requests /\ OwnRunning(o) \in SUBSET Requests
        /\ OwnRunning(o)' \subseteq OwnRunning(o)
    BY OwnAreRequests DEF NothingGained, Requests
  <2>2. Cardinality(OwnRunning(o)) <= MaxActive
    BY DEF AdmissionLimits, CreationLimit, OwnRunning
  <2>3. QED
    BY <2>1, <2>2, OwnCounted
<1>2. ASSUME NEW o \in Owners, NEW j \in Own(o)', NEW k \in Own(o)',
             row'[j].file = row'[k].file
      PROVE  j = k
  <2>1. j \in Own(o) /\ k \in Own(o) /\ row[j].file = row[k].file
    BY <1>2 DEF NothingGained
  <2>2. QED
    BY <2>1 DEF AdmissionLimits, OneJobPerUpload, Own
<1>3. CreationLimit'
  BY <1>1 DEF CreationLimit, OwnRunning
<1>4. OneJobPerUpload'
  BY <1>2 DEF OneJobPerUpload, Own
<1>5. QED
  BY <1>3, <1>4 DEF AdmissionLimits

LEMMA AdmittedStays ==
    ASSUME TypeInv, AdmitInv, NothingGained, NEW k \in Requests,
           pc'[k] = pc[k], req'[k] = req[k]
    PROVE  Admitted(k)'
<1>1. CASE pc[k] \in {"count", "insert"}
  <2>1. PICK o \in Owners : o = req[k].owner
    BY <1>1, OwnerOfRequest
  <2>2. /\ \A j \in Own(o) : row[j].file # req[k].file
        /\ pc[k] = "insert" => Cardinality(OwnRunning(o)) < MaxActive
    BY <1>1, <2>1 DEF AdmitInv, Admitted
  <2>3. \A j \in Own(o)' : row'[j].file # req'[k].file
    BY <2>2 DEF NothingGained
  <2>4. ASSUME pc[k] = "insert" PROVE Cardinality(OwnRunning(o)') < MaxActive
    <3>1. /\ OwnRunning(o)' \in SUBSET Requests /\ OwnRunning(o) \in SUBSET Requests
          /\ OwnRunning(o)' \subseteq OwnRunning(o)
      BY OwnAreRequests DEF NothingGained, Requests
    <3>2. Cardinality(OwnRunning(o)) < MaxActive
      BY <2>2, <2>4
    <3>3. QED
      BY <3>1, <3>2, OwnCounted
  <2>5. /\ Own(req[k].owner)' = Own(o)'
        /\ OwnRunning(req[k].owner)' = OwnRunning(o)'
    BY <2>1 DEF Own, OwnRunning, Owned, Running
  <2>6. QED
    BY <2>3, <2>4, <2>5 DEF Admitted
<1>2. CASE pc[k] \notin {"count", "insert"}
  BY <1>2 DEF Admitted
<1>3. QED
  BY <1>1, <1>2

LEMMA AdmitStays ==
    ASSUME TypeInv, AdmitInv, NEW i \in Requests, NothingGained,
           \A k \in Requests \ {i} : pc'[k] = pc[k] /\ req'[k] = req[k],
           Admitted(i)',
           pc'[i] \in Admitting =>
              \/ pc[i] \in Admitting /\ req'[i] = req[i]
              \/ \A k \in Requests \ {i} :
                    pc[k] \in Admitting => req[k].owner # req'[i].owner
    PROVE  AdmitInv'
<1>1. AdvisoryInv'
  BY DEF AdmitInv, AdvisoryInv
<1>2. \A k \in Requests \ {i} : Admitted(k)'
  BY AdmittedStays
<1>3. AdmissionLimits'
  BY LimitsStay DEF AdmitInv
<1>4. QED
  BY <1>1, <1>2, <1>3 DEF AdmitInv

\* The job a createJob inserts is the only one that is new for its owner.
LEMMA InsertStays ==
    ASSUME TypeInv, JobsInv, AdmitInv, NEW i \in Requests, InsertJob(i)
    PROVE  AdmitInv'
<1>1. /\ pc[i] = "insert" /\ row[i] = NoJob
      /\ pc' = [pc EXCEPT ![i] = "done"] /\ UNCHANGED req
  BY DEF InsertJob, At, JobsInv
<1>2. PICK o \in Owners : o = req[i].owner
  BY <1>1, OwnerOfRequest
<1>3. /\ row'[i] = Job(o, req[i].file)
      /\ \A k \in Requests \ {i} : row'[k] = row[k]
  BY <1>2, InsertEffect
<1>4. /\ row'[i].state = "active" /\ row'[i].owner = o /\ row'[i].by = o
      /\ row'[i].file = req[i].file
  BY <1>3 DEF Job
<1>5. ~Exists(i)
  BY <1>1 DEF Exists, NoJob
<1>6. \A j \in Requests \ {i} : Exists(j)' = Exists(j)
  BY <1>3 DEF Exists
<1>7. ASSUME NEW p \in Owners \ {o}
      PROVE  Own(p)' = Own(p) /\ OwnRunning(p)' = OwnRunning(p)
  BY <1>3, <1>4, <1>5, <1>6 DEF Own, OwnRunning, Owned, Running
<1>8. /\ Own(o)' = Own(o) \cup {i}
      /\ OwnRunning(o)' = OwnRunning(o) \cup {i}
  BY <1>3, <1>4, <1>5, <1>6 DEF Own, OwnRunning, Owned, Running, Exists
<1>9. /\ \A j \in Own(o) : row[j].file # req[i].file
      /\ Cardinality(OwnRunning(o)) < MaxActive
  BY <1>1, <1>2 DEF AdmitInv, Admitted
<1>10. \A p : i \notin Own(p)
  BY <1>5 DEF Own, Owned
<1>11. ASSUME NEW p \in Owners, NEW j \in Own(p) PROVE row'[j].file = row[j].file
  BY <1>3, <1>10 DEF Own, Owned
<1>12. AdvisoryInv'
  BY <1>1 DEF AdmitInv, AdvisoryInv, TypeInv, RequestsTyped, Admitting
<1>13. ASSUME NEW k \in Requests PROVE Admitted(k)'
  <2>1. CASE pc[k] \in {"count", "insert"} /\ k # i
    <3>1. pc'[k] = pc[k] /\ req'[k] = req[k]
      BY <1>1, <2>1 DEF TypeInv, RequestsTyped
    <3>2. PICK p \in Owners : p = req[k].owner
      BY <2>1, OwnerOfRequest
    <3>3. p # o
      BY <1>1, <1>2, <2>1, <3>2 DEF AdmitInv, AdvisoryInv, Admitting
    <3>4. Own(p)' = Own(p) /\ OwnRunning(p)' = OwnRunning(p)
      BY <1>7, <3>3
    <3>5. /\ Own(req[k].owner)' = Own(p)'
          /\ OwnRunning(req[k].owner)' = OwnRunning(p)'
      BY <3>1, <3>2 DEF Own, OwnRunning, Owned, Running
    <3>6. /\ \A j \in Own(p) : row[j].file # req[k].file
          /\ pc[k] = "insert" => Cardinality(OwnRunning(p)) < MaxActive
      BY <2>1, <3>2 DEF AdmitInv, Admitted
    <3>7. \A j \in Own(p) : row'[j].file # req'[k].file
      BY <1>11, <3>1, <3>6
    <3>8. QED
      BY <3>1, <3>4, <3>5, <3>6, <3>7 DEF Admitted
  <2>2. CASE ~(pc[k] \in {"count", "insert"} /\ k # i)
    BY <1>1, <2>2 DEF Admitted, TypeInv, RequestsTyped
  <2>3. QED
    BY <2>1, <2>2
<1>14. ASSUME NEW p \in Owners PROVE Cardinality(OwnRunning(p)') <= MaxActive
  <2>1. CASE p = o
    <3>1. /\ OwnRunning(o) \in SUBSET Requests
          /\ Cardinality(OwnRunning(o)) \in Nat /\ MaxActive \in Nat
          /\ OwnRunning(o) \cup {i} \in SUBSET Requests
      BY OwnAreRequests, OwnCounted DEF AccountsAssumption
    <3>2. /\ Cardinality(OwnRunning(o) \cup {i}) <= Cardinality(OwnRunning(o)) + 1
          /\ Cardinality(OwnRunning(o) \cup {i}) \in Nat
      BY <3>1, OwnCounted
    <3>3. Cardinality(OwnRunning(o) \cup {i}) <= MaxActive
      BY <1>9, <3>1, <3>2
    <3>4. QED
      BY <1>8, <2>1, <3>3
  <2>2. CASE p # o
    BY <1>7, <2>2 DEF AdmitInv, AdmissionLimits, CreationLimit, OwnRunning
  <2>3. QED
    BY <2>1, <2>2
<1>15. ASSUME NEW p \in Owners, NEW j \in Own(p)', NEW k \in Own(p)',
              row'[j].file = row'[k].file
       PROVE  j = k
  <2>1. CASE p = o /\ i \in {j, k}
    BY <1>4, <1>8, <1>9, <1>11, <1>15, <2>1
  <2>2. CASE ~(p = o /\ i \in {j, k})
    <3>1. j \in Own(p) /\ k \in Own(p)
      BY <1>7, <1>8, <1>15, <2>2
    <3>2. row[j].file = row[k].file
      BY <1>11, <1>15, <3>1
    <3>3. QED
      BY <3>1, <3>2 DEF AdmitInv, AdmissionLimits, OneJobPerUpload, Own
  <2>3. QED
    BY <2>1, <2>2
<1>16. CreationLimit'
  BY <1>14 DEF CreationLimit, OwnRunning
<1>17. OneJobPerUpload'
  BY <1>15 DEF OneJobPerUpload, Own
<1>18. QED
  BY <1>12, <1>13, <1>16, <1>17 DEF AdmitInv, AdmissionLimits

LEMMA AdmitStep == TypeInv /\ LocksInv /\ JobsInv /\ AdmitInv /\ [Next]_vars => AdmitInv'
<1> SUFFICES ASSUME TypeInv, LocksInv, JobsInv, AdmitInv, [Next]_vars PROVE AdmitInv'
  OBVIOUS
<1>a. pc \in [Requests -> Locations] /\ req \in [Requests -> Asked \cup {NoRequest}]
  BY DEF TypeInv, RequestsTyped
<1>b. ASSUME NothingGained, UNCHANGED <<pc, req>> PROVE AdmitInv'
  <2>1. \A k \in Requests : Admitted(k)'
    BY <1>b, AdmittedStays
  <2>2. AdmissionLimits'
    BY <1>b, LimitsStay DEF AdmitInv
  <2>3. AdvisoryInv'
    BY <1>b DEF AdmitInv, AdvisoryInv
  <2>4. QED
    BY <2>1, <2>2, <2>3 DEF AdmitInv
<1>c. ASSUME NEW i \in Requests, NothingGained,
             \A k \in Requests \ {i} : pc'[k] = pc[k] /\ req'[k] = req[k],
             pc'[i] \notin Admitting
      PROVE AdmitInv'
  BY <1>c, AdmitStays DEF Admitted, Admitting
<1>d. ASSUME NEW i \in Requests, UNCHANGED row,
             \A k \in Requests \ {i} : pc'[k] = pc[k] /\ req'[k] = req[k],
             pc'[i] \notin Admitting
      PROVE AdmitInv'
  BY <1>c, <1>d, SameRowsGainNothing
<1>e. ASSUME NEW i \in Requests, RolledBack(i) PROVE AdmitInv'
  BY <1>a, <1>d, <1>e DEF RolledBack, Admitting
<1>1. ASSUME NEW i \in Requests, NEW b \in Browsers, Receive(i, b)
      PROVE  AdmitInv'
  <2>1. PICK r \in Creations(b) \cup SignIns(b) \cup Managed(b) :
          /\ req' = [req EXCEPT ![i] = r]
          /\ pc' = [pc EXCEPT ![i] = First[r.kind]]
    BY <1>1 DEF Receive
  <2>2. r.kind \in Kinds
    BY AskedForIsWellAsked DEF WellAsked, Asked
  <2>3. pc'[i] \notin Admitting
    BY <1>a, <2>1, <2>2 DEF First, Kinds, Admitting
  <2>4. UNCHANGED row
    BY <1>1 DEF Receive
  <2>5. QED
    BY <1>a, <1>d, <2>1, <2>3, <2>4
<1>2. ASSUME NEW i \in Requests, Lock(i) PROVE AdmitInv'
  <2>1. /\ pc' = [pc EXCEPT ![i] = "check"] /\ UNCHANGED <<row, req>>
        /\ \A k \in Requests : pc[k] \in Admitting => req[k].owner # req[i].owner
    BY <1>2 DEF Lock, At, Admitting
  <2>2. Admitted(i)'
    BY <1>a, <2>1 DEF Admitted
  <2>3. QED
    BY <1>a, <2>1, <2>2, SameRowsGainNothing, AdmitStays
<1>3. ASSUME NEW i \in Requests, CheckDuplicate(i) PROVE AdmitInv'
  <2>1. CASE RolledBack(i)
    BY <2>1, <1>e
  <2>2. CASE ~\E j \in Owned(req[i].owner) : SameUpload(i, j)
    <3>1. /\ pc[i] = "check" /\ pc' = [pc EXCEPT ![i] = "count"]
          /\ UNCHANGED <<row, req>>
      BY <1>3, <2>2 DEF CheckDuplicate, At
    <3>2. Admitted(i)'
      BY <1>a, <2>2, <3>1 DEF Admitted, SameUpload, Own, Owned, Exists
    <3>3. QED
      BY <1>a, <3>1, <3>2, SameRowsGainNothing, AdmitStays DEF Admitting
  <2>3. QED
    BY <1>3, <2>1, <2>2 DEF CheckDuplicate
<1>4. ASSUME NEW i \in Requests, CountActive(i) PROVE AdmitInv'
  <2>1. CASE RolledBack(i)
    BY <2>1, <1>e
  <2>2. CASE ~(Cardinality(Running(req[i].owner)) >= MaxActive)
    <3>1. /\ pc[i] = "count" /\ pc' = [pc EXCEPT ![i] = "insert"]
          /\ UNCHANGED <<row, req>>
      BY <1>4, <2>2 DEF CountActive, At
    <3>2. PICK o \in Owners : o = req[i].owner
      BY <3>1, OwnerOfRequest
    <3>3. Cardinality(OwnRunning(o)) < MaxActive
      <4>1. /\ OwnRunning(o) \in SUBSET Requests /\ Running(o) \in SUBSET Requests
            /\ OwnRunning(o) \subseteq Running(o)
        BY DEF OwnRunning, Running, Owned
      <4>2. /\ Cardinality(OwnRunning(o)) <= Cardinality(Running(o))
            /\ Cardinality(OwnRunning(o)) \in Nat /\ Cardinality(Running(o)) \in Nat
        BY <4>1, OwnCounted, Zenon
      <4>3. ~(Cardinality(Running(o)) >= MaxActive)
        BY <2>2, <3>2
      <4>4. QED
        BY <4>2, <4>3 DEF AccountsAssumption
    <3>4. \A j \in Own(o) : row[j].file # req[i].file
      BY <3>1, <3>2 DEF AdmitInv, Admitted
    <3>5. /\ Own(req[i].owner)' = Own(o)
          /\ OwnRunning(req[i].owner)' = OwnRunning(o)
      BY <3>1, <3>2 DEF Own, OwnRunning, Owned, Running, Exists
    <3>6. Admitted(i)'
      BY <3>1, <3>3, <3>4, <3>5 DEF Admitted
    <3>7. QED
      BY <1>a, <3>1, <3>6, SameRowsGainNothing, AdmitStays DEF Admitting
  <2>3. QED
    BY <1>4, <2>1, <2>2 DEF CountActive
<1>5. ASSUME NEW i \in Requests, InsertJob(i) PROVE AdmitInv'
  BY <1>5, InsertStays
<1>6. ASSUME NEW i \in Requests, InsertUser(i) PROVE AdmitInv'
  BY <1>6, <1>a, <1>d, <1>e DEF InsertUser, At, Admitting
<1>7. ASSUME NEW i \in Requests, Adopt(i) PROVE AdmitInv'
  BY <1>7, <1>a, <1>d DEF Adopt, At, Admitting
<1>8. ASSUME NEW i \in Requests, InsertSession(i) PROVE AdmitInv'
  <2>1. CASE RolledBack(i)
    BY <2>1, <1>e
  <2>2. CASE user[req[i].user] # "deleted"
    <3>1. req[i].browser \in Browsers
      BY <1>8, <2>2, AdoptionEffect, IssuerHasUser
         DEF TypeInv, RequestsTyped, Asking, WellAsked, Asked
    <3>2. \A j \in tx[i].rows : row[j].by \in Browsers
      BY <1>8, <2>2, <3>1, AdoptionEffect DEF JobsInv, TypeInv, RowsTyped, Writes
    <3>3. NothingGained
      BY <1>8, <2>2, <3>2, AdoptionEffect, MovedRowsGainNothing
    <3>4. QED
      BY <1>8, <1>a, <1>c, <2>2, <3>3 DEF InsertSession, At, Admitting
  <2>3. QED
    BY <1>8, <2>1, <2>2 DEF InsertSession
<1>9. ASSUME NEW i \in Requests, Revoke(i) PROVE AdmitInv'
  BY <1>9, <1>a, <1>d DEF Revoke, At, Admitting
<1>10. ASSUME NEW i \in Requests, RevokeOthers(i) PROVE AdmitInv'
  BY <1>10, <1>a, <1>d DEF RevokeOthers, At, Admitting
<1>11. ASSUME NEW i \in Requests, ChangePassword(i) PROVE AdmitInv'
  BY <1>11, <1>a, <1>d, <1>e DEF ChangePassword, At, Admitting
<1>12. ASSUME NEW i \in Requests, CancelJobs(i) PROVE AdmitInv'
  BY <1>12, <1>a, <1>d DEF CancelJobs, At, Admitting, Write
<1>13. ASSUME NEW i \in Requests, MarkJobs(i) PROVE AdmitInv'
  BY <1>13, <1>a, <1>d DEF MarkJobs, At, Admitting, Write
<1>14. ASSUME NEW i \in Requests, PurgeJobs(i) PROVE AdmitInv'
  BY <1>14, <1>a, <1>d DEF PurgeJobs, At, Admitting, Write
<1>15. ASSUME NEW i \in Requests, DeleteUser(i) PROVE AdmitInv'
  <2>1. CASE RolledBack(i)
    BY <2>1, <1>e
  <2>2. CASE user[req[i].user] = "exists"
    <3>1. NothingGained
      BY <1>15, <2>2, DeletionEffect, MovedRowsGainNothing
    <3>2. QED
      BY <1>15, <1>a, <1>c, <2>2, <3>1 DEF DeleteUser, At, Admitting
  <2>3. QED
    BY <1>15, <2>1, <2>2 DEF DeleteUser
<1>16. ASSUME NEW i \in Requests, Respond(i) PROVE AdmitInv'
  BY <1>16, <1>a, <1>d DEF Respond, At, Admitting
<1>17. ASSUME NEW i \in Requests, Fail(i) PROVE AdmitInv'
  BY <1>17, <1>a, <1>d DEF Fail, Admitting
<1>18. ASSUME NEW i \in Requests, ExpireSession(i) PROVE AdmitInv'
  BY <1>18, <1>b, SameRowsGainNothing DEF ExpireSession
<1>19. ASSUME NEW i \in Requests, SettleJob(i) PROVE AdmitInv'
  <2>1. NothingGained
    BY <1>19, SettleEffect, MovedRowsGainNothing
  <2>2. QED
    BY <1>19, <1>b, <2>1 DEF SettleJob
<1>20. ASSUME NEW i \in Requests, CleanJob(i) PROVE AdmitInv'
  <2>1. NothingGained
    BY <1>20, CleanEffect, MovedRowsGainNothing
  <2>2. QED
    BY <1>20, <1>b, <2>1 DEF CleanJob
<1>21. CASE UNCHANGED vars
  BY <1>21, <1>b, SameRowsGainNothing DEF vars
<1>22. QED
  BY <1>1, <1>2, <1>3, <1>4, <1>5, <1>6, <1>7, <1>8, <1>9, <1>10, <1>11, <1>12,
     <1>13, <1>14, <1>15, <1>16, <1>17, <1>18, <1>19, <1>20, <1>21
     DEF Next, Work

-----------------------------------------------------------------------------
(* Deletions.                                                               *)

LEMMA SessionsKeepUsers ==
    TypeInv /\ SessionsHaveUsers /\ [Next]_vars => SessionsHaveUsers'
<1> SUFFICES ASSUME TypeInv, SessionsHaveUsers, [Next]_vars PROVE SessionsHaveUsers'
  OBVIOUS
<1>a. ASSUME UNCHANGED <<user, req>>, active' \subseteq active PROVE SessionsHaveUsers'
  BY <1>a DEF SessionsHaveUsers
<1>b. ASSUME NEW i \in Requests, RolledBack(i) PROVE SessionsHaveUsers'
  BY <1>a, <1>b DEF RolledBack
<1>c. active \subseteq Issuers /\ user \in [Users -> {"absent", "exists", "deleted"}]
  BY DEF TypeInv, SessionsTyped
<1>1. ASSUME NEW i \in Requests, NEW b \in Browsers, Receive(i, b)
      PROVE  SessionsHaveUsers'
  <2>1. PICK r : req' = [req EXCEPT ![i] = r]
    BY <1>1 DEF Receive
  <2>2. req[i] = NoRequest
    BY <1>1 DEF Receive, TypeInv, RequestsTyped, Asking
  <2>3. i \notin active
    BY <1>c, <2>2 DEF Issuers, NoRequest
  <2>4. \A k \in active : req'[k] = req[k]
    BY <1>c, <2>1, <2>3 DEF Issuers, TypeInv, RequestsTyped
  <2>5. QED
    BY <1>1, <2>4 DEF Receive, SessionsHaveUsers
<1>2. ASSUME NEW i \in Requests, Lock(i) PROVE SessionsHaveUsers'
  BY <1>2, <1>a DEF Lock
<1>3. ASSUME NEW i \in Requests, CheckDuplicate(i) PROVE SessionsHaveUsers'
  BY <1>3, <1>a, <1>b DEF CheckDuplicate
<1>4. ASSUME NEW i \in Requests, CountActive(i) PROVE SessionsHaveUsers'
  BY <1>4, <1>a, <1>b DEF CountActive
<1>5. ASSUME NEW i \in Requests, InsertJob(i) PROVE SessionsHaveUsers'
  BY <1>5, <1>a DEF InsertJob
<1>6. ASSUME NEW i \in Requests, InsertUser(i) PROVE SessionsHaveUsers'
  BY <1>6, <1>a, <1>b DEF InsertUser
<1>7. ASSUME NEW i \in Requests, Adopt(i) PROVE SessionsHaveUsers'
  BY <1>7, <1>a DEF Adopt
<1>8. ASSUME NEW i \in Requests, InsertSession(i) PROVE SessionsHaveUsers'
  <2>1. CASE RolledBack(i)
    BY <2>1, <1>b
  <2>2. CASE user[req[i].user] # "deleted"
    <3>1. /\ user' = [user EXCEPT ![req[i].user] = "exists"] /\ UNCHANGED req
          /\ active' \subseteq active \cup {i}
      BY <1>8, <2>2 DEF InsertSession
    <3>2. req[i].user \in Users
      BY <1>8, IssuerHasUser DEF InsertSession, TypeInv, RequestsTyped, Asking
    <3>3. ASSUME NEW k \in active' PROVE user'[req'[k].user] = "exists"
      <4>1. user'[req[i].user] = "exists"
        BY <1>c, <3>1, <3>2
      <4>2. CASE req[k].user = req[i].user
        BY <3>1, <4>1, <4>2
      <4>3. CASE req[k].user # req[i].user
        <5>1. k \in active
          BY <3>1, <4>3
        <5>2. user[req[k].user] = "exists"
          BY <5>1 DEF SessionsHaveUsers
        <5>3. k \in Issuers
          BY <1>c, <5>1
        <5>4. req[k].user \in Users
          BY <5>3, IssuerHasUser DEF Issuers
        <5>5. QED
          BY <1>c, <3>1, <4>3, <5>2, <5>4
      <4>4. QED
        BY <4>2, <4>3
    <3>4. QED
      BY <3>3 DEF SessionsHaveUsers
  <2>3. QED
    BY <1>8, <2>1, <2>2 DEF InsertSession
<1>9. ASSUME NEW i \in Requests, Revoke(i) PROVE SessionsHaveUsers'
  BY <1>9, <1>a DEF Revoke
<1>10. ASSUME NEW i \in Requests, RevokeOthers(i) PROVE SessionsHaveUsers'
  BY <1>10, <1>a DEF RevokeOthers
<1>11. ASSUME NEW i \in Requests, ChangePassword(i) PROVE SessionsHaveUsers'
  BY <1>11, <1>a, <1>b DEF ChangePassword
<1>12. ASSUME NEW i \in Requests, CancelJobs(i) PROVE SessionsHaveUsers'
  BY <1>12, <1>a DEF CancelJobs, Write
<1>13. ASSUME NEW i \in Requests, MarkJobs(i) PROVE SessionsHaveUsers'
  BY <1>13, <1>a DEF MarkJobs, Write
<1>14. ASSUME NEW i \in Requests, PurgeJobs(i) PROVE SessionsHaveUsers'
  BY <1>14, <1>a DEF PurgeJobs, Write
<1>15. ASSUME NEW i \in Requests, DeleteUser(i) PROVE SessionsHaveUsers'
  <2>1. CASE RolledBack(i)
    BY <2>1, <1>b
  <2>2. CASE user[req[i].user] = "exists"
    <3>1. /\ user' = [user EXCEPT ![req[i].user] = "deleted"] /\ UNCHANGED req
          /\ active' = active \ SessionsOf(req[i].user)
      BY <1>15, <2>2 DEF DeleteUser
    <3>2. ASSUME NEW k \in active' PROVE user'[req'[k].user] = "exists"
      <4>1. k \in active /\ req[k].user # req[i].user
        BY <3>1 DEF SessionsOf
      <4>2. user[req[k].user] = "exists"
        BY <4>1 DEF SessionsHaveUsers
      <4>3. k \in Issuers
        BY <1>c, <4>1
      <4>4. req[k].user \in Users
        BY <4>3, IssuerHasUser DEF Issuers
      <4>5. QED
        BY <1>c, <3>1, <4>1, <4>2, <4>4
    <3>3. QED
      BY <3>2 DEF SessionsHaveUsers
  <2>3. QED
    BY <1>15, <2>1, <2>2 DEF DeleteUser
<1>16. ASSUME NEW i \in Requests, Respond(i) PROVE SessionsHaveUsers'
  BY <1>16, <1>a DEF Respond
<1>17. ASSUME NEW i \in Requests, Fail(i) PROVE SessionsHaveUsers'
  BY <1>17, <1>a DEF Fail
<1>18. ASSUME NEW i \in Requests, ExpireSession(i) PROVE SessionsHaveUsers'
  BY <1>18, <1>a DEF ExpireSession
<1>19. ASSUME NEW i \in Requests, SettleJob(i) PROVE SessionsHaveUsers'
  BY <1>19, <1>a DEF SettleJob
<1>20. ASSUME NEW i \in Requests, CleanJob(i) PROVE SessionsHaveUsers'
  BY <1>20, <1>a DEF CleanJob
<1>21. CASE UNCHANGED vars
  BY <1>21, <1>a DEF vars
<1>22. QED
  BY <1>1, <1>2, <1>3, <1>4, <1>5, <1>6, <1>7, <1>8, <1>9, <1>10, <1>11, <1>12,
     <1>13, <1>14, <1>15, <1>16, <1>17, <1>18, <1>19, <1>20, <1>21
     DEF Next, Work

Deleting == {"mark", "purge", "remove"}

\* What the transaction of a deletion has done so far about a job of its user.
Dealt(k, j) ==
    /\ j \in tx[k].cancelled \/ row[j].state = "settled"
    /\ pc[k] \in {"purge", "remove"} => j \in tx[k].marked

DeleteInv ==
    \A k \in Requests, j \in Requests \ late :
        pc[k] \in Deleting /\ Exists(j) /\ row[j].owner = req[k].user => Dealt(k, j)

\* A row that changes stays its owner's.
RowStays(j) == row'[j] = row[j] \/ (RowMoves(j) /\ row'[j].owner = row[j].owner)

LEMMA StaysDealt ==
    ASSUME DeleteInv, NEW k \in Requests, pc[k] \in Deleting,
           pc'[k] = pc[k], req'[k] = req[k], tx'[k] = tx[k],
           NEW j \in Requests \ late, RowStays(j),
           Exists(j)', row'[j].owner = req[k].user
    PROVE  Dealt(k, j)'
<1>1. Exists(j) /\ row[j].owner = req[k].user
  BY DEF RowStays, RowMoves, Exists
<1>2. Dealt(k, j)
  BY <1>1 DEF DeleteInv
<1>3. row[j].state = "settled" => row'[j].state = "settled"
  BY DEF RowStays, RowMoves, Exists
<1>4. QED
  BY <1>2, <1>3 DEF Dealt

\* Whatever happens to the rows, other deletions have dealt with what they had.
LEMMA DeletionsGoOn ==
    ASSUME DeleteInv, late \subseteq late', NEW S \in SUBSET Requests,
           \A k \in Requests \ S : \/ pc'[k] \notin Deleting
                                   \/ pc'[k] = pc[k] /\ req'[k] = req[k] /\ tx'[k] = tx[k],
           \A k \in S, j \in Requests \ late' :
              pc'[k] \in Deleting /\ Exists(j)' /\ row'[j].owner = req'[k].user
                  => Dealt(k, j)',
           \A j \in Requests \ late' :
              \/ RowStays(j)
              \/ \A k \in Requests : pc'[k] \in Deleting => row'[j].owner # req'[k].user
    PROVE  DeleteInv'
<1>1. ASSUME NEW k \in Requests, NEW j \in Requests \ late',
             pc'[k] \in Deleting, Exists(j)', row'[j].owner = req'[k].user
      PROVE  Dealt(k, j)'
  <2>1. CASE k \in S
    BY <1>1, <2>1
  <2>2. CASE k \notin S
    <3>1. pc'[k] = pc[k] /\ req'[k] = req[k] /\ tx'[k] = tx[k]
      BY <1>1, <2>2
    <3>2. RowStays(j) /\ j \in Requests \ late
      BY <1>1
    <3>3. QED
      BY <1>1, <3>1, <3>2, StaysDealt
  <2>3. QED
    BY <2>1, <2>2
<1>2. QED
  BY <1>1 DEF DeleteInv

\* A job that becomes a user's too late for a deletion is known to be late.
LEMMA BelatedAreLate ==
    ASSUME NEW u, NEW S
    PROVE  /\ late \subseteq Belated(u, S)
           /\ \/ S \subseteq Belated(u, S)
              \/ /\ \A k \in Requests : pc[k] \in Deleting => req[k].user # u
                 /\ u \in Users => user[u] # "deleted"
BY DEF Belated, Deleting

LEMMA DeleteStep ==
    TypeInv /\ LocksInv /\ JobsInv /\ DeleteInv /\ [Next]_vars => DeleteInv'
<1> SUFFICES ASSUME TypeInv, LocksInv, JobsInv, DeleteInv, [Next]_vars PROVE DeleteInv'
  OBVIOUS
<1>a. pc \in [Requests -> Locations] /\ req \in [Requests -> Asked \cup {NoRequest}]
      /\ tx \in [Requests -> Writes]
  BY DEF TypeInv, RequestsTyped, RowsTyped
<1>b. ASSUME late' = late, \A j \in Requests : RowStays(j),
             \A k \in Requests : \/ pc'[k] \notin Deleting
                                 \/ pc'[k] = pc[k] /\ req'[k] = req[k] /\ tx'[k] = tx[k]
      PROVE  DeleteInv'
  BY <1>b, DeletionsGoOn
<1>c. ASSUME UNCHANGED <<row, late, tx>>,
             \A k \in Requests : pc'[k] \notin Deleting \/ (pc'[k] = pc[k] /\ req'[k] = req[k])
      PROVE  DeleteInv'
  BY <1>b, <1>c DEF RowStays
<1>d. ASSUME NEW i \in Requests, RolledBack(i) PROVE DeleteInv'
  <2>1. \A k \in Requests : \/ pc'[k] \notin Deleting
                            \/ pc'[k] = pc[k] /\ req'[k] = req[k] /\ tx'[k] = tx[k]
    BY <1>a, <1>d DEF RolledBack, Release, Deleting
  <2>2. \A j \in Requests : RowStays(j)
    BY <1>d DEF RolledBack, RowStays
  <2>3. QED
    BY <1>b, <1>d, <2>1, <2>2 DEF RolledBack
<1>1. ASSUME NEW i \in Requests, NEW b \in Browsers, Receive(i, b)
      PROVE  DeleteInv'
  <2>1. PICK r \in Creations(b) \cup SignIns(b) \cup Managed(b) :
          /\ req' = [req EXCEPT ![i] = r]
          /\ pc' = [pc EXCEPT ![i] = First[r.kind]]
    BY <1>1 DEF Receive
  <2>2. r.kind \in Kinds
    BY AskedForIsWellAsked DEF WellAsked, Asked
  <2>3. pc'[i] \notin Deleting
    BY <1>a, <2>1, <2>2 DEF First, Kinds, Deleting
  <2>4. UNCHANGED <<row, late, tx>>
    BY <1>1 DEF Receive
  <2>5. QED
    BY <1>a, <1>c, <2>1, <2>3, <2>4
<1>2. ASSUME NEW i \in Requests, Lock(i) PROVE DeleteInv'
  BY <1>2, <1>a, <1>c DEF Lock, At, Deleting
<1>3. ASSUME NEW i \in Requests, CheckDuplicate(i) PROVE DeleteInv'
  BY <1>3, <1>a, <1>c, <1>d DEF CheckDuplicate, At, Deleting
<1>4. ASSUME NEW i \in Requests, CountActive(i) PROVE DeleteInv'
  BY <1>4, <1>a, <1>c, <1>d DEF CountActive, At, Deleting
<1>5. ASSUME NEW i \in Requests, InsertJob(i) PROVE DeleteInv'
  <2>1. /\ pc' = [pc EXCEPT ![i] = "done"] /\ UNCHANGED <<req, tx>>
        /\ late' = Belated(req[i].owner, {i})
    BY <1>5 DEF InsertJob, At
  <2>2. row'[i].owner = req[i].owner /\ \A j \in Requests \ {i} : row'[j] = row[j]
    <3>1. /\ row'[i] = Job(req[i].owner, req[i].file)
          /\ \A j \in Requests \ {i} : row'[j] = row[j]
      BY <1>5, InsertEffect
    <3>2. QED
      BY <3>1 DEF Job
  <2>3. \A k \in Requests : pc'[k] \in Deleting => pc[k] \in Deleting
    BY <1>a, <2>1 DEF Deleting
  <2>4. late \subseteq late' /\ (\/ i \in late'
                                 \/ \A k \in Requests : pc[k] \in Deleting
                                                           => req[k].user # req[i].owner)
    BY <2>1, BelatedAreLate
  <2>5. \A j \in Requests \ late' :
              \/ RowStays(j)
              \/ \A k \in Requests : pc'[k] \in Deleting => row'[j].owner # req'[k].user
    BY <2>1, <2>2, <2>3, <2>4 DEF RowStays
  <2>6. \A k \in Requests : \/ pc'[k] \notin Deleting
                            \/ pc'[k] = pc[k] /\ req'[k] = req[k] /\ tx'[k] = tx[k]
    BY <1>a, <2>1 DEF Deleting
  <2>7. QED
    BY <2>4, <2>5, <2>6, DeletionsGoOn
<1>6. ASSUME NEW i \in Requests, InsertUser(i) PROVE DeleteInv'
  BY <1>6, <1>a, <1>c, <1>d DEF InsertUser, At, Deleting
<1>7. ASSUME NEW i \in Requests, Adopt(i) PROVE DeleteInv'
  <2>1. \A k \in Requests : \/ pc'[k] \notin Deleting
                            \/ pc'[k] = pc[k] /\ req'[k] = req[k] /\ tx'[k] = tx[k]
    BY <1>7, <1>a DEF Adopt, At, Deleting
  <2>2. \A j \in Requests : RowStays(j)
    BY <1>7 DEF Adopt, RowStays
  <2>3. QED
    BY <1>7, <1>b, <2>1, <2>2 DEF Adopt
<1>8. ASSUME NEW i \in Requests, InsertSession(i) PROVE DeleteInv'
  <2>1. CASE RolledBack(i)
    BY <2>1, <1>d
  <2>2. CASE user[req[i].user] # "deleted"
    <3>1. /\ pc' = [pc EXCEPT ![i] = "respond"] /\ UNCHANGED req
          /\ late' = Belated(req[i].user, tx[i].rows) /\ Release(i)
      BY <1>8, <2>2 DEF InsertSession, At
    <3>2. \A k \in Requests : pc'[k] \in Deleting => pc[k] \in Deleting
      BY <1>a, <3>1 DEF Deleting
    <3>3. late \subseteq late' /\ (\/ tx[i].rows \subseteq late'
                                   \/ \A k \in Requests : pc[k] \in Deleting
                                                             => req[k].user # req[i].user)
      BY <3>1, BelatedAreLate
    <3>4. ASSUME NEW j \in Requests \ late'
          PROVE  \/ RowStays(j)
                 \/ \A k \in Requests : pc'[k] \in Deleting => row'[j].owner # req'[k].user
      <4>1. CASE j \in tx[i].rows
        <5>1. row'[j].owner = req[i].user
          BY <1>8, <2>2, <4>1, AdoptionEffect
        <5>2. QED
          BY <3>1, <3>2, <3>3, <4>1, <5>1
      <4>2. CASE j \notin tx[i].rows
        BY <1>8, <2>2, <4>2, AdoptionEffect DEF RowStays
      <4>3. QED
        BY <4>1, <4>2
    <3>5. \A k \in Requests : \/ pc'[k] \notin Deleting
                              \/ pc'[k] = pc[k] /\ req'[k] = req[k] /\ tx'[k] = tx[k]
      BY <1>a, <3>1 DEF Deleting, Release
    <3>6. QED
      BY <3>3, <3>4, <3>5, DeletionsGoOn
  <2>3. QED
    BY <1>8, <2>1, <2>2 DEF InsertSession
<1>9. ASSUME NEW i \in Requests, Revoke(i) PROVE DeleteInv'
  BY <1>9, <1>a, <1>c DEF Revoke, At, Deleting
<1>10. ASSUME NEW i \in Requests, RevokeOthers(i) PROVE DeleteInv'
  BY <1>10, <1>a, <1>c DEF RevokeOthers, At, Deleting
<1>11. ASSUME NEW i \in Requests, ChangePassword(i) PROVE DeleteInv'
  BY <1>11, <1>a, <1>c, <1>d DEF ChangePassword, At, Deleting
<1>12. ASSUME NEW i \in Requests, CancelJobs(i) PROVE DeleteInv'
  <2>1. Wrote(i, Running(req[i].user), Running(req[i].user), {}, {})
    BY <1>12, CancelEffect
  <2>2. /\ pc' = [pc EXCEPT ![i] = "mark"] /\ UNCHANGED <<row, req, late>>
    BY <1>12 DEF CancelJobs, At, Write
  <2>3. ASSUME NEW j \in Requests \ late, Exists(j), row[j].owner = req[i].user
        PROVE  Dealt(i, j)'
    <3>1. j \in Running(req[i].user) \/ row[j].state = "settled"
      BY <2>3 DEF Running, Owned, Exists
    <3>2. QED
      BY <1>a, <2>1, <2>2, <3>1 DEF Dealt, Wrote
  <2>4. \A k \in Requests \ {i} : pc'[k] = pc[k] /\ req'[k] = req[k] /\ tx'[k] = tx[k]
    BY <1>a, <2>1, <2>2 DEF Wrote
  <2>5. \A j \in Requests : RowStays(j) /\ Exists(j)' = Exists(j)
    BY <2>2 DEF RowStays, Exists
  <2>6. \A k \in {i}, j \in Requests \ late' :
              pc'[k] \in Deleting /\ Exists(j)' /\ row'[j].owner = req'[k].user
                  => Dealt(k, j)'
    BY <2>2, <2>3, <2>5
  <2>7. late \subseteq late' /\ {i} \in SUBSET Requests
    BY <2>2
  <2>8. QED
    BY <2>4, <2>5, <2>6, <2>7, DeletionsGoOn
<1>13. ASSUME NEW i \in Requests, MarkJobs(i) PROVE DeleteInv'
  <2>1. Wrote(i, tx[i].rows \cup Owned(req[i].user), tx[i].cancelled,
              Owned(req[i].user), tx[i].purged)
    BY <1>13, MarkEffect
  <2>2. /\ pc[i] = "mark" /\ pc' = [pc EXCEPT ![i] = "purge"]
        /\ UNCHANGED <<row, req, late>>
    BY <1>13 DEF MarkJobs, At, Write
  <2>3. ASSUME NEW j \in Requests \ late, Exists(j), row[j].owner = req[i].user
        PROVE  Dealt(i, j)'
    <3>1. Dealt(i, j)
      BY <2>2, <2>3 DEF DeleteInv, Deleting
    <3>2. j \in Owned(req[i].user)
      BY <2>3 DEF Owned
    <3>3. QED
      BY <2>1, <2>2, <3>1, <3>2 DEF Dealt, Wrote
  <2>4. \A k \in Requests \ {i} : pc'[k] = pc[k] /\ req'[k] = req[k] /\ tx'[k] = tx[k]
    BY <1>a, <2>1, <2>2 DEF Wrote
  <2>5. \A j \in Requests : RowStays(j) /\ Exists(j)' = Exists(j)
    BY <2>2 DEF RowStays, Exists
  <2>6. \A k \in {i}, j \in Requests \ late' :
              pc'[k] \in Deleting /\ Exists(j)' /\ row'[j].owner = req'[k].user
                  => Dealt(k, j)'
    BY <2>2, <2>3, <2>5
  <2>7. late \subseteq late' /\ {i} \in SUBSET Requests
    BY <2>2
  <2>8. QED
    BY <2>4, <2>5, <2>6, <2>7, DeletionsGoOn
<1>14. ASSUME NEW i \in Requests, PurgeJobs(i) PROVE DeleteInv'
  <2>1. PICK S \in SUBSET Owned(req[i].user) :
          Wrote(i, tx[i].rows \cup S, tx[i].cancelled, tx[i].marked, S)
    BY <1>14, PurgeEffect
  <2>2. /\ pc[i] = "purge" /\ pc' = [pc EXCEPT ![i] = "remove"]
        /\ UNCHANGED <<row, req, late>>
    BY <1>14 DEF PurgeJobs, At, Write
  <2>3. ASSUME NEW j \in Requests \ late, Exists(j), row[j].owner = req[i].user
        PROVE  Dealt(i, j)'
    <3>1. Dealt(i, j)
      BY <2>2, <2>3 DEF DeleteInv, Deleting
    <3>2. QED
      BY <2>1, <2>2, <3>1 DEF Dealt, Wrote
  <2>4. \A k \in Requests \ {i} : pc'[k] = pc[k] /\ req'[k] = req[k] /\ tx'[k] = tx[k]
    BY <1>a, <2>1, <2>2 DEF Wrote
  <2>5. \A j \in Requests : RowStays(j) /\ Exists(j)' = Exists(j)
    BY <2>2 DEF RowStays, Exists
  <2>6. \A k \in {i}, j \in Requests \ late' :
              pc'[k] \in Deleting /\ Exists(j)' /\ row'[j].owner = req'[k].user
                  => Dealt(k, j)'
    BY <2>2, <2>3, <2>5
  <2>7. late \subseteq late' /\ {i} \in SUBSET Requests
    BY <2>2
  <2>8. QED
    BY <2>4, <2>5, <2>6, <2>7, DeletionsGoOn
<1>15. ASSUME NEW i \in Requests, DeleteUser(i) PROVE DeleteInv'
  <2>1. CASE RolledBack(i)
    BY <2>1, <1>d
  <2>2. CASE user[req[i].user] = "exists"
    <3>1. /\ pc' = [pc EXCEPT ![i] = "respond"] /\ UNCHANGED <<req, late>> /\ Release(i)
      BY <1>15, <2>2 DEF DeleteUser, At
    <3>2. \A j \in Requests : RowStays(j)
      BY <1>15, <2>2, DeletionEffect DEF RowStays
    <3>3. \A k \in Requests : \/ pc'[k] \notin Deleting
                              \/ pc'[k] = pc[k] /\ req'[k] = req[k] /\ tx'[k] = tx[k]
      BY <1>a, <3>1 DEF Deleting, Release
    <3>4. QED
      BY <1>b, <3>1, <3>2, <3>3
  <2>3. QED
    BY <1>15, <2>1, <2>2 DEF DeleteUser
<1>16. ASSUME NEW i \in Requests, Respond(i) PROVE DeleteInv'
  BY <1>16, <1>a, <1>c DEF Respond, At, Deleting
<1>17. ASSUME NEW i \in Requests, Fail(i) PROVE DeleteInv'
  <2>1. \A k \in Requests : \/ pc'[k] \notin Deleting
                            \/ pc'[k] = pc[k] /\ req'[k] = req[k] /\ tx'[k] = tx[k]
    BY <1>17, <1>a DEF Fail, Release, Deleting
  <2>2. \A j \in Requests : RowStays(j)
    BY <1>17 DEF Fail, RowStays
  <2>3. QED
    BY <1>17, <1>b, <2>1, <2>2 DEF Fail
<1>18. ASSUME NEW i \in Requests, ExpireSession(i) PROVE DeleteInv'
  BY <1>18, <1>c DEF ExpireSession
<1>19. ASSUME NEW i \in Requests, SettleJob(i) PROVE DeleteInv'
  <2>1. \A j \in Requests : RowStays(j)
    BY <1>19, SettleEffect DEF RowStays
  <2>2. QED
    BY <1>19, <1>b, <2>1 DEF SettleJob
<1>20. ASSUME NEW i \in Requests, CleanJob(i) PROVE DeleteInv'
  <2>1. \A j \in Requests : RowStays(j)
    BY <1>20, CleanEffect DEF RowStays
  <2>2. QED
    BY <1>20, <1>b, <2>1 DEF CleanJob
<1>21. CASE UNCHANGED vars
  BY <1>21, <1>c DEF vars
<1>22. QED
  BY <1>1, <1>2, <1>3, <1>4, <1>5, <1>6, <1>7, <1>8, <1>9, <1>10, <1>11, <1>12,
     <1>13, <1>14, <1>15, <1>16, <1>17, <1>18, <1>19, <1>20, <1>21
     DEF Next, Work

LEMMA DeletionsReachStep ==
    TypeInv /\ LocksInv /\ JobsInv /\ DeleteInv /\ DeletionReachesJobs /\ [Next]_vars
        => DeletionReachesJobs'
<1> SUFFICES ASSUME TypeInv, LocksInv, JobsInv, DeleteInv, DeletionReachesJobs, [Next]_vars
             PROVE  DeletionReachesJobs'
  OBVIOUS
<1>a. user \in [Users -> {"absent", "exists", "deleted"}]
  BY DEF TypeInv, SessionsTyped
<1>b. ASSUME NEW j \in Requests \ late, RowStays(j), Exists(j)', row'[j].owner \in Users,
             user[row'[j].owner] = "deleted"
      PROVE  row'[j].marked /\ row'[j].state = "settled"
  <2>1. Exists(j) /\ row'[j].owner = row[j].owner
    BY <1>b DEF RowStays, RowMoves, Exists
  <2>2. row[j].marked /\ row[j].state = "settled"
    BY <1>b, <2>1 DEF DeletionReachesJobs
  <2>3. QED
    BY <1>b, <2>2 DEF RowStays, RowMoves, Exists
<1>c. ASSUME UNCHANGED <<user, late>>, \A j \in Requests : RowStays(j)
      PROVE  DeletionReachesJobs'
  BY <1>b, <1>c DEF DeletionReachesJobs
<1>d. ASSUME UNCHANGED <<user, late, row>> PROVE DeletionReachesJobs'
  BY <1>c, <1>d DEF RowStays
<1>e. ASSUME NEW i \in Requests, RolledBack(i) PROVE DeletionReachesJobs'
  BY <1>d, <1>e DEF RolledBack
<1>1. ASSUME NEW i \in Requests, NEW b \in Browsers, Receive(i, b)
      PROVE  DeletionReachesJobs'
  BY <1>1, <1>d DEF Receive
<1>2. ASSUME NEW i \in Requests, Lock(i) PROVE DeletionReachesJobs'
  BY <1>2, <1>d DEF Lock
<1>3. ASSUME NEW i \in Requests, CheckDuplicate(i) PROVE DeletionReachesJobs'
  BY <1>3, <1>d, <1>e DEF CheckDuplicate
<1>4. ASSUME NEW i \in Requests, CountActive(i) PROVE DeletionReachesJobs'
  BY <1>4, <1>d, <1>e DEF CountActive
<1>5. ASSUME NEW i \in Requests, InsertJob(i) PROVE DeletionReachesJobs'
  <2>1. UNCHANGED user /\ late' = Belated(req[i].owner, {i})
    BY <1>5 DEF InsertJob
  <2>2. row'[i].owner = req[i].owner /\ \A j \in Requests \ {i} : row'[j] = row[j]
    <3>1. /\ row'[i] = Job(req[i].owner, req[i].file)
          /\ \A j \in Requests \ {i} : row'[j] = row[j]
      BY <1>5, InsertEffect
    <3>2. QED
      BY <3>1 DEF Job
  <2>3. late \subseteq late' /\ (\/ i \in late'
                                 \/ req[i].owner \in Users => user[req[i].owner] # "deleted")
    BY <2>1, BelatedAreLate
  <2>4. ASSUME NEW j \in Requests \ late', Exists(j)', row'[j].owner \in Users,
               user'[row'[j].owner] = "deleted"
        PROVE  row'[j].marked /\ row'[j].state = "settled"
    <3>1. j # i
      BY <2>1, <2>2, <2>3, <2>4
    <3>2. QED
      BY <1>b, <2>1, <2>2, <2>3, <2>4, <3>1 DEF RowStays
  <2>5. QED
    BY <2>4 DEF DeletionReachesJobs
<1>6. ASSUME NEW i \in Requests, InsertUser(i) PROVE DeletionReachesJobs'
  BY <1>6, <1>d, <1>e DEF InsertUser
<1>7. ASSUME NEW i \in Requests, Adopt(i) PROVE DeletionReachesJobs'
  BY <1>7, <1>d DEF Adopt
<1>8. ASSUME NEW i \in Requests, InsertSession(i) PROVE DeletionReachesJobs'
  <2>1. CASE RolledBack(i)
    BY <2>1, <1>e
  <2>2. CASE user[req[i].user] # "deleted"
    <3>1. /\ user' = [user EXCEPT ![req[i].user] = "exists"]
          /\ late' = Belated(req[i].user, tx[i].rows)
      BY <1>8, <2>2 DEF InsertSession
    <3>2. late \subseteq late'
      BY <3>1, BelatedAreLate
    <3>3. ASSUME NEW j \in Requests \ late', Exists(j)', row'[j].owner \in Users,
                 user'[row'[j].owner] = "deleted"
          PROVE  row'[j].marked /\ row'[j].state = "settled"
      <4>1. row'[j].owner # req[i].user /\ user[row'[j].owner] = "deleted"
        BY <1>a, <3>1, <3>3
      <4>2. RowStays(j)
        BY <1>8, <2>2, <4>1, AdoptionEffect DEF RowStays
      <4>3. QED
        BY <1>b, <3>2, <3>3, <4>1, <4>2
    <3>4. QED
      BY <3>3 DEF DeletionReachesJobs
  <2>3. QED
    BY <1>8, <2>1, <2>2 DEF InsertSession
<1>9. ASSUME NEW i \in Requests, Revoke(i) PROVE DeletionReachesJobs'
  BY <1>9, <1>d DEF Revoke
<1>10. ASSUME NEW i \in Requests, RevokeOthers(i) PROVE DeletionReachesJobs'
  BY <1>10, <1>d DEF RevokeOthers
<1>11. ASSUME NEW i \in Requests, ChangePassword(i) PROVE DeletionReachesJobs'
  BY <1>11, <1>d, <1>e DEF ChangePassword
<1>12. ASSUME NEW i \in Requests, CancelJobs(i) PROVE DeletionReachesJobs'
  BY <1>12, <1>d DEF CancelJobs, Write
<1>13. ASSUME NEW i \in Requests, MarkJobs(i) PROVE DeletionReachesJobs'
  BY <1>13, <1>d DEF MarkJobs, Write
<1>14. ASSUME NEW i \in Requests, PurgeJobs(i) PROVE DeletionReachesJobs'
  BY <1>14, <1>d DEF PurgeJobs, Write
<1>15. ASSUME NEW i \in Requests, DeleteUser(i) PROVE DeletionReachesJobs'
  <2>1. CASE RolledBack(i)
    BY <2>1, <1>e
  <2>2. CASE user[req[i].user] = "exists"
    <3>1. /\ user' = [user EXCEPT ![req[i].user] = "deleted"]
          /\ UNCHANGED late /\ pc[i] = "remove"
      BY <1>15, <2>2 DEF DeleteUser
    <3>2. \A j \in Requests : RowStays(j)
      BY <1>15, <2>2, DeletionEffect DEF RowStays
    <3>3. ASSUME NEW j \in Requests \ late', Exists(j)', row'[j].owner \in Users,
                 user'[row'[j].owner] = "deleted"
          PROVE  row'[j].marked /\ row'[j].state = "settled"
      <4>1. CASE row'[j].owner = req[i].user
        <5>1. Exists(j) /\ row[j].owner = req[i].user /\ j \in Requests \ late
          BY <3>1, <3>2, <3>3, <4>1 DEF RowStays, RowMoves, Exists
        <5>2. /\ j \in tx[i].cancelled \/ row[j].state = "settled"
              /\ j \in tx[i].marked
          BY <3>1, <5>1 DEF DeleteInv, Deleting, Dealt
        <5>3. j \in tx[i].rows
          BY <5>2 DEF LocksInv, Holds
        <5>4. /\ row'[j].marked
              /\ j \in tx[i].cancelled => row'[j].state # "active"
              /\ RowMoves(j)
          BY <1>15, <2>2, <5>2, <5>3, DeletionEffect
        <5>5. QED
          BY <3>3, <5>2, <5>4 DEF RowMoves, Exists
      <4>2. CASE row'[j].owner # req[i].user
        <5>1. user[row'[j].owner] = "deleted"
          BY <1>a, <3>1, <3>3, <4>2
        <5>2. QED
          BY <1>b, <3>1, <3>2, <3>3, <5>1
      <4>3. QED
        BY <4>1, <4>2
    <3>4. QED
      BY <3>3 DEF DeletionReachesJobs
  <2>3. QED
    BY <1>15, <2>1, <2>2 DEF DeleteUser
<1>16. ASSUME NEW i \in Requests, Respond(i) PROVE DeletionReachesJobs'
  BY <1>16, <1>d DEF Respond
<1>17. ASSUME NEW i \in Requests, Fail(i) PROVE DeletionReachesJobs'
  BY <1>17, <1>d DEF Fail
<1>18. ASSUME NEW i \in Requests, ExpireSession(i) PROVE DeletionReachesJobs'
  BY <1>18, <1>d DEF ExpireSession
<1>19. ASSUME NEW i \in Requests, SettleJob(i) PROVE DeletionReachesJobs'
  <2>1. \A j \in Requests : RowStays(j)
    BY <1>19, SettleEffect DEF RowStays
  <2>2. QED
    BY <1>19, <1>c, <2>1 DEF SettleJob
<1>20. ASSUME NEW i \in Requests, CleanJob(i) PROVE DeletionReachesJobs'
  <2>1. \A j \in Requests : RowStays(j)
    BY <1>20, CleanEffect DEF RowStays
  <2>2. QED
    BY <1>20, <1>c, <2>1 DEF CleanJob
<1>21. CASE UNCHANGED vars
  BY <1>21, <1>d DEF vars
<1>22. QED
  BY <1>1, <1>2, <1>3, <1>4, <1>5, <1>6, <1>7, <1>8, <1>9, <1>10, <1>11, <1>12,
     <1>13, <1>14, <1>15, <1>16, <1>17, <1>18, <1>19, <1>20, <1>21
     DEF Next, Work

-----------------------------------------------------------------------------
(* Theorems.                                                                *)

Inv == /\ TypeInv
       /\ LocksInv
       /\ JobsInv
       /\ AdmitInv
       /\ SessionsHaveUsers
       /\ DeleteInv
       /\ DeletionReachesJobs

LEMMA Initially == Init => Inv
<1> SUFFICES ASSUME Init PROVE Inv
  OBVIOUS
<1>1. \A i \in Requests : /\ req[i] = NoRequest /\ pc[i] = "none"
                          /\ tx[i] = NoWrites /\ row[i] = NoJob /\ ~Exists(i)
  BY DEF Init, Exists, NoJob
<1>2. TypeInv
  <2>1. NoWrites \in Writes
    BY DEF NoWrites, Writes
  <2>2. RequestsTyped
    BY <1>1 DEF Init, RequestsTyped, Asking, Locations
  <2>3. SessionsTyped
    BY DEF Init, SessionsTyped
  <2>4. RowsTyped
    BY <2>1 DEF Init, RowsTyped, AccountsAssumption
  <2>5. QED
    BY <2>2, <2>3, <2>4 DEF TypeInv
<1>3. LocksInv
  BY <1>1 DEF LocksInv, Holds, NoWrites
<1>4. JobsInv
  BY <1>1 DEF JobsInv
<1>5. AdmitInv
  <2>1. \A o : Owned(o) = {}
    BY <1>1 DEF Owned
  <2>2. \A o : OwnRunning(o) = {}
    BY <2>1 DEF OwnRunning, Running
  <2>3. CreationLimit
    BY <2>2, FS_EmptySet DEF CreationLimit, OwnRunning, AccountsAssumption
  <2>4. OneJobPerUpload
    BY <2>1 DEF OneJobPerUpload
  <2>5. QED
    BY <1>1, <2>3, <2>4
       DEF AdmitInv, AdvisoryInv, Admitting, Admitted, AdmissionLimits
<1>6. SessionsHaveUsers
  BY DEF Init, SessionsHaveUsers
<1>7. DeleteInv /\ DeletionReachesJobs
  BY <1>1 DEF DeleteInv, Deleting, DeletionReachesJobs
<1>8. QED
  BY <1>2, <1>3, <1>4, <1>5, <1>6, <1>7 DEF Inv

LEMMA InvStep == Inv /\ [Next]_vars => Inv'
<1> SUFFICES ASSUME Inv, [Next]_vars PROVE Inv'
  OBVIOUS
<1>1. /\ TypeInv /\ LocksInv /\ JobsInv /\ AdmitInv
      /\ SessionsHaveUsers /\ DeleteInv /\ DeletionReachesJobs
  BY DEF Inv
<1>2. TypeInv'
  BY <1>1, RequestsStep, SessionsStep, RowsStep DEF TypeInv
<1>3. LocksInv' /\ JobsInv'
  BY <1>1, LocksStep, JobsStep
<1>4. AdmitInv'
  BY <1>1, AdmitStep
<1>5. SessionsHaveUsers'
  BY <1>1, SessionsKeepUsers
<1>6. DeleteInv' /\ DeletionReachesJobs'
  BY <1>1, DeleteStep, DeletionsReachStep
<1>7. QED
  BY <1>2, <1>3, <1>4, <1>5, <1>6 DEF Inv

\* The tables, the locks, what a createJob and a deletion have checked so far, and
\* what follows from them, in every state.
THEOREM Invariance == Spec => []Inv
<1>1. QED
  BY Initially, InvStep, PTL DEF Spec

\* Whatever the browsers ask for and however their statements interleave, a session
\* is a sign-in's, a transaction writes rows of jobs, and a principal is an owner.
THEOREM TypeCorrect == Spec => []TypeOK
<1>1. TypeInv => TypeOK
  BY WritesAreRecords
     DEF TypeInv, RequestsTyped, SessionsTyped, RowsTyped, TypeOK, Asking, WellAsked,
         Asked
<1>2. QED
  BY <1>1, Invariance, PTL DEF Inv

\* What createJob checks under the advisory lock still holds when it inserts: no
\* owner exceeds MAX_ACTIVE_JOBS_PER_OWNER with jobs of its own making, nor makes two
\* of one upload, although logins move jobs between owners meanwhile.
THEOREM LimitsHold == Spec => []AdmissionLimits
<1>1. AdmitInv => AdmissionLimits
  BY DEF AdmitInv
<1>2. QED
  BY <1>1, Invariance, PTL DEF Inv

\* deleteUserAccount stops and marks every job its user had when it began and leaves
\* no session, although workers, the cleanup, logins and other deletions run between
\* its statements.
THEOREM DeletionReachesAll == Spec => []DeletionIsComplete
<1>1. Inv => DeletionIsComplete
  BY DEF Inv, DeletionIsComplete
<1>2. QED
  BY <1>1, Invariance, PTL

\* adoptAnonymousJobs takes a job from a browser only, so two logins of one browser
\* cannot pass it on between accounts.
THEOREM AdoptionIsFinal == Spec => AdoptedOnce
<1> DEFINE Stays == \A j \in Requests : Exists(j) /\ row[j].owner \in Users
                        => row'[j].owner = row[j].owner
<1>1. ASSUME Inv, [Next]_vars PROVE [Stays]_row
  <2> SUFFICES ASSUME row' # row PROVE Stays
    OBVIOUS
  <2> TypeInv /\ LocksInv /\ JobsInv
    BY <1>1 DEF Inv
  <2>1. ASSUME NEW i \in Requests, InsertJob(i) PROVE Stays
    <3>1. row[i] = NoJob
      BY <2>1 DEF InsertJob, At, JobsInv
    <3>2. ~Exists(i) /\ \A j \in Requests \ {i} : row'[j] = row[j]
      BY <2>1, <3>1, InsertEffect DEF Exists, NoJob
    <3>3. QED
      BY <3>2
  <2>2. ASSUME NEW i \in Requests, InsertSession(i) PROVE Stays
    <3>1. user[req[i].user] # "deleted"
      BY <2>2 DEF InsertSession, RolledBack
    <3>2. req[i].browser \in Browsers
      BY <2>2, <3>1, AdoptionEffect, IssuerHasUser
         DEF TypeInv, RequestsTyped, Asking, WellAsked, Asked
    <3>3. \A j \in tx[i].rows : row[j].owner \notin Users
      BY <2>2, <3>1, <3>2, AdoptionEffect, NoUserIsABrowser
    <3>4. \A j \in Requests \ tx[i].rows : row'[j] = row[j]
      BY <2>2, <3>1, AdoptionEffect
    <3>5. QED
      BY <3>3, <3>4
  <2>3. ASSUME NEW i \in Requests, DeleteUser(i) PROVE Stays
    <3>1. user[req[i].user] = "exists"
      BY <2>3 DEF DeleteUser, RolledBack
    <3>2. QED
      BY <2>3, <3>1, DeletionEffect
  <2>4. ASSUME NEW i \in Requests, SettleJob(i) PROVE Stays
    BY <2>4, SettleEffect
  <2>5. ASSUME NEW i \in Requests, CleanJob(i) PROVE Stays
    BY <2>5, CleanEffect
  <2>6. QED
    BY <1>1, <2>1, <2>2, <2>3, <2>4, <2>5
       DEF Next, Work, vars, Receive, Fail, ExpireSession, RolledBack, Write,
           Lock, CheckDuplicate, CountActive, InsertUser, Adopt, Revoke, RevokeOthers,
           ChangePassword, CancelJobs, MarkJobs, PurgeJobs, Respond
<1>2. QED
  BY <1>1, Invariance, PTL DEF Spec, AdoptedOnce
=============================================================================

----------------------- MODULE StorageCleanup_proofs -----------------------
(***************************************************************************)
(* Claims, objects and records of the storage cleanup, for any number of   *)
(* jobs, accounts, stems, cleanup processes and faults.                    *)
(***************************************************************************)
EXTENDS StorageCleanup, TLAPS

-----------------------------------------------------------------------------
(* Types.                                                                   *)

\* Every variable keeps its type; a process has a current claim exactly while it
\* works on a job.
THEOREM TypeCorrect == Spec => []TypeOK
<1> USE CleanupAssumption DEF TypeOK, Keys, Claims, NoClaim
<1>1. Init => TypeOK
  BY DEF Init
<1>2. TypeOK /\ [Next]_vars => TypeOK'
  <2> SUFFICES ASSUME TypeOK, [Next]_vars PROVE TypeOK'
    OBVIOUS
  <2> USE DEF vars, jobVars, claimVars, localVars, faultVars
  <2>1. ASSUME NEW j \in Jobs, NEW s \in Stems, UploadStem(j, s) PROVE TypeOK'
    BY <2>1 DEF UploadStem
  <2>2. ASSUME NEW j \in Jobs, CheckRow(j) PROVE TypeOK'
    BY <2>2 DEF CheckRow
  <2>3. ASSUME NEW j \in Jobs, CompleteJob(j) PROVE TypeOK'
    BY <2>3 DEF CompleteJob, FinishJob
  <2>4. ASSUME NEW j \in Jobs, FailJob(j) PROVE TypeOK'
    BY <2>4 DEF FailJob, FinishJob
  <2>5. ASSUME NEW j \in Jobs, CancelJob(j) PROVE TypeOK'
    BY <2>5 DEF CancelJob
  <2>6. ASSUME NEW j \in Jobs, Expire(j) PROVE TypeOK'
    BY <2>6 DEF Expire
  <2>7. ASSUME NEW j \in Jobs, ClaimTimesOut(j) PROVE TypeOK'
    BY <2>7 DEF ClaimTimesOut
  <2>8. ASSUME NEW j \in Jobs, ClaimSlips(j) PROVE TypeOK'
    BY <2>8 DEF ClaimSlips, Fault
  <2>9. ASSUME NEW o \in Owners, DeleteAccount(o) PROVE TypeOK'
    BY <2>9 DEF DeleteAccount
  <2>10. ASSUME NEW c \in Cleaners, ClaimExpiredJobs(c) PROVE TypeOK'
    BY <2>10 DEF ClaimExpiredJobs, Goto, Candidates
  <2>11. ASSUME NEW c \in Cleaners, NextJob(c) PROVE TypeOK'
    BY <2>11 DEF NextJob, Goto
  <2>12. ASSUME NEW c \in Cleaners, EndBatch(c) PROVE TypeOK'
    BY <2>12 DEF EndBatch, Goto
  <2>13. ASSUME NEW c \in Cleaners, CollectObjectKeys(c) PROVE TypeOK'
    BY <2>13 DEF CollectObjectKeys, Goto
  <2>14. ASSUME NEW c \in Cleaners, DeleteJobObjects(c) PROVE TypeOK'
    BY <2>14 DEF DeleteJobObjects, Deleted, Goto
  <2>15. ASSUME NEW c \in Cleaners, MarkCleanupCompleted(c) PROVE TypeOK'
    BY <2>15 DEF MarkCleanupCompleted, Recorded, Released, JobDone, Goto
  <2>16. ASSUME NEW c \in Cleaners, MarkRefused(c) PROVE TypeOK'
    BY <2>16 DEF MarkRefused, Fault, Goto
  <2>17. ASSUME NEW c \in Cleaners, MarkCleanupFailed(c) PROVE TypeOK'
    BY <2>17 DEF MarkCleanupFailed, Released, JobDone, Goto
  <2>18. ASSUME NEW c \in Cleaners, DeleteSomeObjects(c) PROVE TypeOK'
    BY <2>18 DEF DeleteSomeObjects, Deleted, Fault, Goto
  <2>19. ASSUME NEW c \in Cleaners, ListFails(c) PROVE TypeOK'
    BY <2>19 DEF ListFails, Fault, Goto
  <2>20. ASSUME NEW c \in Cleaners, MarkUnconfirmed(c) PROVE TypeOK'
    BY <2>20 DEF MarkUnconfirmed, Recorded, Released, Fault, Goto
  <2>21. ASSUME NEW c \in Cleaners, DropBatch(c) PROVE TypeOK'
    BY <2>21 DEF DropBatch, Fault, Goto
  <2>22. CASE UNCHANGED vars
    BY <2>22
  <2>23. QED
    BY <2>1, <2>2, <2>3, <2>4, <2>5, <2>6, <2>7, <2>8, <2>9, <2>10,
       <2>11, <2>12, <2>13, <2>14, <2>15, <2>16, <2>17, <2>18, <2>19,
       <2>20, <2>21, <2>22
       DEF Next, Worker, Cleanup, CleanupFault
<1>3. QED
  BY <1>1, <1>2, PTL DEF Spec

-----------------------------------------------------------------------------
(* Claims.                                                                  *)

\* An idle process holds nothing, and the claim it works on has left its batch.
LocalInv ==
    \A c \in Cleaners : /\ pc[c] = "idle" => batch[c] = {}
                        /\ current[c] \notin batch[c]

LEMMA LocalInvCorrect == Spec => []LocalInv
<1> USE DEF TypeOK, LocalInv, Claims, NoClaim
<1>1. Init => LocalInv
  BY DEF Init
<1>2. TypeOK /\ LocalInv /\ [Next]_vars => LocalInv'
  <2> SUFFICES ASSUME TypeOK, LocalInv, [Next]_vars PROVE LocalInv'
    OBVIOUS
  <2> USE DEF vars, jobVars, claimVars, localVars, faultVars
  <2>1. ASSUME NEW j \in Jobs, NEW s \in Stems, UploadStem(j, s) PROVE LocalInv'
    BY <2>1 DEF UploadStem
  <2>2. ASSUME NEW j \in Jobs, CheckRow(j) PROVE LocalInv'
    BY <2>2 DEF CheckRow
  <2>3. ASSUME NEW j \in Jobs, CompleteJob(j) PROVE LocalInv'
    BY <2>3 DEF CompleteJob, FinishJob
  <2>4. ASSUME NEW j \in Jobs, FailJob(j) PROVE LocalInv'
    BY <2>4 DEF FailJob, FinishJob
  <2>5. ASSUME NEW j \in Jobs, CancelJob(j) PROVE LocalInv'
    BY <2>5 DEF CancelJob
  <2>6. ASSUME NEW j \in Jobs, Expire(j) PROVE LocalInv'
    BY <2>6 DEF Expire
  <2>7. ASSUME NEW j \in Jobs, ClaimTimesOut(j) PROVE LocalInv'
    BY <2>7 DEF ClaimTimesOut
  <2>8. ASSUME NEW j \in Jobs, ClaimSlips(j) PROVE LocalInv'
    BY <2>8 DEF ClaimSlips, Fault
  <2>9. ASSUME NEW o \in Owners, DeleteAccount(o) PROVE LocalInv'
    BY <2>9 DEF DeleteAccount
  <2>10. ASSUME NEW c \in Cleaners, ClaimExpiredJobs(c) PROVE LocalInv'
    BY <2>10 DEF ClaimExpiredJobs, Goto, Candidates
  <2>11. ASSUME NEW c \in Cleaners, NextJob(c) PROVE LocalInv'
    BY <2>11 DEF NextJob, Goto
  <2>12. ASSUME NEW c \in Cleaners, EndBatch(c) PROVE LocalInv'
    BY <2>12 DEF EndBatch, Goto
  <2>13. ASSUME NEW c \in Cleaners, CollectObjectKeys(c) PROVE LocalInv'
    BY <2>13 DEF CollectObjectKeys, Goto
  <2>14. ASSUME NEW c \in Cleaners, DeleteJobObjects(c) PROVE LocalInv'
    BY <2>14 DEF DeleteJobObjects, Deleted, Goto
  <2>15. ASSUME NEW c \in Cleaners, MarkCleanupCompleted(c) PROVE LocalInv'
    BY <2>15 DEF MarkCleanupCompleted, Recorded, Released, JobDone, Goto
  <2>16. ASSUME NEW c \in Cleaners, MarkRefused(c) PROVE LocalInv'
    BY <2>16 DEF MarkRefused, Fault, Goto
  <2>17. ASSUME NEW c \in Cleaners, MarkCleanupFailed(c) PROVE LocalInv'
    BY <2>17 DEF MarkCleanupFailed, Released, JobDone, Goto
  <2>18. ASSUME NEW c \in Cleaners, DeleteSomeObjects(c) PROVE LocalInv'
    BY <2>18 DEF DeleteSomeObjects, Deleted, Fault, Goto
  <2>19. ASSUME NEW c \in Cleaners, ListFails(c) PROVE LocalInv'
    BY <2>19 DEF ListFails, Fault, Goto
  <2>20. ASSUME NEW c \in Cleaners, MarkUnconfirmed(c) PROVE LocalInv'
    BY <2>20 DEF MarkUnconfirmed, Recorded, Released, Fault, Goto
  <2>21. ASSUME NEW c \in Cleaners, DropBatch(c) PROVE LocalInv'
    BY <2>21 DEF DropBatch, Fault, Goto
  <2>22. CASE UNCHANGED vars
    BY <2>22
  <2>23. QED
    BY <2>1, <2>2, <2>3, <2>4, <2>5, <2>6, <2>7, <2>8, <2>9, <2>10,
       <2>11, <2>12, <2>13, <2>14, <2>15, <2>16, <2>17, <2>18, <2>19,
       <2>20, <2>21, <2>22
       DEF Next, Worker, Cleanup, CleanupFault
<1>3. QED
  BY <1>1, <1>2, TypeCorrect, PTL DEF Spec

\* What one step may do to the claims. Most steps leave the rows alone ...
Quiet ==
    /\ UNCHANGED <<claim, overdue, attempts, cleaned, completions, slipped>>
    /\ \A c \in Cleaners : Held(c)' \subseteq Held(c)

\* ... or a claim runs out, under its process only if it slips ...
Late ==
    /\ UNCHANGED <<claim, attempts, cleaned, completions>>
    /\ \A c \in Cleaners : Held(c)' = Held(c)
    /\ \E j \in Jobs : /\ overdue' = overdue \cup {j}
                       /\ \/ slipped' = slipped /\ \A c \in Cleaners : ~Holds(c, j)
                          \/ slipped' = slipped \cup {j}

\* ... or a process without claims takes those of rows that are free ...
Claimed(c) ==
    \E S \in SUBSET Candidates :
        /\ attempts' = [j \in Jobs |-> IF j \in S THEN attempts[j] + 1 ELSE attempts[j]]
        /\ claim' = [j \in Jobs |-> IF j \in S THEN attempts[j] + 1 ELSE claim[j]]
        /\ overdue' = overdue \ S
        /\ Held(c)' = {[job |-> j, id |-> attempts[j] + 1, results |-> results[j]] : j \in S}
        /\ \A d \in Cleaners \ {c} : Held(d)' = Held(d)
        /\ UNCHANGED <<cleaned, completions, slipped>>

\* ... or one whose claim stands records a result, of a deletion or a failure.
Ended(c) ==
    LET j == current[c].job
    IN  /\ current[c] \in Held(c)
        /\ j \in Jobs
        /\ claim[j] = current[c].id
        /\ claim[j] # 0
        /\ Released(j)
        /\ \A d \in Cleaners : Held(d)' \subseteq Held(d)
        /\ UNCHANGED slipped
        /\ \/ /\ cleaned' = cleaned \cup {j}
              /\ completions' = [completions EXCEPT ![j] = @ + 1]
           \/ /\ UNCHANGED <<cleaned, completions>>
              /\ current[c] \notin Held(c)'

LEMMA ClaimStepEffect ==
    ASSUME TypeOK, LocalInv, [Next]_vars
    PROVE  Quiet \/ Late \/ \E c \in Cleaners : Claimed(c) \/ Ended(c)
<1> DEFINE Effect == Quiet \/ Late \/ \E c \in Cleaners : Claimed(c) \/ Ended(c)
<1> SUFFICES Effect
  OBVIOUS
<1> USE DEF TypeOK, LocalInv, Claims, NoClaim,
   vars, jobVars, claimVars, localVars, faultVars
<1>1. ASSUME NEW j \in Jobs, NEW s \in Stems, UploadStem(j, s) PROVE Effect
  BY <1>1 DEF UploadStem, Quiet, Held
<1>2. ASSUME NEW j \in Jobs, CheckRow(j) PROVE Effect
  BY <1>2 DEF CheckRow, Quiet, Held
<1>3. ASSUME NEW j \in Jobs, CompleteJob(j) PROVE Effect
  BY <1>3 DEF CompleteJob, FinishJob, Quiet, Held
<1>4. ASSUME NEW j \in Jobs, FailJob(j) PROVE Effect
  BY <1>4 DEF FailJob, FinishJob, Quiet, Held
<1>5. ASSUME NEW j \in Jobs, CancelJob(j) PROVE Effect
  BY <1>5 DEF CancelJob, Quiet, Held
<1>6. ASSUME NEW j \in Jobs, Expire(j) PROVE Effect
  BY <1>6 DEF Expire, Quiet, Held
<1>7. ASSUME NEW j \in Jobs, ClaimTimesOut(j) PROVE Effect
  BY <1>7 DEF ClaimTimesOut, Late, Held
<1>8. ASSUME NEW j \in Jobs, ClaimSlips(j) PROVE Effect
  BY <1>8 DEF ClaimSlips, Fault, Late, Held
<1>9. ASSUME NEW o \in Owners, DeleteAccount(o) PROVE Effect
  BY <1>9 DEF DeleteAccount, Quiet, Held
<1>10. ASSUME NEW c \in Cleaners, ClaimExpiredJobs(c) PROVE Effect
  <2>1. current[c] = NoClaim /\ batch[c] = {}
    BY <1>10 DEF ClaimExpiredJobs
  <2>2. PICK S \in SUBSET Candidates :
          /\ attempts' = [j \in Jobs |-> IF j \in S THEN attempts[j] + 1 ELSE attempts[j]]
          /\ claim' = [j \in Jobs |-> IF j \in S THEN attempts[j] + 1 ELSE claim[j]]
          /\ overdue' = overdue \ S
          /\ batch' = [batch EXCEPT ![c] =
                {[job |-> j, id |-> attempts[j] + 1, results |-> results[j]] : j \in S}]
    BY <1>10 DEF ClaimExpiredJobs
  <2>3. UNCHANGED <<current, cleaned, completions, slipped>>
    BY <1>10 DEF ClaimExpiredJobs
  <2>4. /\ Held(c)' = {[job |-> j, id |-> attempts[j] + 1, results |-> results[j]] : j \in S}
        /\ \A d \in Cleaners \ {c} : Held(d)' = Held(d)
    BY <2>1, <2>2, <2>3 DEF Held
  <2>5. QED
    BY <2>2, <2>3, <2>4 DEF Claimed
<1>11. ASSUME NEW c \in Cleaners, NextJob(c) PROVE Effect
  BY <1>11 DEF NextJob, Goto, Quiet, Held
<1>12. ASSUME NEW c \in Cleaners, EndBatch(c) PROVE Effect
  BY <1>12 DEF EndBatch, Goto, Quiet, Held
<1>13. ASSUME NEW c \in Cleaners, CollectObjectKeys(c) PROVE Effect
  BY <1>13 DEF CollectObjectKeys, Goto, Quiet, Held
<1>14. ASSUME NEW c \in Cleaners, DeleteJobObjects(c) PROVE Effect
  BY <1>14 DEF DeleteJobObjects, Deleted, Goto, Quiet, Held
<1>15. ASSUME NEW c \in Cleaners, MarkCleanupCompleted(c) PROVE Effect
  <2>1. current[c] \in Claims
    BY <1>15 DEF MarkCleanupCompleted
  <2>2. QED
    BY <1>15, <2>1 DEF MarkCleanupCompleted, Recorded, Released, JobDone, Goto, OwnsClaim, Ended, Held
<1>16. ASSUME NEW c \in Cleaners, MarkRefused(c) PROVE Effect
  BY <1>16 DEF MarkRefused, Fault, Goto, Quiet, Held
<1>17. ASSUME NEW c \in Cleaners, MarkCleanupFailed(c) PROVE Effect
  <2>1. current[c] \in Claims
    BY <1>17 DEF MarkCleanupFailed
  <2>2. CASE OwnsClaim(c)
    BY <1>17, <2>1, <2>2 DEF MarkCleanupFailed, Released, JobDone, Goto, OwnsClaim, Ended, Held
  <2>3. CASE ~OwnsClaim(c)
    BY <1>17, <2>1, <2>3 DEF MarkCleanupFailed, Released, JobDone, Goto, Quiet, Held
  <2>4. QED
    BY <2>2, <2>3
<1>18. ASSUME NEW c \in Cleaners, DeleteSomeObjects(c) PROVE Effect
  BY <1>18 DEF DeleteSomeObjects, Deleted, Fault, Goto, Quiet, Held
<1>19. ASSUME NEW c \in Cleaners, ListFails(c) PROVE Effect
  BY <1>19 DEF ListFails, Fault, Goto, Quiet, Held
<1>20. ASSUME NEW c \in Cleaners, MarkUnconfirmed(c) PROVE Effect
  <2>1. current[c] \in Claims
    BY <1>20 DEF MarkUnconfirmed
  <2>2. QED
    BY <1>20, <2>1 DEF MarkUnconfirmed, Recorded, Released, Fault, Goto, OwnsClaim, Ended, Held
<1>21. ASSUME NEW c \in Cleaners, DropBatch(c) PROVE Effect
  BY <1>21 DEF DropBatch, Fault, Goto, Quiet, Held
<1>22. CASE UNCHANGED vars
  BY <1>22 DEF Quiet, Held
<1> HIDE DEF Effect
<1>23. QED
  BY <1>1, <1>2, <1>3, <1>4, <1>5, <1>6, <1>7, <1>8, <1>9, <1>10,
     <1>11, <1>12, <1>13, <1>14, <1>15, <1>16, <1>17, <1>18, <1>19,
     <1>20, <1>21, <1>22
     DEF Next, Worker, Cleanup, CleanupFault

\* What the claims of the processes and the rows say of each other. That no two
\* processes hold claims with one number, and that an outdated claim is one that
\* slipped, is what makes ClaimSafety inductive.
ClaimInv ==
    /\ \A j \in Jobs :
          /\ claim[j] \in {0, attempts[j]}
          /\ j \in cleaned => claim[j] = 0
          /\ completions[j] = IF j \in cleaned THEN 1 ELSE 0
    /\ \A c \in Cleaners : \A b \in Held(c) :
          /\ b.id <= attempts[b.job]
          /\ b.id < attempts[b.job] => b.job \in slipped
          /\ b.id = attempts[b.job] => claim[b.job] = b.id \/ b.job \in cleaned
          /\ b.id = claim[b.job] /\ b.job \in overdue => b.job \in slipped
    /\ \A c \in Cleaners : \A a, b \in Held(c) : a.job = b.job => a = b
    /\ \A c, d \in Cleaners : \A a \in Held(c), b \in Held(d) :
          c # d /\ a.job = b.job => a.id # b.id

LEMMA ClaimInvInductive ==
    ASSUME TypeOK, LocalInv, ClaimInv, [Next]_vars
    PROVE  ClaimInv'
<1>0. \A c \in Cleaners : \A b \in Held(c) : b.job \in Jobs /\ b.id \in Nat \ {0}
  BY DEF Held, TypeOK, Claims, NoClaim
<1>1. CASE Quiet
  BY <1>0, <1>1 DEF Quiet, ClaimInv
<1>2. CASE Late
  BY <1>0, <1>2 DEF Late, Holds, ClaimInv
<1>3. ASSUME NEW c \in Cleaners, Claimed(c) PROVE ClaimInv'
  <2>1. PICK S \in SUBSET Candidates :
          /\ attempts' = [j \in Jobs |-> IF j \in S THEN attempts[j] + 1 ELSE attempts[j]]
          /\ claim' = [j \in Jobs |-> IF j \in S THEN attempts[j] + 1 ELSE claim[j]]
          /\ overdue' = overdue \ S
          /\ Held(c)' = {[job |-> j, id |-> attempts[j] + 1, results |-> results[j]] : j \in S}
          /\ \A d \in Cleaners \ {c} : Held(d)' = Held(d)
          /\ UNCHANGED <<cleaned, completions, slipped>>
    BY <1>3 DEF Claimed
  <2>2. /\ S \subseteq Jobs
        /\ \A j \in S : j \notin cleaned /\ (claim[j] = 0 \/ j \in overdue)
    BY <2>1 DEF Candidates
  <2>3. \A b \in Held(c)' : b.job \in S /\ b.id = attempts[b.job] + 1
    BY <2>1
  <2>4. \A j \in Jobs : attempts[j] \in Nat /\ claim[j] \in Nat
    BY DEF TypeOK
  <2>5. ASSUME NEW d \in Cleaners \ {c}, NEW b \in Held(d), b.job \in S
        PROVE  b.job \in slipped
    BY <1>0, <2>2, <2>4, <2>5 DEF ClaimInv
  <2>6. \A j \in Jobs : /\ claim'[j] \in {0, attempts'[j]}
                        /\ j \in cleaned' => claim'[j] = 0
                        /\ completions'[j] = IF j \in cleaned' THEN 1 ELSE 0
    BY <2>1, <2>2 DEF ClaimInv
  <2>7. ASSUME NEW b \in Held(c)'
        PROVE  /\ b.id = attempts'[b.job] /\ b.id = claim'[b.job]
               /\ b.job \notin overdue'
    BY <2>1, <2>2, <2>3, <2>7
  <2>8. ASSUME NEW d \in Cleaners \ {c}, NEW b \in Held(d)
        PROVE  /\ b.id <= attempts'[b.job]
               /\ b.id < attempts'[b.job] => b.job \in slipped'
               /\ b.id = attempts'[b.job] => claim'[b.job] = b.id \/ b.job \in cleaned'
               /\ b.id = claim'[b.job] /\ b.job \in overdue' => b.job \in slipped'
               /\ \A a \in Held(c)' : a.job = b.job => a.id # b.id
    <3>1. b.job \in Jobs /\ b.id <= attempts[b.job] /\ b.id \in Nat
      BY <1>0, <2>8 DEF ClaimInv
    <3>2. CASE b.job \in S
      BY <2>1, <2>3, <2>4, <2>5, <2>8, <3>1, <3>2
    <3>3. CASE b.job \notin S
      BY <2>1, <2>3, <2>8, <3>1, <3>3 DEF ClaimInv
    <3>4. QED
      BY <3>2, <3>3
  <2>9. \A a, b \in Held(c)' : a.job = b.job => a = b
    BY <2>1
  <2>10. \A d \in Cleaners \ {c} : Held(d)' = Held(d)
    BY <2>1
  <2>11. ASSUME NEW d \in Cleaners PROVE
            /\ \A b \in Held(d)' :
                  /\ b.id <= attempts'[b.job]
                  /\ b.id < attempts'[b.job] => b.job \in slipped'
                  /\ b.id = attempts'[b.job] => claim'[b.job] = b.id \/ b.job \in cleaned'
                  /\ b.id = claim'[b.job] /\ b.job \in overdue' => b.job \in slipped'
            /\ \A a, b \in Held(d)' : a.job = b.job => a = b
    <3>1. CASE d = c
      <4>1. \A b \in Held(c)' : attempts'[b.job] \in Nat
        BY <2>1, <2>2, <2>3, <2>4
      <4>2. QED
        BY <2>7, <2>9, <3>1, <4>1
    <3>2. CASE d # c
      BY <2>8, <2>10, <3>2 DEF ClaimInv
    <3>3. QED
      BY <3>1, <3>2
  <2>12. ASSUME NEW d \in Cleaners, NEW e \in Cleaners, d # e,
                NEW a \in Held(d)', NEW b \in Held(e)', a.job = b.job
         PROVE  a.id # b.id
    <3>1. CASE d = c
      BY <2>8, <2>10, <2>12, <3>1
    <3>2. CASE e = c
      BY <2>8, <2>10, <2>12, <3>2
    <3>3. CASE d # c /\ e # c
      BY <2>10, <2>12, <3>3 DEF ClaimInv
    <3>4. QED
      BY <3>1, <3>2, <3>3
  <2>13. QED
    BY <2>6, <2>11, <2>12 DEF ClaimInv
<1>4. ASSUME NEW c \in Cleaners, Ended(c) PROVE ClaimInv'
  <2> DEFINE k == current[c].job
  <2>1. /\ current[c] \in Held(c) /\ k \in Jobs
        /\ claim[k] = current[c].id /\ claim[k] # 0
        /\ claim' = [claim EXCEPT ![k] = 0] /\ overdue' = overdue \ {k}
        /\ UNCHANGED <<attempts, slipped>>
        /\ \A d \in Cleaners : Held(d)' \subseteq Held(d)
    BY <1>4 DEF Ended, Released
  <2>2. k \notin cleaned
    BY <2>1 DEF ClaimInv
  <2>3. \A j \in Jobs : /\ claim'[j] \in {0, attempts'[j]}
                        /\ j \in cleaned' => claim'[j] = 0
                        /\ completions'[j] = IF j \in cleaned' THEN 1 ELSE 0
    BY <1>4, <2>1, <2>2 DEF Ended, ClaimInv, TypeOK
  <2>4. ASSUME NEW d \in Cleaners, NEW b \in Held(d)'
        PROVE  /\ b.id <= attempts'[b.job]
               /\ b.id < attempts'[b.job] => b.job \in slipped'
               /\ b.id = attempts'[b.job] => claim'[b.job] = b.id \/ b.job \in cleaned'
               /\ b.id = claim'[b.job] /\ b.job \in overdue' => b.job \in slipped'
    <3>1. b \in Held(d) /\ b.job \in Jobs /\ b.id # 0
      BY <1>0, <2>1, <2>4
    <3>2. CASE b.job # k
      BY <1>4, <2>1, <3>1, <3>2 DEF Ended, ClaimInv, TypeOK
    <3>3. CASE b.job = k /\ k \in cleaned'
      BY <2>1, <3>1, <3>3 DEF ClaimInv, TypeOK
    <3>4. CASE b.job = k /\ k \notin cleaned'
      <4>1. current[c] \notin Held(c)'
        BY <1>4, <3>4 DEF Ended
      <4>2. b.id # current[c].id
        BY <2>1, <2>4, <3>1, <3>4, <4>1 DEF ClaimInv
      <4>3. attempts[k] = current[c].id
        BY <2>1 DEF ClaimInv
      <4>4. QED
        BY <2>1, <3>1, <3>4, <4>2, <4>3 DEF ClaimInv, TypeOK
    <3>5. QED
      BY <3>2, <3>3, <3>4
  <2>5. QED
    BY <2>1, <2>3, <2>4 DEF ClaimInv
<1>5. QED
  BY <1>1, <1>2, <1>3, <1>4, ClaimStepEffect

LEMMA ClaimInvCorrect == Spec => []ClaimInv
<1>1. Init => ClaimInv
  BY DEF Init, ClaimInv, Held, NoClaim
<1>2. TypeOK /\ LocalInv /\ ClaimInv /\ [Next]_vars => ClaimInv'
  BY ClaimInvInductive
<1>3. QED
  BY <1>1, <1>2, TypeCorrect, LocalInvCorrect, PTL DEF Spec

\* Claims keep cleanup processes apart unless one timed out under its process; a
\* process that lost its claim neither releases nor completes the work of its
\* successor (claimExpiredJobs, markCleanupCompleted, markCleanupFailed).
THEOREM ClaimsAreSafe == Spec => []ClaimSafety
<1>1. TypeOK /\ ClaimInv => ClaimSafety
  <2> SUFFICES ASSUME TypeOK, ClaimInv PROVE ClaimSafety
    OBVIOUS
  <2>0. \A c \in Cleaners : \A b \in Held(c) : b.job \in Jobs /\ b.id \in Nat
    BY DEF Held, TypeOK, Claims, NoClaim
  <2>1. ClaimsPreventOverlap
    BY <2>0 DEF ClaimInv, ClaimsPreventOverlap, TypeOK
  <2>2. NewestClaimStands
    BY <2>0 DEF ClaimInv, NewestClaimStands
  <2>3. CompletedOnce
    BY DEF ClaimInv, CompletedOnce
  <2>4. QED
    BY <2>1, <2>2, <2>3 DEF ClaimSafety
<1>2. QED
  BY <1>1, TypeCorrect, ClaimInvCorrect, PTL

-----------------------------------------------------------------------------
(* Objects.                                                                 *)

\* A row is claimed, and its storage removed, only after its deadline, when its
\* worker has stopped unless the owner's account was deleted; so what was listed
\* is all there is, and what was deleted stays deleted.
ObjectInv ==
    /\ \A j \in Jobs :
          /\ status[j] = "ACTIVE" => deadline[j] = "none"
          /\ deadline[j] = "past" /\ j \notin ownerDeleted => work[j] = "stopped"
          /\ status[j] = "COMPLETED" /\ deadline[j] = "later" => results[j] \subseteq objects[j]
          /\ j \in cleaned => deadline[j] = "past"
          /\ j \in cleaned /\ j \notin ownerDeleted => objects[j] = {}
    /\ \A c \in Cleaners :
          /\ \A b \in batch[c] : deadline[b.job] = "past"
          /\ current[c] # NoClaim => deadline[current[c].job] = "past"
          /\ pc[c] = "delete" /\ current[c].job \notin ownerDeleted =>
                objects[current[c].job] \subseteq keys[c]
          /\ pc[c] = "mark" /\ current[c].job \notin ownerDeleted =>
                objects[current[c].job] = {}

LEMMA ObjectInvCorrect == Spec => []ObjectInv
<1> USE CleanupAssumption DEF TypeOK, ObjectInv, Claims, NoClaim, Keys
<1>1. Init => ObjectInv
  BY DEF Init
<1>2. TypeOK /\ ObjectInv /\ [Next]_vars => ObjectInv'
  <2> SUFFICES ASSUME TypeOK, ObjectInv, [Next]_vars PROVE ObjectInv'
    OBVIOUS
  <2> USE DEF vars, jobVars, claimVars, localVars, faultVars
  <2>1. ASSUME NEW j \in Jobs, NEW s \in Stems, UploadStem(j, s) PROVE ObjectInv'
    BY <2>1 DEF UploadStem
  <2>2. ASSUME NEW j \in Jobs, CheckRow(j) PROVE ObjectInv'
    BY <2>2 DEF CheckRow
  <2>3. ASSUME NEW j \in Jobs, CompleteJob(j) PROVE ObjectInv'
    BY <2>3 DEF CompleteJob, FinishJob
  <2>4. ASSUME NEW j \in Jobs, FailJob(j) PROVE ObjectInv'
    BY <2>4 DEF FailJob, FinishJob
  <2>5. ASSUME NEW j \in Jobs, CancelJob(j) PROVE ObjectInv'
    BY <2>5 DEF CancelJob
  <2>6. ASSUME NEW j \in Jobs, Expire(j) PROVE ObjectInv'
    BY <2>6 DEF Expire
  <2>7. ASSUME NEW j \in Jobs, ClaimTimesOut(j) PROVE ObjectInv'
    BY <2>7 DEF ClaimTimesOut
  <2>8. ASSUME NEW j \in Jobs, ClaimSlips(j) PROVE ObjectInv'
    BY <2>8 DEF ClaimSlips, Fault
  <2>9. ASSUME NEW o \in Owners, DeleteAccount(o) PROVE ObjectInv'
    BY <2>9 DEF DeleteAccount
  <2>10. ASSUME NEW c \in Cleaners, ClaimExpiredJobs(c) PROVE ObjectInv'
    BY <2>10 DEF ClaimExpiredJobs, Goto, Candidates
  <2>11. ASSUME NEW c \in Cleaners, NextJob(c) PROVE ObjectInv'
    BY <2>11 DEF NextJob, Goto
  <2>12. ASSUME NEW c \in Cleaners, EndBatch(c) PROVE ObjectInv'
    BY <2>12 DEF EndBatch, Goto
  <2>13. ASSUME NEW c \in Cleaners, CollectObjectKeys(c) PROVE ObjectInv'
    BY <2>13 DEF CollectObjectKeys, Goto
  <2>14. ASSUME NEW c \in Cleaners, DeleteJobObjects(c) PROVE ObjectInv'
    BY <2>14 DEF DeleteJobObjects, Deleted, Goto
  <2>15. ASSUME NEW c \in Cleaners, MarkCleanupCompleted(c) PROVE ObjectInv'
    BY <2>15 DEF MarkCleanupCompleted, Recorded, Released, JobDone, Goto
  <2>16. ASSUME NEW c \in Cleaners, MarkRefused(c) PROVE ObjectInv'
    BY <2>16 DEF MarkRefused, Fault, Goto
  <2>17. ASSUME NEW c \in Cleaners, MarkCleanupFailed(c) PROVE ObjectInv'
    BY <2>17 DEF MarkCleanupFailed, Released, JobDone, Goto
  <2>18. ASSUME NEW c \in Cleaners, DeleteSomeObjects(c) PROVE ObjectInv'
    BY <2>18 DEF DeleteSomeObjects, Deleted, Fault, Goto
  <2>19. ASSUME NEW c \in Cleaners, ListFails(c) PROVE ObjectInv'
    BY <2>19 DEF ListFails, Fault, Goto
  <2>20. ASSUME NEW c \in Cleaners, MarkUnconfirmed(c) PROVE ObjectInv'
    BY <2>20 DEF MarkUnconfirmed, Recorded, Released, Fault, Goto
  <2>21. ASSUME NEW c \in Cleaners, DropBatch(c) PROVE ObjectInv'
    BY <2>21 DEF DropBatch, Fault, Goto
  <2>22. CASE UNCHANGED vars
    BY <2>22
  <2>23. QED
    BY <2>1, <2>2, <2>3, <2>4, <2>5, <2>6, <2>7, <2>8, <2>9, <2>10,
       <2>11, <2>12, <2>13, <2>14, <2>15, <2>16, <2>17, <2>18, <2>19,
       <2>20, <2>21, <2>22
       DEF Next, Worker, Cleanup, CleanupFault
<1>3. QED
  BY <1>1, <1>2, TypeCorrect, PTL DEF Spec

\* No cleanup deletes what the API still offers, and none records a deletion that
\* left an object behind (collectObjectKeys, deleteJobObjects).
THEOREM StorageIsSafe == Spec => []StorageSafety
<1>1. TypeOK /\ ObjectInv => StorageSafety
  BY DEF TypeOK, ObjectInv, StorageSafety, AvailableHasObjects, CleanedIsEmpty
<1>2. QED
  BY <1>1, TypeCorrect, ObjectInvCorrect, PTL

=============================================================================

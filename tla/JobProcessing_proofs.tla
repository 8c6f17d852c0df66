------------------------ MODULE JobProcessing_proofs ------------------------
(***************************************************************************)
(* Proofs about JobProcessing for any number of jobs, workers, partitions, *)
(* attempts and faults. Each theorem uses the invariants proved before it. *)
(***************************************************************************)
EXTENDS JobProcessing, TLAPS

\* A worker that has a message knows its job.
TypeInv == TypeOK /\ \A w \in Workers : pc[w] \in Busy => job[w] \in Jobs

\* Every variable keeps its type, and a worker that has a message knows its job.
LEMMA TypeInvCorrect == Spec => []TypeInv
<1> USE JobsAssumption, LimitsAssumption DEF TypeInv, TypeOK
<1>1. Init => TypeInv
  BY DEF Init, Statuses, Active, Leased, Terminal, Locations, Busy, Running
<1>2. TypeInv /\ [Next]_vars => TypeInv'
  <2> SUFFICES ASSUME TypeInv, [Next]_vars PROVE TypeInv'
    OBVIOUS
  <2> USE DEF vars, rowVars, topicVars, groupVars, localVars, faultVars,
     Statuses, Active, Leased, Terminal, Locations, Busy, Running
  <2>1. ASSUME NEW j \in Jobs, CreateJob(j) PROVE TypeInv'
    BY <2>1 DEF CreateJob
  <2>2. ASSUME NEW j \in Jobs, CancelJob(j) PROVE TypeInv'
    BY <2>2 DEF CancelJob, Settle, WriteRow
  <2>3. ASSUME NEW j \in Jobs, RemoveRow(j) PROVE TypeInv'
    BY <2>3 DEF RemoveRow
  <2>4. ASSUME NEW j \in Jobs, PublishCreated(j) PROVE TypeInv'
    BY <2>4 DEF PublishCreated, SendCreated
  <2>5. ASSUME NEW j \in Jobs, PublishCreatedAgain(j) PROVE TypeInv'
    BY <2>5 DEF PublishCreatedAgain, SendCreated, Fault
  <2>6. ASSUME NEW j \in Jobs, PublishStatus(j) PROVE TypeInv'
    BY <2>6 DEF PublishStatus
  <2>7. ASSUME NEW o \in Owners, DeleteAccount(o) PROVE TypeInv'
    BY <2>7 DEF DeleteAccount
  <2>8. ASSUME NEW j \in Jobs, LeaseExpires(j) PROVE TypeInv'
    BY <2>8 DEF LeaseExpires
  <2>9. ASSUME NEW j \in Jobs, LeaseSlips(j) PROVE TypeInv'
    BY <2>9 DEF LeaseSlips, Fault
  <2>10. ASSUME NEW p \in Partitions, LosePartition(p) PROVE TypeInv'
    BY <2>10 DEF LosePartition, Fault
  <2>11. ASSUME NEW p \in Partitions, NEW w \in Workers, AssignPartition(p, w)
       PROVE  TypeInv'
    BY <2>11 DEF AssignPartition
  <2>12. ASSUME NEW w \in Workers, Crash(w) PROVE TypeInv'
    BY <2>12 DEF Crash, Exit, PutDown, Goto, Released, Fault
  <2>13. ASSUME NEW w \in Workers, RequestShutdown(w) PROVE TypeInv'
    BY <2>13 DEF RequestShutdown, Fault
  <2>14. ASSUME NEW w \in Workers, Restart(w) PROVE TypeInv'
    BY <2>14 DEF Restart, Goto
  <2>15. ASSUME NEW w \in Workers, StopPolling(w) PROVE TypeInv'
    BY <2>15 DEF StopPolling, Exit, PutDown, Goto, Released
  <2>16. ASSUME NEW w \in Workers, NEW p \in Partitions, Poll(w, p)
       PROVE  TypeInv'
    <3>1. log[p][committed[p] + 1] \in Jobs
      BY <2>16 DEF Poll
    <3>2. job' \in [Workers -> Jobs \cup {None}] /\ job'[w] \in Jobs
      BY <2>16, <3>1 DEF Poll
    <3>3. offset' \in [Workers -> Nat]
      BY <2>16 DEF Poll
    <3>4. QED
      BY <2>16, <3>2, <3>3 DEF Poll, Goto
  <2>17. ASSUME NEW w \in Workers, ClaimJob(w) PROVE TypeInv'
    BY <2>17 DEF ClaimJob, WriteRow, Goto
  <2>18. ASSUME NEW w \in Workers, ClaimRefused(w) PROVE TypeInv'
    BY <2>18 DEF ClaimRefused, Goto
  <2>19. ASSUME NEW w \in Workers, AbandonMessage(w) PROVE TypeInv'
    BY <2>19 DEF AbandonMessage, Exit, PutDown, Goto, Released
  <2>20. ASSUME NEW w \in Workers, SkipMessage(w) PROVE TypeInv'
    BY <2>20 DEF SkipMessage, Goto
  <2>21. ASSUME NEW w \in Workers, StartAttempts(w) PROVE TypeInv'
    BY <2>21 DEF StartAttempts, Goto
  <2>22. ASSUME NEW w \in Workers, RefreshLease(w) PROVE TypeInv'
    BY <2>22 DEF RefreshLease
  <2>23. ASSUME NEW w \in Workers, Commit(w) PROVE TypeInv'
    <3>1. job[w] \in Jobs /\ PartitionOf[job[w]] \in Partitions
      BY <2>23 DEF Commit
    <3>2. committed' \in [Partitions -> Nat]
      BY <2>23, <3>1 DEF Commit
    <3>3. owner' \in [Partitions -> Workers \cup {None}]
      BY <2>23, <3>1 DEF Commit, Released
    <3>4. QED
      BY <2>23, <3>2, <3>3 DEF Commit, PutDown, Goto
  <2>24. ASSUME NEW w \in Workers, BeginAttempt(w) PROVE TypeInv'
    BY <2>24, SMTT(30) DEF BeginAttempt, OwnedWrite, WriteRow, Goto, Owns
  <2>25. ASSUME NEW w \in Workers, AttemptFails(w) PROVE TypeInv'
    BY <2>25 DEF AttemptFails, Step, Goto
  <2>26. ASSUME NEW w \in Workers, ReportProgress(w) PROVE TypeInv'
    BY <2>26, SMTT(30) DEF ReportProgress, OwnedWrite, WriteRow, Goto, Owns
  <2>27. ASSUME NEW w \in Workers, ReportRefused(w) PROVE TypeInv'
    BY <2>27 DEF ReportRefused, Step, Goto
  <2>28. ASSUME NEW w \in Workers, CheckCancelled(w) PROVE TypeInv'
    BY <2>28 DEF CheckCancelled, Step, Goto
  <2>29. ASSUME NEW w \in Workers, WorkSucceeds(w) PROVE TypeInv'
    BY <2>29 DEF WorkSucceeds, Step, Goto
  <2>30. ASSUME NEW w \in Workers, Complete(w) PROVE TypeInv'
    BY <2>30, SMTT(30) DEF Complete, OwnedSettle, Settle, WriteRow, Goto, Owns
  <2>31. ASSUME NEW w \in Workers, CompleteRefused(w) PROVE TypeInv'
    BY <2>31 DEF CompleteRefused, Step, Goto
  <2>32. ASSUME NEW w \in Workers, LookupInWork(w) PROVE TypeInv'
    BY <2>32 DEF LookupInWork, Step, Goto
  <2>33. ASSUME NEW w \in Workers, Retry(w) PROVE TypeInv'
    BY <2>33, SMTT(30) DEF Retry, OwnedWrite, WriteRow, Goto, Owns
  <2>34. ASSUME NEW w \in Workers, RetryRefused(w) PROVE TypeInv'
    BY <2>34 DEF RetryRefused, Step, Goto
  <2>35. ASSUME NEW w \in Workers, LastCheck(w) PROVE TypeInv'
    BY <2>35 DEF LastCheck, Step, Goto
  <2>36. ASSUME NEW w \in Workers, PublishDeadLetter(w) PROVE TypeInv'
    BY <2>36 DEF PublishDeadLetter, Goto
  <2>37. ASSUME NEW w \in Workers, DeadLetterUnconfirmed(w) PROVE TypeInv'
    BY <2>37 DEF DeadLetterUnconfirmed, Exit, PutDown, Goto, Released, Fault
  <2>38. ASSUME NEW w \in Workers, FailJob(w) PROVE TypeInv'
    BY <2>38, SMTT(30) DEF FailJob, OwnedSettle, Settle, WriteRow, Goto, Owns
  <2>39. ASSUME NEW w \in Workers, FailRefused(w) PROVE TypeInv'
    BY <2>39 DEF FailRefused, Step, Goto
  <2>40. ASSUME NEW w \in Workers, LookupInHandler(w) PROVE TypeInv'
    BY <2>40 DEF LookupInHandler, Step, Goto
  <2>41. ASSUME NEW w \in Workers, DieInHandler(w) PROVE TypeInv'
    BY <2>41 DEF DieInHandler, Exit, PutDown, Goto, Released
  <2>42. CASE UNCHANGED vars
    BY <2>42
  <2>43. QED
    BY <2>1, <2>2, <2>3, <2>4, <2>5, <2>6, <2>7, <2>8, <2>9, <2>10, <2>11,
     <2>12, <2>13, <2>14, <2>15, <2>16, <2>17, <2>18, <2>19, <2>20, <2>21,
     <2>22, <2>23, <2>24, <2>25, <2>26, <2>27, <2>28, <2>29, <2>30, <2>31,
     <2>32, <2>33, <2>34, <2>35, <2>36, <2>37, <2>38, <2>39, <2>40, <2>41,
     <2>42 DEF Next, Backend, Environment, Session, Attempts
<1>3. QED
  BY <1>1, <1>2, PTL DEF Spec

\* Every variable keeps its type: no worker ever writes to the row of no job, and
\* no delivery is attempted more than MaxAttempts times.
THEOREM TypeCorrect == Spec => []TypeOK
<1>1. TypeInv => TypeOK
  BY DEF TypeInv
<1>2. QED
  BY <1>1, TypeInvCorrect, PTL

-----------------------------------------------------------------------------
\* What a row's columns say of each other. The first conjunct is what makes the
\* owner check of a worker's UPDATE a check of the status as well.
RowInv ==
    \A j \in Jobs :
        /\ holder[j] # None => status[j] \in Leased
        /\ status[j] \in Leased => lease[j] # "null"
        /\ j \in ownerDeleted => expires[j]
        /\ Settled(j) => expires[j]

LEMMA RowInvCorrect == Spec => []RowInv
<1> USE JobsAssumption DEF TypeInv, TypeOK, RowInv, Settled
<1>1. Init => RowInv
  BY DEF Init, Leased, Terminal
<1>2. TypeInv /\ RowInv /\ [Next]_vars => RowInv'
  <2> SUFFICES ASSUME TypeInv, RowInv, [Next]_vars PROVE RowInv'
    OBVIOUS
  <2> USE DEF vars, rowVars, topicVars, groupVars, localVars, faultVars,
     Statuses, Active, Leased, Terminal, Locations, Busy, Running
  <2>1. ASSUME NEW j \in Jobs, CreateJob(j) PROVE RowInv'
    BY <2>1 DEF CreateJob
  <2>2. ASSUME NEW j \in Jobs, CancelJob(j) PROVE RowInv'
    BY <2>2 DEF CancelJob, Settle, WriteRow
  <2>3. ASSUME NEW j \in Jobs, RemoveRow(j) PROVE RowInv'
    BY <2>3 DEF RemoveRow
  <2>4. ASSUME NEW j \in Jobs, PublishCreated(j) PROVE RowInv'
    BY <2>4 DEF PublishCreated, SendCreated
  <2>5. ASSUME NEW j \in Jobs, PublishCreatedAgain(j) PROVE RowInv'
    BY <2>5 DEF PublishCreatedAgain, SendCreated, Fault
  <2>6. ASSUME NEW j \in Jobs, PublishStatus(j) PROVE RowInv'
    BY <2>6 DEF PublishStatus
  <2>7. ASSUME NEW o \in Owners, DeleteAccount(o) PROVE RowInv'
    BY <2>7 DEF DeleteAccount
  <2>8. ASSUME NEW j \in Jobs, LeaseExpires(j) PROVE RowInv'
    BY <2>8 DEF LeaseExpires
  <2>9. ASSUME NEW j \in Jobs, LeaseSlips(j) PROVE RowInv'
    BY <2>9 DEF LeaseSlips, Fault
  <2>10. ASSUME NEW p \in Partitions, LosePartition(p) PROVE RowInv'
    BY <2>10 DEF LosePartition, Fault
  <2>11. ASSUME NEW p \in Partitions, NEW w \in Workers, AssignPartition(p, w)
       PROVE  RowInv'
    BY <2>11 DEF AssignPartition
  <2>12. ASSUME NEW w \in Workers, Crash(w) PROVE RowInv'
    BY <2>12 DEF Crash, Exit, PutDown, Goto, Released, Fault
  <2>13. ASSUME NEW w \in Workers, RequestShutdown(w) PROVE RowInv'
    BY <2>13 DEF RequestShutdown, Fault
  <2>14. ASSUME NEW w \in Workers, Restart(w) PROVE RowInv'
    BY <2>14 DEF Restart, Goto
  <2>15. ASSUME NEW w \in Workers, StopPolling(w) PROVE RowInv'
    BY <2>15 DEF StopPolling, Exit, PutDown, Goto, Released
  <2>16. ASSUME NEW w \in Workers, NEW p \in Partitions, Poll(w, p)
       PROVE  RowInv'
    BY <2>16 DEF Poll, Goto
  <2>17. ASSUME NEW w \in Workers, ClaimJob(w) PROVE RowInv'
    BY <2>17 DEF ClaimJob, WriteRow, Goto
  <2>18. ASSUME NEW w \in Workers, ClaimRefused(w) PROVE RowInv'
    BY <2>18 DEF ClaimRefused, Goto
  <2>19. ASSUME NEW w \in Workers, AbandonMessage(w) PROVE RowInv'
    BY <2>19 DEF AbandonMessage, Exit, PutDown, Goto, Released
  <2>20. ASSUME NEW w \in Workers, SkipMessage(w) PROVE RowInv'
    BY <2>20 DEF SkipMessage, Goto
  <2>21. ASSUME NEW w \in Workers, StartAttempts(w) PROVE RowInv'
    BY <2>21 DEF StartAttempts, Goto
  <2>22. ASSUME NEW w \in Workers, RefreshLease(w) PROVE RowInv'
    BY <2>22 DEF RefreshLease
  <2>23. ASSUME NEW w \in Workers, Commit(w) PROVE RowInv'
    BY <2>23 DEF Commit, PutDown, Goto, Released
  <2>24. ASSUME NEW w \in Workers, BeginAttempt(w) PROVE RowInv'
    BY <2>24 DEF BeginAttempt, OwnedWrite, WriteRow, Goto, Owns
  <2>25. ASSUME NEW w \in Workers, AttemptFails(w) PROVE RowInv'
    BY <2>25 DEF AttemptFails, Step, Goto
  <2>26. ASSUME NEW w \in Workers, ReportProgress(w) PROVE RowInv'
    BY <2>26 DEF ReportProgress, OwnedWrite, WriteRow, Goto, Owns
  <2>27. ASSUME NEW w \in Workers, ReportRefused(w) PROVE RowInv'
    BY <2>27 DEF ReportRefused, Step, Goto
  <2>28. ASSUME NEW w \in Workers, CheckCancelled(w) PROVE RowInv'
    BY <2>28 DEF CheckCancelled, Step, Goto
  <2>29. ASSUME NEW w \in Workers, WorkSucceeds(w) PROVE RowInv'
    BY <2>29 DEF WorkSucceeds, Step, Goto
  <2>30. ASSUME NEW w \in Workers, Complete(w) PROVE RowInv'
    BY <2>30 DEF Complete, OwnedSettle, Settle, WriteRow, Goto, Owns
  <2>31. ASSUME NEW w \in Workers, CompleteRefused(w) PROVE RowInv'
    BY <2>31 DEF CompleteRefused, Step, Goto
  <2>32. ASSUME NEW w \in Workers, LookupInWork(w) PROVE RowInv'
    BY <2>32 DEF LookupInWork, Step, Goto
  <2>33. ASSUME NEW w \in Workers, Retry(w) PROVE RowInv'
    BY <2>33 DEF Retry, OwnedWrite, WriteRow, Goto, Owns
  <2>34. ASSUME NEW w \in Workers, RetryRefused(w) PROVE RowInv'
    BY <2>34 DEF RetryRefused, Step, Goto
  <2>35. ASSUME NEW w \in Workers, LastCheck(w) PROVE RowInv'
    BY <2>35 DEF LastCheck, Step, Goto
  <2>36. ASSUME NEW w \in Workers, PublishDeadLetter(w) PROVE RowInv'
    BY <2>36 DEF PublishDeadLetter, Goto
  <2>37. ASSUME NEW w \in Workers, DeadLetterUnconfirmed(w) PROVE RowInv'
    BY <2>37 DEF DeadLetterUnconfirmed, Exit, PutDown, Goto, Released, Fault
  <2>38. ASSUME NEW w \in Workers, FailJob(w) PROVE RowInv'
    BY <2>38 DEF FailJob, OwnedSettle, Settle, WriteRow, Goto, Owns
  <2>39. ASSUME NEW w \in Workers, FailRefused(w) PROVE RowInv'
    BY <2>39 DEF FailRefused, Step, Goto
  <2>40. ASSUME NEW w \in Workers, LookupInHandler(w) PROVE RowInv'
    BY <2>40 DEF LookupInHandler, Step, Goto
  <2>41. ASSUME NEW w \in Workers, DieInHandler(w) PROVE RowInv'
    BY <2>41 DEF DieInHandler, Exit, PutDown, Goto, Released
  <2>42. CASE UNCHANGED vars
    BY <2>42
  <2>43. QED
    BY <2>1, <2>2, <2>3, <2>4, <2>5, <2>6, <2>7, <2>8, <2>9, <2>10, <2>11,
     <2>12, <2>13, <2>14, <2>15, <2>16, <2>17, <2>18, <2>19, <2>20, <2>21,
     <2>22, <2>23, <2>24, <2>25, <2>26, <2>27, <2>28, <2>29, <2>30, <2>31,
     <2>32, <2>33, <2>34, <2>35, <2>36, <2>37, <2>38, <2>39, <2>40, <2>41,
     <2>42 DEF Next, Backend, Environment, Session, Attempts
<1>3. QED
  BY <1>1, <1>2, TypeInvCorrect, PTL DEF Spec

\* Retention starts with the terminal status, whoever writes it.
THEOREM RetentionStarts == Spec => []SettledExpires
<1>1. RowInv => SettledExpires
  BY DEF RowInv, SettledExpires
<1>2. QED
  BY <1>1, RowInvCorrect, PTL

\* The row a worker still owns is not settled.
LEMMA OwnedIsLeased ==
    ASSUME TypeInv, RowInv, NEW w \in Workers, pc[w] \in Busy, Owns(w)
    PROVE  job[w] \in Jobs /\ status[job[w]] \in Leased
<1>1. job[w] \in Jobs
  BY DEF TypeInv
<1>2. holder[job[w]] # None
  BY JobsAssumption DEF Owns
<1>3. QED
  BY <1>1, <1>2 DEF RowInv

\* One step never moves a settled job.
LEMMA SettledStays ==
    ASSUME TypeInv, RowInv, [Next]_vars, NEW i \in Jobs, Settled(i)
    PROVE  status'[i] \in {status[i], "REMOVED"}
<1> USE JobsAssumption DEF TypeInv, TypeOK, RowInv, Settled
<1> USE DEF vars, rowVars, topicVars, groupVars, localVars, faultVars,
   Statuses, Active, Leased, Terminal, Locations, Busy, Running
<1>1. ASSUME NEW j \in Jobs, CreateJob(j)
     PROVE  status'[i] \in {status[i], "REMOVED"}
  BY <1>1 DEF CreateJob
<1>2. ASSUME NEW j \in Jobs, CancelJob(j)
     PROVE  status'[i] \in {status[i], "REMOVED"}
  BY <1>2 DEF CancelJob, Settle, WriteRow
<1>3. ASSUME NEW j \in Jobs, RemoveRow(j)
     PROVE  status'[i] \in {status[i], "REMOVED"}
  BY <1>3 DEF RemoveRow
<1>4. ASSUME NEW j \in Jobs, PublishCreated(j)
     PROVE  status'[i] \in {status[i], "REMOVED"}
  BY <1>4 DEF PublishCreated, SendCreated
<1>5. ASSUME NEW j \in Jobs, PublishCreatedAgain(j)
     PROVE  status'[i] \in {status[i], "REMOVED"}
  BY <1>5 DEF PublishCreatedAgain, SendCreated, Fault
<1>6. ASSUME NEW j \in Jobs, PublishStatus(j)
     PROVE  status'[i] \in {status[i], "REMOVED"}
  BY <1>6 DEF PublishStatus
<1>7. ASSUME NEW o \in Owners, DeleteAccount(o)
     PROVE  status'[i] \in {status[i], "REMOVED"}
  BY <1>7 DEF DeleteAccount
<1>8. ASSUME NEW j \in Jobs, LeaseExpires(j)
     PROVE  status'[i] \in {status[i], "REMOVED"}
  BY <1>8 DEF LeaseExpires
<1>9. ASSUME NEW j \in Jobs, LeaseSlips(j)
     PROVE  status'[i] \in {status[i], "REMOVED"}
  BY <1>9 DEF LeaseSlips, Fault
<1>10. ASSUME NEW p \in Partitions, LosePartition(p)
     PROVE  status'[i] \in {status[i], "REMOVED"}
  BY <1>10 DEF LosePartition, Fault
<1>11. ASSUME NEW p \in Partitions, NEW w \in Workers, AssignPartition(p, w)
     PROVE  status'[i] \in {status[i], "REMOVED"}
  BY <1>11 DEF AssignPartition
<1>12. ASSUME NEW w \in Workers, Crash(w)
     PROVE  status'[i] \in {status[i], "REMOVED"}
  BY <1>12 DEF Crash, Exit, PutDown, Goto, Released, Fault
<1>13. ASSUME NEW w \in Workers, RequestShutdown(w)
     PROVE  status'[i] \in {status[i], "REMOVED"}
  BY <1>13 DEF RequestShutdown, Fault
<1>14. ASSUME NEW w \in Workers, Restart(w)
     PROVE  status'[i] \in {status[i], "REMOVED"}
  BY <1>14 DEF Restart, Goto
<1>15. ASSUME NEW w \in Workers, StopPolling(w)
     PROVE  status'[i] \in {status[i], "REMOVED"}
  BY <1>15 DEF StopPolling, Exit, PutDown, Goto, Released
<1>16. ASSUME NEW w \in Workers, NEW p \in Partitions, Poll(w, p)
     PROVE  status'[i] \in {status[i], "REMOVED"}
  BY <1>16 DEF Poll, Goto
<1>17. ASSUME NEW w \in Workers, ClaimJob(w)
     PROVE  status'[i] \in {status[i], "REMOVED"}
  BY <1>17 DEF ClaimJob, Claimable, WriteRow
<1>18. ASSUME NEW w \in Workers, ClaimRefused(w)
     PROVE  status'[i] \in {status[i], "REMOVED"}
  BY <1>18 DEF ClaimRefused, Goto
<1>19. ASSUME NEW w \in Workers, AbandonMessage(w)
     PROVE  status'[i] \in {status[i], "REMOVED"}
  BY <1>19 DEF AbandonMessage, Exit, PutDown, Goto, Released
<1>20. ASSUME NEW w \in Workers, SkipMessage(w)
     PROVE  status'[i] \in {status[i], "REMOVED"}
  BY <1>20 DEF SkipMessage, Goto
<1>21. ASSUME NEW w \in Workers, StartAttempts(w)
     PROVE  status'[i] \in {status[i], "REMOVED"}
  BY <1>21 DEF StartAttempts, Goto
<1>22. ASSUME NEW w \in Workers, RefreshLease(w)
     PROVE  status'[i] \in {status[i], "REMOVED"}
  BY <1>22 DEF RefreshLease
<1>23. ASSUME NEW w \in Workers, Commit(w)
     PROVE  status'[i] \in {status[i], "REMOVED"}
  BY <1>23 DEF Commit, PutDown, Goto, Released
<1>24. ASSUME NEW w \in Workers, BeginAttempt(w)
     PROVE  status'[i] \in {status[i], "REMOVED"}
  <2>1. pc[w] \in Busy /\ Owns(w)
    BY <1>24 DEF BeginAttempt, OwnedWrite
  <2>2. status[job[w]] \in Leased
    BY <2>1, OwnedIsLeased
  <2>3. QED
    BY <1>24, <2>2 DEF BeginAttempt, OwnedWrite, WriteRow
<1>25. ASSUME NEW w \in Workers, AttemptFails(w)
     PROVE  status'[i] \in {status[i], "REMOVED"}
  BY <1>25 DEF AttemptFails, Step, Goto
<1>26. ASSUME NEW w \in Workers, ReportProgress(w)
     PROVE  status'[i] \in {status[i], "REMOVED"}
  <2>1. pc[w] \in Busy /\ Owns(w)
    BY <1>26 DEF ReportProgress, OwnedWrite
  <2>2. status[job[w]] \in Leased
    BY <2>1, OwnedIsLeased
  <2>3. QED
    BY <1>26, <2>2 DEF ReportProgress, OwnedWrite, WriteRow
<1>27. ASSUME NEW w \in Workers, ReportRefused(w)
     PROVE  status'[i] \in {status[i], "REMOVED"}
  BY <1>27 DEF ReportRefused, Step, Goto
<1>28. ASSUME NEW w \in Workers, CheckCancelled(w)
     PROVE  status'[i] \in {status[i], "REMOVED"}
  BY <1>28 DEF CheckCancelled, Step, Goto
<1>29. ASSUME NEW w \in Workers, WorkSucceeds(w)
     PROVE  status'[i] \in {status[i], "REMOVED"}
  BY <1>29 DEF WorkSucceeds, Step, Goto
<1>30. ASSUME NEW w \in Workers, Complete(w)
     PROVE  status'[i] \in {status[i], "REMOVED"}
  <2>1. pc[w] \in Busy /\ Owns(w)
    BY <1>30 DEF Complete, OwnedSettle
  <2>2. status[job[w]] \in Leased
    BY <2>1, OwnedIsLeased
  <2>3. QED
    BY <1>30, <2>2 DEF Complete, OwnedSettle, Settle, WriteRow
<1>31. ASSUME NEW w \in Workers, CompleteRefused(w)
     PROVE  status'[i] \in {status[i], "REMOVED"}
  BY <1>31 DEF CompleteRefused, Step, Goto
<1>32. ASSUME NEW w \in Workers, LookupInWork(w)
     PROVE  status'[i] \in {status[i], "REMOVED"}
  BY <1>32 DEF LookupInWork, Step, Goto
<1>33. ASSUME NEW w \in Workers, Retry(w)
     PROVE  status'[i] \in {status[i], "REMOVED"}
  <2>1. pc[w] \in Busy /\ Owns(w)
    BY <1>33 DEF Retry, OwnedWrite
  <2>2. status[job[w]] \in Leased
    BY <2>1, OwnedIsLeased
  <2>3. QED
    BY <1>33, <2>2 DEF Retry, OwnedWrite, WriteRow
<1>34. ASSUME NEW w \in Workers, RetryRefused(w)
     PROVE  status'[i] \in {status[i], "REMOVED"}
  BY <1>34 DEF RetryRefused, Step, Goto
<1>35. ASSUME NEW w \in Workers, LastCheck(w)
     PROVE  status'[i] \in {status[i], "REMOVED"}
  BY <1>35 DEF LastCheck, Step, Goto
<1>36. ASSUME NEW w \in Workers, PublishDeadLetter(w)
     PROVE  status'[i] \in {status[i], "REMOVED"}
  BY <1>36 DEF PublishDeadLetter, Goto
<1>37. ASSUME NEW w \in Workers, DeadLetterUnconfirmed(w)
     PROVE  status'[i] \in {status[i], "REMOVED"}
  BY <1>37 DEF DeadLetterUnconfirmed, Exit, PutDown, Goto, Released, Fault
<1>38. ASSUME NEW w \in Workers, FailJob(w)
     PROVE  status'[i] \in {status[i], "REMOVED"}
  <2>1. pc[w] \in Busy /\ Owns(w)
    BY <1>38 DEF FailJob, OwnedSettle
  <2>2. status[job[w]] \in Leased
    BY <2>1, OwnedIsLeased
  <2>3. QED
    BY <1>38, <2>2 DEF FailJob, OwnedSettle, Settle, WriteRow
<1>39. ASSUME NEW w \in Workers, FailRefused(w)
     PROVE  status'[i] \in {status[i], "REMOVED"}
  BY <1>39 DEF FailRefused, Step, Goto
<1>40. ASSUME NEW w \in Workers, LookupInHandler(w)
     PROVE  status'[i] \in {status[i], "REMOVED"}
  BY <1>40 DEF LookupInHandler, Step, Goto
<1>41. ASSUME NEW w \in Workers, DieInHandler(w)
     PROVE  status'[i] \in {status[i], "REMOVED"}
  BY <1>41 DEF DieInHandler, Exit, PutDown, Goto, Released
<1>42. CASE UNCHANGED vars
  BY <1>42
<1>43. QED
  BY <1>1, <1>2, <1>3, <1>4, <1>5, <1>6, <1>7, <1>8, <1>9, <1>10, <1>11,
   <1>12, <1>13, <1>14, <1>15, <1>16, <1>17, <1>18, <1>19, <1>20, <1>21,
   <1>22, <1>23, <1>24, <1>25, <1>26, <1>27, <1>28, <1>29, <1>30, <1>31,
   <1>32, <1>33, <1>34, <1>35, <1>36, <1>37, <1>38, <1>39, <1>40, <1>41,
   <1>42 DEF Next, Backend, Environment, Session, Attempts

\* No step of any worker, cleaner or request moves a settled job.
THEOREM TerminalStatusFinal == Spec => TerminalIsFinal
<1>1. TypeInv /\ RowInv /\ [Next]_vars
      => [\A j \in Jobs : Settled(j) => status'[j] \in {status[j], "REMOVED"}]_status
  BY SettledStays
<1>2. QED
  BY <1>1, TypeInvCorrect, RowInvCorrect, PTL DEF Spec, TerminalIsFinal

-----------------------------------------------------------------------------
(* What one step may do to the topic, the consumer group and a worker's message. *)

LogEffect(p) ==
    \/ log'[p] = log[p]
    \/ \E k \in Jobs : PartitionOf[k] = p /\ log'[p] = Append(log[p], k)

OutboxEffect(j) ==
    /\ j \in createdOutbox =>
          \/ j \in createdOutbox'
          \/ log'[PartitionOf[j]] = Append(log[PartitionOf[j]], j)
    /\ status'[j] \in Active => status[j] \in Active \/ j \in createdOutbox'

CommitEffect(p) ==
    \/ committed'[p] = committed[p]
    \/ \E v \in Workers : /\ pc[v] = "done"
                          /\ pc'[v] = "poll"
                          /\ PartitionOf[job[v]] = p
                          /\ owner[p] = v
                          /\ committed'[p] = offset[v]

AssignEffect(w, p) == owner'[p] = w => owner[p] = w \/ pc'[w] = "poll"

MessageEffect(w) ==
    pc'[w] \in Busy =>
        \/ /\ pc[w] \in Busy
           /\ job'[w] = job[w]
           /\ offset'[w] = offset[w]
           /\ pc'[w] \in {"skipped", "done"} =>
                 pc[w] \in {"skipped", "done"} \/ Settled(job[w])'
        \/ /\ pc'[w] = "claim"
           /\ \E p \in Partitions : /\ committed[p] < Len(log[p])
                                    /\ job'[w] = log[p][committed[p] + 1]
                                    /\ offset'[w] = committed[p] + 1
           /\ UNCHANGED <<log, committed, owner>>

LEMMA StepEffect ==
    ASSUME TypeInv, RowInv, [Next]_vars
    PROVE  /\ \A j \in Jobs : OutboxEffect(j)
           /\ \A p \in Partitions : LogEffect(p) /\ CommitEffect(p)
           /\ \A w \in Workers : MessageEffect(w)
           /\ \A w \in Workers, p \in Partitions : AssignEffect(w, p)
<1> SUFFICES ASSUME NEW i, NEW q, NEW u
             PROVE  /\ i \in Jobs => OutboxEffect(i)
                    /\ q \in Partitions => LogEffect(q) /\ CommitEffect(q)
                    /\ u \in Workers => MessageEffect(u)
                    /\ u \in Workers /\ q \in Partitions => AssignEffect(u, q)
  BY Zenon
<1> DEFINE Effect == /\ i \in Jobs => OutboxEffect(i)
                     /\ q \in Partitions => LogEffect(q) /\ CommitEffect(q)
                     /\ u \in Workers => MessageEffect(u)
                     /\ u \in Workers /\ q \in Partitions => AssignEffect(u, q)
<1> SUFFICES Effect
  OBVIOUS
<1> USE JobsAssumption DEF TypeInv, TypeOK
<1> USE DEF vars, rowVars, topicVars, groupVars, localVars, faultVars,
   LogEffect, OutboxEffect, CommitEffect, AssignEffect, MessageEffect,
   Settled, Statuses, Active, Leased, Terminal, Locations, Busy, Running
<1>1. ASSUME NEW j \in Jobs, CreateJob(j) PROVE Effect
  BY <1>1 DEF CreateJob
<1>2. ASSUME NEW j \in Jobs, CancelJob(j) PROVE Effect
  BY <1>2 DEF CancelJob, Settle, WriteRow
<1>3. ASSUME NEW j \in Jobs, RemoveRow(j) PROVE Effect
  BY <1>3 DEF RemoveRow
<1>4. ASSUME NEW j \in Jobs, PublishCreated(j) PROVE Effect
  BY <1>4 DEF PublishCreated, SendCreated
<1>5. ASSUME NEW j \in Jobs, PublishCreatedAgain(j) PROVE Effect
  BY <1>5 DEF PublishCreatedAgain, SendCreated, Fault
<1>6. ASSUME NEW j \in Jobs, PublishStatus(j) PROVE Effect
  BY <1>6 DEF PublishStatus
<1>7. ASSUME NEW o \in Owners, DeleteAccount(o) PROVE Effect
  BY <1>7 DEF DeleteAccount
<1>8. ASSUME NEW j \in Jobs, LeaseExpires(j) PROVE Effect
  BY <1>8 DEF LeaseExpires
<1>9. ASSUME NEW j \in Jobs, LeaseSlips(j) PROVE Effect
  BY <1>9 DEF LeaseSlips, Fault
<1>10. ASSUME NEW p \in Partitions, LosePartition(p) PROVE Effect
  BY <1>10 DEF LosePartition, Fault
<1>11. ASSUME NEW p \in Partitions, NEW w \in Workers, AssignPartition(p, w)
     PROVE  Effect
  BY <1>11 DEF AssignPartition
<1>12. ASSUME NEW w \in Workers, Crash(w) PROVE Effect
  BY <1>12 DEF Crash, Exit, PutDown, Goto, Released, Fault
<1>13. ASSUME NEW w \in Workers, RequestShutdown(w) PROVE Effect
  BY <1>13 DEF RequestShutdown, Fault
<1>14. ASSUME NEW w \in Workers, Restart(w) PROVE Effect
  BY <1>14 DEF Restart, Goto
<1>15. ASSUME NEW w \in Workers, StopPolling(w) PROVE Effect
  BY <1>15 DEF StopPolling, Exit, PutDown, Goto, Released
<1>16. ASSUME NEW w \in Workers, NEW p \in Partitions, Poll(w, p)
     PROVE  Effect
  BY <1>16 DEF Poll, Goto
<1>17. ASSUME NEW w \in Workers, ClaimJob(w) PROVE Effect
  BY <1>17 DEF ClaimJob, Claimable, WriteRow, Goto
<1>18. ASSUME NEW w \in Workers, ClaimRefused(w) PROVE Effect
  BY <1>18 DEF ClaimRefused, Goto
<1>19. ASSUME NEW w \in Workers, AbandonMessage(w) PROVE Effect
  BY <1>19 DEF AbandonMessage, Exit, PutDown, Goto, Released
<1>20. ASSUME NEW w \in Workers, SkipMessage(w) PROVE Effect
  BY <1>20 DEF SkipMessage, Goto
<1>21. ASSUME NEW w \in Workers, StartAttempts(w) PROVE Effect
  BY <1>21 DEF StartAttempts, Goto
<1>22. ASSUME NEW w \in Workers, RefreshLease(w) PROVE Effect
  BY <1>22 DEF RefreshLease
<1>23. ASSUME NEW w \in Workers, Commit(w) PROVE Effect
  BY <1>23 DEF Commit, PutDown, Goto, Released
<1>24. ASSUME NEW w \in Workers, BeginAttempt(w) PROVE Effect
  BY <1>24 DEF BeginAttempt, OwnedWrite, WriteRow, Goto, Owns
<1>25. ASSUME NEW w \in Workers, AttemptFails(w) PROVE Effect
  BY <1>25 DEF AttemptFails, Step, Goto
<1>26. ASSUME NEW w \in Workers, ReportProgress(w) PROVE Effect
  <2>1. pc[w] \in Busy /\ Owns(w)
    BY <1>26 DEF ReportProgress, OwnedWrite
  <2>2. status[job[w]] \in Leased
    BY <2>1, OwnedIsLeased
  <2>3. QED
    BY <1>26, <2>2 DEF ReportProgress, OwnedWrite, WriteRow, Goto
<1>27. ASSUME NEW w \in Workers, ReportRefused(w) PROVE Effect
  BY <1>27 DEF ReportRefused, Step, Goto
<1>28. ASSUME NEW w \in Workers, CheckCancelled(w) PROVE Effect
  BY <1>28 DEF CheckCancelled, Step, Goto, Cancelled
<1>29. ASSUME NEW w \in Workers, WorkSucceeds(w) PROVE Effect
  BY <1>29 DEF WorkSucceeds, Step, Goto
<1>30. ASSUME NEW w \in Workers, Complete(w) PROVE Effect
  BY <1>30 DEF Complete, OwnedSettle, Settle, WriteRow, Goto, Owns
<1>31. ASSUME NEW w \in Workers, CompleteRefused(w) PROVE Effect
  BY <1>31 DEF CompleteRefused, Step, Goto
<1>32. ASSUME NEW w \in Workers, LookupInWork(w) PROVE Effect
  BY <1>32 DEF LookupInWork, Step, Goto, Cancelled
<1>33. ASSUME NEW w \in Workers, Retry(w) PROVE Effect
  <2>1. pc[w] \in Busy /\ Owns(w)
    BY <1>33 DEF Retry, OwnedWrite
  <2>2. status[job[w]] \in Leased
    BY <2>1, OwnedIsLeased
  <2>3. QED
    BY <1>33, <2>2 DEF Retry, OwnedWrite, WriteRow, Goto
<1>34. ASSUME NEW w \in Workers, RetryRefused(w) PROVE Effect
  BY <1>34 DEF RetryRefused, Step, Goto
<1>35. ASSUME NEW w \in Workers, LastCheck(w) PROVE Effect
  BY <1>35 DEF LastCheck, Step, Goto, Cancelled
<1>36. ASSUME NEW w \in Workers, PublishDeadLetter(w) PROVE Effect
  BY <1>36 DEF PublishDeadLetter, Goto
<1>37. ASSUME NEW w \in Workers, DeadLetterUnconfirmed(w) PROVE Effect
  BY <1>37 DEF DeadLetterUnconfirmed, Exit, PutDown, Goto, Released, Fault
<1>38. ASSUME NEW w \in Workers, FailJob(w) PROVE Effect
  BY <1>38 DEF FailJob, OwnedSettle, Settle, WriteRow, Goto, Owns
<1>39. ASSUME NEW w \in Workers, FailRefused(w) PROVE Effect
  BY <1>39 DEF FailRefused, Step, Goto
<1>40. ASSUME NEW w \in Workers, LookupInHandler(w) PROVE Effect
  BY <1>40 DEF LookupInHandler, Step, Goto, Cancelled
<1>41. ASSUME NEW w \in Workers, DieInHandler(w) PROVE Effect
  BY <1>41 DEF DieInHandler, Exit, PutDown, Goto, Released
<1>42. CASE UNCHANGED vars
  BY <1>42
<1>43. QED
  BY <1>1, <1>2, <1>3, <1>4, <1>5, <1>6, <1>7, <1>8, <1>9, <1>10, <1>11,
   <1>12, <1>13, <1>14, <1>15, <1>16, <1>17, <1>18, <1>19, <1>20, <1>21,
   <1>22, <1>23, <1>24, <1>25, <1>26, <1>27, <1>28, <1>29, <1>30, <1>31,
   <1>32, <1>33, <1>34, <1>35, <1>36, <1>37, <1>38, <1>39, <1>40, <1>41,
   <1>42 DEF Next, Backend, Environment, Session, Attempts

-----------------------------------------------------------------------------
\* The offset a worker holds is the next one to commit as long as the partition
\* is its own, and it is only done with a settled job.
HeldInv ==
    \A w \in Workers : pc[w] \in Busy =>
        LET p == PartitionOf[job[w]]
        IN  /\ offset[w] \in 1..Len(log[p])
            /\ log[p][offset[w]] = job[w]
            /\ owner[p] = w => offset[w] = committed[p] + 1
            /\ pc[w] \in {"skipped", "done"} => Settled(job[w])

LogInv ==
    \A p \in Partitions :
        /\ committed[p] <= Len(log[p])
        /\ \A i \in 1..Len(log[p]) : PartitionOf[log[p][i]] = p

CommittedInv ==
    \A p \in Partitions : \A i \in 1..committed[p] : Settled(log[p][i])

CreatedInv ==
    \A j \in Jobs : status[j] \in Active =>
        \/ j \in createdOutbox
        \/ \E i \in 1..Len(log[PartitionOf[j]]) : log[PartitionOf[j]][i] = j

QueueInv == HeldInv /\ LogInv /\ CommittedInv /\ CreatedInv

LEMMA QueueInvInductive ==
    ASSUME TypeInv, RowInv, QueueInv, [Next]_vars
    PROVE  QueueInv'
<1> USE JobsAssumption
<1>1. /\ \A j \in Jobs : OutboxEffect(j)
      /\ \A p \in Partitions : LogEffect(p) /\ CommitEffect(p)
      /\ \A w \in Workers : MessageEffect(w)
      /\ \A w \in Workers, p \in Partitions : AssignEffect(w, p)
  BY StepEffect
<1>2. \A j \in Jobs : Settled(j) => Settled(j)'
  BY SettledStays DEF Settled
<1> USE DEF Settled
<1>3. \A p \in Partitions :
         /\ log[p] \in Seq(Jobs)
         /\ committed[p] \in Nat
         /\ Len(log[p]) <= Len(log'[p])
         /\ \A i \in 1..Len(log[p]) : log'[p][i] = log[p][i] /\ log[p][i] \in Jobs
         /\ \A i \in 1..Len(log'[p]) : \/ i \in 1..Len(log[p])
                                        \/ PartitionOf[log'[p][i]] = p
  <2> SUFFICES ASSUME NEW p \in Partitions
               PROVE  /\ log[p] \in Seq(Jobs)
                      /\ committed[p] \in Nat
                      /\ Len(log[p]) <= Len(log'[p])
                      /\ \A i \in 1..Len(log[p]) : /\ log'[p][i] = log[p][i]
                                                   /\ log[p][i] \in Jobs
                      /\ \A i \in 1..Len(log'[p]) : \/ i \in 1..Len(log[p])
                                                     \/ PartitionOf[log'[p][i]] = p
    OBVIOUS
  <2>1. log[p] \in Seq(Jobs) /\ committed[p] \in Nat
    BY DEF TypeInv, TypeOK
  <2>2. CASE log'[p] = log[p]
    BY <2>1, <2>2
  <2>3. CASE \E k \in Jobs : PartitionOf[k] = p /\ log'[p] = Append(log[p], k)
    BY <2>1, <2>3
  <2>4. QED
    BY <1>1, <2>2, <2>3 DEF LogEffect
<1>4. LogInv' /\ CommittedInv'
  <2> SUFFICES ASSUME NEW p \in Partitions
               PROVE  /\ committed'[p] <= Len(log'[p])
                      /\ \A i \in 1..Len(log'[p]) : PartitionOf[log'[p][i]] = p
                      /\ \A i \in 1..committed'[p] : (status'[log'[p][i]] \in Terminal \cup {"REMOVED"})
    BY DEF LogInv, CommittedInv, Settled
  <2>1. /\ committed[p] <= Len(log[p])
        /\ \A i \in 1..Len(log[p]) : PartitionOf[log[p][i]] = p
        /\ \A i \in 1..committed[p] : Settled(log[p][i])
    BY DEF QueueInv, LogInv, CommittedInv
  <2>2. ASSUME NEW i \in 1..Len(log'[p]) PROVE PartitionOf[log'[p][i]] = p
    <3>1. i \in 1..Len(log[p]) \/ PartitionOf[log'[p][i]] = p
      BY <1>3
    <3>2. CASE i \in 1..Len(log[p])
      <4>1. log'[p][i] = log[p][i]
        BY <1>3, <3>2
      <4>2. QED
        BY <2>1, <3>2, <4>1
    <3>3. QED
      BY <3>1, <3>2
  <2>3. CASE committed'[p] = committed[p]
    BY <1>2, <1>3, <2>1, <2>2, <2>3
  <2>4. ASSUME NEW v \in Workers, pc[v] = "done", PartitionOf[job[v]] = p,
               owner[p] = v, committed'[p] = offset[v]
        PROVE  /\ committed'[p] <= Len(log'[p])
               /\ \A i \in 1..committed'[p] : status'[log'[p][i]] \in Terminal \cup {"REMOVED"}
    <3>1. /\ offset[v] \in 1..Len(log[p])
          /\ offset[v] = committed[p] + 1
          /\ Settled(log[p][offset[v]])
      BY <2>4 DEF QueueInv, HeldInv, Busy
    <3>2. \A i \in 1..committed'[p] : i \in 1..Len(log[p]) /\ Settled(log[p][i])
      BY <1>3, <2>1, <2>4, <3>1
    <3>3. committed'[p] <= Len(log'[p])
      BY <1>3, <2>4, <3>1
    <3>4. ASSUME NEW i \in 1..committed'[p]
          PROVE  status'[log'[p][i]] \in Terminal \cup {"REMOVED"}
      <4>1. log'[p][i] = log[p][i] /\ log[p][i] \in Jobs
        BY <1>3, <3>2
      <4>2. QED
        BY <1>2, <3>2, <4>1
    <3>5. QED
      BY <3>3, <3>4
  <2>5. QED
    BY <1>1, <2>2, <2>3, <2>4 DEF CommitEffect
<1>5. HeldInv'
  <2> SUFFICES ASSUME NEW w \in Workers, pc'[w] \in Busy
               PROVE  LET p == PartitionOf[job'[w]]
                      IN  /\ offset'[w] \in 1..Len(log'[p])
                          /\ log'[p][offset'[w]] = job'[w]
                          /\ owner'[p] = w => offset'[w] = committed'[p] + 1
                          /\ pc'[w] \in {"skipped", "done"} => Settled(job[w])'
    BY DEF HeldInv, Busy, Running, Settled
  <2> DEFINE p == PartitionOf[job'[w]]
  <2>1. CASE /\ pc[w] \in Busy
             /\ job'[w] = job[w]
             /\ offset'[w] = offset[w]
             /\ pc'[w] \in {"skipped", "done"} =>
                   pc[w] \in {"skipped", "done"} \/ Settled(job[w])'
    <3>1. job[w] \in Jobs /\ p = PartitionOf[job[w]] /\ p \in Partitions
      BY <2>1 DEF TypeInv
    <3>2. /\ offset[w] \in 1..Len(log[p])
          /\ log[p][offset[w]] = job[w]
          /\ owner[p] = w => offset[w] = committed[p] + 1
          /\ pc[w] \in {"skipped", "done"} => Settled(job[w])
      BY <2>1, <3>1 DEF QueueInv, HeldInv
    <3>3. offset'[w] \in 1..Len(log'[p]) /\ log'[p][offset'[w]] = job'[w]
      BY <1>3, <2>1, <3>1, <3>2
    <3>4. pc'[w] \in {"skipped", "done"} => Settled(job[w])'
      BY <1>2, <2>1, <3>1, <3>2
    <3>5. owner'[p] = w => offset'[w] = committed'[p] + 1
      <4> SUFFICES ASSUME owner'[p] = w
                   PROVE  offset'[w] = committed'[p] + 1
        OBVIOUS
      <4>1. owner[p] = w
        BY <1>1, <3>1 DEF AssignEffect, Busy, Running
      <4>2. committed'[p] = committed[p]
        BY <1>1, <3>1, <4>1 DEF CommitEffect, Busy, Running
      <4>3. QED
        BY <2>1, <3>2, <4>1, <4>2
    <3>6. QED
      BY <3>3, <3>4, <3>5
  <2>2. ASSUME NEW q \in Partitions, pc'[w] = "claim",
               committed[q] < Len(log[q]),
               job'[w] = log[q][committed[q] + 1],
               offset'[w] = committed[q] + 1,
               UNCHANGED <<log, committed, owner>>
        PROVE  /\ offset'[w] \in 1..Len(log'[p])
               /\ log'[p][offset'[w]] = job'[w]
               /\ owner'[p] = w => offset'[w] = committed'[p] + 1
               /\ pc'[w] \in {"skipped", "done"} => Settled(job[w])'
    <3>1. committed[q] + 1 \in 1..Len(log[q])
      BY <1>3, <2>2
    <3>2. p = q
      BY <2>2, <3>1 DEF QueueInv, LogInv
    <3>3. QED
      BY <2>2, <3>1, <3>2
  <2>3. QED
    BY <1>1, <2>1, <2>2 DEF MessageEffect
<1>6. CreatedInv'
  <2> SUFFICES ASSUME NEW j \in Jobs, status'[j] \in Active, j \notin createdOutbox'
               PROVE  \E i \in 1..Len(log'[PartitionOf[j]]) :
                          log'[PartitionOf[j]][i] = j
    BY DEF CreatedInv, Active, Leased
  <2> DEFINE p == PartitionOf[j]
  <2>1. p \in Partitions
    OBVIOUS
  <2>2. status[j] \in Active
    BY <1>1 DEF OutboxEffect
  <2>3. CASE j \in createdOutbox
    <3>1. log'[p] = Append(log[p], j)
      BY <1>1, <2>3 DEF OutboxEffect
    <3>2. Len(log[p]) + 1 \in 1..Len(log'[p]) /\ log'[p][Len(log[p]) + 1] = j
      BY <1>3, <2>1, <3>1
    <3>3. QED
      BY <3>2
  <2>4. CASE \E i \in 1..Len(log[p]) : log[p][i] = j
    <3>1. PICK i \in 1..Len(log[p]) : log[p][i] = j
      BY <2>4
    <3>2. i \in 1..Len(log'[p]) /\ log'[p][i] = j
      BY <1>3, <2>1, <3>1
    <3>3. QED
      BY <3>2
  <2>5. QED
    BY <2>2, <2>3, <2>4 DEF QueueInv, CreatedInv
<1>7. QED
  BY <1>4, <1>5, <1>6 DEF QueueInv

LEMMA QueueInvCorrect == Spec => []QueueInv
<1>1. Init => QueueInv
  BY DEF Init, QueueInv, HeldInv, LogInv, CommittedInv, CreatedInv, Busy, Running, Active, Leased
<1>2. TypeInv /\ RowInv /\ QueueInv /\ [Next]_vars => QueueInv'
  BY QueueInvInductive
<1>3. QED
  BY <1>1, <1>2, TypeInvCorrect, RowInvCorrect, PTL DEF Spec

\* No offset is committed past a job that still needs a worker.
THEOREM CommitsAreSafe == Spec => []CommittedIsSettled
<1>1. QueueInv => CommittedIsSettled
  BY DEF QueueInv, CommittedInv, CommittedIsSettled
<1>2. QED
  BY <1>1, QueueInvCorrect, PTL

\* An active job is in the outbox or above the committed offset of its partition.
THEOREM JobsAreNotLost == Spec => []NoLostJob
<1>1. TypeInv /\ QueueInv => NoLostJob
  <2> SUFFICES ASSUME TypeInv, QueueInv, NEW j \in Jobs, status[j] \in Active,
                      j \notin createdOutbox
               PROVE  \E i \in DOMAIN log[PartitionOf[j]] :
                          /\ i > committed[PartitionOf[j]]
                          /\ log[PartitionOf[j]][i] = j
    BY DEF NoLostJob, Queued
  <2> DEFINE p == PartitionOf[j]
  <2>1. p \in Partitions /\ committed[p] \in Nat /\ log[p] \in Seq(Jobs)
    BY JobsAssumption DEF TypeInv, TypeOK
  <2>2. PICK i \in 1..Len(log[p]) : log[p][i] = j
    BY DEF QueueInv, CreatedInv
  <2>3. ~Settled(j)
    BY DEF Settled, Active, Leased, Terminal
  <2>4. i > committed[p]
    BY <2>1, <2>2, <2>3 DEF QueueInv, CommittedInv
  <2>5. QED
    BY <2>1, <2>2, <2>4
<1>2. QED
  BY <1>1, TypeInvCorrect, QueueInvCorrect, PTL

\* The committed offset neither passes an active job nor leaves one behind.
THEOREM QueueIsSafe == Spec => []QueueSafety
  BY CommitsAreSafe, JobsAreNotLost, PTL DEF QueueSafety

-----------------------------------------------------------------------------
(* What one step may do to announcements, dead letters and leases. *)

\* Processing a job, or about to.
Live(w) == pc[w] \in Running \cup {"claimed"}

AnnounceEffect(j) ==
    (seen[j] = status[j] \/ j \in statusOutbox \/ status[j] = "REMOVED") =>
        seen'[j] = status'[j] \/ j \in statusOutbox' \/ status'[j] = "REMOVED"

DeadLetterEffect(j) ==
    /\ j \in deadLetters => j \in deadLetters'
    /\ status'[j] = "FAILED" =>
          \/ status[j] = "FAILED"
          \/ \E v \in Workers : pc[v] = "fail" /\ job[v] = j

FailEffect(w) ==
    pc'[w] = "fail" => \/ pc[w] = "fail" /\ job'[w] = job[w]
                       \/ job'[w] \in deadLetters'

LeaseEffect(j, w) ==
    /\ j \in slipped => j \in slipped'
    /\ Live(w)' =>
          /\ job'[w] = job[w]
          /\ \/ Live(w)
             \/ /\ Claimable(job[w])
                /\ holder'[job[w]] = w
                /\ lease'[job[w]] = "fresh"
    /\ Live(w) /\ job[w] = j /\ holder[j] = w /\ lease[j] = "fresh" =>
          \/ holder'[j] = w /\ lease'[j] = "fresh"
          \/ Settled(j)'
          \/ j \in slipped'

ClaimEffect(v, w) == v # w /\ Live(v)' /\ Live(w)' => Live(v) \/ Live(w)

LEMMA SafetyEffect ==
    ASSUME TypeInv, RowInv, [Next]_vars
    PROVE  /\ \A j \in Jobs : AnnounceEffect(j)
           /\ \A j \in Jobs : DeadLetterEffect(j)
           /\ \A w \in Workers : FailEffect(w)
           /\ \A j \in Jobs, w \in Workers : LeaseEffect(j, w)
           /\ \A v, w \in Workers : ClaimEffect(v, w)
<1> SUFFICES ASSUME NEW i, NEW u, NEW x
             PROVE  /\ i \in Jobs => AnnounceEffect(i)
                    /\ i \in Jobs => DeadLetterEffect(i)
                    /\ u \in Workers => FailEffect(u)
                    /\ i \in Jobs /\ u \in Workers => LeaseEffect(i, u)
                    /\ u \in Workers /\ x \in Workers => ClaimEffect(x, u)
  BY Zenon
<1> DEFINE Effect == /\ i \in Jobs => AnnounceEffect(i)
                     /\ i \in Jobs => DeadLetterEffect(i)
                     /\ u \in Workers => FailEffect(u)
                     /\ i \in Jobs /\ u \in Workers => LeaseEffect(i, u)
                     /\ u \in Workers /\ x \in Workers => ClaimEffect(x, u)
<1> SUFFICES Effect
  OBVIOUS
<1> USE JobsAssumption DEF TypeInv, TypeOK
<1> USE DEF vars, rowVars, topicVars, groupVars, localVars, faultVars,
   AnnounceEffect, DeadLetterEffect, FailEffect, LeaseEffect, ClaimEffect, Live,
   Settled, Statuses, Active, Leased, Terminal, Locations, Busy, Running
<1>1. ASSUME NEW j \in Jobs, CreateJob(j) PROVE Effect
  BY <1>1 DEF CreateJob
<1>2. ASSUME NEW j \in Jobs, CancelJob(j) PROVE Effect
  BY <1>2 DEF CancelJob, Settle, WriteRow
<1>3. ASSUME NEW j \in Jobs, RemoveRow(j) PROVE Effect
  BY <1>3 DEF RemoveRow
<1>4. ASSUME NEW j \in Jobs, PublishCreated(j) PROVE Effect
  BY <1>4 DEF PublishCreated, SendCreated
<1>5. ASSUME NEW j \in Jobs, PublishCreatedAgain(j) PROVE Effect
  BY <1>5 DEF PublishCreatedAgain, SendCreated, Fault
<1>6. ASSUME NEW j \in Jobs, PublishStatus(j) PROVE Effect
  BY <1>6 DEF PublishStatus
<1>7. ASSUME NEW o \in Owners, DeleteAccount(o) PROVE Effect
  BY <1>7 DEF DeleteAccount
<1>8. ASSUME NEW j \in Jobs, LeaseExpires(j) PROVE Effect
  BY <1>8 DEF LeaseExpires, HeldByLiveWorker
<1>9. ASSUME NEW j \in Jobs, LeaseSlips(j) PROVE Effect
  BY <1>9 DEF LeaseSlips, Fault
<1>10. ASSUME NEW p \in Partitions, LosePartition(p) PROVE Effect
  BY <1>10 DEF LosePartition, Fault
<1>11. ASSUME NEW p \in Partitions, NEW w \in Workers, AssignPartition(p, w)
     PROVE  Effect
  BY <1>11 DEF AssignPartition
<1>12. ASSUME NEW w \in Workers, Crash(w) PROVE Effect
  BY <1>12 DEF Crash, Exit, PutDown, Goto, Released, Fault
<1>13. ASSUME NEW w \in Workers, RequestShutdown(w) PROVE Effect
  BY <1>13 DEF RequestShutdown, Fault
<1>14. ASSUME NEW w \in Workers, Restart(w) PROVE Effect
  BY <1>14 DEF Restart, Goto
<1>15. ASSUME NEW w \in Workers, StopPolling(w) PROVE Effect
  BY <1>15 DEF StopPolling, Exit, PutDown, Goto, Released
<1>16. ASSUME NEW w \in Workers, NEW p \in Partitions, Poll(w, p)
     PROVE  Effect
  BY <1>16 DEF Poll, Goto
<1>17. ASSUME NEW w \in Workers, ClaimJob(w) PROVE Effect
  <2>1. job[w] \in Jobs
    BY <1>17 DEF ClaimJob
  <2>2. i \in Jobs => AnnounceEffect(i)
    BY <1>17, <2>1 DEF ClaimJob, Claimable, WriteRow, Goto, RowInv
  <2>3. (i \in Jobs => DeadLetterEffect(i)) /\ (u \in Workers => FailEffect(u))
    BY <1>17, <2>1 DEF ClaimJob, Claimable, WriteRow, Goto, RowInv
  <2>4. i \in Jobs /\ u \in Workers => LeaseEffect(i, u)
    BY <1>17, <2>1 DEF ClaimJob, Claimable, WriteRow, Goto, RowInv
  <2>5. u \in Workers /\ x \in Workers => ClaimEffect(x, u)
    BY <1>17, <2>1 DEF ClaimJob, Claimable, WriteRow, Goto, RowInv
  <2>6. QED
    BY <2>2, <2>3, <2>4, <2>5
<1>18. ASSUME NEW w \in Workers, ClaimRefused(w) PROVE Effect
  BY <1>18 DEF ClaimRefused, Goto
<1>19. ASSUME NEW w \in Workers, AbandonMessage(w) PROVE Effect
  BY <1>19 DEF AbandonMessage, Exit, PutDown, Goto, Released
<1>20. ASSUME NEW w \in Workers, SkipMessage(w) PROVE Effect
  BY <1>20 DEF SkipMessage, Goto
<1>21. ASSUME NEW w \in Workers, StartAttempts(w) PROVE Effect
  BY <1>21 DEF StartAttempts, Goto
<1>22. ASSUME NEW w \in Workers, RefreshLease(w) PROVE Effect
  BY <1>22 DEF RefreshLease
<1>23. ASSUME NEW w \in Workers, Commit(w) PROVE Effect
  BY <1>23 DEF Commit, PutDown, Goto, Released
<1>24. ASSUME NEW w \in Workers, BeginAttempt(w) PROVE Effect
  BY <1>24 DEF BeginAttempt, OwnedWrite, WriteRow, Goto, Owns
<1>25. ASSUME NEW w \in Workers, AttemptFails(w) PROVE Effect
  BY <1>25 DEF AttemptFails, Step, Goto
<1>26. ASSUME NEW w \in Workers, ReportProgress(w) PROVE Effect
  <2>1. pc[w] \in Busy /\ Owns(w)
    BY <1>26 DEF ReportProgress, OwnedWrite
  <2>2. status[job[w]] \in Leased
    BY <2>1, OwnedIsLeased
  <2>3. job[w] \in Jobs
    BY <2>1
  <2>4. i \in Jobs => AnnounceEffect(i)
    BY <1>26, <2>2, <2>3 DEF ReportProgress, OwnedWrite, WriteRow, Goto, Owns
  <2>5. (i \in Jobs => DeadLetterEffect(i)) /\ (u \in Workers => FailEffect(u))
    BY <1>26, <2>2, <2>3 DEF ReportProgress, OwnedWrite, WriteRow, Goto, Owns
  <2>6. i \in Jobs /\ u \in Workers => LeaseEffect(i, u)
    BY <1>26, <2>2, <2>3 DEF ReportProgress, OwnedWrite, WriteRow, Goto, Owns
  <2>7. u \in Workers /\ x \in Workers => ClaimEffect(x, u)
    BY <1>26, <2>2, <2>3 DEF ReportProgress, OwnedWrite, WriteRow, Goto, Owns
  <2>8. QED
    BY <2>4, <2>5, <2>6, <2>7
<1>27. ASSUME NEW w \in Workers, ReportRefused(w) PROVE Effect
  BY <1>27 DEF ReportRefused, Step, Goto
<1>28. ASSUME NEW w \in Workers, CheckCancelled(w) PROVE Effect
  BY <1>28 DEF CheckCancelled, Step, Goto, Cancelled
<1>29. ASSUME NEW w \in Workers, WorkSucceeds(w) PROVE Effect
  BY <1>29 DEF WorkSucceeds, Step, Goto
<1>30. ASSUME NEW w \in Workers, Complete(w) PROVE Effect
  BY <1>30 DEF Complete, OwnedSettle, Settle, WriteRow, Goto, Owns
<1>31. ASSUME NEW w \in Workers, CompleteRefused(w) PROVE Effect
  BY <1>31 DEF CompleteRefused, Step, Goto
<1>32. ASSUME NEW w \in Workers, LookupInWork(w) PROVE Effect
  BY <1>32 DEF LookupInWork, Step, Goto, Cancelled
<1>33. ASSUME NEW w \in Workers, Retry(w) PROVE Effect
  <2>1. pc[w] \in Busy /\ Owns(w)
    BY <1>33 DEF Retry, OwnedWrite
  <2>2. status[job[w]] \in Leased
    BY <2>1, OwnedIsLeased
  <2>3. job[w] \in Jobs
    BY <2>1
  <2>4. i \in Jobs => AnnounceEffect(i)
    BY <1>33, <2>2, <2>3 DEF Retry, OwnedWrite, WriteRow, Goto, Owns
  <2>5. (i \in Jobs => DeadLetterEffect(i)) /\ (u \in Workers => FailEffect(u))
    BY <1>33, <2>2, <2>3 DEF Retry, OwnedWrite, WriteRow, Goto, Owns
  <2>6. i \in Jobs /\ u \in Workers => LeaseEffect(i, u)
    BY <1>33, <2>2, <2>3 DEF Retry, OwnedWrite, WriteRow, Goto, Owns
  <2>7. u \in Workers /\ x \in Workers => ClaimEffect(x, u)
    BY <1>33, <2>2, <2>3 DEF Retry, OwnedWrite, WriteRow, Goto, Owns
  <2>8. QED
    BY <2>4, <2>5, <2>6, <2>7
<1>34. ASSUME NEW w \in Workers, RetryRefused(w) PROVE Effect
  BY <1>34 DEF RetryRefused, Step, Goto
<1>35. ASSUME NEW w \in Workers, LastCheck(w) PROVE Effect
  BY <1>35 DEF LastCheck, Step, Goto, Cancelled
<1>36. ASSUME NEW w \in Workers, PublishDeadLetter(w) PROVE Effect
  BY <1>36 DEF PublishDeadLetter, Goto
<1>37. ASSUME NEW w \in Workers, DeadLetterUnconfirmed(w) PROVE Effect
  BY <1>37 DEF DeadLetterUnconfirmed, Exit, PutDown, Goto, Released, Fault
<1>38. ASSUME NEW w \in Workers, FailJob(w) PROVE Effect
  BY <1>38 DEF FailJob, OwnedSettle, Settle, WriteRow, Goto, Owns
<1>39. ASSUME NEW w \in Workers, FailRefused(w) PROVE Effect
  BY <1>39 DEF FailRefused, Step, Goto
<1>40. ASSUME NEW w \in Workers, LookupInHandler(w) PROVE Effect
  BY <1>40 DEF LookupInHandler, Step, Goto, Cancelled
<1>41. ASSUME NEW w \in Workers, DieInHandler(w) PROVE Effect
  BY <1>41 DEF DieInHandler, Exit, PutDown, Goto, Released
<1>42. CASE UNCHANGED vars
  BY <1>42
<1> HIDE DEF Effect
<1>43. QED
  BY <1>1, <1>2, <1>3, <1>4, <1>5, <1>6, <1>7, <1>8, <1>9, <1>10, <1>11,
   <1>12, <1>13, <1>14, <1>15, <1>16, <1>17, <1>18, <1>19, <1>20, <1>21,
   <1>22, <1>23, <1>24, <1>25, <1>26, <1>27, <1>28, <1>29, <1>30, <1>31,
   <1>32, <1>33, <1>34, <1>35, <1>36, <1>37, <1>38, <1>39, <1>40, <1>41,
   <1>42 DEF Next, Backend, Environment, Session, Attempts

-----------------------------------------------------------------------------
\* A worker about to write FAILED has published the dead letter.
DeadLetterInv ==
    /\ FailedIsDeadLettered
    /\ \A w \in Workers : pc[w] = "fail" => job[w] \in deadLetters

\* A worker that has begun a job still holds it under a lease that runs, unless
\* the job is settled or the lease once slipped; and it is the only one.
LeaseInv ==
    /\ \A w \in Workers : Live(w) =>
          \/ holder[job[w]] = w /\ lease[job[w]] = "fresh"
          \/ Settled(job[w])
          \/ job[w] \in slipped
    /\ \A v, w \in Workers :
          v # w /\ Live(v) /\ Live(w) /\ job[v] = job[w] => job[v] \in slipped

LEMMA DeadLetterInvInductive ==
    ASSUME TypeInv, TypeInv', RowInv, DeadLetterInv, [Next]_vars
    PROVE  DeadLetterInv'
<1>1. ASSUME NEW w \in Workers, pc'[w] = "fail"
      PROVE  job'[w] \in deadLetters'
  <2>1. job'[w] \in Jobs
    BY <1>1 DEF TypeInv, Busy, Running
  <2>2. FailEffect(w) /\ DeadLetterEffect(job'[w])
    BY <2>1, SafetyEffect
  <2>3. QED
    BY <1>1, <2>2 DEF FailEffect, DeadLetterEffect, DeadLetterInv
<1>2. ASSUME NEW j \in Jobs, status'[j] = "FAILED"
      PROVE  j \in deadLetters'
  BY <1>2, SafetyEffect DEF DeadLetterEffect, DeadLetterInv, FailedIsDeadLettered
<1>3. QED
  BY <1>1, <1>2 DEF DeadLetterInv, FailedIsDeadLettered

LEMMA LeaseInvInductive ==
    ASSUME TypeInv, TypeInv', RowInv, LeaseInv, [Next]_vars
    PROVE  LeaseInv'
<1>1. \A w \in Workers : Live(w)' => job'[w] = job[w] /\ job[w] \in Jobs
  <2> SUFFICES ASSUME NEW w \in Workers, Live(w)'
               PROVE  job'[w] = job[w] /\ job[w] \in Jobs
    OBVIOUS
  <2>1. job'[w] \in Jobs
    BY DEF TypeInv, Live, Busy
  <2>2. QED
    BY <2>1, SafetyEffect DEF LeaseEffect
<1>2. \A w \in Workers : Live(w)' => LeaseEffect(job[w], w)
  BY <1>1, SafetyEffect
<1>3. \A v, w \in Workers : ClaimEffect(v, w)
  BY SafetyEffect
<1>4. \A j \in Jobs : Settled(j) => Settled(j)'
  BY SettledStays DEF Settled
<1>5. ASSUME NEW w \in Workers, Live(w)'
      PROVE  \/ holder'[job'[w]] = w /\ lease'[job'[w]] = "fresh"
             \/ Settled(job[w])'
             \/ job'[w] \in slipped'
  <2>1. job'[w] = job[w] /\ job[w] \in Jobs
    BY <1>1, <1>5
  <2>2. LeaseEffect(job[w], w)
    BY <1>2, <1>5
  <2>3. CASE Live(w)
    BY <1>4, <2>1, <2>2, <2>3 DEF LeaseInv, LeaseEffect
  <2>4. CASE holder'[job[w]] = w /\ lease'[job[w]] = "fresh"
    BY <2>1, <2>4
  <2>5. QED
    BY <1>5, <2>2, <2>3, <2>4 DEF LeaseEffect
<1>6. ASSUME NEW v \in Workers, NEW w \in Workers, v # w, Live(v), ~Live(w),
             Live(v)', Live(w)', job'[v] = job'[w]
      PROVE  job'[v] \in slipped'
  <2>1. job'[v] = job[v] /\ job[v] = job[w] /\ job[w] \in Jobs
    BY <1>1, <1>6
  <2>2. Claimable(job[w])
    BY <1>2, <1>6 DEF LeaseEffect
  <2>3. ~(holder[job[v]] = v /\ lease[job[v]] = "fresh")
    <3>1. holder[job[w]] # None => status[job[w]] \in Leased
      BY <2>1 DEF RowInv
    <3>2. v # None
      BY JobsAssumption
    <3>3. QED
      BY <2>1, <2>2, <3>1, <3>2 DEF Claimable, Leased
  <2>4. ~Settled(job[v])
    BY <2>1, <2>2 DEF Claimable, Settled, Terminal, Leased
  <2>5. job[v] \in slipped
    BY <1>6, <2>3, <2>4 DEF LeaseInv
  <2>6. QED
    BY <1>2, <1>6, <2>1, <2>5 DEF LeaseEffect
<1>7. ASSUME NEW v \in Workers, NEW w \in Workers, v # w,
             Live(v)', Live(w)', job'[v] = job'[w]
      PROVE  job'[v] \in slipped'
  <2>1. CASE Live(v) /\ Live(w)
    <3>1. job'[v] = job[v] /\ job[v] = job[w]
      BY <1>1, <1>7
    <3>2. job[v] \in slipped
      BY <1>7, <2>1, <3>1 DEF LeaseInv
    <3>3. QED
      BY <1>2, <1>7, <3>1, <3>2 DEF LeaseEffect
  <2>2. CASE Live(v) /\ ~Live(w)
    BY <1>6, <1>7, <2>2
  <2>3. CASE ~Live(v) /\ Live(w)
    BY <1>6, <1>7, <2>3
  <2>4. QED
    BY <1>3, <1>7, <2>1, <2>2, <2>3 DEF ClaimEffect
<1>8. QED
  BY <1>5, <1>7 DEF LeaseInv, Live, Settled

LEMMA LeaseInvCorrect == Spec => []LeaseInv
<1>1. Init => LeaseInv
  BY DEF Init, LeaseInv, Live, Running
<1>2. TypeInv /\ TypeInv' /\ RowInv /\ LeaseInv /\ [Next]_vars => LeaseInv'
  BY LeaseInvInductive
<1>3. QED
  BY <1>1, <1>2, TypeInvCorrect, RowInvCorrect, PTL DEF Spec

\* While no lease slips under a living worker, a job has one worker at most.
THEOREM OneWorkerPerJob == Spec => []ExclusiveProcessing
<1>1. LeaseInv => ExclusiveProcessing
  BY DEF LeaseInv, ExclusiveProcessing, Live
<1>2. QED
  BY <1>1, LeaseInvCorrect, PTL

\* No job is FAILED before its dead letter is on the topic.
THEOREM FailedJobsAreDeadLettered == Spec => []FailedIsDeadLettered
<1>1. Init => DeadLetterInv
  BY JobsAssumption DEF Init, DeadLetterInv, FailedIsDeadLettered
<1>2. TypeInv /\ TypeInv' /\ RowInv /\ DeadLetterInv /\ [Next]_vars => DeadLetterInv'
  BY DeadLetterInvInductive
<1>3. DeadLetterInv => FailedIsDeadLettered
  BY DEF DeadLetterInv
<1>4. QED
  BY <1>1, <1>2, <1>3, TypeInvCorrect, RowInvCorrect, PTL DEF Spec

\* Every change of a status is announced or waits in the outbox.
THEOREM ChangesAreAnnounced == Spec => []NoLostNotification
<1>1. Init => NoLostNotification
  BY DEF Init, NoLostNotification
<1>2. TypeInv /\ RowInv /\ NoLostNotification /\ [Next]_vars => NoLostNotification'
  <2> SUFFICES ASSUME TypeInv, RowInv, NoLostNotification, [Next]_vars
               PROVE  NoLostNotification'
    OBVIOUS
  <2>1. \A j \in Jobs : AnnounceEffect(j)
    BY SafetyEffect
  <2>2. QED
    BY <2>1 DEF NoLostNotification, AnnounceEffect
<1>3. QED
  BY <1>1, <1>2, TypeInvCorrect, RowInvCorrect, PTL DEF Spec

\* A job that is settled has left all its traces, whoever settled it.
THEOREM SettlingCompletes == Spec => []SettlingIsComplete
  BY FailedJobsAreDeadLettered, ChangesAreAnnounced, RetentionStarts, PTL
     DEF SettlingIsComplete

-----------------------------------------------------------------------------
(* The attempts a job costs: a budget of MaxAttempts for its first          *)
(* delivery, and one more for each fault.                                   *)

New == {"ABSENT", "PENDING"}

\* The worker that may write the row of the job it processes.
Works(w, j) == pc[w] \in Running /\ job[w] = j /\ holder[j] = w

\* The attempts of a job, those of its present delivery set against the local
\* counter; an iteration that has not reached its row yet is to be paid.
Paid(w, j) ==
    IF pc[w] = "begin" THEN attempts[j] + 1 <= MaxAttempts * faults + attempt[w]
                       ELSE attempts[j] <= MaxAttempts * faults + attempt[w]

\* A row that nobody works on has used up no more than the budgets of the
\* faults so far; the one worker that works on it spends the next.
Budget(j) ==
    /\ status[j] \in New => attempts[j] = 0
    /\ attempts[j] <= MaxAttempts * faults + MaxAttempts
    /\ status[j] \in Leased =>
          \/ attempts[j] <= MaxAttempts * faults
          \/ lease[j] = "fresh" /\ \E w \in Workers : Works(w, j) /\ Paid(w, j)

\* A refused write never becomes possible again, so that a process which dies
\* of it holds no row.
HandlerInv ==
    \A w \in Workers :
        /\ pc[w] \in Running => attempt[w] >= 1
        /\ pc[w] = "handlerLookup" => ~Owns(w)

BudgetInv == HandlerInv /\ \A j \in Jobs : Budget(j)

-----------------------------------------------------------------------------
(* What one step may do to the attempts of a job.                           *)

HandlerEffect(w) ==
    /\ pc'[w] \in Running =>
          \/ pc[w] \in Running /\ attempt'[w] >= attempt[w]
          \/ attempt'[w] >= 1
    /\ pc'[w] = "handlerLookup" =>
          /\ job'[w] = job[w]
          /\ pc[w] = "handlerLookup" \/ ~Owns(w)
          /\ holder'[job[w]] = w => Owns(w)

\* The row and whoever works on it stay, the local counter may go up.
Kept(j) ==
    /\ status[j] \in Leased
    /\ lease'[j] \in {lease[j], "fresh"}
    /\ \A w \in Workers : Works(w, j) =>
          /\ Works(w, j)'
          /\ \/ attempt'[w] = attempt[w] /\ (pc'[w] = "begin" => pc[w] = "begin")
             \/ attempt'[w] = attempt[w] + 1

Begun(j) ==
    /\ attempts'[j] = attempts[j] + 1
    /\ status[j] \in Leased
    /\ status'[j] \in Leased
    /\ lease'[j] = "fresh"
    /\ \E w \in Workers : /\ Works(w, j) /\ pc[w] = "begin"
                          /\ Works(w, j)' /\ pc'[w] # "begin"
                          /\ attempt'[w] = attempt[w]

AttemptEffect(j) ==
    /\ faults' \in {faults, faults + 1}
    /\ status'[j] \in New => status[j] \in New
    /\ \/ faults' = faults /\ Begun(j)
       \/ /\ attempts'[j] = attempts[j]
          /\ \/ faults' = faults + 1
             \/ status'[j] \notin Leased
             \/ status[j] = "PENDING"
             \/ lease[j] # "fresh" /\ status[j] \in Leased
             \/ status[j] \in Leased /\ \A w \in Workers : ~Works(w, j)
             \/ Kept(j)

LEMMA AttemptsStepEffect ==
    ASSUME TypeInv, RowInv, HandlerInv, [Next]_vars
    PROVE  /\ \A j \in Jobs : AttemptEffect(j)
           /\ \A w \in Workers : HandlerEffect(w)
<1> SUFFICES ASSUME NEW i, NEW u
             PROVE  /\ i \in Jobs => AttemptEffect(i)
                    /\ u \in Workers => HandlerEffect(u)
  BY Zenon
<1> DEFINE Effect == /\ i \in Jobs => AttemptEffect(i)
                     /\ u \in Workers => HandlerEffect(u)
<1> SUFFICES Effect
  OBVIOUS
<1> USE JobsAssumption, LimitsAssumption DEF TypeInv, TypeOK, HandlerInv
<1> USE DEF vars, rowVars, topicVars, groupVars, localVars, faultVars,
   AttemptEffect, HandlerEffect, Kept, Begun, Works, New, Owns,
   Statuses, Active, Leased, Terminal, Locations, Busy, Running
<1>1. ASSUME NEW j \in Jobs, CreateJob(j) PROVE Effect
  BY <1>1 DEF CreateJob
<1>2. ASSUME NEW j \in Jobs, CancelJob(j) PROVE Effect
  BY <1>2 DEF CancelJob, Settle, WriteRow
<1>3. ASSUME NEW j \in Jobs, RemoveRow(j) PROVE Effect
  BY <1>3 DEF RemoveRow
<1>4. ASSUME NEW j \in Jobs, PublishCreated(j) PROVE Effect
  BY <1>4 DEF PublishCreated, SendCreated
<1>5. ASSUME NEW j \in Jobs, PublishCreatedAgain(j) PROVE Effect
  BY <1>5 DEF PublishCreatedAgain, SendCreated, Fault
<1>6. ASSUME NEW j \in Jobs, PublishStatus(j) PROVE Effect
  BY <1>6 DEF PublishStatus
<1>7. ASSUME NEW o \in Owners, DeleteAccount(o) PROVE Effect
  BY <1>7 DEF DeleteAccount
<1>8. ASSUME NEW j \in Jobs, LeaseExpires(j) PROVE Effect
  BY <1>8 DEF LeaseExpires, HeldByLiveWorker
<1>9. ASSUME NEW j \in Jobs, LeaseSlips(j) PROVE Effect
  BY <1>9 DEF LeaseSlips, Fault
<1>10. ASSUME NEW p \in Partitions, LosePartition(p) PROVE Effect
  BY <1>10 DEF LosePartition, Fault
<1>11. ASSUME NEW p \in Partitions, NEW w \in Workers, AssignPartition(p, w)
     PROVE  Effect
  BY <1>11 DEF AssignPartition
<1>12. ASSUME NEW w \in Workers, Crash(w) PROVE Effect
  BY <1>12 DEF Crash, Exit, PutDown, Goto, Released, Fault
<1>13. ASSUME NEW w \in Workers, RequestShutdown(w) PROVE Effect
  BY <1>13 DEF RequestShutdown, Fault
<1>14. ASSUME NEW w \in Workers, Restart(w) PROVE Effect
  BY <1>14 DEF Restart, Goto
<1>15. ASSUME NEW w \in Workers, StopPolling(w) PROVE Effect
  BY <1>15 DEF StopPolling, Exit, PutDown, Goto, Released
<1>16. ASSUME NEW w \in Workers, NEW p \in Partitions, Poll(w, p)
     PROVE  Effect
  BY <1>16 DEF Poll, Goto
<1>17. ASSUME NEW w \in Workers, ClaimJob(w) PROVE Effect
  BY <1>17 DEF ClaimJob, Claimable, WriteRow, Goto
<1>18. ASSUME NEW w \in Workers, ClaimRefused(w) PROVE Effect
  BY <1>18 DEF ClaimRefused, Goto
<1>19. ASSUME NEW w \in Workers, AbandonMessage(w) PROVE Effect
  BY <1>19 DEF AbandonMessage, Exit, PutDown, Goto, Released
<1>20. ASSUME NEW w \in Workers, SkipMessage(w) PROVE Effect
  BY <1>20 DEF SkipMessage, Goto
<1>21. ASSUME NEW w \in Workers, StartAttempts(w) PROVE Effect
  BY <1>21 DEF StartAttempts, Goto
<1>22. ASSUME NEW w \in Workers, RefreshLease(w) PROVE Effect
  BY <1>22 DEF RefreshLease
<1>23. ASSUME NEW w \in Workers, Commit(w) PROVE Effect
  BY <1>23 DEF Commit, PutDown, Goto, Released
<1>24. ASSUME NEW w \in Workers, BeginAttempt(w) PROVE Effect
  BY <1>24 DEF BeginAttempt, OwnedWrite, WriteRow, Goto, Owns
<1>25. ASSUME NEW w \in Workers, AttemptFails(w) PROVE Effect
  BY <1>25 DEF AttemptFails, Step, Goto
<1>26. ASSUME NEW w \in Workers, ReportProgress(w) PROVE Effect
  <2>1. pc[w] \in Busy /\ Owns(w)
    BY <1>26 DEF ReportProgress, OwnedWrite
  <2>2. status[job[w]] \in Leased
    BY <2>1, OwnedIsLeased
  <2>3. QED
    BY <1>26, <2>2 DEF ReportProgress, OwnedWrite, WriteRow, Goto
<1>27. ASSUME NEW w \in Workers, ReportRefused(w) PROVE Effect
  BY <1>27 DEF ReportRefused, Step, Goto
<1>28. ASSUME NEW w \in Workers, CheckCancelled(w) PROVE Effect
  BY <1>28 DEF CheckCancelled, Step, Goto, Cancelled
<1>29. ASSUME NEW w \in Workers, WorkSucceeds(w) PROVE Effect
  BY <1>29 DEF WorkSucceeds, Step, Goto
<1>30. ASSUME NEW w \in Workers, Complete(w) PROVE Effect
  BY <1>30 DEF Complete, OwnedSettle, Settle, WriteRow, Goto, Owns
<1>31. ASSUME NEW w \in Workers, CompleteRefused(w) PROVE Effect
  BY <1>31 DEF CompleteRefused, Step, Goto
<1>32. ASSUME NEW w \in Workers, LookupInWork(w) PROVE Effect
  BY <1>32 DEF LookupInWork, Step, Goto, Cancelled
<1>33. ASSUME NEW w \in Workers, Retry(w) PROVE Effect
  <2>1. pc[w] \in Busy /\ Owns(w)
    BY <1>33 DEF Retry, OwnedWrite
  <2>2. status[job[w]] \in Leased
    BY <2>1, OwnedIsLeased
  <2>3. QED
    BY <1>33, <2>2 DEF Retry, OwnedWrite, WriteRow, Goto
<1>34. ASSUME NEW w \in Workers, RetryRefused(w) PROVE Effect
  BY <1>34 DEF RetryRefused, Step, Goto
<1>35. ASSUME NEW w \in Workers, LastCheck(w) PROVE Effect
  BY <1>35 DEF LastCheck, Step, Goto, Cancelled
<1>36. ASSUME NEW w \in Workers, PublishDeadLetter(w) PROVE Effect
  BY <1>36 DEF PublishDeadLetter, Goto
<1>37. ASSUME NEW w \in Workers, DeadLetterUnconfirmed(w) PROVE Effect
  BY <1>37 DEF DeadLetterUnconfirmed, Exit, PutDown, Goto, Released, Fault
<1>38. ASSUME NEW w \in Workers, FailJob(w) PROVE Effect
  BY <1>38 DEF FailJob, OwnedSettle, Settle, WriteRow, Goto, Owns
<1>39. ASSUME NEW w \in Workers, FailRefused(w) PROVE Effect
  BY <1>39 DEF FailRefused, Step, Goto
<1>40. ASSUME NEW w \in Workers, LookupInHandler(w) PROVE Effect
  BY <1>40 DEF LookupInHandler, Step, Goto, Cancelled
<1>41. ASSUME NEW w \in Workers, DieInHandler(w) PROVE Effect
  BY <1>41 DEF DieInHandler, Exit, PutDown, Goto, Released
<1>42. CASE UNCHANGED vars
  BY <1>42
<1> HIDE DEF Effect
<1>43. QED
  BY <1>1, <1>2, <1>3, <1>4, <1>5, <1>6, <1>7, <1>8, <1>9, <1>10, <1>11,
   <1>12, <1>13, <1>14, <1>15, <1>16, <1>17, <1>18, <1>19, <1>20, <1>21,
   <1>22, <1>23, <1>24, <1>25, <1>26, <1>27, <1>28, <1>29, <1>30, <1>31,
   <1>32, <1>33, <1>34, <1>35, <1>36, <1>37, <1>38, <1>39, <1>40, <1>41,
   <1>42 DEF Next, Backend, Environment, Session, Attempts


-----------------------------------------------------------------------------
LEMMA BudgetStep ==
    ASSUME TypeInv, TypeInv', BudgetInv, [Next]_vars, RowInv
    PROVE  BudgetInv'
<1>1. ASSUME NEW w \in Workers
      PROVE  /\ pc'[w] \in Running => attempt'[w] >= 1
             /\ pc'[w] = "handlerLookup" => ~Owns(w)'
  <2>1. HandlerEffect(w)
    BY AttemptsStepEffect DEF BudgetInv
  <2>2. QED
    BY <2>1 DEF HandlerEffect, BudgetInv, HandlerInv, Owns, TypeInv, TypeOK
<1>2. ASSUME NEW j \in Jobs PROVE Budget(j)'
  <2> DEFINE bound == MaxAttempts * faults
  <2>1. AttemptEffect(j) /\ Budget(j)
    BY AttemptsStepEffect DEF BudgetInv
  <2>2. /\ bound \in Nat /\ attempts[j] \in Nat /\ attempts'[j] \in Nat
        /\ MaxAttempts \in Nat /\ faults \in Nat
        /\ \A w \in Workers : attempt[w] \in 0..MaxAttempts
    BY LimitsAssumption DEF TypeInv, TypeOK
  <2>3. CASE faults' = faults + 1 /\ attempts'[j] = attempts[j]
    <3>1. bound' = bound + MaxAttempts
      BY <2>2, <2>3
    <3>2. attempts[j] <= bound + MaxAttempts
      BY <2>1 DEF Budget
    <3>3. attempts'[j] <= bound' /\ attempts'[j] <= bound' + MaxAttempts
      BY <2>2, <2>3, <3>1, <3>2
    <3>4. QED
      BY <2>1, <2>3, <3>3 DEF Budget, AttemptEffect
  <2>4. CASE faults' = faults /\ Begun(j)
    <3>1. PICK w \in Workers : /\ Works(w, j) /\ pc[w] = "begin"
                               /\ Works(w, j)' /\ pc'[w] # "begin"
                               /\ attempt'[w] = attempt[w]
      BY <2>4 DEF Begun
    <3>2. attempt[w] >= 1 /\ attempt[w] <= MaxAttempts
      BY <2>2, <3>1 DEF BudgetInv, HandlerInv, Works
    <3>3. \A v \in Workers : Works(v, j) => v = w
      BY <3>1 DEF Works
    <3>4. attempts[j] <= bound \/ attempts[j] + 1 <= bound + attempt[w]
      BY <2>1, <2>4, <3>1, <3>3 DEF Budget, Begun, Paid
    <3>5. attempts'[j] <= bound + attempt[w]
      BY <2>2, <2>4, <3>2, <3>4 DEF Begun
    <3>6. bound' = bound
      BY <2>4
    <3>7. Paid(w, j)' /\ attempts'[j] <= bound' + MaxAttempts
      BY <2>2, <3>1, <3>2, <3>5, <3>6 DEF Paid
    <3>8. QED
      BY <2>4, <3>1, <3>7 DEF Budget, Begun, New, Leased
  <2>5. CASE faults' = faults /\ attempts'[j] = attempts[j]
    <3>1. bound' = bound /\ attempts[j] <= bound + MaxAttempts
      BY <2>1, <2>5 DEF Budget
    <3>2. CASE attempts[j] <= bound
      BY <2>1, <2>2, <2>5, <3>1, <3>2 DEF Budget, AttemptEffect
    <3>3. CASE status'[j] \notin Leased
      BY <2>1, <2>5, <3>1, <3>3 DEF Budget, AttemptEffect
    <3>4. CASE ~(attempts[j] <= bound) /\ Kept(j)
      <4>1. lease[j] = "fresh" /\ \E w \in Workers : Works(w, j) /\ Paid(w, j)
        BY <2>1, <3>4 DEF Budget, Kept
      <4>2. PICK w \in Workers : Works(w, j) /\ Paid(w, j)
        BY <4>1
      <4>3. /\ Works(w, j)' /\ lease'[j] = "fresh"
            /\ \/ attempt'[w] = attempt[w] /\ (pc'[w] = "begin" => pc[w] = "begin")
               \/ attempt'[w] = attempt[w] + 1
        BY <3>4, <4>1, <4>2 DEF Kept
      <4>4. Paid(w, j)'
        BY <2>2, <2>5, <3>1, <4>2, <4>3 DEF Paid
      <4>5. QED
        BY <2>1, <2>5, <3>1, <4>3, <4>4 DEF Budget, AttemptEffect
    <3>5. status[j] = "PENDING" => attempts[j] <= bound
      BY <2>1, <2>2 DEF Budget, New
    <3>6. /\ status[j] \in Leased
          /\ lease[j] # "fresh" \/ \A w \in Workers : ~Works(w, j)
          => attempts[j] <= bound
      BY <2>1 DEF Budget
    <3>7. CASE faults' = faults + 1
      BY <2>3, <2>5, <3>7
    <3>8. QED
      BY <2>1, <3>2, <3>3, <3>4, <3>5, <3>6, <3>7, <2>4, <2>5 DEF AttemptEffect
  <2>6. QED
    BY <2>1, <2>3, <2>4, <2>5 DEF AttemptEffect
<1>3. QED
  BY <1>1, <1>2 DEF BudgetInv, HandlerInv

LEMMA BudgetCorrect == Spec => []BudgetInv
<1>1. Init => BudgetInv
  BY LimitsAssumption DEF Init, BudgetInv, HandlerInv, Budget, New, Running, Leased
<1>2. QED
  BY <1>1, BudgetStep, TypeInvCorrect, RowInvCorrect, PTL DEF Spec

\* However often a job is delivered, claimed and started again, each fault buys
\* it MaxAttempts attempts at most (begin_job_attempt, _run_attempts).
THEOREM AttemptsAreBounded == Spec => []AttemptsBounded
<1>1. TypeInv /\ BudgetInv => AttemptsBounded
  <2> SUFFICES ASSUME TypeInv, BudgetInv, NEW j \in Jobs
               PROVE  attempts[j] <= MaxAttempts * (1 + faults)
    BY DEF AttemptsBounded
  <2>1. attempts[j] <= MaxAttempts * faults + MaxAttempts
    BY DEF BudgetInv, Budget
  <2>2. MaxAttempts * (1 + faults) = MaxAttempts * faults + MaxAttempts
    BY LimitsAssumption DEF TypeInv, TypeOK
  <2>3. QED
    BY <2>1, <2>2
<1>2. QED
  BY <1>1, BudgetCorrect, TypeInvCorrect, PTL

-----------------------------------------------------------------------------
(* JobProcessing implements JobLifecycle.                                   *)

\* The refinement mapping of ImplementsLifecycle.
queued == {j \in Jobs : Queued(j)}

\* A row that is marked for removal is settled: RemoveRow looks at the mark.
DeletedInv == \A j \in ownerDeleted : Settled(j)

-----------------------------------------------------------------------------
(* What one step may do to the statuses, the outbox, the topic and the      *)
(* committed offsets, of which the mapping is made.                         *)

Submits ==
    /\ UNCHANGED <<log, committed>>
    /\ \E j \in Jobs : /\ status[j] = "ABSENT"
                       /\ status' = [status EXCEPT ![j] = "PENDING"]
                       /\ createdOutbox' = createdOutbox \cup {j}

Sends ==
    /\ UNCHANGED <<status, committed>>
    /\ \E j \in createdOutbox :
          /\ log' = [log EXCEPT ![PartitionOf[j]] = Append(@, j)]
          /\ createdOutbox' \in {createdOutbox, createdOutbox \ {j}}

Commits ==
    /\ UNCHANGED <<status, createdOutbox, log>>
    /\ \E w \in Workers : LET p == PartitionOf[job[w]] IN
          /\ pc[w] = "done"
          /\ owner[p] = w
          /\ committed' = [committed EXCEPT ![p] = offset[w]]

Writes ==
    \/ \E j \in Jobs : /\ status[j] \in Active
                       /\ status' = [status EXCEPT ![j] = "PROCESSING"]
    \/ \E j \in Jobs, s \in {"RETRYING", "COMPLETED", "FAILED"} :
          status[j] \in Leased /\ status' = [status EXCEPT ![j] = s]
    \/ \E j \in Jobs : Settled(j) /\ status' = [status EXCEPT ![j] = "REMOVED"]

Cancels ==
    \E S \in SUBSET Jobs :
        /\ \A j \in S : status[j] \in Active
        /\ status' = [j \in Jobs |-> IF j \in S THEN "CANCELLED" ELSE status[j]]

PipelineEffect ==
    /\ \A j \in ownerDeleted' : j \in ownerDeleted \/ Settled(j)'
    /\ \/ Submits \/ Sends \/ Commits
       \/ /\ UNCHANGED <<createdOutbox, log, committed>>
          /\ UNCHANGED status \/ Writes \/ Cancels

LEMMA PipelineStepEffect ==
    ASSUME TypeInv, RowInv, DeletedInv, [Next]_vars
    PROVE  PipelineEffect
<1> DEFINE Pipeline == PipelineEffect
<1> SUFFICES Pipeline
  OBVIOUS
<1> USE JobsAssumption DEF TypeInv, TypeOK, DeletedInv
<1> USE DEF vars, rowVars, topicVars, groupVars, localVars, faultVars,
   PipelineEffect, Submits, Sends, Commits, Writes, Cancels,
   Settled, Statuses, Active, Leased, Terminal, Locations, Busy, Running
<1>1. ASSUME NEW j \in Jobs, CreateJob(j) PROVE Pipeline
  BY <1>1 DEF CreateJob
<1>2. ASSUME NEW j \in Jobs, CancelJob(j) PROVE Pipeline
  <2>1. /\ \A k \in {j} : status[k] \in Active
        /\ status' = [k \in Jobs |-> IF k \in {j} THEN "CANCELLED" ELSE status[k]]
    BY <1>2 DEF CancelJob, Settle, WriteRow
  <2>2. Cancels
    <3>1. {j} \in SUBSET Jobs
      OBVIOUS
    <3>2. QED
      BY <2>1, <3>1 DEF Cancels
  <2>3. UNCHANGED <<createdOutbox, log, committed, ownerDeleted>>
    BY <1>2 DEF CancelJob, Settle
  <2>4. QED
    BY <2>2, <2>3
<1>3. ASSUME NEW j \in Jobs, RemoveRow(j) PROVE Pipeline
  BY <1>3 DEF RemoveRow
<1>4. ASSUME NEW j \in Jobs, PublishCreated(j) PROVE Pipeline
  BY <1>4 DEF PublishCreated, SendCreated
<1>5. ASSUME NEW j \in Jobs, PublishCreatedAgain(j) PROVE Pipeline
  BY <1>5 DEF PublishCreatedAgain, SendCreated, Fault
<1>6. ASSUME NEW j \in Jobs, PublishStatus(j) PROVE Pipeline
  BY <1>6 DEF PublishStatus
<1>7. ASSUME NEW o \in Owners, DeleteAccount(o) PROVE Pipeline
  <2> DEFINE owned == {j \in Jobs : OwnerOf[j] = o /\ status[j] \notin {"ABSENT", "REMOVED"}}
             cancelled == {j \in owned : status[j] \in Active}
  <2>1. /\ \A j \in cancelled : status[j] \in Active
        /\ status' = [j \in Jobs |-> IF j \in cancelled THEN "CANCELLED" ELSE status[j]]
    BY <1>7 DEF DeleteAccount
  <2>2. cancelled \in SUBSET Jobs
    OBVIOUS
  <2>3. Cancels
    BY <2>1, <2>2 DEF Cancels
  <2>4. ownerDeleted' = ownerDeleted \cup owned /\ UNCHANGED <<createdOutbox, log, committed>>
    BY <1>7 DEF DeleteAccount
  <2>5. \A j \in owned : Settled(j)'
    BY <2>1
  <2>6. QED
    BY <2>3, <2>4, <2>5
<1>8. ASSUME NEW j \in Jobs, LeaseExpires(j) PROVE Pipeline
  BY <1>8 DEF LeaseExpires
<1>9. ASSUME NEW j \in Jobs, LeaseSlips(j) PROVE Pipeline
  BY <1>9 DEF LeaseSlips, Fault
<1>10. ASSUME NEW p \in Partitions, LosePartition(p) PROVE Pipeline
  BY <1>10 DEF LosePartition, Fault
<1>11. ASSUME NEW p \in Partitions, NEW w \in Workers, AssignPartition(p, w)
     PROVE  Pipeline
  BY <1>11 DEF AssignPartition
<1>12. ASSUME NEW w \in Workers, Crash(w) PROVE Pipeline
  BY <1>12 DEF Crash, Exit, PutDown, Goto, Released, Fault
<1>13. ASSUME NEW w \in Workers, RequestShutdown(w) PROVE Pipeline
  BY <1>13 DEF RequestShutdown, Fault
<1>14. ASSUME NEW w \in Workers, Restart(w) PROVE Pipeline
  BY <1>14 DEF Restart, Goto
<1>15. ASSUME NEW w \in Workers, StopPolling(w) PROVE Pipeline
  BY <1>15 DEF StopPolling, Exit, PutDown, Goto, Released
<1>16. ASSUME NEW w \in Workers, NEW p \in Partitions, Poll(w, p)
     PROVE  Pipeline
  BY <1>16 DEF Poll, Goto
<1>17. ASSUME NEW w \in Workers, ClaimJob(w) PROVE Pipeline
  BY <1>17 DEF ClaimJob, Claimable, WriteRow, Goto
<1>18. ASSUME NEW w \in Workers, ClaimRefused(w) PROVE Pipeline
  BY <1>18 DEF ClaimRefused, Goto
<1>19. ASSUME NEW w \in Workers, AbandonMessage(w) PROVE Pipeline
  BY <1>19 DEF AbandonMessage, Exit, PutDown, Goto, Released
<1>20. ASSUME NEW w \in Workers, SkipMessage(w) PROVE Pipeline
  BY <1>20 DEF SkipMessage, Goto
<1>21. ASSUME NEW w \in Workers, StartAttempts(w) PROVE Pipeline
  BY <1>21 DEF StartAttempts, Goto
<1>22. ASSUME NEW w \in Workers, RefreshLease(w) PROVE Pipeline
  BY <1>22 DEF RefreshLease
<1>23. ASSUME NEW w \in Workers, Commit(w) PROVE Pipeline
  BY <1>23 DEF Commit, PutDown, Goto, Released
<1>24. ASSUME NEW w \in Workers, BeginAttempt(w) PROVE Pipeline
  BY <1>24 DEF BeginAttempt, OwnedWrite, WriteRow, Goto, Owns
<1>25. ASSUME NEW w \in Workers, AttemptFails(w) PROVE Pipeline
  BY <1>25 DEF AttemptFails, Step, Goto
<1>26. ASSUME NEW w \in Workers, ReportProgress(w) PROVE Pipeline
  <2>1. pc[w] \in Busy /\ Owns(w)
    BY <1>26 DEF ReportProgress, OwnedWrite
  <2>2. status[job[w]] \in Leased
    BY <2>1, OwnedIsLeased
  <2>3. QED
    BY <1>26, <2>2 DEF ReportProgress, OwnedWrite, WriteRow, Goto, Owns
<1>27. ASSUME NEW w \in Workers, ReportRefused(w) PROVE Pipeline
  BY <1>27 DEF ReportRefused, Step, Goto
<1>28. ASSUME NEW w \in Workers, CheckCancelled(w) PROVE Pipeline
  BY <1>28 DEF CheckCancelled, Step, Goto, Cancelled
<1>29. ASSUME NEW w \in Workers, WorkSucceeds(w) PROVE Pipeline
  BY <1>29 DEF WorkSucceeds, Step, Goto
<1>30. ASSUME NEW w \in Workers, Complete(w) PROVE Pipeline
  <2>1. pc[w] \in Busy /\ Owns(w)
    BY <1>30 DEF Complete, OwnedSettle
  <2>2. status[job[w]] \in Leased
    BY <2>1, OwnedIsLeased
  <2>3. QED
    BY <1>30, <2>2 DEF Complete, OwnedSettle, Settle, WriteRow, Goto
<1>31. ASSUME NEW w \in Workers, CompleteRefused(w) PROVE Pipeline
  BY <1>31 DEF CompleteRefused, Step, Goto
<1>32. ASSUME NEW w \in Workers, LookupInWork(w) PROVE Pipeline
  BY <1>32 DEF LookupInWork, Step, Goto, Cancelled
<1>33. ASSUME NEW w \in Workers, Retry(w) PROVE Pipeline
  <2>1. pc[w] \in Busy /\ Owns(w)
    BY <1>33 DEF Retry, OwnedWrite
  <2>2. status[job[w]] \in Leased
    BY <2>1, OwnedIsLeased
  <2>3. QED
    BY <1>33, <2>2 DEF Retry, OwnedWrite, WriteRow, Goto, Owns
<1>34. ASSUME NEW w \in Workers, RetryRefused(w) PROVE Pipeline
  BY <1>34 DEF RetryRefused, Step, Goto
<1>35. ASSUME NEW w \in Workers, LastCheck(w) PROVE Pipeline
  BY <1>35 DEF LastCheck, Step, Goto, Cancelled
<1>36. ASSUME NEW w \in Workers, PublishDeadLetter(w) PROVE Pipeline
  BY <1>36 DEF PublishDeadLetter, Goto
<1>37. ASSUME NEW w \in Workers, DeadLetterUnconfirmed(w) PROVE Pipeline
  BY <1>37 DEF DeadLetterUnconfirmed, Exit, PutDown, Goto, Released, Fault
<1>38. ASSUME NEW w \in Workers, FailJob(w) PROVE Pipeline
  <2>1. pc[w] \in Busy /\ Owns(w)
    BY <1>38 DEF FailJob, OwnedSettle
  <2>2. status[job[w]] \in Leased
    BY <2>1, OwnedIsLeased
  <2>3. QED
    BY <1>38, <2>2 DEF FailJob, OwnedSettle, Settle, WriteRow, Goto
<1>39. ASSUME NEW w \in Workers, FailRefused(w) PROVE Pipeline
  BY <1>39 DEF FailRefused, Step, Goto
<1>40. ASSUME NEW w \in Workers, LookupInHandler(w) PROVE Pipeline
  BY <1>40 DEF LookupInHandler, Step, Goto, Cancelled
<1>41. ASSUME NEW w \in Workers, DieInHandler(w) PROVE Pipeline
  BY <1>41 DEF DieInHandler, Exit, PutDown, Goto, Released
<1>42. CASE UNCHANGED vars
  BY <1>42
<1> HIDE DEF Pipeline
<1>43. QED
  BY <1>1, <1>2, <1>3, <1>4, <1>5, <1>6, <1>7, <1>8, <1>9, <1>10, <1>11,
   <1>12, <1>13, <1>14, <1>15, <1>16, <1>17, <1>18, <1>19, <1>20, <1>21,
   <1>22, <1>23, <1>24, <1>25, <1>26, <1>27, <1>28, <1>29, <1>30, <1>31,
   <1>32, <1>33, <1>34, <1>35, <1>36, <1>37, <1>38, <1>39, <1>40, <1>41,
   <1>42 DEF Next, Backend, Environment, Session, Attempts


-----------------------------------------------------------------------------
(* The mapping.                                                             *)

RefInv == TypeInv /\ RowInv /\ QueueInv /\ NoLostJob /\ DeletedInv

\* Sending moves a job from the outbox to the topic, and above the offset.
LEMMA SendKeepsQueued ==
    ASSUME TypeInv, QueueInv, Sends
    PROVE  UNCHANGED <<status, queued>>
<1>1. PICK k \in createdOutbox :
         /\ log' = [log EXCEPT ![PartitionOf[k]] = Append(@, k)]
         /\ createdOutbox' \in {createdOutbox, createdOutbox \ {k}}
  BY DEF Sends
<1>2. k \in Jobs
  BY DEF TypeInv, TypeOK
<1>3. ASSUME NEW j \in Jobs PROVE Queued(j)' <=> Queued(j)
  <2> DEFINE p == PartitionOf[j]
  <2>1. /\ p \in Partitions /\ PartitionOf[k] \in Partitions
        /\ log[p] \in Seq(Jobs)
        /\ committed[p] \in Nat /\ committed[p] <= Len(log[p])
        /\ committed' = committed
    BY <1>2, JobsAssumption DEF TypeInv, TypeOK, QueueInv, LogInv, Sends
  <2>2. CASE j = k
    <3>1. log'[p] = Append(log[p], j)
      BY <1>1, <2>1, <2>2 DEF TypeInv, TypeOK
    <3>2. /\ Len(log[p]) + 1 \in DOMAIN log'[p]
          /\ log'[p][Len(log[p]) + 1] = j
          /\ Len(log[p]) + 1 > committed'[p]
      BY <2>1, <3>1
    <3>3. Queued(j) /\ Queued(j)'
      BY <1>1, <2>2, <3>2 DEF Queued
    <3>4. QED
      BY <3>3
  <2>3. CASE j # k
    <3>1. j \in createdOutbox' <=> j \in createdOutbox
      BY <1>1, <2>3
    <3>2. log'[p] = log[p] \/ log'[p] = Append(log[p], k)
      BY <1>1, <1>2, <2>1 DEF TypeInv, TypeOK
    <3>3. \A i : i \in DOMAIN log'[p] /\ log'[p][i] = j
                 <=> i \in DOMAIN log[p] /\ log[p][i] = j
      BY <1>2, <2>1, <2>3, <3>2
    <3>4. QED
      BY <2>1, <3>1, <3>3 DEF Queued
  <2>4. QED
    BY <2>2, <2>3
<1>4. QED
  BY <1>3 DEF queued, Sends

\* A commit passes the one message its worker holds, whose job is settled.
LEMMA CommitForgets ==
    ASSUME TypeInv, QueueInv, Commits
    PROVE  /\ UNCHANGED status
           /\ \/ UNCHANGED queued
              \/ \E j \in Jobs : Settled(j) /\ queued' = queued \ {j}
<1>1. PICK w \in Workers :
         /\ pc[w] = "done"
         /\ owner[PartitionOf[job[w]]] = w
         /\ committed' = [committed EXCEPT ![PartitionOf[job[w]]] = offset[w]]
  BY DEF Commits
<1> DEFINE k == job[w]
           q == PartitionOf[k]
<1>2. /\ k \in Jobs /\ q \in Partitions
      /\ offset[w] = committed[q] + 1
      /\ log[q][offset[w]] = k
      /\ Settled(k)
  BY <1>1, JobsAssumption DEF TypeInv, TypeOK, QueueInv, HeldInv, Busy
<1>3. ASSUME NEW j \in Jobs PROVE Queued(j)' => Queued(j)
  <2>1. /\ PartitionOf[j] \in Partitions
        /\ committed[PartitionOf[j]] \in Nat
        /\ committed'[PartitionOf[j]] \in {committed[PartitionOf[j]], committed[PartitionOf[j]] + 1}
        /\ UNCHANGED <<createdOutbox, log>>
        /\ log[PartitionOf[j]] \in Seq(Jobs)
    BY <1>1, <1>2, JobsAssumption DEF TypeInv, TypeOK, Commits
  <2>2. QED
    BY <2>1 DEF Queued
<1>4. ASSUME NEW j \in Jobs, j # k, Queued(j) PROVE Queued(j)'
  <2> DEFINE p == PartitionOf[j]
  <2>1. /\ p \in Partitions /\ committed[p] \in Nat /\ log[p] \in Seq(Jobs)
        /\ UNCHANGED <<createdOutbox, log>>
    BY JobsAssumption DEF TypeInv, TypeOK, Commits
  <2>2. CASE j \in createdOutbox
    BY <2>1, <2>2 DEF Queued
  <2>3. CASE j \notin createdOutbox
    <3>1. PICK i \in DOMAIN log[p] : i > committed[p] /\ log[p][i] = j
      BY <1>4, <2>3 DEF Queued
    <3>2. i > committed'[p]
      <4>1. CASE p = q
        <5>1. committed'[p] = committed[p] + 1
          BY <1>1, <1>2, <2>1, <4>1 DEF TypeInv, TypeOK
        <5>2. i # committed[p] + 1
          BY <1>2, <1>4, <3>1, <4>1
        <5>3. QED
          BY <2>1, <3>1, <5>1, <5>2
      <4>2. CASE p # q
        BY <1>1, <1>2, <2>1, <3>1, <4>2 DEF TypeInv, TypeOK
      <4>3. QED
        BY <4>1, <4>2
    <3>3. QED
      BY <2>1, <3>1, <3>2 DEF Queued
  <2>4. QED
    BY <2>2, <2>3
<1>5. queued' = queued \/ queued' = queued \ {k}
  <2>1. CASE Queued(k) => Queued(k)'
    BY <1>3, <1>4, <2>1 DEF queued
  <2>2. CASE ~Queued(k)'
    BY <1>3, <1>4, <2>2 DEF queued
  <2>3. QED
    BY <2>1, <2>2
<1>6. QED
  BY <1>2, <1>5 DEF Commits

LEMMA StepImplements ==
    ASSUME RefInv, [Next]_vars
    PROVE  [Lifecycle!Next]_(Lifecycle!vars)
<1> USE DEF RefInv
<1>1. PipelineEffect
  BY PipelineStepEffect
<1>2. \A j \in Jobs : status[j] \in Active => j \in queued
  BY DEF NoLostJob, queued
<1>3. UNCHANGED <<createdOutbox, log, committed>> => UNCHANGED queued
  BY DEF queued, Queued
<1>4. CASE Submits
  <2>1. PICK j \in Jobs : /\ status[j] = "ABSENT"
                          /\ status' = [status EXCEPT ![j] = "PENDING"]
                          /\ createdOutbox' = createdOutbox \cup {j}
    BY <1>4 DEF Submits
  <2>2. queued' = queued \cup {j}
    <3>1. UNCHANGED <<log, committed>>
      BY <1>4 DEF Submits
    <3>2. \A i \in Jobs : Queued(i)' <=> Queued(i) \/ i = j
      BY <2>1, <3>1 DEF Queued
    <3>3. QED
      BY <3>2 DEF queued
  <2>3. QED
    BY <2>1, <2>2 DEF Lifecycle!Next, Lifecycle!Submit, queued
<1>5. CASE Sends
  BY <1>5, SendKeepsQueued DEF Lifecycle!vars, queued
<1>6. CASE Commits
  <2>1. CASE UNCHANGED <<status, queued>>
    BY <2>1 DEF Lifecycle!vars, queued
  <2>2. CASE UNCHANGED status /\ \E j \in Jobs : Settled(j) /\ queued' = queued \ {j}
    BY <2>2 DEF Lifecycle!Next, Lifecycle!Forget, Lifecycle!Settled, Settled, Terminal, queued
  <2>3. QED
    BY <1>6, <2>1, <2>2, CommitForgets
<1>7. CASE UNCHANGED <<status, queued>>
  BY <1>7 DEF Lifecycle!vars, queued
<1>8. CASE UNCHANGED queued /\ Writes
  <2> USE DEF Active, Leased
  <2>1. CASE \E j \in Jobs : /\ status[j] \in Active
                             /\ status' = [status EXCEPT ![j] = "PROCESSING"]
    BY <1>2, <1>8, <2>1
       DEF Lifecycle!Next, Lifecycle!Start, Lifecycle!Move, Lifecycle!Active, queued
  <2>2. CASE \E j \in Jobs, s \in {"RETRYING", "COMPLETED", "FAILED"} :
                 status[j] \in Leased /\ status' = [status EXCEPT ![j] = s]
    BY <1>2, <1>8, <2>2
       DEF Lifecycle!Next, Lifecycle!Retry, Lifecycle!Finish, Lifecycle!Move, queued
  <2>3. CASE \E j \in Jobs : Settled(j) /\ status' = [status EXCEPT ![j] = "REMOVED"]
    BY <1>8, <2>3 DEF Lifecycle!Next, Lifecycle!Remove, Lifecycle!Move,
                     Lifecycle!Settled, Settled, Terminal, queued
  <2>4. QED
    BY <1>8, <2>1, <2>2, <2>3 DEF Writes
<1>9. CASE UNCHANGED queued /\ Cancels
  BY <1>9 DEF Cancels, Lifecycle!Next, Lifecycle!Cancel, Lifecycle!Active, Active,
              Leased, queued
<1>10. QED
  BY <1>1, <1>3, <1>4, <1>5, <1>6, <1>7, <1>8, <1>9 DEF PipelineEffect

LEMMA DeletedInvCorrect == Spec => []DeletedInv
<1>1. Init => DeletedInv
  BY DEF Init, DeletedInv
<1>2. TypeInv /\ RowInv /\ DeletedInv /\ [Next]_vars => DeletedInv'
  <2> SUFFICES ASSUME TypeInv, RowInv, DeletedInv, [Next]_vars PROVE DeletedInv'
    OBVIOUS
  <2>1. \A j \in ownerDeleted' : j \in ownerDeleted \/ Settled(j)'
    BY PipelineStepEffect DEF PipelineEffect
  <2>2. \A j \in ownerDeleted : j \in Jobs /\ Settled(j)
    BY DEF TypeInv, TypeOK, DeletedInv
  <2>3. \A j \in Jobs : Settled(j) => Settled(j)'
    BY SettledStays DEF Settled
  <2>4. QED
    BY <2>1, <2>2, <2>3 DEF DeletedInv
<1>3. QED
  BY <1>1, <1>2, TypeInvCorrect, RowInvCorrect, PTL DEF Spec

\* Whatever workers, consumer group and outbox do is a step of the life of a
\* job: a queued job is started, tried again, finished, cancelled or removed,
\* and leaves the queue only when it is settled.
THEOREM PipelineImplementsLifecycle == Spec => ImplementsLifecycle
<1>1. Init => Lifecycle!Init
  BY JobsAssumption DEF Init, Lifecycle!Init, Queued
<1>2. RefInv /\ [Next]_vars => [Lifecycle!Next]_(Lifecycle!vars)
  BY StepImplements
<1>3. QED
  BY <1>1, <1>2, TypeInvCorrect, RowInvCorrect, QueueInvCorrect, JobsAreNotLost,
     DeletedInvCorrect, PTL
     DEF Spec, RefInv, ImplementsLifecycle, Lifecycle!Spec

=============================================================================

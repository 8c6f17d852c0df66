---------------------------- MODULE Worker_proofs ----------------------------
(***************************************************************************)
(* What a worker keeps beside its job. The child: for any number of stems, *)
(* attempts and failed calls, a job completes with whole stems of its own  *)
(* attempt unless an earlier child was left behind, and a cancellation     *)
(* that is noticed leaves none behind. Its row in the registry: for any    *)
(* set of workers and any number of faults, the rows are well formed and   *)
(* say what the workers do.                                                *)
(*                                                                         *)
(* The two models share nothing. The behaviour of the registry is that of  *)
(* the instance W, whose state and promises are those of WorkerRegistry.   *)
(***************************************************************************)
EXTENDS DemucsProcess, WorkerRegistry, TLAPS

W == INSTANCE WorkerPresence

USE DemucsAssumption, PresenceAssumption

Uploads == {"upload", "report", "complete"}

\* A child has done nothing before it is started, saves each stem once and exits
\* with all of them.
ChildInv ==
    \A a \in AllAttempts :
        /\ a > attempt \/ (a = attempt /\ pc \in {"start", "spawn"})
              => child[a] = "none" /\ ~made[a] /\ saved[a] = {} /\ writing[a] = Absent
        /\ child[a] = "exited" => saved[a] = Stems
        /\ writing[a] \notin saved[a]
        /\ writing[a] # Absent => made[a]

\* What a parent that no longer watches its child knows of it.
ParentInv ==
    /\ pc \in {"drain"} \cup Uploads => child[attempt] # "running"
    /\ pc \in Uploads => child[attempt] = "exited"
    /\ pc = "complete" => listed = {}
    /\ completed => pc = "ended"

\* An earlier child that runs was running when this attempt began.
StraysInv ==
    pc # "start" =>
        \A a \in AllAttempts : a < attempt /\ child[a] = "running" => a \in strays

\* No earlier child that was left running has an output directory to write into.
Alone == \A a \in strays : ~made[a]

Whole(a)   == [by |-> a, whole |-> TRUE]
Partial(a) == [by |-> a, whole |-> FALSE]

\* The files are as the child of this attempt left them.
FilesInv ==
    Alone /\ pc \in {"watch", "check", "drain"} \cup Uploads =>
        \A s \in Stems : /\ s \in saved[attempt] => file[s] = Whole(attempt)
                         /\ writing[attempt] = s => file[s] = Partial(attempt)

\* A stem is to be uploaded, or was when it was whole.
UploadsInv ==
    Alone => /\ pc \in Uploads =>
                   \A s \in Stems : s \in listed \/ uploaded[s] = Whole(attempt)
             /\ completed => \A s \in Stems : uploaded[s] = Whole(attempt)

LEMMA WholeOncePartial == \A a : [Partial(a) EXCEPT !.whole = TRUE] = Whole(a)
<1>1. ASSUME NEW a, NEW b, NEW c
      PROVE  [[by |-> a, whole |-> b] EXCEPT !.whole = c] = [by |-> a, whole |-> c]
  OBVIOUS
<1>2. QED
  BY <1>1 DEF Partial, Whole

Inv == TypeOK /\ ChildInv /\ ParentInv /\ StraysInv /\ FilesInv /\ UploadsInv

LEMMA TypeStep == Inv /\ [Next]_vars => TypeOK'
<1> SUFFICES ASSUME Inv, [Next]_vars PROVE TypeOK'
  OBVIOUS
<1> TypeOK /\ ChildInv /\ ParentInv /\ StraysInv /\ FilesInv /\ UploadsInv
  BY DEF Inv
<1>1. ASSUME CancelRow PROVE TypeOK'
  BY <1>1 DEF CancelRow, parentVars, childVars, fileVars, TypeOK
<1>2. ASSUME LoseRow PROVE TypeOK'
  BY <1>2 DEF LoseRow, parentVars, childVars, fileVars, TypeOK
<1>3. ASSUME StartAttempt PROVE TypeOK'
  BY <1>3 DEF StartAttempt, Move, Goto, childVars, TypeOK, NoFiles
<1>4. ASSUME Spawn PROVE TypeOK'
  BY <1>4 DEF Spawn, Move, At, Goto, fileVars, TypeOK
<1>5. ASSUME Watch PROVE TypeOK'
  BY <1>5 DEF Watch, Move, At, Goto, childVars, fileVars, TypeOK
<1>6. ASSUME CheckCancelled PROVE TypeOK'
  BY <1>6 DEF CheckCancelled, Move, At, Goto, childVars, fileVars, TypeOK
<1>7. ASSUME Drain PROVE TypeOK'
  BY <1>7 DEF Drain, Move, At, Goto, childVars, fileVars, TypeOK, NoFiles
<1>8. ASSUME ReportStem PROVE TypeOK'
  BY <1>8 DEF ReportStem, Move, At, Goto, childVars, fileVars, TypeOK
<1>9. ASSUME Complete PROVE TypeOK'
  BY <1>9 DEF Complete, Goto, childVars, TypeOK, NoFiles
<1>10. ASSUME AfterFailure PROVE TypeOK'
  <2>1. attempt' \in AllAttempts
    BY <1>10 DEF AfterFailure, TypeOK, AllAttempts
  <2>2. /\ file' \in [Stems -> Files \cup {Absent}] /\ dir' \in BOOLEAN
        /\ pc' \in {"start", "ended"}
    BY <1>10 DEF AfterFailure, Goto, fileVars, TypeOK, NoFiles
  <2>3. QED
    BY <1>10, <2>1, <2>2 DEF AfterFailure, childVars, TypeOK
<1>11. ASSUME NEW l \in {"check", "watch"}, StopProcess(l) PROVE TypeOK'
  BY <1>11 DEF StopProcess, Move, At, Goto, TypeOK, NoFiles
<1>12. ASSUME NEW l \in {"spawn", "drain", "report", "complete"}, Cancelled(l)
       PROVE  TypeOK'
  BY <1>12 DEF Cancelled, Move, At, Goto, childVars, TypeOK, NoFiles
<1>13. ASSUME NEW l \in {"spawn", "watch", "check", "drain", "upload", "report",
                         "complete"}, Raises(l)
       PROVE  TypeOK'
  BY <1>13 DEF Raises, Goto, childVars, fileVars, TypeOK
<1>14. ASSUME NEW s \in Stems, UploadStem(s) PROVE TypeOK'
  BY <1>14 DEF UploadStem, Move, At, Goto, childVars, fileVars, TypeOK
<1>15. ASSUME NEW a \in AllAttempts, MakeOutput(a) PROVE TypeOK'
  BY <1>15 DEF MakeOutput, parentVars, TypeOK, Files
<1>16. ASSUME NEW a \in AllAttempts, EndStem(a) PROVE TypeOK'
  <2>1. PICK s \in Stems :
          /\ writing[a] = s /\ s # Absent /\ child[a] = "running"
          /\ writing' = [writing EXCEPT ![a] = Absent]
          /\ saved' = [saved EXCEPT ![a] = saved[a] \cup {s}]
          /\ file' = IF file[s] = Partial(a)
                     THEN [file EXCEPT ![s].whole = TRUE] ELSE file
    BY <1>16 DEF EndStem, TypeOK, Partial
  <2>2. file' = IF file[s] = Partial(a) THEN [file EXCEPT ![s] = Whole(a)] ELSE file
    <3>1. CASE file[s] = Partial(a)
      <4>1. file' = [file EXCEPT ![s] = [Partial(a) EXCEPT !.whole = TRUE]]
        BY <2>1, <3>1 DEF TypeOK
      <4>2. QED
        BY <3>1, <4>1, WholeOncePartial
    <3>2. QED
      BY <2>1, <3>1
  <2>3. UNCHANGED <<row, parentVars, child, made, dir, faults>>
    BY <1>16 DEF EndStem
  <2>4. Whole(a) \in Files
    BY DEF Whole, Files
  <2>5. file' \in [Stems -> Files \cup {Absent}]
    BY <2>2, <2>4 DEF TypeOK
  <2>6. /\ writing' \in [AllAttempts -> Stems \cup {Absent}]
        /\ saved' \in [AllAttempts -> SUBSET Stems]
    BY <2>1 DEF TypeOK
  <2>7. QED
    BY <2>3, <2>5, <2>6 DEF parentVars, TypeOK
<1>17. ASSUME NEW a \in AllAttempts, ChildEnds(a) PROVE TypeOK'
  BY <1>17 DEF ChildEnds, fileVars, parentVars, TypeOK, Files
<1>18. ASSUME NEW a \in AllAttempts, NEW s \in Stems, BeginStem(a, s)
       PROVE  TypeOK'
  BY <1>18 DEF BeginStem, parentVars, TypeOK, Files
<1>19. CASE UNCHANGED vars
  BY <1>19 DEF vars, TypeOK
<1>20. QED
  BY <1>1, <1>2, <1>3, <1>4, <1>5, <1>6, <1>7, <1>8, <1>9, <1>10, <1>11, <1>12,
     <1>13, <1>14, <1>15, <1>16, <1>17, <1>18, <1>19
     DEF Next, Parent, Unprompted, Failures

LEMMA ChildStep == Inv /\ [Next]_vars => ChildInv'
<1> SUFFICES ASSUME Inv, [Next]_vars PROVE ChildInv'
  OBVIOUS
<1> TypeOK /\ ChildInv /\ ParentInv /\ StraysInv /\ FilesInv /\ UploadsInv
  BY DEF Inv
<1>1. ASSUME CancelRow PROVE ChildInv'
  BY <1>1
     DEF CancelRow, parentVars, childVars, fileVars, ChildInv, TypeOK, AllAttempts
<1>2. ASSUME LoseRow PROVE ChildInv'
  BY <1>2
     DEF LoseRow, parentVars, childVars, fileVars, ChildInv, TypeOK, AllAttempts
<1>3. ASSUME StartAttempt PROVE ChildInv'
  BY <1>3 DEF StartAttempt, Move, Goto, childVars, ChildInv, TypeOK, AllAttempts
<1>4. ASSUME Spawn PROVE ChildInv'
  BY <1>4 DEF Spawn, Move, At, Goto, fileVars, ChildInv, TypeOK, AllAttempts
<1>5. ASSUME Watch PROVE ChildInv'
  BY <1>5 DEF Watch, Move, At, Goto, childVars, fileVars, ChildInv, TypeOK, AllAttempts
<1>6. ASSUME CheckCancelled PROVE ChildInv'
  BY <1>6
     DEF CheckCancelled, Move, At, Goto, childVars, fileVars, ChildInv, TypeOK,
         AllAttempts
<1>7. ASSUME Drain PROVE ChildInv'
  BY <1>7 DEF Drain, Move, At, Goto, childVars, fileVars, ChildInv, TypeOK, AllAttempts
<1>8. ASSUME ReportStem PROVE ChildInv'
  BY <1>8
     DEF ReportStem, Move, At, Goto, childVars, fileVars, ChildInv, TypeOK, AllAttempts
<1>9. ASSUME Complete PROVE ChildInv'
  BY <1>9 DEF Complete, Goto, childVars, ChildInv, TypeOK, AllAttempts
<1>10. ASSUME AfterFailure PROVE ChildInv'
  BY <1>10
     DEF AfterFailure, Goto, childVars, fileVars, ChildInv, TypeOK, AllAttempts
<1>11. ASSUME NEW l \in {"check", "watch"}, StopProcess(l) PROVE ChildInv'
  BY <1>11 DEF StopProcess, Move, At, Goto, ChildInv, TypeOK, AllAttempts
<1>12. ASSUME NEW l \in {"spawn", "drain", "report", "complete"}, Cancelled(l)
       PROVE  ChildInv'
  BY <1>12 DEF Cancelled, Move, At, Goto, childVars, ChildInv, TypeOK, AllAttempts
<1>13. ASSUME NEW l \in {"spawn", "watch", "check", "drain", "upload", "report",
                         "complete"}, Raises(l)
       PROVE  ChildInv'
  BY <1>13 DEF Raises, Goto, childVars, fileVars, ChildInv, TypeOK, AllAttempts
<1>14. ASSUME NEW s \in Stems, UploadStem(s) PROVE ChildInv'
  BY <1>14
     DEF UploadStem, Move, At, Goto, childVars, fileVars, ChildInv, TypeOK, AllAttempts
<1>15. ASSUME NEW a \in AllAttempts, MakeOutput(a) PROVE ChildInv'
  BY <1>15 DEF MakeOutput, parentVars, ChildInv, TypeOK, AllAttempts
<1>16. ASSUME NEW a \in AllAttempts, EndStem(a) PROVE ChildInv'
  BY <1>16 DEF EndStem, parentVars, ChildInv, TypeOK, AllAttempts
<1>17. ASSUME NEW a \in AllAttempts, ChildEnds(a) PROVE ChildInv'
  BY <1>17 DEF ChildEnds, fileVars, parentVars, ChildInv, TypeOK, AllAttempts
<1>18. ASSUME NEW a \in AllAttempts, NEW s \in Stems, BeginStem(a, s)
       PROVE  ChildInv'
  BY <1>18 DEF BeginStem, parentVars, ChildInv, TypeOK, AllAttempts
<1>19. CASE UNCHANGED vars
  BY <1>19 DEF vars, ChildInv, TypeOK, AllAttempts
<1>20. QED
  BY <1>1, <1>2, <1>3, <1>4, <1>5, <1>6, <1>7, <1>8, <1>9, <1>10, <1>11, <1>12,
     <1>13, <1>14, <1>15, <1>16, <1>17, <1>18, <1>19
     DEF Next, Parent, Unprompted, Failures

LEMMA ParentStep == Inv /\ [Next]_vars => ParentInv'
<1> SUFFICES ASSUME Inv, [Next]_vars PROVE ParentInv'
  OBVIOUS
<1> TypeOK /\ ChildInv /\ ParentInv /\ StraysInv /\ FilesInv /\ UploadsInv
  BY DEF Inv
<1>1. ASSUME CancelRow PROVE ParentInv'
  BY <1>1 DEF CancelRow, parentVars, childVars, fileVars, ParentInv, TypeOK, Uploads
<1>2. ASSUME LoseRow PROVE ParentInv'
  BY <1>2 DEF LoseRow, parentVars, childVars, fileVars, ParentInv, TypeOK, Uploads
<1>3. ASSUME StartAttempt PROVE ParentInv'
  BY <1>3 DEF StartAttempt, Move, Goto, childVars, ParentInv, TypeOK, Uploads
<1>4. ASSUME Spawn PROVE ParentInv'
  BY <1>4 DEF Spawn, Move, At, Goto, fileVars, ParentInv, TypeOK, Uploads, ChildInv
<1>5. ASSUME Watch PROVE ParentInv'
  BY <1>5 DEF Watch, Move, At, Goto, childVars, fileVars, ParentInv, TypeOK, Uploads
<1>6. ASSUME CheckCancelled PROVE ParentInv'
  BY <1>6
     DEF CheckCancelled, Move, At, Goto, childVars, fileVars, ParentInv, TypeOK, Uploads
<1>7. ASSUME Drain PROVE ParentInv'
  BY <1>7 DEF Drain, Move, At, Goto, childVars, fileVars, ParentInv, TypeOK, Uploads
<1>8. ASSUME ReportStem PROVE ParentInv'
  BY <1>8 DEF ReportStem, Move, At, Goto, childVars, fileVars, ParentInv, TypeOK, Uploads
<1>9. ASSUME Complete PROVE ParentInv'
  BY <1>9 DEF Complete, Goto, childVars, ParentInv, TypeOK, Uploads
<1>10. ASSUME AfterFailure PROVE ParentInv'
  BY <1>10 DEF AfterFailure, Goto, childVars, fileVars, ParentInv, TypeOK, Uploads
<1>11. ASSUME NEW l \in {"check", "watch"}, StopProcess(l) PROVE ParentInv'
  BY <1>11 DEF StopProcess, Move, At, Goto, ParentInv, TypeOK, Uploads
<1>12. ASSUME NEW l \in {"spawn", "drain", "report", "complete"}, Cancelled(l)
       PROVE  ParentInv'
  BY <1>12 DEF Cancelled, Move, At, Goto, childVars, ParentInv, TypeOK, Uploads
<1>13. ASSUME NEW l \in {"spawn", "watch", "check", "drain", "upload", "report",
                         "complete"}, Raises(l)
       PROVE  ParentInv'
  BY <1>13 DEF Raises, Goto, childVars, fileVars, ParentInv, TypeOK, Uploads
<1>14. ASSUME NEW s \in Stems, UploadStem(s) PROVE ParentInv'
  BY <1>14 DEF UploadStem, Move, At, Goto, childVars, fileVars, ParentInv, TypeOK, Uploads
<1>15. ASSUME NEW a \in AllAttempts, MakeOutput(a) PROVE ParentInv'
  BY <1>15 DEF MakeOutput, parentVars, ParentInv, TypeOK, Uploads
<1>16. ASSUME NEW a \in AllAttempts, EndStem(a) PROVE ParentInv'
  BY <1>16 DEF EndStem, parentVars, ParentInv, TypeOK, Uploads
<1>17. ASSUME NEW a \in AllAttempts, ChildEnds(a) PROVE ParentInv'
  BY <1>17 DEF ChildEnds, fileVars, parentVars, ParentInv, TypeOK, Uploads
<1>18. ASSUME NEW a \in AllAttempts, NEW s \in Stems, BeginStem(a, s)
       PROVE  ParentInv'
  BY <1>18 DEF BeginStem, parentVars, ParentInv, TypeOK, Uploads
<1>19. CASE UNCHANGED vars
  BY <1>19 DEF vars, ParentInv, TypeOK, Uploads
<1>20. QED
  BY <1>1, <1>2, <1>3, <1>4, <1>5, <1>6, <1>7, <1>8, <1>9, <1>10, <1>11, <1>12,
     <1>13, <1>14, <1>15, <1>16, <1>17, <1>18, <1>19
     DEF Next, Parent, Unprompted, Failures

LEMMA StraysStep == Inv /\ [Next]_vars => StraysInv'
<1> SUFFICES ASSUME Inv, [Next]_vars PROVE StraysInv'
  OBVIOUS
<1> TypeOK /\ ChildInv /\ ParentInv /\ StraysInv /\ FilesInv /\ UploadsInv
  BY DEF Inv
<1>1. ASSUME CancelRow PROVE StraysInv'
  BY <1>1
     DEF CancelRow, parentVars, childVars, fileVars, StraysInv, TypeOK, AllAttempts
<1>2. ASSUME LoseRow PROVE StraysInv'
  BY <1>2
     DEF LoseRow, parentVars, childVars, fileVars, StraysInv, TypeOK, AllAttempts
<1>3. ASSUME StartAttempt PROVE StraysInv'
  BY <1>3 DEF StartAttempt, Move, Goto, childVars, StraysInv, TypeOK, AllAttempts
<1>4. ASSUME Spawn PROVE StraysInv'
  BY <1>4 DEF Spawn, Move, At, Goto, fileVars, StraysInv, TypeOK, AllAttempts
<1>5. ASSUME Watch PROVE StraysInv'
  BY <1>5 DEF Watch, Move, At, Goto, childVars, fileVars, StraysInv, TypeOK, AllAttempts
<1>6. ASSUME CheckCancelled PROVE StraysInv'
  BY <1>6
     DEF CheckCancelled, Move, At, Goto, childVars, fileVars, StraysInv, TypeOK,
         AllAttempts
<1>7. ASSUME Drain PROVE StraysInv'
  BY <1>7 DEF Drain, Move, At, Goto, childVars, fileVars, StraysInv, TypeOK, AllAttempts
<1>8. ASSUME ReportStem PROVE StraysInv'
  BY <1>8
     DEF ReportStem, Move, At, Goto, childVars, fileVars, StraysInv, TypeOK, AllAttempts
<1>9. ASSUME Complete PROVE StraysInv'
  BY <1>9 DEF Complete, Goto, childVars, StraysInv, TypeOK, AllAttempts
<1>10. ASSUME AfterFailure PROVE StraysInv'
  BY <1>10
     DEF AfterFailure, Goto, childVars, fileVars, StraysInv, TypeOK, AllAttempts
<1>11. ASSUME NEW l \in {"check", "watch"}, StopProcess(l) PROVE StraysInv'
  BY <1>11 DEF StopProcess, Move, At, Goto, StraysInv, TypeOK, AllAttempts
<1>12. ASSUME NEW l \in {"spawn", "drain", "report", "complete"}, Cancelled(l)
       PROVE  StraysInv'
  BY <1>12 DEF Cancelled, Move, At, Goto, childVars, StraysInv, TypeOK, AllAttempts
<1>13. ASSUME NEW l \in {"spawn", "watch", "check", "drain", "upload", "report",
                         "complete"}, Raises(l)
       PROVE  StraysInv'
  BY <1>13 DEF Raises, Goto, childVars, fileVars, StraysInv, TypeOK, AllAttempts
<1>14. ASSUME NEW s \in Stems, UploadStem(s) PROVE StraysInv'
  BY <1>14
     DEF UploadStem, Move, At, Goto, childVars, fileVars, StraysInv, TypeOK, AllAttempts
<1>15. ASSUME NEW a \in AllAttempts, MakeOutput(a) PROVE StraysInv'
  BY <1>15 DEF MakeOutput, parentVars, StraysInv, TypeOK, AllAttempts
<1>16. ASSUME NEW a \in AllAttempts, EndStem(a) PROVE StraysInv'
  BY <1>16 DEF EndStem, parentVars, StraysInv, TypeOK, AllAttempts
<1>17. ASSUME NEW a \in AllAttempts, ChildEnds(a) PROVE StraysInv'
  BY <1>17 DEF ChildEnds, fileVars, parentVars, StraysInv, TypeOK, AllAttempts
<1>18. ASSUME NEW a \in AllAttempts, NEW s \in Stems, BeginStem(a, s)
       PROVE  StraysInv'
  BY <1>18 DEF BeginStem, parentVars, StraysInv, TypeOK, AllAttempts
<1>19. CASE UNCHANGED vars
  BY <1>19 DEF vars, StraysInv, TypeOK, AllAttempts
<1>20. QED
  BY <1>1, <1>2, <1>3, <1>4, <1>5, <1>6, <1>7, <1>8, <1>9, <1>10, <1>11, <1>12,
     <1>13, <1>14, <1>15, <1>16, <1>17, <1>18, <1>19
     DEF Next, Parent, Unprompted, Failures

LEMMA FilesStep == Inv /\ [Next]_vars => FilesInv'
<1> SUFFICES ASSUME Inv, [Next]_vars PROVE FilesInv'
  OBVIOUS
<1> TypeOK /\ ChildInv /\ ParentInv /\ StraysInv /\ FilesInv /\ UploadsInv
  BY DEF Inv
<1>1. ASSUME CancelRow PROVE FilesInv'
  BY <1>1
     DEF CancelRow, parentVars, childVars, fileVars, FilesInv, Alone, TypeOK,
         Uploads, ChildInv, AllAttempts
<1>2. ASSUME LoseRow PROVE FilesInv'
  BY <1>2
     DEF LoseRow, parentVars, childVars, fileVars, FilesInv, Alone, TypeOK, Uploads,
         ChildInv, AllAttempts
<1>3. ASSUME StartAttempt PROVE FilesInv'
  BY <1>3
     DEF StartAttempt, Move, Goto, childVars, FilesInv, Alone, TypeOK, Uploads,
         ChildInv, AllAttempts
<1>4. ASSUME Spawn PROVE FilesInv'
  BY <1>4
     DEF Spawn, Move, At, Goto, fileVars, FilesInv, Alone, TypeOK, Uploads, ChildInv,
         AllAttempts
<1>5. ASSUME Watch PROVE FilesInv'
  BY <1>5
     DEF Watch, Move, At, Goto, childVars, fileVars, FilesInv, Alone, TypeOK, Uploads,
         ChildInv, AllAttempts
<1>6. ASSUME CheckCancelled PROVE FilesInv'
  BY <1>6
     DEF CheckCancelled, Move, At, Goto, childVars, fileVars, FilesInv, Alone, TypeOK,
         Uploads, ChildInv, AllAttempts
<1>7. ASSUME Drain PROVE FilesInv'
  BY <1>7
     DEF Drain, Move, At, Goto, childVars, fileVars, FilesInv, Alone, TypeOK, Uploads,
         ChildInv, AllAttempts
<1>8. ASSUME ReportStem PROVE FilesInv'
  BY <1>8
     DEF ReportStem, Move, At, Goto, childVars, fileVars, FilesInv, Alone, TypeOK,
         Uploads, ChildInv, AllAttempts
<1>9. ASSUME Complete PROVE FilesInv'
  BY <1>9
     DEF Complete, Goto, childVars, FilesInv, Alone, TypeOK, Uploads, ChildInv,
         AllAttempts
<1>10. ASSUME AfterFailure PROVE FilesInv'
  BY <1>10
     DEF AfterFailure, Goto, childVars, fileVars, FilesInv, Alone, TypeOK, Uploads,
         ChildInv, AllAttempts
<1>11. ASSUME NEW l \in {"check", "watch"}, StopProcess(l) PROVE FilesInv'
  BY <1>11
     DEF StopProcess, Move, At, Goto, FilesInv, Alone, TypeOK, Uploads, ChildInv,
         AllAttempts
<1>12. ASSUME NEW l \in {"spawn", "drain", "report", "complete"}, Cancelled(l)
       PROVE  FilesInv'
  BY <1>12
     DEF Cancelled, Move, At, Goto, childVars, FilesInv, Alone, TypeOK, Uploads, ChildInv,
         AllAttempts
<1>13. ASSUME NEW l \in {"spawn", "watch", "check", "drain", "upload", "report",
                         "complete"}, Raises(l)
       PROVE  FilesInv'
  BY <1>13
     DEF Raises, Goto, childVars, fileVars, FilesInv, Alone, TypeOK, Uploads,
         ChildInv, AllAttempts
<1>14. ASSUME NEW s \in Stems, UploadStem(s) PROVE FilesInv'
  BY <1>14
     DEF UploadStem, Move, At, Goto, childVars, fileVars, FilesInv, Alone, TypeOK,
         Uploads, ChildInv, AllAttempts
<1>15. ASSUME NEW a \in AllAttempts, MakeOutput(a) PROVE FilesInv'
  BY <1>15
     DEF MakeOutput, parentVars, FilesInv, Alone, TypeOK, Uploads, ChildInv,
         AllAttempts
<1>16. ASSUME NEW a \in AllAttempts, EndStem(a) PROVE FilesInv'
  <2>1. PICK s \in Stems :
          /\ writing[a] = s /\ s # Absent /\ child[a] = "running"
          /\ writing' = [writing EXCEPT ![a] = Absent]
          /\ saved' = [saved EXCEPT ![a] = saved[a] \cup {s}]
          /\ file' = IF file[s] = Partial(a)
                     THEN [file EXCEPT ![s].whole = TRUE] ELSE file
    BY <1>16 DEF EndStem, TypeOK, Partial
  <2>2. file' = IF file[s] = Partial(a) THEN [file EXCEPT ![s] = Whole(a)] ELSE file
    <3>1. CASE file[s] = Partial(a)
      <4>1. file' = [file EXCEPT ![s] = [Partial(a) EXCEPT !.whole = TRUE]]
        BY <2>1, <3>1 DEF TypeOK
      <4>2. QED
        BY <3>1, <4>1, WholeOncePartial
    <3>2. QED
      BY <2>1, <3>1
  <2>3. UNCHANGED <<row, parentVars, child, made, dir, faults>>
    BY <1>16 DEF EndStem
  <2>4. SUFFICES ASSUME Alone, pc \in {"watch", "check", "drain"} \cup Uploads
                 PROVE  \A t \in Stems :
                          /\ t \in saved'[attempt] => file'[t] = Whole(attempt)
                          /\ writing'[attempt] = t => file'[t] = Partial(attempt)
    BY <2>3 DEF FilesInv, Alone, parentVars, Whole, Partial
  <2>5. \A t \in Stems : /\ t \in saved[attempt] => file[t] = Whole(attempt)
                         /\ writing[attempt] = t => file[t] = Partial(attempt)
    BY <2>4 DEF FilesInv
  <2>6. a = attempt
    BY <2>1, <2>4 DEF Alone, ChildInv, StraysInv, TypeOK, AllAttempts, Uploads
  <2>7. file' = [file EXCEPT ![s] = Whole(attempt)]
    BY <2>1, <2>2, <2>5, <2>6
  <2>8. ASSUME NEW t \in Stems
        PROVE  /\ t \in saved'[attempt] => file'[t] = Whole(attempt)
               /\ writing'[attempt] = t => file'[t] = Partial(attempt)
    BY <2>1, <2>5, <2>6, <2>7 DEF TypeOK
  <2>9. QED
    BY <2>8
<1>17. ASSUME NEW a \in AllAttempts, ChildEnds(a) PROVE FilesInv'
  BY <1>17
     DEF ChildEnds, fileVars, parentVars, FilesInv, Alone, TypeOK, Uploads,
         ChildInv, AllAttempts
<1>18. ASSUME NEW a \in AllAttempts, NEW s \in Stems, BeginStem(a, s)
       PROVE  FilesInv'
  <2>1. /\ child[a] = "running" /\ made[a] /\ s \notin saved[a] /\ writing[a] = Absent
        /\ writing' = [writing EXCEPT ![a] = s]
        /\ file' = [file EXCEPT ![s] = Partial(a)]
        /\ UNCHANGED <<parentVars, made, saved>>
    BY <1>18 DEF BeginStem, Partial
  <2>2. SUFFICES ASSUME Alone, pc \in {"watch", "check", "drain"} \cup Uploads
                 PROVE  \A t \in Stems :
                          /\ t \in saved[attempt] => file'[t] = Whole(attempt)
                          /\ writing'[attempt] = t => file'[t] = Partial(attempt)
    BY <2>1 DEF FilesInv, Alone, parentVars, Whole, Partial
  <2>3. a = attempt
    BY <2>1, <2>2 DEF Alone, ChildInv, StraysInv, TypeOK, AllAttempts, Uploads
  <2>4. \A t \in Stems : t \in saved[attempt] => file[t] = Whole(attempt)
    BY <2>2 DEF FilesInv
  <2>5. QED
    BY <2>1, <2>3, <2>4 DEF TypeOK
<1>19. CASE UNCHANGED vars
  BY <1>19 DEF vars, FilesInv, Alone, TypeOK, Uploads, ChildInv, AllAttempts
<1>20. QED
  BY <1>1, <1>2, <1>3, <1>4, <1>5, <1>6, <1>7, <1>8, <1>9, <1>10, <1>11, <1>12,
     <1>13, <1>14, <1>15, <1>16, <1>17, <1>18, <1>19
     DEF Next, Parent, Unprompted, Failures

LEMMA UploadsStep == Inv /\ [Next]_vars => UploadsInv'
<1> SUFFICES ASSUME Inv, [Next]_vars PROVE UploadsInv'
  OBVIOUS
<1> TypeOK /\ ChildInv /\ ParentInv /\ StraysInv /\ FilesInv /\ UploadsInv
  BY DEF Inv
<1>1. ASSUME CancelRow PROVE UploadsInv'
  BY <1>1
     DEF CancelRow, parentVars, childVars, fileVars, UploadsInv, Alone, TypeOK,
         Uploads, ParentInv
<1>2. ASSUME LoseRow PROVE UploadsInv'
  BY <1>2
     DEF LoseRow, parentVars, childVars, fileVars, UploadsInv, Alone, TypeOK,
         Uploads, ParentInv
<1>3. ASSUME StartAttempt PROVE UploadsInv'
  BY <1>3
     DEF StartAttempt, Move, Goto, childVars, UploadsInv, Alone, TypeOK, Uploads,
         ParentInv
<1>4. ASSUME Spawn PROVE UploadsInv'
  BY <1>4
     DEF Spawn, Move, At, Goto, fileVars, UploadsInv, Alone, TypeOK, Uploads, ParentInv
<1>5. ASSUME Watch PROVE UploadsInv'
  BY <1>5
     DEF Watch, Move, At, Goto, childVars, fileVars, UploadsInv, Alone, TypeOK, Uploads,
         ParentInv
<1>6. ASSUME CheckCancelled PROVE UploadsInv'
  BY <1>6
     DEF CheckCancelled, Move, At, Goto, childVars, fileVars, UploadsInv, Alone, TypeOK,
         Uploads, ParentInv
<1>7. ASSUME Drain PROVE UploadsInv'
  <2>1. /\ pc = "drain" /\ pc' \in {"upload", "failed"}
        /\ pc' = "upload" => child[attempt] = "exited"
        /\ listed' = {s \in Stems : file[s] # Absent}
        /\ UNCHANGED <<attempt, strays, completed, made>>
    BY <1>7 DEF Drain, Move, At, Goto, childVars
  <2>2. ~completed
    BY <2>1 DEF ParentInv
  <2>3. ASSUME Alone, pc' = "upload", NEW s \in Stems PROVE s \in listed'
    <3>1. s \in saved[attempt]
      BY <2>1, <2>3 DEF ChildInv, TypeOK
    <3>2. file[s] = Whole(attempt)
      BY <2>1, <2>3, <3>1 DEF FilesInv
    <3>3. Whole(attempt) \in Files
      BY DEF Whole, Files, TypeOK
    <3>4. QED
      BY <2>1, <3>2, <3>3
  <2>4. QED
    BY <2>1, <2>2, <2>3 DEF UploadsInv, Alone, Uploads
<1>8. ASSUME ReportStem PROVE UploadsInv'
  BY <1>8
     DEF ReportStem, Move, At, Goto, childVars, fileVars, UploadsInv, Alone, TypeOK,
         Uploads, ParentInv
<1>9. ASSUME Complete PROVE UploadsInv'
  BY <1>9
     DEF Complete, Goto, childVars, UploadsInv, Alone, TypeOK, Uploads, ParentInv
<1>10. ASSUME AfterFailure PROVE UploadsInv'
  BY <1>10
     DEF AfterFailure, Goto, childVars, fileVars, UploadsInv, Alone, TypeOK,
         Uploads, ParentInv
<1>11. ASSUME NEW l \in {"check", "watch"}, StopProcess(l) PROVE UploadsInv'
  BY <1>11 DEF StopProcess, Move, At, Goto, UploadsInv, Alone, TypeOK, Uploads, ParentInv
<1>12. ASSUME NEW l \in {"spawn", "drain", "report", "complete"}, Cancelled(l)
       PROVE  UploadsInv'
  BY <1>12
     DEF Cancelled, Move, At, Goto, childVars, UploadsInv, Alone, TypeOK, Uploads,
         ParentInv
<1>13. ASSUME NEW l \in {"spawn", "watch", "check", "drain", "upload", "report",
                         "complete"}, Raises(l)
       PROVE  UploadsInv'
  BY <1>13
     DEF Raises, Goto, childVars, fileVars, UploadsInv, Alone, TypeOK, Uploads,
         ParentInv
<1>14. ASSUME NEW s \in Stems, UploadStem(s) PROVE UploadsInv'
  BY <1>14
     DEF UploadStem, Move, At, Goto, childVars, fileVars, UploadsInv, Alone, TypeOK,
         Uploads, ParentInv, FilesInv, ChildInv
<1>15. ASSUME NEW a \in AllAttempts, MakeOutput(a) PROVE UploadsInv'
  BY <1>15 DEF MakeOutput, parentVars, UploadsInv, Alone, TypeOK, Uploads, ParentInv
<1>16. ASSUME NEW a \in AllAttempts, EndStem(a) PROVE UploadsInv'
  BY <1>16 DEF EndStem, parentVars, UploadsInv, Alone, TypeOK, Uploads, ParentInv
<1>17. ASSUME NEW a \in AllAttempts, ChildEnds(a) PROVE UploadsInv'
  BY <1>17
     DEF ChildEnds, fileVars, parentVars, UploadsInv, Alone, TypeOK, Uploads,
         ParentInv
<1>18. ASSUME NEW a \in AllAttempts, NEW s \in Stems, BeginStem(a, s)
       PROVE  UploadsInv'
  BY <1>18 DEF BeginStem, parentVars, UploadsInv, Alone, TypeOK, Uploads, ParentInv
<1>19. CASE UNCHANGED vars
  BY <1>19 DEF vars, UploadsInv, Alone, TypeOK, Uploads, ParentInv
<1>20. QED
  BY <1>1, <1>2, <1>3, <1>4, <1>5, <1>6, <1>7, <1>8, <1>9, <1>10, <1>11, <1>12,
     <1>13, <1>14, <1>15, <1>16, <1>17, <1>18, <1>19
     DEF Next, Parent, Unprompted, Failures

LEMMA Initially == Init => Inv
<1> SUFFICES ASSUME Init PROVE Inv
  OBVIOUS
<1>1. TypeOK
  <2>1. 1 \in AllAttempts /\ faults \in 0..MaxFaults
    BY DEF Init, AllAttempts
  <2>2. NoFiles \in [Stems -> Files \cup {Absent}]
    BY DEF NoFiles
  <2>3. QED
    BY <2>1, <2>2 DEF Init, TypeOK
<1>2. ChildInv /\ ParentInv /\ StraysInv
  BY DEF Init, ChildInv, ParentInv, StraysInv, Uploads
<1>3. FilesInv /\ UploadsInv
  BY DEF Init, FilesInv, UploadsInv, Uploads
<1>4. QED
  BY <1>1, <1>2, <1>3 DEF Inv

-----------------------------------------------------------------------------
\* What the parent, the children and the files of a job are to each other, in every
\* state.
THEOREM Invariance == Spec => []Inv
<1>1. Inv /\ [Next]_vars => Inv'
  BY TypeStep, ChildStep, ParentStep, StraysStep, FilesStep, UploadsStep DEF Inv
<1>2. QED
  BY <1>1, Initially, PTL DEF Spec

\* Every variable keeps its type: run_demucs and handle_job start no more than
\* MaxAttempts children.
THEOREM TypeCorrect == Spec => []TypeOK
<1>1. Inv => TypeOK
  BY DEF Inv
<1>2. QED
  BY <1>1, Invariance, PTL

\* run_demucs lists the stems once the child has ended well and upload_results reads
\* them later: they are whole, and this attempt's, unless an earlier child was left
\* behind after it had made its output directory.
THEOREM CompletedWithWholeStems == Spec => []CompletedIsWhole
<1>1. Inv => CompletedIsWhole
  BY DEF Inv, UploadsInv, Alone, CompletedIsWhole, Whole
<1>2. QED
  BY <1>1, Invariance, PTL

\* Wherever the worker notices a cancellation, its child has ended or is killed
\* before the job ends (_stop_process).
THEOREM CancelledChildrenStop == Spec => CancelledIsStopped
<1>1. ASSUME Inv, Next, row = "cancelled", pc \notin {"failed", "ended"}, pc' = "ended"
      PROVE  child'[attempt] # "running"
  <2> TypeOK /\ ChildInv /\ ParentInv
    BY <1>1 DEF Inv
  <2>1. ASSUME NEW l \in {"check", "watch"}, StopProcess(l)
        PROVE  child'[attempt] # "running"
    BY <2>1 DEF StopProcess, TypeOK
  <2>2. ASSUME NEW l \in {"spawn", "drain", "report", "complete"}, Cancelled(l)
        PROVE  child'[attempt] # "running"
    BY <2>2 DEF Cancelled, Move, At, childVars, ChildInv, ParentInv, Uploads, TypeOK
  <2>3. QED
    BY <1>1, <2>1, <2>2
       DEF Next, Parent, Unprompted, Failures, CancelRow, LoseRow, StartAttempt, Spawn,
           Watch, CheckCancelled, Drain, UploadStem, ReportStem, Complete, AfterFailure,
           Raises, MakeOutput, BeginStem, EndStem, ChildEnds, Move, At, Goto, parentVars
<1>2. ASSUME Inv, [Next]_vars
      PROVE  [row = "cancelled" /\ pc \notin {"failed", "ended"} /\ pc' = "ended"
                => child'[attempt] # "running"]_vars
  BY <1>1, <1>2
<1>3. QED
  BY <1>2, Invariance, PTL DEF Spec, CancelledIsStopped

-----------------------------------------------------------------------------
(* The registry: types.                                                     *)

Rows == {W!NoRow} \cup [activity : W!Activities, age : {"fresh", "late", "old"}]

LEMMA Registration ==
    ASSUME W!RegistryTypeOK, NEW w \in Workers, NEW renewed \in SUBSET Workers,
           W!RegisterWorker(w, renewed)
    PROVE  /\ rows' \in [Workers -> Rows]
           /\ {missed', lost', reset'} \subseteq SUBSET Workers
<1>1. rows' \in [Workers -> Rows]
  BY DEF W!RegistryTypeOK, Rows, W!RegisterWorker, W!Registered, W!NoRow, W!Activities
<1>2. {missed', lost', reset'} \subseteq SUBSET Workers
  BY DEF W!RegistryTypeOK, W!RegisterWorker, W!Lose, W!Note, W!Swept
<1>3. QED
  BY <1>1, <1>2

\* The type invariant is inductive as it stands.
LEMMA RegistryTypes == W!Spec => []W!RegistryTypeOK
<1> USE DEF W!RegistryTypeOK, W!Activities, W!NoRow, W!Answers, W!Up
<1>1. W!Init => W!RegistryTypeOK
  BY DEF W!Init
<1>2. W!RegistryTypeOK /\ [W!Next]_(W!vars) => W!RegistryTypeOK'
  <2> SUFFICES ASSUME W!RegistryTypeOK, [W!Next]_(W!vars) PROVE W!RegistryTypeOK'
    OBVIOUS
  <2> USE DEF W!threads, W!page, W!reports, W!observers, W!vars
  <2>1. ASSUME NEW w \in Workers, W!Start(w) PROVE W!RegistryTypeOK'
    <3>1. rows' \in [Workers -> Rows] /\ {missed', lost', reset'} \subseteq SUBSET Workers
      BY <2>1, Registration DEF W!Start
    <3>2. /\ main' = [main EXCEPT ![w] = "poll"] /\ beat' = [beat EXCEPT ![w] = "wait"]
          /\ left' = left \ {w}
          /\ UNCHANGED <<doing, requests, display, mishaps>>
      BY <2>1 DEF W!Start, W!Goto
    <3>3. QED
      BY <3>1, <3>2 DEF Rows
  <2>2. ASSUME NEW w \in Workers, W!MarkBusy(w) PROVE W!RegistryTypeOK'
    BY <2>2 DEF W!MarkBusy, W!Goto
  <2>3. ASSUME NEW w \in Workers, W!MarkIdle(w) PROVE W!RegistryTypeOK'
    BY <2>3 DEF W!MarkIdle, W!Goto
  <2>4. ASSUME NEW w \in Workers, W!Report(w) PROVE W!RegistryTypeOK'
    <3>0. /\ mishaps' \in 0..MaxMishaps
          /\ \E at \in {"work", "poll", "again", "register"} :
                main' = [main EXCEPT ![w] = at]
          /\ main[w] \in {"report", "register", "again"}
          /\ UNCHANGED <<doing, beat, requests, display, left>>
      BY <2>4 DEF W!Report, W!Rest, W!Goto, W!Mishap
    <3>1. /\ main' \in [Workers -> {"down", "poll", "report", "register", "again",
                                    "work", "join"}]
          /\ \A v \in Workers : /\ main'[v] \notin {"down", "join"} => beat[v] # "off"
                                /\ main'[v] = "down" => beat[v] = "off"
      BY <3>0
    <3>2. rows' \in [Workers -> Rows] /\ {missed', lost', reset'} \subseteq SUBSET Workers
      <4>1. CASE W!RegisterWorker(w, {})
        BY <4>1, Registration
      <4>2. CASE W!SetActivity(w)
        BY <4>2 DEF W!SetActivity, Rows
      <4>3. CASE UNCHANGED <<rows, W!reports>>
        BY <4>3 DEF Rows
      <4>4. CASE W!Note({w}, {}) /\ UNCHANGED <<rows, lost>>
        BY <4>4 DEF W!Note, Rows
      <4>5. QED
        BY <2>4, <4>1, <4>2, <4>3, <4>4 DEF W!Report
    <3>3. QED
      BY <3>0, <3>1, <3>2 DEF Rows
  <2>5. ASSUME NEW w \in Workers, W!Stop(w) PROVE W!RegistryTypeOK'
    BY <2>5 DEF W!Stop, W!Goto
  <2>6. ASSUME NEW w \in Workers, W!Unregister(w) PROVE W!RegistryTypeOK'
    <3>1. rows' \in [Workers -> Rows]
      BY <2>6 DEF W!Unregister, Rows
    <3>2. {missed', lost', reset', left'} \subseteq SUBSET Workers
      BY <2>6 DEF W!Unregister, W!Forget
    <3>3. /\ mishaps' \in 0..MaxMishaps
          /\ beat[w] = "off" /\ main' = [main EXCEPT ![w] = "down"]
          /\ UNCHANGED <<doing, beat, W!page>>
      BY <2>6 DEF W!Unregister, W!Goto, W!Mishap
    <3>4. QED
      BY <3>1, <3>2, <3>3 DEF Rows
  <2>7. ASSUME NEW w \in Workers, W!Crash(w) PROVE W!RegistryTypeOK'
    BY <2>7 DEF W!Crash, W!Goto, W!Forget
  <2>8. ASSUME NEW w \in Workers, W!Refresh(w) PROVE W!RegistryTypeOK'
    BY <2>8 DEF W!Refresh, W!HasRow, W!Mishap
  <2>9. ASSUME NEW w \in Workers, W!Reregister(w) PROVE W!RegistryTypeOK'
    <3>1. rows' \in [Workers -> Rows] /\ {missed', lost', reset'} \subseteq SUBSET Workers
      <4>1. CASE W!RegisterWorker(w, {w})
        BY <4>1, Registration
      <4>2. CASE UNCHANGED <<rows, W!reports>>
        BY <4>2 DEF Rows
      <4>3. QED
        BY <2>9, <4>1, <4>2 DEF W!Reregister
    <3>2. /\ mishaps' \in 0..MaxMishaps
          /\ beat[w] = "register" /\ beat' = [beat EXCEPT ![w] = "wait"]
          /\ UNCHANGED <<main, doing, W!page, left>>
      BY <2>9 DEF W!Reregister, W!RegisterWorker, W!Mishap
    <3>3. QED
      BY <3>1, <3>2 DEF Rows
  <2>10. ASSUME NEW w \in Workers, W!EndThread(w) PROVE W!RegistryTypeOK'
    BY <2>10 DEF W!EndThread
  <2>11. ASSUME NEW w \in Workers, W!Age(w) PROVE W!RegistryTypeOK'
    BY <2>11 DEF W!Age, W!HasRow, W!Mishap
  <2>12. ASSUME NEW w \in Workers, W!LoseRow(w) PROVE W!RegistryTypeOK'
    BY <2>12 DEF W!LoseRow, W!Lose, W!Note, W!HasRow, W!Mishap
  <2>13. ASSUME NEW r \in Requests, W!Ask(r) PROVE W!RegistryTypeOK'
    BY <2>13 DEF W!Ask, W!Become
  <2>14. ASSUME NEW r \in Requests, W!Serve(r) PROVE W!RegistryTypeOK'
    BY <2>14 DEF W!Serve, W!Become, W!Availability, W!Mishap
  <2>15. ASSUME NEW r \in Requests, W!Arrive(r) PROVE W!RegistryTypeOK'
    BY <2>15 DEF W!Arrive, W!Become
  <2>16. CASE UNCHANGED W!vars
    BY <2>16
  <2>17. QED
    BY <2>1, <2>2, <2>3, <2>4, <2>5, <2>6, <2>7, <2>8, <2>9, <2>10, <2>11,
       <2>12, <2>13, <2>14, <2>15, <2>16
       DEF W!Next, W!MainThread, W!HeartbeatThread, W!Page
<1>3. QED
  BY <1>1, <1>2, PTL DEF W!Spec

\* Every variable keeps its type; a worker that is up has its heartbeat thread,
\* and a process that has gone has none.
THEOREM RegistryTypeCorrect == W!Spec => []RegistryTypeOK
<1>1. W!RegistryTypeOK => RegistryTypeOK
  BY DEF W!RegistryTypeOK, W!Activities, W!NoRow, W!Answers, W!Up,
         RegistryTypeOK, Activities, NoRow, Answers, Up
<1>2. QED
  BY <1>1, RegistryTypes, PTL

-----------------------------------------------------------------------------
(* The registry: presence.                                                  *)

\* What is true of one worker. PresenceIsTrue needs more to be inductive: a
\* main thread at rest has nothing left to report; the row of a process that
\* runs is there unless it was lost and that is noted; and only a lost row makes
\* the heartbeat thread register the worker again.
Present(w) ==
    /\ main[w] \in {"down", "poll", "join"} => doing[w] = "idle"
    /\ main[w] = "work" => doing[w] = "busy"
    /\ main[w] # "down" /\ w \notin missed => W!HasRow(w)
    /\ main[w] # "down" /\ w \notin lost => W!HasRow(w) /\ beat[w] # "register"
    /\ main[w] \in {"poll", "work"} /\ w \notin missed \cup reset
        => rows[w].activity = doing[w]
    /\ w \in reset => w \in lost
    /\ main[w] # "down" => w \notin left
    /\ main[w] = "down" /\ w \in left => ~W!HasRow(w)

PresenceInv == \A w \in Workers : Present(w)

\* What any step but its own leaves of a worker: its row stays, perhaps older,
\* or goes, which is noted if the worker runs.
Undisturbed(w) ==
    /\ main'[w] = main[w] /\ doing'[w] = doing[w] /\ beat'[w] = beat[w]
    /\ w \in left' <=> w \in left
    /\ w \in missed => w \in missed'
    /\ w \in lost => w \in lost'
    /\ w \in reset' => w \in reset
    /\ w \in reset => w \in reset' \cup missed'
    /\ \/ /\ rows'[w].activity = rows[w].activity
          /\ W!HasRow(w)' <=> W!HasRow(w)
       \/ /\ ~W!HasRow(w)'
          /\ main[w] # "down" => w \in missed' /\ w \in lost'

LEMMA UndisturbedPresent ==
    ASSUME NEW w \in Workers, Present(w), Undisturbed(w)
    PROVE  Present(w)'
  BY DEF Present, Undisturbed

\* A registration of another worker notes the rows that it sweeps.
LEMMA SweepUndisturbed ==
    ASSUME W!RegistryTypeOK, NEW w \in Workers, NEW v \in Workers, v # w,
           NEW renewed \in SUBSET {w}, W!RegisterWorker(w, renewed),
           main'[v] = main[v], doing'[v] = doing[v], beat'[v] = beat[v],
           v \in left' <=> v \in left
    PROVE  Undisturbed(v)
<1>1. /\ v \in missed => v \in missed'
      /\ v \in lost => v \in lost'
      /\ v \in reset' => v \in reset
      /\ v \in reset => v \in reset' \cup missed'
  BY DEF W!RegisterWorker, W!Lose, W!Note
<1>2. CASE rows[v].age = "old"
  <2>1. ~W!HasRow(v)'
    BY <1>2 DEF W!RegisterWorker, W!Registered, W!HasRow, W!NoRow
  <2>2. main[v] # "down" => v \in missed' /\ v \in lost'
    BY <1>2 DEF W!RegisterWorker, W!Lose, W!Note, W!Swept
  <2>3. QED
    BY <1>1, <2>1, <2>2 DEF Undisturbed
<1>3. CASE rows[v].age # "old"
  <2>1. rows'[v] = rows[v]
    BY <1>3 DEF W!RegisterWorker, W!Registered
  <2>2. QED
    BY <1>1, <2>1 DEF Undisturbed, W!HasRow
<1>4. QED
  BY <1>2, <1>3

\* The own row is there and says idle; it is missed if it was, and counts as
\* reset if the heartbeat thread has written it.
LEMMA RegisteredRow ==
    ASSUME W!RegistryTypeOK, NEW w \in Workers, NEW renewed \in SUBSET {w},
           W!RegisterWorker(w, renewed)
    PROVE  /\ rows'[w] = [activity |-> "idle", age |-> "fresh"]
           /\ w \in missed' <=> w \in missed
           /\ w \in lost' <=> w \in lost
           /\ w \in reset' => w \in reset \cup renewed
           /\ w \in renewed => w \in reset' \cup missed'
<1>1. rows'[w] = [activity |-> "idle", age |-> "fresh"]
  BY DEF W!RegisterWorker, W!Registered
<1>2. w \notin W!Swept(w)
  BY DEF W!Swept
<1>3. QED
  BY <1>1, <1>2 DEF W!RegisterWorker, W!Lose, W!Note

LEMMA OneDisturbed ==
    ASSUME PresenceInv, NEW w \in Workers, Present(w)',
           \A v \in Workers : v # w => Undisturbed(v)
    PROVE  PresenceInv'
  BY UndisturbedPresent DEF PresenceInv

LEMMA PresenceStep ==
    ASSUME W!RegistryTypeOK, W!RegistryTypeOK', PresenceInv, [W!Next]_(W!vars)
    PROVE  PresenceInv'
<1> USE DEF W!threads, W!page, W!reports, W!observers, W!vars, W!NoRow, W!Activities
<1>0. \A w \in Workers : Present(w)
  BY DEF PresenceInv
<1>1. ASSUME NEW w \in Workers, W!Start(w) PROVE PresenceInv'
  <2>0. /\ main[w] = "down" /\ main' = [main EXCEPT ![w] = "poll"]
        /\ beat' = [beat EXCEPT ![w] = "wait"] /\ left' = left \ {w}
        /\ W!RegisterWorker(w, {}) /\ UNCHANGED doing
    BY <1>1 DEF W!Start, W!Goto
  <2>1. Present(w)'
    BY <1>0, <2>0, RegisteredRow DEF Present, W!HasRow, W!RegistryTypeOK
  <2>2. ASSUME NEW v \in Workers, v # w PROVE Undisturbed(v)
    BY <2>0, <2>2, SweepUndisturbed DEF W!RegistryTypeOK
  <2>3. QED
    BY <2>1, <2>2, OneDisturbed
<1>2. ASSUME NEW w \in Workers, W!MarkBusy(w) PROVE PresenceInv'
  <2>1. Present(w)'
    BY <1>0, <1>2 DEF W!MarkBusy, W!Goto, Present, W!HasRow, W!RegistryTypeOK
  <2>2. ASSUME NEW v \in Workers, v # w PROVE Undisturbed(v)
    BY <1>2, <2>2 DEF W!MarkBusy, W!Goto, Undisturbed, W!HasRow, W!RegistryTypeOK
  <2>3. QED
    BY <2>1, <2>2, OneDisturbed
<1>3. ASSUME NEW w \in Workers, W!MarkIdle(w) PROVE PresenceInv'
  <2>1. Present(w)'
    BY <1>0, <1>3 DEF W!MarkIdle, W!Goto, Present, W!HasRow, W!RegistryTypeOK
  <2>2. ASSUME NEW v \in Workers, v # w PROVE Undisturbed(v)
    BY <1>3, <2>2 DEF W!MarkIdle, W!Goto, Undisturbed, W!HasRow, W!RegistryTypeOK
  <2>3. QED
    BY <2>1, <2>2, OneDisturbed
<1>4. ASSUME NEW w \in Workers, W!Report(w) PROVE PresenceInv'
  <2> DEFINE After == IF doing[w] = "busy" THEN "work" ELSE "poll"
  <2>0. /\ main[w] \in {"report", "register", "again"}
        /\ UNCHANGED <<doing, beat, left>>
    BY <1>4 DEF W!Report
  <2>1. CASE main[w] = "register" /\ W!RegisterWorker(w, {}) /\ W!Goto(w, "again")
    <3>1. Present(w)'
      BY <1>0, <2>0, <2>1, RegisteredRow DEF W!Goto, Present, W!HasRow, W!RegistryTypeOK
    <3>2. ASSUME NEW v \in Workers, v # w PROVE Undisturbed(v)
      BY <2>0, <2>1, <3>2, SweepUndisturbed DEF W!Goto, W!RegistryTypeOK
    <3>3. QED
      BY <3>1, <3>2, OneDisturbed
  <2>2. CASE W!HasRow(w) /\ W!SetActivity(w) /\ W!Rest(w)
    <3>1. /\ rows'[w] = [activity |-> doing[w], age |-> "fresh"]
          /\ main'[w] = After /\ doing[w] \in {"idle", "busy"}
          /\ missed' = missed \ {w} /\ reset' = reset \ {w} /\ lost' = lost
      BY <2>2 DEF W!SetActivity, W!Rest, W!Goto, W!RegistryTypeOK
    <3>2. W!HasRow(w)'
      BY <3>1 DEF W!HasRow
    <3>3. Present(w)'
      BY <1>0, <2>0, <2>2, <3>1, <3>2 DEF Present, W!RegistryTypeOK
    <3>4. ASSUME NEW v \in Workers, v # w PROVE Undisturbed(v)
      BY <2>0, <2>2, <3>1, <3>4
         DEF W!SetActivity, W!Rest, W!Goto, Undisturbed, W!HasRow, W!RegistryTypeOK
    <3>5. QED
      BY <3>3, <3>4, OneDisturbed
  <2>3. CASE /\ ~W!HasRow(w) /\ UNCHANGED <<rows, W!reports>>
             /\ W!Goto(w, "register") \/ W!Rest(w)
    <3>1. Present(w)'
      BY <1>0, <2>0, <2>3 DEF W!Rest, W!Goto, Present, W!HasRow, W!RegistryTypeOK
    <3>2. ASSUME NEW v \in Workers, v # w PROVE Undisturbed(v)
      BY <2>0, <2>3, <3>2 DEF W!Rest, W!Goto, Undisturbed, W!HasRow, W!RegistryTypeOK
    <3>3. QED
      BY <3>1, <3>2, OneDisturbed
  <2>4. CASE W!Rest(w) /\ W!Note({w}, {}) /\ UNCHANGED <<rows, lost>>
    <3>1. Present(w)'
      BY <1>0, <2>0, <2>4 DEF W!Note, W!Rest, W!Goto, Present, W!HasRow, W!RegistryTypeOK
    <3>2. ASSUME NEW v \in Workers, v # w PROVE Undisturbed(v)
      BY <2>0, <2>4, <3>2 DEF W!Note, W!Rest, W!Goto, Undisturbed, W!HasRow, W!RegistryTypeOK
    <3>3. QED
      BY <3>1, <3>2, OneDisturbed
  <2>5. QED
    BY <1>4, <2>1, <2>2, <2>3, <2>4 DEF W!Report
<1>5. ASSUME NEW w \in Workers, W!Stop(w) PROVE PresenceInv'
  <2>1. Present(w)'
    BY <1>0, <1>5 DEF W!Stop, W!Goto, Present, W!HasRow, W!RegistryTypeOK
  <2>2. ASSUME NEW v \in Workers, v # w PROVE Undisturbed(v)
    BY <1>5, <2>2 DEF W!Stop, W!Goto, Undisturbed, W!HasRow, W!RegistryTypeOK
  <2>3. QED
    BY <2>1, <2>2, OneDisturbed
<1>6. ASSUME NEW w \in Workers, W!Unregister(w) PROVE PresenceInv'
  <2>1. Present(w)'
    BY <1>0, <1>6 DEF W!Unregister, W!Forget, W!Goto, Present, W!HasRow, W!RegistryTypeOK
  <2>2. ASSUME NEW v \in Workers, v # w PROVE Undisturbed(v)
    BY <1>6, <2>2 DEF W!Unregister, W!Forget, W!Goto, Undisturbed, W!HasRow, W!RegistryTypeOK
  <2>3. QED
    BY <2>1, <2>2, OneDisturbed
<1>7. ASSUME NEW w \in Workers, W!Crash(w) PROVE PresenceInv'
  <2>1. Present(w)'
    BY <1>0, <1>7 DEF W!Crash, W!Forget, W!Goto, Present, W!HasRow, W!RegistryTypeOK
  <2>2. ASSUME NEW v \in Workers, v # w PROVE Undisturbed(v)
    BY <1>7, <2>2 DEF W!Crash, W!Forget, W!Goto, Undisturbed, W!HasRow, W!RegistryTypeOK
  <2>3. QED
    BY <2>1, <2>2, OneDisturbed
<1>8. ASSUME NEW w \in Workers, W!Refresh(w) PROVE PresenceInv'
  <2>1. Present(w)'
    BY <1>0, <1>8 DEF W!Refresh, Present, W!HasRow, W!RegistryTypeOK
  <2>2. ASSUME NEW v \in Workers, v # w PROVE Undisturbed(v)
    BY <1>8, <2>2 DEF W!Refresh, Undisturbed, W!HasRow, W!RegistryTypeOK
  <2>3. QED
    BY <2>1, <2>2, OneDisturbed
<1>9. ASSUME NEW w \in Workers, W!Reregister(w) PROVE PresenceInv'
  <2>0. /\ beat[w] = "register" /\ beat' = [beat EXCEPT ![w] = "wait"]
        /\ UNCHANGED <<main, doing, left>>
        /\ W!RegisterWorker(w, {w}) \/ UNCHANGED <<rows, W!reports>>
    BY <1>9 DEF W!Reregister
  <2>1. CASE W!RegisterWorker(w, {w})
    <3>1. Present(w)'
      BY <1>0, <2>0, <2>1, RegisteredRow DEF Present, W!HasRow, W!RegistryTypeOK
    <3>2. ASSUME NEW v \in Workers, v # w PROVE Undisturbed(v)
      BY <2>0, <2>1, <3>2, SweepUndisturbed DEF W!RegistryTypeOK
    <3>3. QED
      BY <3>1, <3>2, OneDisturbed
  <2>2. CASE UNCHANGED <<rows, W!reports>>
    <3>1. Present(w)'
      BY <1>0, <2>0, <2>2 DEF Present, W!HasRow, W!RegistryTypeOK
    <3>2. ASSUME NEW v \in Workers, v # w PROVE Undisturbed(v)
      BY <2>0, <2>2, <3>2 DEF Undisturbed, W!HasRow, W!RegistryTypeOK
    <3>3. QED
      BY <3>1, <3>2, OneDisturbed
  <2>3. QED
    BY <2>0, <2>1, <2>2
<1>10. ASSUME NEW w \in Workers, W!EndThread(w) PROVE PresenceInv'
  <2>1. Present(w)'
    BY <1>0, <1>10 DEF W!EndThread, Present, W!HasRow, W!RegistryTypeOK
  <2>2. ASSUME NEW v \in Workers, v # w PROVE Undisturbed(v)
    BY <1>10, <2>2 DEF W!EndThread, Undisturbed, W!HasRow, W!RegistryTypeOK
  <2>3. QED
    BY <2>1, <2>2, OneDisturbed
<1>11. ASSUME NEW w \in Workers, W!Age(w) PROVE PresenceInv'
  <2>1. Present(w)'
    BY <1>0, <1>11 DEF W!Age, Present, W!HasRow, W!RegistryTypeOK
  <2>2. ASSUME NEW v \in Workers, v # w PROVE Undisturbed(v)
    BY <1>11, <2>2 DEF W!Age, Undisturbed, W!HasRow, W!RegistryTypeOK
  <2>3. QED
    BY <2>1, <2>2, OneDisturbed
<1>12. ASSUME NEW w \in Workers, W!LoseRow(w) PROVE PresenceInv'
  <2>1. Present(w)'
    BY <1>0, <1>12 DEF W!LoseRow, W!Lose, W!Note, Present, W!HasRow, W!RegistryTypeOK
  <2>2. ASSUME NEW v \in Workers, v # w PROVE Undisturbed(v)
    BY <1>12, <2>2 DEF W!LoseRow, W!Lose, W!Note, Undisturbed, W!HasRow, W!RegistryTypeOK
  <2>3. QED
    BY <2>1, <2>2, OneDisturbed
<1>13. CASE UNCHANGED <<rows, W!threads, W!observers>>
  BY <1>0, <1>13 DEF PresenceInv, Present, W!HasRow
<1>14. ASSUME NEW r \in Requests, W!Page(r)
       PROVE  UNCHANGED <<rows, W!threads, W!observers>>
  BY <1>14 DEF W!Page, W!Ask, W!Serve, W!Arrive
<1>15. QED
  BY <1>1, <1>2, <1>3, <1>4, <1>5, <1>6, <1>7, <1>8, <1>9, <1>10, <1>11,
     <1>12, <1>13, <1>14 DEF W!Next, W!MainThread, W!HeartbeatThread

\* Between two reports the row of a worker says what it does, unless it was
\* lost or a report failed; a heartbeat thread that registers its worker over a
\* report that has arrived is the consequence of a row that was lost, and of
\* nothing else; and the row of a worker that removed it stays away
\* (WorkerPresence.stop, _set_activity, _run): however many workers there are,
\* and however often they come and go.
THEOREM PresenceHolds == W!Spec => []PresenceIsTrue
<1>1. W!Init => PresenceInv
  BY DEF W!Init, PresenceInv, Present, W!HasRow
<1>2. PresenceInv => PresenceIsTrue
  BY DEF PresenceInv, Present, PresenceIsTrue, ReportsStand, StoppedStayAway,
         W!HasRow, W!NoRow, NoRow
<1>3. QED
  BY <1>1, <1>2, PresenceStep, RegistryTypes, PTL DEF W!Spec
=============================================================================

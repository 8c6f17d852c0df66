--------------------------- MODULE DemucsProcess ---------------------------
(***************************************************************************)
(* The attempts of one job inside one worker: the parent that supervises a *)
(* Demucs child process, the files the child saves in the job's workspace, *)
(* and their upload. The parent learns of the row only when it writes      *)
(* progress or checks for cancellation.                                    *)
(*                                                                         *)
(* The lines a child prints reach the parent through a reader thread and a *)
(* queue; here the parent may find an event whenever it looks, which       *)
(* covers every order and loss. Progress values are left out.              *)
(***************************************************************************)
EXTENDS Naturals

CONSTANTS
    Stems,        \* the files one separation saves
    Absent,       \* no such file
    MaxAttempts,  \* MAX_PROCESSING_ATTEMPTS
    MaxFaults     \* bound on failed database and storage calls

AllAttempts == 1..MaxAttempts
Files == [by : AllAttempts, whole : BOOLEAN]

ASSUME DemucsAssumption ==
    /\ Stems # {} /\ Absent \notin Stems /\ Absent \notin Files
    /\ MaxAttempts \in Nat \ {0}
    /\ MaxFaults \in Nat

VARIABLES
    row,        \* this worker's, cancelled, or lost to another worker or a deletion
    pc,         \* where the parent is
    attempt,
    strays,     \* observer: the earlier children still running when this attempt began
    listed,     \* the stems it has still to upload
    uploaded,   \* the objects it has uploaded, each with the file it read
    completed,  \* the COMPLETED update was made
    child,      \* the child of each attempt
    made,       \* the child has made its output directory
    writing,    \* the file it is saving
    saved,      \* the stems it has saved
    dir,        \* the output directory exists
    file,       \* the files in it: by whom, and whether complete
    faults

vars == <<row, pc, attempt, strays, listed, uploaded, completed, child, made,
          writing, saved, dir, file, faults>>
parentVars == <<pc, attempt, strays, listed, uploaded, completed>>
childVars  == <<child, made, writing, saved>>
fileVars   == <<dir, file>>

-----------------------------------------------------------------------------
TypeOK ==
    /\ row \in {"owned", "cancelled", "lost"}
    /\ pc \in {"start", "spawn", "watch", "check", "drain", "upload", "report",
               "complete", "failed", "ended"}
    /\ attempt \in AllAttempts
    /\ strays \in SUBSET AllAttempts
    /\ listed \in SUBSET Stems
    /\ uploaded \in [Stems -> Files \cup {Absent}]
    /\ completed \in BOOLEAN
    /\ child \in [AllAttempts -> {"none", "running", "exited", "failed", "killed"}]
    /\ made \in [AllAttempts -> BOOLEAN]
    /\ writing \in [AllAttempts -> Stems \cup {Absent}]
    /\ saved \in [AllAttempts -> SUBSET Stems]
    /\ dir \in BOOLEAN
    /\ file \in [Stems -> Files \cup {Absent}]
    /\ faults \in 0..MaxFaults

NoFiles == [s \in Stems |-> Absent]

Init ==
    /\ row = "owned"
    /\ pc = "start"
    /\ attempt = 1
    /\ strays = {}
    /\ listed = {}
    /\ uploaded = NoFiles
    /\ completed = FALSE
    /\ child = [a \in AllAttempts |-> "none"]
    /\ made = [a \in AllAttempts |-> FALSE]
    /\ writing = [a \in AllAttempts |-> Absent]
    /\ saved = [a \in AllAttempts |-> {}]
    /\ dir = FALSE
    /\ file = NoFiles
    /\ faults = 0

-----------------------------------------------------------------------------
(* The row *)

CancelRow ==
    /\ row # "cancelled"
    /\ row' = "cancelled"
    /\ UNCHANGED <<parentVars, childVars, fileVars, faults>>

LoseRow ==
    /\ row # "lost"
    /\ row' = "lost"
    /\ UNCHANGED <<parentVars, childVars, fileVars, faults>>

-----------------------------------------------------------------------------
(* A child: demucs_runner.py *)

\* args.output.mkdir(parents=True, exist_ok=True), after the inference.
MakeOutput(a) ==
    /\ child[a] = "running"
    /\ ~made[a]
    /\ made' = [made EXCEPT ![a] = TRUE]
    /\ dir' = TRUE
    /\ UNCHANGED <<row, parentVars, child, writing, saved, file, faults>>

\* save_audio opens the file ...
BeginStem(a, s) ==
    /\ child[a] = "running"
    /\ made[a] /\ dir
    /\ writing[a] = Absent
    /\ s \notin saved[a]
    /\ writing' = [writing EXCEPT ![a] = s]
    /\ file' = [file EXCEPT ![s] = [by |-> a, whole |-> FALSE]]
    /\ UNCHANGED <<row, parentVars, child, made, saved, dir, faults>>

\* ... and closes it: it is complete unless it was removed or opened again.
EndStem(a) ==
    LET s == writing[a]
    IN  /\ child[a] = "running"
        /\ s # Absent
        /\ writing' = [writing EXCEPT ![a] = Absent]
        /\ saved' = [saved EXCEPT ![a] = @ \cup {s}]
        /\ file' = IF file[s] = [by |-> a, whole |-> FALSE]
                   THEN [file EXCEPT ![s].whole = TRUE] ELSE file
        /\ UNCHANGED <<row, parentVars, child, made, dir, faults>>

\* It ends, by itself (also when its directory is gone) or with an error.
ChildEnds(a) ==
    /\ child[a] = "running"
    /\ \/ saved[a] = Stems /\ child' = [child EXCEPT ![a] = "exited"]
       \/ child' = [child EXCEPT ![a] = "failed"]
    /\ UNCHANGED <<row, parentVars, made, writing, saved, fileVars, faults>>

-----------------------------------------------------------------------------
(* The parent *)

Goto(l) == pc' = l
Move(from, to) ==
    /\ pc = from
    /\ Goto(to)
    /\ UNCHANGED <<row, attempt, completed, faults>>
At(from, to) == Move(from, to) /\ UNCHANGED strays

\* An exception that is not JobCancelled: the attempt has failed. It is raised by
\* a refused write, or by a call that fails.
Raises(from) ==
    /\ pc = from
    /\ Goto("failed")
    /\ \/ row = "lost" /\ UNCHANGED faults
       \/ faults < MaxFaults /\ faults' = faults + 1
    /\ UNCHANGED <<row, attempt, strays, listed, uploaded, completed, childVars, fileVars>>

\* JobCancelled outside run_demucs: handle_job's finally removes the workspace.
Cancelled(from) ==
    /\ row = "cancelled"
    /\ At(from, "ended")
    /\ dir' = FALSE
    /\ file' = NoFiles
    /\ UNCHANGED <<listed, uploaded, childVars>>

\* create_job_workspace, begin_job_attempt (which does not tell cancelled from
\* lost), then the input and the first reports.
StartAttempt ==
    /\ Move("start", IF row = "owned" THEN "spawn" ELSE "failed")
    /\ strays' = {a \in AllAttempts : a < attempt /\ child[a] = "running"}
    /\ dir' = FALSE
    /\ file' = NoFiles
    /\ UNCHANGED <<listed, uploaded, childVars>>

Spawn ==
    /\ row = "owned"
    /\ At("spawn", "watch")
    /\ child' = [child EXCEPT ![attempt] = "running"]
    /\ UNCHANGED <<listed, uploaded, made, writing, saved, fileVars>>

\* Mutant: the queue is read without a timeout, and this child prints nothing.
WatchBlocked ==
    /\ child[attempt] # "running"
    /\ At("watch", "drain")
    /\ UNCHANGED <<listed, uploaded, childVars, fileVars>>

\* Half a second without an event, or one whose progress was written.
Watch ==
    /\ At("watch", IF child[attempt] = "running" THEN "check" ELSE "drain")
    /\ UNCHANGED <<listed, uploaded, childVars, fileVars>>

CheckCancelled ==
    /\ row # "cancelled"
    /\ At("check", "watch")
    /\ UNCHANGED <<listed, uploaded, childVars, fileVars>>

\* Mutant: SIGTERM is sent, but the child's end is not waited for.
StopProcessUnwaited(from) ==
    /\ row = "cancelled"
    /\ At(from, "ended")
    /\ child' \in {child, [child EXCEPT ![attempt] = "killed"]}
    /\ dir' = FALSE
    /\ file' = NoFiles
    /\ UNCHANGED <<listed, uploaded, made, writing, saved>>

\* JobCancelled from a progress write or a check: terminate, wait, kill, wait.
StopProcess(from) ==
    /\ row = "cancelled"
    /\ At(from, "ended")
    /\ child' = [child EXCEPT ![attempt] = IF @ = "running" THEN "killed" ELSE @]
    /\ dir' = FALSE
    /\ file' = NoFiles
    /\ UNCHANGED <<listed, uploaded, made, writing, saved>>

\* Mutant: the return code is not looked at.
DrainUnchecked ==
    /\ At("drain", IF \E s \in Stems : file[s] # Absent THEN "upload" ELSE "failed")
    /\ listed' = {s \in Stems : file[s] # Absent}
    /\ uploaded' = NoFiles
    /\ UNCHANGED <<childVars, fileVars>>

\* The last lines, the return code, then the list of what is to be uploaded.
Drain ==
    /\ At("drain", IF child[attempt] = "exited" /\ \E s \in Stems : file[s] # Absent
                   THEN "upload" ELSE "failed")
    /\ listed' = {s \in Stems : file[s] # Absent}
    /\ uploaded' = NoFiles
    /\ UNCHANGED <<childVars, fileVars>>

UploadStem(s) ==
    /\ s \in listed
    /\ At("upload", IF file[s] = Absent THEN "failed" ELSE "report")
    /\ uploaded' = [uploaded EXCEPT ![s] = file[s]]
    /\ listed' = listed \ {s}
    /\ UNCHANGED <<childVars, fileVars>>

ReportStem ==
    /\ row = "owned"
    /\ At("report", IF listed = {} THEN "complete" ELSE "upload")
    /\ UNCHANGED <<listed, uploaded, childVars, fileVars>>

Complete ==
    /\ pc = "complete"
    /\ row = "owned"
    /\ Goto("ended")
    /\ completed' = TRUE
    /\ dir' = FALSE
    /\ file' = NoFiles
    /\ UNCHANGED <<row, attempt, strays, listed, uploaded, childVars, faults>>

\* Mutant: one attempt too many.
AfterFailureOnceMore ==
    /\ pc = "failed"
    /\ IF row = "owned" /\ attempt <= MaxAttempts
       THEN Goto("start") /\ attempt' = attempt + 1 /\ UNCHANGED fileVars
       ELSE Goto("ended") /\ dir' = FALSE /\ file' = NoFiles /\ UNCHANGED attempt
    /\ UNCHANGED <<row, strays, listed, uploaded, completed, childVars, faults>>

\* RETRYING, or the dead letter of the last attempt.
AfterFailure ==
    /\ pc = "failed"
    /\ IF row = "owned" /\ attempt < MaxAttempts
       THEN Goto("start") /\ attempt' = attempt + 1 /\ UNCHANGED fileVars
       ELSE Goto("ended") /\ dir' = FALSE /\ file' = NoFiles /\ UNCHANGED attempt
    /\ UNCHANGED <<row, strays, listed, uploaded, completed, childVars, faults>>

-----------------------------------------------------------------------------
\* What the parent does without an event from its child ...
Unprompted ==
    \/ StartAttempt \/ Spawn
    \/ Watch \/ CheckCancelled \/ StopProcess("check")
    \/ Drain \/ (\E s \in Stems : UploadStem(s)) \/ ReportStem
    \/ Complete \/ AfterFailure
    \/ \E l \in {"spawn", "drain", "report", "complete"} : Cancelled(l)

\* ... and with one, whose progress write finds the row cancelled.
Parent == Unprompted \/ StopProcess("watch")

Failures ==
    \E l \in {"spawn", "watch", "check", "drain", "upload", "report", "complete"} :
        Raises(l)

Next ==
    \/ CancelRow \/ LoseRow
    \/ Parent \/ Failures
    \/ \E a \in AllAttempts : \/ MakeOutput(a)
                              \/ \E s \in Stems : BeginStem(a, s)
                              \/ EndStem(a)
                              \/ ChildEnds(a)

Spec == Init /\ [][Next]_vars

\* The parent runs on. A child may hang, print nothing and never end.
FairSpec == Spec /\ WF_vars(Unprompted)

-----------------------------------------------------------------------------
(* Properties *)

\* A job completes with every stem, each read after its own child had written all of
\* it, or else a child of an earlier attempt still ran when the directory was made
\* clean, and saved into it ("Every attempt starts with a clean directory").
CompletedIsWhole ==
    completed => \/ \A s \in Stems : uploaded[s] = [by |-> attempt, whole |-> TRUE]
                 \/ \E a \in strays : made[a]

\* Wherever a cancellation is noticed, the attempt it ends leaves no child behind: a
\* child that ignores SIGTERM is killed, and waited for (_stop_process).
CancelledIsStopped ==
    [][row = "cancelled" /\ pc \notin {"failed", "ended"} /\ pc' = "ended"
          => child'[attempt] # "running"]_vars

\* Cancelling ends the work although the child never prints or ends (the comment
\* on the timeout of the queue).
CancelEndsWork == row = "cancelled" ~> pc = "ended" \/ row # "cancelled"

\* "Every attempt starts with a clean directory so failed partial output is removed"
\* (job_handler.py): what an attempt uploads is its own.
OwnResults ==
    completed => \A s \in Stems : uploaded[s] = [by |-> attempt, whole |-> TRUE]

=============================================================================

--------------------------- MODULE WorkerPresence ---------------------------
(***************************************************************************)
(* What a page says of the workers: the registry rows that the main thread *)
(* and the heartbeat thread of each worker write, the aggregate the API    *)
(* reads from them, and the page that asks for it every fifteen seconds.   *)
(* Every statement of a worker is a transaction on a connection of its own.*)
(***************************************************************************)
EXTENDS WorkerRegistry

threads == <<main, doing, beat>>
page == <<requests, display>>
reports == <<missed, lost, reset>>
observers == <<reports, left>>
vars == <<rows, threads, page, mishaps, observers>>

-----------------------------------------------------------------------------
Mishap == mishaps < MaxMishaps /\ mishaps' = mishaps + 1

\* The observers: what becomes of the last reports of workers, the rows that
\* running workers lose, and the end of a process.
Note(gone, renewed) ==
    /\ missed' = missed \cup gone
    /\ reset' = (reset \cup renewed) \ missed'

Lose(ws, renewed) ==
    LET running == {w \in ws : main[w] # "down"}
    IN  Note(running, renewed) /\ lost' = lost \cup running

Forget(w) ==
    /\ missed' = missed \ {w}
    /\ lost' = lost \ {w}
    /\ reset' = reset \ {w}

-----------------------------------------------------------------------------
(* worker_registry.py.                                                      *)

\* Rows older than a day are deleted, whoever they belong to; the own row is
\* inserted or reset.
Registered(w) ==
    [v \in Workers |->
        IF v = w THEN [activity |-> "idle", age |-> "fresh"]
        ELSE IF rows[v].age = "old" THEN NoRow ELSE rows[v]]

Swept(w) == {v \in Workers \ {w} : rows[v].age = "old"}

RegisterWorker(w, renewed) ==
    /\ rows' = Registered(w)
    /\ Lose(Swept(w), renewed)

HasRow(w) == rows[w] # NoRow

\* The report reaches the row.
SetActivity(w) ==
    /\ rows' = [rows EXCEPT ![w] = [activity |-> doing[w], age |-> "fresh"]]
    /\ missed' = missed \ {w}
    /\ reset' = reset \ {w}
    /\ UNCHANGED lost

-----------------------------------------------------------------------------
(* The main thread.                                                         *)

Goto(w, pc) == main' = [main EXCEPT ![w] = pc]
Rest(w) == Goto(w, IF doing[w] = "busy" THEN "work" ELSE "poll")

\* The container starts, or is started again; a registration that fails ends
\* the process, as if it had not started.
Start(w) ==
    /\ main[w] = "down"
    /\ RegisterWorker(w, {})
    /\ left' = left \ {w}
    /\ beat' = [beat EXCEPT ![w] = "wait"]
    /\ Goto(w, "poll")
    /\ UNCHANGED <<doing, page, mishaps>>

MarkBusy(w) ==
    /\ main[w] = "poll"
    /\ doing' = [doing EXCEPT ![w] = "busy"]
    /\ Goto(w, "report")
    /\ UNCHANGED <<rows, beat, page, mishaps, observers>>

\* The end of a job, however it ended.
MarkIdle(w) ==
    /\ main[w] = "work"
    /\ doing' = [doing EXCEPT ![w] = "idle"]
    /\ Goto(w, "report")
    /\ UNCHANGED <<rows, beat, page, mishaps, observers>>

\* _set_activity: a missing row is registered, and the activity set again; a
\* statement that fails is only logged.
Report(w) ==
    /\ main[w] \in {"report", "register", "again"}
    /\ \/ /\ main[w] = "register"
          /\ RegisterWorker(w, {})
          /\ Goto(w, "again")
          /\ UNCHANGED mishaps
       \/ /\ main[w] # "register" /\ HasRow(w)
          /\ SetActivity(w)
          /\ Rest(w)
          /\ UNCHANGED mishaps
       \/ /\ main[w] # "register" /\ ~HasRow(w)
          /\ IF main[w] = "report" THEN Goto(w, "register") ELSE Rest(w)
          /\ UNCHANGED <<rows, reports, mishaps>>
       \/ /\ Mishap
          /\ Rest(w)
          /\ Note({w}, {})
          /\ UNCHANGED <<rows, lost>>
    /\ UNCHANGED <<doing, beat, page, left>>

\* The stop event is set between two jobs.
Stop(w) ==
    /\ main[w] = "poll"
    /\ Goto(w, "join")
    /\ UNCHANGED <<rows, doing, beat, page, mishaps, observers>>

UnregisterAtOnce(w) ==
    /\ main[w] = "join"
    /\ Goto(w, "down")
    /\ \/ /\ rows' = [rows EXCEPT ![w] = NoRow]
          /\ left' = left \cup {w}
          /\ UNCHANGED mishaps
       \/ Mishap /\ UNCHANGED <<rows, left>>
    /\ Forget(w)
    /\ UNCHANGED <<doing, beat, page>>

\* The heartbeat thread is joined before the row is removed.
Unregister(w) ==
    /\ main[w] = "join"
    /\ beat[w] = "off"
    /\ Goto(w, "down")
    /\ \/ /\ rows' = [rows EXCEPT ![w] = NoRow]
          /\ left' = left \cup {w}
          /\ UNCHANGED mishaps
       \/ Mishap /\ UNCHANGED <<rows, left>>
    /\ Forget(w)
    /\ UNCHANGED <<doing, beat, page>>

Crash(w) ==
    /\ main[w] # "down"
    /\ Goto(w, "down")
    /\ beat' = [beat EXCEPT ![w] = "off"]
    /\ doing' = [doing EXCEPT ![w] = "idle"]
    /\ Forget(w)
    /\ UNCHANGED <<rows, page, mishaps, left>>

-----------------------------------------------------------------------------
(* The heartbeat thread.                                                    *)

RefreshBlindly(w) ==
    /\ beat[w] = "wait"
    /\ main[w] # "join"
    /\ HasRow(w)
    /\ rows' = [rows EXCEPT ![w].age = "fresh"]
    /\ UNCHANGED <<threads, page, mishaps, observers>>

RefreshUncaught(w) ==
    /\ beat[w] = "wait"
    /\ main[w] # "join"
    /\ \/ /\ HasRow(w)
          /\ rows' = [rows EXCEPT ![w].age = "fresh"]
          /\ UNCHANGED <<beat, mishaps>>
       \/ /\ ~HasRow(w)
          /\ beat' = [beat EXCEPT ![w] = "register"]
          /\ UNCHANGED <<rows, mishaps>>
       \/ Mishap /\ beat' = [beat EXCEPT ![w] = "off"] /\ UNCHANGED rows
    /\ UNCHANGED <<main, doing, page, observers>>

\* Mutant: every heartbeat registers the worker.
RefreshByRegistering(w) ==
    /\ beat[w] = "wait"
    /\ main[w] # "join"
    /\ \/ /\ beat' = [beat EXCEPT ![w] = "register"]
          /\ UNCHANGED mishaps
       \/ Mishap /\ UNCHANGED beat
    /\ UNCHANGED <<rows, main, doing, page, observers>>

\* The update tells whether there is a row; the registration that follows is a
\* transaction of its own.
Refresh(w) ==
    /\ beat[w] = "wait"
    /\ main[w] # "join"
    /\ \/ /\ HasRow(w)
          /\ rows' = [rows EXCEPT ![w].age = "fresh"]
          /\ UNCHANGED <<beat, mishaps>>
       \/ /\ ~HasRow(w)
          /\ beat' = [beat EXCEPT ![w] = "register"]
          /\ UNCHANGED <<rows, mishaps>>
       \/ Mishap /\ UNCHANGED <<rows, beat>>
    /\ UNCHANGED <<main, doing, page, observers>>

Reregister(w) ==
    /\ beat[w] = "register"
    /\ beat' = [beat EXCEPT ![w] = "wait"]
    /\ \/ RegisterWorker(w, {w}) /\ UNCHANGED mishaps
       \/ Mishap /\ UNCHANGED <<rows, reports>>
    /\ UNCHANGED <<main, doing, page, left>>

EndThread(w) ==
    /\ beat[w] = "wait"
    /\ main[w] = "join"
    /\ beat' = [beat EXCEPT ![w] = "off"]
    /\ UNCHANGED <<rows, main, doing, page, mishaps, observers>>

-----------------------------------------------------------------------------
(* Time, and rows lost to an administrator.                                 *)

\* The timeout of a row, then a day, passes without a heartbeat.
Age(w) ==
    /\ HasRow(w)
    /\ rows[w].age # "old"
    /\ rows' = [rows EXCEPT ![w].age = IF @ = "fresh" THEN "late" ELSE "old"]
    /\ IF main[w] = "down" THEN UNCHANGED mishaps ELSE Mishap
    /\ UNCHANGED <<threads, page, observers>>

LoseRow(w) ==
    /\ HasRow(w)
    /\ Mishap
    /\ rows' = [rows EXCEPT ![w] = NoRow]
    /\ Lose({w}, {})
    /\ UNCHANGED <<threads, page, left>>

-----------------------------------------------------------------------------
(* The API and the page.                                                    *)

Online == {w \in Workers : HasRow(w) /\ rows[w].age = "fresh"}

\* describeWorkerAvailability of the aggregate.
Availability ==
    IF Online = {} THEN "offline"
    ELSE IF \E w \in Online : rows[w].activity = "idle" THEN "available"
    ELSE "busy"

Become(r, answer) == requests' = [requests EXCEPT ![r] = answer]

\* The interval does not wait for the answer before.
Ask(r) ==
    /\ requests[r] = "none"
    /\ Become(r, "sent")
    /\ UNCHANGED <<rows, threads, display, mishaps, observers>>

Serve(r) ==
    /\ requests[r] = "sent"
    /\ \/ Become(r, Availability) /\ UNCHANGED mishaps
       \/ Mishap /\ Become(r, "failed")
    /\ UNCHANGED <<rows, threads, display, observers>>

\* A failed request proves nothing about the workers.
Arrive(r) ==
    /\ requests[r] \in Answers \cup {"failed"}
    /\ display' = IF requests[r] = "failed" THEN "unknown" ELSE requests[r]
    /\ Become(r, "none")
    /\ UNCHANGED <<rows, threads, mishaps, observers>>

-----------------------------------------------------------------------------
Init ==
    /\ rows = [w \in Workers |-> NoRow]
    /\ main = [w \in Workers |-> "down"]
    /\ doing = [w \in Workers |-> "idle"]
    /\ beat = [w \in Workers |-> "off"]
    /\ requests = [r \in Requests |-> "none"]
    /\ display = "unknown"
    /\ mishaps = 0
    /\ missed = {}
    /\ lost = {}
    /\ reset = {}
    /\ left = {}

MainThread(w) ==
    \/ Start(w) \/ MarkBusy(w) \/ MarkIdle(w) \/ Report(w)
    \/ Stop(w) \/ Unregister(w) \/ Crash(w)

HeartbeatThread(w) == Refresh(w) \/ Reregister(w) \/ EndThread(w)

Page(r) == Ask(r) \/ Serve(r) \/ Arrive(r)

Next ==
    \/ \E w \in Workers :
        MainThread(w) \/ HeartbeatThread(w) \/ Age(w) \/ LoseRow(w)
    \/ \E r \in Requests : Page(r)

\* The heartbeat thread runs while Demucs does, reports and joins end, time
\* passes for a row without a worker, and the interval of the page goes on.
Fairness ==
    /\ \A w \in Workers :
        /\ WF_vars(HeartbeatThread(w))
        /\ WF_vars(Report(w) \/ Unregister(w))
        /\ WF_vars(main[w] = "down" /\ Age(w))
    /\ \A r \in Requests : WF_vars(Page(r))

Spec == Init /\ [][Next]_vars
FairSpec == Spec /\ Fairness

-----------------------------------------------------------------------------
\* A worker that stays up is shown for good, although its row was lost or
\* aged, or answers overtook each other; and when all have gone, in whatever
\* way, the page says so for good (useWorkerAvailability, _run).
PageFollowsWorkers ==
    /\ \A w \in Workers : <>[]Up(w) => <>[](display \in {"busy", "available"})
    /\ <>[](\A w \in Workers : main[w] = "down") => <>[](display = "offline")
=============================================================================

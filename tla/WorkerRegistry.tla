--------------------------- MODULE WorkerRegistry ---------------------------
(***************************************************************************)
(* The state that the workers, the API and the page share about who is     *)
(* there to process jobs, the values it ranges over, and what its rows are *)
(* to say at every moment. WorkerPresence is the behaviour.                *)
(***************************************************************************)
EXTENDS Naturals

CONSTANTS
    Workers,
    Requests,    \* bound on the availability requests in flight
    MaxMishaps   \* bound on failed statements and calls, lost rows and delays

ASSUME PresenceAssumption == MaxMishaps \in Nat

VARIABLES
    rows,      \* worker_instances: the activity of each row and its age
    main,      \* where the main thread is
    doing,     \* the activity it has reported, or is about to report
    beat,      \* where the heartbeat thread is
    requests,  \* the answer of each availability request
    display,   \* workerAvailability of the page
    mishaps,
    missed,    \* observer: whose row was lost, or report failed, since the last that arrived
    lost,      \* observer: whose row was lost since the process started
    reset,     \* observer: whom the heartbeat registered again since the last report
    left       \* observer: whose row was removed by a graceful stop

-----------------------------------------------------------------------------
Activities == {"idle", "busy"}
NoRow == [activity |-> "none", age |-> "fresh"]
Answers == {"offline", "busy", "available"}

Up(w) == main[w] \notin {"down", "join"}

RegistryTypeOK ==
    /\ rows \in [Workers -> {NoRow} \cup
                    [activity : Activities, age : {"fresh", "late", "old"}]]
    /\ main \in [Workers -> {"down", "poll", "report", "register", "again",
                             "work", "join"}]
    /\ doing \in [Workers -> Activities]
    /\ beat \in [Workers -> {"off", "wait", "register"}]
    /\ requests \in [Requests -> Answers \cup {"none", "sent", "failed"}]
    /\ display \in Answers \cup {"unknown"}
    /\ mishaps \in 0..MaxMishaps
    /\ {missed, lost, reset, left} \subseteq SUBSET Workers
    /\ \A w \in Workers :
        /\ Up(w) => beat[w] # "off"
        /\ main[w] = "down" => beat[w] = "off"

\* Between two reports the row says what the worker does, unless it was lost or
\* a report failed since. One more row does not: the heartbeat thread found none
\* and registers the worker, as IDLE, when the main thread has done the same and
\* reported. That costs a row that was lost, and stands until the next report.
ReportsStand ==
    \A w \in Workers :
        main[w] \in {"poll", "work"} /\ rows[w].activity # doing[w]
            => w \in missed \/ w \in reset \cap lost

\* No late heartbeat brings the row of a worker back that removed it.
StoppedStayAway ==
    \A w \in Workers : main[w] = "down" /\ w \in left => rows[w] = NoRow

\* What a row says of its worker, although two threads write it in transactions
\* of their own (_set_activity, _run, WorkerPresence.stop).
PresenceIsTrue == ReportsStand /\ StoppedStayAway
=============================================================================

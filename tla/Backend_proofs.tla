--------------------------- MODULE Backend_proofs ---------------------------
(***************************************************************************)
(* For any number of replicas, events and faults: the rows of the outbox   *)
(* and the passes of the publisher are well formed, no copy of an event is *)
(* sent that no fault accounts for, shutdown takes nothing away that is in *)
(* use, and every step of the backend is one the outbox promises.          *)
(***************************************************************************)
EXTENDS Backend, FiniteSetTheorems, TLAPS

USE BackendAssumption

-----------------------------------------------------------------------------
(* The operators of the model.                                              *)

LEMMA MinIsLeast ==
    ASSUME NEW S \in SUBSET Nat, S # {}
    PROVE  Min(S) \in S
<1>1. \E x \in S : \A y \in S : ~(<<y, x>> \in OpToRel(<, Nat))
  BY NatLessThanWellFounded, WFMin
<1>2. \A x, y \in Nat : y < x => <<y, x>> \in OpToRel(<, Nat)
  BY Zenon DEF OpToRel
<1>3. \E x \in S : \A y \in S : ~(y < x)
  BY <1>1, <1>2, Zenon
<1>4. \E x \in S : \A y \in S : x <= y
  BY <1>3
<1>5. QED
  BY <1>4 DEF Min

LEMMA OldestAreAmong ==
    ASSUME NEW events
    PROVE  Oldest(events) \subseteq events
BY DEF Oldest

\* The requests that may still insert an event, and the starts of the status
\* consumer that have failed, for which a fault is spent.
Handling == {r \in Replicas : open[r]}
Failing  == {r \in Replicas : listener[r] = "cleaning"}

LEMMA HandlingCounted ==
    Quantify(Replicas, LAMBDA q : open[q]) = Cardinality(Handling)
BY Zenon DEF Quantify, Handling

LEMMA CountOfReplicas ==
    ASSUME NEW S \in SUBSET Replicas, NEW r \in Replicas
    PROVE  /\ Cardinality(S) \in Nat
           /\ Cardinality(S \ {r}) \in Nat
           /\ Cardinality(S \ {r}) = IF r \in S THEN Cardinality(S) - 1 ELSE Cardinality(S)
           /\ Cardinality(S \cup {r}) = IF r \in S THEN Cardinality(S) ELSE Cardinality(S) + 1
<1>1. IsFiniteSet(S)
  BY FS_Subset
<1>2. IsFiniteSet(S \ {r})
  BY <1>1, FS_Subset
<1>3. QED
  BY <1>1, <1>2, FS_CardinalityType, FS_AddElement, FS_RemoveElement

-----------------------------------------------------------------------------
(* Types.                                                                   *)

\* What the type invariant says of each group of variables; without the bound on
\* copies, which is a fact about the faults.
FlagsTyped ==
    /\ tick \in [Replicas -> BOOLEAN]
    /\ linked \in [Replicas -> BOOLEAN]
    /\ retry \in [Replicas -> BOOLEAN]
    /\ open \in [Replicas -> BOOLEAN]

PhasesTyped ==
    /\ proc \in [Replicas -> {"up", "stopping", "unlinking", "ending", "down"}]
    /\ listener \in [Replicas -> {"none", "starting", "cleaning", "running", "dead"}]
    /\ faults \in 0..MaxFaults
    /\ signals \in 0..MaxSignals

WebTyped == web \in [Replicas -> Sockets]

WellFormed(p) ==
    /\ p \in Passes
    /\ p.marked \subseteq p.handled
    /\ p.handled \subseteq p.claimed
    /\ p.pc \in {"idle", "connecting", "selecting"} => p.claimed = {}
    /\ p.pc \in {"marking", "noting"} => p.claimed # p.handled

PassesTyped ==
    /\ pub \in [Replicas -> Passes]
    /\ \A r \in Replicas : WellFormed(pub[r])

\* The guard of BeginRequest keeps room for the events of the requests that are
\* being handled.
RowsTyped ==
    /\ created \in Nat
    /\ created + Cardinality(Handling) <= MaxEvents
    /\ published \subseteq 1..created
    /\ copies \in [Events -> Nat]

\* A process that is not up starts nothing; one that has stopped has nothing to
\* wait for.
LifeInv ==
    \A r \in Replicas :
        /\ proc[r] # "up" => ~tick[r] /\ ~retry[r]
        /\ retry[r] => listener[r] = "none"
        /\ proc[r] \in {"unlinking", "ending", "down"} =>
               /\ pub[r].pc = "idle" /\ listener[r] = "none"
               /\ ~open[r] /\ ~web[r].closing

\* What a pass has claimed is submitted, pending and its own; what it is about to
\* mark it has sent, and what is published was sent.
OwnLocks(r) ==
    /\ pub[r].claimed \subseteq 1..created
    /\ pub[r].claimed \cap published = {}
    /\ pub[r].pc = "marking" => copies[Current(r)] > 0
    /\ \A e \in pub[r].marked : copies[e] > 0

LockInv ==
    /\ \A r \in Replicas : OwnLocks(r)
    /\ \A r, q \in Replicas : r # q => pub[r].claimed \cap pub[q].claimed = {}
    /\ \A e \in Events : copies[e] > 0 => e <= created
    /\ \A e \in published : copies[e] > 0

TypeInv == FlagsTyped /\ PhasesTyped /\ WebTyped /\ PassesTyped /\ RowsTyped

\* What the WebSockets of a closing process do touches nothing else, and opens no
\* socket.
LEMMA WebSocketsApart ==
    ASSUME WebTyped, NEW r \in Replicas, UseWebSockets(r)
    PROVE  /\ UNCHANGED <<rows, copies, proc, tick, pub, linked, status, open, faults, signals>>
           /\ \E s \in Sockets : /\ web' = [web EXCEPT ![r] = s]
                                 /\ s.closing => web[r].closing
<1> USE DEF WebTyped, Sockets
<1>1. ASSUME NEW s \in Sockets, Become(r, s), s.closing => web[r].closing
      PROVE  /\ UNCHANGED <<rows, copies, proc, tick, pub, linked, status, open, faults,
                            signals>>
             /\ \E t \in Sockets : /\ web' = [web EXCEPT ![r] = t]
                                   /\ t.closing => web[r].closing
  BY <1>1, Zenon DEF Become
<1>2. CASE SocketsClose(r)
  <2>1. [web[r] EXCEPT !.closing = FALSE] \in Sockets
    OBVIOUS
  <2>2. ~[web[r] EXCEPT !.closing = FALSE].closing
    OBVIOUS
  <2>3. QED
    BY <1>1, <1>2, <2>1, <2>2 DEF SocketsClose
<1>3. CASE QueryEnds(r)
  <2>1. PICK reads \in SUBSET {"command", "refresh"}, timer \in BOOLEAN :
           Become(r, [web[r] EXCEPT !.reads = reads, !.timer = timer])
    BY <1>3 DEF QueryEnds, CommandAnswered, RefreshEnds
  <2>2. /\ [web[r] EXCEPT !.reads = reads, !.timer = timer] \in Sockets
        /\ [web[r] EXCEPT !.reads = reads, !.timer = timer].closing = web[r].closing
    OBVIOUS
  <2>3. QED
    BY <1>1, <2>1, <2>2
<1>4. CASE IntervalFires(r)
  <2>1. /\ [web[r] EXCEPT !.reads = @ \cup {"refresh"}] \in Sockets
        /\ [web[r] EXCEPT !.reads = @ \cup {"refresh"}].closing = web[r].closing
    OBVIOUS
  <2>2. QED
    BY <1>1, <1>4, <2>1 DEF IntervalFires
<1>5. QED
  BY <1>2, <1>3, <1>4 DEF UseWebSockets

LEMMA WebStep == WebTyped /\ [Next]_vars => WebTyped'
<1> SUFFICES ASSUME WebTyped, [Next]_vars PROVE WebTyped'
  OBVIOUS
<1>1. UNCHANGED web => WebTyped'
  BY DEF WebTyped
<1>2. ASSUME NEW r \in Replicas, NEW s \in Sockets, web' = [web EXCEPT ![r] = s]
      PROVE  WebTyped'
  BY <1>2 DEF WebTyped
<1>3. ASSUME NEW r \in Replicas, Exit(r) PROVE WebTyped'
  BY <1>2, <1>3 DEF Exit, NoSockets, Sockets
<1>4. ASSUME NEW r \in Replicas, Publish(r) PROVE WebTyped'
  BY <1>1, <1>4 DEF Publish, Tick, ConnectProducer, Claim, Send, Mark, NoteFailure,
                    CommitBatch, Rollback, process
<1>5. ASSUME NEW r \in Replicas, Listen(r) PROVE WebTyped'
  BY <1>1, <1>3, <1>5 DEF Listen, StartConsumer, StartFailed, RetryFires, Listening, process
<1>6. ASSUME NEW r \in Replicas, AllStopped(r) PROVE WebTyped'
  BY <1>2, <1>6 DEF AllStopped
<1>7. ASSUME NEW r \in Replicas, StopConsumer(r) \/ DisconnectProducer(r) \/ EndPool(r)
      PROVE WebTyped'
  BY <1>1, <1>3, <1>7 DEF StopConsumer, DisconnectProducer, EndPool, Listening, process
<1>8. ASSUME NEW r \in Replicas, Crash(r) \/ ForceExit(r) PROVE WebTyped'
  BY <1>3, <1>8 DEF Crash, ForceExit
<1>9. ASSUME NEW r \in Replicas, RunFails(r) \/ Boot(r) \/ BeginRequest(r) \/ EndRequest(r)
      PROVE WebTyped'
  BY <1>1, <1>9 DEF RunFails, Boot, BeginRequest, EndRequest, Listening, process
<1>10. ASSUME NEW r \in Replicas, Shutdown(r) PROVE WebTyped'
  BY <1>10 DEF Shutdown, WebTyped, Sockets
<1>11. ASSUME NEW r \in Replicas, UseWebSockets(r) PROVE WebTyped'
  BY <1>2, <1>11, WebSocketsApart
<1>12. CASE UNCHANGED vars
  BY <1>1, <1>12 DEF vars
<1>13. QED
  BY <1>4, <1>5, <1>6, <1>7, <1>8, <1>9, <1>10, <1>11, <1>12 DEF Next, Stop

LEMMA ExitKeepsFlags ==
    ASSUME FlagsTyped, NEW r \in Replicas, Exit(r)
    PROVE  FlagsTyped'
BY Zenon DEF FlagsTyped, Exit

LEMMA FlagsStep == FlagsTyped /\ WebTyped /\ [Next]_vars => FlagsTyped'
<1> SUFFICES ASSUME FlagsTyped, WebTyped, [Next]_vars PROVE FlagsTyped'
  OBVIOUS
<1> USE DEF rows, process, status
<1>1. ASSUME NEW r \in Replicas, Tick(r) PROVE FlagsTyped'
  BY <1>1, Zenon DEF Tick, FlagsTyped
<1>2. ASSUME NEW r \in Replicas, ConnectProducer(r) PROVE FlagsTyped'
  BY <1>2, Zenon DEF ConnectProducer, FlagsTyped
<1>3. ASSUME NEW r \in Replicas, Claim(r) PROVE FlagsTyped'
  BY <1>3, Zenon DEF Claim, FlagsTyped
<1>4. ASSUME NEW r \in Replicas, Send(r) PROVE FlagsTyped'
  BY <1>4, Zenon DEF Send, FlagsTyped
<1>5. ASSUME NEW r \in Replicas, Mark(r) PROVE FlagsTyped'
  BY <1>5, Zenon DEF Mark, FlagsTyped
<1>6. ASSUME NEW r \in Replicas, NoteFailure(r) PROVE FlagsTyped'
  BY <1>6, Zenon DEF NoteFailure, FlagsTyped
<1>7. ASSUME NEW r \in Replicas, CommitBatch(r) PROVE FlagsTyped'
  BY <1>7, Zenon DEF CommitBatch, FlagsTyped
<1>8. ASSUME NEW r \in Replicas, Rollback(r) PROVE FlagsTyped'
  BY <1>8, Zenon DEF Rollback, FlagsTyped
<1>9. ASSUME NEW r \in Replicas, StartConsumer(r) PROVE FlagsTyped'
  BY <1>9, Zenon DEF StartConsumer, FlagsTyped, Listening
<1>10. ASSUME NEW r \in Replicas, StartFailed(r) PROVE FlagsTyped'
  <2>1. CASE Exit(r)
    BY <2>1, ExitKeepsFlags
  <2>2. CASE ~Exit(r)
    <3>1. /\ retry' = retry \/ retry' = [retry EXCEPT ![r] = TRUE]
          /\ UNCHANGED <<tick, linked, open>>
      BY <1>10, <2>2 DEF StartFailed, Listening
    <3>2. QED
      BY <3>1, Zenon DEF FlagsTyped
  <2>3. QED
    BY <2>1, <2>2
<1>11. ASSUME NEW r \in Replicas, RetryFires(r) PROVE FlagsTyped'
  BY <1>11, Zenon DEF RetryFires, FlagsTyped, Listening
<1>12. ASSUME NEW r \in Replicas, StopConsumer(r) PROVE FlagsTyped'
  <2>1. CASE Exit(r)
    BY <2>1, ExitKeepsFlags
  <2>2. CASE ~Exit(r)
    <3>1. UNCHANGED <<tick, linked, retry, open>>
      BY <1>12, <2>2 DEF StopConsumer, Listening
    <3>2. QED
      BY <3>1, Zenon DEF FlagsTyped
  <2>3. QED
    BY <2>1, <2>2
<1>13. ASSUME NEW r \in Replicas, AllStopped(r) PROVE FlagsTyped'
  BY <1>13, Zenon DEF AllStopped, FlagsTyped, Phase
<1>14. ASSUME NEW r \in Replicas, DisconnectProducer(r) PROVE FlagsTyped'
  <2>1. CASE Exit(r)
    BY <2>1, ExitKeepsFlags
  <2>2. CASE ~Exit(r)
    <3>1. /\ linked' = [linked EXCEPT ![r] = FALSE]
          /\ UNCHANGED <<tick, retry, open>>
      BY <1>14, <2>2 DEF DisconnectProducer
    <3>2. QED
      BY <3>1, Zenon DEF FlagsTyped
  <2>3. QED
    BY <2>1, <2>2
<1>15. ASSUME NEW r \in Replicas, EndPool(r) PROVE FlagsTyped'
  BY <1>15, ExitKeepsFlags DEF EndPool
<1>16. ASSUME NEW r \in Replicas, RunFails(r) PROVE FlagsTyped'
  BY <1>16, Zenon DEF RunFails, FlagsTyped, Listening
<1>17. ASSUME NEW r \in Replicas, Crash(r) PROVE FlagsTyped'
  BY <1>17, ExitKeepsFlags DEF Crash
<1>18. ASSUME NEW r \in Replicas, ForceExit(r) PROVE FlagsTyped'
  BY <1>18, ExitKeepsFlags DEF ForceExit
<1>19. ASSUME NEW r \in Replicas, Boot(r) PROVE FlagsTyped'
  <2>1. /\ tick' = [tick EXCEPT ![r] = TRUE]
        /\ UNCHANGED <<linked, retry, open>>
    BY <1>19 DEF Boot
  <2>2. QED
    BY <2>1, Zenon DEF FlagsTyped
<1>20. ASSUME NEW r \in Replicas, BeginRequest(r) PROVE FlagsTyped'
  BY <1>20, Zenon DEF BeginRequest, FlagsTyped
<1>21. ASSUME NEW r \in Replicas, EndRequest(r) PROVE FlagsTyped'
  BY <1>21, Zenon DEF EndRequest, FlagsTyped
<1>22. ASSUME NEW r \in Replicas, Shutdown(r) PROVE FlagsTyped'
  BY <1>22, Zenon DEF Shutdown, FlagsTyped, Phase
<1>23. CASE UNCHANGED vars
  BY <1>23 DEF vars, FlagsTyped
<1>24. ASSUME NEW r \in Replicas, UseWebSockets(r) PROVE FlagsTyped'
  BY <1>24, WebSocketsApart, Zenon DEF FlagsTyped
<1>25. QED
  BY <1>1, <1>2, <1>3, <1>4, <1>5, <1>6, <1>7, <1>8, <1>9, <1>10, <1>11, <1>12,
     <1>13, <1>14, <1>15, <1>16, <1>17, <1>18, <1>19, <1>20, <1>21, <1>22, <1>23, <1>24
     DEF Next, Publish, Listen, Stop

LEMMA PhasesStep == PhasesTyped /\ WebTyped /\ [Next]_vars => PhasesTyped'
<1> SUFFICES ASSUME PhasesTyped, WebTyped, [Next]_vars PROVE PhasesTyped'
  OBVIOUS
<1> USE DEF PhasesTyped, process, status, Works, Fault
<1>1. ASSUME NEW r \in Replicas, Tick(r) PROVE PhasesTyped'
  BY <1>1 DEF Tick
<1>2. ASSUME NEW r \in Replicas, ConnectProducer(r) PROVE PhasesTyped'
  BY <1>2 DEF ConnectProducer
<1>3. ASSUME NEW r \in Replicas, Claim(r) PROVE PhasesTyped'
  BY <1>3 DEF Claim
<1>4. ASSUME NEW r \in Replicas, Send(r) PROVE PhasesTyped'
  BY <1>4 DEF Send
<1>5. ASSUME NEW r \in Replicas, Mark(r) PROVE PhasesTyped'
  BY <1>5 DEF Mark
<1>6. ASSUME NEW r \in Replicas, NoteFailure(r) PROVE PhasesTyped'
  BY <1>6 DEF NoteFailure
<1>7. ASSUME NEW r \in Replicas, CommitBatch(r) PROVE PhasesTyped'
  BY <1>7 DEF CommitBatch
<1>8. ASSUME NEW r \in Replicas, Rollback(r) PROVE PhasesTyped'
  BY <1>8 DEF Rollback
<1>9. ASSUME NEW r \in Replicas, StartConsumer(r) PROVE PhasesTyped'
  BY <1>9 DEF StartConsumer, Listening
<1>10. ASSUME NEW r \in Replicas, StartFailed(r) PROVE PhasesTyped'
  BY <1>10 DEF StartFailed, Exit, Listening
<1>11. ASSUME NEW r \in Replicas, RetryFires(r) PROVE PhasesTyped'
  BY <1>11 DEF RetryFires, Listening
<1>12. ASSUME NEW r \in Replicas, StopConsumer(r) PROVE PhasesTyped'
  BY <1>12 DEF StopConsumer, Exit, Listening
<1>13. ASSUME NEW r \in Replicas, AllStopped(r) PROVE PhasesTyped'
  BY <1>13 DEF AllStopped, Phase
<1>14. ASSUME NEW r \in Replicas, DisconnectProducer(r) PROVE PhasesTyped'
  BY <1>14 DEF DisconnectProducer, Exit, Phase
<1>15. ASSUME NEW r \in Replicas, EndPool(r) PROVE PhasesTyped'
  BY <1>15 DEF EndPool, Exit
<1>16. ASSUME NEW r \in Replicas, RunFails(r) PROVE PhasesTyped'
  BY <1>16 DEF RunFails, Listening
<1>17. ASSUME NEW r \in Replicas, Crash(r) PROVE PhasesTyped'
  BY <1>17 DEF Crash, Exit
<1>18. ASSUME NEW r \in Replicas, ForceExit(r) PROVE PhasesTyped'
  BY <1>18 DEF ForceExit, Exit
<1>19. ASSUME NEW r \in Replicas, Boot(r) PROVE PhasesTyped'
  BY <1>19 DEF Boot
<1>20. ASSUME NEW r \in Replicas, BeginRequest(r) PROVE PhasesTyped'
  BY <1>20 DEF BeginRequest
<1>21. ASSUME NEW r \in Replicas, EndRequest(r) PROVE PhasesTyped'
  BY <1>21 DEF EndRequest
<1>22. ASSUME NEW r \in Replicas, Shutdown(r) PROVE PhasesTyped'
  BY <1>22 DEF Shutdown, Phase
<1>23. CASE UNCHANGED vars
  BY <1>23 DEF vars
<1>24. ASSUME NEW r \in Replicas, UseWebSockets(r) PROVE PhasesTyped'
  BY <1>24, WebSocketsApart
<1>25. QED
  BY <1>1, <1>2, <1>3, <1>4, <1>5, <1>6, <1>7, <1>8, <1>9, <1>10, <1>11, <1>12,
     <1>13, <1>14, <1>15, <1>16, <1>17, <1>18, <1>19, <1>20, <1>21, <1>22, <1>23, <1>24
     DEF Next, Publish, Listen, Stop

-----------------------------------------------------------------------------
(* Steps of a pass.                                                         *)

\* The pass of r is at pc and has claimed, handled and marked these rows; the
\* passes of the others are where they were.
Becomes(r, pc, claimed, handled, marked) ==
    pub' = [q \in Replicas |->
        IF q = r THEN [pc |-> pc, claimed |-> claimed, handled |-> handled,
                       marked |-> marked]
                 ELSE pub[q]]

LEMMA PassGoes ==
    ASSUME PassesTyped, NEW r \in Replicas, NEW pc, pub' = [pub EXCEPT ![r].pc = pc]
    PROVE  Becomes(r, pc, pub[r].claimed, pub[r].handled, pub[r].marked)
<1>1. pub[r] \in Passes
  BY DEF PassesTyped
<1>2. [pub[r] EXCEPT !.pc = pc] =
        [pc |-> pc, claimed |-> pub[r].claimed, handled |-> pub[r].handled,
         marked |-> pub[r].marked]
  BY <1>1 DEF Passes
<1>3. pub' = [pub EXCEPT ![r] = [pub[r] EXCEPT !.pc = pc]]
  OBVIOUS
<1>4. QED
  BY <1>2, <1>3 DEF Becomes, PassesTyped

LEMMA PassEnds ==
    ASSUME PassesTyped, NEW r \in Replicas, pub' = [pub EXCEPT ![r] = Idle]
    PROVE  Becomes(r, "idle", {}, {}, {})
BY DEF PassesTyped, Becomes, Idle

LEMMA PassClaims ==
    ASSUME PassesTyped, NEW r \in Replicas, NEW taken \in SUBSET Events,
           NEW pc \in {"sending", "rollback"},
           pub' = [pub EXCEPT ![r].pc = pc, ![r].claimed = taken]
    PROVE  Becomes(r, pc, taken, pub[r].handled, pub[r].marked)
<1>1. pub[r] \in Passes
  BY DEF PassesTyped
<1>2. pub' = [pub EXCEPT ![r] = pub'[r]]
  BY DEF PassesTyped
<1>3. /\ pub'[r].pc = pc /\ pub'[r].claimed = taken
      /\ pub'[r].handled = pub[r].handled /\ pub'[r].marked = pub[r].marked
      /\ pub'[r] \in Passes
  BY <1>1 DEF PassesTyped, Passes
<1>4. pub'[r] = [pc |-> pc, claimed |-> taken, handled |-> pub[r].handled,
                 marked |-> pub[r].marked]
  BY <1>3 DEF Passes
<1>5. QED
  BY <1>2, <1>4 DEF Becomes, PassesTyped

LEMMA CreatedBounded ==
    ASSUME TypeInv
    PROVE  /\ created \in Nat /\ created <= MaxEvents
           /\ 1..created \subseteq Events
           /\ Oldest(Claimable) \in SUBSET (1..created)
<1>1. Cardinality(Handling) \in Nat
  <2>1. Handling \subseteq Replicas
    BY DEF Handling
  <2>2. QED
    BY <2>1, FS_Subset, FS_CardinalityType
<1>2. created \in Nat /\ created <= MaxEvents
  BY <1>1 DEF TypeInv, RowsTyped
<1>3. Oldest(Claimable) \subseteq 1..created
  BY OldestAreAmong DEF Claimable
<1>4. QED
  BY <1>2, <1>3 DEF Events

\* The row a pass deals with next is one of those it has not dealt with.
LEMMA CurrentIsTodo ==
    ASSUME TypeInv, NEW r \in Replicas, Todo(r) # {}
    PROVE  Current(r) \in Todo(r) /\ Current(r) \in Events
<1>1. Todo(r) \in SUBSET Events
  BY DEF Todo, TypeInv, PassesTyped, Passes
<1>2. Todo(r) \in SUBSET Nat
  BY <1>1 DEF Events
<1>3. QED
  BY <1>1, <1>2, MinIsLeast DEF Current

LEMMA ClaimEffect ==
    ASSUME TypeInv, NEW r \in Replicas, Claim(r)
    PROVE  /\ pub[r].pc = "selecting"
           /\ \/ /\ Becomes(r, "sending", Oldest(Claimable), pub[r].handled, pub[r].marked)
                 /\ UNCHANGED faults
              \/ /\ Becomes(r, "rollback", {}, pub[r].handled, pub[r].marked)
                 /\ faults' = faults + 1
<1>1. Oldest(Claimable) \in SUBSET Events
  BY CreatedBounded
<1>2. QED
  BY <1>1, PassClaims DEF Claim, Works, Fault, TypeInv

LEMMA MarkEffect ==
    ASSUME TypeInv, NEW r \in Replicas, Mark(r)
    PROVE  /\ pub[r].pc = "marking"
           /\ \/ /\ Becomes(r, "sending", pub[r].claimed,
                            pub[r].handled \cup {Current(r)},
                            pub[r].marked \cup {Current(r)})
                 /\ UNCHANGED faults
              \/ /\ Becomes(r, "rollback", pub[r].claimed, pub[r].handled, pub[r].marked)
                 /\ faults' = faults + 1
<1>1. CASE UNCHANGED faults
  BY <1>1 DEF Mark, Works, Fault, TypeInv, PhasesTyped, PassesTyped, Becomes, Passes
<1>2. CASE faults' # faults
  BY <1>2, PassGoes DEF Mark, Works, Fault, TypeInv
<1>3. QED
  BY <1>1, <1>2

LEMMA NoteFailureEffect ==
    ASSUME TypeInv, NEW r \in Replicas, NoteFailure(r)
    PROVE  /\ pub[r].pc = "noting"
           /\ \/ /\ Becomes(r, "sending", pub[r].claimed,
                            pub[r].handled \cup {Current(r)}, pub[r].marked)
                 /\ UNCHANGED faults
              \/ /\ Becomes(r, "rollback", pub[r].claimed, pub[r].handled, pub[r].marked)
                 /\ faults' = faults + 1
<1>1. CASE UNCHANGED faults
  BY <1>1
     DEF NoteFailure, Works, Fault, TypeInv, PhasesTyped, PassesTyped, Becomes, Passes
<1>2. CASE faults' # faults
  BY <1>2, PassGoes DEF NoteFailure, Works, Fault, TypeInv
<1>3. QED
  BY <1>1, <1>2

LEMMA SendEffect ==
    ASSUME TypeInv, NEW r \in Replicas, Send(r)
    PROVE  /\ pub[r].pc = "sending" /\ Todo(r) # {}
           /\ Current(r) \in Todo(r) /\ Current(r) \in Events
           /\ \/ /\ Becomes(r, "marking", pub[r].claimed, pub[r].handled, pub[r].marked)
                 /\ copies' = [copies EXCEPT ![Current(r)] = @ + 1]
                 /\ UNCHANGED faults
              \/ /\ Becomes(r, "noting", pub[r].claimed, pub[r].handled, pub[r].marked)
                 /\ \/ copies' = [copies EXCEPT ![Current(r)] = @ + 1]
                    \/ UNCHANGED copies
                 /\ faults' = faults + 1
BY PassGoes, CurrentIsTodo DEF Send, Works, Fault, TypeInv

LEMMA CommitEffect ==
    ASSUME TypeInv, NEW r \in Replicas, CommitBatch(r)
    PROVE  /\ pub[r].pc = "sending" /\ Todo(r) = {}
           /\ \/ /\ Becomes(r, "idle", {}, {}, {})
                 /\ published' = published \cup pub[r].marked
                 /\ UNCHANGED faults
              \/ /\ Becomes(r, "rollback", {}, {}, {})
                 /\ published' = published \/ published' = published \cup pub[r].marked
                 /\ faults' = faults + 1
<1>1. [Idle EXCEPT !.pc = "rollback"] =
        [pc |-> "rollback", claimed |-> {}, handled |-> {}, marked |-> {}]
  BY DEF Idle
<1>2. QED
  BY <1>1 DEF CommitBatch, Works, Fault, TypeInv, PassesTyped, Becomes, Idle

LEMMA ExitEffect ==
    ASSUME TypeInv, NEW r \in Replicas, Exit(r)
    PROVE  Becomes(r, "idle", {}, {}, {})
BY PassEnds DEF Exit, TypeInv

LEMMA PassStaysFormed ==
    ASSUME TypeInv, NEW r \in Replicas, NEW pc, NEW claimed, NEW handled, NEW marked,
           Becomes(r, pc, claimed, handled, marked),
           pc \in {"idle", "connecting", "selecting", "sending", "marking", "noting",
                   "rollback"},
           claimed \subseteq Events, handled \subseteq claimed, marked \subseteq handled,
           pc \in {"idle", "connecting", "selecting"} => claimed = {},
           pc \in {"marking", "noting"} => claimed # handled
    PROVE  PassesTyped'
<1>1. WellFormed([pc |-> pc, claimed |-> claimed, handled |-> handled, marked |-> marked])
  BY DEF WellFormed, Passes
<1>2. QED
  BY <1>1 DEF TypeInv, PassesTyped, Becomes, WellFormed

LEMMA PassBefore ==
    ASSUME TypeInv, NEW r \in Replicas
    PROVE  /\ pub[r].pc \in {"idle", "connecting", "selecting", "sending", "marking",
                            "noting", "rollback"}
           /\ pub[r].claimed \in SUBSET Events
           /\ pub[r].handled \in SUBSET pub[r].claimed
           /\ pub[r].marked \in SUBSET pub[r].handled
           /\ pub[r].pc \in {"idle", "connecting", "selecting"} => pub[r].claimed = {}
           /\ pub[r].pc \in {"marking", "noting"} => Todo(r) # {}
BY DEF TypeInv, PassesTyped, WellFormed, Passes, Todo

LEMMA PassesStep == TypeInv /\ LifeInv /\ [Next]_vars => PassesTyped'
<1> SUFFICES ASSUME TypeInv, LifeInv, [Next]_vars PROVE PassesTyped'
  OBVIOUS
<1>a. UNCHANGED pub => PassesTyped'
  BY DEF TypeInv, PassesTyped
<1>b. ASSUME NEW r \in Replicas, Exit(r) PROVE PassesTyped'
  BY <1>b, ExitEffect, PassStaysFormed
<1>c. ASSUME NEW r \in Replicas, NEW pc \in {"idle", "connecting", "selecting", "rollback"},
             pub' = [pub EXCEPT ![r].pc = pc],
             pc \in {"idle", "connecting", "selecting"} => pub[r].claimed = {}
      PROVE PassesTyped'
  <2>1. Becomes(r, pc, pub[r].claimed, pub[r].handled, pub[r].marked)
    BY <1>c, PassGoes DEF TypeInv
  <2>2. QED
    BY <2>1, <1>c, PassBefore, PassStaysFormed
<1>1. ASSUME NEW r \in Replicas, Tick(r) PROVE PassesTyped'
  BY <1>1, <1>c, PassBefore DEF Tick
<1>2. ASSUME NEW r \in Replicas, ConnectProducer(r) PROVE PassesTyped'
  <2>1. PICK pc \in {"selecting", "idle"} : pub' = [pub EXCEPT ![r].pc = pc]
    BY <1>2 DEF ConnectProducer
  <2>2. pub[r].claimed = {}
    BY <1>2, PassBefore DEF ConnectProducer
  <2>3. QED
    BY <2>1, <2>2, <1>c
<1>3. ASSUME NEW r \in Replicas, Claim(r) PROVE PassesTyped'
  <2>1. CASE Becomes(r, "sending", Oldest(Claimable), pub[r].handled, pub[r].marked)
    BY <1>3, ClaimEffect, <2>1, PassBefore, PassStaysFormed, CreatedBounded
  <2>2. CASE Becomes(r, "rollback", {}, pub[r].handled, pub[r].marked)
    BY <1>3, ClaimEffect, <2>2, PassBefore, PassStaysFormed, CreatedBounded
  <2>3. QED
    BY <1>3, ClaimEffect, <2>1, <2>2
<1>4. ASSUME NEW r \in Replicas, Send(r) PROVE PassesTyped'
  <2>1. CASE Becomes(r, "marking", pub[r].claimed, pub[r].handled, pub[r].marked)
    BY <1>4, SendEffect, <2>1, PassBefore, PassStaysFormed DEF Todo
  <2>2. CASE Becomes(r, "noting", pub[r].claimed, pub[r].handled, pub[r].marked)
    BY <1>4, SendEffect, <2>2, PassBefore, PassStaysFormed DEF Todo
  <2>3. QED
    BY <1>4, SendEffect, <2>1, <2>2
<1>5. ASSUME NEW r \in Replicas, Mark(r) PROVE PassesTyped'
  <2>a. Current(r) \in pub[r].claimed
    BY <1>5, MarkEffect, PassBefore, CurrentIsTodo DEF Todo
  <2>b. /\ pub[r].claimed \subseteq Events
        /\ pub[r].handled \cup {Current(r)} \subseteq pub[r].claimed
        /\ pub[r].marked \cup {Current(r)} \subseteq pub[r].handled \cup {Current(r)}
    BY <2>a, PassBefore
  <2>1. CASE Becomes(r, "sending", pub[r].claimed,
                     pub[r].handled \cup {Current(r)}, pub[r].marked \cup {Current(r)})
    BY <2>b, <2>1, PassStaysFormed
  <2>2. CASE Becomes(r, "rollback", pub[r].claimed, pub[r].handled, pub[r].marked)
    BY <2>a, <2>2, PassBefore, PassStaysFormed
  <2>3. QED
    BY <1>5, MarkEffect, <2>1, <2>2
<1>6. ASSUME NEW r \in Replicas, NoteFailure(r) PROVE PassesTyped'
  <2>a. Current(r) \in pub[r].claimed
    BY <1>6, NoteFailureEffect, PassBefore, CurrentIsTodo DEF Todo
  <2>b. /\ pub[r].claimed \subseteq Events
        /\ pub[r].handled \cup {Current(r)} \subseteq pub[r].claimed
        /\ pub[r].marked \subseteq pub[r].handled \cup {Current(r)}
    BY <2>a, PassBefore
  <2>1. CASE Becomes(r, "sending", pub[r].claimed,
                     pub[r].handled \cup {Current(r)}, pub[r].marked)
    BY <2>b, <2>1, PassStaysFormed
  <2>2. CASE Becomes(r, "rollback", pub[r].claimed, pub[r].handled, pub[r].marked)
    BY <2>a, <2>2, PassBefore, PassStaysFormed
  <2>3. QED
    BY <1>6, NoteFailureEffect, <2>1, <2>2
<1>7. ASSUME NEW r \in Replicas, CommitBatch(r) PROVE PassesTyped'
  <2>1. CASE Becomes(r, "idle", {}, {}, {})
    BY <1>7, CommitEffect, <2>1, PassBefore, PassStaysFormed
  <2>2. CASE Becomes(r, "rollback", {}, {}, {})
    BY <1>7, CommitEffect, <2>2, PassBefore, PassStaysFormed
  <2>3. QED
    BY <1>7, CommitEffect, <2>1, <2>2
<1>8. ASSUME NEW r \in Replicas, Rollback(r) PROVE PassesTyped'
  <2>1. Becomes(r, "idle", {}, {}, {})
    BY <1>8, PassEnds DEF Rollback, TypeInv
  <2>2. QED
    BY <2>1, PassStaysFormed
<1>9. ASSUME NEW r \in Replicas, StartConsumer(r) PROVE PassesTyped'
  BY <1>9, <1>a, <1>b DEF StartConsumer, Listening
<1>10. ASSUME NEW r \in Replicas, StartFailed(r) PROVE PassesTyped'
  BY <1>10, <1>a, <1>b DEF StartFailed, Listening
<1>11. ASSUME NEW r \in Replicas, RetryFires(r) PROVE PassesTyped'
  BY <1>11, <1>a, <1>b DEF RetryFires, Listening
<1>12. ASSUME NEW r \in Replicas, StopConsumer(r) PROVE PassesTyped'
  BY <1>12, <1>a, <1>b DEF StopConsumer, Listening
<1>13. ASSUME NEW r \in Replicas, AllStopped(r) PROVE PassesTyped'
  BY <1>13, <1>a, <1>b DEF AllStopped
<1>14. ASSUME NEW r \in Replicas, DisconnectProducer(r) PROVE PassesTyped'
  BY <1>14, <1>a, <1>b DEF DisconnectProducer
<1>15. ASSUME NEW r \in Replicas, EndPool(r) PROVE PassesTyped'
  BY <1>15, <1>a, <1>b DEF EndPool
<1>16. ASSUME NEW r \in Replicas, RunFails(r) PROVE PassesTyped'
  BY <1>16, <1>a, <1>b DEF RunFails, Listening
<1>17. ASSUME NEW r \in Replicas, Crash(r) PROVE PassesTyped'
  BY <1>17, <1>a, <1>b DEF Crash
<1>18. ASSUME NEW r \in Replicas, ForceExit(r) PROVE PassesTyped'
  BY <1>18, <1>a, <1>b DEF ForceExit
<1>19. ASSUME NEW r \in Replicas, Boot(r) PROVE PassesTyped'
  BY <1>19, <1>c, PassBefore DEF Boot, LifeInv
<1>20. ASSUME NEW r \in Replicas, BeginRequest(r) PROVE PassesTyped'
  BY <1>20, <1>a, <1>b DEF BeginRequest
<1>21. ASSUME NEW r \in Replicas, EndRequest(r) PROVE PassesTyped'
  BY <1>21, <1>a, <1>b DEF EndRequest
<1>22. ASSUME NEW r \in Replicas, Shutdown(r) PROVE PassesTyped'
  BY <1>22, <1>a, <1>b DEF Shutdown
<1>23. CASE UNCHANGED vars
  BY <1>23, <1>a DEF vars
<1>24. ASSUME NEW r \in Replicas, UseWebSockets(r) PROVE PassesTyped'
  BY <1>24, <1>a, WebSocketsApart DEF TypeInv
<1>25. QED
  BY <1>1, <1>2, <1>3, <1>4, <1>5, <1>6, <1>7, <1>8, <1>9, <1>10, <1>11, <1>12,
     <1>13, <1>14, <1>15, <1>16, <1>17, <1>18, <1>19, <1>20, <1>21, <1>22, <1>23, <1>24
     DEF Next, Publish, Listen, Stop

-----------------------------------------------------------------------------
(* Rows and requests.                                                       *)

LEMMA RequestEnds ==
    ASSUME TypeInv, NEW r \in Replicas, open' = [open EXCEPT ![r] = FALSE]
    PROVE  /\ Cardinality(Handling') <= Cardinality(Handling)
           /\ open[r] => Cardinality(Handling') + 1 <= Cardinality(Handling)
           /\ Cardinality(Handling) \in Nat /\ Cardinality(Handling') \in Nat
<1>1. Handling' = Handling \ {r}
  BY Zenon DEF Handling, TypeInv, FlagsTyped
<1>2. Handling \in SUBSET Replicas /\ (r \in Handling <=> open[r])
  BY DEF Handling
<1>3. /\ Cardinality(Handling) \in Nat /\ Cardinality(Handling \ {r}) \in Nat
      /\ Cardinality(Handling \ {r}) =
           IF r \in Handling THEN Cardinality(Handling) - 1 ELSE Cardinality(Handling)
  BY <1>2, CountOfReplicas, Zenon
<1>4. QED
  BY <1>1, <1>2, <1>3

LEMMA RequestBegins ==
    ASSUME TypeInv, NEW r \in Replicas, open' = [open EXCEPT ![r] = TRUE]
    PROVE  /\ Cardinality(Handling') <= Cardinality(Handling) + 1
           /\ Cardinality(Handling) \in Nat /\ Cardinality(Handling') \in Nat
<1>1. Handling' = Handling \cup {r}
  BY Zenon DEF Handling, TypeInv, FlagsTyped
<1>2. Handling \in SUBSET Replicas
  BY DEF Handling
<1>3. /\ Cardinality(Handling) \in Nat
      /\ Cardinality(Handling \cup {r}) =
           IF r \in Handling THEN Cardinality(Handling) ELSE Cardinality(Handling) + 1
  BY <1>2, CountOfReplicas, Zenon
<1>4. QED
  BY <1>1, <1>3

LEMMA RowsStep == TypeInv /\ LockInv /\ [Next]_vars => RowsTyped'
<1> SUFFICES ASSUME TypeInv, LockInv, [Next]_vars PROVE RowsTyped'
  OBVIOUS
<1>a. UNCHANGED <<created, published, copies, open>> => RowsTyped'
  BY DEF TypeInv, RowsTyped, Handling
<1>b. ASSUME NEW r \in Replicas, Exit(r) PROVE RowsTyped'
  <2>1. UNCHANGED <<created, published, copies>> /\ open' = [open EXCEPT ![r] = FALSE]
    BY <1>b DEF Exit, rows
  <2>2. /\ Cardinality(Handling') <= Cardinality(Handling)
        /\ open[r] => Cardinality(Handling') + 1 <= Cardinality(Handling)
        /\ Cardinality(Handling) \in Nat /\ Cardinality(Handling') \in Nat
    BY <2>1, RequestEnds
  <2>3. QED
    BY <2>1, <2>2 DEF TypeInv, RowsTyped
<1>1. ASSUME NEW r \in Replicas, Tick(r) PROVE RowsTyped'
  BY <1>1, <1>a, <1>b DEF Tick, rows, process
<1>2. ASSUME NEW r \in Replicas, ConnectProducer(r) PROVE RowsTyped'
  BY <1>2, <1>a, <1>b DEF ConnectProducer, rows, process
<1>3. ASSUME NEW r \in Replicas, Claim(r) PROVE RowsTyped'
  BY <1>3, <1>a, <1>b DEF Claim, rows, process
<1>4. ASSUME NEW r \in Replicas, Send(r) PROVE RowsTyped'
  <2>1. UNCHANGED <<created, published, open>>
    BY <1>4 DEF Send, rows, process
  <2>2. copies' \in [Events -> Nat]
    BY <1>4, SendEffect DEF TypeInv, RowsTyped
  <2>3. QED
    BY <2>1, <2>2 DEF TypeInv, RowsTyped, Handling
<1>5. ASSUME NEW r \in Replicas, Mark(r) PROVE RowsTyped'
  BY <1>5, <1>a, <1>b DEF Mark, rows, process
<1>6. ASSUME NEW r \in Replicas, NoteFailure(r) PROVE RowsTyped'
  BY <1>6, <1>a, <1>b DEF NoteFailure, rows, process
<1>7. ASSUME NEW r \in Replicas, CommitBatch(r) PROVE RowsTyped'
  <2>1. UNCHANGED <<created, copies, open>>
    BY <1>7 DEF CommitBatch, process
  <2>2. published' \subseteq 1..created
    <3>1. pub[r].marked \subseteq 1..created
      BY PassBefore DEF LockInv, OwnLocks
    <3>2. QED
      BY <1>7, <3>1, CommitEffect DEF TypeInv, RowsTyped
  <2>3. QED
    BY <2>1, <2>2 DEF TypeInv, RowsTyped, Handling
<1>8. ASSUME NEW r \in Replicas, Rollback(r) PROVE RowsTyped'
  BY <1>8, <1>a, <1>b DEF Rollback, rows, process
<1>9. ASSUME NEW r \in Replicas, StartConsumer(r) PROVE RowsTyped'
  BY <1>9, <1>a, <1>b DEF StartConsumer, Listening, rows, process
<1>10. ASSUME NEW r \in Replicas, StartFailed(r) PROVE RowsTyped'
  BY <1>10, <1>a, <1>b DEF StartFailed, Listening, rows, process
<1>11. ASSUME NEW r \in Replicas, RetryFires(r) PROVE RowsTyped'
  BY <1>11, <1>a, <1>b DEF RetryFires, Listening, rows, process
<1>12. ASSUME NEW r \in Replicas, StopConsumer(r) PROVE RowsTyped'
  BY <1>12, <1>a, <1>b DEF StopConsumer, Listening, rows, process
<1>13. ASSUME NEW r \in Replicas, AllStopped(r) PROVE RowsTyped'
  BY <1>13, <1>a, <1>b DEF AllStopped, rows
<1>14. ASSUME NEW r \in Replicas, DisconnectProducer(r) PROVE RowsTyped'
  BY <1>14, <1>a, <1>b DEF DisconnectProducer, rows
<1>15. ASSUME NEW r \in Replicas, EndPool(r) PROVE RowsTyped'
  BY <1>15, <1>a, <1>b DEF EndPool, rows
<1>16. ASSUME NEW r \in Replicas, RunFails(r) PROVE RowsTyped'
  BY <1>16, <1>a, <1>b DEF RunFails, Listening, rows, process
<1>17. ASSUME NEW r \in Replicas, Crash(r) PROVE RowsTyped'
  BY <1>17, <1>a, <1>b DEF Crash, rows
<1>18. ASSUME NEW r \in Replicas, ForceExit(r) PROVE RowsTyped'
  BY <1>18, <1>a, <1>b DEF ForceExit, rows
<1>19. ASSUME NEW r \in Replicas, Boot(r) PROVE RowsTyped'
  BY <1>19, <1>a, <1>b DEF Boot, rows
<1>20. ASSUME NEW r \in Replicas, BeginRequest(r) PROVE RowsTyped'
  <2>1. UNCHANGED <<created, published, copies>> /\ open' = [open EXCEPT ![r] = TRUE]
    BY <1>20 DEF BeginRequest, rows
  <2>2. created + Cardinality(Handling) < MaxEvents
    BY <1>20, HandlingCounted DEF BeginRequest
  <2>3. /\ Cardinality(Handling') <= Cardinality(Handling) + 1
        /\ Cardinality(Handling) \in Nat /\ Cardinality(Handling') \in Nat
    BY <2>1, RequestBegins
  <2>4. QED
    BY <2>1, <2>2, <2>3 DEF TypeInv, RowsTyped
<1>21. ASSUME NEW r \in Replicas, EndRequest(r) PROVE RowsTyped'
  <2>1. /\ open[r] /\ open' = [open EXCEPT ![r] = FALSE]
        /\ UNCHANGED <<published, copies>>
        /\ created' = created \/ created' = created + 1
    BY <1>21 DEF EndRequest
  <2>2. /\ Cardinality(Handling') <= Cardinality(Handling)
        /\ open[r] => Cardinality(Handling') + 1 <= Cardinality(Handling)
        /\ Cardinality(Handling) \in Nat /\ Cardinality(Handling') \in Nat
    BY <2>1, RequestEnds
  <2>3. QED
    BY <2>1, <2>2 DEF TypeInv, RowsTyped
<1>22. ASSUME NEW r \in Replicas, Shutdown(r) PROVE RowsTyped'
  BY <1>22, <1>a, <1>b DEF Shutdown, rows
<1>23. CASE UNCHANGED vars
  BY <1>23, <1>a DEF vars
<1>24. ASSUME NEW r \in Replicas, UseWebSockets(r) PROVE RowsTyped'
  BY <1>24, <1>a, WebSocketsApart DEF TypeInv, rows
<1>25. QED
  BY <1>1, <1>2, <1>3, <1>4, <1>5, <1>6, <1>7, <1>8, <1>9, <1>10, <1>11, <1>12,
     <1>13, <1>14, <1>15, <1>16, <1>17, <1>18, <1>19, <1>20, <1>21, <1>22, <1>23, <1>24
     DEF Next, Publish, Listen, Stop

LEMMA LifeStep == TypeInv /\ LifeInv /\ [Next]_vars => LifeInv'
<1> SUFFICES ASSUME TypeInv, LifeInv, [Next]_vars PROVE LifeInv'
  OBVIOUS
<1> USE DEF TypeInv, FlagsTyped, PhasesTyped, WebTyped, PassesTyped, LifeInv, rows, process, status
<1>a. ASSUME NEW r \in Replicas, Exit(r) PROVE LifeInv'
  <2>1. web'[r] = NoSockets /\ \A q \in Replicas \ {r} : web'[q] = web[q]
    BY <1>a DEF Exit
  <2>2. ~web'[r].closing
    BY <2>1 DEF NoSockets
  <2>3. QED
    BY <1>a, <2>1, <2>2 DEF Exit, Idle
<1>1. ASSUME NEW r \in Replicas, Tick(r) PROVE LifeInv'
  BY <1>1 DEF Tick
<1>2. ASSUME NEW r \in Replicas, ConnectProducer(r) PROVE LifeInv'
  BY <1>2 DEF ConnectProducer
<1>3. ASSUME NEW r \in Replicas, Claim(r) PROVE LifeInv'
  BY <1>3 DEF Claim
<1>4. ASSUME NEW r \in Replicas, Send(r) PROVE LifeInv'
  BY <1>4 DEF Send
<1>5. ASSUME NEW r \in Replicas, Mark(r) PROVE LifeInv'
  BY <1>5 DEF Mark
<1>6. ASSUME NEW r \in Replicas, NoteFailure(r) PROVE LifeInv'
  BY <1>6 DEF NoteFailure
<1>7. ASSUME NEW r \in Replicas, CommitBatch(r) PROVE LifeInv'
  BY <1>7 DEF CommitBatch, Idle
<1>8. ASSUME NEW r \in Replicas, Rollback(r) PROVE LifeInv'
  BY <1>8 DEF Rollback, Idle
<1>9. ASSUME NEW r \in Replicas, StartConsumer(r) PROVE LifeInv'
  BY <1>9 DEF StartConsumer, Listening
<1>10. ASSUME NEW r \in Replicas, StartFailed(r) PROVE LifeInv'
  BY <1>10, <1>a DEF StartFailed, Listening
<1>11. ASSUME NEW r \in Replicas, RetryFires(r) PROVE LifeInv'
  BY <1>11 DEF RetryFires, Listening
<1>12. ASSUME NEW r \in Replicas, StopConsumer(r) PROVE LifeInv'
  BY <1>12, <1>a DEF StopConsumer, Listening
<1>13. ASSUME NEW r \in Replicas, AllStopped(r) PROVE LifeInv'
  BY <1>13 DEF AllStopped, Phase, Stopped
<1>14. ASSUME NEW r \in Replicas, DisconnectProducer(r) PROVE LifeInv'
  BY <1>14, <1>a DEF DisconnectProducer, Phase
<1>15. ASSUME NEW r \in Replicas, EndPool(r) PROVE LifeInv'
  BY <1>15, <1>a DEF EndPool
<1>16. ASSUME NEW r \in Replicas, RunFails(r) PROVE LifeInv'
  BY <1>16 DEF RunFails, Listening
<1>17. ASSUME NEW r \in Replicas, Crash(r) PROVE LifeInv'
  BY <1>17, <1>a DEF Crash
<1>18. ASSUME NEW r \in Replicas, ForceExit(r) PROVE LifeInv'
  BY <1>18, <1>a DEF ForceExit
<1>19. ASSUME NEW r \in Replicas, Boot(r) PROVE LifeInv'
  BY <1>19 DEF Boot
<1>20. ASSUME NEW r \in Replicas, BeginRequest(r) PROVE LifeInv'
  BY <1>20 DEF BeginRequest
<1>21. ASSUME NEW r \in Replicas, EndRequest(r) PROVE LifeInv'
  BY <1>21 DEF EndRequest
<1>22. ASSUME NEW r \in Replicas, Shutdown(r) PROVE LifeInv'
  BY <1>22 DEF Shutdown, Phase
<1>23. CASE UNCHANGED vars
  BY <1>23 DEF vars
<1>24. ASSUME NEW r \in Replicas, UseWebSockets(r) PROVE LifeInv'
  <2>1. /\ UNCHANGED <<proc, tick, pub, listener, retry, open>>
        /\ \A q \in Replicas : web'[q].closing => web[q].closing
    BY <1>24, WebSocketsApart DEF WebTyped
  <2>2. QED
    BY <2>1
<1>25. QED
  BY <1>1, <1>2, <1>3, <1>4, <1>5, <1>6, <1>7, <1>8, <1>9, <1>10, <1>11, <1>12,
     <1>13, <1>14, <1>15, <1>16, <1>17, <1>18, <1>19, <1>20, <1>21, <1>22, <1>23, <1>24
     DEF Next, Publish, Listen, Stop

-----------------------------------------------------------------------------
(* Row locks.                                                               *)

LEMMA FieldsAfter ==
    ASSUME NEW r \in Replicas, NEW pc, NEW claimed, NEW handled, NEW marked,
           Becomes(r, pc, claimed, handled, marked)
    PROVE  /\ pub'[r].pc = pc /\ pub'[r].claimed = claimed
           /\ pub'[r].handled = handled /\ pub'[r].marked = marked
           /\ Todo(r)' = claimed \ handled
           /\ \A q \in Replicas \ {r} :
                pub'[q] = pub[q] /\ Todo(q)' = Todo(q) /\ Current(q)' = Current(q)
BY DEF Becomes, Todo, Current

\* A pass that gives up its rows, or keeps them without having sent one.
LEMMA PassMovesKeepLocks ==
    ASSUME TypeInv, LockInv, NEW r \in Replicas, NEW pc, NEW claimed, NEW handled,
           NEW marked \in SUBSET pub[r].marked, claimed \subseteq pub[r].claimed,
           pc # "marking", Becomes(r, pc, claimed, handled, marked),
           UNCHANGED <<created, published, copies>>
    PROVE  LockInv'
<1>1. ASSUME NEW q \in Replicas PROVE OwnLocks(q)'
  BY FieldsAfter DEF LockInv, OwnLocks
<1>2. \A p, q \in Replicas : p # q => pub'[p].claimed \cap pub'[q].claimed = {}
  BY FieldsAfter DEF LockInv
<1>3. QED
  BY <1>1, <1>2 DEF LockInv

LEMMA ClaimKeepsLocks ==
    ASSUME TypeInv, LockInv, NEW r \in Replicas, Claim(r)
    PROVE  LockInv'
<1>1. UNCHANGED <<created, published, copies>>
  BY DEF Claim, rows
<1>2. pub[r].handled = {} /\ pub[r].marked = {}
  BY ClaimEffect, PassBefore
<1>3. CASE Becomes(r, "sending", Oldest(Claimable), pub[r].handled, pub[r].marked)
  <2>1. /\ pub'[r].claimed \subseteq Claimable
        /\ pub'[r].pc = "sending" /\ pub'[r].marked = {}
        /\ \A q \in Replicas \ {r} : pub'[q] = pub[q] /\ Current(q)' = Current(q)
    BY <1>2, <1>3, FieldsAfter, OldestAreAmong
  <2>2. ASSUME NEW q \in Replicas PROVE OwnLocks(q)'
    BY <1>1, <2>1 DEF LockInv, OwnLocks, Claimable
  <2>3. \A q \in Replicas : pub[q].claimed \cap Claimable = {}
    BY DEF Claimable, Locked
  <2>4. \A p, q \in Replicas : p # q => pub'[p].claimed \cap pub'[q].claimed = {}
    BY <2>1, <2>3 DEF LockInv
  <2>5. QED
    BY <1>1, <2>2, <2>4 DEF LockInv
<1>4. CASE Becomes(r, "rollback", {}, pub[r].handled, pub[r].marked)
  BY <1>1, <1>4, PassMovesKeepLocks
<1>5. QED
  BY <1>3, <1>4, ClaimEffect

LEMMA SendKeepsLocks ==
    ASSUME TypeInv, LockInv, NEW r \in Replicas, Send(r)
    PROVE  LockInv'
<1>1. UNCHANGED <<created, published>>
  BY DEF Send, rows
<1>2. /\ \A e \in Events : copies'[e] >= copies[e]
      /\ \A e \in Events : copies'[e] > copies[e] => e = Current(r)
      /\ copies \in [Events -> Nat] /\ copies' \in [Events -> Nat]
  BY SendEffect DEF TypeInv, RowsTyped
<1>3. /\ pub'[r].claimed = pub[r].claimed /\ pub'[r].marked = pub[r].marked
      /\ pub'[r].pc = "marking" => copies'[Current(r)] > 0
      /\ Current(r)' = Current(r)
      /\ \A q \in Replicas \ {r} : pub'[q] = pub[q] /\ Current(q)' = Current(q)
  <2>1. CASE Becomes(r, "marking", pub[r].claimed, pub[r].handled, pub[r].marked)
    <3>1. copies' = [copies EXCEPT ![Current(r)] = @ + 1]
      BY <2>1, SendEffect, FieldsAfter
    <3>2. copies'[Current(r)] > 0
      BY <3>1, SendEffect DEF TypeInv, RowsTyped
    <3>3. /\ pub'[r].claimed = pub[r].claimed /\ pub'[r].marked = pub[r].marked
          /\ pub'[r].handled = pub[r].handled
          /\ \A q \in Replicas \ {r} : pub'[q] = pub[q] /\ Current(q)' = Current(q)
      BY <2>1, FieldsAfter
    <3>4. Current(r)' = Current(r)
      BY <3>3 DEF Todo, Current
    <3>5. QED
      BY <3>2, <3>3, <3>4
  <2>2. CASE Becomes(r, "noting", pub[r].claimed, pub[r].handled, pub[r].marked)
    <3>1. Todo(r)' = Todo(r)
      BY <2>2, FieldsAfter DEF Todo
    <3>2. QED
      BY <2>2, <3>1, FieldsAfter DEF Current
  <2>3. QED
    BY <2>1, <2>2, SendEffect
<1>4. Current(r) <= created
  <2>1. Current(r) \in pub[r].claimed
    BY SendEffect DEF Todo
  <2>2. QED
    BY <2>1 DEF LockInv, OwnLocks, TypeInv, RowsTyped
<1>5. ASSUME NEW q \in Replicas PROVE OwnLocks(q)'
  <2>1. pub'[q].claimed = pub[q].claimed /\ pub'[q].marked = pub[q].marked
    BY <1>3
  <2>2. pub'[q].pc = "marking" => copies'[Current(q)'] > 0
    <3>1. CASE q = r
      BY <3>1, <1>3
    <3>2. CASE q # r /\ pub[q].pc = "marking"
      <4>1. Current(q) \in Events /\ copies[Current(q)] > 0
        BY <3>2, PassBefore, CurrentIsTodo DEF LockInv, OwnLocks
      <4>2. QED
        BY <4>1, <3>2, <1>2, <1>3
    <3>3. QED
      BY <3>1, <3>2, <1>3
  <2>3. \A e \in pub[q].marked : e \in Events /\ copies[e] > 0
    BY PassBefore DEF LockInv, OwnLocks
  <2>4. \A e \in pub[q].marked : copies'[e] > 0
    BY <2>3, <1>2, SendEffect DEF TypeInv, RowsTyped
  <2>5. QED
    BY <1>1, <2>1, <2>2, <2>4 DEF LockInv, OwnLocks
<1>6. \A e \in Events : copies'[e] > 0 => e <= created
  BY <1>2, <1>4, SendEffect DEF LockInv, TypeInv, RowsTyped
<1>7. \A e \in published : copies'[e] > 0
  <2>1. published \subseteq Events
    BY CreatedBounded DEF TypeInv, RowsTyped
  <2>2. QED
    BY <2>1, <1>2, SendEffect DEF LockInv, TypeInv, RowsTyped
<1>8. QED
  BY <1>1, <1>3, <1>5, <1>6, <1>7 DEF LockInv

LEMMA MarkKeepsLocks ==
    ASSUME TypeInv, LockInv, NEW r \in Replicas, Mark(r)
    PROVE  LockInv'
<1>1. UNCHANGED <<created, published, copies>>
  BY DEF Mark, rows
<1>2. copies[Current(r)] > 0
  BY MarkEffect DEF LockInv, OwnLocks
<1>3. CASE Becomes(r, "sending", pub[r].claimed, pub[r].handled \cup {Current(r)},
                   pub[r].marked \cup {Current(r)})
  <2>1. ASSUME NEW q \in Replicas PROVE OwnLocks(q)'
    BY <1>1, <1>2, <1>3, FieldsAfter DEF LockInv, OwnLocks
  <2>2. \A p, q \in Replicas : p # q => pub'[p].claimed \cap pub'[q].claimed = {}
    BY <1>3, FieldsAfter DEF LockInv
  <2>3. QED
    BY <1>1, <2>1, <2>2 DEF LockInv
<1>4. CASE Becomes(r, "rollback", pub[r].claimed, pub[r].handled, pub[r].marked)
  BY <1>1, <1>4, PassMovesKeepLocks
<1>5. QED
  BY <1>3, <1>4, MarkEffect

LEMMA CommitKeepsLocks ==
    ASSUME TypeInv, LockInv, NEW r \in Replicas, CommitBatch(r)
    PROVE  LockInv'
<1>1. UNCHANGED <<created, copies>>
  BY DEF CommitBatch
<1>2. pub[r].marked \subseteq pub[r].claimed
  BY PassBefore
<1>3. /\ pub'[r].claimed = {} /\ pub'[r].marked = {} /\ pub'[r].pc # "marking"
      /\ \A q \in Replicas \ {r} : pub'[q] = pub[q] /\ Current(q)' = Current(q)
      /\ published' = published \/ published' = published \cup pub[r].marked
  <2>1. CASE Becomes(r, "idle", {}, {}, {})
    BY <2>1, CommitEffect, FieldsAfter
  <2>2. CASE Becomes(r, "rollback", {}, {}, {})
    BY <2>2, CommitEffect, FieldsAfter
  <2>3. QED
    BY <2>1, <2>2, CommitEffect
<1>4. ASSUME NEW q \in Replicas PROVE OwnLocks(q)'
  BY <1>1, <1>2, <1>3 DEF LockInv, OwnLocks
<1>5. \A p, q \in Replicas : p # q => pub'[p].claimed \cap pub'[q].claimed = {}
  BY <1>3 DEF LockInv
<1>6. \A e \in published' : copies[e] > 0
  BY <1>3 DEF LockInv, OwnLocks
<1>7. QED
  BY <1>1, <1>4, <1>5, <1>6 DEF LockInv

LEMMA LockStep == TypeInv /\ LockInv /\ LifeInv /\ [Next]_vars => LockInv'
<1> SUFFICES ASSUME TypeInv, LockInv, LifeInv, [Next]_vars PROVE LockInv'
  OBVIOUS
<1>a. ASSUME UNCHANGED <<pub, created, published, copies>> PROVE LockInv'
  BY <1>a DEF LockInv, OwnLocks, Current, Todo
<1>b. ASSUME NEW r \in Replicas, NEW pc, pc # "marking",
             pub' = [pub EXCEPT ![r].pc = pc], UNCHANGED <<created, published, copies>>
      PROVE LockInv'
  <2>1. Becomes(r, pc, pub[r].claimed, pub[r].handled, pub[r].marked)
    BY <1>b, PassGoes DEF TypeInv
  <2>2. QED
    BY <1>b, <2>1, PassMovesKeepLocks
<1>c. ASSUME NEW r \in Replicas, Becomes(r, "idle", {}, {}, {}),
             UNCHANGED <<created, published, copies>>
      PROVE LockInv'
  BY <1>c, PassMovesKeepLocks
<1>d. ASSUME NEW r \in Replicas, Exit(r) PROVE LockInv'
  <2>1. UNCHANGED <<created, published, copies>>
    BY <1>d DEF Exit, rows
  <2>2. QED
    BY <1>d, <2>1, <1>c, ExitEffect
<1>1. ASSUME NEW r \in Replicas, Tick(r) PROVE LockInv'
  BY <1>1, <1>b DEF Tick, rows
<1>2. ASSUME NEW r \in Replicas, ConnectProducer(r) PROVE LockInv'
  BY <1>2, <1>b DEF ConnectProducer, rows
<1>3. ASSUME NEW r \in Replicas, Claim(r) PROVE LockInv'
  BY <1>3, ClaimKeepsLocks
<1>4. ASSUME NEW r \in Replicas, Send(r) PROVE LockInv'
  BY <1>4, SendKeepsLocks
<1>5. ASSUME NEW r \in Replicas, Mark(r) PROVE LockInv'
  BY <1>5, MarkKeepsLocks
<1>6. ASSUME NEW r \in Replicas, NoteFailure(r) PROVE LockInv'
  <2>1. UNCHANGED <<created, published, copies>>
    BY <1>6 DEF NoteFailure, rows
  <2>2. CASE Becomes(r, "sending", pub[r].claimed, pub[r].handled \cup {Current(r)},
                     pub[r].marked)
    BY <2>1, <2>2, PassMovesKeepLocks
  <2>3. CASE Becomes(r, "rollback", pub[r].claimed, pub[r].handled, pub[r].marked)
    BY <2>1, <2>3, PassMovesKeepLocks
  <2>4. QED
    BY <1>6, <2>2, <2>3, NoteFailureEffect
<1>7. ASSUME NEW r \in Replicas, CommitBatch(r) PROVE LockInv'
  BY <1>7, CommitKeepsLocks
<1>8. ASSUME NEW r \in Replicas, Rollback(r) PROVE LockInv'
  BY <1>8, <1>c, PassEnds DEF Rollback, rows, TypeInv
<1>9. ASSUME NEW r \in Replicas, StartConsumer(r) PROVE LockInv'
  BY <1>9, <1>a, <1>d DEF StartConsumer, Listening, rows, process
<1>10. ASSUME NEW r \in Replicas, StartFailed(r) PROVE LockInv'
  BY <1>10, <1>a, <1>d DEF StartFailed, Listening, rows, process
<1>11. ASSUME NEW r \in Replicas, RetryFires(r) PROVE LockInv'
  BY <1>11, <1>a, <1>d DEF RetryFires, Listening, rows, process
<1>12. ASSUME NEW r \in Replicas, StopConsumer(r) PROVE LockInv'
  BY <1>12, <1>a, <1>d DEF StopConsumer, Listening, rows, process
<1>13. ASSUME NEW r \in Replicas, AllStopped(r) PROVE LockInv'
  BY <1>13, <1>a, <1>d DEF AllStopped, rows
<1>14. ASSUME NEW r \in Replicas, DisconnectProducer(r) PROVE LockInv'
  BY <1>14, <1>a, <1>d DEF DisconnectProducer, rows
<1>15. ASSUME NEW r \in Replicas, EndPool(r) PROVE LockInv'
  BY <1>15, <1>a, <1>d DEF EndPool, rows
<1>16. ASSUME NEW r \in Replicas, RunFails(r) PROVE LockInv'
  BY <1>16, <1>a, <1>d DEF RunFails, Listening, rows, process
<1>17. ASSUME NEW r \in Replicas, Crash(r) PROVE LockInv'
  BY <1>17, <1>a, <1>d DEF Crash, rows
<1>18. ASSUME NEW r \in Replicas, ForceExit(r) PROVE LockInv'
  BY <1>18, <1>a, <1>d DEF ForceExit, rows
<1>19. ASSUME NEW r \in Replicas, Boot(r) PROVE LockInv'
  BY <1>19, <1>b DEF Boot, rows
<1>20. ASSUME NEW r \in Replicas, BeginRequest(r) PROVE LockInv'
  BY <1>20, <1>a, <1>d DEF BeginRequest, rows
<1>21. ASSUME NEW r \in Replicas, EndRequest(r) PROVE LockInv'
  <2>1. /\ UNCHANGED <<pub, published, copies>>
        /\ created' = created \/ created' = created + 1
    BY <1>21 DEF EndRequest
  <2>2. ASSUME NEW q \in Replicas PROVE OwnLocks(q)'
    <3>1. Current(q)' = Current(q)
      BY <2>1 DEF Current, Todo
    <3>2. 1..created \subseteq 1..created'
      BY <2>1 DEF TypeInv, RowsTyped
    <3>3. QED
      BY <2>1, <3>1, <3>2 DEF LockInv, OwnLocks
  <2>3. QED
    BY <2>1, <2>2 DEF LockInv, TypeInv, RowsTyped, Events
<1>22. ASSUME NEW r \in Replicas, Shutdown(r) PROVE LockInv'
  BY <1>22, <1>a, <1>d DEF Shutdown, rows
<1>23. CASE UNCHANGED vars
  BY <1>23, <1>a DEF vars
<1>24. ASSUME NEW r \in Replicas, UseWebSockets(r) PROVE LockInv'
  BY <1>24, <1>a, WebSocketsApart DEF TypeInv, rows
<1>25. QED
  BY <1>1, <1>2, <1>3, <1>4, <1>5, <1>6, <1>7, <1>8, <1>9, <1>10, <1>11, <1>12,
     <1>13, <1>14, <1>15, <1>16, <1>17, <1>18, <1>19, <1>20, <1>21, <1>22, <1>23, <1>24
     DEF Next, Publish, Listen, Stop

-----------------------------------------------------------------------------
(* Copies.                                                                  *)

\* A copy that no fault has to account for: its row says PUBLISHED, or the pass
\* that sent it has not lost its transaction.
Kept(e) ==
    \/ e \in published
    \/ \E r \in Replicas :
          \/ pub[r].pc \in {"sending", "marking", "noting"} /\ e \in pub[r].marked
          \/ pub[r].pc = "marking" /\ e = Current(r)

Free(e) == IF Kept(e) THEN 1 ELSE 0

\* Every copy but one has been paid for with a fault, and so will be the next
\* one that a failed start of the status consumer takes down with its process.
CopiesInv ==
    \A e \in Events : copies[e] + Cardinality(Failing) <= faults + Free(e)

LEMMA FailingCounted == Cardinality(Failing) \in Nat
<1>1. Failing \subseteq Replicas
  BY DEF Failing
<1>2. QED
  BY <1>1, FS_Subset, FS_CardinalityType

\* A step that sends nothing and gives up no copy, or pays for those it gives up.
LEMMA CopiesStay ==
    ASSUME TypeInv, CopiesInv, UNCHANGED copies, faults' \in Nat,
           Cardinality(Failing') \in Nat,
           \/ /\ \A e \in Events : Kept(e) => Kept(e)'
              /\ Cardinality(Failing') + faults <= faults' + Cardinality(Failing)
           \/ Cardinality(Failing') + faults + 1 <= faults' + Cardinality(Failing)
    PROVE  CopiesInv'
<1>1. /\ Cardinality(Failing) \in Nat
      /\ faults \in Nat
      /\ \A e \in Events : copies[e] \in Nat
  BY FailingCounted DEF TypeInv, RowsTyped, PhasesTyped
<1>2. \A e \in Events : Free(e) \in {0, 1} /\ Free(e)' \in {0, 1}
  BY DEF Free
<1>3. CASE /\ \A e \in Events : Kept(e) => Kept(e)'
           /\ Cardinality(Failing') + faults <= faults' + Cardinality(Failing)
  <2>1. \A e \in Events : Free(e) <= Free(e)'
    BY <1>3, <1>2 DEF Free
  <2>2. QED
    BY <1>1, <1>2, <1>3, <2>1 DEF CopiesInv
<1>4. CASE Cardinality(Failing') + faults + 1 <= faults' + Cardinality(Failing)
  BY <1>1, <1>2, <1>4 DEF CopiesInv
<1>5. QED
  BY <1>3, <1>4

\* The status consumer of r is in another state.
Turns(r, to) == listener' = [listener EXCEPT ![r] = to]

\* How many failed starts are outstanding after a step of the status consumer.
LEMMA FailingAfter ==
    ASSUME TypeInv, NEW r \in Replicas, NEW to,
           Turns(r, to)
    PROVE  /\ Cardinality(Failing) \in Nat /\ Cardinality(Failing') \in Nat
           /\ to # "cleaning" => Cardinality(Failing') <= Cardinality(Failing)
           /\ to # "cleaning" /\ listener[r] = "cleaning" =>
                Cardinality(Failing') + 1 <= Cardinality(Failing)
           /\ Cardinality(Failing') <= Cardinality(Failing) + 1
<1>1. Failing \in SUBSET Replicas /\ (r \in Failing <=> listener[r] = "cleaning")
  BY DEF Failing
<1>2. /\ Cardinality(Failing) \in Nat /\ Cardinality(Failing \ {r}) \in Nat
      /\ Cardinality(Failing \ {r}) =
           IF r \in Failing THEN Cardinality(Failing) - 1 ELSE Cardinality(Failing)
      /\ Cardinality(Failing \cup {r}) =
           IF r \in Failing THEN Cardinality(Failing) ELSE Cardinality(Failing) + 1
  BY <1>1, CountOfReplicas, Zenon
<1>3. to # "cleaning" => Failing' = Failing \ {r}
  BY DEF Failing, TypeInv, PhasesTyped, Turns
<1>4. to = "cleaning" => Failing' = Failing \cup {r}
  BY DEF Failing, TypeInv, PhasesTyped, Turns
<1>5. CASE to = "cleaning"
  <2>1. Cardinality(Failing') = Cardinality(Failing \cup {r})
    BY <1>4, <1>5
  <2>2. QED
    BY <1>2, <1>5, <2>1
<1>6. CASE to # "cleaning"
  BY <1>1, <1>2, <1>3, <1>6
<1>7. QED
  BY <1>5, <1>6

\* A pass that is not in its transaction keeps no copy.
LEMMA KeptOutside ==
    ASSUME TypeInv, NEW r \in Replicas, NEW pc, NEW claimed, NEW handled, NEW marked,
           pub[r].pc \notin {"sending", "marking", "noting"},
           Becomes(r, pc, claimed, handled, marked), published \subseteq published'
    PROVE  \A e \in Events : Kept(e) => Kept(e)'
BY FieldsAfter DEF Kept

LEMMA SendKeepsCopies ==
    ASSUME TypeInv, LockInv, CopiesInv, NEW r \in Replicas, Send(r)
    PROVE  CopiesInv'
<1>0. PICK c \in Events : c = Current(r)
  BY SendEffect
<1>1. UNCHANGED <<published, listener>>
  BY DEF Send, rows, status
<1>2. /\ Cardinality(Failing) \in Nat /\ faults \in Nat
      /\ \A e \in Events : copies[e] \in Nat
      /\ Failing' = Failing
  BY <1>1, FailingCounted DEF TypeInv, RowsTyped, PhasesTyped, Failing
<1>3. c \in Events /\ c \in Todo(r) /\ pub[r].pc = "sending"
  BY <1>0, SendEffect
<1>4. ~Kept(c)
  <2>1. c \in pub[r].claimed /\ c \notin pub[r].marked
    BY <1>3, PassBefore DEF Todo
  <2>2. c \notin published
    BY <2>1 DEF LockInv, OwnLocks
  <2>3. ASSUME NEW q \in Replicas \ {r}, c \in pub[q].claimed PROVE FALSE
    BY <2>1, <2>3 DEF LockInv
  <2>4. ASSUME NEW q \in Replicas, pub[q].pc = "marking", c = Current(q) PROVE FALSE
    <3>1. Current(q) \in pub[q].claimed
      BY <2>4, PassBefore, CurrentIsTodo DEF Todo
    <3>2. QED
      BY <3>1, <2>3, <2>4, <1>3
  <2>5. QED
    BY <2>1, <2>2, <2>3, <2>4, PassBefore DEF Kept
<1>5. copies[c] + Cardinality(Failing) <= faults
  BY <1>2, <1>3, <1>4 DEF CopiesInv, Free
<1>6. \A e \in Events : Kept(e) => Kept(e)'
  <2>1. /\ pub'[r].marked = pub[r].marked /\ pub'[r].pc \in {"marking", "noting"}
        /\ \A q \in Replicas \ {r} : pub'[q] = pub[q] /\ Current(q)' = Current(q)
    BY SendEffect, FieldsAfter
  <2>2. QED
    BY <1>1, <1>3, <2>1 DEF Kept
<1>7. \A e \in Events : /\ Free(e) \in {0, 1} /\ Free(e)' \in {0, 1}
                        /\ Free(e) <= Free(e)'
  BY <1>6 DEF Free
<1>8. CASE /\ Becomes(r, "marking", pub[r].claimed, pub[r].handled, pub[r].marked)
           /\ copies' = [copies EXCEPT ![c] = @ + 1]
           /\ UNCHANGED faults
  <2>1. Kept(c)'
    <3>1. Todo(r)' = Todo(r) /\ pub'[r].pc = "marking"
      BY <1>8, FieldsAfter DEF Todo
    <3>2. QED
      BY <3>1, <1>0 DEF Kept, Current
  <2>2. Free(c)' = 1
    BY <2>1 DEF Free
  <2>3. ASSUME NEW e \in Events
        PROVE copies'[e] + Cardinality(Failing) <= faults + Free(e)'
    <3>1. CASE e = c
      <4>1. copies'[e] = copies[e] + 1
        BY <3>1, <1>8 DEF TypeInv, RowsTyped
      <4>2. QED
        BY <3>1, <4>1, <1>2, <1>5, <2>2
    <3>2. CASE e # c
      <4>1. copies'[e] = copies[e]
        BY <3>2, <1>8 DEF TypeInv, RowsTyped
      <4>2. QED
        BY <4>1, <1>2, <1>7 DEF CopiesInv
    <3>3. QED
      BY <3>1, <3>2
  <2>4. QED
    BY <2>3, <1>2, <1>8 DEF CopiesInv
<1>9. CASE /\ Becomes(r, "noting", pub[r].claimed, pub[r].handled, pub[r].marked)
           /\ copies' = [copies EXCEPT ![c] = @ + 1] \/ UNCHANGED copies
           /\ faults' = faults + 1
  <2>1. ASSUME NEW e \in Events
        PROVE copies'[e] + Cardinality(Failing) <= faults + 1 + Free(e)'
    BY <1>2, <1>7, <1>9 DEF CopiesInv, TypeInv, RowsTyped
  <2>2. QED
    BY <2>1, <1>2, <1>9 DEF CopiesInv
<1>10. QED
  BY <1>0, <1>8, <1>9, SendEffect

LEMMA CopiesStep ==
    TypeInv /\ LockInv /\ LifeInv /\ CopiesInv /\ [Next]_vars => CopiesInv'
<1> SUFFICES ASSUME TypeInv, LockInv, LifeInv, CopiesInv, [Next]_vars PROVE CopiesInv'
  OBVIOUS
<1>t. /\ faults \in Nat /\ Cardinality(Failing) \in Nat
      /\ UNCHANGED listener => Failing' = Failing
      /\ UNCHANGED <<pub, published>> => \A e \in Events : Kept(e) => Kept(e)'
  BY FailingCounted DEF TypeInv, PhasesTyped, Failing, Kept, Current, Todo
<1>a. ASSUME UNCHANGED <<copies, listener>>, faults' \in {faults, faults + 1},
             \A e \in Events : Kept(e) => Kept(e)'
      PROVE CopiesInv'
  BY <1>a, <1>t, CopiesStay
<1>b. ASSUME UNCHANGED <<copies, listener>>, faults' = faults + 1 PROVE CopiesInv'
  BY <1>b, <1>t, CopiesStay
<1>c. ASSUME NEW r \in Replicas, Exit(r), faults' = faults + 1 PROVE CopiesInv'
  <2>1. UNCHANGED copies /\ Turns(r, "none")
    BY <1>c DEF Exit, Turns
  <2>2. /\ Cardinality(Failing') \in Nat
        /\ Cardinality(Failing') <= Cardinality(Failing)
    BY <2>1, FailingAfter
  <2>3. QED
    BY <1>c, <1>t, <2>1, <2>2, CopiesStay
<1>d. ASSUME NEW r \in Replicas, NEW to, Turns(r, to),
             UNCHANGED <<pub, published, copies>>,
             faults' \in {faults, faults + 1},
             to = "cleaning" => faults' = faults + 1
      PROVE CopiesInv'
  <2>1. /\ Cardinality(Failing') \in Nat
        /\ Cardinality(Failing') + faults <= faults' + Cardinality(Failing)
    BY <1>d, <1>t, FailingAfter
  <2>2. QED
    BY <1>d, <1>t, <2>1, CopiesStay
<1>e. ASSUME NEW r \in Replicas, NEW pc, NEW claimed, NEW handled, NEW marked,
             pub[r].pc \notin {"sending", "marking", "noting"},
             Becomes(r, pc, claimed, handled, marked),
             UNCHANGED <<published, copies, listener>>, faults' \in {faults, faults + 1}
      PROVE CopiesInv'
  BY <1>e, <1>a, KeptOutside
<1>f. ASSUME NEW r \in Replicas, NEW pc, pub' = [pub EXCEPT ![r].pc = pc],
             pub[r].pc \notin {"sending", "marking", "noting"},
             UNCHANGED <<published, copies, listener>>, faults' \in {faults, faults + 1}
      PROVE CopiesInv'
  <2>1. Becomes(r, pc, pub[r].claimed, pub[r].handled, pub[r].marked)
    BY <1>f, PassGoes DEF TypeInv
  <2>2. QED
    BY <1>f, <2>1, <1>e
<1>1. ASSUME NEW r \in Replicas, Tick(r) PROVE CopiesInv'
  BY <1>1, <1>f DEF Tick, rows, status
<1>2. ASSUME NEW r \in Replicas, ConnectProducer(r) PROVE CopiesInv'
  BY <1>2, <1>f DEF ConnectProducer, rows, status, Works, Fault
<1>3. ASSUME NEW r \in Replicas, Claim(r) PROVE CopiesInv'
  <2>1. UNCHANGED <<published, copies, listener>>
    BY <1>3 DEF Claim, rows, status
  <2>2. QED
    BY <1>3, <2>1, <1>e, ClaimEffect
<1>4. ASSUME NEW r \in Replicas, Send(r) PROVE CopiesInv'
  BY <1>4, SendKeepsCopies
<1>5. ASSUME NEW r \in Replicas, Mark(r) PROVE CopiesInv'
  <2>1. UNCHANGED <<published, copies, listener>> /\ pub[r].pc = "marking"
    BY <1>5 DEF Mark, rows, status
  <2>2. CASE /\ Becomes(r, "sending", pub[r].claimed, pub[r].handled \cup {Current(r)},
                        pub[r].marked \cup {Current(r)})
             /\ UNCHANGED faults
    <3>1. \A e \in Events : Kept(e) => Kept(e)'
      BY <2>1, <2>2, FieldsAfter DEF Kept
    <3>2. QED
      BY <2>1, <2>2, <3>1, <1>a
  <2>3. CASE faults' = faults + 1
    BY <2>1, <2>3, <1>b
  <2>4. QED
    BY <1>5, <2>2, <2>3, MarkEffect
<1>6. ASSUME NEW r \in Replicas, NoteFailure(r) PROVE CopiesInv'
  <2>1. UNCHANGED <<published, copies, listener>> /\ pub[r].pc = "noting"
    BY <1>6 DEF NoteFailure, rows, status
  <2>2. CASE /\ Becomes(r, "sending", pub[r].claimed, pub[r].handled \cup {Current(r)},
                        pub[r].marked)
             /\ UNCHANGED faults
    <3>1. \A e \in Events : Kept(e) => Kept(e)'
      BY <2>1, <2>2, FieldsAfter DEF Kept
    <3>2. QED
      BY <2>1, <2>2, <3>1, <1>a
  <2>3. CASE faults' = faults + 1
    BY <2>1, <2>3, <1>b
  <2>4. QED
    BY <1>6, <2>2, <2>3, NoteFailureEffect
<1>7. ASSUME NEW r \in Replicas, CommitBatch(r) PROVE CopiesInv'
  <2>1. UNCHANGED <<copies, listener>> /\ pub[r].pc = "sending"
    BY <1>7 DEF CommitBatch, status
  <2>2. CASE /\ Becomes(r, "idle", {}, {}, {})
             /\ published' = published \cup pub[r].marked
             /\ UNCHANGED faults
    <3>1. \A e \in Events : Kept(e) => Kept(e)'
      BY <2>1, <2>2, FieldsAfter DEF Kept
    <3>2. QED
      BY <2>1, <2>2, <3>1, <1>a
  <2>3. CASE faults' = faults + 1
    BY <2>1, <2>3, <1>b
  <2>4. QED
    BY <1>7, <2>2, <2>3, CommitEffect
<1>8. ASSUME NEW r \in Replicas, Rollback(r) PROVE CopiesInv'
  <2>1. /\ Becomes(r, "idle", {}, {}, {}) /\ pub[r].pc = "rollback"
        /\ UNCHANGED <<published, copies, listener, faults>>
    BY <1>8, PassEnds DEF Rollback, rows, status, TypeInv
  <2>2. QED
    BY <2>1, <1>e
<1>9. ASSUME NEW r \in Replicas, StartConsumer(r) PROVE CopiesInv'
  <2>1. PICK to \in {"running", "cleaning"} :
          /\ Turns(r, to)
          /\ UNCHANGED <<pub, published, copies>>
          /\ faults' \in {faults, faults + 1}
          /\ to = "cleaning" => faults' = faults + 1
    BY <1>9 DEF StartConsumer, Listening, Works, Fault, rows, Turns
  <2>2. QED
    BY <2>1, <1>d
<1>10. ASSUME NEW r \in Replicas, StartFailed(r) PROVE CopiesInv'
  <2>1. CASE Exit(r)
    <3>1. /\ listener[r] = "cleaning" /\ UNCHANGED <<copies, faults>>
          /\ Turns(r, "none")
      BY <1>10, <2>1 DEF StartFailed, Exit, Turns
    <3>2. Cardinality(Failing') \in Nat /\ Cardinality(Failing') + 1 <= Cardinality(Failing)
      BY <3>1, FailingAfter
    <3>3. QED
      BY <1>t, <3>1, <3>2, CopiesStay
  <2>2. CASE Listening(r, "none")
    BY <1>10, <2>2, <1>d DEF StartFailed, Listening, rows, Turns
  <2>3. QED
    BY <1>10, <2>1, <2>2 DEF StartFailed
<1>11. ASSUME NEW r \in Replicas, RetryFires(r) PROVE CopiesInv'
  BY <1>11, <1>d DEF RetryFires, Listening, rows, Turns
<1>12. ASSUME NEW r \in Replicas, StopConsumer(r) PROVE CopiesInv'
  <2>1. CASE Exit(r)
    <3>1. CASE faults' = faults + 1
      BY <2>1, <3>1, <1>c
    <3>2. CASE UNCHANGED faults /\ Listening(r, "none")
      BY <3>2, <1>d DEF Listening, rows, Turns
    <3>3. QED
      BY <1>12, <3>1, <3>2 DEF StopConsumer, Works, Fault
  <2>2. CASE Listening(r, "none") /\ UNCHANGED faults
    BY <2>2, <1>d DEF Listening, rows, Turns
  <2>3. QED
    BY <1>12, <2>1, <2>2 DEF StopConsumer, Works
<1>13. ASSUME NEW r \in Replicas, AllStopped(r) PROVE CopiesInv'
  BY <1>13, <1>a, <1>t DEF AllStopped, rows, status
<1>14. ASSUME NEW r \in Replicas, DisconnectProducer(r) PROVE CopiesInv'
  <2>1. CASE UNCHANGED faults
    <3>1. UNCHANGED <<copies, listener, pub, published>>
      BY <1>14, <2>1
         DEF DisconnectProducer, Works, Fault, rows, status, TypeInv, PhasesTyped
    <3>2. QED
      BY <2>1, <3>1, <1>t, <1>a
  <2>2. CASE faults' = faults + 1 /\ faults' # faults
    BY <1>14, <2>2, <1>c DEF DisconnectProducer, Works
  <2>3. QED
    BY <1>14, <2>1, <2>2, <1>t DEF DisconnectProducer, Works, Fault
<1>15. ASSUME NEW r \in Replicas, EndPool(r) PROVE CopiesInv'
  <2>1. /\ pub[r].pc = "idle" /\ UNCHANGED <<published, copies, faults>>
        /\ Turns(r, "none")
    BY <1>15 DEF EndPool, Exit, LifeInv, rows, Turns
  <2>2. \A e \in Events : Kept(e) => Kept(e)'
    BY <1>15, <2>1, ExitEffect, KeptOutside DEF EndPool
  <2>3. Cardinality(Failing') \in Nat /\ Cardinality(Failing') <= Cardinality(Failing)
    BY <2>1, FailingAfter
  <2>4. QED
    BY <1>t, <2>1, <2>2, <2>3, CopiesStay
<1>16. ASSUME NEW r \in Replicas, RunFails(r) PROVE CopiesInv'
  BY <1>16, <1>d DEF RunFails, Listening, rows, Fault, Turns
<1>17. ASSUME NEW r \in Replicas, Crash(r) PROVE CopiesInv'
  BY <1>17, <1>c DEF Crash, Fault
<1>18. ASSUME NEW r \in Replicas, ForceExit(r) PROVE CopiesInv'
  BY <1>18, <1>c DEF ForceExit, Fault
<1>19. ASSUME NEW r \in Replicas, Boot(r) PROVE CopiesInv'
  <2>1. /\ pub[r].pc = "idle" /\ pub' = [pub EXCEPT ![r].pc = "connecting"]
        /\ Turns(r, "starting")
        /\ UNCHANGED <<published, copies, faults>>
    BY <1>19 DEF Boot, LifeInv, rows, Turns
  <2>2. Becomes(r, "connecting", pub[r].claimed, pub[r].handled, pub[r].marked)
    BY <2>1, PassGoes DEF TypeInv
  <2>3. \A e \in Events : Kept(e) => Kept(e)'
    BY <2>1, <2>2, KeptOutside
  <2>4. /\ Cardinality(Failing') \in Nat
        /\ Cardinality(Failing') <= Cardinality(Failing)
    BY <2>1, FailingAfter
  <2>5. QED
    BY <1>t, <2>1, <2>3, <2>4, CopiesStay
<1>20. ASSUME NEW r \in Replicas, BeginRequest(r) PROVE CopiesInv'
  BY <1>20, <1>a, <1>t DEF BeginRequest, rows, status
<1>21. ASSUME NEW r \in Replicas, EndRequest(r) PROVE CopiesInv'
  BY <1>21, <1>a, <1>t DEF EndRequest, status
<1>22. ASSUME NEW r \in Replicas, Shutdown(r) PROVE CopiesInv'
  BY <1>22, <1>a, <1>t DEF Shutdown, rows
<1>23. CASE UNCHANGED vars
  BY <1>23, <1>a, <1>t DEF vars
<1>24. ASSUME NEW r \in Replicas, UseWebSockets(r) PROVE CopiesInv'
  BY <1>24, <1>a, <1>t, WebSocketsApart DEF TypeInv, rows, status
<1>25. QED
  BY <1>1, <1>2, <1>3, <1>4, <1>5, <1>6, <1>7, <1>8, <1>9, <1>10, <1>11, <1>12,
     <1>13, <1>14, <1>15, <1>16, <1>17, <1>18, <1>19, <1>20, <1>21, <1>22, <1>23, <1>24
     DEF Next, Publish, Listen, Stop

-----------------------------------------------------------------------------
(* The inductive invariant and what follows from it.                        *)

Inv == TypeInv /\ LifeInv /\ LockInv /\ CopiesInv

LEMMA Initially == Init => Inv
<1> SUFFICES ASSUME Init PROVE Inv
  OBVIOUS
<1>1. Handling = {} /\ Failing = {}
  BY DEF Init, Handling, Failing
<1>2. Cardinality(Handling) = 0 /\ Cardinality(Failing) = 0
  BY <1>1, FS_EmptySet
<1>3. FlagsTyped
  BY Zenon DEF Init, FlagsTyped
<1>4. PhasesTyped
  BY DEF Init, PhasesTyped
<1>w. WebTyped
  BY DEF Init, WebTyped, NoSockets, Sockets
<1>5. \A r \in Replicas :
        pub[r] = [pc |-> "connecting", claimed |-> {}, handled |-> {}, marked |-> {}]
  BY DEF Init, Idle
<1>6. PassesTyped
  BY <1>5 DEF Init, PassesTyped, WellFormed, Passes, Idle
<1>7. RowsTyped
  BY <1>2 DEF Init, RowsTyped
<1>8. LifeInv
  BY DEF Init, LifeInv, NoSockets
<1>9. LockInv
  <2>1. \A r \in Replicas : /\ pub[r].claimed = {} /\ pub[r].marked = {}
                             /\ pub[r].pc = "connecting"
    BY <1>5
  <2>2. published = {} /\ \A e \in Events : copies[e] = 0
    BY DEF Init
  <2>3. QED
    BY <2>1, <2>2 DEF LockInv, OwnLocks
<1>10. CopiesInv
  BY <1>2 DEF Init, CopiesInv, Free
<1>11. QED
  BY <1>3, <1>4, <1>w, <1>6, <1>7, <1>8, <1>9, <1>10 DEF Inv, TypeInv

\* Whatever fails: what one pass of publishPendingOutboxEvents has claimed no other
\* touches, what it marks it has sent, and a process that stops starts nothing.
THEOREM Invariance == Spec => []Inv
<1>1. Inv /\ [Next]_vars => Inv'
  BY FlagsStep, PhasesStep, WebStep, PassesStep, RowsStep, LifeStep, LockStep, CopiesStep
     DEF Inv, TypeInv
<1>2. QED
  BY <1>1, Initially, PTL DEF Spec

LEMMA CopiesBounded ==
    ASSUME Inv
    PROVE  DuplicatesNeedFaults
<1>1. Cardinality(Failing) \in Nat /\ faults \in Nat /\ copies \in [Events -> Nat]
  BY FailingCounted DEF Inv, TypeInv, PhasesTyped, RowsTyped
<1>2. \A e \in Events : Free(e) \in {0, 1}
  BY DEF Free
<1>3. QED
  BY <1>1, <1>2 DEF Inv, CopiesInv, DuplicatesNeedFaults

\* Every variable of the backend keeps its type; a pass that is over has left no
\* row locked, and marks only what it has claimed.
THEOREM TypeCorrect == Spec => []TypeOK
<1>1. Inv => TypeOK
  <2> SUFFICES ASSUME Inv PROVE TypeOK
    OBVIOUS
  <2>1. /\ created \in Nat /\ created <= MaxEvents /\ published \subseteq 1..created
    BY CreatedBounded DEF Inv, TypeInv, RowsTyped
  <2>2. copies \in [Events -> 0..(MaxFaults + 1)]
    BY CopiesBounded DEF Inv, TypeInv, RowsTyped, PhasesTyped, DuplicatesNeedFaults
  <2>3. /\ pub \in [Replicas -> Passes]
        /\ \A r \in Replicas :
            /\ pub[r].marked \subseteq pub[r].handled
            /\ pub[r].handled \subseteq pub[r].claimed
            /\ pub[r].pc \in {"idle", "connecting"} => pub[r].claimed = {}
    BY DEF Inv, TypeInv, PassesTyped, WellFormed
  <2>4. created \in Events \cup {0}
    BY <2>1 DEF Events
  <2>5. QED
    BY <2>1, <2>2, <2>3, <2>4, Zenon
       DEF TypeOK, Inv, TypeInv, FlagsTyped, PhasesTyped, WebTyped
<1>2. QED
  BY <1>1, Invariance, PTL

\* FOR UPDATE SKIP LOCKED keeps any number of replicas from sending one event
\* twice: each copy beyond the first is owed to a fault (the query of
\* publishPendingOutboxEvents).
THEOREM CopiesAreOwed == Spec => []DuplicatesNeedFaults
<1>1. Inv => DuplicatesNeedFaults
  BY CopiesBounded
<1>2. QED
  BY <1>1, Invariance, PTL

\* Shutdown disconnects the producer and ends the pool only when the publisher,
\* the status consumer, the requests and the sockets are done and nothing would
\* start one of them again; the queries of sockets that have closed are not
\* among them (shutdown, closeServer).
THEOREM ShutdownIsOrdered == Spec => []ResourcesOutliveUsers
<1>1. Inv => ResourcesOutliveUsers
  BY DEF Inv, LifeInv, ResourcesOutliveUsers
<1>2. QED
  BY <1>1, Invariance, PTL

-----------------------------------------------------------------------------
(* What the outbox promises.                                                *)

OnTopic == {e \in Events : copies[e] > 0}

LEMMA SubmitOnly ==
    ASSUME Inv, UNCHANGED <<published, copies>>,
           created' = created + 1, created' <= MaxEvents
    PROVE  Delivery!Next
<1>1. created \in Nat
  BY DEF Inv, TypeInv, RowsTyped
<1>2. created + 1 \in Events /\ created + 1 \notin 1..created
  BY <1>1 DEF Events
<1>3. 1..created' = (1..created) \cup {created + 1}
  BY <1>1
<1>4. Delivery!Submit(created + 1)
  BY <1>2, <1>3 DEF Delivery!Submit
<1>5. QED
  BY <1>2, <1>4 DEF Delivery!Next

LEMMA SendDelivers ==
    ASSUME Inv, NEW r \in Replicas, Send(r)
    PROVE  Delivery!Next \/ UNCHANGED Delivery!vars
<1>1. PICK c \in Events : c = Current(r)
  BY SendEffect DEF Inv
<1>2. UNCHANGED <<created, published>>
  BY DEF Send, rows
<1>3. c \in (1..created) \ published
  <2>1. c \in pub[r].claimed
    BY <1>1, SendEffect DEF Inv, Todo
  <2>2. QED
    BY <2>1 DEF Inv, LockInv, OwnLocks
<1>4. CASE copies' = [copies EXCEPT ![c] = @ + 1]
  <2>1. OnTopic' = OnTopic \cup {c}
    BY <1>4 DEF OnTopic, Inv, TypeInv, RowsTyped
  <2>2. Delivery!Deliver(c)
    BY <1>2, <1>3, <2>1 DEF Delivery!Deliver, OnTopic
  <2>3. QED
    BY <2>2 DEF Delivery!Next
<1>5. CASE UNCHANGED copies
  BY <1>2, <1>5 DEF Delivery!vars
<1>6. QED
  BY <1>1, <1>4, <1>5, SendEffect DEF Inv

LEMMA CommitRetires ==
    ASSUME Inv, NEW r \in Replicas, CommitBatch(r)
    PROVE  Delivery!Next \/ UNCHANGED Delivery!vars
<1>1. UNCHANGED <<created, copies>>
  BY DEF CommitBatch
<1>2. CASE UNCHANGED published
  BY <1>1, <1>2 DEF Delivery!vars
<1>3. CASE published' = published \cup pub[r].marked /\ pub[r].marked # {}
  <2>1. pub[r].marked \in SUBSET Events /\ pub[r].marked \subseteq pub[r].claimed
    BY PassBefore DEF Inv
  <2>2. pub[r].marked \subseteq OnTopic \ published
    BY <2>1 DEF Inv, LockInv, OwnLocks, OnTopic
  <2>3. Delivery!Retire(pub[r].marked)
    BY <1>1, <1>3, <2>2 DEF Delivery!Retire, OnTopic
  <2>4. QED
    BY <2>1, <2>3 DEF Delivery!Next
<1>4. QED
  BY <1>2, <1>3, CommitEffect DEF Inv

\* On any number of replicas the rows of outbox_events and the topic do only what
\* the outbox promises: an event is sent after it was submitted and never once its
\* row says PUBLISHED, and the row says so only of events that were sent.
THEOREM OutboxDelivers == Spec => Delivery!Spec
<1>1. Init => Delivery!Init
  BY DEF Init, Delivery!Init
<1>2. Inv /\ Inv' /\ [Next]_vars => [Delivery!Next]_(Delivery!vars)
  <2> SUFFICES ASSUME Inv, Inv', [Next]_vars
               PROVE  Delivery!Next \/ UNCHANGED Delivery!vars
    OBVIOUS
  <2>a. UNCHANGED <<created, published, copies>> => UNCHANGED Delivery!vars
    BY DEF Delivery!vars
  <2>1. ASSUME NEW r \in Replicas, Tick(r)
       PROVE Delivery!Next \/ UNCHANGED Delivery!vars
    BY <2>1, <2>a DEF Tick, rows
  <2>2. ASSUME NEW r \in Replicas, ConnectProducer(r)
       PROVE Delivery!Next \/ UNCHANGED Delivery!vars
    BY <2>2, <2>a DEF ConnectProducer, rows
  <2>3. ASSUME NEW r \in Replicas, Claim(r)
       PROVE Delivery!Next \/ UNCHANGED Delivery!vars
    BY <2>3, <2>a DEF Claim, rows
  <2>4. ASSUME NEW r \in Replicas, Send(r)
       PROVE Delivery!Next \/ UNCHANGED Delivery!vars
    BY <2>4, SendDelivers
  <2>5. ASSUME NEW r \in Replicas, Mark(r)
       PROVE Delivery!Next \/ UNCHANGED Delivery!vars
    BY <2>5, <2>a DEF Mark, rows
  <2>6. ASSUME NEW r \in Replicas, NoteFailure(r)
       PROVE Delivery!Next \/ UNCHANGED Delivery!vars
    BY <2>6, <2>a DEF NoteFailure, rows
  <2>7. ASSUME NEW r \in Replicas, CommitBatch(r)
       PROVE Delivery!Next \/ UNCHANGED Delivery!vars
    BY <2>7, CommitRetires
  <2>8. ASSUME NEW r \in Replicas, Rollback(r)
       PROVE Delivery!Next \/ UNCHANGED Delivery!vars
    BY <2>8, <2>a DEF Rollback, rows
  <2>9. ASSUME NEW r \in Replicas, StartConsumer(r)
       PROVE Delivery!Next \/ UNCHANGED Delivery!vars
    BY <2>9, <2>a DEF StartConsumer, Listening, rows
  <2>10. ASSUME NEW r \in Replicas, StartFailed(r)
       PROVE Delivery!Next \/ UNCHANGED Delivery!vars
    BY <2>10, <2>a DEF StartFailed, Exit, Listening, rows
  <2>11. ASSUME NEW r \in Replicas, RetryFires(r)
       PROVE Delivery!Next \/ UNCHANGED Delivery!vars
    BY <2>11, <2>a DEF RetryFires, Listening, rows
  <2>12. ASSUME NEW r \in Replicas, StopConsumer(r)
       PROVE Delivery!Next \/ UNCHANGED Delivery!vars
    BY <2>12, <2>a DEF StopConsumer, Exit, Listening, rows
  <2>13. ASSUME NEW r \in Replicas, AllStopped(r)
       PROVE Delivery!Next \/ UNCHANGED Delivery!vars
    BY <2>13, <2>a DEF AllStopped, rows
  <2>14. ASSUME NEW r \in Replicas, DisconnectProducer(r)
       PROVE Delivery!Next \/ UNCHANGED Delivery!vars
    BY <2>14, <2>a DEF DisconnectProducer, Exit, rows
  <2>15. ASSUME NEW r \in Replicas, EndPool(r)
       PROVE Delivery!Next \/ UNCHANGED Delivery!vars
    BY <2>15, <2>a DEF EndPool, Exit, rows
  <2>16. ASSUME NEW r \in Replicas, RunFails(r)
       PROVE Delivery!Next \/ UNCHANGED Delivery!vars
    BY <2>16, <2>a DEF RunFails, Listening, rows
  <2>17. ASSUME NEW r \in Replicas, Crash(r)
       PROVE Delivery!Next \/ UNCHANGED Delivery!vars
    BY <2>17, <2>a DEF Crash, Exit, rows
  <2>18. ASSUME NEW r \in Replicas, ForceExit(r)
       PROVE Delivery!Next \/ UNCHANGED Delivery!vars
    BY <2>18, <2>a DEF ForceExit, Exit, rows
  <2>19. ASSUME NEW r \in Replicas, Boot(r)
       PROVE Delivery!Next \/ UNCHANGED Delivery!vars
    BY <2>19, <2>a DEF Boot, rows
  <2>20. ASSUME NEW r \in Replicas, BeginRequest(r)
       PROVE Delivery!Next \/ UNCHANGED Delivery!vars
    BY <2>20, <2>a DEF BeginRequest, rows
  <2>21. ASSUME NEW r \in Replicas, EndRequest(r)
       PROVE Delivery!Next \/ UNCHANGED Delivery!vars
    <3>1. UNCHANGED <<published, copies>> /\ (created' = created \/ created' = created + 1)
      BY <2>21 DEF EndRequest
    <3>2. created' <= MaxEvents
      <4>1. Cardinality(Handling') \in Nat
        BY <2>21, RequestEnds DEF EndRequest, Inv
      <4>2. QED
        BY <4>1 DEF Inv, TypeInv, RowsTyped
    <3>3. QED
      BY <3>1, <3>2, <2>a, SubmitOnly
  <2>22. ASSUME NEW r \in Replicas, Shutdown(r)
       PROVE Delivery!Next \/ UNCHANGED Delivery!vars
    BY <2>22, <2>a DEF Shutdown, rows
  <2>23. CASE UNCHANGED vars
    BY <2>23, <2>a DEF vars
  <2>24. ASSUME NEW r \in Replicas, UseWebSockets(r)
       PROVE Delivery!Next \/ UNCHANGED Delivery!vars
    BY <2>24, <2>a, WebSocketsApart DEF Inv, TypeInv, rows
  <2>25. QED
    BY <2>1, <2>2, <2>3, <2>4, <2>5, <2>6, <2>7, <2>8, <2>9, <2>10, <2>11, <2>12,
       <2>13, <2>14, <2>15, <2>16, <2>17, <2>18, <2>19, <2>20, <2>21, <2>22, <2>23,
       <2>24
       DEF Next, Publish, Listen, Stop
<1>3. QED
  BY <1>1, <1>2, Invariance, PTL DEF Spec, Delivery!Spec
=============================================================================

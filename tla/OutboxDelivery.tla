--------------------------- MODULE OutboxDelivery ---------------------------
(***************************************************************************)
(* What the transactional outbox promises: an event that was submitted     *)
(* reaches its topic, at least once, and is retired only after it did.     *)
(***************************************************************************)
EXTENDS Naturals

CONSTANT Events

VARIABLES submitted, delivered, retired

vars == <<submitted, delivered, retired>>

TypeOK ==
    /\ submitted \in SUBSET Events
    /\ delivered \in SUBSET submitted
    /\ retired \in SUBSET delivered

Init ==
    /\ submitted = {}
    /\ delivered = {}
    /\ retired = {}

Submit(e) ==
    /\ e \notin submitted
    /\ submitted' = submitted \cup {e}
    /\ UNCHANGED <<delivered, retired>>

\* A repeated delivery of an event that is not retired is a stuttering step.
Deliver(e) ==
    /\ e \in submitted \ retired
    /\ delivered' = delivered \cup {e}
    /\ UNCHANGED <<submitted, retired>>

\* One transaction retires a whole batch.
Retire(batch) ==
    /\ batch # {}
    /\ batch \subseteq delivered \ retired
    /\ retired' = retired \cup batch
    /\ UNCHANGED <<submitted, delivered>>

RetireOne(e) == \E batch \in SUBSET Events : e \in batch /\ Retire(batch)

Next ==
    \/ \E e \in Events : Submit(e) \/ Deliver(e)
    \/ \E batch \in SUBSET Events : Retire(batch)

Fairness ==
    \A e \in Events : WF_vars(Deliver(e)) /\ WF_vars(RetireOne(e))

Spec == Init /\ [][Next]_vars

FairSpec == Spec /\ Fairness
=============================================================================

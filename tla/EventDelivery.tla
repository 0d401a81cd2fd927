--------------------------- MODULE EventDelivery ---------------------------
(***************************************************************************)
(* What the event store promises the commands that append to it            *)
(* (backend/src/eventSourcing): a recorded event is settled only after all *)
(* its projections have had it, or after every attempt to hand it to them  *)
(* was used up, and it is settled eventually.  Nothing is said about how   *)
(* often a projection gets it.                                             *)
(***************************************************************************)
CONSTANT Events

VARIABLES
    recorded,       \* events appended to the stream
    delivered,      \* events all projections had at least once
    exhausted,      \* events that failed as often as an event may
    settled         \* events the store is done with

vars == <<recorded, delivered, exhausted, settled>>

TypeOK ==
    /\ recorded \subseteq Events
    /\ delivered \subseteq recorded
    /\ exhausted \subseteq recorded
    /\ settled \subseteq delivered \union exhausted

Init ==
    /\ recorded = {}
    /\ delivered = {}
    /\ exhausted = {}
    /\ settled = {}

Record(e) ==
    /\ e \notin recorded
    /\ recorded' = recorded \union {e}
    /\ UNCHANGED <<delivered, exhausted, settled>>

Deliver(e) ==
    /\ e \in recorded
    /\ delivered' = delivered \union {e}
    /\ UNCHANGED <<recorded, exhausted, settled>>

Exhaust(e) ==
    /\ e \in recorded
    /\ exhausted' = exhausted \union {e}
    /\ UNCHANGED <<recorded, delivered, settled>>

\* A batch settles all its events at once.
Settle(batch) ==
    /\ batch \subseteq delivered \union exhausted
    /\ settled' = settled \union batch
    /\ UNCHANGED <<recorded, delivered, exhausted>>

Next ==
    \/ \E e \in Events : Record(e) \/ Deliver(e) \/ Exhaust(e)
    \/ \E batch \in SUBSET Events : Settle(batch)

Attempt(e) == e \notin delivered \union exhausted /\ (Deliver(e) \/ Exhaust(e))

Conclude(e) == e \notin settled /\ \E batch \in SUBSET Events : e \in batch /\ Settle(batch)

Safe == Init /\ [][Next]_vars

Spec == Safe /\ \A e \in Events : WF_vars(Attempt(e)) /\ WF_vars(Conclude(e))
=============================================================================

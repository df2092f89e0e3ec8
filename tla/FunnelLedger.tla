----------------------------- MODULE FunnelLedger -----------------------------
(***************************************************************************)
(* What the outbox, Kafka and the analytics consumer promise together: a    *)
(* business event that a service has committed is counted in the funnel     *)
(* (migrations/clickhouse/000001_product_events.sql) once, after it         *)
(* happened, and never uncounted.  The one exception is an event which the  *)
(* broker dropped and which is taken for sent: it is missing for good, and  *)
(* only such an event is.                                                   *)
(***************************************************************************)
CONSTANTS
    Events,
    Accepted     \* the events the analytics service can read

VARIABLES
    recorded,    \* events committed by the services
    counted,     \* events the funnel counts
    dropped,     \* events the broker has dropped at least once
    missing      \* events taken for sent that nobody will send again

vars == <<recorded, counted, dropped, missing>>

Init == recorded = {} /\ counted = {} /\ dropped = {} /\ missing = {}

Record(e) ==
    /\ e \in Events \ recorded
    /\ recorded' = recorded \cup {e}
    /\ UNCHANGED <<counted, dropped, missing>>

Drop(e) ==
    /\ e \in recorded
    /\ dropped' = dropped \cup {e}
    /\ UNCHANGED <<recorded, counted, missing>>

(* The publisher commits its marks, a batch at a time.                      *)
Forget(batch) ==
    /\ batch \subseteq dropped \ counted
    /\ missing' = missing \cup batch
    /\ UNCHANGED <<recorded, counted, dropped>>

Count(e) ==
    /\ e \in (recorded \cap Accepted) \ (counted \cup missing)
    /\ counted' = counted \cup {e}
    /\ UNCHANGED <<recorded, dropped, missing>>

Next ==
    \/ \E e \in Events : Record(e) \/ Drop(e) \/ Count(e)
    \/ \E batch \in SUBSET Events : Forget(batch)

Spec == Init /\ [][Next]_vars

FairSpec == Spec /\ \A e \in Events : WF_vars(Count(e))
=============================================================================

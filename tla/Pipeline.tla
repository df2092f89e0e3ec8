------------------------------- MODULE Pipeline -------------------------------
(***************************************************************************)
(* The way of a business event from the transaction that causes it to the   *)
(* funnel: the outbox and its publishers (module Outbox), Kafka, and the    *)
(* analytics consumer (module Analytics), which share nothing but the log.  *)
(* Each side repeats itself when something fails; together they implement   *)
(* a ledger that counts every event once (module FunnelLedger), but for the *)
(* events that a broker lost and nobody was told of.                        *)
(***************************************************************************)
EXTENDS Outbox

CONSTANTS
    Topics,
    TopicOf,
    Accepted,
    MaxStops     \* bound: errors and crashes of the consumer

ASSUME PipelineAssumption ==
    /\ IsFiniteSet(Topics)
    /\ TopicOf \in [Events -> Topics]
    /\ Accepted \subseteq Events
    /\ MaxStops \in Nat

VARIABLES committed, position, pc, rows, stops

A == INSTANCE Analytics

consumer == <<committed, position, pc, rows, stops>>
pipeline == <<vars, consumer>>

PipelineInit == Init /\ A!Init

PipelineNext ==
    \/ Next /\ UNCHANGED consumer
    \/ A!Next /\ UNCHANGED vars

PipelineSpec == PipelineInit /\ [][PipelineNext]_pipeline

(* The publishers are driven by a ticker, the consumer's process is         *)
(* restarted ("restart: unless-stopped"), ends once it has failed, and each *)
(* of its goroutines runs.                                                  *)
PipelineFairSpec ==
    /\ PipelineSpec
    /\ \A p \in Pubs : WF_pipeline(Publish(p) /\ UNCHANGED consumer)
    /\ WF_pipeline(A!Start /\ UNCHANGED vars)
    /\ WF_pipeline(A!Exit /\ UNCHANGED vars)
    /\ \A t \in Topics : WF_pipeline(A!Consume(t) /\ UNCHANGED vars)

-----------------------------------------------------------------------------
(* A row inserted again has been paid for: on each topic ClickHouse has at  *)
(* most a row for every message in Kafka and one for every stop of the      *)
(* consumer, because a stop leaves at most one message of a topic inserted  *)
(* and not committed (consumeTopic).                                        *)
RowsPaidFor ==
    /\ A!TypeOK
    /\ \A t \in Topics :
          Len(rows[t]) <= Cardinality({i \in DOMAIN log : TopicOf[log[i]] = t}) + stops

Ledger == INSTANCE FunnelLedger WITH
    Events <- Events, Accepted <- Accepted, recorded <- Committed, counted <- A!Counted,
    dropped <- dropped, missing <- Missing

(* Every event a service has committed and analytics can read is counted in *)
(* the funnel exactly once and in the end, whatever the publishers,         *)
(* ClickHouse and the consumer lose or repeat on the way, unless the broker *)
(* itself dropped it and its row was marked; an event whose transaction     *)
(* rolled back is never counted, none is uncounted, and none that is        *)
(* missing turns up later.                                                  *)
CountsOnce == Ledger!FairSpec
=============================================================================

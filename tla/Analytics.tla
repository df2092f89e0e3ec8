------------------------------ MODULE Analytics ------------------------------
(***************************************************************************)
(* The analytics consumer (internal/analytics, cmd/analytics/main.go): one  *)
(* goroutine per topic fetches an event, inserts it into ClickHouse and     *)
(* commits its offset.  An event DecodeEvent rejects is passed over; the    *)
(* first error of any goroutine ends the process for all of them, and the   *)
(* container runtime starts it again.  product_events is a                  *)
(* ReplacingMergeTree ordered by event_id and read with FINAL, so a row     *)
(* inserted twice is one event of the funnel.                               *)
(*                                                                          *)
(* log is Kafka as the producers leave it.  A topic is the part of it with  *)
(* the events of that topic, and an offset is a place in it.                *)
(***************************************************************************)
EXTENDS Integers, Sequences

CONSTANTS
    Events,
    Topics,
    TopicOf,     \* the topic of an event
    Accepted,    \* the events DecodeEvent accepts
    MaxStops     \* bound: errors and crashes

VARIABLES
    log,         \* Kafka
    committed,   \* committed offset of each topic
    position,    \* where each reader stands
    pc,          \* what each goroutine does next
    rows,        \* rows inserted into product_events, by topic
    stops

state == <<committed, position, pc, rows, stops>>

(* The next message of the topic after a place.                             *)
IsNext(t, i, place) ==
    /\ i \in DOMAIN log /\ i > place /\ TopicOf[log[i]] = t
    /\ \A j \in DOMAIN log : j > place /\ j < i => TopicOf[log[j]] # t

Goto(t, step) == pc' = [pc EXCEPT ![t] = step]
Stop == stops < MaxStops /\ stops' = stops + 1

(* product_events FINAL.                                                    *)
Counted == {e \in Events : \E t \in Topics : \E i \in DOMAIN rows[t] : rows[t][i] = e}

-----------------------------------------------------------------------------
(* main and Run: a goroutine for every topic.                               *)
Start ==
    /\ \A t \in Topics : pc[t] = "down"
    /\ pc' = [t \in Topics |-> "fetch"]
    /\ position' = committed
    /\ UNCHANGED <<log, committed, rows, stops>>

(* FetchMessage and DecodeEvent; position is the message in hand.           *)
Fetch(t) ==
    /\ pc[t] = "fetch"
    /\ \E i \in DOMAIN log :
          /\ IsNext(t, i, position[t])
          /\ position' = [position EXCEPT ![t] = i]
          /\ Goto(t, IF log[i] \in Accepted THEN "insert" ELSE "commit")
    /\ UNCHANGED <<log, committed, rows, stops>>

Insert(t) ==
    /\ pc[t] = "insert"
    /\ rows' = [rows EXCEPT ![t] = Append(@, log[position[t]])]
    /\ Goto(t, "commit")
    /\ UNCHANGED <<log, committed, position, stops>>

(* Fault: a failed insert is logged, and the offset committed.              *)
InsertFailsSkipped(t) ==
    /\ pc[t] = "insert" /\ Stop
    /\ UNCHANGED rows
    /\ Goto(t, "commit")
    /\ UNCHANGED <<log, committed, position>>

(* ClickHouse refuses the row, or takes it and the answer is lost.          *)
InsertFails(t) ==
    /\ pc[t] = "insert" /\ Stop
    /\ rows' \in {rows, [rows EXCEPT ![t] = Append(@, log[position[t]])]}
    /\ Goto(t, "failed")
    /\ UNCHANGED <<log, committed, position>>

(* Fault: the reader goes on and nothing is committed.                      *)
CommitNothing(t) ==
    /\ pc[t] = "commit"
    /\ Goto(t, "fetch")
    /\ UNCHANGED <<log, committed, position, rows, stops>>

Commit(t) ==
    /\ pc[t] = "commit"
    /\ committed' = [committed EXCEPT ![t] = position[t]]
    /\ Goto(t, "fetch")
    /\ UNCHANGED <<log, position, rows, stops>>

CommitFails(t) ==
    /\ pc[t] = "commit" /\ Stop
    /\ Goto(t, "failed")
    /\ UNCHANGED <<log, committed, position, rows>>

(* Run returns the first error and main ends the process; the goroutines of *)
(* the other topics may have gone on until now.                             *)
Exit ==
    /\ \E t \in Topics : pc[t] = "failed"
    /\ pc' = [t \in Topics |-> "down"]
    /\ UNCHANGED <<log, committed, position, rows, stops>>

Crash ==
    /\ \E t \in Topics : pc[t] # "down"
    /\ Stop
    /\ pc' = [t \in Topics |-> "down"]
    /\ UNCHANGED <<log, committed, position, rows>>

Init ==
    /\ committed = [t \in Topics |-> 0]
    /\ position = [t \in Topics |-> 0]
    /\ pc = [t \in Topics |-> "down"]
    /\ rows = [t \in Topics |-> <<>>]
    /\ stops = 0

Consume(t) == Fetch(t) \/ Insert(t) \/ Commit(t)
Fail(t) == InsertFails(t) \/ CommitFails(t)

Next == Start \/ Exit \/ Crash \/ \E t \in Topics : Consume(t) \/ Fail(t)

-----------------------------------------------------------------------------
(* A goroutine with a message in hand stands on a message of its topic, and *)
(* no reader is behind its committed offset (consumeTopic).                 *)
TypeOK ==
    /\ \A t \in Topics :
          /\ pc[t] \in {"down", "fetch", "insert", "commit", "failed"}
          /\ committed[t] \in 0 .. Len(log)
          /\ position[t] \in committed[t] .. Len(log)
          /\ pc[t] \in {"insert", "commit"} =>
                position[t] \in DOMAIN log /\ TopicOf[log[position[t]]] = t
          /\ rows[t] \in Seq(Accepted)
    /\ stops \in 0 .. MaxStops
=============================================================================

----------------------------- MODULE Notification -----------------------------
(***************************************************************************)
(* The notification worker (internal/notification/worker.go) and the        *)
(* deduplication every transactional consumer uses (outbox.Process): a      *)
(* recommendation.created event is claimed by inserting its id into         *)
(* processed_events, the rider's devices are pushed to from inside that     *)
(* transaction, and the Kafka offset is committed after it.  A push cannot  *)
(* be rolled back; everything else can.                                     *)
(*                                                                          *)
(* Each worker reads one partition.  The publishers write at least once and *)
(* to any partition, so the same event may sit in several logs.             *)
(***************************************************************************)
EXTENDS Integers, Sequences, FiniteSets

CONSTANTS
    Workers,     \* members of the consumer group, one partition each
    Recs,        \* recommendation.created events, one per recommendation
    Bad,         \* those that DecodeRecommendationCreatedEvent rejects
    Subs,        \* rows of notification_subscriptions of the rider
    CreatedAt,   \* their order
    MaxLog,      \* bound: messages per partition
    MaxCrashes,  \* bound: crashes of a worker process
    MaxErrors    \* bound: errors returned by PostgreSQL or Kafka

ASSUME NotificationAssumption ==
    /\ Bad \subseteq Recs
    /\ CreatedAt \in [Subs -> Nat]
    /\ \A s, t \in Subs : CreatedAt[s] = CreatedAt[t] => s = t
    /\ MaxLog \in Nat /\ MaxCrashes \in Nat /\ MaxErrors \in Nat

VARIABLES
    log,         \* the partition of each worker
    offset,      \* its committed offset
    processed,   \* processed_events of this consumer
    deliveries,  \* notification_deliveries.status by subscription and event
    active,      \* notification_subscriptions.active
    allowed,     \* the rider's settings allow a push at this time
    pushes,      \* what the push service has accepted
    outbox,      \* notification events enqueued, by subscription and event
    pc,          \* what each worker does next
    queue,       \* deliver: subscriptions not yet pushed to
    result,      \* deliver: uncommitted outcome by subscription
    crashes, errors

vars == <<log, offset, processed, deliveries, active, allowed, pushes, outbox,
          pc, queue, result, crashes, errors>>

Outcomes == {"sent", "delivered", "failed", "gone"}
NoResult == [s \in Subs |-> "none"]

(* The message the worker has fetched, or would fetch next.                 *)
Current(w) == log[w][offset[w] + 1]

(* The status column for an outcome: 404 and 410 also count as failed.      *)
Status(outcome) == IF outcome = "gone" THEN "failed" ELSE outcome

(* How often the push service may have accepted a push of this outcome: a    *)
(* call that times out is a failure although the service may have it.       *)
Accepted(outcome) ==
    CASE outcome \in {"sent", "delivered"} -> {1}
      [] outcome = "failed" -> {0, 1}
      [] outcome = "gone" -> {0}

-----------------------------------------------------------------------------
(* The world around the worker.                                             *)

Produce(w, e) ==
    /\ Len(log[w]) < MaxLog
    /\ log' = [log EXCEPT ![w] = Append(@, e)]
    /\ UNCHANGED <<offset, processed, deliveries, active, allowed, pushes, outbox,
                   pc, queue, result, crashes, errors>>

(* The row lock of an uncommitted deactivation.                             *)
Deactivating(s) == \E w \in Workers : result[w][s] = "gone"

(* Service.Register and Service.Revoke; both wait for the row.              *)
Register(s) ==
    /\ ~Deactivating(s)
    /\ active' = active \cup {s}
    /\ UNCHANGED <<log, offset, processed, deliveries, allowed, pushes, outbox,
                   pc, queue, result, crashes, errors>>

Revoke(s) ==
    /\ ~Deactivating(s)
    /\ active' = active \ {s}
    /\ UNCHANGED <<log, offset, processed, deliveries, allowed, pushes, outbox,
                   pc, queue, result, crashes, errors>>

(* UpdateUserPreferences, or the notification window opens or closes.       *)
ChangeSettings ==
    /\ allowed' = ~allowed
    /\ UNCHANGED <<log, offset, processed, deliveries, active, pushes, outbox,
                   pc, queue, result, crashes, errors>>

-----------------------------------------------------------------------------
(* RunWithProvider.                                                         *)

(* FetchMessage and Decode: an invalid message goes straight to its commit. *)
Fetch(w) ==
    /\ pc[w] = "fetch"
    /\ offset[w] < Len(log[w])
    /\ pc' = [pc EXCEPT ![w] = IF Current(w) \in Bad THEN "ack" ELSE "claim"]
    /\ UNCHANGED <<log, offset, processed, deliveries, active, allowed, pushes, outbox,
                   queue, result, crashes, errors>>

(* Another open transaction has inserted the same processed_events row.     *)
Claimed(w) == \E x \in Workers \ {w} : pc[x] = "deliver" /\ Current(x) = Current(w)

(* The start of deliver: settings first, then the active subscriptions.     *)
StartDeliver(w) ==
    /\ pc' = [pc EXCEPT ![w] = "deliver"]
    /\ queue' = [queue EXCEPT ![w] = IF allowed THEN active ELSE {}]

(* Fault: the claim is not inserted in the transaction of the handler.      *)
ClaimNoWait(w) ==
    /\ pc[w] = "claim"
    /\ IF Current(w) \in processed
       THEN pc' = [pc EXCEPT ![w] = "ack"] /\ UNCHANGED queue
       ELSE StartDeliver(w)
    /\ UNCHANGED <<log, offset, processed, deliveries, active, allowed, pushes, outbox,
                   result, crashes, errors>>

(* INSERT INTO processed_events ... ON CONFLICT DO NOTHING waits for an     *)
(* uncommitted row of the same event.                                       *)
Claim(w) ==
    /\ pc[w] = "claim"
    /\ ~Claimed(w)
    /\ IF Current(w) \in processed
       THEN pc' = [pc EXCEPT ![w] = "ack"] /\ UNCHANGED queue
       ELSE StartDeliver(w)
    /\ UNCHANGED <<log, offset, processed, deliveries, active, allowed, pushes, outbox,
                   result, crashes, errors>>

IsNext(w, s) == s \in queue[w] /\ \A t \in queue[w] : CreatedAt[s] <= CreatedAt[t]

EventTopics == {"notification.sent", "notification.delivered", "notification.failed"}

(* The events that tell of a delivery row with this status.                 *)
Topics(status) ==
    CASE status = "sent" -> <<"notification.sent">>
      [] status = "delivered" -> <<"notification.sent", "notification.delivered">>
      [] status = "failed" -> <<"notification.failed">>
      [] status = "none" -> <<>>

(* One turn of deliver's loop: a subscription that has a delivery row is    *)
(* skipped; otherwise the provider is called and its answer recorded in the *)
(* open transaction, with the notification event that tells of it.          *)
Send(w) ==
    \E s \in Subs :
        /\ pc[w] = "deliver" /\ IsNext(w, s)
        /\ queue' = [queue EXCEPT ![w] = @ \ {s}]
        /\ IF deliveries[s][Current(w)] # "none"
           THEN UNCHANGED <<pushes, result>>
           ELSE \E outcome \in Outcomes :
                  /\ outcome = "gone" => ~Deactivating(s)
                  /\ result' = [result EXCEPT ![w][s] = outcome]
                  /\ \E accepted \in Accepted(outcome) :
                        pushes' = [pushes EXCEPT ![s][Current(w)] = @ + accepted]
        /\ UNCHANGED <<log, offset, processed, deliveries, active, allowed, outbox,
                       pc, crashes, errors>>

(* INSERT INTO notification_deliveries ... ON CONFLICT DO NOTHING inserts.  *)
Inserted(w, s) == result[w][s] # "none" /\ deliveries[s][Current(w)] = "none"

(* Fault: the deliveries are committed without the claim.                   *)
CommitWithoutClaim(w) ==
    /\ pc[w] = "deliver" /\ queue[w] = {}
    /\ deliveries' = [s \in Subs |->
          IF result[w][s] = "none" THEN deliveries[s]
          ELSE [deliveries[s] EXCEPT ![Current(w)] = Status(result[w][s])]]
    /\ pc' = [pc EXCEPT ![w] = "ack"]
    /\ result' = [result EXCEPT ![w] = NoResult]
    /\ UNCHANGED <<log, offset, processed, active, allowed, pushes, outbox, queue, crashes, errors>>

(* The transaction of outbox.Process commits.                               *)
CommitProcess(w) ==
    /\ pc[w] = "deliver" /\ queue[w] = {}
    /\ processed' = processed \cup {Current(w)}
    /\ deliveries' = [s \in Subs |->
          IF Inserted(w, s) THEN [deliveries[s] EXCEPT ![Current(w)] = Status(result[w][s])]
          ELSE deliveries[s]]
    /\ active' = active \ {s \in Subs : result[w][s] = "gone"}
    /\ pc' = [pc EXCEPT ![w] = "ack"]
    /\ result' = [result EXCEPT ![w] = NoResult]
    /\ outbox' = [s \in Subs |->
          IF Inserted(w, s) THEN [outbox[s] EXCEPT ![Current(w)] = @ \o Topics(Status(result[w][s]))]
          ELSE outbox[s]]
    /\ UNCHANGED <<log, offset, allowed, pushes, queue, crashes, errors>>

(* CommitMessages.                                                          *)
Ack(w) ==
    /\ pc[w] = "ack"
    /\ offset' = [offset EXCEPT ![w] = @ + 1]
    /\ pc' = [pc EXCEPT ![w] = "fetch"]
    /\ UNCHANGED <<log, processed, deliveries, active, allowed, pushes, outbox,
                   queue, result, crashes, errors>>

(* The open transaction, if any, is rolled back.                            *)
Rollback(w, next) ==
    /\ pc' = [pc EXCEPT ![w] = next]
    /\ queue' = [queue EXCEPT ![w] = {}]
    /\ result' = [result EXCEPT ![w] = NoResult]
    /\ UNCHANGED <<log, processed, deliveries, active, allowed, pushes, outbox>>

(* A statement, the Commit, FetchMessage or CommitMessages returns an       *)
(* error: RunWithProvider returns it, its goroutine ends, and the process   *)
(* lives on (cmd/notification/main.go).                                     *)
Error(w) ==
    /\ pc[w] # "stopped"
    /\ errors < MaxErrors
    /\ errors' = errors + 1
    /\ Rollback(w, "stopped")
    /\ UNCHANGED <<offset, crashes>>

(* Fault: the offset is committed as soon as the message is fetched.        *)
CrashAfterEarlyAck(w) ==
    /\ crashes < MaxCrashes
    /\ crashes' = crashes + 1
    /\ offset' = [offset EXCEPT ![w] = IF pc[w] \in {"claim", "deliver", "ack"} THEN @ + 1 ELSE @]
    /\ Rollback(w, "fetch")
    /\ UNCHANGED errors

(* The process dies and is restarted, from the committed offset.            *)
Crash(w) ==
    /\ crashes < MaxCrashes
    /\ crashes' = crashes + 1
    /\ Rollback(w, "fetch")
    /\ UNCHANGED <<offset, errors>>

-----------------------------------------------------------------------------
Init ==
    /\ log = [w \in Workers |-> <<>>]
    /\ offset = [w \in Workers |-> 0]
    /\ processed = {}
    /\ deliveries = [s \in Subs |-> [e \in Recs |-> "none"]]
    /\ active = Subs
    /\ allowed = TRUE
    /\ pushes = [s \in Subs |-> [e \in Recs |-> 0]]
    /\ outbox = [s \in Subs |-> [e \in Recs |-> <<>>]]
    /\ pc = [w \in Workers |-> "fetch"]
    /\ queue = [w \in Workers |-> {}]
    /\ result = [w \in Workers |-> NoResult]
    /\ crashes = 0
    /\ errors = 0

Work(w) == Fetch(w) \/ Claim(w) \/ Send(w) \/ CommitProcess(w) \/ Ack(w)

Next ==
    \/ \E w \in Workers, e \in Recs : Produce(w, e)
    \/ \E s \in Subs : Register(s) \/ Revoke(s)
    \/ ChangeSettings
    \/ \E w \in Workers : Work(w) \/ Error(w) \/ Crash(w)

Spec == Init /\ [][Next]_vars

(* A running worker goes on with its loop; PostgreSQL wakes the waiter on a *)
(* processed_events row.                                                    *)
FairSpec == Spec /\ \A w \in Workers : WF_vars(Work(w))

-----------------------------------------------------------------------------
(* Properties.                                                              *)

(* Every variable has its type, and no offset is past the end of its log.   *)
TypeOK ==
    /\ log \in [Workers -> Seq(Recs)]
    /\ offset \in [Workers -> Nat]
    /\ processed \in SUBSET Recs
    /\ deliveries \in [Subs -> [Recs -> {"none", "sent", "delivered", "failed"}]]
    /\ active \in SUBSET Subs
    /\ allowed \in BOOLEAN
    /\ pushes \in [Subs -> [Recs -> Nat]]
    /\ outbox \in [Subs -> [Recs -> Seq(EventTopics)]]
    /\ pc \in [Workers -> {"fetch", "claim", "deliver", "ack", "stopped"}]
    /\ queue \in [Workers -> SUBSET Subs]
    /\ result \in [Workers -> [Subs -> Outcomes \cup {"none"}]]
    /\ crashes \in 0..MaxCrashes /\ errors \in 0..MaxErrors
    /\ \A w \in Workers : offset[w] <= Len(log[w])

(* "Kafka consumers commit offsets after successful handling"               *)
(* (docs/delivery.md): every valid message below a committed offset is in   *)
(* processed_events, whatever crashes and errors came between, so no        *)
(* message is skipped.                                                      *)
OffsetsCovered ==
    /\ TypeOK
    /\ \A w \in Workers : \A i \in 1..offset[w] : log[w][i] \in processed \cup Bad

(* A rider's device is pushed to again for the same recommendation only     *)
(* when a transaction was lost after its push: a duplicate of the event, in *)
(* the same or in the other worker's partition, and a concurrent claim      *)
(* never cause one by themselves.                                           *)
RepeatsNeedFaults ==
    \A s \in Subs, e \in Recs : pushes[s][e] <= 1 + crashes + errors

(* What the tables say happened did happen: a sent or delivered row has a   *)
(* push behind it, its notification events are enqueued once, and a row    *)
(* never outlives the loss of the claim it was written with, so a replay    *)
(* cannot find half of a transaction.                                       *)
RowsBackedByPushes ==
    \A s \in Subs, e \in Recs :
        /\ deliveries[s][e] \in {"sent", "delivered"} => pushes[s][e] > 0
        /\ deliveries[s][e] # "none" => e \in processed
        /\ outbox[s][e] = Topics(deliveries[s][e])

(* Every valid event in a partition is eventually processed, whatever        *)
(* crashes, unless an error has ended the loop of its worker for good:       *)
(* RunWithProvider returns the first error and nothing starts it again       *)
(* while its process lives.                                                  *)
EveryEventProcessed ==
    \A w \in Workers : \A i \in 1..MaxLog :
        (i <= Len(log[w]) /\ log[w][i] \notin Bad)
        ~> (i <= Len(log[w]) /\ (log[w][i] \in processed \/ pc[w] = "stopped"))
=============================================================================

---------------------------- MODULE EntryConsumer ----------------------------
(***************************************************************************)
(* The consumer of journey.entered (internal/recommendation/consumer.go).   *)
(* For every entry event it looks for a recommendation of the journey and,  *)
(* if it finds none, makes one: a row of recommendations and its event in   *)
(* one transaction.  Unlike the notification worker it does not claim the   *)
(* event in processed_events, and it goes on to the next message when       *)
(* Recommend fails.                                                         *)
(*                                                                          *)
(* Each consumer reads one partition; position is where its reader stands,  *)
(* committed is the offset a restart begins from.                           *)
(***************************************************************************)
EXTENDS Integers, Sequences, FiniteSets

CONSTANTS
    Consumers,      \* members of the group, one partition each
    Journeys,       \* journeys, named in entry events
    Bad,            \* those whose event DecodeEntryEvent rejects
    MaxLog,         \* bound: messages per partition
    MaxCrashes,     \* bound: restarts and rebalances
    MaxFailures,    \* bound: errors of Recommend
    MaxReadErrors   \* bound: errors of GetLatest other than "no rows"

ASSUME EntryAssumption ==
    /\ IsFiniteSet(Consumers)
    /\ Bad \subseteq Journeys
    /\ MaxLog \in Nat /\ MaxCrashes \in Nat /\ MaxFailures \in Nat /\ MaxReadErrors \in Nat

VARIABLES
    log,         \* the partition of each consumer
    position,    \* messages its reader has handed out and finished with
    committed,   \* its committed offset
    made,        \* recommendations of each journey, each with its outbox event
    step,        \* what each consumer does next
    crashes, failures, readErrors

faults == <<crashes, failures, readErrors>>
entryVars == <<log, position, committed, made, step, faults>>

Current(c) == log[c][position[c] + 1]
Goto(c, next) == step' = [step EXCEPT ![c] = next]
Skip(c) == position' = [position EXCEPT ![c] = @ + 1] /\ Goto(c, "fetch")

-----------------------------------------------------------------------------
(* The publishers write an entry event at least once, to any partition.     *)
Produce(c, j) ==
    /\ Len(log[c]) < MaxLog
    /\ log' = [log EXCEPT ![c] = Append(@, j)]
    /\ UNCHANGED <<position, committed, made, step, faults>>

(* FetchMessage and DecodeEntryEvent.                                       *)
Fetch(c) ==
    /\ step[c] = "fetch"
    /\ position[c] < Len(log[c])
    /\ Goto(c, IF Current(c) \in Bad THEN "ack" ELSE "latest")
    /\ UNCHANGED <<log, position, committed, made, faults>>

(* Fault: no look at what has been recommended already.                     *)
GetLatestNever(c) ==
    /\ step[c] = "latest"
    /\ Goto(c, "recommend")
    /\ UNCHANGED <<log, position, committed, made, faults>>

(* service.GetLatest: a recommendation found ends the message.              *)
CallGetLatest(c) ==
    /\ step[c] = "latest"
    /\ Goto(c, IF made[Current(c)] > 0 THEN "ack" ELSE "recommend")
    /\ UNCHANGED <<log, position, committed, made, faults>>

(* Any error of GetLatest is taken for "no recommendation yet".             *)
GetLatestFails(c) ==
    /\ step[c] = "latest"
    /\ readErrors < MaxReadErrors
    /\ readErrors' = readErrors + 1
    /\ Goto(c, "recommend")
    /\ UNCHANGED <<log, position, committed, made, crashes, failures>>

(* service.Recommend commits the recommendation and its event.              *)
CallRecommend(c) ==
    /\ step[c] = "recommend"
    /\ made' = [made EXCEPT ![Current(c)] = @ + 1]
    /\ Goto(c, "ack")
    /\ UNCHANGED <<log, position, committed, faults>>

(* Recommend returns an error (Qdrant or PostgreSQL is away, no offer is    *)
(* eligible, or the acknowledgement of its Commit is lost): the loop        *)
(* continues with the next message and leaves the offset as it is.          *)
RecommendFails(c) ==
    /\ step[c] = "recommend"
    /\ failures < MaxFailures
    /\ failures' = failures + 1
    /\ made' \in {made, [made EXCEPT ![Current(c)] = @ + 1]}
    /\ Skip(c)
    /\ UNCHANGED <<log, committed, crashes, readErrors>>

(* CommitMessages: the committed offset moves past the message and so past  *)
(* all before it.                                                           *)
Ack(c) ==
    /\ step[c] = "ack"
    /\ committed' = [committed EXCEPT ![c] = position[c] + 1]
    /\ Skip(c)
    /\ UNCHANGED <<log, made, faults>>

(* Fault: the restarted reader begins after what it had fetched.            *)
CrashLosesFetched(c) ==
    /\ crashes < MaxCrashes
    /\ crashes' = crashes + 1
    /\ committed' = [committed EXCEPT ![c] = IF step[c] = "fetch" THEN @ ELSE position[c] + 1]
    /\ position' = committed'
    /\ Goto(c, "fetch")
    /\ UNCHANGED <<log, made, failures, readErrors>>

(* The process dies and restarts, or an error ends RunEntryConsumer and the *)
(* process is restarted later, or the group rebalances: the reader begins   *)
(* at the committed offset.                                                 *)
Crash(c) ==
    /\ crashes < MaxCrashes
    /\ crashes' = crashes + 1
    /\ position' = [position EXCEPT ![c] = committed[c]]
    /\ Goto(c, "fetch")
    /\ UNCHANGED <<log, committed, made, failures, readErrors>>

-----------------------------------------------------------------------------
EntryInit ==
    /\ log = [c \in Consumers |-> <<>>]
    /\ position = [c \in Consumers |-> 0]
    /\ committed = [c \in Consumers |-> 0]
    /\ made = [j \in Journeys |-> 0]
    /\ step = [c \in Consumers |-> "fetch"]
    /\ crashes = 0 /\ failures = 0 /\ readErrors = 0

EntryNext ==
    \/ \E c \in Consumers, j \in Journeys : Produce(c, j)
    \/ \E c \in Consumers :
          \/ Fetch(c) \/ CallGetLatest(c) \/ GetLatestFails(c)
          \/ CallRecommend(c) \/ RecommendFails(c) \/ Ack(c) \/ Crash(c)

EntrySpec == EntryInit /\ [][EntryNext]_entryVars

-----------------------------------------------------------------------------
(* Properties.                                                              *)

(* Every variable has its type; no reader and no committed offset is past   *)
(* the end of its partition, and no offset is ahead of its reader.          *)
EntryTypeOK ==
    /\ log \in [Consumers -> Seq(Journeys)]
    /\ position \in [Consumers -> Nat]
    /\ committed \in [Consumers -> Nat]
    /\ made \in [Journeys -> Nat]
    /\ step \in [Consumers -> {"fetch", "latest", "recommend", "ack"}]
    /\ crashes \in 0..MaxCrashes
    /\ failures \in 0..MaxFailures
    /\ readErrors \in 0..MaxReadErrors
    /\ \A c \in Consumers :
          /\ committed[c] <= position[c]
          /\ position[c] <= Len(log[c])
          /\ step[c] # "fetch" => position[c] < Len(log[c])

Skipped(c) == {i \in 1..committed[c] : log[c][i] \notin Bad /\ made[log[c][i]] = 0}

(* "Kafka consumers commit offsets after successful handling"               *)
(* (docs/delivery.md): the journey of every valid message below a committed *)
(* offset has its recommendation.                                           *)
OffsetsHandled == \A c \in Consumers : Skipped(c) = {}

(* What does hold: a message is passed over only by a failure of Recommend, *)
(* one for each; crashes, replays and undecodable neighbours skip nothing.  *)
SkipsNeedFailures ==
    /\ EntryTypeOK
    /\ \A c \in Consumers : Cardinality(Skipped(c)) <= failures

(* "A committed recommendation makes a replay safe" (consumer.go): however  *)
(* often its event is written, replayed after a crash or retried, a journey *)
(* gets no more recommendations than one for each consumer that looked      *)
(* before the first was stored, and one for each failed read.  With a       *)
(* single consumer whose reads succeed that is one.                         *)
RepeatsBounded ==
    \A j \in Journeys : made[j] <= Cardinality(Consumers) + readErrors
=============================================================================

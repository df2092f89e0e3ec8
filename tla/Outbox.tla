-------------------------------- MODULE Outbox --------------------------------
(***************************************************************************)
(* The transactional outbox (internal/platform/outbox/outbox.go): services  *)
(* insert events in the transaction that causes them, and the publishers of *)
(* the gateway, the recommendation and the redemption service all drain the *)
(* one outbox_events table into Kafka.  PublishPending is one PostgreSQL    *)
(* transaction around a batch of Kafka writes: the rows it selects stay     *)
(* locked, the other publishers skip them, and what it marks as published   *)
(* is undone when the transaction fails after Kafka has the message.        *)
(*                                                                          *)
(* Kafka is one log, the most favourable case for order: every event goes   *)
(* to the same partition of the same topic.  NewKafkaPublisher leaves the   *)
(* RequiredAcks of its kafka.Writer at the zero value, RequireNone: nobody  *)
(* waits for the broker, a nil error says that the message was handed to    *)
(* the connection, and a broker that stops or refuses it then loses it      *)
(* unnoticed.  A message still on its way is in the log already: a          *)
(* connection keeps the order, and no reader can tell.                      *)
(***************************************************************************)
EXTENDS Integers, Sequences, FiniteSets

CONSTANTS
    Events,      \* event ids
    Pubs,        \* publishers (one per service process)
    Limit,       \* the batch limit of RunPublisher
    None,        \* no lock holder
    KeyOf,       \* the Kafka key of an event
    MaxFaults    \* bound: crashes and failed or lost writes

ASSUME OutboxAssumption ==
    /\ IsFiniteSet(Events)
    /\ Limit \in Nat \ {0}
    /\ MaxFaults \in Nat
    /\ DOMAIN KeyOf = Events
    /\ None \notin Pubs

VARIABLES
    row,         \* state of each outbox_events row
    stamp,       \* occurred_at: the start of the inserting transaction
    clock,       \* the next time stamp
    past,        \* history: the events committed when an event's transaction began
    lock,        \* the publisher whose transaction locks the row
    todo,        \* selected events a publisher has not yet written
    marked,      \* events marked published by a transaction not yet committed
    log,         \* the Kafka log
    dropped,     \* history: events WriteMessages took and Kafka never got
    faults       \* number of faults so far

vars == <<row, stamp, clock, past, lock, todo, marked, log, dropped, faults>>

(* "open": inserted by a transaction that has not committed.                *)
RowStates == {"none", "open", "pending", "published"}

Committed == {e \in Events : row[e] \in {"pending", "published"}}
InLog(e) == \E i \in DOMAIN log : log[i] = e

(* Marked for good, and Kafka does not have it.                             *)
Missing == {e \in Events : row[e] = "published" /\ ~InLog(e)}

Busy(p) == todo[p] \cup marked[p] # {}

-----------------------------------------------------------------------------
(* The producers.                                                           *)

(* A service starts the transaction that will insert event e; occurred_at   *)
(* defaults to now(), the time of that start.                               *)
BeginProducer(e) ==
    /\ row[e] = "none"
    /\ row' = [row EXCEPT ![e] = "open"]
    /\ stamp' = [stamp EXCEPT ![e] = clock]
    /\ clock' = clock + 1
    /\ past' = [past EXCEPT ![e] = Committed]
    /\ UNCHANGED <<lock, todo, marked, log, dropped, faults>>

(* Enqueue succeeded and the transaction commits, or it rolls back.         *)
CommitProducer(e) ==
    /\ row[e] = "open"
    /\ row' = [row EXCEPT ![e] = "pending"]
    /\ UNCHANGED <<stamp, clock, past, lock, todo, marked, log, dropped, faults>>

RollbackProducer(e) ==
    /\ row[e] = "open"
    /\ row' = [row EXCEPT ![e] = "none"]
    /\ stamp' = [stamp EXCEPT ![e] = 0]
    /\ past' = [past EXCEPT ![e] = {}]
    /\ faults < MaxFaults
    /\ faults' = faults + 1
    /\ UNCHANGED <<clock, lock, todo, marked, log, dropped>>

-----------------------------------------------------------------------------
(* PublishPending.                                                          *)

Pending == {e \in Events : row[e] = "pending"}
Visible == {e \in Pending : lock[e] = None}

(* The first Limit rows of a set in the order of occurred_at.               *)
IsBatch(b, from) ==
    /\ b \subseteq from
    /\ Cardinality(b) = Limit \/ (b = from /\ Cardinality(b) < Limit)
    /\ \A e \in b : \A f \in from \ b : stamp[e] < stamp[f]

(* Fault: the SELECT locks nothing.                                         *)
SelectNoLock(p) ==
    /\ ~Busy(p)
    /\ \E b \in SUBSET Pending :
          /\ b # {} /\ IsBatch(b, Pending)
          /\ todo' = [todo EXCEPT ![p] = b]
    /\ UNCHANGED <<row, stamp, clock, past, lock, marked, log, dropped, faults>>

(* SELECT ... FOR UPDATE SKIP LOCKED.  An empty batch is committed at once. *)
Select(p) ==
    /\ ~Busy(p)
    /\ \E b \in SUBSET Visible :
          /\ b # {} /\ IsBatch(b, Visible)
          /\ todo' = [todo EXCEPT ![p] = b]
          /\ lock' = [e \in Events |-> IF e \in b THEN p ELSE lock[e]]
    /\ UNCHANGED <<row, stamp, clock, past, marked, log, dropped, faults>>

(* The event the loop of PublishPending has reached.                        *)
IsNext(p, e) == e \in todo[p] /\ \A f \in todo[p] : stamp[e] <= stamp[f]

(* The transaction ends, keeping the marks or not.                          *)
End(p, keep) ==
    /\ row' = [e \in Events |-> IF e \in keep THEN "published" ELSE row[e]]
    /\ lock' = [e \in Events |-> IF lock[e] = p THEN None ELSE lock[e]]
    /\ todo' = [todo EXCEPT ![p] = {}]
    /\ marked' = [marked EXCEPT ![p] = {}]
    /\ UNCHANGED <<stamp, clock, past>>

(* WriteMessages succeeds and the row is marked, in the open transaction.   *)
Write(p) ==
    \E e \in Events :
        /\ IsNext(p, e)
        /\ log' = Append(log, e)
        /\ todo' = [todo EXCEPT ![p] = @ \ {e}]
        /\ marked' = [marked EXCEPT ![p] = @ \cup {e}]
        /\ UNCHANGED <<row, stamp, clock, past, lock, dropped, faults>>

(* WriteMessages succeeds and the row is marked, but Kafka never gets the   *)
(* message: the Writer asks for no acknowledgement.                         *)
Drop(p) ==
    \E e \in Events :
        /\ IsNext(p, e)
        /\ faults < MaxFaults /\ faults' = faults + 1
        /\ dropped' = dropped \cup {e}
        /\ todo' = [todo EXCEPT ![p] = @ \ {e}]
        /\ marked' = [marked EXCEPT ![p] = @ \cup {e}]
        /\ UNCHANGED <<row, stamp, clock, past, lock, log>>

(* Fault: the event is marked although Kafka refused it.                    *)
WriteFailsMarked(p) ==
    \E e \in Events :
        /\ IsNext(p, e)
        /\ faults < MaxFaults /\ faults' = faults + 1
        /\ UNCHANGED <<log, dropped>>
        /\ End(p, marked[p] \cup {e})

(* WriteMessages fails, whether or not Kafka has kept the message: the      *)
(* attempt is counted on the row, the marks made before it are committed,   *)
(* and the rest of the batch is left for the next tick.                     *)
WriteFails(p) ==
    \E e \in Events :
        /\ IsNext(p, e)
        /\ faults < MaxFaults /\ faults' = faults + 1
        /\ log' \in {log, Append(log, e)} /\ UNCHANGED dropped
        /\ End(p, marked[p])

CommitBatch(p) ==
    /\ todo[p] = {} /\ marked[p] # {}
    /\ End(p, marked[p])
    /\ UNCHANGED <<log, dropped, faults>>

(* Fault: the transaction's marks survive the crash, the row locks too.     *)
CrashKeepsLocks(p) ==
    /\ Busy(p)
    /\ faults < MaxFaults
    /\ faults' = faults + 1
    /\ todo' = [todo EXCEPT ![p] = {}]
    /\ marked' = [marked EXCEPT ![p] = {}]
    /\ UNCHANGED <<row, stamp, clock, past, lock, log, dropped>>

(* The process, the database connection, an UPDATE or the Commit fails:     *)
(* PostgreSQL forgets the marks, Kafka keeps the messages.                  *)
Crash(p) ==
    /\ Busy(p)
    /\ faults < MaxFaults
    /\ faults' = faults + 1
    /\ End(p, {})
    /\ UNCHANGED <<log, dropped>>

-----------------------------------------------------------------------------
Init ==
    /\ row = [e \in Events |-> "none"]
    /\ stamp = [e \in Events |-> 0]
    /\ clock = 1
    /\ past = [e \in Events |-> {}]
    /\ lock = [e \in Events |-> None]
    /\ todo = [p \in Pubs |-> {}]
    /\ marked = [p \in Pubs |-> {}]
    /\ log = <<>>
    /\ dropped = {}
    /\ faults = 0

Publish(p) == Select(p) \/ Write(p) \/ Drop(p) \/ WriteFails(p) \/ CommitBatch(p)

Next ==
    \/ \E e \in Events : BeginProducer(e) \/ CommitProducer(e) \/ RollbackProducer(e)
    \/ \E p \in Pubs : Publish(p) \/ Crash(p)

Spec == Init /\ [][Next]_vars

(* RunPublisher calls PublishPending on every tick whatever it returned,    *)
(* and a process that dies is restarted.  Producers may stop at any time.   *)
FairSpec == Spec /\ \A p \in Pubs : WF_vars(Publish(p))

-----------------------------------------------------------------------------
(* Properties.                                                              *)

(* Every variable has its type: the columns of outbox_events, the locks and *)
(* batches of the publishers, the log of event ids.                         *)
TypeOK ==
    /\ row \in [Events -> RowStates]
    /\ stamp \in [Events -> Nat]
    /\ clock \in Nat
    /\ past \in [Events -> SUBSET Events]
    /\ lock \in [Events -> Pubs \cup {None}]
    /\ todo \in [Pubs -> SUBSET Events]
    /\ marked \in [Pubs -> SUBSET Events]
    /\ log \in Seq(Events)
    /\ dropped \in SUBSET Events
    /\ faults \in 0..MaxFaults

(* What PublishPending relies on between two statements: the rows of its    *)
(* batch are still unpublished and locked by it alone, and those it marked  *)
(* are in Kafka or were lost on the way to it.                              *)
BatchesHold ==
    \A p \in Pubs :
        /\ \A e \in todo[p] \cup marked[p] : row[e] = "pending" /\ lock[e] = p
        /\ \A e \in marked[p] : InLog(e) \/ e \in dropped

(* A row is marked whose event Kafka does not have only if the broker lost  *)
(* that event after a write without acknowledgement (NewKafkaPublisher): no *)
(* failure between the two stores, refused write, partial commit of a batch *)
(* or second publisher leaves one behind.  No event of a transaction that   *)
(* did not commit is in Kafka, or was on the way to it.                     *)
MarkedOnlyIfSent ==
    /\ Missing \subseteq dropped
    /\ \A e \in Events : InLog(e) \/ e \in dropped => e \in Committed

(* Publishers do not repeat each other's work: an event is written a second *)
(* time only after a fault, once per fault, however many publishers run.    *)
DuplicatesNeedFaults ==
    \A e \in Events : Cardinality({i \in DOMAIN log : log[i] = e}) <= 1 + faults

(* An event of a key is first written after every event of that key which   *)
(* was committed before its transaction began, unless that one was lost on  *)
(* the way.  One publisher keeps this order through failures, partial       *)
(* commits and crashes (PipelineProofs); two do not, though nothing fails.  *)
CausalOrder ==
    \A i \in DOMAIN log : \A e \in past[log[i]] :
        KeyOf[e] = KeyOf[log[i]] => e \in dropped \/ \E j \in 1..(i-1) : log[j] = e

(* Every committed event is handed to Kafka and marked, whatever crashes    *)
(* and failed writes come between ("the event stays in the database and can *)
(* be retried", docs/architecture.md 8.1).                                  *)
EventuallyPublished ==
    \A e \in Events : row[e] = "pending" ~> row[e] = "published"
=============================================================================

---------------------------- MODULE PipelineProofs ----------------------------
(***************************************************************************)
(* The way of an event from its transaction to the funnel, for any events,  *)
(* topics, publishers and faults and any batch limit.                       *)
(*                                                                          *)
(* The outbox: a row is marked published only if Kafka has its event or     *)
(* lost it after a write without acknowledgement, Kafka has only events of  *)
(* committed transactions, a repeated event has been paid for by a fault of *)
(* a publisher, and a single publisher keeps causal order.  The inductive   *)
(* invariant adds what an open publisher transaction relies on: the rows it *)
(* selected are still pending and locked by it, and the ones it marked are  *)
(* in the log or were dropped.                                              *)
(*                                                                          *)
(* The whole way: what analytics counts implements the ledger (its safety;  *)
(* that everything is counted in the end needs the fairness and stays with  *)
(* TLC), and a row inserted again into ClickHouse has been paid for by a    *)
(* stop of the consumer.  RowsPaidFor is not inductive: a goroutine that    *)
(* stands before its commit may be stopped by the failure of another, and   *)
(* the one stop then pays for a row of each.  The invariant counts rows     *)
(* against the committed offset, holds one row of a goroutine before its    *)
(* commit or after its failure unsettled, and does not spend the stop of a  *)
(* process that has failed and has not yet ended.                           *)
(***************************************************************************)
EXTENDS Pipeline, FiniteSetTheorems, TLAPS

-----------------------------------------------------------------------------
(* The outbox and its publishers (module Outbox).                           *)

Inv == TypeOK /\ BatchesHold /\ MarkedOnlyIfSent

(* An empty table and an empty log satisfy the invariant.                   *)
LEMMA InitInv == Init => Inv
  BY OutboxAssumption
     DEF Init, Inv, TypeOK, RowStates, BatchesHold, MarkedOnlyIfSent, Missing, InLog, Committed

(* The log only grows.                                                      *)
LEMMA AppendKeeps ==
    ASSUME TypeOK, NEW e \in Events, log' = Append(log, e)
    PROVE  log' \in Seq(Events) /\ \A f \in Events : InLog(f)' <=> (InLog(f) \/ f = e)
  <1>1. /\ log' \in Seq(Events) /\ Len(log') = Len(log) + 1 /\ Len(log) \in Nat
        /\ DOMAIN log = 1..Len(log) /\ DOMAIN log' = 1..(Len(log) + 1)
        /\ log'[Len(log) + 1] = e /\ \A i \in 1..Len(log) : log'[i] = log[i]
    BY DEF TypeOK
  <1>2. ASSUME NEW f \in Events PROVE InLog(f)' <=> (InLog(f) \/ f = e)
    BY <1>1 DEF InLog
  <1> QED BY <1>1, <1>2

(* The end of a publisher's transaction, with or without its marks, while   *)
(* the log is unchanged or has gained an event of the batch.                *)
LEMMA EndInv ==
    ASSUME Inv, NEW p \in Pubs, NEW keep \in SUBSET marked[p], End(p, keep),
           faults' \in 0..MaxFaults, UNCHANGED dropped,
           log' = log \/ \E e \in todo[p] : log' = Append(log, e)
    PROVE  Inv'
  <1> USE DEF Inv
  <1>1. /\ log' \in Seq(Events)
        /\ \A f \in Events : InLog(f) => InLog(f)'
        /\ \A f \in Events : InLog(f)' => InLog(f) \/ f \in todo[p]
    <2>1. CASE log' = log
      BY <2>1 DEF TypeOK, InLog
    <2>2. CASE \E e \in todo[p] : log' = Append(log, e)
      BY <2>2, AppendKeeps DEF TypeOK
    <2> QED BY <2>1, <2>2
  <1>2. keep \subseteq Events
    BY DEF TypeOK
  <1>3. /\ row' = [e \in Events |-> IF e \in keep THEN "published" ELSE row[e]]
        /\ lock' = [e \in Events |-> IF lock[e] = p THEN None ELSE lock[e]]
        /\ todo' = [todo EXCEPT ![p] = {}] /\ marked' = [marked EXCEPT ![p] = {}]
        /\ UNCHANGED <<stamp, clock, past>>
    BY DEF End
  <1>4. TypeOK'
    BY <1>1, <1>3 DEF TypeOK, RowStates
  <1>5. BatchesHold'
    BY <1>1, <1>3, OutboxAssumption DEF TypeOK, BatchesHold
  <1>6. MarkedOnlyIfSent'
    <2>1. \A e \in Missing' : e \in Missing \/ (e \in keep /\ ~InLog(e))
      BY <1>1, <1>3 DEF Missing
    <2>2. Missing' \subseteq dropped
      BY <2>1 DEF BatchesHold, MarkedOnlyIfSent
    <2>3. \A e \in Events : (e \in Committed' <=> e \in Committed \cup keep)
      BY <1>2, <1>3 DEF Committed
    <2>4. todo[p] \subseteq Committed
      BY DEF TypeOK, BatchesHold, Committed
    <2> QED BY <1>1, <2>2, <2>3, <2>4 DEF MarkedOnlyIfSent
  <1> QED BY <1>4, <1>5, <1>6

(* SELECT ... FOR UPDATE SKIP LOCKED takes only rows that nobody holds, so  *)
(* the batches stay disjoint.                                               *)
LEMMA SelectInv == ASSUME Inv, NEW p \in Pubs, Select(p) PROVE Inv'
  <1>1. PICK b \in SUBSET Visible :
          /\ todo' = [todo EXCEPT ![p] = b]
          /\ lock' = [e \in Events |-> IF e \in b THEN p ELSE lock[e]]
    BY DEF Select
  <1>2. UNCHANGED <<row, stamp, clock, past, marked, log, dropped, faults>> /\ marked[p] = {}
    BY DEF Select, Busy
  <1>3. b \subseteq Events /\ \A e \in b : row[e] = "pending" /\ lock[e] = None
    BY DEF Visible, Pending
  <1>4. TypeOK'
    BY <1>1, <1>2, <1>3 DEF Inv, TypeOK
  <1>5. BatchesHold'
    BY <1>1, <1>2, <1>3, OutboxAssumption DEF Inv, TypeOK, BatchesHold, InLog
  <1>6. MarkedOnlyIfSent'
    BY <1>2 DEF Inv, MarkedOnlyIfSent, Missing, InLog, Committed
  <1> QED BY <1>4, <1>5, <1>6 DEF Inv

(* A written event is in the log before it is marked, and it is a committed *)
(* row of the batch.                                                        *)
LEMMA WriteInv == ASSUME Inv, NEW p \in Pubs, Write(p) PROVE Inv'
  <1>1. PICK e \in Events :
          /\ e \in todo[p] /\ log' = Append(log, e)
          /\ todo' = [todo EXCEPT ![p] = @ \ {e}]
          /\ marked' = [marked EXCEPT ![p] = @ \cup {e}]
          /\ UNCHANGED <<row, stamp, clock, past, lock, dropped, faults>>
    BY DEF Write, IsNext
  <1>2. log' \in Seq(Events) /\ \A f \in Events : InLog(f)' <=> (InLog(f) \/ f = e)
    BY <1>1, AppendKeeps DEF Inv
  <1>3. TypeOK'
    BY <1>1, <1>2 DEF Inv, TypeOK
  <1>4. BatchesHold'
    BY <1>1, <1>2 DEF Inv, TypeOK, BatchesHold
  <1>5. MarkedOnlyIfSent'
    <2>1. Missing' \subseteq Missing /\ Committed' = Committed
      BY <1>1, <1>2 DEF Missing, Committed
    <2>2. e \in Committed
      BY <1>1 DEF Inv, TypeOK, BatchesHold, Committed
    <2> QED BY <1>1, <1>2, <2>1, <2>2 DEF Inv, MarkedOnlyIfSent
  <1> QED BY <1>3, <1>4, <1>5 DEF Inv

(* A message that was handed over and lost is known as dropped before its   *)
(* row is marked.                                                           *)
LEMMA DropInv == ASSUME Inv, NEW p \in Pubs, Drop(p) PROVE Inv'
  <1>1. PICK e \in Events :
          /\ e \in todo[p] /\ dropped' = dropped \cup {e}
          /\ faults < MaxFaults /\ faults' = faults + 1
          /\ todo' = [todo EXCEPT ![p] = @ \ {e}]
          /\ marked' = [marked EXCEPT ![p] = @ \cup {e}]
          /\ UNCHANGED <<row, stamp, clock, past, lock, log>>
    BY DEF Drop, IsNext
  <1>2. \A f \in Events : InLog(f)' = InLog(f)
    BY <1>1 DEF InLog
  <1>3. TypeOK'
    <2>1. faults' \in 0..MaxFaults
      BY <1>1, OutboxAssumption DEF Inv, TypeOK
    <2> QED BY <1>1, <2>1 DEF Inv, TypeOK
  <1>4. BatchesHold'
    BY <1>1, <1>2 DEF Inv, TypeOK, BatchesHold
  <1>5. MarkedOnlyIfSent'
    <2>1. Missing' = Missing /\ Committed' = Committed
      BY <1>1, <1>2 DEF Missing, Committed
    <2>2. e \in Committed
      BY <1>1 DEF Inv, TypeOK, BatchesHold, Committed
    <2> QED BY <1>1, <1>2, <2>1, <2>2 DEF Inv, MarkedOnlyIfSent
  <1> QED BY <1>3, <1>4, <1>5 DEF Inv

(* A producer touches only a row that no publisher can see yet.             *)
LEMMA ProducerInv ==
    ASSUME Inv, NEW e \in Events,
           BeginProducer(e) \/ CommitProducer(e) \/ RollbackProducer(e)
    PROVE  Inv'
  <1>1. /\ UNCHANGED <<lock, todo, marked, log, dropped>>
        /\ \/ row[e] = "none" /\ row' = [row EXCEPT ![e] = "open"]
           \/ row[e] = "open" /\ row' = [row EXCEPT ![e] = "pending"]
           \/ row[e] = "open" /\ row' = [row EXCEPT ![e] = "none"]
    BY DEF BeginProducer, CommitProducer, RollbackProducer
  <1>2. TypeOK'
    <2>1. stamp' \in [Events -> Nat] /\ clock' \in Nat /\ faults' \in 0..MaxFaults
      <3>1. CASE BeginProducer(e)
        BY <3>1 DEF Inv, TypeOK, BeginProducer
      <3>2. CASE CommitProducer(e)
        BY <3>2 DEF Inv, TypeOK, CommitProducer
      <3>3. CASE RollbackProducer(e)
        BY <3>3, OutboxAssumption DEF Inv, TypeOK, RollbackProducer
      <3> QED BY <3>1, <3>2, <3>3
    <2>2. past' \in [Events -> SUBSET Events]
      <3>1. Committed \in SUBSET Events
        BY DEF Committed
      <3> QED BY <3>1 DEF Inv, TypeOK, BeginProducer, CommitProducer, RollbackProducer
    <2> QED BY <1>1, <2>1, <2>2 DEF Inv, TypeOK, RowStates
  <1>3. BatchesHold'
    BY <1>1 DEF Inv, TypeOK, BatchesHold, InLog
  <1>4. MarkedOnlyIfSent'
    <2>1. \A f \in Events : InLog(f)' = InLog(f)
      BY <1>1 DEF InLog
    <2>2. Missing' \subseteq Missing /\ Committed \subseteq Committed'
      BY <1>1, <2>1 DEF Inv, TypeOK, Missing, Committed
    <2> QED BY <1>1, <2>1, <2>2 DEF Inv, MarkedOnlyIfSent
  <1> QED BY <1>2, <1>3, <1>4 DEF Inv

(* Every step of the producers and the publishers keeps the invariant.      *)
LEMMA NextInv == Inv /\ [Next]_vars => Inv'
  <1> SUFFICES ASSUME Inv, [Next]_vars PROVE Inv'
    OBVIOUS
  <1>1. CASE UNCHANGED vars
    BY <1>1 DEF vars, Inv, TypeOK, BatchesHold, MarkedOnlyIfSent, Missing, InLog, Committed
  <1>2. ASSUME NEW e \in Events, BeginProducer(e) \/ CommitProducer(e) \/ RollbackProducer(e)
        PROVE  Inv'
    BY <1>2, ProducerInv
  <1>3. ASSUME NEW p \in Pubs, WriteFails(p) PROVE Inv'
    <2>1. /\ End(p, marked[p]) /\ faults' \in 0..MaxFaults /\ UNCHANGED dropped
          /\ log' = log \/ \E e \in todo[p] : log' = Append(log, e)
      BY <1>3, OutboxAssumption DEF WriteFails, IsNext, Inv, TypeOK
    <2> QED BY <2>1, EndInv
  <1>4. ASSUME NEW p \in Pubs, CommitBatch(p) PROVE Inv'
    BY <1>4, EndInv DEF CommitBatch, Inv, TypeOK
  <1>5. ASSUME NEW p \in Pubs, Crash(p) PROVE Inv'
    <2>1. /\ End(p, {}) /\ faults' \in 0..MaxFaults
          /\ UNCHANGED <<log, dropped>> /\ {} \in SUBSET marked[p]
      BY <1>5, OutboxAssumption DEF Crash, Inv, TypeOK
    <2> QED BY <2>1, EndInv
  <1> QED BY <1>1, <1>2, <1>3, <1>4, <1>5, SelectInv, WriteInv, DropInv DEF Next, Publish

(* The invariant holds in every reachable state.                            *)
LEMMA InvHolds == Spec => []Inv
  BY InitInv, NextInv, PTL DEF Spec

(* The rows, locks, batches and the log keep their types.                   *)
THEOREM TypeCorrect == Spec => []TypeOK
  BY InvHolds, PTL DEF Inv

(* The rows of a batch stay unpublished and locked by their publisher alone *)
(* until its transaction ends, and what it has marked is in Kafka or was    *)
(* dropped after an unacknowledged write (PublishPending).                  *)
THEOREM BatchesAreHeld == Spec => []BatchesHold
  BY InvHolds, PTL DEF Inv

(* No crash, failed write, partial commit or concurrent publisher leaves a  *)
(* row marked without its event in Kafka: only a broker that loses what was *)
(* written without acknowledgement does (NewKafkaPublisher).  No event of a *)
(* transaction that did not commit is ever sent.                            *)
THEOREM NothingLostOrInvented == Spec => []MarkedOnlyIfSent
  BY InvHolds, PTL DEF Inv
-----------------------------------------------------------------------------
(* Order, when a single publisher drains the table.  An event was begun     *)
(* after everything in its past was committed, with a later stamp; the one  *)
(* publisher skips nothing, so the past of an event in its batch is in the  *)
(* log, or dropped, or in the same batch, ahead of it.                      *)
OnePublisher == \A p, q \in Pubs : p = q

PastIsEarlier ==
    \A e \in Events :
        /\ stamp[e] < clock
        /\ \A d \in past[e] : d \in Committed /\ stamp[d] < stamp[e]

LocksInBatches ==
    \A e \in Events : lock[e] # None =>
        lock[e] \in Pubs /\ e \in todo[lock[e]] \cup marked[lock[e]]

PastIsAhead ==
    \A p \in Pubs : \A e \in todo[p] : \A d \in past[e] :
        InLog(d) \/ d \in dropped \/ d \in todo[p]

InOrder == PastIsEarlier /\ LocksInBatches /\ PastIsAhead /\ CausalOrder

(* Nothing is stamped, locked, selected or written at the start.            *)
LEMMA InitOrder == Init => InOrder
  BY OutboxAssumption
     DEF Init, InOrder, PastIsEarlier, LocksInBatches, PastIsAhead, CausalOrder

(* Writing the first event of a batch: its past is in the log already.      *)
LEMMA AppendOrder ==
    ASSUME Inv, InOrder, NEW p \in Pubs, NEW e \in Events, IsNext(p, e),
           log' = Append(log, e), UNCHANGED <<past, dropped>>
    PROVE  CausalOrder'
  <1>1. /\ Len(log) \in Nat /\ DOMAIN log = 1..Len(log) /\ DOMAIN log' = 1..(Len(log) + 1)
        /\ log'[Len(log) + 1] = e /\ \A i \in 1..Len(log) : log'[i] = log[i]
    BY DEF Inv, TypeOK
  <1>2. ASSUME NEW d \in past[e], d \notin dropped PROVE \E j \in 1..Len(log) : log[j] = d
    <2>1. d \in Events /\ stamp[d] \in Nat /\ stamp[e] \in Nat
      BY DEF Inv, TypeOK
    <2>2. stamp[d] < stamp[e]
      BY DEF InOrder, PastIsEarlier
    <2>3. d \notin todo[p]
      BY <2>1, <2>2 DEF IsNext
    <2>4. InLog(d)
      BY <1>2, <2>3 DEF InOrder, PastIsAhead, IsNext
    <2> QED BY <2>4, <1>1 DEF InLog
  <1>3. ASSUME NEW i \in 1..(Len(log) + 1), NEW d \in past[log'[i]],
               KeyOf[d] = KeyOf[log'[i]], d \notin dropped
        PROVE  \E j \in 1..(i-1) : log'[j] = d
    <2>1. CASE i = Len(log) + 1
      <3>1. PICK j \in 1..Len(log) : log[j] = d
        BY <2>1, <1>1, <1>2, <1>3
      <3> QED BY <3>1, <2>1, <1>1
    <2>2. CASE i \in 1..Len(log)
      <3>1. log'[i] = log[i]
        BY <2>2, <1>1
      <3>2. PICK j \in 1..(i-1) : log[j] = d
        BY <2>2, <3>1, <1>1, <1>3 DEF InOrder, CausalOrder
      <3> QED BY <2>2, <3>2, <1>1
    <2> QED BY <2>1, <2>2, <1>1
  <1> QED BY <1>1, <1>3 DEF CausalOrder

(* The end of the publisher's transaction releases every lock.              *)
LEMMA EndOrder ==
    ASSUME OnePublisher, Inv, InOrder, NEW p \in Pubs, NEW keep \in SUBSET marked[p],
           End(p, keep), CausalOrder'
    PROVE  InOrder'
  <1>1. /\ row' = [e \in Events |-> IF e \in keep THEN "published" ELSE row[e]]
        /\ lock' = [e \in Events |-> IF lock[e] = p THEN None ELSE lock[e]]
        /\ todo' = [todo EXCEPT ![p] = {}]
        /\ UNCHANGED <<stamp, clock, past>>
    BY DEF End
  <1>2. \A e \in Committed : e \in Committed'
    BY <1>1 DEF Committed
  <1>3. PastIsEarlier'
    BY <1>1, <1>2 DEF InOrder, PastIsEarlier
  <1>4. LocksInBatches'
    <2>1. \A e \in Events : lock'[e] = None
      BY <1>1 DEF InOrder, LocksInBatches, OnePublisher
    <2> QED BY <2>1 DEF LocksInBatches
  <1>5. PastIsAhead'
    <2>1. \A q \in Pubs : todo'[q] = {}
      BY <1>1 DEF OnePublisher, Inv, TypeOK
    <2> QED BY <2>1 DEF PastIsAhead
  <1> QED BY <1>3, <1>4, <1>5 DEF InOrder

(* A batch holds the oldest pending rows, none of which is locked.          *)
LEMMA SelectOrder ==
    ASSUME OnePublisher, Inv, InOrder, NEW p \in Pubs, Select(p) PROVE InOrder'
  <1>1. PICK b \in SUBSET Visible :
          /\ IsBatch(b, Visible)
          /\ todo' = [todo EXCEPT ![p] = b]
          /\ lock' = [e \in Events |-> IF e \in b THEN p ELSE lock[e]]
    BY DEF Select
  <1>2. UNCHANGED <<row, stamp, clock, past, marked, log, dropped>>
    BY DEF Select
  <1>3. \A e \in Events : lock[e] = None
    BY DEF Select, Busy, InOrder, LocksInBatches, OnePublisher
  <1>4. todo'[p] = b /\ \A q \in Pubs : q = p
    BY <1>1 DEF Inv, TypeOK, OnePublisher
  <1>5. ASSUME NEW e \in b, NEW d \in past[e]
        PROVE  InLog(d) \/ d \in dropped \/ d \in b
    <2>1. e \in Events /\ d \in Events /\ stamp[d] \in Nat /\ stamp[e] \in Nat
      BY DEF Visible, Pending, Inv, TypeOK
    <2>2. d \in Committed /\ stamp[d] < stamp[e]
      BY <2>1 DEF InOrder, PastIsEarlier
    <2>3. CASE row[d] = "published"
      BY <2>1, <2>3 DEF Inv, MarkedOnlyIfSent, Missing
    <2>4. CASE row[d] = "pending"
      BY <2>1, <2>2, <2>4, <1>1, <1>3 DEF Visible, Pending, IsBatch
    <2> QED BY <2>2, <2>3, <2>4 DEF Committed
  <1>6. PastIsAhead'
    BY <1>2, <1>4, <1>5 DEF PastIsAhead, InLog
  <1>7. PastIsEarlier' /\ CausalOrder'
    BY <1>2 DEF InOrder, PastIsEarlier, CausalOrder, Committed
  <1>8. LocksInBatches'
    BY <1>1, <1>3, <1>4 DEF LocksInBatches
  <1> QED BY <1>6, <1>7, <1>8 DEF InOrder

(* A written event leaves the rest of the batch with its past in the log.   *)
LEMMA WriteOrder ==
    ASSUME OnePublisher, Inv, InOrder, NEW p \in Pubs, Write(p) PROVE InOrder'
  <1>1. PICK e \in Events :
          /\ IsNext(p, e) /\ log' = Append(log, e)
          /\ todo' = [todo EXCEPT ![p] = @ \ {e}]
          /\ marked' = [marked EXCEPT ![p] = @ \cup {e}]
          /\ UNCHANGED <<row, stamp, clock, past, lock, dropped, faults>>
    BY DEF Write
  <1>2. \A f \in Events : InLog(f)' <=> (InLog(f) \/ f = e)
    BY <1>1, AppendKeeps DEF Inv
  <1>3. CausalOrder'
    BY <1>1, AppendOrder
  <1>4. PastIsEarlier'
    BY <1>1 DEF InOrder, PastIsEarlier, Committed
  <1>5. LocksInBatches'
    BY <1>1 DEF InOrder, LocksInBatches, Inv, TypeOK
  <1>6. PastIsAhead'
    BY <1>1, <1>2 DEF InOrder, PastIsAhead, Inv, TypeOK
  <1> QED BY <1>3, <1>4, <1>5, <1>6 DEF InOrder

(* A dropped event is excused, and the rest of the batch follows it.        *)
LEMMA DropOrder ==
    ASSUME OnePublisher, Inv, InOrder, NEW p \in Pubs, Drop(p) PROVE InOrder'
  <1>1. PICK e \in Events :
          /\ IsNext(p, e) /\ dropped' = dropped \cup {e}
          /\ todo' = [todo EXCEPT ![p] = @ \ {e}]
          /\ marked' = [marked EXCEPT ![p] = @ \cup {e}]
          /\ UNCHANGED <<row, stamp, clock, past, lock, log>>
    BY DEF Drop
  <1>2. CausalOrder'
    BY <1>1 DEF InOrder, CausalOrder
  <1>3. PastIsEarlier'
    BY <1>1 DEF InOrder, PastIsEarlier, Committed
  <1>4. LocksInBatches'
    BY <1>1 DEF InOrder, LocksInBatches, Inv, TypeOK
  <1>5. PastIsAhead'
    BY <1>1 DEF InOrder, PastIsAhead, InLog, Inv, TypeOK
  <1> QED BY <1>2, <1>3, <1>4, <1>5 DEF InOrder

(* A producer changes the stamp and the past only of a row that is not      *)
(* committed, so in no batch, in no past and not in the log.                *)
LEMMA ProducerOrder ==
    ASSUME Inv, InOrder, NEW e \in Events,
           BeginProducer(e) \/ CommitProducer(e) \/ RollbackProducer(e)
    PROVE  InOrder'
  <1>1. /\ UNCHANGED <<lock, todo, marked, log, dropped>>
        /\ e \notin Committed
        /\ \A f \in Events : f # e => row'[f] = row[f] /\ stamp'[f] = stamp[f] /\ past'[f] = past[f]
    BY DEF BeginProducer, CommitProducer, RollbackProducer, Inv, TypeOK, Committed
  <1>2. \A f \in Committed : f \in Committed' /\ f # e /\ f \in Events
    BY <1>1 DEF Committed
  <1>3. ~InLog(e) /\ \A p \in Pubs : e \notin todo[p]
    BY <1>1 DEF Inv, MarkedOnlyIfSent, BatchesHold, Committed
  <1>4. PastIsEarlier'
    <2>1. clock \in Nat /\ stamp \in [Events -> Nat] /\ stamp[e] < clock
      BY DEF Inv, TypeOK, InOrder, PastIsEarlier
    <2>2. clock' \in {clock, clock + 1} /\ stamp'[e] < clock'
      <3>1. 0 < clock
        BY <2>1
      <3>2. CASE BeginProducer(e)
        BY <2>1, <3>2 DEF BeginProducer
      <3>3. CASE CommitProducer(e)
        BY <2>1, <3>3 DEF CommitProducer
      <3>4. CASE RollbackProducer(e)
        BY <2>1, <3>1, <3>4 DEF RollbackProducer
      <3> QED BY <3>2, <3>3, <3>4
    <2>3. ASSUME NEW f \in Events PROVE stamp'[f] < clock'
      BY <1>1, <2>1, <2>2 DEF InOrder, PastIsEarlier
    <2>4. ASSUME NEW d \in past'[e] PROVE d \in Committed' /\ stamp'[d] < stamp'[e]
      <3>1. CASE BeginProducer(e)
        <4>1. past'[e] = Committed /\ stamp'[e] = clock
          BY <3>1 DEF BeginProducer, Inv, TypeOK
        <4> QED BY <4>1, <1>1, <1>2, <2>4 DEF InOrder, PastIsEarlier
      <3>2. CASE CommitProducer(e)
        BY <3>2, <1>1, <1>2, <2>4 DEF CommitProducer, InOrder, PastIsEarlier
      <3>3. CASE RollbackProducer(e)
        BY <3>3, <2>4 DEF RollbackProducer, Inv, TypeOK
      <3> QED BY <3>1, <3>2, <3>3
    <2>5. ASSUME NEW f \in Events, f # e, NEW d \in past'[f]
          PROVE  d \in Committed' /\ stamp'[d] < stamp'[f]
      BY <1>1, <1>2, <2>5 DEF InOrder, PastIsEarlier
    <2> QED BY <2>3, <2>4, <2>5 DEF PastIsEarlier
  <1>5. LocksInBatches'
    BY <1>1 DEF InOrder, LocksInBatches
  <1>6. PastIsAhead'
    BY <1>1, <1>3 DEF InOrder, PastIsAhead, InLog, Inv, TypeOK
  <1>7. CausalOrder'
    <2>1. \A i \in DOMAIN log : log[i] \in Events /\ log[i] # e
      BY <1>3 DEF Inv, TypeOK, InLog
    <2>2. \A i \in DOMAIN log : past'[log[i]] = past[log[i]]
      BY <1>1, <2>1
    <2> QED BY <1>1, <2>2 DEF InOrder, CausalOrder
  <1> QED BY <1>4, <1>5, <1>6, <1>7 DEF InOrder

(* With one publisher every step keeps the order.                           *)
LEMMA NextOrder == OnePublisher /\ Inv /\ InOrder /\ [Next]_vars => InOrder'
  <1> SUFFICES ASSUME OnePublisher, Inv, InOrder, [Next]_vars PROVE InOrder'
    OBVIOUS
  <1>1. CASE UNCHANGED vars
    BY <1>1 DEF vars, InOrder, PastIsEarlier, LocksInBatches, PastIsAhead, CausalOrder,
                InLog, Committed
  <1>2. ASSUME NEW e \in Events, BeginProducer(e) \/ CommitProducer(e) \/ RollbackProducer(e)
        PROVE  InOrder'
    BY <1>2, ProducerOrder
  <1>3. ASSUME NEW p \in Pubs, WriteFails(p) PROVE InOrder'
    <2>1. PICK e \in Events : /\ IsNext(p, e) /\ log' \in {log, Append(log, e)}
                              /\ UNCHANGED dropped /\ End(p, marked[p])
      BY <1>3 DEF WriteFails
    <2>2. UNCHANGED past
      BY <2>1 DEF End
    <2>3. CASE log' = log
      BY <2>1, <2>2, <2>3, EndOrder DEF InOrder, CausalOrder
    <2>4. CASE log' = Append(log, e)
      BY <2>1, <2>2, <2>4, AppendOrder, EndOrder
    <2> QED BY <2>1, <2>3, <2>4
  <1>4. ASSUME NEW p \in Pubs, CommitBatch(p) PROVE InOrder'
    <2>1. End(p, marked[p]) /\ UNCHANGED <<past, log, dropped>>
      BY <1>4 DEF CommitBatch, End
    <2> QED BY <2>1, EndOrder DEF InOrder, CausalOrder
  <1>5. ASSUME NEW p \in Pubs, Crash(p) PROVE InOrder'
    <2>1. End(p, {}) /\ UNCHANGED <<past, log, dropped>> /\ {} \in SUBSET marked[p]
      BY <1>5 DEF Crash, End
    <2> QED BY <2>1, EndOrder DEF InOrder, CausalOrder
  <1> QED BY <1>1, <1>2, <1>3, <1>4, <1>5, SelectOrder, WriteOrder, DropOrder
         DEF Next, Publish

(* A single publisher keeps the causal order of the events through every    *)
(* crash, failed write and partial batch: an event is in Kafka only behind  *)
(* its past, but for what the broker dropped.  The premise is needed: a     *)
(* second publisher, skipping the rows the first has locked, breaks the     *)
(* order with nothing dropped (PublishPending).                             *)
THEOREM OrderWithOnePublisher ==
    ASSUME OnePublisher
    PROVE  Spec => []CausalOrder
  <1>1. Init => InOrder
    BY InitOrder
  <1>2. Inv /\ InOrder /\ [Next]_vars => InOrder'
    BY NextOrder
  <1>3. InOrder => CausalOrder
    BY DEF InOrder
  <1> QED BY <1>1, <1>2, <1>3, InvHolds, PTL DEF Spec

-----------------------------------------------------------------------------
(* Repetition.  Every copy of an event in the log is paid for by a fault,   *)
(* except one: that of the mark its publisher has made, in a transaction    *)
(* that is still open or has committed.  DuplicatesNeedFaults alone is not  *)
(* inductive: it does not say that an event with 1 + faults copies is       *)
(* marked, and so not written again.                                        *)
Copies(e) == {i \in DOMAIN log : log[i] = e}

Acknowledged(e) == row[e] = "published" \/ \E p \in Pubs : e \in marked[p]

CopiesPaid ==
    /\ \A p \in Pubs : todo[p] \cap marked[p] = {}
    /\ \A e \in Events : Cardinality(Copies(e)) <= faults + (IF Acknowledged(e) THEN 1 ELSE 0)

(* The copies of an event can be counted.                                   *)
LEMMA CopiesCount ==
    ASSUME TypeOK, NEW e
    PROVE  IsFiniteSet(Copies(e)) /\ Cardinality(Copies(e)) \in Nat
  <1>1. Len(log) \in Nat /\ DOMAIN log = 1..Len(log)
    BY DEF TypeOK
  <1>2. IsFiniteSet(1..Len(log))
    BY <1>1, FS_Interval
  <1>3. Copies(e) \in SUBSET (1..Len(log))
    BY <1>1 DEF Copies
  <1>4. IsFiniteSet(Copies(e))
    BY <1>2, <1>3, FS_Subset
  <1> QED BY <1>4, FS_CardinalityType

(* A write adds one copy of its event.                                      *)
LEMMA AppendCopies ==
    ASSUME TypeOK, NEW e \in Events, log' = Append(log, e)
    PROVE  /\ Cardinality(Copies(e)') = Cardinality(Copies(e)) + 1
           /\ \A f \in Events : f # e => Copies(f)' = Copies(f)
  <1>1. /\ Len(log) \in Nat /\ DOMAIN log = 1..Len(log) /\ DOMAIN log' = 1..(Len(log) + 1)
        /\ log'[Len(log) + 1] = e /\ \A i \in 1..Len(log) : log'[i] = log[i]
    BY DEF TypeOK
  <1>2. Copies(e)' = Copies(e) \cup {Len(log) + 1} /\ Len(log) + 1 \notin Copies(e)
    BY <1>1 DEF Copies
  <1>3. \A f \in Events : f # e => Copies(f)' = Copies(f)
    BY <1>1 DEF Copies
  <1> QED BY <1>2, <1>3, CopiesCount, FS_AddElement

(* An event that waits to be written is not marked by anyone.               *)
LEMMA WaitingIsUnpaid ==
    ASSUME Inv, CopiesPaid, NEW p \in Pubs, NEW e \in todo[p]
    PROVE  ~Acknowledged(e)
  <1>1. row[e] = "pending" /\ lock[e] = p
    BY DEF Inv, BatchesHold
  <1>2. ASSUME NEW q \in Pubs, e \in marked[q] PROVE FALSE
    <2>1. lock[e] = q
      BY <1>2 DEF Inv, BatchesHold
    <2> QED BY <1>1, <1>2, <2>1 DEF CopiesPaid
  <1> QED BY <1>1, <1>2 DEF Acknowledged

(* The end of a transaction without a fault keeps its marks; with a fault,  *)
(* one more copy of each event is paid for.                                 *)
LEMMA EndPaid ==
    ASSUME Inv, CopiesPaid, NEW p \in Pubs, NEW keep, End(p, keep),
           \/ keep = marked[p] /\ log' = log /\ faults' = faults
           \/ faults' = faults + 1 /\ log' = log
           \/ faults' = faults + 1 /\ keep = marked[p] /\ \E e \in todo[p] : log' = Append(log, e)
    PROVE  CopiesPaid'
  <1> USE DEF Inv
  <1>1. /\ row' = [e \in Events |-> IF e \in keep THEN "published" ELSE row[e]]
        /\ todo' = [todo EXCEPT ![p] = {}] /\ marked' = [marked EXCEPT ![p] = {}]
    BY DEF End
  <1>2. \A q \in Pubs : todo'[q] \cap marked'[q] = {}
    BY <1>1 DEF TypeOK, CopiesPaid
  <1>3. faults \in Nat /\ \A e \in Events : Cardinality(Copies(e)) \in Nat
    BY CopiesCount, OutboxAssumption DEF TypeOK
  <1>4. ASSUME keep = marked[p], NEW e \in Events, Acknowledged(e) PROVE Acknowledged(e)'
    BY <1>1, <1>4 DEF TypeOK, Acknowledged
  <1>5. ASSUME NEW e \in Events
        PROVE  Cardinality(Copies(e)') <= faults' + (IF Acknowledged(e)' THEN 1 ELSE 0)
    <2>1. Cardinality(Copies(e)) <= faults + (IF Acknowledged(e) THEN 1 ELSE 0)
      BY DEF CopiesPaid
    <2>2. CASE keep = marked[p] /\ log' = log /\ faults' = faults
      BY <1>3, <1>4, <2>1, <2>2 DEF Copies
    <2>3. CASE faults' = faults + 1 /\ log' = log
      <3>1. Copies(e)' = Copies(e)
        BY <2>3 DEF Copies
      <3> QED BY <1>3, <2>1, <2>3, <3>1
    <2>4. CASE faults' = faults + 1 /\ keep = marked[p] /\ \E f \in todo[p] : log' = Append(log, f)
      <3>1. PICK f \in todo[p] : log' = Append(log, f)
        BY <2>4
      <3>2. f \in Events
        BY DEF TypeOK
      <3>3. CASE e = f
        <4>1. ~Acknowledged(e)
          BY <3>3, WaitingIsUnpaid
        <4>2. Cardinality(Copies(e)') = Cardinality(Copies(e)) + 1
          BY <3>1, <3>2, <3>3, AppendCopies
        <4> QED BY <1>3, <2>1, <2>4, <4>1, <4>2
      <3>4. CASE e # f
        <4>1. Copies(e)' = Copies(e)
          BY <3>1, <3>2, <3>4, AppendCopies
        <4> QED BY <1>3, <2>1, <2>4, <4>1
      <3> QED BY <3>3, <3>4
    <2> QED BY <2>2, <2>3, <2>4
  <1> QED BY <1>2, <1>5 DEF CopiesPaid

(* A write moves its event from the waiting ones to the marked ones.        *)
LEMMA WritePaid == ASSUME Inv, CopiesPaid, NEW p \in Pubs, Write(p) PROVE CopiesPaid'
  <1> USE DEF Inv
  <1>1. PICK e \in Events :
          /\ e \in todo[p] /\ log' = Append(log, e)
          /\ todo' = [todo EXCEPT ![p] = @ \ {e}]
          /\ marked' = [marked EXCEPT ![p] = @ \cup {e}]
          /\ UNCHANGED <<row, faults>>
    BY DEF Write, IsNext
  <1>2. \A q \in Pubs : todo'[q] \cap marked'[q] = {}
    BY <1>1 DEF TypeOK, CopiesPaid
  <1>3. faults \in Nat /\ \A f \in Events : Cardinality(Copies(f)) \in Nat
    BY CopiesCount, OutboxAssumption DEF TypeOK
  <1>4. Acknowledged(e)' /\ \A f \in Events : Acknowledged(f) => Acknowledged(f)'
    BY <1>1 DEF TypeOK, Acknowledged
  <1>5. ~Acknowledged(e) /\ Cardinality(Copies(e)') = Cardinality(Copies(e)) + 1
    BY <1>1, AppendCopies, WaitingIsUnpaid
  <1>6. \A f \in Events : f # e => Copies(f)' = Copies(f)
    BY <1>1, AppendCopies
  <1>7. ASSUME NEW f \in Events
        PROVE  Cardinality(Copies(f)') <= faults' + (IF Acknowledged(f)' THEN 1 ELSE 0)
    <2>1. Cardinality(Copies(f)) <= faults + (IF Acknowledged(f) THEN 1 ELSE 0)
      BY DEF CopiesPaid
    <2>2. CASE f = e
      BY <1>1, <1>3, <1>4, <1>5, <2>1, <2>2
    <2>3. CASE f # e
      BY <1>1, <1>3, <1>4, <1>6, <2>1, <2>3
    <2> QED BY <2>2, <2>3
  <1> QED BY <1>2, <1>7 DEF CopiesPaid

(* A dropped message adds no copy.                                          *)
LEMMA DropPaid == ASSUME Inv, CopiesPaid, NEW p \in Pubs, Drop(p) PROVE CopiesPaid'
  <1> USE DEF Inv
  <1>1. PICK e \in Events :
          /\ todo' = [todo EXCEPT ![p] = @ \ {e}]
          /\ marked' = [marked EXCEPT ![p] = @ \cup {e}]
          /\ faults' = faults + 1 /\ UNCHANGED <<row, log>>
    BY DEF Drop
  <1>2. \A q \in Pubs : todo'[q] \cap marked'[q] = {}
    BY <1>1 DEF TypeOK, CopiesPaid
  <1>3. faults \in Nat /\ \A f \in Events : Cardinality(Copies(f)) \in Nat
    BY CopiesCount, OutboxAssumption DEF TypeOK
  <1>4. \A f \in Events : Copies(f)' = Copies(f)
    BY <1>1 DEF Copies
  <1>5. ASSUME NEW f \in Events
        PROVE  Cardinality(Copies(f)') <= faults' + (IF Acknowledged(f)' THEN 1 ELSE 0)
    <2>1. Cardinality(Copies(f)) <= faults + 1
      BY <1>3 DEF CopiesPaid
    <2> QED BY <1>1, <1>3, <1>4, <2>1
  <1> QED BY <1>2, <1>5 DEF CopiesPaid

(* Every step keeps the account of the copies.                              *)
LEMMA NextPaid == Inv /\ CopiesPaid /\ [Next]_vars => CopiesPaid'
  <1> SUFFICES ASSUME Inv, CopiesPaid, [Next]_vars PROVE CopiesPaid'
    OBVIOUS
  <1>1. ASSUME NEW e \in Events, BeginProducer(e) \/ CommitProducer(e) \/ RollbackProducer(e)
        PROVE  CopiesPaid'
    <2>1. /\ UNCHANGED <<todo, marked, log>> /\ faults' \in {faults, faults + 1}
          /\ \A f \in Events : row'[f] = "published" <=> row[f] = "published"
      BY <1>1 DEF BeginProducer, CommitProducer, RollbackProducer, Inv, TypeOK
    <2>2. \A f \in Events : Acknowledged(f)' = Acknowledged(f) /\ Copies(f)' = Copies(f)
      BY <2>1 DEF Acknowledged, Copies
    <2>3. faults \in Nat /\ \A f \in Events : Cardinality(Copies(f)) \in Nat
      BY CopiesCount, OutboxAssumption DEF Inv, TypeOK
    <2> QED BY <2>1, <2>2, <2>3 DEF CopiesPaid
  <1>2. ASSUME UNCHANGED <<row, marked, log, faults>>, \A p \in Pubs : todo'[p] \cap marked[p] = {}
        PROVE  CopiesPaid'
    BY <1>2 DEF CopiesPaid, Copies, Acknowledged
  <1>3. CASE UNCHANGED vars
    BY <1>2, <1>3 DEF vars, CopiesPaid
  <1>4. ASSUME NEW p \in Pubs, Select(p) PROVE CopiesPaid'
    <2>1. UNCHANGED <<row, marked, log, faults>> /\ marked[p] = {}
      BY <1>4 DEF Select, Busy
    <2>2. PICK b : todo' = [todo EXCEPT ![p] = b]
      BY <1>4 DEF Select
    <2>3. \A q \in Pubs : todo'[q] \cap marked[q] = {}
      BY <2>1, <2>2 DEF CopiesPaid, Inv, TypeOK
    <2> QED BY <1>2, <2>1, <2>3
  <1>5. ASSUME NEW p \in Pubs, WriteFails(p) PROVE CopiesPaid'
    <2>1. /\ End(p, marked[p]) /\ faults' = faults + 1
          /\ log' = log \/ \E e \in todo[p] : log' = Append(log, e)
      BY <1>5 DEF WriteFails, IsNext
    <2> QED BY <2>1, EndPaid
  <1>6. ASSUME NEW p \in Pubs, CommitBatch(p) PROVE CopiesPaid'
    BY <1>6, EndPaid DEF CommitBatch
  <1>7. ASSUME NEW p \in Pubs, Crash(p) PROVE CopiesPaid'
    BY <1>7, EndPaid DEF Crash
  <1> QED BY <1>1, <1>3, <1>4, <1>5, <1>6, <1>7, WritePaid, DropPaid DEF Next, Publish

(* An event is written again only after a fault, once per fault, for any    *)
(* number of publishers.                                                    *)
THEOREM RepeatsArePaidFor == Spec => []DuplicatesNeedFaults
  <1>1. Init => CopiesPaid
    <2> SUFFICES ASSUME Init PROVE CopiesPaid
      OBVIOUS
    <2>1. \A e \in Events : Copies(e) = {}
      BY DEF Init, Copies
    <2>2. \A e \in Events : Cardinality(Copies(e)) = 0 /\ ~Acknowledged(e)
      BY <2>1, FS_EmptySet DEF Init, Acknowledged
    <2>3. faults = 0 /\ \A p \in Pubs : todo[p] \cap marked[p] = {}
      BY DEF Init
    <2> QED BY <2>2, <2>3 DEF CopiesPaid
  <1>2. Inv /\ CopiesPaid => DuplicatesNeedFaults
    <2> SUFFICES ASSUME Inv, CopiesPaid, NEW e \in Events
                 PROVE  Cardinality(Copies(e)) <= 1 + faults
      BY DEF DuplicatesNeedFaults, Copies
    <2>1. faults \in Nat /\ Cardinality(Copies(e)) \in Nat
      BY CopiesCount, OutboxAssumption DEF Inv, TypeOK
    <2> QED BY <2>1 DEF CopiesPaid
  <1> QED BY <1>1, <1>2, NextPaid, InvHolds, PTL DEF Spec

-----------------------------------------------------------------------------
(* The outbox, Kafka and the analytics consumer (module Pipeline).          *)

(* The messages of a topic up to a place.                                   *)
OfTopic(t, place) == {i \in 1..place : TopicOf[log[i]] = t}

Stopping == IF \E t \in Topics : pc[t] = "failed" THEN 1 ELSE 0

Unsettled(t) == IF pc[t] \in {"commit", "failed"} THEN 1 ELSE 0

Readers ==
    /\ committed \in [Topics -> Nat] /\ position \in [Topics -> Nat]
    /\ pc \in [Topics -> {"down", "fetch", "insert", "commit", "failed"}]
    /\ rows \in [Topics -> Seq(Accepted)]
    /\ stops \in 0..MaxStops
    /\ \A t \in Topics : committed[t] <= position[t] /\ position[t] <= Len(log)

(* A goroutine with a message in hand has not committed it, and one about   *)
(* to insert it has decoded it.                                             *)
MessagesInHand ==
    \A t \in Topics :
        pc[t] \in {"insert", "commit"} =>
            /\ committed[t] < position[t] /\ TopicOf[log[position[t]]] = t
            /\ pc[t] = "insert" => log[position[t]] \in Accepted

RowsAreFromKafka == \A t \in Topics : \A i \in DOMAIN rows[t] : InLog(rows[t][i])

RowsSettled ==
    \A t \in Topics :
        Len(rows[t]) <= Cardinality(OfTopic(t, committed[t])) + stops - Stopping + Unsettled(t)

PipelineInv == Inv /\ Readers /\ MessagesInHand /\ RowsAreFromKafka /\ RowsSettled

LEMMA PipelineInit_Inv == PipelineInit => PipelineInv
  <1> SUFFICES ASSUME PipelineInit PROVE PipelineInv
    OBVIOUS
  <1>1. Inv /\ log = <<>>
    BY InitInv DEF PipelineInit, Init
  <1>2. /\ committed = [t \in Topics |-> 0] /\ position = [t \in Topics |-> 0]
        /\ pc = [t \in Topics |-> "down"] /\ rows = [t \in Topics |-> <<>>] /\ stops = 0
    BY DEF PipelineInit, A!Init
  <1>3. Readers
    <2>1. stops \in 0..MaxStops
      BY <1>2, PipelineAssumption
    <2> QED BY <1>1, <1>2, <2>1 DEF Readers
  <1>4. MessagesInHand /\ RowsAreFromKafka
    BY <1>2 DEF MessagesInHand, RowsAreFromKafka
  <1>5. ASSUME NEW t \in Topics
        PROVE  Len(rows[t]) <= Cardinality(OfTopic(t, committed[t])) + stops - Stopping + Unsettled(t)
    <2>1. OfTopic(t, committed[t]) = {}
      BY <1>2 DEF OfTopic
    <2>2. Cardinality(OfTopic(t, committed[t])) = 0
      BY <2>1, FS_EmptySet
    <2>3. Stopping = 0 /\ Unsettled(t) = 0 /\ Len(rows[t]) = 0
      BY <1>2 DEF Stopping, Unsettled
    <2> QED BY <1>2, <2>2, <2>3
  <1> QED BY <1>1, <1>3, <1>4, <1>5 DEF PipelineInv, RowsSettled

(* The messages of a topic can be counted.                                  *)
LEMMA OfTopicCount ==
    ASSUME NEW t, NEW place \in Nat
    PROVE  IsFiniteSet(OfTopic(t, place)) /\ Cardinality(OfTopic(t, place)) \in Nat
  <1>1. IsFiniteSet(1..place)
    BY FS_Interval
  <1>2. OfTopic(t, place) \subseteq 1..place
    BY DEF OfTopic
  <1>3. IsFiniteSet(OfTopic(t, place))
    BY <1>1, <1>2, FS_Subset
  <1> QED BY <1>3, FS_CardinalityType

LEMMA SmallCounts ==
    ASSUME NEW t
    PROVE  Stopping \in {0, 1} /\ Unsettled(t) \in {0, 1}
           /\ Stopping' \in {0, 1} /\ Unsettled(t)' \in {0, 1}
  BY DEF Stopping, Unsettled

-----------------------------------------------------------------------------
(* The producers and publishers.                                            *)

LEMMA LogGrows ==
    ASSUME Inv, [Next]_vars
    PROVE  /\ log' \in Seq(Events) /\ Len(log) \in Nat /\ Len(log') \in Nat
           /\ Len(log) <= Len(log')
           /\ \A i \in 1..Len(log) : log'[i] = log[i]
           /\ \A e : InLog(e) => InLog(e)'
  <1>1. log \in Seq(Events) /\ Len(log) \in Nat /\ DOMAIN log = 1..Len(log)
    BY DEF Inv, TypeOK
  <1>2. log' = log \/ \E e \in Events : log' = Append(log, e)
    BY DEF Next, BeginProducer, CommitProducer, RollbackProducer, Publish, Select, Write,
           Drop, WriteFails, CommitBatch, Crash, vars
  <1>3. CASE log' = log
    BY <1>1, <1>3 DEF InLog
  <1>4. ASSUME NEW e \in Events, log' = Append(log, e)
        PROVE  /\ log' \in Seq(Events) /\ Len(log') \in Nat
               /\ Len(log) <= Len(log')
               /\ \A i \in 1..Len(log) : log'[i] = log[i]
               /\ DOMAIN log' = 1..Len(log')
    BY <1>1, <1>4
  <1>5. ASSUME NEW e \in Events, log' = Append(log, e), NEW f, InLog(f) PROVE InLog(f)'
    <2>1. PICK i \in DOMAIN log : log[i] = f
      BY <1>5 DEF InLog
    <2>2. i \in DOMAIN log' /\ log'[i] = f
      BY <1>1, <1>4, <1>5, <2>1
    <2> QED BY <2>2 DEF InLog
  <1> QED BY <1>1, <1>2, <1>3, <1>4, <1>5

LEMMA OutboxSide ==
    ASSUME PipelineInv, [Next]_vars, UNCHANGED consumer
    PROVE  PipelineInv'
  <1>1. UNCHANGED <<committed, position, pc, rows, stops>>
    BY DEF consumer
  <1>2. Inv'
    BY NextInv DEF PipelineInv
  <1>3. /\ Len(log) \in Nat /\ Len(log') \in Nat /\ Len(log) <= Len(log')
        /\ \A i \in 1..Len(log) : log'[i] = log[i]
        /\ \A e : InLog(e) => InLog(e)'
    BY LogGrows DEF PipelineInv
  <1>4. \A t \in Topics : /\ committed[t] \in Nat /\ position[t] \in Nat
                          /\ committed[t] <= position[t] /\ position[t] <= Len(log)
    BY DEF PipelineInv, Readers
  <1>5. Readers'
    <2>1. \A t \in Topics : position'[t] <= Len(log')
      BY <1>1, <1>3, <1>4
    <2> QED BY <1>1, <2>1 DEF PipelineInv, Readers
  <1>6. MessagesInHand'
    <2>1. ASSUME NEW t \in Topics, pc[t] \in {"insert", "commit"}
          PROVE  log'[position[t]] = log[position[t]]
      <3>1. committed[t] < position[t]
        BY <2>1 DEF PipelineInv, MessagesInHand
      <3>2. position[t] \in 1..Len(log)
        BY <1>3, <1>4, <3>1
      <3> QED BY <1>3, <3>2
    <2> QED BY <1>1, <2>1 DEF PipelineInv, MessagesInHand
  <1>7. RowsAreFromKafka'
    BY <1>1, <1>3 DEF PipelineInv, RowsAreFromKafka
  <1>8. \A t \in Topics : OfTopic(t, committed[t])' = OfTopic(t, committed[t])
    <2>1. \A t \in Topics : \A i \in 1..committed[t] : log'[i] = log[i]
      BY <1>3, <1>4
    <2> QED BY <1>1, <2>1 DEF OfTopic
  <1>9. Stopping' = Stopping /\ \A t \in Topics : Unsettled(t)' = Unsettled(t)
    BY <1>1 DEF Stopping, Unsettled
  <1>10. RowsSettled'
    BY <1>1, <1>8, <1>9 DEF PipelineInv, RowsSettled
  <1> QED BY <1>2, <1>5, <1>6, <1>7, <1>10 DEF PipelineInv

-----------------------------------------------------------------------------
(* The consumer.                                                            *)

(* Its steps leave the outbox alone.                                        *)
LEMMA OutboxUntouched ==
    ASSUME PipelineInv, UNCHANGED vars
    PROVE  /\ Inv' /\ UNCHANGED log
           /\ \A t, k : OfTopic(t, k)' = OfTopic(t, k)
           /\ \A e : InLog(e)' <=> InLog(e)
  <1>1. UNCHANGED log
    BY DEF vars
  <1>2. Inv'
    BY NextInv DEF PipelineInv
  <1> QED BY <1>1, <1>2 DEF OfTopic, InLog

(* The process starts, or ends: a stop not yet spent pays for a row of each *)
(* topic.                                                                   *)
LEMMA ProcessInv ==
    ASSUME PipelineInv, A!Start \/ A!Exit \/ A!Crash, UNCHANGED vars
    PROVE  PipelineInv'
  <1>1. /\ Inv' /\ UNCHANGED log
        /\ \A t, k : OfTopic(t, k)' = OfTopic(t, k)
        /\ \A e : InLog(e)' <=> InLog(e)
    BY OutboxUntouched
  <1>2. UNCHANGED <<committed, rows>>
    BY DEF A!Start, A!Exit, A!Crash
  <1>3. pc' = [t \in Topics |-> "fetch"] \/ pc' = [t \in Topics |-> "down"]
    BY DEF A!Start, A!Exit, A!Crash
  <1>4. position' = position \/ position' = committed
    BY DEF A!Start, A!Exit, A!Crash
  <1>5. stops \in 0..MaxStops /\ stops' \in 0..MaxStops
    BY PipelineAssumption DEF PipelineInv, Readers, A!Start, A!Exit, A!Crash, A!Stop
  <1>6. \A t \in Topics : /\ committed[t] \in Nat /\ position[t] \in Nat /\ Len(log) \in Nat
                          /\ committed[t] <= position[t] /\ position[t] <= Len(log)
    BY DEF PipelineInv, Readers, Inv, TypeOK
  <1>7. Readers'
    <2>1. position' \in [Topics -> Nat]
      BY <1>4 DEF PipelineInv, Readers
    <2>2. \A t \in Topics : committed'[t] <= position'[t] /\ position'[t] <= Len(log')
      BY <1>1, <1>2, <1>4, <1>6
    <2> QED BY <1>2, <1>3, <1>5, <2>1, <2>2 DEF PipelineInv, Readers
  <1>8. MessagesInHand'
    BY <1>3 DEF MessagesInHand
  <1>9. RowsAreFromKafka'
    BY <1>1, <1>2 DEF PipelineInv, RowsAreFromKafka
  <1>10. ASSUME NEW t \in Topics
         PROVE  (Len(rows[t]) <= Cardinality(OfTopic(t, committed[t])) + stops - Stopping
                                 + Unsettled(t))'
    <2>1. OfTopic(t, committed[t])' = OfTopic(t, committed[t])
      BY <1>1, <1>2 DEF OfTopic
    <2>2. PICK n \in Nat : n = Cardinality(OfTopic(t, committed[t]))
      BY <1>6, OfTopicCount
    <2>3. PICK l \in Nat : l = Len(rows[t])
      BY DEF PipelineInv, Readers
    <2>4. l <= n + stops - Stopping + Unsettled(t)
      BY <2>2, <2>3 DEF PipelineInv, RowsSettled
    <2>5. Stopping' = 0 /\ Unsettled(t)' = 0
      BY <1>3 DEF Stopping, Unsettled
    <2>6. Stopping \in {0, 1} /\ Unsettled(t) \in {0, 1}
      BY SmallCounts
    <2>7. l <= n + stops'
      <3>1. CASE A!Start
        <4>1. stops' = stops /\ Unsettled(t) = 0
          BY <3>1 DEF A!Start, Unsettled
        <4> QED BY <1>5, <2>4, <2>6, <4>1
      <3>2. CASE A!Exit
        <4>1. stops' = stops /\ Stopping = 1
          BY <3>2 DEF A!Exit, Stopping
        <4> QED BY <1>5, <2>4, <2>6, <4>1
      <3>3. CASE A!Crash
        <4>1. stops' = stops + 1
          BY <3>3 DEF A!Crash, A!Stop
        <4> QED BY <1>5, <2>4, <2>6, <4>1
      <3> QED BY <3>1, <3>2, <3>3
    <2> QED BY <1>2, <1>5, <2>1, <2>2, <2>3, <2>5, <2>7
  <1> QED BY <1>1, <1>7, <1>8, <1>9, <1>10 DEF PipelineInv, RowsSettled

(* The next message of a topic is taken in hand.                            *)
LEMMA FetchInv ==
    ASSUME PipelineInv, NEW u \in Topics, A!Fetch(u), UNCHANGED vars
    PROVE  PipelineInv'
  <1>1. /\ Inv' /\ UNCHANGED log
        /\ \A t, k : OfTopic(t, k)' = OfTopic(t, k)
        /\ \A e : InLog(e)' <=> InLog(e)
    BY OutboxUntouched
  <1>2. UNCHANGED <<committed, rows, stops>> /\ pc[u] = "fetch"
    BY DEF A!Fetch
  <1>3. PICK i \in DOMAIN log :
           /\ A!IsNext(u, i, position[u])
           /\ position' = [position EXCEPT ![u] = i]
           /\ pc' = [pc EXCEPT ![u] = IF log[i] \in Accepted THEN "insert" ELSE "commit"]
    BY DEF A!Fetch, A!Goto
  <1>4. i > position[u] /\ TopicOf[log[i]] = u
    BY <1>3 DEF A!IsNext
  <1>5. /\ i \in Nat /\ i <= Len(log) /\ Len(log) \in Nat
        /\ position[u] \in Nat /\ committed[u] \in Nat /\ committed[u] <= position[u]
    BY DEF PipelineInv, Readers, Inv, TypeOK
  <1>6. position'[u] = i /\ committed[u] < i
    BY <1>3, <1>4, <1>5 DEF PipelineInv, Readers
  <1>7. \A t \in Topics \ {u} : position'[t] = position[t] /\ pc'[t] = pc[t]
    BY <1>3 DEF PipelineInv, Readers
  <1>8. /\ pc' \in [Topics -> {"down", "fetch", "insert", "commit", "failed"}]
        /\ pc'[u] = IF log[i] \in Accepted THEN "insert" ELSE "commit"
    BY <1>3 DEF PipelineInv, Readers
  <1>9. Readers'
    <2>1. position' \in [Topics -> Nat]
      BY <1>3, <1>5 DEF PipelineInv, Readers
    <2>2. \A t \in Topics : committed'[t] <= position'[t] /\ position'[t] <= Len(log')
      <3> SUFFICES ASSUME NEW t \in Topics
                   PROVE  committed'[t] <= position'[t] /\ position'[t] <= Len(log')
        OBVIOUS
      <3>1. CASE t = u
        BY <1>1, <1>2, <1>5, <1>6, <3>1
      <3>2. CASE t # u
        BY <1>1, <1>2, <1>7, <3>2 DEF PipelineInv, Readers
      <3> QED BY <3>1, <3>2
    <2> QED BY <1>2, <1>8, <2>1, <2>2 DEF PipelineInv, Readers
  <1>10. MessagesInHand'
    BY <1>1, <1>2, <1>4, <1>6, <1>7, <1>8 DEF PipelineInv, MessagesInHand
  <1>11. RowsAreFromKafka'
    BY <1>1, <1>2 DEF PipelineInv, RowsAreFromKafka
  <1>12. ASSUME NEW t \in Topics
         PROVE  (Len(rows[t]) <= Cardinality(OfTopic(t, committed[t])) + stops - Stopping
                                 + Unsettled(t))'
    <2>1. OfTopic(t, committed[t])' = OfTopic(t, committed[t])
      BY <1>1, <1>2 DEF OfTopic
    <2>2. PICK n \in Nat : n = Cardinality(OfTopic(t, committed[t]))
      BY OfTopicCount DEF PipelineInv, Readers
    <2>3. PICK l \in Nat : l = Len(rows[t])
      BY DEF PipelineInv, Readers
    <2>4. l <= n + stops - Stopping + Unsettled(t)
      BY <2>2, <2>3 DEF PipelineInv, RowsSettled
    <2>5. Stopping' = Stopping
      BY <1>2, <1>7, <1>8 DEF Stopping
    <2>6. Unsettled(t) <= Unsettled(t)'
      BY <1>2, <1>7 DEF Unsettled
    <2>7. stops \in Nat
      BY DEF PipelineInv, Readers
    <2>8. l <= n + stops - Stopping + Unsettled(t)'
      BY <2>4, <2>6, <2>7, SmallCounts
    <2> QED BY <1>2, <2>1, <2>2, <2>3, <2>5, <2>8
  <1> QED BY <1>1, <1>9, <1>10, <1>11, <1>12 DEF PipelineInv, RowsSettled

(* A row is the event in hand, and is unsettled until its offset is         *)
(* committed or the stop that prevents it is spent.                         *)
LEMMA InsertInv ==
    ASSUME PipelineInv, NEW u \in Topics, A!Insert(u) \/ A!InsertFails(u), UNCHANGED vars
    PROVE  PipelineInv'
  <1>1. /\ Inv' /\ UNCHANGED log
        /\ \A t, k : OfTopic(t, k)' = OfTopic(t, k)
        /\ \A e : InLog(e)' <=> InLog(e)
    BY OutboxUntouched
  <1>2. UNCHANGED <<committed, position>> /\ pc[u] = "insert"
    BY DEF A!Insert, A!InsertFails
  <1>3. \/ pc' = [pc EXCEPT ![u] = "commit"] /\ stops' = stops
        \/ pc' = [pc EXCEPT ![u] = "failed"] /\ stops < MaxStops /\ stops' = stops + 1
    BY DEF A!Insert, A!InsertFails, A!Goto, A!Stop
  <1>4. rows' \in {rows, [rows EXCEPT ![u] = Append(@, log[position[u]])]}
    BY DEF A!Insert, A!InsertFails
  <1>5. PICK e \in Accepted : e = log[position[u]]
    BY <1>2 DEF PipelineInv, MessagesInHand
  <1>6. InLog(e)
    <2>1. position[u] \in DOMAIN log
      BY <1>2 DEF PipelineInv, Readers, MessagesInHand, Inv, TypeOK
    <2> QED BY <1>5, <2>1 DEF InLog
  <1>7. rows \in [Topics -> Seq(Accepted)] /\ rows[u] \in Seq(Accepted) /\ Len(rows[u]) \in Nat
    BY DEF PipelineInv, Readers
  <1>8. \A t \in Topics \ {u} : rows'[t] = rows[t]
    BY <1>4, <1>7
  <1>9. rows'[u] = rows[u] \/ rows'[u] = Append(rows[u], e)
    BY <1>4, <1>5, <1>7
  <1>10. /\ rows'[u] \in Seq(Accepted)
         /\ Len(rows'[u]) \in Nat /\ Len(rows'[u]) <= Len(rows[u]) + 1
         /\ \A i \in DOMAIN rows'[u] : InLog(rows'[u][i])
    <2>1. \A i \in DOMAIN rows[u] : InLog(rows[u][i])
      BY DEF PipelineInv, RowsAreFromKafka
    <2>2. CASE rows'[u] = rows[u]
      BY <1>7, <2>1, <2>2
    <2>3. CASE rows'[u] = Append(rows[u], e)
      <3>1. /\ rows'[u] \in Seq(Accepted) /\ Len(rows'[u]) = Len(rows[u]) + 1
            /\ DOMAIN rows[u] = 1..Len(rows[u]) /\ DOMAIN rows'[u] = 1..(Len(rows[u]) + 1)
            /\ \A i \in 1..Len(rows[u]) : rows'[u][i] = rows[u][i]
            /\ rows'[u][Len(rows[u]) + 1] = e
        BY <1>7, <2>3
      <3>2. \A i \in DOMAIN rows'[u] : i \in DOMAIN rows[u] \/ i = Len(rows[u]) + 1
        BY <1>7, <3>1
      <3>3. \A i \in DOMAIN rows'[u] : InLog(rows'[u][i])
        BY <1>6, <2>1, <3>1, <3>2
      <3> QED BY <1>7, <3>1, <3>3
    <2> QED BY <1>9, <2>2, <2>3
  <1>11. stops \in 0..MaxStops /\ stops' \in 0..MaxStops
    BY <1>3, PipelineAssumption DEF PipelineInv, Readers
  <1>12. /\ pc' \in [Topics -> {"down", "fetch", "insert", "commit", "failed"}]
         /\ pc'[u] \in {"commit", "failed"}
         /\ \A t \in Topics \ {u} : pc'[t] = pc[t]
    BY <1>3 DEF PipelineInv, Readers
  <1>13. Readers'
    <2>1. rows' \in [Topics -> Seq(Accepted)]
      BY <1>4, <1>7, <1>8, <1>10
    <2> QED BY <1>1, <1>2, <1>11, <1>12, <2>1 DEF PipelineInv, Readers
  <1>14. MessagesInHand'
    BY <1>1, <1>2, <1>12 DEF PipelineInv, MessagesInHand
  <1>15. RowsAreFromKafka'
    BY <1>1, <1>8, <1>10 DEF PipelineInv, RowsAreFromKafka
  <1>16. stops - Stopping <= stops' - Stopping'
    <2>1. CASE stops' = stops + 1
      BY <1>11, <2>1, SmallCounts
    <2>2. CASE pc' = [pc EXCEPT ![u] = "commit"] /\ stops' = stops
      <3>1. Stopping' = Stopping
        <4>1. \A t \in Topics : pc'[t] = "failed" <=> pc[t] = "failed"
          BY <1>2, <1>12, <2>2 DEF PipelineInv, Readers
        <4> QED BY <4>1 DEF Stopping
      <3> QED BY <1>11, <2>2, <3>1, SmallCounts
    <2> QED BY <1>3, <2>1, <2>2
  <1>17. ASSUME NEW t \in Topics
         PROVE  (Len(rows[t]) <= Cardinality(OfTopic(t, committed[t])) + stops - Stopping
                                 + Unsettled(t))'
    <2>1. OfTopic(t, committed[t])' = OfTopic(t, committed[t])
      BY <1>1, <1>2 DEF OfTopic
    <2>2. PICK n \in Nat : n = Cardinality(OfTopic(t, committed[t]))
      BY OfTopicCount DEF PipelineInv, Readers
    <2>3. PICK l \in Nat : l = Len(rows[t])
      BY <1>7
    <2>4. l <= n + stops - Stopping + Unsettled(t)
      BY <2>2, <2>3 DEF PipelineInv, RowsSettled
    <2>5. PICK m \in Nat : m = Len(rows'[t])
      BY <1>8, <1>10, <2>3
    <2>6. m + Unsettled(t) <= l + Unsettled(t)'
      <3>1. CASE t = u
        <4>1. Unsettled(t) = 0 /\ Unsettled(t)' = 1
          BY <1>2, <1>12, <3>1 DEF Unsettled
        <4> QED BY <1>10, <2>3, <2>5, <3>1, <4>1
      <3>2. CASE t # u
        <4>1. Unsettled(t)' = Unsettled(t) /\ m = l
          BY <1>8, <1>12, <2>3, <2>5, <3>2 DEF Unsettled
        <4> QED BY <4>1, SmallCounts
      <3> QED BY <3>1, <3>2
    <2>7. m <= n + stops' - Stopping' + Unsettled(t)'
      <3>1. PICK a \in {0, 1} : a = Unsettled(t)
        BY SmallCounts
      <3>2. PICK b \in {0, 1} : b = Unsettled(t)'
        BY SmallCounts
      <3>3. PICK c \in {0, 1} : c = Stopping
        BY SmallCounts
      <3>4. PICK d \in {0, 1} : d = Stopping'
        BY SmallCounts
      <3>5. stops \in Nat /\ stops' \in Nat
        BY <1>11, PipelineAssumption
      <3>6. l <= n + stops - c + a /\ m + a <= l + b /\ stops - c <= stops' - d
        BY <1>16, <2>4, <2>6, <3>1, <3>2, <3>3, <3>4
      <3>7. m <= n + stops' - d + b
        <4>1. a \in Int /\ b \in Int /\ c \in Int /\ d \in Int
          BY <3>1, <3>2, <3>3, <3>4
        <4>2. PICK o \in Nat : o = stops'
          BY <3>5
        <4>3. l <= n + stops - c + a /\ m + a <= l + b /\ stops - c <= o - d
          BY <3>6, <4>2
        <4>4. m <= n + o - d + b
          BY <3>5, <4>1, <4>3
        <4> QED BY <4>2, <4>4
      <3> QED BY <3>2, <3>4, <3>7
    <2> QED BY <2>1, <2>2, <2>5, <2>7
  <1> QED BY <1>1, <1>13, <1>14, <1>15, <1>17 DEF PipelineInv, RowsSettled

(* The committed offset takes the message in hand among those it counts.    *)
LEMMA CommitInv ==
    ASSUME PipelineInv, NEW u \in Topics, A!Commit(u) \/ A!CommitFails(u), UNCHANGED vars
    PROVE  PipelineInv'
  <1>1. /\ Inv' /\ UNCHANGED log
        /\ \A t, k : OfTopic(t, k)' = OfTopic(t, k)
        /\ \A e : InLog(e)' <=> InLog(e)
    BY OutboxUntouched
  <1>2. UNCHANGED <<position, rows>> /\ pc[u] = "commit"
    BY DEF A!Commit, A!CommitFails
  <1>3. /\ Len(log) \in Nat /\ position[u] \in Nat /\ committed[u] \in Nat /\ stops \in Nat
        /\ committed[u] < position[u] /\ position[u] <= Len(log)
        /\ TopicOf[log[position[u]]] = u
    BY <1>2 DEF PipelineInv, Readers, MessagesInHand, Inv, TypeOK
  <1>4. RowsAreFromKafka'
    BY <1>1, <1>2 DEF PipelineInv, RowsAreFromKafka
  <1>5. CASE A!Commit(u)
    <2>1. /\ committed' = [committed EXCEPT ![u] = position[u]]
          /\ pc' = [pc EXCEPT ![u] = "fetch"] /\ stops' = stops
      BY <1>5 DEF A!Commit, A!Goto
    <2>2. /\ committed'[u] = position[u] /\ pc'[u] = "fetch"
          /\ \A t \in Topics \ {u} : committed'[t] = committed[t] /\ pc'[t] = pc[t]
      BY <2>1 DEF PipelineInv, Readers
    <2>3. Readers'
      <3>1. committed' \in [Topics -> Nat]
            /\ pc' \in [Topics -> {"down", "fetch", "insert", "commit", "failed"}]
        BY <1>3, <2>1 DEF PipelineInv, Readers
      <3>2. ASSUME NEW t \in Topics
            PROVE  committed'[t] <= position'[t] /\ position'[t] <= Len(log')
        <4>1. CASE t = u
          BY <1>1, <1>2, <1>3, <2>2, <4>1
        <4>2. CASE t # u
          BY <1>1, <1>2, <2>2, <4>2 DEF PipelineInv, Readers
        <4> QED BY <4>1, <4>2
      <3> QED BY <1>2, <2>1, <3>1, <3>2 DEF PipelineInv, Readers
    <2>4. MessagesInHand'
      BY <1>1, <1>2, <2>2 DEF PipelineInv, MessagesInHand
    <2>5. Stopping' = Stopping
      <3>1. \A t \in Topics : pc'[t] = "failed" <=> pc[t] = "failed"
        BY <1>2, <2>2
      <3> QED BY <3>1 DEF Stopping
    <2>6. ASSUME NEW t \in Topics
          PROVE  (Len(rows[t]) <= Cardinality(OfTopic(t, committed[t])) + stops - Stopping
                                  + Unsettled(t))'
      <3>1. PICK n \in Nat : n = Cardinality(OfTopic(t, committed[t]))
        BY OfTopicCount DEF PipelineInv, Readers
      <3>2. PICK l \in Nat : l = Len(rows[t])
        BY DEF PipelineInv, Readers
      <3>3. l <= n + stops - Stopping + Unsettled(t)
        BY <3>1, <3>2 DEF PipelineInv, RowsSettled
      <3>4. CASE t = u
        <4>1. Unsettled(t) = 1 /\ Unsettled(t)' = 0
          BY <1>2, <2>2, <3>4 DEF Unsettled
        <4>2. OfTopic(t, committed[t]) \cup {position[u]} \subseteq OfTopic(t, position[u])
          BY <1>3, <3>4 DEF OfTopic
        <4>3. position[u] \notin OfTopic(t, committed[t])
          BY <1>3, <3>4 DEF OfTopic
        <4>4. IsFiniteSet(OfTopic(t, committed[t]))
          BY <1>3, <3>4, OfTopicCount
        <4>5. /\ IsFiniteSet(OfTopic(t, position[u]))
              /\ Cardinality(OfTopic(t, position[u])) \in Nat
          BY <1>3, OfTopicCount
        <4>6. Cardinality(OfTopic(t, committed[t]) \cup {position[u]}) = n + 1
          BY <3>1, <4>3, <4>4, FS_AddElement
        <4>7. PICK k \in Nat : k = Cardinality(OfTopic(t, position[u])) /\ n + 1 <= k
          BY <4>2, <4>5, <4>6, FS_Subset
        <4>8. Cardinality(OfTopic(t, committed[t])') = k
          <5>1. OfTopic(t, committed[t])' = OfTopic(t, position[u])
            BY <1>1, <2>2, <3>4 DEF OfTopic
          <5> QED BY <4>7, <5>1
        <4>9. l <= k + stops - Stopping
          BY <1>3, <3>3, <4>1, <4>7, SmallCounts
        <4> QED BY <1>2, <1>3, <2>1, <2>5, <3>2, <4>1, <4>8, <4>9, SmallCounts
      <3>5. CASE t # u
        <4>1. Unsettled(t)' = Unsettled(t)
          BY <2>2, <3>5 DEF Unsettled
        <4>2. OfTopic(t, committed[t])' = OfTopic(t, committed[t])
          BY <1>1, <2>2, <3>5 DEF OfTopic
        <4> QED BY <1>2, <2>1, <2>5, <3>1, <3>2, <3>3, <4>1, <4>2
      <3> QED BY <3>4, <3>5
    <2> QED BY <1>1, <1>4, <2>3, <2>4, <2>6 DEF PipelineInv, RowsSettled
  <1>6. CASE A!CommitFails(u)
    <2>1. /\ committed' = committed /\ pc' = [pc EXCEPT ![u] = "failed"]
          /\ stops < MaxStops /\ stops' = stops + 1
      BY <1>6 DEF A!CommitFails, A!Goto, A!Stop
    <2>2. /\ pc' \in [Topics -> {"down", "fetch", "insert", "commit", "failed"}]
          /\ pc'[u] = "failed" /\ \A t \in Topics \ {u} : pc'[t] = pc[t]
      BY <2>1 DEF PipelineInv, Readers
    <2>3. stops' \in 0..MaxStops
      BY <1>3, <2>1, PipelineAssumption
    <2>4. Readers' /\ MessagesInHand'
      BY <1>1, <1>2, <2>1, <2>2, <2>3 DEF PipelineInv, Readers, MessagesInHand
    <2>5. ASSUME NEW t \in Topics
          PROVE  (Len(rows[t]) <= Cardinality(OfTopic(t, committed[t])) + stops - Stopping
                                  + Unsettled(t))'
      <3>1. PICK n \in Nat : n = Cardinality(OfTopic(t, committed[t]))
        BY OfTopicCount DEF PipelineInv, Readers
      <3>2. PICK l \in Nat : l = Len(rows[t])
        BY DEF PipelineInv, Readers
      <3>3. l <= n + stops - Stopping + Unsettled(t)
        BY <3>1, <3>2 DEF PipelineInv, RowsSettled
      <3>4. Unsettled(t)' = Unsettled(t)
        BY <1>2, <2>2 DEF Unsettled
      <3>5. OfTopic(t, committed[t])' = OfTopic(t, committed[t])
        BY <1>1, <2>1 DEF OfTopic
      <3>6. Stopping \in {0, 1} /\ Stopping' \in {0, 1} /\ Unsettled(t) \in {0, 1}
        BY SmallCounts
      <3>7. l <= n + stops' - Stopping' + Unsettled(t)
        BY <1>3, <2>1, <3>3, <3>6
      <3> QED BY <1>2, <3>1, <3>2, <3>4, <3>5, <3>7
    <2> QED BY <1>1, <1>4, <2>4, <2>5 DEF PipelineInv, RowsSettled
  <1> QED BY <1>5, <1>6

LEMMA PipelineNextInv == PipelineInv /\ [PipelineNext]_pipeline => PipelineInv'
  <1> SUFFICES ASSUME PipelineInv, [PipelineNext]_pipeline PROVE PipelineInv'
    OBVIOUS
  <1>1. CASE UNCHANGED pipeline
    BY <1>1, OutboxSide DEF pipeline
  <1>2. CASE Next /\ UNCHANGED consumer
    BY <1>2, OutboxSide
  <1>3. CASE A!Next /\ UNCHANGED vars
    <2>1. CASE A!Start \/ A!Exit \/ A!Crash
      BY <1>3, <2>1, ProcessInv
    <2>2. ASSUME NEW t \in Topics, A!Consume(t) \/ A!Fail(t) PROVE PipelineInv'
      BY <1>3, <2>2, FetchInv, InsertInv, CommitInv DEF A!Consume, A!Fail
    <2> QED BY <1>3, <2>1, <2>2 DEF A!Next
  <1> QED BY <1>1, <1>2, <1>3 DEF PipelineNext

LEMMA PipelineInvHolds == PipelineSpec => []PipelineInv
  BY PipelineInit_Inv, PipelineNextInv, PTL DEF PipelineSpec

LEMMA SettledIsPaid == PipelineInv => RowsPaidFor
  <1> SUFFICES ASSUME PipelineInv PROVE RowsPaidFor
    OBVIOUS
  <1>1. Len(log) \in Nat /\ DOMAIN log = 1..Len(log)
    BY DEF PipelineInv, Inv, TypeOK
  <1>2. A!TypeOK
    BY <1>1 DEF PipelineInv, Readers, MessagesInHand, A!TypeOK
  <1>3. ASSUME NEW t \in Topics
        PROVE  Len(rows[t]) <= Cardinality({i \in DOMAIN log : TopicOf[log[i]] = t}) + stops
    <2>1. {i \in DOMAIN log : TopicOf[log[i]] = t} = OfTopic(t, Len(log))
      BY <1>1 DEF OfTopic
    <2>2. /\ committed[t] \in Nat /\ position[t] \in Nat /\ stops \in Nat
          /\ committed[t] <= position[t] /\ position[t] <= Len(log)
      BY DEF PipelineInv, Readers
    <2>3. PICK n \in Nat : n = Cardinality(OfTopic(t, committed[t]))
      BY <2>2, OfTopicCount
    <2>4. PICK k \in Nat : k = Cardinality(OfTopic(t, Len(log)))
      BY <1>1, OfTopicCount
    <2>5. PICK l \in Nat : l = Len(rows[t])
      BY DEF PipelineInv, Readers
    <2>6. l <= n + stops - Stopping + Unsettled(t)
      BY <2>3, <2>5 DEF PipelineInv, RowsSettled
    <2>7. OfTopic(t, committed[t]) \subseteq OfTopic(t, Len(log))
      BY <1>1, <2>2 DEF OfTopic
    <2>8. n <= k
      BY <1>1, <2>3, <2>4, <2>7, OfTopicCount, FS_Subset
    <2>9. l <= k + stops
      <3>1. CASE pc[t] = "failed"
        <4>1. Stopping = 1 /\ Unsettled(t) = 1
          BY <3>1 DEF Stopping, Unsettled
        <4> QED BY <2>2, <2>6, <2>8, <4>1
      <3>2. CASE pc[t] = "commit"
        <4>1. committed[t] < position[t] /\ TopicOf[log[position[t]]] = t
          BY <3>2 DEF PipelineInv, MessagesInHand
        <4>2. /\ OfTopic(t, committed[t]) \cup {position[t]} \subseteq OfTopic(t, Len(log))
              /\ position[t] \notin OfTopic(t, committed[t])
          BY <1>1, <2>2, <2>7, <4>1 DEF OfTopic
        <4>3. Cardinality(OfTopic(t, committed[t]) \cup {position[t]}) = n + 1
          BY <2>2, <2>3, <4>2, OfTopicCount, FS_AddElement
        <4>4. n + 1 <= k
          BY <1>1, <2>4, <4>2, <4>3, OfTopicCount, FS_Subset
        <4>5. Unsettled(t) = 1 /\ Stopping \in {0, 1}
          BY <3>2, SmallCounts DEF Unsettled
        <4> QED BY <2>2, <2>6, <4>4, <4>5
      <3>3. CASE pc[t] \notin {"commit", "failed"}
        <4>1. Unsettled(t) = 0 /\ Stopping \in {0, 1}
          BY <3>3, SmallCounts DEF Unsettled
        <4> QED BY <2>2, <2>6, <2>8, <4>1
      <3> QED BY <3>1, <3>2, <3>3
    <2> QED BY <2>1, <2>4, <2>5, <2>9
  <1> QED BY <1>2, <1>3 DEF RowsPaidFor

(* On each topic ClickHouse has no more rows than Kafka has messages and    *)
(* the consumer has stopped, though one error ends the goroutines of all    *)
(* topics between their insert and their commit (consumeTopic, Run).        *)
THEOREM RepeatedRowsArePaidFor == PipelineSpec => []RowsPaidFor
  BY PipelineInvHolds, SettledIsPaid, PTL

(* The consumer only reads what the publishers write, so what is proved of  *)
(* the outbox alone holds of the whole.                                     *)
THEOREM OutboxInPipeline == PipelineSpec => [](MarkedOnlyIfSent /\ DuplicatesNeedFaults)
  <1>1. PipelineInit => Init
    BY DEF PipelineInit
  <1>2. [PipelineNext]_pipeline => [Next]_vars
    BY DEF PipelineNext, pipeline
  <1>3. PipelineSpec => Spec
    BY <1>1, <1>2, PTL DEF PipelineSpec, Spec
  <1> QED BY <1>3, NothingLostOrInvented, RepeatsArePaidFor, PTL

-----------------------------------------------------------------------------
(* The ledger.                                                              *)

(* The outbox records one event at a time and takes none back.              *)
LEMMA CommittedGrows ==
    ASSUME Inv, [Next]_vars
    PROVE  Committed' = Committed \/ \E e \in Events \ Committed : Committed' = Committed \cup {e}
  <1>1. CASE UNCHANGED vars
    BY <1>1 DEF vars, Committed
  <1>2. ASSUME NEW e \in Events, BeginProducer(e) \/ RollbackProducer(e)
        PROVE  Committed' = Committed
    <2>1. /\ row[e] \in {"none", "open"} /\ row'[e] \in {"none", "open"}
          /\ \A f \in Events \ {e} : row'[f] = row[f]
      BY <1>2 DEF BeginProducer, RollbackProducer, Inv, TypeOK
    <2> QED BY <2>1 DEF Committed
  <1>3. ASSUME NEW e \in Events, CommitProducer(e)
        PROVE  e \notin Committed /\ Committed' = Committed \cup {e}
    <2>1. /\ row[e] = "open" /\ row'[e] = "pending"
          /\ \A f \in Events \ {e} : row'[f] = row[f]
      BY <1>3 DEF CommitProducer, Inv, TypeOK
    <2> QED BY <2>1 DEF Committed
  <1>4. ASSUME NEW p \in Pubs, Select(p) \/ Write(p) \/ Drop(p) PROVE Committed' = Committed
    <2>1. row' = row
      BY <1>4 DEF Select, Write, Drop
    <2> QED BY <2>1 DEF Committed
  <1>5. ASSUME NEW p \in Pubs, NEW keep \in SUBSET marked[p], End(p, keep)
        PROVE  Committed' = Committed
    <2>1. \A e \in Events : row'[e] = IF e \in keep THEN "published" ELSE row[e]
      BY <1>5 DEF End
    <2>2. \A e \in keep : row[e] = "pending"
      BY DEF Inv, BatchesHold
    <2> QED BY <2>1, <2>2 DEF Committed
  <1>6. ASSUME NEW p \in Pubs, WriteFails(p) \/ CommitBatch(p) \/ Crash(p)
        PROVE  Committed' = Committed
    <2>1. \E keep \in SUBSET marked[p] : End(p, keep)
      BY <1>6 DEF WriteFails, CommitBatch, Crash
    <2> QED BY <1>5, <2>1
  <1> QED BY <1>1, <1>2, <1>3, <1>4, <1>6 DEF Next, Publish

(* What a publisher's transaction forgets when it ends: the events among    *)
(* those it marks for good that Kafka does not have.                        *)
LEMMA EndForgets ==
    ASSUME Inv, NEW p \in Pubs, NEW keep \in SUBSET marked[p], End(p, keep),
           log' = log \/ \E e \in todo[p] : log' = Append(log, e)
    PROVE  \E batch \in SUBSET Events :
              /\ batch \subseteq dropped /\ \A e \in batch : ~InLog(e)
              /\ Missing' = Missing \cup batch
  <1>1. /\ \A f \in Events : InLog(f) => InLog(f)'
        /\ \A f \in Events : InLog(f)' => InLog(f) \/ f \in todo[p]
    <2>1. CASE log' = log
      BY <2>1 DEF InLog
    <2>2. CASE \E e \in todo[p] : log' = Append(log, e)
      BY <2>2, AppendKeeps DEF Inv, TypeOK
    <2> QED BY <2>1, <2>2
  <1>2. row' = [e \in Events |-> IF e \in keep THEN "published" ELSE row[e]]
    BY DEF End
  <1>3. keep \subseteq Events /\ \A e \in todo[p] : row[e] = "pending"
    BY DEF Inv, TypeOK, BatchesHold
  <1>4. PICK batch \in SUBSET Events : batch = {e \in keep : ~InLog(e)'}
    BY <1>3
  <1>5. batch \subseteq dropped /\ \A e \in batch : ~InLog(e)
    BY <1>1, <1>3, <1>4 DEF Inv, BatchesHold
  <1>6. Missing' = Missing \cup batch
    <2>1. \A e \in Events : e \in Missing' <=> (e \in keep \/ row[e] = "published") /\ ~InLog(e)'
      BY <1>2 DEF Missing
    <2>2. \A e \in Events : row[e] = "published" => (InLog(e)' <=> InLog(e))
      BY <1>1, <1>3
    <2>3. \A e \in Events : e \in Missing' <=> e \in Missing \cup batch
      BY <1>4, <2>1, <2>2 DEF Missing
    <2> QED BY <1>4, <2>3 DEF Missing
  <1> QED BY <1>5, <1>6

(* A step of the outbox records an event, has one dropped, or forgets some. *)
LEMMA OutboxSteps ==
    ASSUME Inv, [Next]_vars
    PROVE  \/ /\ UNCHANGED <<dropped, Missing>>
              /\ \/ Committed' = Committed
                 \/ \E e \in Events \ Committed : Committed' = Committed \cup {e}
           \/ /\ UNCHANGED <<Committed, Missing>>
              /\ \E e \in Committed : dropped' = dropped \cup {e}
           \/ /\ UNCHANGED <<Committed, dropped>>
              /\ \E batch \in SUBSET Events :
                    /\ batch \subseteq dropped /\ \A e \in batch : ~InLog(e)
                    /\ Missing' = Missing \cup batch
  <1>1. CASE UNCHANGED vars
    BY <1>1 DEF vars, Committed, Missing, InLog
  <1>2. ASSUME NEW e \in Events, BeginProducer(e) \/ CommitProducer(e) \/ RollbackProducer(e)
        PROVE  UNCHANGED <<dropped, Missing>>
    <2>1. /\ UNCHANGED <<log, dropped>>
          /\ \A f \in Events : row'[f] = "published" <=> row[f] = "published"
      BY <1>2 DEF BeginProducer, CommitProducer, RollbackProducer, Inv, TypeOK
    <2> QED BY <2>1 DEF Missing, InLog
  <1>3. ASSUME NEW p \in Pubs, Select(p) \/ Write(p)
        PROVE  UNCHANGED <<dropped, Missing, Committed>>
    <2>1. UNCHANGED <<row, dropped>>
      BY <1>3 DEF Select, Write
    <2>2. CASE Select(p)
      BY <2>1, <2>2 DEF Select, Missing, InLog, Committed
    <2>3. CASE Write(p)
      <3>1. PICK e \in Events : e \in todo[p] /\ log' = Append(log, e)
        BY <2>3 DEF Write, IsNext
      <3>2. row[e] = "pending" /\ \A f \in Events : InLog(f)' <=> (InLog(f) \/ f = e)
        BY <3>1, AppendKeeps DEF Inv, BatchesHold
      <3> QED BY <2>1, <3>2 DEF Missing, Committed
    <2> QED BY <1>3, <2>2, <2>3
  <1>4. ASSUME NEW p \in Pubs, Drop(p)
        PROVE  /\ UNCHANGED <<Committed, Missing>>
               /\ \E e \in Committed : dropped' = dropped \cup {e}
    <2>1. PICK e \in Events : e \in todo[p] /\ dropped' = dropped \cup {e}
      BY <1>4 DEF Drop, IsNext
    <2>2. UNCHANGED <<row, log>>
      BY <1>4 DEF Drop
    <2>3. e \in Committed
      BY <2>1 DEF Inv, BatchesHold, Committed
    <2> QED BY <2>1, <2>2, <2>3 DEF Committed, Missing, InLog
  <1>5. ASSUME NEW p \in Pubs, WriteFails(p) \/ CommitBatch(p) \/ Crash(p)
        PROVE  /\ UNCHANGED <<Committed, dropped>>
               /\ \E batch \in SUBSET Events :
                     /\ batch \subseteq dropped /\ \A e \in batch : ~InLog(e)
                     /\ Missing' = Missing \cup batch
    <2>1. /\ UNCHANGED dropped
          /\ log' = log \/ \E e \in todo[p] : log' = Append(log, e)
      BY <1>5 DEF WriteFails, IsNext, CommitBatch, Crash
    <2>2. PICK keep \in SUBSET marked[p] : End(p, keep)
      BY <1>5 DEF WriteFails, CommitBatch, Crash
    <2>3. \A e \in Events : row'[e] = IF e \in keep THEN "published" ELSE row[e]
      BY <2>2 DEF End
    <2>4. \A e \in keep : row[e] = "pending"
      BY DEF Inv, BatchesHold
    <2>5. Committed' = Committed
      BY <2>3, <2>4 DEF Committed
    <2> QED BY <2>1, <2>2, <2>5, EndForgets
  <1> QED BY <1>1, <1>2, <1>3, <1>4, <1>5, CommittedGrows DEF Next, Publish

(* An insert counts the event in hand, or repeats a row that is there.      *)
LEMMA InsertCounts ==
    ASSUME PipelineInv, NEW u \in Topics, A!Insert(u) \/ A!InsertFails(u)
    PROVE  \/ A!Counted' = A!Counted
           \/ \E e \in (Committed \cap Accepted) \ A!Counted :
                 InLog(e) /\ A!Counted' = A!Counted \cup {e}
  <1>1. rows' \in {rows, [rows EXCEPT ![u] = Append(@, log[position[u]])]} /\ pc[u] = "insert"
    BY DEF A!Insert, A!InsertFails
  <1>2. PICK e \in Accepted : e = log[position[u]]
    BY <1>1 DEF PipelineInv, MessagesInHand
  <1>3. e \in Events /\ e \in Committed /\ InLog(e)
    <2>1. position[u] \in DOMAIN log
      BY <1>1 DEF PipelineInv, Readers, MessagesInHand, Inv, TypeOK
    <2>2. InLog(e) /\ e \in Events
      BY <1>2, <2>1, PipelineAssumption DEF InLog
    <2> QED BY <2>2 DEF PipelineInv, Inv, MarkedOnlyIfSent
  <1>4. rows \in [Topics -> Seq(Accepted)] /\ rows[u] \in Seq(Accepted)
    BY DEF PipelineInv, Readers
  <1>5. CASE rows' = rows
    BY <1>5 DEF A!Counted
  <1>6. CASE rows' = [rows EXCEPT ![u] = Append(@, log[position[u]])]
    <2>1. \A t \in Topics \ {u} : rows'[t] = rows[t]
      BY <1>4, <1>6
    <2>2. rows'[u] = Append(rows[u], e)
      BY <1>2, <1>4, <1>6
    <2>3. /\ DOMAIN rows[u] = 1..Len(rows[u]) /\ DOMAIN rows'[u] = 1..(Len(rows[u]) + 1)
          /\ \A i \in 1..Len(rows[u]) : rows'[u][i] = rows[u][i]
          /\ rows'[u][Len(rows[u]) + 1] = e /\ Len(rows[u]) \in Nat
      BY <1>4, <2>2
    <2>4. \A f : (\E i \in DOMAIN rows'[u] : rows'[u][i] = f)
                 <=> (f = e \/ \E i \in DOMAIN rows[u] : rows[u][i] = f)
      BY <2>3
    <2>5. A!Counted' = A!Counted \cup {e}
      BY <1>3, <2>1, <2>4 DEF A!Counted
    <2>6. CASE e \in A!Counted
      BY <2>5, <2>6
    <2>7. CASE e \notin A!Counted
      BY <1>3, <2>5, <2>7
    <2> QED BY <2>6, <2>7
  <1> QED BY <1>1, <1>5, <1>6

LEMMA LedgerStep ==
    PipelineInv /\ [PipelineNext]_pipeline => [Ledger!Next]_(Ledger!vars)
  <1> SUFFICES ASSUME PipelineInv, [PipelineNext]_pipeline
               PROVE  [Ledger!Next]_(Ledger!vars)
    OBVIOUS
  <1>1. CASE [Next]_vars /\ UNCHANGED consumer
    <2>1. A!Counted' = A!Counted
      BY <1>1 DEF consumer, A!Counted
    <2>2. CASE UNCHANGED <<Committed, dropped, Missing>>
      BY <2>1, <2>2 DEF Ledger!vars
    <2>3. ASSUME NEW e \in Events \ Committed, Committed' = Committed \cup {e},
                 UNCHANGED <<dropped, Missing>>
          PROVE  Ledger!Next
      <3>1. Ledger!Record(e)
        BY <2>1, <2>3 DEF Ledger!Record
      <3> QED BY <3>1 DEF Ledger!Next
    <2>4. ASSUME NEW e \in Committed, dropped' = dropped \cup {e},
                 UNCHANGED <<Committed, Missing>>
          PROVE  Ledger!Next
      <3>1. Ledger!Drop(e) /\ e \in Events
        BY <2>1, <2>4 DEF Ledger!Drop, Committed
      <3> QED BY <3>1 DEF Ledger!Next
    <2>5. ASSUME NEW batch \in SUBSET Events, batch \subseteq dropped,
                 \A e \in batch : ~InLog(e), Missing' = Missing \cup batch,
                 UNCHANGED <<Committed, dropped>>
          PROVE  Ledger!Next
      <3>1. batch \cap A!Counted = {}
        BY <2>5 DEF PipelineInv, RowsAreFromKafka, A!Counted
      <3>2. Ledger!Forget(batch)
        BY <2>1, <2>5, <3>1 DEF Ledger!Forget
      <3> QED BY <3>2 DEF Ledger!Next
    <2> QED BY <1>1, <2>2, <2>3, <2>4, <2>5, OutboxSteps DEF PipelineInv
  <1>2. CASE A!Next /\ UNCHANGED vars
    <2>1. UNCHANGED <<Committed, dropped, Missing>>
      BY <1>2 DEF vars, Committed, Missing, InLog
    <2>2. CASE rows' = rows
      <3>1. A!Counted' = A!Counted
        BY <2>2 DEF A!Counted
      <3> QED BY <2>1, <3>1 DEF Ledger!vars
    <2>3. ASSUME NEW t \in Topics, A!Insert(t) \/ A!InsertFails(t)
          PROVE  [Ledger!Next]_(Ledger!vars)
      <3>1. CASE A!Counted' = A!Counted
        BY <2>1, <3>1 DEF Ledger!vars
      <3>2. ASSUME NEW e \in (Committed \cap Accepted) \ A!Counted, InLog(e),
                   A!Counted' = A!Counted \cup {e}
            PROVE  Ledger!Next
        <4>1. e \notin Missing
          BY <3>2 DEF Missing
        <4>2. Ledger!Count(e)
          BY <2>1, <3>2, <4>1 DEF Ledger!Count
        <4>3. e \in Events
          BY PipelineAssumption
        <4> QED BY <4>2, <4>3 DEF Ledger!Next
      <3> QED BY <2>3, <3>1, <3>2, InsertCounts
    <2>4. rows' = rows \/ \E t \in Topics : A!Insert(t) \/ A!InsertFails(t)
      BY <1>2 DEF A!Next, A!Start, A!Exit, A!Crash, A!Consume, A!Fail, A!Fetch, A!Commit,
                  A!CommitFails
    <2> QED BY <2>2, <2>3, <2>4
  <1>3. CASE UNCHANGED pipeline
    BY <1>1, <1>3 DEF pipeline
  <1> QED BY <1>1, <1>2, <1>3 DEF PipelineNext

(* The publishers, Kafka and the consumer, which all repeat themselves,     *)
(* implement a ledger: an event is counted at most once, only after the     *)
(* transaction that recorded it committed, only if analytics accepts it,    *)
(* and is neither uncounted nor unrecorded; one is missing for good only if *)
(* the broker dropped it after a write without acknowledgement.             *)
THEOREM PipelineImplementsLedger == PipelineSpec => Ledger!Spec
  <1>1. PipelineInit => Ledger!Init
    <2> SUFFICES ASSUME PipelineInit
                 PROVE  Committed = {} /\ A!Counted = {} /\ dropped = {} /\ Missing = {}
      BY DEF Ledger!Init
    <2>1. Committed = {} /\ dropped = {} /\ Missing = {}
      BY DEF PipelineInit, Init, Committed, Missing
    <2>2. A!Counted = {}
      BY DEF PipelineInit, A!Init, A!Counted
    <2> QED BY <2>1, <2>2
  <1> QED BY <1>1, PipelineInvHolds, LedgerStep, PTL DEF PipelineSpec, Ledger!Spec
=============================================================================

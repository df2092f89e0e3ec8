------------------------------- MODULE Indexer -------------------------------
(***************************************************************************)
(* The embedding indexer (internal/recommendation/indexer.go,               *)
(* qdrant_index.go, cmd/embedding-indexer/main.go).  A start creates the    *)
(* collection and indexes the active offers; then every offer.changed event *)
(* is applied to Qdrant and its offset committed.  Any error ends the       *)
(* process, which the container runtime starts again.                       *)
(*                                                                          *)
(* The version of an offer stands for its title, description and station.   *)
(* Whoever administers the offers is outside the repository: the model lets *)
(* it commit a row with the next version, or remove one, and then publish   *)
(* the change, in the order of the commits, at least once.  All four texts  *)
(* are optional in the event (api/events/v1): a full one has them, a bare   *)
(* one only lacks the category, a thin one lacks any of the other three.    *)
(***************************************************************************)
EXTENDS Integers, Sequences, FiniteSets

CONSTANTS
    Offers,
    None,
    MaxChanges,   \* bound: changes of offers
    MaxBad,       \* bound: events HandleOfferChanged rejects
    MaxRepeats,   \* bound: events published twice
    MaxFaults     \* bound: crashes and failed calls

Versions == 1 .. MaxChanges + 1

(* A document is the text of a version, the version its payload tells, and  *)
(* whether it has the category of the offer or an empty one.                *)
Document == [text : Versions, version : Versions, category : BOOLEAN]
Doc(v) == [text |-> v, version |-> v, category |-> TRUE]

ASSUME IndexerAssumption ==
    /\ IsFiniteSet(Offers) /\ None \notin Offers /\ None \notin Document
    /\ MaxChanges \in Nat /\ MaxBad \in Nat /\ MaxRepeats \in Nat /\ MaxFaults \in Nat

VARIABLES
    db,          \* the offers table
    unsent,      \* changes not yet published
    log,         \* the partition of offer.changed
    committed,   \* the committed offset
    position,    \* where the reader stands
    pc,          \* what the process does next
    held,        \* the documents in hand: the rows of a start, or of an event
    collection,  \* whether Qdrant has the collection
    index,       \* the points of Qdrant
    bad, repeats, faults

source == <<db, unsent, log, bad, repeats>>
qdrant == <<collection, index>>
vars == <<source, committed, position, pc, held, qdrant, faults>>

Statuses == {"active", "inactive", "gone"}
Forms == {"full", "bare", "thin"}
Event == [offer : Offers, kind : {"UPSERT", "DELETE", "bad"}, version : Versions, form : Forms]
Current == log[position + 1]
Fault == faults < MaxFaults /\ faults' = faults + 1
Larger(a, b) == IF a > b THEN a ELSE b

-----------------------------------------------------------------------------
(* The administration of offers.                                            *)

Changes == Cardinality({c \in Offers \X Versions : 1 < c[2] /\ c[2] <= db[c[1]].version})

(* The offer is updated, in force or not, or its row is removed for good.   *)
Change(o, status) ==
    /\ Changes < MaxChanges /\ db[o].status # "gone"
    /\ db' = [db EXCEPT ![o] = [version |-> @.version + 1, status |-> status]]
    /\ unsent' = Append(unsent, [offer |-> o, kind |-> IF status = "active" THEN "UPSERT" ELSE "DELETE",
                                 version |-> db[o].version + 1])
    /\ UNCHANGED <<log, bad, repeats, committed, position, pc, held, qdrant, faults>>

Publish(form) ==
    /\ unsent # <<>>
    /\ log' = Append(log, [offer |-> Head(unsent).offer, kind |-> Head(unsent).kind,
                           version |-> Head(unsent).version, form |-> form])
    /\ unsent' = Tail(unsent)
    /\ UNCHANGED <<db, bad, repeats, committed, position, pc, held, qdrant, faults>>

(* The last event again, the retry of a producer.                           *)
Republish ==
    /\ log # <<>> /\ repeats < MaxRepeats /\ repeats' = repeats + 1
    /\ log' = Append(log, log[Len(log)])
    /\ UNCHANGED <<db, unsent, bad, committed, position, pc, held, qdrant, faults>>

(* An event without an offer, of another schema version, or of a change     *)
(* type nobody knows.                                                       *)
PublishBad(o) ==
    /\ bad < MaxBad /\ bad' = bad + 1
    /\ log' = Append(log, [offer |-> o, kind |-> "bad", version |-> 1, form |-> "full"])
    /\ UNCHANGED <<db, unsent, repeats, committed, position, pc, held, qdrant, faults>>

-----------------------------------------------------------------------------
(* The process.                                                             *)

Nothing == [o \in Offers |-> None]
Exit == pc' = "down" /\ held' = Nothing

(* log.Fatal, whatever the reason: a call failed, or the process crashed.   *)
Die ==
    /\ pc # "down" /\ Fault
    /\ Exit
    /\ UNCHANGED <<source, committed, position, qdrant>>

(* Fault: a start reads only what is published from now on.                *)
StartAtEnd ==
    /\ pc = "down"
    /\ pc' = "ensure" /\ position' = Len(log)
    /\ UNCHANGED <<source, committed, held, qdrant, faults>>

(* main: the reader of a new process begins at the committed offset.        *)
Start ==
    /\ pc = "down"
    /\ pc' = "ensure" /\ position' = committed
    /\ UNCHANGED <<source, committed, held, qdrant, faults>>

(* EnsureCollection and the four EnsurePayloadIndex: a conflict is success. *)
Ensure ==
    /\ pc = "ensure"
    /\ pc' = "select" /\ collection' = TRUE
    /\ UNCHANGED <<source, committed, position, held, index, faults>>

(* reindexActiveOffers: the SELECT and the embeddings ...                   *)
SelectActive ==
    /\ pc = "select"
    /\ held' = [o \in Offers |-> IF db[o].status = "active" THEN Doc(db[o].version) ELSE None]
    /\ pc' = "reindex"
    /\ UNCHANGED <<source, committed, position, qdrant, faults>>

(* Qdrant.Upsert: every document replaces the point of its offer, whichever *)
(* version that had.                                                        *)
Upsert(docs) ==
    index' = [o \in Offers |-> IF docs[o] = None THEN index[o] ELSE docs[o]]

(* ... and one Upsert of them all; nothing is deleted.                      *)
Reindex ==
    /\ pc = "reindex"
    /\ Upsert(held)
    /\ pc' = "fetch" /\ held' = Nothing
    /\ UNCHANGED <<source, committed, position, collection, faults>>

(* HandleOfferChanged reads the event: one that lacks the title, the        *)
(* description or the station is completed, one that only lacks the         *)
(* category is taken as it is.                                              *)
Fetch ==
    /\ pc = "fetch" /\ position < Len(log)
    /\ pc' = IF Current.kind = "UPSERT" /\ Current.form = "thin" THEN "load" ELSE "handle"
    /\ held' = IF Current.kind = "UPSERT" /\ Current.form # "thin"
               THEN [Nothing EXCEPT ![Current.offer] =
                        [Doc(Current.version) EXCEPT !.category = Current.form = "full"]]
               ELSE Nothing
    /\ UNCHANGED <<source, committed, position, qdrant, faults>>

(* loadOffer: the current row, active or not, for an event without a text,  *)
(* and the larger version of the two.  A row that is gone is an error       *)
(* (sql.ErrNoRows), which ends the process.                                 *)
LoadOffer ==
    /\ pc = "load"
    /\ \/ db[Current.offer].status = "gone" /\ Exit
       \/ /\ db[Current.offer].status # "gone"
          /\ held' = [Nothing EXCEPT ![Current.offer] =
                         [Doc(db[Current.offer].version) EXCEPT !.version = Larger(@, Current.version)]]
          /\ pc' = "handle"
    /\ UNCHANGED <<source, committed, position, qdrant, faults>>

(* Fault: an event that cannot be applied is passed over.                   *)
HandleOrSkip ==
    /\ pc = "handle"
    /\ \/ Current.kind = "UPSERT" /\ Upsert(held)
       \/ Current.kind = "DELETE" /\ index' = [index EXCEPT ![Current.offer] = None]
       \/ UNCHANGED index
    /\ pc' = "commit" /\ held' = Nothing
    /\ UNCHANGED <<source, committed, position, collection, faults>>

(* HandleOfferChanged: what it writes to Qdrant, and the error, which ends  *)
(* the process, of an event it rejects.                                     *)
Handle ==
    /\ pc = "handle"
    /\ \/ Current.kind = "UPSERT" /\ Upsert(held) /\ pc' = "commit"
       \/ Current.kind = "DELETE" /\ index' = [index EXCEPT ![Current.offer] = None] /\ pc' = "commit"
       \/ Current.kind = "bad" /\ pc' = "down" /\ UNCHANGED index
    /\ held' = Nothing
    /\ UNCHANGED <<source, committed, position, collection, faults>>

(* A write whose answer is lost: Qdrant has it, the process ends.           *)
HandleUnanswered ==
    /\ pc = "handle" /\ Current.kind # "bad" /\ Fault
    /\ \/ Current.kind = "UPSERT" /\ Upsert(held)
       \/ Current.kind = "DELETE" /\ index' = [index EXCEPT ![Current.offer] = None]
    /\ Exit
    /\ UNCHANGED <<source, committed, position, collection>>

Commit ==
    /\ pc = "commit"
    /\ committed' = position + 1 /\ position' = position + 1
    /\ pc' = "fetch"
    /\ UNCHANGED <<source, held, qdrant, faults>>

Init ==
    /\ db \in [Offers -> [version : {1}, status : {"active", "inactive"}]]
    /\ unsent = <<>> /\ log = <<>> /\ bad = 0 /\ repeats = 0
    /\ committed = 0 /\ position = 0
    /\ pc = "down" /\ held = Nothing
    /\ collection = FALSE /\ index = Nothing
    /\ faults = 0

Process ==
    Start \/ Ensure \/ SelectActive \/ Reindex \/ Fetch \/ LoadOffer \/ Handle \/ Commit

Next ==
    \/ \E o \in Offers : (\E status \in Statuses : Change(o, status)) \/ PublishBad(o)
    \/ (\E form \in Forms : Publish(form)) \/ Republish
    \/ Process \/ Die \/ HandleUnanswered

Spec == Init /\ [][Next]_vars

(* The container runtime restarts the process, which never stays at a step; *)
(* the administration publishes what it has changed.                        *)
FairSpec == Spec /\ WF_vars(Process) /\ WF_vars(\E form \in Forms : Publish(form))

-----------------------------------------------------------------------------
(* What the process has in hand fits the step it is at, and Qdrant has      *)
(* points only in a collection (Bootstrap, HandleOfferChanged).             *)
TypeOK ==
    /\ db \in [Offers -> [version : Versions, status : Statuses]]
    /\ \A i \in DOMAIN log : log[i] \in Event
    /\ committed \in 0 .. position /\ position \in 0 .. Len(log)
    /\ pc \in {"down", "ensure", "select", "reindex", "fetch", "load", "handle", "commit"}
    /\ pc \in {"load", "handle", "commit"} => position < Len(log)
    /\ held \in [Offers -> Document \cup {None}]
    /\ pc \notin {"reindex", "handle"} => held = Nothing
    /\ index \in [Offers -> Document \cup {None}]
    /\ (index # Nothing \/ pc \in {"reindex", "fetch", "handle"}) => collection

(* Some event of this version of the offer came without the category.       *)
CameBare(o, version) ==
    \E i \in DOMAIN log : log[i].offer = o /\ log[i].kind = "UPSERT" /\ log[i].version = version
                          /\ log[i].form = "bare"

(* The content_version of a point is the version of the text its vector was *)
(* made of, also when the event came without a text and the offer has       *)
(* changed since (HandleOfferChanged, loadOffer).  It has the category too, *)
(* unless that was the one thing an event of this version left out.         *)
VersionTellsText ==
    \A o \in Offers : index[o] # None =>
        /\ index[o].version = index[o].text
        /\ index[o].category \/ CameBare(o, index[o].version)

(* The newest of the events before a place in the log that are about o.     *)
LastOf(o, place) ==
    {i \in 1 .. place : log[i].offer = o /\ log[i].kind # "bad"
                        /\ \A j \in i + 1 .. place : log[j].offer = o => log[j].kind = "bad"}

(* A later event says that the offer is gone.                               *)
Deleted(o, place) == \E i \in place + 1 .. Len(log) : log[i].offer = o /\ log[i].kind = "DELETE"

(* Every committed event is in the index: an offer's point is at least as   *)
(* new as its last committed event, or gone if that or a later one is a     *)
(* DELETE.  A crash between the write and the commit, a lost answer, or the *)
(* points a restart writes over the index do not undo an event that will    *)
(* not be read again; and no event the indexer rejects is ever passed.      *)
CommittedIsIndexed ==
    /\ TypeOK /\ VersionTellsText
    /\ \A i \in 1 .. committed : log[i].kind # "bad"
    /\ \A o \in Offers : \A i \in LastOf(o, committed) :
          IF log[i].kind = "UPSERT"
          THEN \/ index[o] # None /\ index[o].version >= log[i].version
               \/ index[o] = None /\ Deleted(o, committed)
          ELSE index[o] = None \/ index[o].version > log[i].version

(* An event the process cannot get past: rejected, or to be completed from  *)
(* a row that is gone.                                                      *)
Blocking(i) ==
    \/ log[i].kind = "bad"
    \/ log[i].kind = "UPSERT" /\ log[i].form = "thin" /\ db[log[i].offer].status = "gone"

(* Unless such an event lies ahead, after the last change the index becomes *)
(* what the offers table says, through crashes, replays and repeated        *)
(* events, and stays so: Qdrant is a "rebuildable" copy.  Only the category *)
(* of an offer whose event left it out may stay empty.                      *)
IndexCatchesUp ==
    <>[](\/ \E i \in committed + 1 .. Len(log) : Blocking(i)
         \/ \A o \in Offers :
               IF db[o].status # "active" THEN index[o] = None
               ELSE LET v == db[o].version
                    IN  \/ index[o] = Doc(v)
                        \/ index[o] = [Doc(v) EXCEPT !.category = FALSE] /\ CameBare(o, v))
=============================================================================

---------------------------- MODULE IndexerProofs ----------------------------
(***************************************************************************)
(* For any offers and any number of changes, repeats, rejected events and   *)
(* crashes: what the indexer has committed is in Qdrant.                    *)
(*                                                                          *)
(* The argument is about order.  The log tells the versions of an offer in  *)
(* order and never more than the offers table has, so the rows a start      *)
(* writes over the index are at least as new as any committed event, and an *)
(* event that is read again is at least as new as the last committed one.   *)
(***************************************************************************)
EXTENDS Indexer, FiniteSetTheorems, TLAPS

PCs == {"down", "ensure", "select", "reindex", "fetch", "load", "handle", "commit"}
Entry == [offer : Offers, kind : {"UPSERT", "DELETE"}, version : Versions]

Shapes ==
    /\ db \in [Offers -> [version : Versions, status : Statuses]]
    /\ unsent \in Seq(Entry) /\ log \in Seq(Event)
    /\ committed \in Nat /\ position = committed /\ committed <= Len(log)
    /\ pc \in PCs /\ collection \in BOOLEAN
    /\ held \in [Offers -> Document \cup {None}]
    /\ index \in [Offers -> Document \cup {None}]

(* What goes with each step of the process.                                 *)
Steps ==
    /\ pc \in {"load", "handle", "commit"} => position < Len(log)
    /\ pc \notin {"reindex", "handle"} => held = Nothing
    /\ (index # Nothing \/ pc \notin {"down", "ensure"}) => collection

(* An event is not ahead of its row, and agrees with it when it is as new.  *)
Told(e) ==
    e.kind # "bad" =>
        /\ e.version <= db[e.offer].version
        /\ e.version = db[e.offer].version =>
              e.kind = IF db[e.offer].status = "active" THEN "UPSERT" ELSE "DELETE"

(* Of two events of an offer the first is not newer, and the same if it is  *)
(* as new.                                                                  *)
InOrder(d, e) ==
    d.offer = e.offer /\ d.kind # "bad" /\ e.kind # "bad" =>
        d.version <= e.version /\ (d.version = e.version => d.kind = e.kind)

Ordered ==
    /\ \A i \in 1 .. Len(log) : Told(log[i])
    /\ \A i \in 1 .. Len(unsent) : Told(unsent[i])
    /\ \A i, j \in 1 .. Len(log) : i < j => InOrder(log[i], log[j])
    /\ \A i, j \in 1 .. Len(unsent) : i < j => InOrder(unsent[i], unsent[j])
    /\ \A i \in 1 .. Len(log), j \in 1 .. Len(unsent) : InOrder(log[i], unsent[j])

(* A document that replaces what an event left.                             *)
Newer(doc, e) ==
    e.kind # "bad" => e.version <= doc.version /\ (e.kind = "DELETE" => e.version < doc.version)

(* What VersionTellsText says of a document.                                *)
Honest(o, d) == d.version = d.text /\ (d.category \/ CameBare(o, d.version))

InHand ==
    /\ \A o \in Offers : held[o] # None => Honest(o, held[o])
    /\ pc = "reindex" =>
          \A o \in Offers : held[o] # None =>
              \A i \in 1 .. committed : log[i].offer = o => Newer(held[o], log[i])
    /\ pc = "load" => Current.kind = "UPSERT"
    /\ pc = "handle" =>
          /\ \A o \in Offers : o # Current.offer => held[o] = None
          /\ IF Current.kind = "UPSERT"
             THEN held[Current.offer] # None /\ held[Current.offer].version >= Current.version
             ELSE held[Current.offer] = None
    /\ pc = "commit" =>
          /\ Current.kind # "bad"
          /\ IF Current.kind = "UPSERT"
             THEN index[Current.offer] # None /\ index[Current.offer].version >= Current.version
             ELSE index[Current.offer] = None

(* What CommittedIsIndexed says of one committed event, at every step.      *)
IsIndexed(o, i) ==
    IF log[i].kind = "UPSERT"
    THEN \/ index[o] # None /\ index[o].version >= log[i].version
         \/ index[o] = None /\ Deleted(o, committed)
    ELSE index[o] = None \/ index[o].version > log[i].version

Indexed ==
    /\ VersionTellsText
    /\ \A i \in 1 .. committed : log[i].kind # "bad"
    /\ \A o \in Offers : \A i \in LastOf(o, committed) : IsIndexed(o, i)

Inv == Shapes /\ Steps /\ Ordered /\ InHand /\ Indexed

-----------------------------------------------------------------------------
(* Facts about the log and the documents.                                   *)

LEMMA ElementOf == ASSUME NEW S, NEW s \in Seq(S), NEW i \in 1 .. Len(s) PROVE s[i] \in S
  OBVIOUS

LEMMA Typed ==
    /\ \A e \in Event : e.offer \in Offers /\ e.version \in Nat
                        /\ e.kind \in {"UPSERT", "DELETE", "bad"}
    /\ \A e \in Entry : e.offer \in Offers /\ e.version \in Versions /\ e.version \in Nat
                        /\ e.kind \in {"UPSERT", "DELETE"}
    /\ \A d \in Document : d.version \in Versions /\ d.text \in Versions
                           /\ d.version \in Nat /\ d.text \in Nat /\ d # None
    /\ \A v \in Versions : v \in Nat /\ Doc(v) \in Document
                           /\ Doc(v).text = v /\ Doc(v).version = v /\ Doc(v).category
  BY IndexerAssumption DEF Event, Entry, Document, Versions, Doc

LEMMA Appended ==
    ASSUME NEW S, NEW s \in Seq(S), NEW x \in S
    PROVE  /\ Append(s, x) \in Seq(S) /\ Len(Append(s, x)) = Len(s) + 1
           /\ Len(s) \in Nat
           /\ \A i \in 1 .. Len(s) : Append(s, x)[i] = s[i]
           /\ Append(s, x)[Len(s) + 1] = x
           /\ \A i \in 1 .. Len(Append(s, x)) : i \in 1 .. Len(s) \/ i = Len(s) + 1
  OBVIOUS

LEMMA Tailed ==
    ASSUME NEW S, NEW s \in Seq(S), s # <<>>
    PROVE  /\ Tail(s) \in Seq(S) /\ Head(s) = s[1] /\ s[1] \in S /\ 1 \in 1 .. Len(s)
           /\ \A i \in 1 .. Len(Tail(s)) : /\ Tail(s)[i] = s[i + 1]
                                           /\ i + 1 \in 1 .. Len(s) /\ 1 < i + 1
           /\ \A i, j \in 1 .. Len(Tail(s)) : i < j => i + 1 < j + 1
  OBVIOUS

(* The last committed event depends only on the log up to it.               *)
LEMMA LastSame ==
    ASSUME Shapes, NEW o \in Offers, committed' = committed,
           \A i \in 1 .. committed : log'[i] = log[i]
    PROVE  LastOf(o, committed)' = LastOf(o, committed)
  <1>1. \A i \in 1 .. committed : \A j \in i + 1 .. committed : j \in 1 .. committed
    BY DEF Shapes
  <1> QED BY <1>1 DEF LastOf

(* What came without its category has come so for good.                     *)
LEMMA BareStays ==
    ASSUME log \in Seq(Event), log' \in Seq(Event), Len(log) <= Len(log'),
           \A i \in 1 .. Len(log) : log'[i] = log[i],
           NEW o, NEW v, CameBare(o, v)
    PROVE  CameBare(o, v)'
  <1>1. PICK i \in 1 .. Len(log) : log[i].offer = o /\ log[i].kind = "UPSERT" /\ log[i].version = v
                                   /\ log[i].form = "bare"
    BY DEF CameBare
  <1>2. i \in DOMAIN log' /\ log'[i] = log[i]
    BY <1>1
  <1> QED BY <1>1, <1>2 DEF CameBare

LEMMA HonestStays ==
    ASSUME log \in Seq(Event), log' \in Seq(Event), Len(log) <= Len(log'),
           \A i \in 1 .. Len(log) : log'[i] = log[i],
           NEW o, NEW d, Honest(o, d)
    PROVE  Honest(o, d)'
  <1>1. PICK v : v = d.version
    OBVIOUS
  <1>2. CameBare(o, v) => CameBare(o, v)'
    BY BareStays
  <1> QED BY <1>1, <1>2 DEF Honest, CameBare

(* A committed event stays indexed while the log grows.                     *)
LEMMA StaysIndexed ==
    ASSUME Shapes, Indexed, committed' = committed, index' = index,
           Len(log) <= Len(log'), Len(log') \in Nat, log' \in Seq(Event),
           \A i \in 1 .. Len(log) : log'[i] = log[i]
    PROVE  Indexed'
  <1>1. committed \in Nat /\ committed <= Len(log) /\ Len(log) \in Nat
    BY DEF Shapes
  <1>2. \A i \in 1 .. committed : log'[i] = log[i]
    BY <1>1
  <1>3. VersionTellsText' /\ \A i \in 1 .. committed' : log'[i].kind # "bad"
    <2>1. ASSUME NEW o \in Offers, index[o] # None PROVE Honest(o, index[o])'
      <3>1. PICK d : d = index[o] /\ Honest(o, d)
        BY <2>1 DEF Indexed, VersionTellsText, Honest
      <3>2. Honest(o, d)'
        BY <3>1, HonestStays DEF Shapes
      <3> QED BY <3>1, <3>2 DEF Honest, CameBare
    <2> QED BY <1>2, <2>1 DEF Indexed, VersionTellsText, Honest
  <1>4. ASSUME NEW o \in Offers, Deleted(o, committed) PROVE Deleted(o, committed)'
    <2>1. PICK i \in committed + 1 .. Len(log) : log[i].offer = o /\ log[i].kind = "DELETE"
      BY <1>4 DEF Deleted
    <2>2. i \in 1 .. Len(log) /\ i \in committed' + 1 .. Len(log')
      BY <1>1, <2>1
    <2> QED BY <2>1, <2>2 DEF Deleted
  <1>5. ASSUME NEW o \in Offers, NEW i \in LastOf(o, committed)' PROVE IsIndexed(o, i)'
    <2>1. i \in LastOf(o, committed) /\ i \in 1 .. committed
      BY <1>2, <1>5, LastSame DEF LastOf
    <2>2. IsIndexed(o, i) /\ log'[i] = log[i]
      BY <1>2, <2>1 DEF Indexed
    <2> QED BY <1>4, <2>2 DEF IsIndexed
  <1> QED BY <1>3, <1>5 DEF Indexed

(* A step of the process that writes nothing.                               *)
LEMMA OrderedSame == ASSUME Ordered, UNCHANGED <<db, unsent, log>> PROVE Ordered'
  BY DEF Ordered, Told, InOrder

LEMMA IndexedSame ==
    ASSUME Shapes, Indexed, UNCHANGED <<log, index, committed>> PROVE Indexed'
  <1>1. Len(log) \in Nat /\ Len(log) <= Len(log) /\ log \in Seq(Event)
    BY DEF Shapes
  <1> QED BY <1>1, StaysIndexed

-----------------------------------------------------------------------------
LEMMA InitInv == Init => Inv
  <1> SUFFICES ASSUME Init PROVE Inv
    OBVIOUS
  <1>1. 1 \in Versions
    BY IndexerAssumption DEF Versions
  <1>2. Shapes
    <2>1. db \in [Offers -> [version : Versions, status : Statuses]]
      BY <1>1 DEF Init, Statuses
    <2>2. held \in [Offers -> Document \cup {None}] /\ index \in [Offers -> Document \cup {None}]
      BY DEF Init, Nothing
    <2>3. unsent \in Seq(Entry) /\ log \in Seq(Event) /\ Len(log) = 0
      BY DEF Init
    <2>4. committed \in Nat /\ position = committed /\ committed <= Len(log)
      BY <2>3 DEF Init
    <2>5. pc \in PCs /\ collection \in BOOLEAN
      BY DEF Init, PCs
    <2> QED BY <2>1, <2>2, <2>3, <2>4, <2>5 DEF Shapes
  <1>3. Steps
    BY DEF Init, Steps
  <1>4. Ordered
    BY DEF Init, Ordered
  <1>5. InHand
    BY DEF Init, InHand, Nothing
  <1>6. Indexed
    BY DEF Init, Indexed, VersionTellsText, Nothing, LastOf
  <1> QED BY <1>2, <1>3, <1>4, <1>5, <1>6 DEF Inv

-----------------------------------------------------------------------------
(* The administration of offers.                                            *)

(* The bound on changes bounds the version of every offer.                  *)
LEMMA VersionBounded ==
    ASSUME Shapes, NEW o \in Offers, Changes < MaxChanges
    PROVE  db[o].version + 1 \in Versions
  <1> DEFINE v == db[o].version
             all == {c \in Offers \X Versions : 1 < c[2] /\ c[2] <= db[c[1]].version}
             pair == [n \in 2 .. v |-> <<o, n>>]
  <1>1. v \in Versions /\ v \in Nat /\ MaxChanges \in Nat /\ v >= 1 /\ v <= MaxChanges + 1
    BY IndexerAssumption DEF Shapes, Versions
  <1>2. IsFiniteSet(all) /\ Cardinality(all) \in Nat
    <2>1. IsFiniteSet(Offers \X Versions)
      <3>1. 1 \in Int /\ MaxChanges + 1 \in Int
        BY IndexerAssumption
      <3>2. IsFiniteSet(1 .. MaxChanges + 1)
        BY <3>1, FS_Interval, Zenon
      <3> QED BY <3>2, IndexerAssumption, FS_Product DEF Versions
    <2> QED BY <2>1, FS_Subset, FS_CardinalityType
  <1>3. pair \in Injection(2 .. v, all)
    BY <1>1 DEF Injection, IsInjective, Versions
  <1>4. IsFiniteSet(2 .. v) /\ Cardinality(2 .. v) = IF 2 > v THEN 0 ELSE v - 2 + 1
    <2>1. 2 \in Int /\ v \in Int
      BY <1>1
    <2> QED BY <2>1, FS_Interval, Zenon
  <1>5. Cardinality(2 .. v) <= Cardinality(all)
    BY <1>2, <1>3, <1>4, FS_Injection DEF ExistsInjection
  <1>6. Cardinality(all) < MaxChanges
    BY DEF Changes
  <1>7. v - 1 < MaxChanges
    BY <1>1, <1>2, <1>4, <1>5, <1>6
  <1> QED BY <1>1, <1>7 DEF Versions

(* A new version of a row is newer than all that is told of it.             *)
LEMMA ChangeInv ==
    ASSUME Inv, NEW o \in Offers, NEW status \in Statuses, Change(o, status) PROVE Inv'
  <1>1. /\ UNCHANGED <<log, committed, position, pc, held, collection, index>>
        /\ Changes < MaxChanges
    BY DEF Change, qdrant
  <1>2. PICK v \in Versions : v = db[o].version + 1
    BY <1>1, VersionBounded DEF Inv
  <1>3. PICK r \in [version : Versions, status : Statuses] :
           r.version = v /\ r.status = status /\ db' = [db EXCEPT ![o] = r]
    <2>1. db' = [db EXCEPT ![o] = [version |-> v, status |-> status]]
      BY <1>2 DEF Change
    <2>2. [version |-> v, status |-> status] \in [version : Versions, status : Statuses]
      BY <1>2
    <2> QED BY <2>1, <2>2
  <1>4. PICK e \in Entry : /\ e.offer = o /\ e.version = v
                           /\ e.kind = IF status = "active" THEN "UPSERT" ELSE "DELETE"
                           /\ unsent' = Append(unsent, e)
    <2>1. [offer |-> o, kind |-> IF status = "active" THEN "UPSERT" ELSE "DELETE", version |-> v] \in Entry
      BY <1>2 DEF Entry
    <2>2. unsent' = Append(unsent, [offer |-> o, kind |-> IF status = "active" THEN "UPSERT" ELSE "DELETE",
                                    version |-> v])
      BY <1>2 DEF Change
    <2> QED BY <2>1, <2>2
  <1>5. /\ db' \in [Offers -> [version : Versions, status : Statuses]]
        /\ db'[o] = r /\ \A p \in Offers \ {o} : db'[p] = db[p]
    BY <1>3 DEF Inv, Shapes
  <1>6. /\ unsent' \in Seq(Entry) /\ Len(unsent') = Len(unsent) + 1 /\ Len(unsent) \in Nat
        /\ \A i \in 1 .. Len(unsent) : unsent'[i] = unsent[i]
        /\ unsent'[Len(unsent) + 1] = e
        /\ \A i \in 1 .. Len(unsent') : i \in 1 .. Len(unsent) \/ i = Len(unsent) + 1
    BY <1>4, Appended DEF Inv, Shapes
  <1>7. Shapes'
    BY <1>1, <1>5, <1>6 DEF Inv, Shapes
  <1>8. /\ db[o].version \in Nat /\ v = db[o].version + 1 /\ v \in Nat
        /\ \A d \in Event \cup Entry : d.offer \in Offers /\ d.version \in Nat
    BY <1>2, Typed DEF Inv, Shapes
  <1>9. ASSUME NEW d \in Event \cup Entry, Told(d) PROVE Told(d)' /\ InOrder(d, e)
    <2>1. CASE d.offer = o /\ d.kind # "bad"
      <3>1. d.version <= db[o].version /\ d.version \in Nat
        BY <1>8, <1>9, <2>1 DEF Told
      <3>2. d.version < v
        BY <1>8, <3>1
      <3>3. d.version <= v /\ d.version # v
        BY <1>8, <3>1, <3>2
      <3> QED BY <1>3, <1>4, <1>5, <2>1, <3>3 DEF Told, InOrder
    <2>2. CASE ~(d.offer = o /\ d.kind # "bad")
      <3>1. d.kind # "bad" => db'[d.offer] = db[d.offer]
        BY <1>5, <1>8, <2>2
      <3> QED BY <1>4, <1>9, <2>2, <3>1 DEF Told, InOrder
    <2> QED BY <2>1, <2>2
  <1>10. /\ \A i \in 1 .. Len(log) : log[i] \in Event /\ Told(log[i])
         /\ \A i \in 1 .. Len(unsent) : unsent[i] \in Entry /\ Told(unsent[i])
    BY ElementOf DEF Inv, Shapes, Ordered
  <1>11. Told(e)'
    <2>1. e.version <= db'[e.offer].version
      BY <1>3, <1>4, <1>5, <1>8
    <2> QED BY <1>3, <1>4, <1>5, <2>1 DEF Told
  <1>12. Ordered'
    <2>1. \A i \in 1 .. Len(log)' : Told(log[i])'
      BY <1>1, <1>9, <1>10
    <2>2. ASSUME NEW i \in 1 .. Len(unsent') PROVE Told(unsent[i])'
      <3>1. CASE i \in 1 .. Len(unsent)
        <4>1. Told(unsent[i]) /\ unsent[i] \in Entry /\ unsent'[i] = unsent[i]
          BY <1>6, <1>10, <3>1
        <4>2. PICK d \in Entry : d = unsent[i] /\ d = unsent'[i] /\ Told(d)
          BY <4>1
        <4>3. Told(d)'
          BY <1>9, <4>2
        <4> QED BY <4>2, <4>3 DEF Told
      <3>2. CASE i = Len(unsent) + 1
        BY <1>6, <1>11, <3>2 DEF Told
      <3> QED BY <1>6, <3>1, <3>2
    <2>3. \A i, j \in 1 .. Len(log)' : i < j => InOrder(log[i], log[j])'
      BY <1>1 DEF Inv, Ordered, InOrder
    <2>4. ASSUME NEW i \in 1 .. Len(unsent'), NEW j \in 1 .. Len(unsent'), i < j
          PROVE  InOrder(unsent'[i], unsent'[j])
      <3>1. i \in 1 .. Len(unsent)
        BY <1>6, <2>4
      <3>2. CASE j \in 1 .. Len(unsent)
        BY <1>6, <2>4, <3>1, <3>2 DEF Inv, Ordered
      <3>3. CASE j = Len(unsent) + 1
        BY <1>6, <1>9, <1>10, <3>1, <3>3
      <3> QED BY <1>6, <3>2, <3>3
    <2>5. ASSUME NEW i \in 1 .. Len(log), NEW j \in 1 .. Len(unsent')
          PROVE  InOrder(log[i], unsent'[j])
      <3>1. CASE j \in 1 .. Len(unsent)
        BY <1>6, <3>1 DEF Inv, Ordered
      <3>2. CASE j = Len(unsent) + 1
        BY <1>6, <1>9, <1>10, <3>2
      <3> QED BY <1>6, <3>1, <3>2
    <2> QED BY <1>1, <2>1, <2>2, <2>3, <2>4, <2>5 DEF Ordered, InOrder
  <1>13. Steps' /\ InHand'
    BY <1>1 DEF Inv, Steps, InHand, Current, Newer, Nothing, Honest, CameBare
  <1>14. Indexed'
    BY <1>1, IndexedSame DEF Inv
  <1> QED BY <1>7, <1>12, <1>13, <1>14 DEF Inv

(* The log grows by an event in its place; what the process has in hand is  *)
(* about the log it has read.                                               *)
LEMMA LogGrows ==
    ASSUME Inv, NEW e \in Event, log' = Append(log, e), Told(e),
           UNCHANGED <<db, committed, position, pc, held, collection, index>>,
           unsent' \in Seq(Entry),
           \A i \in 1 .. Len(unsent') : Told(unsent'[i]) /\ InOrder(e, unsent'[i]),
           \A i, j \in 1 .. Len(unsent') : i < j => InOrder(unsent'[i], unsent'[j]),
           \A i \in 1 .. Len(log) : /\ InOrder(log[i], e)
                                    /\ \A j \in 1 .. Len(unsent') : InOrder(log[i], unsent'[j])
    PROVE  Inv'
  <1>1. /\ log' \in Seq(Event) /\ Len(log') = Len(log) + 1 /\ Len(log) \in Nat
        /\ \A i \in 1 .. Len(log) : log'[i] = log[i]
        /\ log'[Len(log) + 1] = e
        /\ \A i \in 1 .. Len(log') : i \in 1 .. Len(log) \/ i = Len(log) + 1
    BY Appended DEF Inv, Shapes
  <1>2. committed \in Nat /\ position = committed /\ committed <= Len(log) /\ Len(log) <= Len(log')
        /\ Len(log') \in Nat
    BY <1>1 DEF Inv, Shapes
  <1>3. Shapes'
    BY <1>1, <1>2 DEF Inv, Shapes
  <1>4. Steps'
    <2>1. position < Len(log) => position' < Len(log')
      BY <1>1, <1>2
    <2> QED BY <2>1 DEF Inv, Steps, Nothing
  <1>5. Ordered'
    <2>1. ASSUME NEW i \in 1 .. Len(log') PROVE Told(log'[i])
      <3>1. CASE i \in 1 .. Len(log)
        BY <1>1, <3>1 DEF Inv, Ordered
      <3>2. CASE i = Len(log) + 1
        BY <1>1, <3>2
      <3> QED BY <1>1, <3>1, <3>2
    <2>2. ASSUME NEW i \in 1 .. Len(log'), NEW j \in 1 .. Len(log'), i < j
          PROVE  InOrder(log'[i], log'[j])
      <3>1. i \in 1 .. Len(log)
        BY <1>1, <2>2
      <3>2. CASE j \in 1 .. Len(log)
        BY <1>1, <2>2, <3>1, <3>2 DEF Inv, Ordered
      <3>3. CASE j = Len(log) + 1
        BY <1>1, <3>1, <3>3
      <3> QED BY <1>1, <3>2, <3>3
    <2>3. ASSUME NEW i \in 1 .. Len(log'), NEW j \in 1 .. Len(unsent')
          PROVE  InOrder(log'[i], unsent'[j])
      <3>1. CASE i \in 1 .. Len(log)
        BY <1>1, <3>1
      <3>2. CASE i = Len(log) + 1
        BY <1>1, <3>2
      <3> QED BY <1>1, <3>1, <3>2
    <2> QED BY <2>1, <2>2, <2>3 DEF Ordered, Told, InOrder
  <1>6. InHand'
    <2>1. ASSUME pc \in {"load", "handle", "commit"} PROVE Current' = Current
      <3>1. position + 1 \in 1 .. Len(log)
        BY <1>1, <1>2, <2>1 DEF Inv, Steps
      <3> QED BY <1>1, <3>1 DEF Current
    <2>2. \A i \in 1 .. committed : log'[i] = log[i]
      BY <1>1, <1>2
    <2>3. ASSUME NEW o \in Offers, held[o] # None PROVE Honest(o, held[o])'
      <3>1. PICK d : d = held[o] /\ Honest(o, d)
        BY <2>3 DEF Inv, InHand
      <3>2. Honest(o, d)'
        BY <1>1, <1>2, <3>1, HonestStays DEF Inv, Shapes
      <3> QED BY <3>1, <3>2 DEF Honest, CameBare
    <2> QED BY <2>1, <2>2, <2>3 DEF Inv, InHand, Newer
  <1>7. Indexed'
    BY <1>1, <1>2, StaysIndexed DEF Inv
  <1> QED BY <1>3, <1>4, <1>5, <1>6, <1>7 DEF Inv

LEMMA PublishInv == ASSUME Inv, NEW form \in Forms, Publish(form) PROVE Inv'
  <1>1. /\ unsent # <<>> /\ unsent' = Tail(unsent)
        /\ UNCHANGED <<db, committed, position, pc, held, collection, index>>
    BY DEF Publish, qdrant
  <1>2. /\ unsent' \in Seq(Entry) /\ Head(unsent) = unsent[1] /\ unsent[1] \in Entry
        /\ 1 \in 1 .. Len(unsent)
        /\ \A i \in 1 .. Len(unsent') : /\ unsent'[i] = unsent[i + 1]
                                        /\ i + 1 \in 1 .. Len(unsent) /\ 1 < i + 1
        /\ \A i, j \in 1 .. Len(unsent') : i < j => i + 1 < j + 1
    BY <1>1, Tailed DEF Inv, Shapes
  <1>3. PICK e \in Event : /\ log' = Append(log, e) /\ e.offer = unsent[1].offer
                           /\ e.kind = unsent[1].kind /\ e.version = unsent[1].version
    <2>1. [offer |-> unsent[1].offer, kind |-> unsent[1].kind, version |-> unsent[1].version,
           form |-> form] \in Event
      BY <1>2, Typed DEF Event
    <2>2. log' = Append(log, [offer |-> unsent[1].offer, kind |-> unsent[1].kind,
                              version |-> unsent[1].version, form |-> form])
      BY <1>2 DEF Publish
    <2> QED BY <2>1, <2>2
  <1>4. Told(e) /\ \A i \in 1 .. Len(log) : InOrder(log[i], e)
    <2>1. Told(unsent[1]) /\ \A i \in 1 .. Len(log) : InOrder(log[i], unsent[1])
      BY <1>2 DEF Inv, Ordered
    <2>2. Told(e)
      BY <1>3, <2>1 DEF Told
    <2> QED BY <1>3, <2>1, <2>2 DEF InOrder
  <1>5. ASSUME NEW i \in 1 .. Len(unsent')
        PROVE  /\ Told(unsent'[i]) /\ InOrder(e, unsent'[i])
               /\ \A j \in 1 .. Len(log) : InOrder(log[j], unsent'[i])
    <2>1. Told(unsent[i + 1]) /\ InOrder(unsent[1], unsent[i + 1])
      BY <1>2 DEF Inv, Ordered
    <2>2. \A j \in 1 .. Len(log) : InOrder(log[j], unsent[i + 1])
      BY <1>2 DEF Inv, Ordered
    <2> QED BY <1>2, <1>3, <2>1, <2>2 DEF InOrder
  <1>6. \A i, j \in 1 .. Len(unsent') : i < j => InOrder(unsent'[i], unsent'[j])
    BY <1>2 DEF Inv, Ordered
  <1> QED BY <1>1, <1>2, <1>3, <1>4, <1>5, <1>6, LogGrows

(* A repeated event is in its place after itself.                           *)
LEMMA RepublishInv == ASSUME Inv, Republish PROVE Inv'
  <1>1. /\ log # <<>> /\ log' = Append(log, log[Len(log)])
        /\ UNCHANGED <<db, unsent, committed, position, pc, held, collection, index>>
    BY DEF Republish, qdrant
  <1>2. Len(log) \in 1 .. Len(log) /\ log[Len(log)] \in Event /\ unsent' \in Seq(Entry)
    BY <1>1 DEF Inv, Shapes
  <1>3. ASSUME NEW i \in 1 .. Len(log) PROVE InOrder(log[i], log[Len(log)])
    <2>1. CASE i = Len(log)
      <3>1. log[i].version \in Nat
        BY <1>2, <2>1, Typed
      <3>2. log[i].version <= log[i].version
        BY <3>1
      <3> QED BY <2>1, <3>2 DEF InOrder
    <2>2. CASE i # Len(log)
      <3>1. i < Len(log)
        BY <1>2, <2>2
      <3> QED BY <1>2, <3>1 DEF Inv, Ordered
    <2> QED BY <2>1, <2>2
  <1>4. /\ Told(log[Len(log)])
        /\ \A i \in 1 .. Len(unsent) : Told(unsent[i]) /\ InOrder(log[Len(log)], unsent[i])
        /\ \A i, j \in 1 .. Len(unsent) : i < j => InOrder(unsent[i], unsent[j])
        /\ \A i \in 1 .. Len(log) : \A j \in 1 .. Len(unsent) : InOrder(log[i], unsent[j])
    BY <1>2 DEF Inv, Ordered
  <1> QED BY <1>1, <1>2, <1>3, <1>4, LogGrows

LEMMA PublishBadInv == ASSUME Inv, NEW o \in Offers, PublishBad(o) PROVE Inv'
  <1>1. UNCHANGED <<db, unsent, committed, position, pc, held, collection, index>>
    BY DEF PublishBad, qdrant
  <1>2. PICK e \in Event : log' = Append(log, e) /\ e.kind = "bad"
    <2>1. 1 \in Versions
      BY IndexerAssumption DEF Versions
    <2>2. [offer |-> o, kind |-> "bad", version |-> 1, form |-> "full"] \in Event
      BY <2>1 DEF Event, Forms
    <2>3. log' = Append(log, [offer |-> o, kind |-> "bad", version |-> 1, form |-> "full"])
      BY DEF PublishBad
    <2> QED BY <2>2, <2>3
  <1>3. /\ Told(e) /\ \A i \in 1 .. Len(log) : InOrder(log[i], e)
        /\ \A i \in 1 .. Len(unsent) : InOrder(e, unsent[i])
    BY <1>2 DEF Told, InOrder
  <1>4. /\ unsent \in Seq(Entry) /\ \A i \in 1 .. Len(unsent) : Told(unsent[i])
        /\ \A i, j \in 1 .. Len(unsent) : i < j => InOrder(unsent[i], unsent[j])
        /\ \A i \in 1 .. Len(log) : \A j \in 1 .. Len(unsent) : InOrder(log[i], unsent[j])
    BY DEF Inv, Shapes, Ordered
  <1> QED BY <1>1, <1>2, <1>3, <1>4, LogGrows

-----------------------------------------------------------------------------
(* The steps of the process that read.                                      *)

LEMMA ReadInv ==
    ASSUME Inv, UNCHANGED <<db, unsent, log, committed, position, index>>,
           pc' \in PCs, collection' \in BOOLEAN, held' \in [Offers -> Document \cup {None}],
           Steps', InHand'
    PROVE  Inv'
  <1>1. Shapes'
    BY DEF Inv, Shapes
  <1>2. Ordered' /\ Indexed'
    BY OrderedSame, IndexedSame DEF Inv
  <1> QED BY <1>1, <1>2 DEF Inv

LEMMA DieInv == ASSUME Inv, Die PROVE Inv'
  <1>1. /\ UNCHANGED <<db, unsent, log, committed, position, index, collection>>
        /\ pc' = "down" /\ held' = Nothing
    BY DEF Die, Exit, source, qdrant
  <1>2. pc' \in PCs /\ collection' \in BOOLEAN /\ held' \in [Offers -> Document \cup {None}]
    BY <1>1 DEF Inv, Shapes, PCs, Nothing
  <1>3. Steps' /\ InHand'
    BY <1>1 DEF Inv, Steps, InHand, Nothing
  <1> QED BY <1>1, <1>2, <1>3, ReadInv

LEMMA StartInv == ASSUME Inv, Start PROVE Inv'
  <1>1. /\ UNCHANGED <<db, unsent, log, committed, held, index, collection>>
        /\ pc = "down" /\ pc' = "ensure" /\ position' = committed
    BY DEF Start, source, qdrant
  <1>2. /\ pc' \in PCs /\ collection' \in BOOLEAN /\ held' \in [Offers -> Document \cup {None}]
        /\ position' = position
    BY <1>1 DEF Inv, Shapes, PCs
  <1>3. Steps' /\ InHand'
    BY <1>1 DEF Inv, Steps, InHand, Nothing
  <1> QED BY <1>1, <1>2, <1>3, ReadInv

LEMMA EnsureInv == ASSUME Inv, Ensure PROVE Inv'
  <1>1. /\ UNCHANGED <<db, unsent, log, committed, position, held, index>>
        /\ pc = "ensure" /\ pc' = "select" /\ collection' = TRUE
    BY DEF Ensure, source
  <1>2. pc' \in PCs /\ collection' \in BOOLEAN /\ held' \in [Offers -> Document \cup {None}]
    BY <1>1 DEF Inv, Shapes, PCs
  <1>3. Steps' /\ InHand'
    BY <1>1 DEF Inv, Steps, InHand, Nothing
  <1> QED BY <1>1, <1>2, <1>3, ReadInv

(* An active row is newer than any DELETE of its offer.                     *)
LEMMA SelectActiveInv == ASSUME Inv, SelectActive PROVE Inv'
  <1>1. /\ UNCHANGED <<db, unsent, log, committed, position, index, collection>>
        /\ pc = "select" /\ pc' = "reindex"
        /\ held' = [o \in Offers |-> IF db[o].status = "active" THEN Doc(db[o].version) ELSE None]
    BY DEF SelectActive, source, qdrant
  <1>2. \A o \in Offers : db[o].version \in Versions
    BY DEF Inv, Shapes
  <1>3. pc' \in PCs /\ collection' \in BOOLEAN /\ held' \in [Offers -> Document \cup {None}]
    BY <1>1, <1>2, Typed DEF Inv, Shapes, PCs
  <1>4. Steps'
    BY <1>1 DEF Inv, Steps
  <1>5. ASSUME NEW o \in Offers, held'[o] # None
        PROVE  /\ db[o].status = "active" /\ held'[o].version = db[o].version
               /\ held'[o].text = db[o].version /\ held'[o].category
    BY <1>1, <1>2, <1>5, Typed
  <1>6. ASSUME NEW o \in Offers, held'[o] # None, NEW i \in 1 .. committed, log[i].offer = o
        PROVE  Newer(held'[o], log[i])
    <2>1. i \in 1 .. Len(log)
      BY DEF Inv, Shapes
    <2>2. Told(log[i]) /\ log[i].version \in Nat
      BY <2>1, ElementOf, Typed DEF Inv, Shapes, Ordered
    <2>3. db[o].version \in Nat
      BY <1>2, Typed
    <2>4. ASSUME log[i].kind = "DELETE" PROVE log[i].version # db[o].version
      BY <1>5, <1>6, <2>2, <2>4 DEF Told
    <2>5. ASSUME log[i].kind # "bad" PROVE log[i].version <= held'[o].version
      BY <1>5, <1>6, <2>2, <2>5 DEF Told
    <2>6. ASSUME log[i].kind = "DELETE" PROVE log[i].version < held'[o].version
      <3>1. log[i].version <= held'[o].version /\ log[i].version # held'[o].version
        BY <1>5, <1>6, <2>4, <2>5, <2>6
      <3> QED BY <1>5, <1>6, <2>2, <2>3, <3>1
    <2> QED BY <2>5, <2>6 DEF Newer
  <1>7. InHand'
    <2>1. \A o \in Offers : held'[o] # None => Honest(o, held[o])'
      BY <1>5 DEF Honest
    <2>2. \A o \in Offers : held'[o] # None =>
             \A i \in 1 .. committed' : log'[i].offer = o => Newer(held[o], log[i])'
      BY <1>1, <1>6 DEF Newer
    <2> QED BY <1>1, <2>1, <2>2 DEF InHand
  <1> QED BY <1>1, <1>3, <1>4, <1>7, ReadInv

(* An event that is taken without its category is the one that came so.     *)
LEMMA FetchInv == ASSUME Inv, Fetch PROVE Inv'
  <1>1. /\ UNCHANGED <<db, unsent, log, committed, position, index, collection>>
        /\ pc = "fetch" /\ position < Len(log)
        /\ pc' = IF Current.kind = "UPSERT" /\ Current.form = "thin" THEN "load" ELSE "handle"
        /\ held' = IF Current.kind = "UPSERT" /\ Current.form # "thin"
                   THEN [Nothing EXCEPT ![Current.offer] =
                            [Doc(Current.version) EXCEPT !.category = Current.form = "full"]]
                   ELSE Nothing
    BY DEF Fetch, source, qdrant
  <1>2. position + 1 \in 1 .. Len(log) /\ Current \in Event
    <2>1. position + 1 \in 1 .. Len(log)
      BY <1>1 DEF Inv, Shapes
    <2> QED BY <2>1, ElementOf DEF Inv, Shapes, Current
  <1>3. /\ Current.offer \in Offers /\ Current.version \in Versions /\ Current.version \in Nat
        /\ Current.form \in Forms
    BY <1>2, Typed DEF Event
  <1>4. PICK d \in Document :
           /\ d = [Doc(Current.version) EXCEPT !.category = Current.form = "full"]
           /\ d.text = Current.version /\ d.version = Current.version
           /\ d.category = (Current.form = "full") /\ d # None
    <2>1. [Doc(Current.version) EXCEPT !.category = Current.form = "full"]
             = [text |-> Current.version, version |-> Current.version, category |-> Current.form = "full"]
      BY DEF Doc
    <2>2. [text |-> Current.version, version |-> Current.version, category |-> Current.form = "full"]
             \in Document
      BY <1>3 DEF Document
    <2> QED BY <2>1, <2>2, Typed
  <1>5. /\ held' \in [Offers -> Document \cup {None}]
        /\ \A o \in Offers : held'[o] \in {d, None} /\ (o # Current.offer => held'[o] = None)
        /\ held'[Current.offer] = IF Current.kind = "UPSERT" /\ Current.form # "thin" THEN d ELSE None
        /\ ~(Current.kind = "UPSERT" /\ Current.form # "thin") => held' = Nothing
    BY <1>1, <1>3, <1>4 DEF Nothing
  <1>6. pc' \in PCs /\ collection' \in BOOLEAN /\ Current' = Current
    BY <1>1 DEF Inv, Shapes, PCs, Current
  <1>7. Steps'
    BY <1>1, <1>5 DEF Inv, Steps, Nothing
  <1>8. InHand'
    <2>1. d.version >= Current.version
      BY <1>3, <1>4
    <2>2. ASSUME NEW o \in Offers, held'[o] # None PROVE Honest(o, held[o])'
      <3>1. o = Current.offer /\ held'[o] = d /\ Current.kind = "UPSERT" /\ Current.form # "thin"
        BY <1>5, <2>2
      <3>2. CASE Current.form = "full"
        BY <1>4, <3>1, <3>2 DEF Honest
      <3>3. CASE Current.form = "bare"
        <4>1. position + 1 \in DOMAIN log /\ log' = log
          BY <1>1, <1>2 DEF Inv, Shapes
        <4>2. CameBare(o, d.version)
          BY <1>4, <3>1, <3>3, <4>1 DEF CameBare, Current
        <4> QED BY <1>4, <3>1, <4>1, <4>2 DEF Honest, CameBare
      <3> QED BY <1>3, <3>1, <3>2, <3>3 DEF Forms
    <2> QED BY <1>1, <1>4, <1>5, <1>6, <2>1, <2>2 DEF InHand
  <1> QED BY <1>1, <1>5, <1>6, <1>7, <1>8, ReadInv

(* The row a text-less event is completed with is at least as new as it.    *)
LEMMA LoadOfferInv == ASSUME Inv, LoadOffer PROVE Inv'
  <1>1. /\ UNCHANGED <<db, unsent, log, committed, position, index, collection>>
        /\ pc = "load" /\ Current.kind = "UPSERT"
    BY DEF LoadOffer, source, qdrant, Inv, InHand
  <1>2. CASE Exit
    <2>1. pc' \in PCs /\ collection' \in BOOLEAN /\ held' \in [Offers -> Document \cup {None}]
      BY <1>1, <1>2 DEF Inv, Shapes, PCs, Nothing, Exit
    <2>2. Steps' /\ InHand'
      BY <1>1, <1>2 DEF Inv, Steps, InHand, Nothing, Exit
    <2> QED BY <1>1, <2>1, <2>2, ReadInv
  <1>3. CASE /\ pc' = "handle"
             /\ held' = [Nothing EXCEPT ![Current.offer] =
                   [Doc(db[Current.offer].version) EXCEPT !.version = Larger(@, Current.version)]]
    <2>1. Current \in Event /\ Told(Current)
      <3>1. position + 1 \in 1 .. Len(log)
        BY <1>1 DEF Inv, Shapes, Steps
      <3> QED BY <3>1, ElementOf DEF Inv, Shapes, Ordered, Current
    <2>2. /\ Current.offer \in Offers /\ Current.version \in Nat
          /\ db[Current.offer].version \in Versions
      BY <2>1, Typed DEF Inv, Shapes
    <2>3. PICK v \in Versions : v = db[Current.offer].version /\ v \in Nat /\ Current.version <= v
      BY <1>1, <2>1, <2>2, Typed DEF Told
    <2>4. Larger(v, Current.version) = v
      BY <2>2, <2>3 DEF Larger
    <2>5. PICK d \in Document : /\ d = [Doc(v) EXCEPT !.version = Larger(@, Current.version)]
                                /\ d.text = v /\ d.version = v /\ d.category /\ d # None
      <3>1. PICK c \in Document : c = Doc(v) /\ c.text = v /\ c.version = v /\ c.category
        BY Typed
      <3>2. /\ [c EXCEPT !.version = v] \in Document
            /\ [c EXCEPT !.version = v].text = v /\ [c EXCEPT !.version = v].version = v
        BY <3>1 DEF Document
      <3>3. [c EXCEPT !.version = v].category
        BY <3>1, Zenon DEF Document
      <3>4. [c EXCEPT !.version = v] # None
        BY <3>2, Typed
      <3> QED BY <2>4, <3>1, <3>2, <3>3, <3>4
    <2>6. held' = [Nothing EXCEPT ![Current.offer] = d]
      BY <1>3, <2>3, <2>5
    <2>7. /\ held' \in [Offers -> Document \cup {None}] /\ held'[Current.offer] = d
          /\ \A o \in Offers : o # Current.offer => held'[o] = None
      BY <2>2, <2>6 DEF Nothing
    <2>8. pc' \in PCs /\ collection' \in BOOLEAN /\ Current' = Current
      BY <1>1, <1>3 DEF Inv, Shapes, PCs, Current
    <2>9. Steps'
      BY <1>1, <1>3 DEF Inv, Steps, Nothing
    <2>10. InHand'
      <3>1. d.version >= Current.version
        BY <2>2, <2>3, <2>5
      <3>2. \A o \in Offers : held'[o] # None => Honest(o, held[o])'
        BY <2>5, <2>7 DEF Honest
      <3> QED BY <1>1, <1>3, <2>5, <2>7, <2>8, <3>1, <3>2 DEF InHand
    <2> QED BY <1>1, <2>7, <2>8, <2>9, <2>10, ReadInv
  <1> QED BY <1>2, <1>3 DEF LoadOffer

-----------------------------------------------------------------------------
(* The steps of the process that write to Qdrant.                           *)

(* What a write leaves in Qdrant for the event in hand.                     *)
Applied ==
    /\ Current.kind # "bad"
    /\ IF Current.kind = "UPSERT"
       THEN index[Current.offer] # None /\ index[Current.offer].version >= Current.version
       ELSE index[Current.offer] = None

LEMMA WriteInv ==
    ASSUME Inv, UNCHANGED <<db, unsent, log, committed, position, collection>>,
           pc \notin {"down", "ensure"}, held' = Nothing, pc' \in {"fetch", "commit", "down"},
           index' \in [Offers -> Document \cup {None}], VersionTellsText',
           \A o \in Offers : \A i \in LastOf(o, committed) : IsIndexed(o, i)',
           pc' = "commit" => Applied' /\ position < Len(log)
    PROVE  Inv'
  <1>1. Shapes'
    BY DEF Inv, Shapes, PCs, Nothing
  <1>2. Steps'
    BY DEF Inv, Steps
  <1>3. Ordered'
    BY OrderedSame DEF Inv
  <1>4. InHand'
    BY DEF InHand, Nothing, Applied
  <1>5. Indexed'
    <2>1. \A i \in 1 .. committed' : log'[i].kind # "bad"
      BY DEF Inv, Indexed
    <2>2. \A o \in Offers : LastOf(o, committed)' = LastOf(o, committed)
      BY LastSame DEF Inv
    <2> QED BY <2>1, <2>2 DEF Indexed
  <1> QED BY <1>1, <1>2, <1>3, <1>4, <1>5 DEF Inv

LEMMA LastIsCommitted ==
    ASSUME Shapes, NEW o \in Offers, NEW i \in LastOf(o, committed)
    PROVE  /\ i \in 1 .. committed /\ i \in 1 .. Len(log) /\ log[i] \in Event
           /\ log[i].offer = o /\ log[i].kind \in {"UPSERT", "DELETE"} /\ log[i].version \in Nat
  <1>1. i \in 1 .. committed /\ log[i].offer = o /\ log[i].kind # "bad"
    BY DEF LastOf
  <1>2. i \in 1 .. Len(log)
    BY <1>1 DEF Shapes
  <1>3. log[i] \in Event
    BY <1>2, ElementOf DEF Shapes
  <1> QED BY <1>1, <1>2, <1>3, Typed

(* A newer document keeps what the index tells of an event.                 *)
LEMMA NewerIsIndexed ==
    ASSUME Inv, NEW o \in Offers, NEW i \in LastOf(o, committed), log' = log,
           index'[o] # None, index'[o] \in Document, Newer(index'[o], log[i])
    PROVE  IsIndexed(o, i)'
  <1>1. log[i].kind \in {"UPSERT", "DELETE"} /\ log[i].version \in Nat
    BY LastIsCommitted DEF Inv
  <1>2. index'[o].version \in Nat
    BY Typed
  <1>3. PICK v \in Nat, w \in Nat : v = index'[o].version /\ w = log[i].version
    BY <1>1, <1>2
  <1>4. w <= v /\ (log[i].kind = "DELETE" => w < v)
    BY <1>1, <1>3 DEF Newer
  <1>5. v >= w /\ (log[i].kind = "DELETE" => v > w)
    BY <1>3, <1>4
  <1> QED BY <1>1, <1>3, <1>5 DEF IsIndexed

(* A point that is not written.                                             *)
LEMMA SameIsIndexed ==
    ASSUME Inv, NEW o \in Offers, NEW i \in LastOf(o, committed),
           UNCHANGED <<log, committed>>, index'[o] = index[o]
    PROVE  IsIndexed(o, i)'
  BY DEF Inv, Indexed, IsIndexed, Deleted

LEMMA ReindexInv == ASSUME Inv, Reindex PROVE Inv'
  <1>1. /\ UNCHANGED <<db, unsent, log, committed, position, collection>>
        /\ pc = "reindex" /\ pc' = "fetch" /\ held' = Nothing
        /\ index' = [o \in Offers |-> IF held[o] = None THEN index[o] ELSE held[o]]
    BY DEF Reindex, source, Upsert
  <1>2. index' \in [Offers -> Document \cup {None}] /\ VersionTellsText'
    BY <1>1 DEF Inv, Shapes, InHand, Indexed, VersionTellsText, Honest, CameBare
  <1>3. ASSUME NEW o \in Offers, NEW i \in LastOf(o, committed) PROVE IsIndexed(o, i)'
    <2>1. CASE held[o] = None
      BY <1>1, <2>1, SameIsIndexed
    <2>2. CASE held[o] # None
      <3>1. index'[o] = held[o] /\ held[o] \in Document
        BY <1>1, <2>2 DEF Inv, Shapes
      <3>2. Newer(held[o], log[i])
        BY <1>1, <2>2, LastIsCommitted DEF Inv, InHand
      <3> QED BY <1>1, <2>2, <3>1, <3>2, NewerIsIndexed
    <2> QED BY <2>1, <2>2
  <1> QED BY <1>1, <1>2, <1>3, WriteInv

(* The write of an event: it is in its place after the committed ones.      *)
LEMMA EventWritten ==
    ASSUME Inv, pc = "handle", UNCHANGED <<log, committed, position>>,
           \/ Current.kind = "UPSERT" /\ Upsert(held)
           \/ Current.kind = "DELETE" /\ index' = [index EXCEPT ![Current.offer] = None]
    PROVE  /\ index' \in [Offers -> Document \cup {None}] /\ VersionTellsText'
           /\ \A o \in Offers : \A i \in LastOf(o, committed) : IsIndexed(o, i)'
           /\ Applied' /\ position < Len(log)
  <1>1. position < Len(log) /\ position + 1 \in 1 .. Len(log) /\ committed + 1 \in committed + 1 .. Len(log)
        /\ position = committed
    BY DEF Inv, Shapes, Steps
  <1>2. PICK e \in Event : e = Current /\ e = log[position + 1]
    BY <1>1, ElementOf DEF Inv, Shapes, Current
  <1>3. e.offer \in Offers /\ e.version \in Nat /\ Current' = e
    BY <1>2, Typed DEF Current
  <1>4. ASSUME NEW o \in Offers, o = e.offer, NEW i \in LastOf(o, committed)
        PROVE  InOrder(log[i], e)
    <2>1. i \in 1 .. Len(log) /\ i < position + 1
      BY <1>1, LastIsCommitted DEF Inv, Shapes
    <2> QED BY <1>1, <1>2, <2>1 DEF Inv, Ordered
  <1>5. CASE e.kind = "UPSERT"
    <2>1. index' = [o \in Offers |-> IF held[o] = None THEN index[o] ELSE held[o]]
      BY <1>2, <1>5 DEF Upsert
    <2>2. /\ \A o \in Offers : o # e.offer => held[o] = None
          /\ held[e.offer] # None /\ held[e.offer].version >= e.version
      BY <1>2, <1>5 DEF Inv, InHand
    <2>3. index' \in [Offers -> Document \cup {None}] /\ VersionTellsText'
      BY <2>1 DEF Inv, Shapes, InHand, Indexed, VersionTellsText, Honest, CameBare
    <2>4. Applied'
      BY <1>3, <1>5, <2>1, <2>2 DEF Applied
    <2>5. ASSUME NEW o \in Offers, NEW i \in LastOf(o, committed) PROVE IsIndexed(o, i)'
      <3>1. CASE o # e.offer
        BY <2>1, <2>2, <3>1, SameIsIndexed
      <3>2. CASE o = e.offer
        <4>1. index'[o] # None /\ index'[o] \in Document /\ index'[o].version >= e.version
          BY <2>1, <2>2, <3>2 DEF Inv, Shapes
        <4>2. log[i].offer = o /\ log[i].kind \in {"UPSERT", "DELETE"} /\ log[i].version \in Nat
          BY LastIsCommitted DEF Inv
        <4>3. log[i].version <= e.version /\ (log[i].kind = "DELETE" => log[i].version # e.version)
          BY <1>4, <1>5, <3>2, <4>2 DEF InOrder
        <4>4. PICK v \in Nat, w \in Nat : v = index'[o].version /\ w = log[i].version
          BY <4>1, <4>2, Typed
        <4>5. w <= v /\ (log[i].kind = "DELETE" => w < v)
          BY <1>3, <4>1, <4>3, <4>4
        <4>6. Newer(index'[o], log[i])
          BY <4>4, <4>5 DEF Newer
        <4> QED BY <4>1, <4>6, NewerIsIndexed
      <3> QED BY <3>1, <3>2
    <2> QED BY <1>1, <2>3, <2>4, <2>5
  <1>6. CASE e.kind = "DELETE"
    <2>1. index' = [index EXCEPT ![e.offer] = None]
      BY <1>2, <1>6
    <2>2. index' \in [Offers -> Document \cup {None}] /\ VersionTellsText' /\ index'[e.offer] = None
      BY <1>3, <2>1 DEF Inv, Shapes, Indexed, VersionTellsText, CameBare
    <2>3. Applied'
      BY <1>3, <1>6, <2>2 DEF Applied
    <2>4. ASSUME NEW o \in Offers, NEW i \in LastOf(o, committed) PROVE IsIndexed(o, i)'
      <3>1. CASE o # e.offer
        <4>1. index'[o] = index[o]
          BY <2>1, <3>1 DEF Inv, Shapes
        <4> QED BY <4>1, SameIsIndexed
      <3>2. CASE o = e.offer
        <4>1. Deleted(o, committed)'
          BY <1>1, <1>2, <1>6, <3>2 DEF Deleted
        <4> QED BY <2>2, <3>2, <4>1 DEF IsIndexed
      <3> QED BY <3>1, <3>2
    <2> QED BY <1>1, <2>2, <2>3, <2>4
  <1> QED BY <1>2, <1>5, <1>6

LEMMA HandleInv == ASSUME Inv, Handle PROVE Inv'
  <1>1. /\ UNCHANGED <<db, unsent, log, committed, position, collection>>
        /\ pc = "handle" /\ held' = Nothing
    BY DEF Handle, source
  <1>2. CASE \/ Current.kind = "UPSERT" /\ Upsert(held) /\ pc' = "commit"
             \/ /\ Current.kind = "DELETE" /\ index' = [index EXCEPT ![Current.offer] = None]
                /\ pc' = "commit"
    BY <1>1, <1>2, EventWritten, WriteInv
  <1>3. CASE Current.kind = "bad" /\ pc' = "down" /\ UNCHANGED index
    <2>1. pc' \in PCs /\ collection' \in BOOLEAN /\ held' \in [Offers -> Document \cup {None}]
      BY <1>1, <1>3 DEF Inv, Shapes, PCs, Nothing
    <2>2. Steps' /\ InHand'
      BY <1>1, <1>3 DEF Inv, Steps, InHand, Nothing
    <2> QED BY <1>1, <1>3, <2>1, <2>2, ReadInv
  <1> QED BY <1>2, <1>3 DEF Handle

LEMMA HandleUnansweredInv == ASSUME Inv, HandleUnanswered PROVE Inv'
  <1>1. /\ UNCHANGED <<db, unsent, log, committed, position, collection>>
        /\ pc = "handle" /\ held' = Nothing /\ pc' = "down"
        /\ \/ Current.kind = "UPSERT" /\ Upsert(held)
           \/ Current.kind = "DELETE" /\ index' = [index EXCEPT ![Current.offer] = None]
    BY DEF HandleUnanswered, Exit, source
  <1> QED BY <1>1, EventWritten, WriteInv

-----------------------------------------------------------------------------
(* The committed event becomes the last of its offer; of another offer the  *)
(* last one and what is still to come stay the same.                        *)
LEMMA CommitInv == ASSUME Inv, Commit PROVE Inv'
  <1>1. /\ UNCHANGED <<db, unsent, log, held, index, collection>>
        /\ pc = "commit" /\ pc' = "fetch"
        /\ committed' = position + 1 /\ position' = position + 1
    BY DEF Commit, source, qdrant
  <1>2. /\ position = committed /\ committed \in Nat /\ Len(log) \in Nat /\ committed < Len(log)
        /\ committed + 1 \in 1 .. Len(log)
    BY <1>1 DEF Inv, Shapes, Steps
  <1>3. PICK e \in Event : e = Current /\ e = log[committed + 1]
    BY <1>2, ElementOf DEF Inv, Shapes, Current
  <1>4. /\ e.kind # "bad" /\ e.offer \in Offers /\ e.kind \in {"UPSERT", "DELETE"}
        /\ IF e.kind = "UPSERT" THEN index[e.offer] # None /\ index[e.offer].version >= e.version
           ELSE index[e.offer] = None
    BY <1>1, <1>3, Typed DEF Inv, InHand
  <1>5. Shapes'
    <2>1. committed' \in Nat /\ committed' <= Len(log') /\ position' = committed'
      BY <1>1, <1>2
    <2> QED BY <1>1, <2>1 DEF Inv, Shapes, PCs
  <1>6. Steps' /\ Ordered'
    BY <1>1, OrderedSame DEF Inv, Steps, Nothing
  <1>7. InHand'
    BY <1>1 DEF Inv, Steps, InHand, Nothing
  <1>8. Indexed'
    <2>1. \A i \in 1 .. committed' : i \in 1 .. committed \/ i = committed + 1
      BY <1>1, <1>2
    <2>2. VersionTellsText' /\ \A i \in 1 .. committed' : log'[i].kind # "bad"
      BY <1>1, <1>3, <1>4, <2>1 DEF Inv, Indexed, VersionTellsText, CameBare
    <2>3. ASSUME NEW o \in Offers, NEW i \in LastOf(o, committed)' PROVE IsIndexed(o, i)'
      <3>1. /\ i \in 1 .. committed + 1 /\ log[i].offer = o /\ log[i].kind # "bad"
            /\ \A j \in i + 1 .. committed + 1 : log[j].offer = o => log[j].kind = "bad"
        BY <1>1, <1>2, <2>3 DEF LastOf
      <3>2. CASE i = committed + 1
        BY <1>1, <1>3, <1>4, <3>1, <3>2 DEF IsIndexed
      <3>3. CASE i # committed + 1
        <4>1. /\ i \in 1 .. committed /\ committed + 1 \in i + 1 .. committed + 1
              /\ \A j \in i + 1 .. committed : j \in i + 1 .. committed + 1
          BY <1>2, <3>1, <3>3
        <4>2. e.offer # o
          BY <1>3, <1>4, <3>1, <4>1
        <4>3. i \in LastOf(o, committed)
          BY <3>1, <4>1 DEF LastOf
        <4>4. IsIndexed(o, i)
          BY <4>3 DEF Inv, Indexed
        <4>5. ASSUME Deleted(o, committed) PROVE Deleted(o, committed)'
          <5>1. PICK k \in committed + 1 .. Len(log) : log[k].offer = o /\ log[k].kind = "DELETE"
            BY <4>5 DEF Deleted
          <5>2. k # committed + 1
            BY <1>3, <4>2, <5>1
          <5>3. k \in committed + 1 + 1 .. Len(log)
            BY <1>2, <5>1, <5>2
          <5> QED BY <1>1, <1>2, <5>1, <5>3 DEF Deleted
        <4> QED BY <1>1, <4>4, <4>5 DEF IsIndexed
      <3> QED BY <3>2, <3>3
    <2> QED BY <2>2, <2>3 DEF Indexed
  <1> QED BY <1>5, <1>6, <1>7, <1>8 DEF Inv

LEMMA NextInv == Inv /\ [Next]_vars => Inv'
  <1> SUFFICES ASSUME Inv, [Next]_vars PROVE Inv'
    OBVIOUS
  <1>1. CASE UNCHANGED vars
    <2>1. UNCHANGED <<db, unsent, log, committed, position, pc, held, collection, index>>
      BY <1>1 DEF vars, source, qdrant
    <2>2. /\ pc' \in PCs /\ collection' \in BOOLEAN /\ held' \in [Offers -> Document \cup {None}]
          /\ Current' = Current
      BY <2>1 DEF Inv, Shapes, Current
    <2>3. Steps' /\ InHand'
      BY <2>1, <2>2 DEF Inv, Steps, InHand, Nothing, Newer, Honest, CameBare
    <2> QED BY <2>1, <2>2, <2>3, ReadInv
  <1>2. CASE Next
    <2>1. CASE \E o \in Offers : (\E status \in Statuses : Change(o, status)) \/ PublishBad(o)
      BY <2>1, ChangeInv, PublishBadInv
    <2>2. CASE (\E form \in Forms : Publish(form)) \/ Republish
      BY <2>2, PublishInv, RepublishInv
    <2>3. CASE Process
      BY <2>3, StartInv, EnsureInv, SelectActiveInv, ReindexInv, FetchInv, LoadOfferInv,
         HandleInv, CommitInv DEF Process
    <2>4. CASE Die \/ HandleUnanswered
      BY <2>4, DieInv, HandleUnansweredInv
    <2> QED BY <1>2, <2>1, <2>2, <2>3, <2>4 DEF Next
  <1> QED BY <1>1, <1>2

(* Every event the indexer has committed, of any offers and any number of   *)
(* changes, is in Qdrant, at every step of the process: no crash, lost      *)
(* answer, repeated event or rewriting of the index by a start              *)
(* (reindexActiveOffers) undoes it, and no rejected event is committed.     *)
(* Every point tells the version of its text; it has the category too, if   *)
(* no event of that version came without one.                               *)
THEOREM CommittedEventsAreIndexed == Spec => []CommittedIsIndexed
  <1>1. Inv => CommittedIsIndexed
    <2> SUFFICES ASSUME Inv PROVE CommittedIsIndexed
      OBVIOUS
    <2>1. TypeOK
      <3>1. \A i \in DOMAIN log : log[i] \in Event
        BY DEF Inv, Shapes
      <3>2. committed \in 0 .. position /\ position \in 0 .. Len(log)
        BY DEF Inv, Shapes
      <3> QED BY <3>1, <3>2 DEF Inv, Shapes, Steps, TypeOK, PCs
    <2> QED BY <2>1 DEF Inv, Indexed, IsIndexed, CommittedIsIndexed
  <1> QED BY <1>1, InitInv, NextInv, PTL DEF Spec
=============================================================================

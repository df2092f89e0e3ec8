---------------------------- MODULE FeedbackProofs ----------------------------
(***************************************************************************)
(* For any number of handlers, recommendations, offers and categories: the  *)
(* feedback of a rider is counted and told once, and the deadlocks the two  *)
(* lock orders allow are between a redemption and an event.                 *)
(*                                                                          *)
(* The counts rest on what an open transaction has claimed: the inductive   *)
(* invariant says that no other holds its event or the users row of its     *)
(* redemption, and that what it will commit has not been committed.         *)
(***************************************************************************)
EXTENDS Feedback, FiniteSetTheorems, WellFoundedInduction, TLAPS

(* What a handler has in hand at each statement.                            *)
Stages ==
    \A p \in Procs :
        /\ pc[p] \in {"idle", "lookup", "lockUser"} => ev[p] = None
        /\ pc[p] = "lookup" => req[p] \in Requests
        /\ pc[p] = "lockUser" => req[p] \in Redeems
        /\ pc[p] \in {"claim", "share"} => ev[p] \in EventIds
        /\ pc[p] \in {"weights", "commit"} => ev[p] \in EventIds \cup Redeems

(* The users row is locked by redemptions, and shared by events.            *)
UserRow ==
    /\ userLock # None => ev[userLock] \in Redeems
    /\ \A p \in Procs : ev[p] \in Redeems => userLock = p
    /\ \A p \in shares : pc[p] = "commit" /\ ev[p] \in EventIds

(* What an open transaction will commit is not committed, nor held by       *)
(* another.                                                                 *)
Claims ==
    /\ \A p \in Procs, e \in EventIds :
          Holds(p, e) => e \notin processed /\ \A x \in Procs : Holds(x, e) => x = p
    /\ \A p \in Procs : ev[p] \in Redeems => ev[p].offer \notin redeemed

Counted ==
    /\ IsFiniteSet(processed) /\ IsFiniteSet(redeemed)
    /\ \A e \in EventIds : outbox[e] = IF e \in processed THEN 1 ELSE 0
    /\ \A c \in Categories :
          IF weights[c] = None THEN \A k \in Signals : Count(k, c) = 0
          ELSE weights[c].counts = [k \in Signals |-> Count(k, c)] /\ SumsSignals(weights[c])

Order == TypeOK /\ Stages /\ UserRow

Inv == Order /\ Claims /\ Counted

(* The types of the tables, a part of TypeOK.                               *)
Tables ==
    /\ processed \subseteq EventIds
    /\ weights \in [Categories -> PreferenceRows \cup {None}]
    /\ dismissals \subseteq Recs \X Offers
    /\ outbox \in [EventIds -> Nat]
    /\ redeemed \subseteq Offers

LEMMA Kinded ==
    /\ \A e \in EventIds : e.kind \in Kinds /\ e.rec \in Recs /\ e.offer \in Offers
    /\ \A e \in Redeems : e.kind = "redeemed" /\ e.offer \in Offers
    /\ \A e \in EventIds : e \notin Redeems /\ e # None
    /\ \A e \in Redeems : e \notin EventIds /\ e # None
    /\ \A q \in Requests : q.kind \in Kinds /\ q.rec \in Recs /\ q.kind # "redeemed"
    /\ \A p \in Procs : p # None
  BY FeedbackAssumption DEF EventIds, Redeems, Requests, Kinds

LEMMA ElementOf == ASSUME NEW S, NEW s \in Seq(S), NEW i \in DOMAIN s PROVE s[i] \in S
  OBVIOUS

(* A recommendation has a first eligible candidate.                         *)
LEMMA PrimaryIsOffer ==
    ASSUME NEW r \in Recs
    PROVE  Primary(r) \in Offers /\ IsEligible(r, Primary(r))
  <1> DEFINE good == {i \in DOMAIN Candidates[r] : Candidates[r][i].eligible}
             First(i) == /\ Candidates[r][i].eligible
                         /\ \A k \in 1..(i-1) : ~Candidates[r][k].eligible
  <1>1. Candidates[r] \in Seq([offer : Offers, eligible : BOOLEAN, titled : BOOLEAN])
    BY FeedbackAssumption
  <1>2. good # {} /\ good \subseteq Nat /\ DOMAIN Candidates[r] = 1..Len(Candidates[r])
    <2>1. PICK o \in Offers : IsEligible(r, o)
      BY FeedbackAssumption
    <2> QED BY <1>1, <2>1 DEF IsEligible
  <1>3. PICK i \in good : \A j \in good : <<j, i>> \notin OpToRel(<, Nat)
    BY <1>2, WFMin, NatLessThanWellFounded
  <1>4. \A j \in good : ~(j < i)
    BY <1>2, <1>3 DEF OpToRel
  <1>5. i \in DOMAIN Candidates[r] /\ First(i)
    <2>1. i \in 1..Len(Candidates[r]) /\ Len(Candidates[r]) \in Nat
      BY <1>1, <1>2
    <2>2. \A k \in 1..(i-1) : k \in DOMAIN Candidates[r] /\ k < i
      BY <1>2, <2>1
    <2> QED BY <1>2, <1>4, <2>2
  <1>6. PICK f \in DOMAIN Candidates[r] :
           First(f) /\ f = CHOOSE n \in DOMAIN Candidates[r] : First(n)
    BY <1>5
  <1>7. Primary(r) = Candidates[r][f].offer
    BY <1>6 DEF Primary
  <1>8. Candidates[r][f] \in [offer : Offers, eligible : BOOLEAN, titled : BOOLEAN]
    BY <1>1, <1>6, ElementOf, Zenon
  <1> QED BY <1>6, <1>7, <1>8 DEF IsEligible

(* Only an offer of a candidate is eligible.                                *)
LEMMA EligibleIsOffer ==
    ASSUME NEW r \in Recs, NEW o, IsEligible(r, o)
    PROVE  o \in Offers
  <1>1. Candidates[r] \in Seq([offer : Offers, eligible : BOOLEAN, titled : BOOLEAN])
    BY FeedbackAssumption
  <1>2. PICK i \in DOMAIN Candidates[r] : Candidates[r][i].offer = o
    BY DEF IsEligible
  <1>3. Candidates[r][i] \in [offer : Offers, eligible : BOOLEAN, titled : BOOLEAN]
    BY <1>1, <1>2, ElementOf, Zenon
  <1> QED BY <1>2, <1>3

-----------------------------------------------------------------------------
(* Locks and stages.                                                        *)

LEMMA InitOrder == Init => Order
  <1> SUFFICES ASSUME Init PROVE Order
    OBVIOUS
  <1>1. TypeOK
    BY EarlierAssumption DEF Init, TypeOK
  <1>2. Stages /\ UserRow
    BY Kinded DEF Init, Stages, UserRow
  <1> QED BY <1>1, <1>2 DEF Order

(* The end of a transaction releases all it has.                            *)
LEMMA EndOrder ==
    ASSUME Order, NEW p \in Procs, End(p), Tables'
    PROVE  Order'
  <1>1. /\ weightLock' = [c \in Categories |-> IF weightLock[c] = p THEN None ELSE weightLock[c]]
        /\ userLock' = IF userLock = p THEN None ELSE userLock
        /\ shares' = shares \ {p}
        /\ pc' = [pc EXCEPT ![p] = "idle"]
        /\ req' = [req EXCEPT ![p] = None]
        /\ ev' = [ev EXCEPT ![p] = None]
    BY DEF End
  <1>2. /\ weightLock \in [Categories -> Procs \cup {None}] /\ userLock \in Procs \cup {None}
        /\ shares \subseteq Procs
        /\ pc \in [Procs -> {"idle", "lookup", "claim", "weights", "share", "commit", "lockUser"}]
        /\ req \in [Procs -> Requests \cup Redeems \cup {None}]
        /\ ev \in [Procs -> EventIds \cup Redeems \cup {None}]
    BY DEF Order, TypeOK
  <1>3. /\ pc'[p] = "idle" /\ ev'[p] = None
        /\ \A x \in Procs \ {p} : pc'[x] = pc[x] /\ ev'[x] = ev[x] /\ req'[x] = req[x]
    BY <1>1, <1>2
  <1>4. TypeOK'
    <2>1. /\ weightLock' \in [Categories -> Procs \cup {None}] /\ userLock' \in Procs \cup {None}
          /\ shares' \subseteq Procs
          /\ pc' \in [Procs -> {"idle", "lookup", "claim", "weights", "share", "commit", "lockUser"}]
          /\ req' \in [Procs -> Requests \cup Redeems \cup {None}]
          /\ ev' \in [Procs -> EventIds \cup Redeems \cup {None}]
      BY <1>1, <1>2
    <2>2. ASSUME NEW c \in Categories, weightLock'[c] # None
          PROVE  pc'[weightLock'[c]] \in {"share", "commit"}
      <3>1. weightLock[c] # p /\ weightLock'[c] = weightLock[c]
        BY <1>1, <2>2
      <3> QED BY <1>2, <1>3, <2>2, <3>1 DEF Order, TypeOK
    <2>3. userLock' # None => pc'[userLock'] \in {"weights", "commit"} /\ shares' = {}
      BY <1>1, <1>2, <1>3 DEF Order, TypeOK
    <2> QED BY <2>1, <2>2, <2>3 DEF TypeOK, Tables
  <1>5. Stages'
    BY <1>3 DEF Order, Stages
  <1>6. UserRow'
    BY <1>1, <1>2, <1>3, Kinded DEF Order, UserRow
  <1> QED BY <1>4, <1>5, <1>6 DEF Order

LEMMA RefuseOrder ==
    ASSUME Order, NEW p \in Procs, Refuse(p)
    PROVE  Order'
  <1>1. Tables'
    BY DEF Refuse, tables, Order, TypeOK, Tables
  <1> QED BY <1>1, EndOrder DEF Refuse

(* A handler that holds no lock goes on without one.                        *)
LEMMA GoOn ==
    ASSUME Order, NEW p \in Procs, UNCHANGED <<tables, locks>>,
           NEW from, NEW to, from \notin {"share", "commit"},
           pc[p] = from, pc' = [pc EXCEPT ![p] = to],
           to \in {"lookup", "claim", "weights", "commit", "lockUser"},
           req' \in [Procs -> Requests \cup Redeems \cup {None}],
           ev' \in [Procs -> EventIds \cup Redeems \cup {None}],
           \A x \in Procs \ {p} : req'[x] = req[x] /\ ev'[x] = ev[x],
           ev[p] \notin Redeems, ev'[p] \notin Redeems,
           to \in {"lookup", "lockUser"} => ev'[p] = None,
           to = "lookup" => req'[p] \in Requests,
           to = "lockUser" => req'[p] \in Redeems,
           to \in {"claim", "weights", "commit"} => ev'[p] \in EventIds
    PROVE  Order'
  <1>1. UNCHANGED <<processed, weights, dismissals, outbox, redeemed, weightLock, userLock, shares>>
    BY DEF tables, locks
  <1>2. /\ weightLock \in [Categories -> Procs \cup {None}] /\ userLock \in Procs \cup {None}
        /\ pc' \in [Procs -> {"idle", "lookup", "claim", "weights", "share", "commit", "lockUser"}]
        /\ pc'[p] = to /\ \A x \in Procs \ {p} : pc'[x] = pc[x]
    BY DEF Order, TypeOK
  <1>3. userLock # p /\ p \notin shares /\ \A c \in Categories : weightLock[c] # p
    <2>1. userLock # p
      BY Kinded DEF Order, UserRow
    <2> QED BY <2>1, Kinded DEF Order, TypeOK, UserRow
  <1>4. TypeOK'
    <2>1. \A c \in Categories : weightLock[c] # None => pc'[weightLock[c]] \in {"share", "commit"}
      BY <1>2, <1>3 DEF Order, TypeOK
    <2>2. userLock # None => pc'[userLock] \in {"weights", "commit"} /\ shares = {}
      BY <1>2, <1>3 DEF Order, TypeOK
    <2> QED BY <1>1, <1>2, <2>1, <2>2 DEF Order, TypeOK
  <1>5. Stages'
    BY <1>2 DEF Order, Stages
  <1>6. UserRow'
    <2>1. shares \subseteq Procs
      BY DEF Order, TypeOK
    <2> QED BY <1>1, <1>2, <1>3, <2>1 DEF Order, UserRow
  <1> QED BY <1>4, <1>5, <1>6 DEF Order

LEMMA BeginOrder == ASSUME Order, NEW p \in Procs, Begin(p) PROVE Order' /\ UNCHANGED <<tables, ev>>
  <1>1. /\ pc[p] = "idle" /\ UNCHANGED <<tables, locks, ev>>
    BY DEF Begin
  <1>2. PICK q \in Requests \cup Redeems :
           /\ req' = [req EXCEPT ![p] = q]
           /\ pc' = [pc EXCEPT ![p] = IF q.kind = "redeemed" THEN "lockUser" ELSE "lookup"]
    BY DEF Begin
  <1>3. /\ req' \in [Procs -> Requests \cup Redeems \cup {None}] /\ req'[p] = q
        /\ \A x \in Procs \ {p} : req'[x] = req[x]
    BY <1>2 DEF Order, TypeOK
  <1>4. ev[p] = None /\ None \notin Redeems
    BY <1>1, Kinded DEF Order, Stages
  <1>5. ev \in [Procs -> EventIds \cup Redeems \cup {None}]
    BY DEF Order, TypeOK
  <1>6. CASE q \in Requests
    <2>1. pc' = [pc EXCEPT ![p] = "lookup"]
      BY <1>2, <1>6, Kinded
    <2> QED BY <1>1, <1>3, <1>4, <1>5, <1>6, <2>1, GoOn
  <1>7. CASE q \in Redeems
    <2>1. pc' = [pc EXCEPT ![p] = "lockUser"]
      BY <1>2, <1>7, Kinded
    <2> QED BY <1>1, <1>3, <1>4, <1>5, <1>7, <2>1, GoOn
  <1> QED BY <1>6, <1>7

(* An accepted request works on an event of one of the rider's offers.      *)
LEMMA LookupOrder ==
    ASSUME Order, NEW p \in Procs, Lookup(p)
    PROVE  /\ Order' /\ UNCHANGED tables
           /\ pc'[p] \in {"idle", "claim"} /\ ev'[p] \notin Redeems
           /\ \A x \in Procs \ {p} : pc'[x] = pc[x] /\ ev'[x] = ev[x]
  <1> DEFINE o == IF req[p].offer = None THEN Primary(req[p].rec) ELSE req[p].offer
  <1>1. pc[p] = "lookup" /\ req[p] \in Requests /\ ev[p] = None
    BY DEF Lookup, Order, Stages
  <1>2. req[p].rec \in Recs /\ req[p].kind \in Kinds
    BY <1>1, Kinded
  <1>3. CASE Refuse(p)
    <2>1. pc' = [pc EXCEPT ![p] = "idle"] /\ ev' = [ev EXCEPT ![p] = None] /\ UNCHANGED tables
      BY <1>3 DEF Refuse, End
    <2> QED BY <1>3, <2>1, RefuseOrder, Kinded DEF Order, TypeOK
  <1>4. CASE /\ o = Primary(req[p].rec) \/ IsEligible(req[p].rec, o)
             /\ ev' = [ev EXCEPT ![p] = [kind |-> req[p].kind, rec |-> req[p].rec, offer |-> o]]
             /\ Goto(p, "claim")
             /\ UNCHANGED locks
    <2>1. o \in Offers
      BY <1>2, <1>4, PrimaryIsOffer, EligibleIsOffer
    <2> HIDE DEF o
    <2>2. PICK e \in EventIds : ev' = [ev EXCEPT ![p] = e]
      BY <1>2, <1>4, <2>1 DEF EventIds
    <2>3. /\ ev' \in [Procs -> EventIds \cup Redeems \cup {None}] /\ ev'[p] = e
          /\ \A x \in Procs \ {p} : ev'[x] = ev[x]
      BY <2>2 DEF Order, TypeOK
    <2>4. pc' = [pc EXCEPT ![p] = "claim"] /\ UNCHANGED <<tables, locks, req>>
      BY <1>4 DEF Goto
    <2>5. req' \in [Procs -> Requests \cup Redeems \cup {None}]
      BY <2>4 DEF Order, TypeOK
    <2>6. e \notin Redeems /\ ev[p] \notin Redeems
      BY <1>1, Kinded
    <2>7. Order'
      BY <1>1, <2>3, <2>4, <2>5, <2>6, GoOn
    <2> QED BY <2>3, <2>4, <2>6, <2>7 DEF Order, TypeOK
  <1> QED BY <1>3, <1>4 DEF Lookup

LEMMA ClaimOrder ==
    ASSUME Order, NEW p \in Procs, Claim(p)
    PROVE  Order' /\ UNCHANGED tables
  <1>1. pc[p] = "claim" /\ ev[p] \in EventIds
    BY DEF Claim, Order, Stages
  <1>2. CASE Refuse(p)
    BY <1>2, RefuseOrder DEF Refuse
  <1>3. CASE /\ Goto(p, IF ev[p].kind = "impressed" THEN "commit" ELSE "weights")
             /\ UNCHANGED <<locks, ev>>
    <2>1. PICK to \in {"commit", "weights"} : pc' = [pc EXCEPT ![p] = to]
      BY <1>3 DEF Goto
    <2>2. UNCHANGED <<tables, locks, req, ev>>
      BY <1>3 DEF Goto
    <2>3. /\ req' \in [Procs -> Requests \cup Redeems \cup {None}]
          /\ ev' \in [Procs -> EventIds \cup Redeems \cup {None}]
      BY <2>2 DEF Order, TypeOK
    <2>4. ev[p] \notin Redeems
      BY <1>1, Kinded
    <2> QED BY <1>1, <2>1, <2>2, <2>3, <2>4, GoOn
  <1> QED BY <1>2, <1>3 DEF Claim

LEMMA WeightsOrder ==
    ASSUME Order, NEW p \in Procs, Weights(p)
    PROVE  /\ Order' /\ UNCHANGED <<tables, ev>>
           /\ pc'[p] \in {"share", "commit"} /\ pc[p] = "weights"
           /\ \A x \in Procs \ {p} : pc'[x] = pc[x]
  <1>1. UNCHANGED <<processed, weights, dismissals, outbox, redeemed, userLock, shares, ev, req>>
    BY DEF Weights, Goto, tables
  <1>2. pc[p] = "weights" /\ ev[p] \in EventIds \cup Redeems
    BY DEF Weights, Order, Stages
  <1>3. PICK c \in Categories : weightLock[c] = None /\ weightLock' = [weightLock EXCEPT ![c] = p]
    <2>1. Category[ev[p].offer] \in Categories
      BY <1>2, Kinded, FeedbackAssumption
    <2> QED BY <2>1 DEF Weights
  <1>4. PICK to \in {"share", "commit"} :
           pc' = [pc EXCEPT ![p] = to] /\ (to = "share" => ev[p].kind \in {"dismissed", "clicked"})
    BY DEF Weights, Goto
  <1>5. ev[p] \in Redeems => to # "share"
    BY <1>4, Kinded
  <1>6. /\ pc' \in [Procs -> {"idle", "lookup", "claim", "weights", "share", "commit", "lockUser"}]
        /\ pc'[p] = to /\ \A x \in Procs \ {p} : pc'[x] = pc[x]
    BY <1>4 DEF Order, TypeOK
  <1>7. TypeOK'
    <2>1. weightLock' \in [Categories -> Procs \cup {None}]
      BY <1>3 DEF Order, TypeOK
    <2>2. ASSUME NEW d \in Categories, weightLock'[d] # None
          PROVE  pc'[weightLock'[d]] \in {"share", "commit"}
      <3>1. weightLock \in [Categories -> Procs \cup {None}]
        BY DEF Order, TypeOK
      <3>2. CASE d = c
        BY <1>3, <1>6, <3>1, <3>2
      <3>3. CASE d # c
        <4>1. weightLock'[d] = weightLock[d] /\ weightLock[d] \in Procs
          BY <1>3, <2>2, <3>1, <3>3
        <4>2. pc[weightLock[d]] \in {"share", "commit"}
          BY <2>2, <4>1 DEF Order, TypeOK
        <4> QED BY <1>2, <1>6, <4>1, <4>2
      <3> QED BY <3>2, <3>3
    <2>3. userLock # None => pc'[userLock] \in {"weights", "commit"} /\ shares = {}
      <3>1. ASSUME userLock = p PROVE to = "commit"
        <4>1. ev[p] \in Redeems
          BY <3>1, Kinded DEF Order, UserRow
        <4> QED BY <1>4, <1>5, <4>1
      <3> QED BY <1>6, <3>1 DEF Order, TypeOK
    <2> QED BY <1>1, <1>6, <2>1, <2>2, <2>3 DEF Order, TypeOK
  <1>8. Stages'
    BY <1>1, <1>2, <1>5, <1>6 DEF Order, Stages
  <1>9. UserRow'
    <2>1. \A x \in shares : x \in Procs /\ x # p
      BY <1>2 DEF Order, UserRow, TypeOK
    <2> QED BY <1>1, <1>6, <2>1 DEF Order, UserRow
  <1> QED BY <1>1, <1>2, <1>4, <1>6, <1>7, <1>8, <1>9 DEF Order, tables

LEMMA ShareOrder ==
    ASSUME Order, NEW p \in Procs, Share(p)
    PROVE  /\ Order' /\ UNCHANGED <<tables, ev>>
           /\ pc'[p] = "commit" /\ pc[p] = "share"
           /\ \A x \in Procs \ {p} : pc'[x] = pc[x]
  <1>1. UNCHANGED <<processed, weights, dismissals, outbox, redeemed, userLock, weightLock, ev, req>>
    BY DEF Share, Goto, tables
  <1>2. /\ pc[p] = "share" /\ ev[p] \in EventIds /\ userLock = None
        /\ shares' = shares \cup {p} /\ pc' = [pc EXCEPT ![p] = "commit"]
    BY DEF Share, Goto, Order, Stages
  <1>3. /\ pc' \in [Procs -> {"idle", "lookup", "claim", "weights", "share", "commit", "lockUser"}]
        /\ pc'[p] = "commit" /\ \A x \in Procs \ {p} : pc'[x] = pc[x]
    BY <1>2 DEF Order, TypeOK
  <1>4. TypeOK'
    <2>1. ASSUME NEW c \in Categories, weightLock[c] # None
          PROVE  pc'[weightLock[c]] \in {"share", "commit"}
      <3>1. weightLock[c] \in Procs /\ pc[weightLock[c]] \in {"share", "commit"}
        BY <2>1 DEF Order, TypeOK
      <3> QED BY <1>3, <3>1
    <2>2. shares' \subseteq Procs
      BY <1>2 DEF Order, TypeOK
    <2> QED BY <1>1, <1>2, <1>3, <2>1, <2>2 DEF Order, TypeOK
  <1>5. Stages'
    BY <1>1, <1>2, <1>3 DEF Order, Stages
  <1>6. UserRow'
    <2>1. shares \subseteq Procs
      BY DEF Order, TypeOK
    <2> QED BY <1>1, <1>2, <1>3, <2>1 DEF Order, UserRow
  <1> QED BY <1>1, <1>2, <1>3, <1>4, <1>5, <1>6 DEF Order, tables

LEMMA LockUserOrder ==
    ASSUME Order, NEW p \in Procs, LockUser(p)
    PROVE  Order' /\ UNCHANGED tables
  <1>1. pc[p] = "lockUser" /\ req[p] \in Redeems /\ userLock = None /\ shares = {}
    BY DEF LockUser, Order, Stages
  <1>2. CASE Refuse(p)
    BY <1>2, RefuseOrder DEF Refuse
  <1>3. CASE /\ userLock' = p
             /\ ev' = [ev EXCEPT ![p] = req[p]]
             /\ Goto(p, "weights")
             /\ UNCHANGED <<weightLock, shares>>
    <2>1. UNCHANGED <<processed, weights, dismissals, outbox, redeemed, weightLock, shares, req>>
          /\ userLock' = p
      BY <1>3 DEF Goto, tables
    <2>2. /\ pc' \in [Procs -> {"idle", "lookup", "claim", "weights", "share", "commit", "lockUser"}]
          /\ pc'[p] = "weights" /\ \A x \in Procs \ {p} : pc'[x] = pc[x]
      BY <1>3 DEF Goto, Order, TypeOK
    <2>3. /\ ev' \in [Procs -> EventIds \cup Redeems \cup {None}]
          /\ ev'[p] = req[p] /\ \A x \in Procs \ {p} : ev'[x] = ev[x]
      BY <1>1, <1>3 DEF Order, TypeOK
    <2>4. TypeOK'
      <3>1. ASSUME NEW c \in Categories, weightLock[c] # None
            PROVE  pc'[weightLock[c]] \in {"share", "commit"}
        <4>1. weightLock[c] \in Procs /\ pc[weightLock[c]] \in {"share", "commit"}
          BY <3>1 DEF Order, TypeOK
        <4> QED BY <1>1, <2>2, <4>1
      <3> QED BY <1>1, <2>1, <2>2, <2>3, <3>1 DEF Order, TypeOK
    <2>5. Stages'
      BY <1>1, <2>1, <2>2, <2>3 DEF Order, Stages
    <2>6. ASSUME NEW x \in Procs \ {p} PROVE ev[x] \notin Redeems
      BY <1>1, Kinded DEF Order, UserRow
    <2>7. UserRow'
      BY <1>1, <2>1, <2>3, <2>6 DEF Order, UserRow
    <2> QED BY <1>3, <2>4, <2>5, <2>7 DEF Order, Goto
  <1> QED BY <1>2, <1>3 DEF LockUser

-----------------------------------------------------------------------------
(* The upsert.                                                              *)

NoSignals == [k \in Signals |-> 0]

(* It adds one to one count of one row, and the weight stays the sum of the *)
(* signals until it can have met a bound.                                   *)
LEMMA Applied ==
    ASSUME weights \in [Categories -> PreferenceRows \cup {None}],
           NEW c \in Categories, NEW kind \in Signals, ApplyPreferenceFeedback(c, kind),
           weights[c] # None => SumsSignals(weights[c]),
           NEW n \in [Signals -> Nat],
           n = IF weights[c] = None THEN NoSignals ELSE weights[c].counts
    PROVE  /\ weights' \in [Categories -> PreferenceRows \cup {None}]
           /\ \A d \in Categories \ {c} : weights'[d] = weights[d]
           /\ weights'[c] # None /\ SumsSignals(weights'[c])
           /\ weights'[c].counts = [n EXCEPT ![kind] = @ + 1]
  <1>1. PICK w \in -20..20 : w = IF weights[c] = None THEN 0 ELSE weights[c].weight
    BY DEF PreferenceRows, Cap
  <1>2. PICK delta \in {2, -3, 6} : /\ delta = Delta(kind)
                                    /\ delta = 2 <=> kind = "clicked"
                                    /\ delta = -3 <=> kind = "dismissed"
                                    /\ delta = 6 <=> kind = "redeemed"
    BY DEF Delta, Signals
  <1>3. PICK v \in -20..20 : /\ v = Clamp(w + delta)
                             /\ w + delta \in -20..20 => v = w + delta
    BY DEF Clamp, Cap
  <1>4. PICK m \in [Signals -> Nat] : m = [n EXCEPT ![kind] = @ + 1]
    <2>1. [n EXCEPT ![kind] = @ + 1] \in [Signals -> Nat]
      OBVIOUS
    <2> QED BY <2>1, Zenon
  <1>5. weights' = [weights EXCEPT ![c] = [weight |-> v, counts |-> m]]
    BY <1>1, <1>2, <1>3, <1>4 DEF ApplyPreferenceFeedback, NoSignals
  <1>6. PICK r \in PreferenceRows : r.weight = v /\ r.counts = m /\ r = [weight |-> v, counts |-> m]
    BY <1>3, <1>4 DEF PreferenceRows, Cap
  <1>7. /\ weights' \in [Categories -> PreferenceRows \cup {None}] /\ weights'[c] = r
        /\ \A d \in Categories \ {c} : weights'[d] = weights[d]
    <2>1. weights' = [weights EXCEPT ![c] = r]
      BY <1>5, <1>6
    <2> QED BY <2>1
  <1>8. r # None
    BY <1>6, EarlierAssumption
  <1>9. SumsSignals(r)
    <2>1. PICK a \in Nat : a = n["clicked"]
      BY DEF Signals
    <2>2. PICK b \in Nat : b = n["dismissed"]
      BY DEF Signals
    <2>3. PICK d \in Nat : d = n["redeemed"]
      BY DEF Signals
    <2>4. 2 * a + 3 * b + 6 * d <= 20 => w = 2 * a - 3 * b + 6 * d
      <3>1. CASE weights[c] = None
        <4>1. a = 0 /\ b = 0 /\ d = 0 /\ w = 0
          BY <1>1, <2>1, <2>2, <2>3, <3>1 DEF NoSignals, Signals
        <4> QED BY <4>1
      <3>2. CASE weights[c] # None
        BY <1>1, <2>1, <2>2, <2>3, <3>2 DEF SumsSignals, Cap
      <3> QED BY <3>1, <3>2
    <2>5. CASE kind = "clicked"
      <3>1. m["clicked"] = a + 1 /\ m["dismissed"] = b /\ m["redeemed"] = d /\ delta = 2
        BY <1>2, <1>4, <2>1, <2>2, <2>3, <2>5 DEF Signals
      <3>2. 2 * (a + 1) + 3 * b + 6 * d <= 20 => v = 2 * (a + 1) - 3 * b + 6 * d
        BY <1>3, <2>4, <3>1
      <3> QED BY <1>6, <3>1, <3>2 DEF SumsSignals, Cap
    <2>6. CASE kind = "dismissed"
      <3>1. m["clicked"] = a /\ m["dismissed"] = b + 1 /\ m["redeemed"] = d /\ delta = -3
        BY <1>2, <1>4, <2>1, <2>2, <2>3, <2>6 DEF Signals
      <3>2. 2 * a + 3 * (b + 1) + 6 * d <= 20 => v = 2 * a - 3 * (b + 1) + 6 * d
        BY <1>3, <2>4, <3>1
      <3> QED BY <1>6, <3>1, <3>2 DEF SumsSignals, Cap
    <2>7. CASE kind = "redeemed"
      <3>1. m["clicked"] = a /\ m["dismissed"] = b /\ m["redeemed"] = d + 1 /\ delta = 6
        BY <1>2, <1>4, <2>1, <2>2, <2>3, <2>7 DEF Signals
      <3>2. 2 * a + 3 * b + 6 * (d + 1) <= 20 => v = 2 * a - 3 * b + 6 * (d + 1)
        BY <1>3, <2>4, <3>1
      <3> QED BY <1>6, <3>1, <3>2 DEF SumsSignals, Cap
    <2> QED BY <2>5, <2>6, <2>7 DEF Signals
  <1> QED BY <1>4, <1>6, <1>7, <1>8, <1>9

(* The events or redemptions a count stands for, and those before.          *)
Behind(kind, c) ==
    IF kind = "redeemed" THEN {o \in redeemed : Category[o] = c}
    ELSE {e \in processed : e.kind = kind /\ Category[e.offer] = c}

Before(kind, c) == IF Earlier[c] = None THEN 0 ELSE Earlier[c].counts[kind]

LEMMA CountIs ==
    ASSUME IsFiniteSet(processed), IsFiniteSet(redeemed), NEW k \in Signals, NEW c \in Categories
    PROVE  /\ Count(k, c) = Before(k, c) + Cardinality(Behind(k, c))
           /\ Before(k, c) \in Nat /\ IsFiniteSet(Behind(k, c))
           /\ Cardinality(Behind(k, c)) \in Nat /\ Count(k, c) \in Nat
  <1>1. Count(k, c) = Before(k, c) + Cardinality(Behind(k, c))
    BY DEF Count, Before, Behind
  <1>2. Before(k, c) \in Nat
    BY EarlierAssumption DEF Before, PreferenceRows
  <1>3. IsFiniteSet(Behind(k, c))
    <2>1. Behind(k, c) \subseteq processed \/ Behind(k, c) \subseteq redeemed
      BY DEF Behind
    <2> QED BY <2>1, FS_Subset
  <1>4. Cardinality(Behind(k, c)) \in Nat
    BY <1>3, FS_CardinalityType
  <1> QED BY <1>1, <1>2, <1>3, <1>4

(* One more behind a count.                                                 *)
LEMMA CountUp ==
    ASSUME IsFiniteSet(processed), IsFiniteSet(redeemed),
           NEW k \in Signals, NEW c \in Categories, NEW x,
           x \notin Behind(k, c), Behind(k, c)' = Behind(k, c) \cup {x}
    PROVE  Count(k, c)' = Count(k, c) + 1
  <1>1. Cardinality(Behind(k, c)') = Cardinality(Behind(k, c)) + 1
    BY CountIs, FS_AddElement
  <1>2. Count(k, c)' = Before(k, c) + Cardinality(Behind(k, c)')
    BY DEF Count, Before, Behind
  <1> QED BY <1>1, <1>2, CountIs

LEMMA CountSame ==
    ASSUME NEW k \in Signals, NEW c \in Categories, Behind(k, c)' = Behind(k, c)
    PROVE  Count(k, c)' = Count(k, c)
  BY DEF Count, Before, Behind

(* The upsert of the right row keeps the counts.                            *)
LEMMA CountsKept ==
    ASSUME Order, Counted, NEW c \in Categories, NEW k \in Signals,
           ApplyPreferenceFeedback(c, k),
           IsFiniteSet(processed'), IsFiniteSet(redeemed'),
           Count(k, c)' = Count(k, c) + 1,
           \A d \in Categories, i \in Signals : ~(d = c /\ i = k) => Count(i, d)' = Count(i, d)
    PROVE  /\ weights' \in [Categories -> PreferenceRows \cup {None}]
           /\ \A d \in Categories :
                IF weights'[d] = None THEN \A i \in Signals : Count(i, d)' = 0
                ELSE weights'[d].counts = [i \in Signals |-> Count(i, d)'] /\ SumsSignals(weights'[d])
  <1>1. weights \in [Categories -> PreferenceRows \cup {None}]
    BY DEF Order, TypeOK
  <1>2. \A d \in Categories, i \in Signals : Count(i, d) \in Nat
    BY CountIs DEF Counted
  <1>3. PICK n \in [Signals -> Nat] : /\ n = [i \in Signals |-> Count(i, c)]
                                      /\ n = IF weights[c] = None THEN NoSignals ELSE weights[c].counts
    BY <1>2 DEF Counted, NoSignals
  <1>4. weights[c] # None => SumsSignals(weights[c])
    BY DEF Counted
  <1>5. /\ weights' \in [Categories -> PreferenceRows \cup {None}]
        /\ \A d \in Categories \ {c} : weights'[d] = weights[d]
        /\ weights'[c] # None /\ SumsSignals(weights'[c])
        /\ weights'[c].counts = [n EXCEPT ![k] = @ + 1]
    BY <1>1, <1>3, <1>4, Applied
  <1>6. [n EXCEPT ![k] = @ + 1] = [i \in Signals |-> Count(i, c)']
    BY <1>2, <1>3
  <1>7. ASSUME NEW d \in Categories \ {c}
        PROVE  IF weights'[d] = None THEN \A i \in Signals : Count(i, d)' = 0
               ELSE weights'[d].counts = [i \in Signals |-> Count(i, d)'] /\ SumsSignals(weights'[d])
    <2>1. \A i \in Signals : Count(i, d)' = Count(i, d)
      BY <1>7
    <2>2. [i \in Signals |-> Count(i, d)'] = [i \in Signals |-> Count(i, d)]
      BY <2>1
    <2> QED BY <1>5, <2>1, <2>2 DEF Counted
  <1> QED BY <1>5, <1>6, <1>7

-----------------------------------------------------------------------------
(* What a step leaves of the tables and of the claims.                      *)

LEMMA CountedSame == ASSUME Counted, UNCHANGED tables PROVE Counted'
  <1>1. UNCHANGED <<processed, weights, dismissals, outbox, redeemed>>
    BY DEF tables
  <1>2. \A k \in Signals, c \in Categories : Count(k, c)' = Count(k, c)
    BY <1>1 DEF Count
  <1>3. ASSUME NEW c \in Categories
        PROVE  IF weights'[c] = None THEN \A k \in Signals : Count(k, c)' = 0
               ELSE weights'[c].counts = [k \in Signals |-> Count(k, c)'] /\ SumsSignals(weights'[c])
    <2>1. [k \in Signals |-> Count(k, c)'] = [k \in Signals |-> Count(k, c)]
      BY <1>2
    <2> QED BY <1>1, <1>2, <2>1 DEF Counted
  <1> QED BY <1>1, <1>3 DEF Counted

(* A step of p after which p holds nothing new leaves the claims.           *)
LEMMA ClaimsLeft ==
    ASSUME Claims, NEW p \in Procs,
           \A x \in Procs \ {p} : pc'[x] = pc[x] /\ ev'[x] = ev[x],
           \A e \in EventIds : Holds(p, e)' => Holds(p, e),
           ev'[p] \in Redeems => ev'[p] = ev[p],
           UNCHANGED tables
    PROVE  Claims'
  <1>1. UNCHANGED <<processed, redeemed>>
    BY DEF tables
  <1>2. \A x \in Procs, e \in EventIds : Holds(x, e)' => Holds(x, e)
    BY DEF Holds
  <1>3. ASSUME NEW x \in Procs, NEW e \in EventIds, Holds(x, e)'
        PROVE  e \notin processed' /\ \A y \in Procs : Holds(y, e)' => y = x
    BY <1>1, <1>2, <1>3 DEF Claims
  <1>4. ASSUME NEW x \in Procs, ev'[x] \in Redeems PROVE ev'[x].offer \notin redeemed'
    <2>1. ev'[x] = ev[x]
      BY <1>4
    <2> QED BY <1>1, <1>4, <2>1 DEF Claims
  <1> QED BY <1>3, <1>4 DEF Claims

(* What the end of a transaction leaves to the others.                      *)
LEMMA Ended ==
    ASSUME Order, NEW p \in Procs, End(p)
    PROVE  /\ \A x \in Procs \ {p} : pc'[x] = pc[x] /\ ev'[x] = ev[x]
           /\ ev'[p] = None /\ pc'[p] = "idle"
           /\ \A e \in EventIds : ~Holds(p, e)'
           /\ \A x \in Procs \ {p}, e \in EventIds : Holds(x, e)' <=> Holds(x, e)
  <1>1. /\ \A x \in Procs \ {p} : pc'[x] = pc[x] /\ ev'[x] = ev[x]
        /\ ev'[p] = None /\ pc'[p] = "idle"
    BY DEF End, Order, TypeOK
  <1> QED BY <1>1 DEF Holds

LEMMA RefuseInv == ASSUME Inv, NEW p \in Procs, Refuse(p) PROVE Inv'
  <1>1. Order'
    BY RefuseOrder DEF Inv
  <1>2. UNCHANGED tables /\ End(p)
    BY DEF Refuse
  <1>3. Claims'
    BY <1>2, Ended, ClaimsLeft, Kinded DEF Inv
  <1> QED BY <1>1, <1>2, <1>3, CountedSame DEF Inv

-----------------------------------------------------------------------------
(* The steps.                                                               *)

LEMMA BeginInv == ASSUME Inv, NEW p \in Procs, Begin(p) PROVE Inv'
  <1>1. Order' /\ UNCHANGED <<tables, ev>>
    BY BeginOrder DEF Inv
  <1>2. PICK q : pc' = [pc EXCEPT ![p] = IF q.kind = "redeemed" THEN "lockUser" ELSE "lookup"]
    BY DEF Begin
  <1>3. /\ pc'[p] \in {"lockUser", "lookup"} /\ \A x \in Procs \ {p} : pc'[x] = pc[x]
    BY <1>2 DEF Inv, Order, TypeOK
  <1>4. Claims'
    <2>1. \A e \in EventIds : ~Holds(p, e)'
      BY <1>3 DEF Holds
    <2> QED BY <1>1, <1>3, <2>1, ClaimsLeft DEF Inv
  <1> QED BY <1>1, <1>4, CountedSame DEF Inv

LEMMA LookupInv == ASSUME Inv, NEW p \in Procs, Lookup(p) PROVE Inv'
  <1>1. /\ Order' /\ UNCHANGED tables
        /\ pc'[p] \in {"idle", "claim"} /\ ev'[p] \notin Redeems
        /\ \A x \in Procs \ {p} : pc'[x] = pc[x] /\ ev'[x] = ev[x]
    BY LookupOrder DEF Inv
  <1>2. \A e \in EventIds : ~Holds(p, e)'
    BY <1>1 DEF Holds
  <1>3. Claims'
    BY <1>1, <1>2, ClaimsLeft DEF Inv
  <1> QED BY <1>1, <1>3, CountedSame DEF Inv

LEMMA WeightsInv == ASSUME Inv, NEW p \in Procs, Weights(p) PROVE Inv'
  <1>1. /\ Order' /\ UNCHANGED <<tables, ev>>
        /\ pc'[p] \in {"share", "commit"} /\ pc[p] = "weights"
        /\ \A x \in Procs \ {p} : pc'[x] = pc[x]
    BY WeightsOrder DEF Inv
  <1>2. \A e \in EventIds : Holds(p, e)' => Holds(p, e)
    BY <1>1 DEF Holds
  <1>3. Claims'
    BY <1>1, <1>2, ClaimsLeft DEF Inv
  <1> QED BY <1>1, <1>3, CountedSame DEF Inv

LEMMA ShareInv == ASSUME Inv, NEW p \in Procs, Share(p) PROVE Inv'
  <1>1. /\ Order' /\ UNCHANGED <<tables, ev>>
        /\ pc'[p] = "commit" /\ pc[p] = "share"
        /\ \A x \in Procs \ {p} : pc'[x] = pc[x]
    BY ShareOrder DEF Inv
  <1>2. \A e \in EventIds : Holds(p, e)' => Holds(p, e)
    BY <1>1 DEF Holds
  <1>3. Claims'
    BY <1>1, <1>2, ClaimsLeft DEF Inv
  <1> QED BY <1>1, <1>3, CountedSame DEF Inv

(* A claim waits for the one that holds the event.                          *)
LEMMA ClaimInv == ASSUME Inv, NEW p \in Procs, Claim(p) PROVE Inv'
  <1>1. /\ Order' /\ UNCHANGED tables
        /\ pc[p] = "claim" /\ ev[p] \in EventIds
        /\ \A x \in Procs \ {p} : ~Holds(x, ev[p])
    BY ClaimOrder DEF Inv, Order, Stages, Claim
  <1>2. CASE ev[p] \in processed
    BY <1>2, RefuseInv DEF Claim
  <1>3. CASE ev[p] \notin processed
    <2>1. UNCHANGED <<processed, redeemed, ev>> /\ UNCHANGED tables
      BY <1>1, <1>3 DEF Claim, tables
    <2>2. \A x \in Procs \ {p} : pc'[x] = pc[x]
      BY <1>3 DEF Claim, Goto, Inv, Order, TypeOK
    <2>3. \A x \in Procs \ {p}, e \in EventIds : Holds(x, e)' <=> Holds(x, e)
      BY <2>1, <2>2 DEF Holds
    <2>4. \A e \in EventIds : Holds(p, e)' => e = ev[p]
      BY <2>1 DEF Holds
    <2>5. Claims'
      <3>1. ASSUME NEW x \in Procs, NEW e \in EventIds, Holds(x, e)'
            PROVE  e \notin processed' /\ \A y \in Procs : Holds(y, e)' => y = x
        <4>1. CASE x = p
          BY <1>1, <1>3, <2>1, <2>3, <2>4, <3>1, <4>1
        <4>2. CASE x # p
          <5>1. Holds(x, e) /\ e # ev[p]
            BY <1>1, <2>3, <3>1, <4>2
          <5>2. e \notin processed /\ \A y \in Procs : Holds(y, e) => y = x
            BY <5>1 DEF Inv, Claims
          <5> QED BY <2>1, <2>3, <2>4, <5>1, <5>2
        <4> QED BY <4>1, <4>2
      <3>2. \A x \in Procs : ev'[x] \in Redeems => ev'[x].offer \notin redeemed'
        BY <2>1 DEF Inv, Claims
      <3> QED BY <3>1, <3>2 DEF Claims
    <2> QED BY <1>1, <2>1, <2>5, CountedSame DEF Inv
  <1> QED BY <1>2, <1>3

(* A redemption checks under the lock of the users row that it is the first.*)
LEMMA LockUserInv == ASSUME Inv, NEW p \in Procs, LockUser(p) PROVE Inv'
  <1>1. /\ Order' /\ UNCHANGED tables
        /\ pc[p] = "lockUser" /\ req[p] \in Redeems
    BY LockUserOrder DEF Inv, Order, Stages, LockUser
  <1>2. CASE req[p].offer \in redeemed
    BY <1>2, RefuseInv DEF LockUser
  <1>3. CASE req[p].offer \notin redeemed
    <2>1. ev' = [ev EXCEPT ![p] = req[p]] /\ pc' = [pc EXCEPT ![p] = "weights"]
      BY <1>3 DEF LockUser, Goto
    <2>2. /\ ev'[p] = req[p] /\ \A x \in Procs \ {p} : pc'[x] = pc[x] /\ ev'[x] = ev[x]
      BY <2>1 DEF Inv, Order, TypeOK
    <2>3. UNCHANGED <<processed, redeemed>>
      BY <1>1 DEF tables
    <2>4. \A e \in EventIds : ~Holds(p, e)'
      BY <1>1, <2>2, Kinded DEF Holds
    <2>5. \A x \in Procs \ {p}, e \in EventIds : Holds(x, e)' <=> Holds(x, e)
      BY <2>2 DEF Holds
    <2>6. Claims'
      <3>1. ASSUME NEW x \in Procs, NEW e \in EventIds, Holds(x, e)'
            PROVE  e \notin processed' /\ \A y \in Procs : Holds(y, e)' => y = x
        BY <2>3, <2>4, <2>5, <3>1 DEF Inv, Claims
      <3>2. ASSUME NEW x \in Procs, ev'[x] \in Redeems PROVE ev'[x].offer \notin redeemed'
        <4>1. CASE x = p
          BY <1>3, <2>2, <2>3, <4>1
        <4>2. CASE x # p
          <5>1. ev'[x] = ev[x]
            BY <2>2, <4>2
          <5> QED BY <2>3, <3>2, <5>1 DEF Inv, Claims
        <4> QED BY <4>1, <4>2
      <3> QED BY <3>1, <3>2 DEF Claims
    <2> QED BY <1>1, <2>6, CountedSame DEF Inv
  <1> QED BY <1>2, <1>3

(* A commit counts the event it has claimed.                                *)
LEMMA CommitEventInv == ASSUME Inv, NEW p \in Procs, CommitEvent(p) PROVE Inv'
  <1>1. PICK e \in EventIds : e = ev[p] /\ pc[p] = "commit"
    BY DEF CommitEvent
  <1>2. /\ processed' = processed \cup {e}
        /\ IF e.kind = "impressed" THEN UNCHANGED weights
           ELSE ApplyPreferenceFeedback(Category[e.offer], e.kind)
        /\ dismissals' = IF e.kind = "dismissed" THEN dismissals \cup {<<e.rec, e.offer>>}
                         ELSE dismissals
        /\ outbox' = [outbox EXCEPT ![e] = @ + 1]
        /\ End(p) /\ redeemed' = redeemed
    BY <1>1 DEF CommitEvent
  <1>3. e.kind \in Kinds /\ e.rec \in Recs /\ e.offer \in Offers
    BY Kinded
  <1>4. Category[e.offer] \in Categories
    BY <1>3, FeedbackAssumption
  <1>5. e \notin processed /\ \A x \in Procs \ {p} : ~Holds(x, e)
    <2>1. Holds(p, e)
      BY <1>1 DEF Holds
    <2> QED BY <2>1 DEF Inv, Claims
  <1>6. IsFiniteSet(processed') /\ IsFiniteSet(redeemed')
    BY <1>2, FS_AddElement DEF Inv, Counted
  <1>7. \A e2 \in EventIds : outbox'[e2] = IF e2 \in processed' THEN 1 ELSE 0
    <2>1. ASSUME NEW e2 \in EventIds
          PROVE  outbox'[e2] = IF e2 \in processed' THEN 1 ELSE 0
      <3>1. outbox'[e2] = IF e2 = e THEN outbox[e2] + 1 ELSE outbox[e2]
        BY <1>2 DEF Inv, Order, TypeOK
      <3>2. outbox[e2] = IF e2 \in processed THEN 1 ELSE 0
        BY DEF Inv, Counted
      <3> QED BY <1>2, <1>5, <3>1, <3>2
    <2> QED BY <2>1
  <1>8. /\ weights' \in [Categories -> PreferenceRows \cup {None}]
        /\ \A d \in Categories :
             IF weights'[d] = None THEN \A i \in Signals : Count(i, d)' = 0
             ELSE weights'[d].counts = [i \in Signals |-> Count(i, d)'] /\ SumsSignals(weights'[d])
    <2>1. ASSUME NEW d \in Categories, NEW i \in Signals, ~(i = e.kind /\ d = Category[e.offer])
          PROVE  Count(i, d)' = Count(i, d)
      <3>1. Behind(i, d)' = Behind(i, d)
        BY <1>2, <2>1 DEF Behind
      <3> QED BY <3>1, CountSame
    <2>2. CASE e.kind = "impressed"
      <3>1. \A d \in Categories, i \in Signals : Count(i, d)' = Count(i, d)
        BY <2>1, <2>2 DEF Signals
      <3>2. weights' = weights
        BY <1>2, <2>2
      <3>3. ASSUME NEW d \in Categories
            PROVE  IF weights'[d] = None THEN \A i \in Signals : Count(i, d)' = 0
                   ELSE weights'[d].counts = [i \in Signals |-> Count(i, d)']
                        /\ SumsSignals(weights'[d])
        <4>1. [i \in Signals |-> Count(i, d)'] = [i \in Signals |-> Count(i, d)]
          BY <3>1
        <4> QED BY <3>1, <3>2, <4>1 DEF Inv, Counted
      <3> QED BY <3>2, <3>3 DEF Inv, Order, TypeOK
    <2>3. CASE e.kind # "impressed"
      <3>1. e.kind \in Signals /\ e.kind # "redeemed"
        BY <1>3, <2>3 DEF Kinds, Signals
      <3>2. /\ e \notin Behind(e.kind, Category[e.offer])
            /\ Behind(e.kind, Category[e.offer])' = Behind(e.kind, Category[e.offer]) \cup {e}
        BY <1>2, <1>5, <3>1 DEF Behind
      <3>3. Count(e.kind, Category[e.offer])' = Count(e.kind, Category[e.offer]) + 1
        BY <1>4, <3>1, <3>2, CountUp DEF Inv, Counted
      <3>4. ApplyPreferenceFeedback(Category[e.offer], e.kind)
        BY <1>2, <2>3
      <3> QED BY <1>4, <1>6, <2>1, <3>1, <3>3, <3>4, CountsKept DEF Inv
    <2> QED BY <2>2, <2>3
  <1>9. Counted'
    BY <1>6, <1>7, <1>8 DEF Counted
  <1>10. Order'
    <2>1. processed' \subseteq EventIds /\ redeemed' \subseteq Offers /\ outbox' \in [EventIds -> Nat]
      BY <1>2 DEF Inv, Order, TypeOK
    <2>2. dismissals' \subseteq Recs \X Offers
      BY <1>2, <1>3 DEF Inv, Order, TypeOK
    <2>3. Tables'
      BY <1>8, <2>1, <2>2 DEF Tables
    <2> QED BY <1>2, <2>3, EndOrder DEF Inv
  <1>11. Claims'
    <2>1. /\ \A x \in Procs \ {p} : pc'[x] = pc[x] /\ ev'[x] = ev[x]
          /\ ev'[p] = None /\ \A e2 \in EventIds : ~Holds(p, e2)'
          /\ \A x \in Procs \ {p}, e2 \in EventIds : Holds(x, e2)' <=> Holds(x, e2)
      BY <1>2, Ended DEF Inv
    <2>2. ASSUME NEW x \in Procs, NEW e2 \in EventIds, Holds(x, e2)'
          PROVE  e2 \notin processed' /\ \A y \in Procs : Holds(y, e2)' => y = x
      BY <1>2, <1>5, <2>1, <2>2 DEF Inv, Claims
    <2>3. ASSUME NEW x \in Procs, ev'[x] \in Redeems PROVE ev'[x].offer \notin redeemed'
      <3>1. ev'[x] = ev[x]
        BY <2>1, <2>3, Kinded
      <3> QED BY <1>2, <2>3, <3>1 DEF Inv, Claims
    <2> QED BY <2>2, <2>3 DEF Claims
  <1> QED BY <1>9, <1>10, <1>11 DEF Inv

LEMMA CommitRedemptionInv == ASSUME Inv, NEW p \in Procs, CommitRedemption(p) PROVE Inv'
  <1>1. PICK o \in Offers : ev[p] \in Redeems /\ o = ev[p].offer /\ pc[p] = "commit"
    BY Kinded DEF CommitRedemption
  <1>2. /\ redeemed' = redeemed \cup {o}
        /\ ApplyPreferenceFeedback(Category[o], "redeemed")
        /\ End(p) /\ UNCHANGED <<processed, dismissals, outbox>>
    BY <1>1 DEF CommitRedemption
  <1>3. Category[o] \in Categories
    BY FeedbackAssumption
  <1>4. o \notin redeemed /\ \A x \in Procs \ {p} : ev[x] \notin Redeems
    BY <1>1 DEF Inv, Claims, Order, UserRow
  <1>5. IsFiniteSet(processed') /\ IsFiniteSet(redeemed')
    BY <1>2, FS_AddElement DEF Inv, Counted
  <1>6. \A e \in EventIds : outbox'[e] = IF e \in processed' THEN 1 ELSE 0
    BY <1>2 DEF Inv, Counted
  <1>7. /\ weights' \in [Categories -> PreferenceRows \cup {None}]
        /\ \A d \in Categories :
             IF weights'[d] = None THEN \A i \in Signals : Count(i, d)' = 0
             ELSE weights'[d].counts = [i \in Signals |-> Count(i, d)'] /\ SumsSignals(weights'[d])
    <2>1. ASSUME NEW d \in Categories, NEW i \in Signals, ~(i = "redeemed" /\ d = Category[o])
          PROVE  Count(i, d)' = Count(i, d)
      <3>1. Behind(i, d)' = Behind(i, d)
        BY <1>2, <2>1 DEF Behind
      <3> QED BY <3>1, CountSame
    <2>2. /\ o \notin Behind("redeemed", Category[o])
          /\ Behind("redeemed", Category[o])' = Behind("redeemed", Category[o]) \cup {o}
      BY <1>2, <1>4 DEF Behind
    <2>3. "redeemed" \in Signals
      BY DEF Signals
    <2>4. Count("redeemed", Category[o])' = Count("redeemed", Category[o]) + 1
      BY <1>3, <2>2, <2>3, CountUp DEF Inv, Counted
    <2> QED BY <1>2, <1>3, <1>5, <2>1, <2>3, <2>4, CountsKept DEF Inv
  <1>8. Counted'
    BY <1>5, <1>6, <1>7 DEF Counted
  <1>9. Order'
    <2>1. Tables'
      BY <1>2, <1>7 DEF Inv, Order, TypeOK, Tables
    <2> QED BY <1>2, <2>1, EndOrder DEF Inv
  <1>10. Claims'
    <2>1. /\ \A x \in Procs \ {p} : pc'[x] = pc[x] /\ ev'[x] = ev[x]
          /\ ev'[p] = None /\ \A e2 \in EventIds : ~Holds(p, e2)'
          /\ \A x \in Procs \ {p}, e2 \in EventIds : Holds(x, e2)' <=> Holds(x, e2)
      BY <1>2, Ended DEF Inv
    <2>2. ASSUME NEW x \in Procs, NEW e2 \in EventIds, Holds(x, e2)'
          PROVE  e2 \notin processed' /\ \A y \in Procs : Holds(y, e2)' => y = x
      BY <1>2, <2>1, <2>2 DEF Inv, Claims
    <2>3. \A x \in Procs : ev'[x] \notin Redeems
      BY <1>4, <2>1, Kinded
    <2> QED BY <2>2, <2>3 DEF Claims
  <1> QED BY <1>8, <1>9, <1>10 DEF Inv

LEMMA InitInv == Init => Inv
  <1> SUFFICES ASSUME Init PROVE Inv
    OBVIOUS
  <1>1. processed = {} /\ redeemed = {} /\ weights = Earlier
    BY DEF Init
  <1>2. Claims
    BY Kinded DEF Init, Claims, Holds
  <1>3. ASSUME NEW k \in Signals, NEW c \in Categories PROVE Count(k, c) = Before(k, c)
    <2>1. IsFiniteSet(processed) /\ IsFiniteSet(redeemed) /\ Behind(k, c) = {}
      BY <1>1, FS_EmptySet DEF Behind
    <2>2. Cardinality(Behind(k, c)) = 0
      BY <2>1, FS_EmptySet
    <2>3. Count(k, c) = Before(k, c) + Cardinality(Behind(k, c)) /\ Before(k, c) \in Nat
      BY <2>1, CountIs
    <2> QED BY <2>2, <2>3
  <1>4. ASSUME NEW c \in Categories
        PROVE  IF weights[c] = None THEN \A k \in Signals : Count(k, c) = 0
               ELSE weights[c].counts = [k \in Signals |-> Count(k, c)] /\ SumsSignals(weights[c])
    <2>1. CASE Earlier[c] = None
      BY <1>1, <1>3, <2>1 DEF Before
    <2>2. CASE Earlier[c] # None
      <3>1. Earlier[c].counts \in [Signals -> Nat] /\ SumsSignals(Earlier[c])
        BY <2>2, EarlierAssumption DEF PreferenceRows
      <3>2. \A k \in Signals : Count(k, c) = Earlier[c].counts[k]
        BY <1>3, <2>2 DEF Before
      <3>3. Earlier[c].counts = [k \in Signals |-> Count(k, c)]
        BY <3>1, <3>2
      <3> QED BY <1>1, <2>2, <3>1, <3>3
    <2> QED BY <2>1, <2>2
  <1>5. Counted
    BY <1>1, <1>4, FS_EmptySet DEF Init, Counted
  <1> QED BY <1>2, <1>5, InitOrder DEF Inv

LEMMA NextInv == Inv /\ [Next]_vars => Inv'
  <1> SUFFICES ASSUME Inv, [Next]_vars PROVE Inv'
    OBVIOUS
  <1>1. ASSUME NEW p \in Procs, Begin(p) \/ Step(p) \/ Abort(p) \/ Detect(p) PROVE Inv'
    <2>1. CASE Begin(p)
      BY <2>1, BeginInv
    <2>2. CASE Lookup(p)
      BY <2>2, LookupInv
    <2>3. CASE Claim(p)
      BY <2>3, ClaimInv
    <2>4. CASE Weights(p)
      BY <2>4, WeightsInv
    <2>5. CASE Share(p)
      BY <2>5, ShareInv
    <2>6. CASE CommitEvent(p)
      BY <2>6, CommitEventInv
    <2>7. CASE LockUser(p)
      BY <2>7, LockUserInv
    <2>8. CASE CommitRedemption(p)
      BY <2>8, CommitRedemptionInv
    <2>9. CASE Abort(p) \/ Detect(p)
      BY <2>9, RefuseInv DEF Abort, Detect
    <2> QED BY <1>1, <2>1, <2>2, <2>3, <2>4, <2>5, <2>6, <2>7, <2>8, <2>9 DEF Step
  <1>2. CASE UNCHANGED vars
    <2>1. UNCHANGED <<processed, weights, dismissals, outbox, redeemed, weightLock, userLock,
                      shares, pc, req, ev>>
      BY <1>2 DEF vars, tables, locks
    <2>2. Order'
      BY <2>1 DEF Inv, Order, TypeOK, Stages, UserRow
    <2>3. Claims'
      BY <2>1 DEF Inv, Claims, Holds
    <2>4. Counted'
      BY <1>2, CountedSame DEF Inv, vars
    <2> QED BY <2>2, <2>3, <2>4 DEF Inv
  <1> QED BY <1>1, <1>2 DEF Next

-----------------------------------------------------------------------------
(* A repeated click, impression or dismissal changes nothing, however many  *)
(* handlers run RecordRecommendationEvent and Create at once: each count of *)
(* a preference row is the number of different events and redemptions       *)
(* behind it, its weight is their sum until it can have met a bound, and an *)
(* event is told to Kafka once if it counted.                               *)
THEOREM FeedbackCountedOnce == Spec => []SignalsCounted
  <1>1. Inv => SignalsCounted
    <2> SUFFICES ASSUME Inv PROVE SignalsCounted
      OBVIOUS
    <2>1. \A c \in Categories :
            IF weights[c] = None THEN \A k \in Signals : Count(k, c) = 0
            ELSE weights[c].counts = [k \in Signals |-> Count(k, c)] /\ SumsSignals(weights[c])
      BY DEF Inv, Counted
    <2> QED BY <2>1 DEF Inv, Order, Counted, SignalsCounted
  <1> QED BY <1>1, InitInv, NextInv, PTL DEF Spec

(* Of two handlers that wait for each other one redeems and the other       *)
(* records an event, because an event that waits for an event holds nothing *)
(* yet that the other could want, and redemptions queue for the users row.  *)
THEOREM OnlyMixedDeadlocks == Spec => []DeadlocksAreMixed
  <1>1. Inv => DeadlocksAreMixed
    <2> SUFFICES ASSUME Inv, NEW p \in Procs, NEW x \in Procs, p # x, WaitsFor(p, x), WaitsFor(x, p)
                 PROVE  (ev[p] \in Redeems) # (ev[x] \in Redeems)
      BY DEF DeadlocksAreMixed
    <2>1. /\ \A c \in Categories : weightLock[c] # None => pc[weightLock[c]] \in {"share", "commit"}
          /\ userLock # None => pc[userLock] \in {"weights", "commit"} /\ ev[userLock] \in Redeems
          /\ p # None /\ x # None
          /\ \A y \in shares : pc[y] = "commit"
      BY Kinded DEF Inv, Order, TypeOK, UserRow
    <2>2. \A y \in Procs : /\ pc[y] \in {"claim", "share"} => ev[y] \notin Redeems
                           /\ pc[y] = "weights" => Category[ev[y].offer] \in Categories
      <3>1. \A y \in Procs : /\ pc[y] \in {"claim", "share"} => ev[y] \in EventIds
                             /\ pc[y] = "weights" => ev[y] \in EventIds \cup Redeems
        BY DEF Inv, Order, Stages
      <3> QED BY <3>1, Kinded, FeedbackAssumption
    <2>3. CASE pc[p] = "claim"
      <3>1. pc[x] \in {"weights", "share"}
        BY <2>3 DEF WaitsFor, Holds
      <3> QED BY <2>1, <2>2, <2>3, <3>1 DEF WaitsFor
    <2>4. CASE pc[p] = "weights"
      <3>1. pc[x] \in {"share", "commit"}
        BY <2>1, <2>2, <2>4 DEF WaitsFor
      <3>2. pc[x] = "share" /\ userLock = p
        BY <3>1 DEF WaitsFor
      <3>3. ev[p] \in Redeems
        BY <2>1, <3>2
      <3>4. ev[x] \notin Redeems
        BY <2>2, <3>2
      <3> QED BY <3>3, <3>4
    <2>5. CASE pc[p] = "share"
      <3>1. userLock = x
        BY <2>5 DEF WaitsFor
      <3>2. ev[x] \in Redeems
        BY <2>1, <3>1
      <3>3. ev[p] \notin Redeems
        BY <2>2, <2>5
      <3> QED BY <3>2, <3>3
    <2>6. CASE pc[p] = "lockUser"
      <3>1. pc[x] \in {"weights", "commit"}
        BY <2>1, <2>6 DEF WaitsFor
      <3>2. pc[x] = "weights" /\ weightLock[Category[ev[x].offer]] = p
        BY <3>1 DEF WaitsFor
      <3> QED BY <2>1, <2>2, <2>6, <3>2
    <2> QED BY <2>3, <2>4, <2>5, <2>6 DEF WaitsFor
  <1> QED BY <1>1, InitInv, NextInv, PTL DEF Spec

(* A dismissal is remembered with the claim of its event.                   *)
Remembered == \A e \in processed : e.kind = "dismissed" => <<e.rec, e.offer>> \in dismissals

LEMMA NextRemembered == Remembered /\ [Next]_vars => Remembered'
  <1> SUFFICES ASSUME Remembered, [Next]_vars PROVE Remembered'
    OBVIOUS
  <1>1. CASE UNCHANGED <<processed, dismissals>>
    BY <1>1 DEF Remembered
  <1>2. ASSUME NEW p \in Procs, CommitEvent(p) PROVE Remembered'
    <2>1. PICK e : /\ processed' = processed \cup {e}
                   /\ dismissals' = IF e.kind = "dismissed" THEN dismissals \cup {<<e.rec, e.offer>>}
                                    ELSE dismissals
      BY <1>2 DEF CommitEvent
    <2> QED BY <2>1 DEF Remembered
  <1>3. ASSUME NEW p \in Procs,
               \/ Begin(p) \/ Lookup(p) \/ Claim(p) \/ Weights(p) \/ Share(p)
               \/ LockUser(p) \/ CommitRedemption(p) \/ Abort(p) \/ Detect(p)
        PROVE  UNCHANGED <<processed, dismissals>>
    BY <1>3 DEF Begin, Lookup, Claim, Weights, Share, LockUser, CommitRedemption, Abort, Detect,
                Goto, Refuse, tables
  <1>4. CASE UNCHANGED vars
    BY <1>1, <1>4 DEF vars, tables
  <1> QED BY <1>1, <1>2, <1>3, <1>4 DEF Next, Step

(* What the rider has dismissed is not shown again for its recommendation,  *)
(* for any candidates and any limit, although the list is filled up from    *)
(* further down the ranking (GetLatestRecommendation).                      *)
THEOREM DismissedStaysAway == Spec => []DismissedNotShown
  <1>1. Init => Remembered
    BY DEF Init, Remembered
  <1>2. Remembered => DismissedNotShown
    BY DEF Remembered, DismissedNotShown, Shown, Left
  <1> QED BY <1>1, <1>2, NextRemembered, PTL DEF Spec
=============================================================================

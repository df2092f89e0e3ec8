--------------------------- MODULE RedemptionProofs ---------------------------
(***************************************************************************)
(* For any number of riders, journeys, offers, keys and handlers, and any   *)
(* costs, stocks and points, the redemption service keeps its types, keeps  *)
(* what its handlers know (KnowledgeIsStable) and implements the atomic     *)
(* service; the ledger adds up and agrees with the redemptions, the stock,  *)
(* the events and the signals; one key has one answer, and a retry gets it; *)
(* and, if every offer costs something, no constraint of the schema ever    *)
(* refuses a write.                                                         *)
(*                                                                          *)
(* TypeOK is not inductive: that Commit leaves a natural balance and stock  *)
(* depends on what the handler checked several steps before, and on the     *)
(* row locks that keep it true.  Inv therefore adds KnowledgeIsStable.      *)
(* Each action is first shown to leave the other handlers' locks and local  *)
(* variables alone (OthersKeep); their knowledge then survives because the  *)
(* rows it is about are theirs.  With Inv, every step on the tables is a    *)
(* step of AtomicRedemption, and facts about the tables are proved there:   *)
(* Books relates the tables to each other.  What was answered and what a    *)
(* redemption has signalled are not in those tables; SameAnswerPerKey and   *)
(* SignalsMatchRows are proved on the statements.                           *)
(***************************************************************************)
EXTENDS Redemption, FiniteSetTheorems, TLAPS

Inv == TypeOK /\ KnowledgeIsStable

(* With no users, no redemptions and idle handlers the invariant holds.     *)
LEMMA InitInv == Init => Inv
  <1> SUFFICES ASSUME Init PROVE Inv
    OBVIOUS
  <1>1. TypeOK
    BY ConstantsAssumption DEF Init, TypeOK, Entry, Event
  <1>2. KnowledgeIsStable
    BY DEF Init, KnowledgeIsStable, Knows, CreateSteps, CreateNoLock, CreateUserLock,
           CreateBothLocks, VerifySteps
  <1> QED BY <1>1, <1>2 DEF Inv

(* A step of handler p that leaves the other handlers alone.                *)
OthersKeep(p) ==
    /\ \A q \in Procs \ {p} :
          pc'[q] = pc[q] /\ req'[q] = req[q] /\ seen'[q] = seen[q] /\ newId'[q] = newId[q]
    /\ \A u \in Users : userLock[u] \in Procs \ {p} => userLock'[u] = userLock[u]
    /\ \A o \in Offers : invLock[o] \in Procs \ {p} => invLock'[o] = invLock[o]
    /\ \A r \in Rids : redLock[r] \in Procs \ {p} => redLock'[r] = redLock[r]

(* What another handler knows survives such a step if no table changes.     *)
LEMMA QuietStep ==
    ASSUME Inv, NEW p \in Procs, OthersKeep(p), UNCHANGED tables,
           NEW q \in Procs \ {p}
    PROVE  Knows(q)'
  <1> USE DEF Inv, TypeOK, KnowledgeIsStable, tables
  <1>1. Knows(q) /\ pc[q] = pc'[q] /\ req[q] = req'[q] /\ seen[q] = seen'[q] /\ newId[q] = newId'[q]
    BY DEF OthersKeep
  <1>2. \A r : Exists(r)' = Exists(r)
    BY DEF Exists
  <1>3. KeyIsFree(req[q]) => KeyIsFree(req[q])'
    BY <1>1 DEF KeyIsFree, Exists
  <1>4. OfferIsFree(req[q]) => OfferIsFree(req[q])'
    BY <1>1 DEF OfferIsFree, Exists
  <1>5. pc[q] \in CreateUserLock \cup CreateBothLocks => userLock'[req[q].user] = q
    BY <1>1 DEF Knows, OthersKeep, CreateRequests, CreateSteps
  <1>6. pc[q] \in CreateBothLocks => invLock'[req[q].offer] = q
    BY <1>1 DEF Knows, OthersKeep, CreateRequests, CreateSteps
  <1>7. pc[q] = "verify" => redLock'[req[q].rid] = q
    BY <1>1 DEF Knows, OthersKeep, VerifyRequests, VerifySteps
  <1> QED
    BY <1>1, <1>2, <1>3, <1>4, <1>5, <1>6, <1>7 DEF Knows

(* The new ids stay distinct when p's is dropped or drawn afresh.           *)
LEMMA IdsStayDistinct ==
    ASSUME Inv, NEW p \in Procs, OthersKeep(p),
           newId'[p] = None \/ \A x \in Procs : newId[x] # newId'[p]
    PROVE  \A x, y \in Procs : newId'[x] = newId'[y] /\ newId'[x] # None => x = y
  BY DEF Inv, KnowledgeIsStable, OthersKeep

(* A handler that leaves its transaction unpublished keeps the invariant.   *)
LEMMA QuietInv ==
    ASSUME Inv, TypeOK', NEW p \in Procs, OthersKeep(p), UNCHANGED tables, Knows(p)',
           newId'[p] = None \/ \A x \in Procs : newId[x] # newId'[p]
    PROVE  Inv'
  <1>1. \A q \in Procs : Knows(q)'
    BY QuietStep
  <1>2. (\A x, y \in Procs : newId[x] = newId[y] /\ newId[x] # None => x = y)'
    BY IdsStayDistinct
  <1> QED BY <1>1, <1>2 DEF Inv, KnowledgeIsStable

(* The end of a transaction.                                                *)
LEMMA EndFrame ==
    ASSUME Inv, NEW p \in Procs, NEW a \in Answer, End(p, a)
    PROVE  /\ OthersKeep(p) /\ Knows(p)' /\ newId'[p] = None
           /\ userLock' \in [Users -> Procs \cup {None}]
           /\ invLock' \in [Offers -> Procs \cup {None}]
           /\ redLock' \in [Rids -> Procs \cup {None}]
           /\ pc' \in [Procs -> {"idle"} \cup CreateSteps \cup VerifySteps]
           /\ seen' \in [Procs -> Nat]
           /\ newId' \in [Procs -> Rids \cup {None}]
           /\ reply' \in [Procs -> Answer \cup {None}]
  <1> USE DEF Inv, TypeOK
  <1>1. OthersKeep(p)
    BY DEF OthersKeep, End, Without
  <1>2. pc'[p] = "idle" /\ newId'[p] = None
    BY DEF End
  <1>3. Knows(p)'
    BY <1>2 DEF Knows, CreateSteps, CreateNoLock, CreateUserLock, CreateBothLocks, VerifySteps
  <1>4. /\ userLock' \in [Users -> Procs \cup {None}]
        /\ invLock' \in [Offers -> Procs \cup {None}]
        /\ redLock' \in [Rids -> Procs \cup {None}]
    BY DEF End, Without
  <1>5. /\ pc' \in [Procs -> {"idle"} \cup CreateSteps \cup VerifySteps]
        /\ seen' \in [Procs -> Nat]
        /\ newId' \in [Procs -> Rids \cup {None}]
        /\ reply' \in [Procs -> Answer \cup {None}]
    BY DEF End
  <1> QED BY <1>1, <1>2, <1>3, <1>4, <1>5

(* A handler that answers without having changed a table keeps the          *)
(* invariant.                                                               *)
LEMMA AnswerInv ==
    ASSUME Inv, NEW p \in Procs, NEW a \in Answer, End(p, a), UNCHANGED tables
    PROVE  Inv'
  <1>1. TypeOK'
    BY EndFrame DEF Inv, TypeOK, End, tables
  <1> QED BY <1>1, EndFrame, QuietInv

(* So does one that refuses, whose deferred Rollback releases its locks.    *)
LEMMA RefuseInv ==
    ASSUME Inv, NEW p \in Procs, NEW why \in Refusals \cup {"constraint", "error"},
           Refuse(p, why)
    PROVE  Inv'
  <1>1. [out |-> why, rid |-> None] \in Answer
    BY DEF Answer
  <1> QED BY <1>1, AnswerInv DEF Refuse

-----------------------------------------------------------------------------
(* One lemma per action.                                                    *)

(* FOR UPDATE on the users row: the balance read is the current one, and    *)
(* the lock keeps it so.                                                    *)
LEMMA LockUserInv == ASSUME Inv, NEW p \in Procs, LockUser(p) PROVE Inv'
  <1> DEFINE u == req[p].user
  <1>1. CASE u \notin registered
    BY <1>1, RefuseInv DEF LockUser, Refusals
  <1>2. CASE u \in registered
    <2>1. /\ pc[p] = "lockUser" /\ userLock[u] = None
          /\ userLock' = [userLock EXCEPT ![u] = p]
          /\ seen' = [seen EXCEPT ![p] = balance[u]]
          /\ pc' = [pc EXCEPT ![p] = "existing"]
          /\ UNCHANGED <<tables, active, req, reply, invLock, redLock, newId>>
      BY <1>2 DEF LockUser, Goto
    <2>2. req[p] \in CreateRequests
      BY <2>1 DEF Inv, KnowledgeIsStable, Knows, CreateSteps, CreateNoLock
    <2>3. TypeOK'
      BY <2>1, <2>2 DEF Inv, TypeOK, tables, CreateSteps, CreateUserLock, CreateRequests
    <2>4. OthersKeep(p)
      BY <2>1, ConstantsAssumption DEF OthersKeep, Inv, TypeOK
    <2>5. Knows(p)'
      BY <1>2, <2>1, <2>2 DEF Knows, Inv, TypeOK, KnowledgeIsStable, tables, CreateRequests,
         CreateSteps, CreateNoLock, CreateUserLock, CreateBothLocks, VerifySteps
    <2>6. newId'[p] = None
      BY <2>1 DEF Inv, KnowledgeIsStable, Knows
    <2> QED BY <2>1, <2>3, <2>4, <2>5, <2>6, QuietInv
  <1> QED BY <1>1, <1>2

(* A check that passes: the handler moves on and nothing else happens.      *)
LEMMA PassInv ==
    ASSUME Inv, NEW p \in Procs, NEW step \in CreateSteps, pc[p] \in CreateUserLock,
           Goto(p, step), UNCHANGED <<locks, seen, newId>>, Knows(p)'
    PROVE  Inv'
  <1>1. TypeOK'
    BY DEF Inv, TypeOK, Goto, tables, locks
  <1>2. OthersKeep(p)
    BY DEF Inv, TypeOK, Goto, locks, OthersKeep
  <1>3. newId'[p] = None /\ UNCHANGED tables
    BY DEF Inv, KnowledgeIsStable, Knows, Goto, CreateUserLock
  <1> QED BY <1>1, <1>2, <1>3, QuietInv

(* What p knows after a check is what it knew and what the check adds.      *)
LEMMA CarryOver ==
    ASSUME Inv, NEW p \in Procs, NEW step, Goto(p, step), UNCHANGED <<locks, seen, newId>>
    PROVE  /\ pc'[p] = step /\ req'[p] = req[p] /\ seen'[p] = seen[p] /\ newId'[p] = newId[p]
           /\ UNCHANGED tables /\ userLock' = userLock /\ invLock' = invLock
           /\ KeyIsFree(req[p])' = KeyIsFree(req[p])
           /\ OfferIsFree(req[p])' = OfferIsFree(req[p])
  <1>1. /\ pc'[p] = step /\ req'[p] = req[p] /\ seen'[p] = seen[p] /\ newId'[p] = newId[p]
        /\ UNCHANGED tables /\ userLock' = userLock /\ invLock' = invLock
    BY DEF Inv, TypeOK, Goto, locks
  <1>2. redemptions' = redemptions /\ req'[p] = req[p]
    BY <1>1 DEF tables
  <1>3. KeyIsFree(req[p])' = KeyIsFree(req[p])
    BY <1>2 DEF KeyIsFree, Exists
  <1>4. OfferIsFree(req[p])' = OfferIsFree(req[p])
    BY <1>2 DEF OfferIsFree, Exists
  <1> QED BY <1>1, <1>3, <1>4

(* existingRedemption establishes that the key is free.                     *)
LEMMA CheckExistingInv == ASSUME Inv, NEW p \in Procs, CheckExisting(p) PROVE Inv'
  <1> DEFINE q == req[p]
             found == Existing(q.user, q.key)
  <1>1. pc[p] = "existing" /\ Knows(p)
    BY DEF CheckExisting, Inv, KnowledgeIsStable
  <1>2. CASE found = {} /\ Goto(p, "journey") /\ UNCHANGED <<locks, seen, newId>>
    <2>1. KeyIsFree(q)
      BY <1>2 DEF Existing, KeyIsFree
    <2>2. Knows(p)'
      BY <1>1, <1>2, <2>1, CarryOver DEF Knows, tables, CreateSteps, CreateNoLock,
         CreateUserLock, CreateBothLocks, VerifySteps
    <2> QED BY <1>1, <1>2, <2>2, PassInv DEF CreateSteps, CreateUserLock
  <1>3. ASSUME NEW r \in found,
               \/ End(p, [out |-> redemptions[r].status, rid |-> r]) /\ UNCHANGED tables
               \/ Refuse(p, "key_conflict")
        PROVE  Inv'
    <2>1. r \in Rids /\ redemptions[r] \in Row
      BY DEF Existing, Exists, Inv, TypeOK
    <2>2. [out |-> redemptions[r].status, rid |-> r] \in Answer
      BY <2>1 DEF Answer, Row
    <2> QED BY <1>3, <2>2, AnswerInv, RefuseInv DEF Refusals
  <1> QED BY <1>2, <1>3 DEF CheckExisting

(* The journey check establishes whose journey it is.                       *)
LEMMA CheckJourneyInv == ASSUME Inv, NEW p \in Procs, CheckJourney(p) PROVE Inv'
  <1>1. pc[p] = "journey" /\ Knows(p)
    BY DEF CheckJourney, Inv, KnowledgeIsStable
  <1>2. CASE /\ req[p].journey \in journeys /\ Owner[req[p].journey] = req[p].user
             /\ Goto(p, "redeemed") /\ UNCHANGED <<locks, seen, newId>>
    <2>1. Knows(p)'
      BY <1>1, <1>2, CarryOver DEF Knows, tables, CreateSteps, CreateNoLock,
         CreateUserLock, CreateBothLocks, VerifySteps
    <2> QED BY <1>1, <1>2, <2>1, PassInv DEF CreateSteps, CreateUserLock
  <1> QED BY <1>2, RefuseInv DEF CheckJourney, Refusals

(* The check for an earlier redemption establishes that the offer is free.  *)
LEMMA CheckRedeemedInv == ASSUME Inv, NEW p \in Procs, CheckRedeemed(p) PROVE Inv'
  <1>1. pc[p] = "redeemed" /\ Knows(p)
    BY DEF CheckRedeemed, Inv, KnowledgeIsStable
  <1>2. CASE /\ Redeemed(req[p].user, req[p].offer) = {}
             /\ Goto(p, "offer") /\ UNCHANGED <<locks, seen, newId>>
    <2>1. OfferIsFree(req[p])
      BY <1>2 DEF Redeemed, OfferIsFree
    <2>2. Knows(p)'
      BY <1>1, <1>2, <2>1, CarryOver DEF Knows, tables, CreateSteps, CreateNoLock,
         CreateUserLock, CreateBothLocks, VerifySteps
    <2> QED BY <1>1, <1>2, <2>2, PassInv DEF CreateSteps, CreateUserLock
  <1> QED BY <1>2, RefuseInv DEF CheckRedeemed, Refusals

(* The offer check adds nothing that later statements rely on.              *)
LEMMA CheckOfferInv == ASSUME Inv, NEW p \in Procs, CheckOffer(p) PROVE Inv'
  <1>1. pc[p] = "offer" /\ Knows(p)
    BY DEF CheckOffer, Inv, KnowledgeIsStable
  <1>2. CASE Goto(p, "stock") /\ UNCHANGED <<locks, seen, newId>>
    <2>1. Knows(p)'
      BY <1>1, <1>2, CarryOver DEF Knows, tables, CreateSteps, CreateNoLock,
         CreateUserLock, CreateBothLocks, VerifySteps
    <2> QED BY <1>1, <1>2, <2>1, PassInv DEF CreateSteps, CreateUserLock
  <1> QED BY <1>2, RefuseInv DEF CheckOffer, Refusals

(* FOR UPDATE OF inventory establishes that a unit is left and the points   *)
(* suffice.                                                                 *)
LEMMA LockInventoryInv == ASSUME Inv, NEW p \in Procs, LockInventory(p) PROVE Inv'
  <1> DEFINE o == req[p].offer
  <1>1. pc[p] = "stock" /\ Knows(p) /\ invLock[o] = None
    BY DEF LockInventory, Inv, KnowledgeIsStable
  <1>2. CASE /\ stock[o] # 0 /\ seen[p] >= Cost[o]
             /\ invLock' = [invLock EXCEPT ![o] = p]
             /\ Goto(p, "write")
             /\ UNCHANGED <<userLock, redLock, seen, newId>>
    <2>1. req[p] \in CreateRequests /\ o \in Offers
      BY <1>1 DEF Knows, CreateRequests, CreateSteps, CreateUserLock
    <2>2. TypeOK'
      BY <1>2, <2>1 DEF Inv, TypeOK, Goto, tables, CreateSteps, CreateBothLocks
    <2>3. OthersKeep(p)
      BY <1>1, <1>2, ConstantsAssumption DEF OthersKeep, Goto, Inv, TypeOK
    <2>4. stock[o] > 0 /\ invLock'[o] = p
      BY <1>2, <2>1 DEF Inv, TypeOK
    <2>5. /\ pc'[p] = "write" /\ req' = req /\ redemptions' = redemptions
          /\ UNCHANGED tables /\ seen' = seen /\ newId' = newId /\ userLock' = userLock
      BY <1>2 DEF Inv, TypeOK, Goto, tables
    <2>6. KeyIsFree(req[p])' = KeyIsFree(req[p]) /\ OfferIsFree(req[p])' = OfferIsFree(req[p])
      BY <2>5 DEF KeyIsFree, OfferIsFree, Exists
    <2>7. Knows(p)'
      BY <1>1, <1>2, <2>4, <2>5, <2>6 DEF Knows, tables, CreateSteps, CreateNoLock,
         CreateUserLock, CreateBothLocks, VerifySteps
    <2>8. newId'[p] = None
      BY <1>1, <2>5 DEF Knows
    <2> QED BY <2>2, <2>3, <2>5, <2>7, <2>8, QuietInv
  <1> QED BY <1>2, RefuseInv DEF LockInventory, Refusals

(* The inserts draw an id that is nobody else's.                            *)
LEMMA WriteRowsInv == ASSUME Inv, NEW p \in Procs, WriteRows(p) PROVE Inv'
  <1> DEFINE q == req[p]
  <1>1. pc[p] = "write" /\ Knows(p)
    BY DEF WriteRows, Inv, KnowledgeIsStable
  <1>2. ASSUME NEW r \in Rids,
               Cost[q.offer] # 0, ~Exists(r), \A x \in Procs : newId[x] # r,
               newId' = [newId EXCEPT ![p] = r], Goto(p, "commit"), UNCHANGED <<locks, seen>>
        PROVE  Inv'
    <2>1. q \in CreateRequests /\ Cost[q.offer] > 0
      BY <1>1, <1>2, ConstantsAssumption DEF Knows, CreateRequests, CreateSteps, CreateBothLocks
    <2>2. TypeOK'
      BY <1>2 DEF Inv, TypeOK, Goto, tables, locks, CreateSteps, CreateBothLocks
    <2>3. OthersKeep(p)
      BY <1>2 DEF OthersKeep, Goto, locks, Inv, TypeOK
    <2>4. /\ pc'[p] = "commit" /\ req' = req /\ newId'[p] = r /\ UNCHANGED tables
          /\ redemptions' = redemptions /\ seen' = seen
          /\ userLock' = userLock /\ invLock' = invLock
      BY <1>2 DEF Inv, TypeOK, Goto, tables, locks
    <2>5. KeyIsFree(q)' = KeyIsFree(q) /\ OfferIsFree(q)' = OfferIsFree(q)
          /\ Exists(r)' = Exists(r)
      BY <2>4 DEF KeyIsFree, OfferIsFree, Exists
    <2>6. Knows(p)'
      BY <1>1, <1>2, <2>1, <2>4, <2>5 DEF Knows, tables, CreateSteps, CreateNoLock,
         CreateUserLock, CreateBothLocks, VerifySteps
    <2> QED BY <1>2, <2>2, <2>3, <2>4, <2>6, QuietInv
  <1> QED BY <1>2, RefuseInv DEF WriteRows

(* FOR UPDATE OF r establishes that the redemption is not yet verified.     *)
LEMMA LockRedemptionInv == ASSUME Inv, NEW p \in Procs, LockRedemption(p) PROVE Inv'
  <1> DEFINE q == req[p]
  <1>1. pc[p] = "lockRedemption" /\ Knows(p) /\ q \in VerifyRequests /\ q.rid \in Rids
    BY DEF LockRedemption, Inv, KnowledgeIsStable, Knows, VerifySteps, VerifyRequests
  <1>2. CASE /\ Exists(q.rid) /\ redLock[q.rid] = None
             /\ redemptions[q.rid].status = "succeeded"
             /\ redLock' = [redLock EXCEPT ![q.rid] = p]
             /\ Goto(p, "verify")
             /\ UNCHANGED <<userLock, invLock, seen, newId>>
    <2>1. TypeOK'
      BY <1>2 DEF Inv, TypeOK, Goto, tables, VerifySteps
    <2>2. OthersKeep(p)
      BY <1>2, ConstantsAssumption DEF OthersKeep, Goto, Inv, TypeOK
    <2>3. /\ pc'[p] = "verify" /\ req' = req /\ newId' = newId /\ UNCHANGED tables
          /\ redemptions' = redemptions /\ redLock'[q.rid] = p
      BY <1>1, <1>2 DEF Inv, TypeOK, Goto, tables
    <2>4. Exists(q.rid)'
      BY <1>2, <2>3 DEF Exists
    <2>5. Knows(p)'
      BY <1>1, <1>2, <2>3, <2>4 DEF Knows, CreateSteps, CreateNoLock,
         CreateUserLock, CreateBothLocks, VerifySteps
    <2>6. newId'[p] = None
      BY <1>1, <2>3 DEF Knows
    <2> QED BY <2>1, <2>2, <2>3, <2>5, <2>6, QuietInv
  <1>3. [out |-> "verified", rid |-> q.rid] \in Answer
    BY <1>1 DEF Answer
  <1> QED BY <1>2, <1>3, RefuseInv, AnswerInv DEF LockRedemption, Refusals

(* A new request starts with no knowledge and no locks.                     *)
LEMMA BeginInv ==
    ASSUME Inv, NEW p \in Procs, BeginCreate(p) \/ BeginVerify(p) PROVE Inv'
  <1>1. PICK q \in CreateRequests \cup VerifyRequests, step \in {"lockUser", "lockRedemption"} :
          /\ Begin(p, q, step)
          /\ step = "lockUser" => q \in CreateRequests
          /\ step = "lockRedemption" => q \in VerifyRequests
    BY DEF BeginCreate, BeginVerify
  <1>2. TypeOK'
    BY <1>1 DEF Begin, Inv, TypeOK, tables, locks, CreateSteps, CreateNoLock, VerifySteps
  <1>3. OthersKeep(p)
    BY <1>1 DEF Begin, OthersKeep, locks, Inv, TypeOK
  <1>4. pc'[p] = step /\ req'[p] = q /\ newId' = newId /\ UNCHANGED tables /\ pc[p] = "idle"
    BY <1>1 DEF Begin, Inv, TypeOK
  <1>5. newId'[p] = None
    BY <1>4 DEF Inv, KnowledgeIsStable, Knows
  <1>6. Knows(p)'
    BY <1>1, <1>4, <1>5 DEF Knows, CreateSteps, CreateNoLock,
       CreateUserLock, CreateBothLocks, VerifySteps
  <1> QED BY <1>2, <1>3, <1>4, <1>5, <1>6, QuietInv

(* No handler relies on an offer staying active.                            *)
LEMMA ChangeOfferInv == ASSUME Inv, NEW o \in Offers, ChangeOffer(o) PROVE Inv'
  <1>1. TypeOK'
    BY DEF ChangeOffer, Inv, TypeOK, tables, locks
  <1>2. UNCHANGED <<tables, locks, pc, req, seen, newId>>
    BY DEF ChangeOffer
  <1>3. KnowledgeIsStable'
    BY <1>2 DEF Inv, tables, locks, KnowledgeIsStable, Knows, KeyIsFree, OfferIsFree, Exists
  <1> QED BY <1>1, <1>3 DEF Inv

(* Provisioning changes the balance only of a user without a row, whom no   *)
(* handler can have locked.                                                 *)
LEMMA ProvisionInv ==
    ASSUME Inv, NEW u \in Users, EnsureDemoUser(u),
           journeys \subseteq journeys', journeys' \in SUBSET Journeys,
           outbox' \in [Event -> Nat],
           UNCHANGED <<stock, redemptions, prefs, active, locks, pc, req, seen, newId, reply>>
    PROVE  Inv'
  <1> USE ConstantsAssumption
  <1>1. /\ registered' = registered \cup {u}
        /\ \A v \in registered : balance'[v] = balance[v]
    BY DEF EnsureDemoUser, Inv, TypeOK
  <1>2. balance' \in [Users -> Nat] /\ ledger' \in [Users -> Seq(Entry)]
    <2>1. [rid |-> None, delta |-> DemoPoints, after |-> DemoPoints] \in Entry
      BY DEF Entry
    <2>2. CASE u \in registered
      BY <2>2 DEF EnsureDemoUser, Inv, TypeOK
    <2>3. CASE u \notin registered
      <3>1. balance' = [balance EXCEPT ![u] = DemoPoints]
        BY <2>3 DEF EnsureDemoUser
      <3>2. ledger' = [ledger EXCEPT ![u] =
               Append(@, [rid |-> None, delta |-> DemoPoints, after |-> DemoPoints])]
        BY <2>3 DEF EnsureDemoUser
      <3>3. Append(ledger[u], [rid |-> None, delta |-> DemoPoints, after |-> DemoPoints])
               \in Seq(Entry)
        BY <2>1 DEF Inv, TypeOK
      <3> QED BY <3>1, <3>2, <3>3 DEF Inv, TypeOK
    <2> QED BY <2>2, <2>3
  <1>4. TypeOK'
    BY <1>1, <1>2 DEF Inv, TypeOK, locks
  <1>5. ASSUME NEW q \in Procs PROVE Knows(q)'
    <2>1. KeyIsFree(req[q])' = KeyIsFree(req[q]) /\ OfferIsFree(req[q])' = OfferIsFree(req[q])
      BY DEF KeyIsFree, OfferIsFree, Exists
    <2>2. \A r : Exists(r)' = Exists(r)
      BY DEF Exists
    <2> QED BY <1>1, <2>1, <2>2 DEF Inv, KnowledgeIsStable, Knows, locks
  <1> QED BY <1>4, <1>5 DEF Inv, KnowledgeIsStable

(* A profile request changes nothing else.                                  *)
LEMMA GetUserProfileInv == ASSUME Inv, NEW u \in Users, GetUserProfile(u) PROVE Inv'
  <1>1. journeys' \in SUBSET Journeys /\ outbox' \in [Event -> Nat]
    BY DEF GetUserProfile, Inv, TypeOK
  <1> QED BY <1>1, ProvisionInv DEF GetUserProfile

(* An entry event adds a journey and an outbox row.                         *)
LEMMA CreateEntryEventInv == ASSUME Inv, NEW j \in Journeys, CreateEntryEvent(j) PROVE Inv'
  <1>1. Owner[j] \in Users
    BY ConstantsAssumption
  <1>2. journeys \subseteq journeys' /\ journeys' \in SUBSET Journeys
    BY DEF CreateEntryEvent, Inv, TypeOK
  <1>3. outbox' \in [Event -> Nat]
    BY DEF CreateEntryEvent, Enqueue, Inv, TypeOK, Event
  <1> QED BY <1>1, <1>2, <1>3, ProvisionInv DEF CreateEntryEvent

(* Create's Commit changes the rows of one user, one offer and one id,      *)
(* which no other handler relies on because of the locks.                   *)
LEMMA CommitInv == ASSUME Inv, NEW p \in Procs, Commit(p) PROVE Inv'
  <1> DEFINE q == req[p]
             r == newId[p]
             newBalance == seen[p] - Cost[q.offer]
             row == [user |-> q.user, journey |-> q.journey, offer |-> q.offer,
                     key |-> q.key, status |-> "succeeded"]
  <1> USE ConstantsAssumption
  <1>1. pc[p] = "commit" /\ Knows(p) /\ q \in CreateRequests /\ r \in Rids /\ ~Exists(r)
    BY DEF Commit, Inv, KnowledgeIsStable, Knows, CreateSteps, CreateBothLocks
  <1>2. /\ userLock[q.user] = p /\ invLock[q.offer] = p
        /\ stock[q.offer] > 0 /\ seen[p] >= Cost[q.offer]
    BY <1>1 DEF Knows, CreateBothLocks
  <1>3. /\ q.user \in Users /\ q.offer \in Offers /\ row \in Row
        /\ newBalance \in Nat /\ Cost[q.offer] \in Nat
    BY <1>1, <1>2 DEF CreateRequests, Row, Inv, TypeOK
  <1>4. PICK a \in Answer : End(p, a)
    BY <1>1 DEF Answer, Acknowledged, Commit
  <1>5. /\ redemptions' = [redemptions EXCEPT ![r] = row]
        /\ balance' = [balance EXCEPT ![q.user] = newBalance]
        /\ stock' = [stock EXCEPT ![q.offer] = @ - 1]
        /\ ledger' = [ledger EXCEPT ![q.user] =
              Append(@, [rid |-> r, delta |-> -Cost[q.offer], after |-> newBalance])]
        /\ UNCHANGED <<registered, journeys, active, req>>
    BY DEF Commit, Charge, End
  <1>6. TypeOK'
    <2>1. redemptions' \in [Rids -> Row \cup {None}]
      BY <1>1, <1>3, <1>5 DEF Inv, TypeOK
    <2>2. balance' \in [Users -> Nat] /\ stock' \in [Offers -> Nat]
      BY <1>2, <1>3, <1>5 DEF Inv, TypeOK
    <2>3. ledger' \in [Users -> Seq(Entry)]
      <3>1. [rid |-> r, delta |-> -Cost[q.offer], after |-> newBalance] \in Entry
        BY <1>1, <1>3 DEF Entry
      <3>2. Append(ledger[q.user], [rid |-> r, delta |-> -Cost[q.offer], after |-> newBalance])
              \in Seq(Entry)
        BY <1>3, <3>1 DEF Inv, TypeOK
      <3> QED BY <1>5, <3>2 DEF Inv, TypeOK
    <2>4. prefs' \in [Users -> [Categories -> [weight : Int, redemptions : Nat]]]
      <3> DEFINE c == Category[q.offer]
                 old == prefs[q.user][c]
                 new == [weight |-> Clamp(old.weight + RedemptionDelta),
                         redemptions |-> old.redemptions + 1]
      <3>1. c \in Categories
        BY <1>3
      <3>2. old \in [weight : Int, redemptions : Nat]
        BY <1>3, <3>1 DEF Inv, TypeOK
      <3>3. new \in [weight : Int, redemptions : Nat]
        BY <3>2 DEF Clamp, WeightCap, RedemptionDelta
      <3>4. prefs' = [prefs EXCEPT ![q.user] = [prefs[q.user] EXCEPT ![c] = new]]
        BY <1>3, <3>1 DEF Commit, Charge, ApplyPreferenceFeedback, Inv, TypeOK
      <3>5. [prefs[q.user] EXCEPT ![c] = new] \in [Categories -> [weight : Int, redemptions : Nat]]
        BY <1>3, <3>1, <3>3 DEF Inv, TypeOK
      <3> QED BY <3>4, <3>5 DEF Inv, TypeOK
    <2>5. outbox' \in [Event -> Nat]
      BY <1>1 DEF Commit, enqueueSucceededEvent, Enqueue, Inv, TypeOK, Event
    <2> QED BY <1>4, <1>5, <2>1, <2>2, <2>3, <2>4, <2>5, EndFrame DEF Inv, TypeOK
  <1>7. ASSUME NEW x \in Procs \ {p} PROVE Knows(x)'
    <2>1. /\ Knows(x) /\ OthersKeep(p)
          /\ pc'[x] = pc[x] /\ req'[x] = req[x] /\ seen'[x] = seen[x] /\ newId'[x] = newId[x]
      BY <1>4, EndFrame DEF Inv, KnowledgeIsStable, OthersKeep
    <2>2. pc[x] \in CreateUserLock \cup CreateBothLocks =>
             /\ req[x].user # q.user /\ req[x] \in CreateRequests
             /\ userLock'[req[x].user] = x /\ balance'[req[x].user] = balance[req[x].user]
      BY <1>2, <1>5, <2>1 DEF Knows, OthersKeep, CreateRequests, CreateSteps, Inv, TypeOK
    <2>3. req[x].user # q.user /\ KeyIsFree(req[x]) => KeyIsFree(req[x])'
      BY <1>1, <1>5, <2>1 DEF KeyIsFree, Exists, Inv, TypeOK
    <2>4. req[x].user # q.user /\ OfferIsFree(req[x]) => OfferIsFree(req[x])'
      BY <1>1, <1>5, <2>1 DEF OfferIsFree, Exists, Inv, TypeOK
    <2>5. pc[x] \in CreateBothLocks =>
             invLock'[req[x].offer] = x /\ stock'[req[x].offer] = stock[req[x].offer]
      BY <1>2, <1>5, <2>1 DEF Knows, OthersKeep, CreateRequests, CreateSteps, Inv, TypeOK
    <2>6. pc[x] = "commit" => newId[x] # r /\ ~Exists(newId[x])'
      BY <1>1, <1>5, <2>1 DEF Knows, Exists, Inv, TypeOK, KnowledgeIsStable
    <2>7. pc[x] = "verify" => /\ redLock'[req[x].rid] = x /\ Exists(req[x].rid)'
                              /\ redemptions'[req[x].rid] = redemptions[req[x].rid]
      BY <1>1, <1>5, <2>1 DEF Knows, OthersKeep, VerifyRequests, VerifySteps, Exists, Inv, TypeOK
    <2> QED BY <1>5, <2>1, <2>2, <2>3, <2>4, <2>5, <2>6, <2>7
            DEF Knows, CreateUserLock, CreateBothLocks
  <1>8. Knows(p)' /\ OthersKeep(p) /\ newId'[p] = None
    BY <1>4, EndFrame
  <1>9. (\A x, y \in Procs : newId[x] = newId[y] /\ newId[x] # None => x = y)'
    BY <1>8, IdsStayDistinct
  <1> QED BY <1>6, <1>7, <1>8, <1>9 DEF Inv, KnowledgeIsStable

(* Verify's Commit changes the status of one redemption, which no other     *)
(* handler has locked.                                                      *)
LEMMA CommitVerifyInv == ASSUME Inv, NEW p \in Procs, CommitVerify(p) PROVE Inv'
  <1> DEFINE r == req[p].rid
  <1>1. /\ pc[p] = "verify" /\ Knows(p) /\ r \in Rids /\ Exists(r) /\ redLock[r] = p
        /\ redemptions[r] \in Row
    BY DEF CommitVerify, Inv, KnowledgeIsStable, Knows, VerifySteps, VerifyRequests, TypeOK, Exists
  <1>2. PICK a \in Answer : End(p, a)
    BY <1>1 DEF Answer, Acknowledged, CommitVerify
  <1>3. /\ redemptions' = [redemptions EXCEPT ![r] = [redemptions[r] EXCEPT !.status = "verified"]]
        /\ UNCHANGED <<registered, journeys, balance, ledger, stock, prefs, active, req>>
    BY <1>1 DEF CommitVerify, End
  <1>4. \A x \in Rids : /\ Exists(x)' = Exists(x)
                        /\ Exists(x) => /\ redemptions'[x].user = redemptions[x].user
                                        /\ redemptions'[x].key = redemptions[x].key
                                        /\ redemptions'[x].offer = redemptions[x].offer
    BY <1>1, <1>3, ConstantsAssumption DEF Exists, Inv, TypeOK, Row
  <1>5. TypeOK'
    <2>1. redemptions' \in [Rids -> Row \cup {None}]
      BY <1>1, <1>3 DEF Inv, TypeOK, Row
    <2>2. outbox' \in [Event -> Nat]
      BY <1>1 DEF CommitVerify, enqueueVerifiedEvent, Enqueue, Inv, TypeOK, Event
    <2> QED BY <1>2, <1>3, <2>1, <2>2, EndFrame DEF Inv, TypeOK
  <1>6. ASSUME NEW x \in Procs \ {p} PROVE Knows(x)'
    <2>1. /\ Knows(x) /\ OthersKeep(p)
          /\ pc'[x] = pc[x] /\ req'[x] = req[x] /\ seen'[x] = seen[x] /\ newId'[x] = newId[x]
      BY <1>2, EndFrame DEF Inv, KnowledgeIsStable, OthersKeep
    <2>2. pc[x] \in CreateUserLock \cup CreateBothLocks => userLock'[req[x].user] = x
      BY <2>1 DEF Knows, OthersKeep, CreateRequests, CreateSteps, Inv, TypeOK
    <2>3. KeyIsFree(req[x]) => KeyIsFree(req[x])'
      BY <1>4, <2>1 DEF KeyIsFree
    <2>4. OfferIsFree(req[x]) => OfferIsFree(req[x])'
      BY <1>4, <2>1 DEF OfferIsFree
    <2>5. pc[x] \in CreateBothLocks => invLock'[req[x].offer] = x
      BY <2>1 DEF Knows, OthersKeep, CreateRequests, CreateSteps, Inv, TypeOK
    <2>6. pc[x] = "commit" => ~Exists(newId[x])'
      BY <1>4, <2>1 DEF Knows
    <2>7. pc[x] = "verify" => /\ redLock'[req[x].rid] = x /\ Exists(req[x].rid)'
                              /\ redemptions'[req[x].rid] = redemptions[req[x].rid]
      BY <1>1, <1>3, <1>4, <2>1 DEF Knows, OthersKeep, VerifyRequests, VerifySteps, Inv, TypeOK
    <2> QED BY <1>3, <2>1, <2>2, <2>3, <2>4, <2>5, <2>6, <2>7 DEF Knows
  <1>7. Knows(p)' /\ OthersKeep(p) /\ newId'[p] = None
    BY <1>2, EndFrame
  <1>8. (\A x, y \in Procs : newId[x] = newId[y] /\ newId[x] # None => x = y)'
    BY <1>7, IdsStayDistinct
  <1> QED BY <1>5, <1>6, <1>7, <1>8 DEF Inv, KnowledgeIsStable

-----------------------------------------------------------------------------
(* Every step keeps the invariant.                                          *)
LEMMA NextInv == Inv /\ [Next]_vars => Inv'
  <1> SUFFICES ASSUME Inv, [Next]_vars PROVE Inv'
    OBVIOUS
  <1>1. CASE UNCHANGED vars
    BY <1>1 DEF vars, tables, locks, Inv, TypeOK, KnowledgeIsStable, Knows,
                KeyIsFree, OfferIsFree, Exists
  <1>2. ASSUME NEW j \in Journeys, CreateEntryEvent(j) PROVE Inv'
    BY <1>2, CreateEntryEventInv
  <1>7. ASSUME NEW u \in Users, GetUserProfile(u) PROVE Inv'
    BY <1>7, GetUserProfileInv
  <1>3. ASSUME NEW o \in Offers, ChangeOffer(o) PROVE Inv'
    BY <1>3, ChangeOfferInv
  <1>4. ASSUME NEW p \in Procs, BeginCreate(p) \/ BeginVerify(p) PROVE Inv'
    BY <1>4, BeginInv
  <1>5. ASSUME NEW p \in Procs, Abort(p) PROVE Inv'
    BY <1>5, RefuseInv DEF Abort
  <1>6. ASSUME NEW p \in Procs, Step(p) PROVE Inv'
    BY <1>6, LockUserInv, CheckExistingInv, CheckJourneyInv, CheckRedeemedInv, CheckOfferInv,
       LockInventoryInv, WriteRowsInv, CommitInv, LockRedemptionInv, CommitVerifyInv DEF Step
  <1> QED BY <1>1, <1>2, <1>3, <1>4, <1>5, <1>6, <1>7 DEF Next

(* The invariant holds in every reachable state.                            *)
LEMMA InvHolds == Spec => []Inv
  BY InitInv, NextInv, PTL DEF Spec

(* Every variable keeps its type; in particular no interleaving of Create   *)
(* calls makes a balance or a stock negative.                               *)
THEOREM TypeCorrect == Spec => []TypeOK
  BY InvHolds, PTL DEF Inv

(* What Create and Verify check stays true until they commit.               *)
THEOREM Stability == Spec => []KnowledgeIsStable
  BY InvHolds, PTL DEF Inv

-----------------------------------------------------------------------------
(* Every step on the tables is a step of the atomic service.                *)

(* The initial tables are the abstract ones.                                *)
LEMMA AtomicInit == Init => Atomic!Init
  BY DEF Init, Atomic!Init

(* A refusal changes no table.                                              *)
LEMMA RefuseQuiet ==
    ASSUME NEW p, NEW why, Refuse(p, why) PROVE UNCHANGED Atomic!tables
  BY DEF Refuse, tables, Atomic!tables

(* A step to the next statement changes no table.                           *)
LEMMA GotoQuiet ==
    ASSUME NEW p, NEW step, Goto(p, step) PROVE UNCHANGED Atomic!tables
  BY DEF Goto, tables, Atomic!tables

(* A user without a row has no points and no ledger.                        *)
NoAccount == \A u \in Users \ registered : balance[u] = 0 /\ ledger[u] = <<>>

(* EnsureDemoUser is the abstract Welcome: a user without a row has balance *)
(* zero.                                                                    *)
LEMMA WelcomeStep ==
    ASSUME Inv, NoAccount, NEW u \in Users, EnsureDemoUser(u)
    PROVE  Atomic!Welcome(u)
  <1>1. DemoPoints \in Nat
    BY ConstantsAssumption
  <1>2. CASE u \in registered
    BY <1>2 DEF EnsureDemoUser, Atomic!Welcome
  <1>3. CASE u \notin registered
    <2>1. balance[u] + DemoPoints = DemoPoints /\ DemoPoints >= 0
      BY <1>1, <1>3 DEF NoAccount
    <2>2. Atomic!Pay(u, None, DemoPoints)
      BY <1>1, <1>3, <2>1 DEF EnsureDemoUser, Atomic!Pay, Inv, TypeOK
    <2> QED BY <1>3, <2>2 DEF EnsureDemoUser, Atomic!Welcome
  <1> QED BY <1>2, <1>3

(* A profile request is the abstract Look.                                  *)
LEMMA LookStep ==
    ASSUME Inv, NoAccount, NEW u \in Users, GetUserProfile(u)
    PROVE  Atomic!Next
  BY WelcomeStep DEF GetUserProfile, Atomic!Look, Atomic!Next

(* An entry event is the abstract Enter.                                    *)
LEMMA EnterStep ==
    ASSUME Inv, NoAccount, NEW j \in Journeys, CreateEntryEvent(j)
    PROVE  Atomic!Next
  <1>1. Owner[j] \in Users
    BY ConstantsAssumption
  <1>2. Atomic!Welcome(Owner[j])
    BY <1>1, WelcomeStep DEF CreateEntryEvent
  <1> QED BY <1>2 DEF CreateEntryEvent, Atomic!Next, Atomic!Enter, Atomic!Record, Enqueue

(* Create's Commit is the abstract Redeem: what the handler knows is what   *)
(* Redeem asks for, and the balance it read is the balance.                 *)
LEMMA RedeemStep ==
    ASSUME Inv, NEW p \in Procs, Commit(p)
    PROVE  Atomic!Next
  <1> DEFINE q == req[p]
             r == newId[p]
  <1>1. /\ pc[p] = "commit" /\ Knows(p) /\ q \in CreateRequests /\ r \in Rids /\ ~Exists(r)
        /\ KeyIsFree(q) /\ OfferIsFree(q) /\ Cost[q.offer] > 0
        /\ q.user \in registered /\ q.journey \in journeys /\ Owner[q.journey] = q.user
        /\ stock[q.offer] > 0 /\ seen[p] = balance[q.user] /\ seen[p] >= Cost[q.offer]
    BY DEF Commit, Inv, KnowledgeIsStable, Knows, CreateSteps, CreateUserLock, CreateBothLocks
  <1>2. /\ q.user \in Users /\ q.journey \in Journeys /\ q.offer \in Offers /\ q.key \in Keys
        /\ balance[q.user] \in Nat /\ Cost[q.offer] \in Nat
        /\ balance[q.user] + (-Cost[q.offer]) = seen[p] - Cost[q.offer]
    BY <1>1, ConstantsAssumption DEF CreateRequests, Inv, TypeOK
  <1>3. Atomic!Pay(q.user, r, -Cost[q.offer])
    <2> DEFINE newBalance == seen[p] - Cost[q.offer]
    <2>1. newBalance >= 0 /\ newBalance = balance[q.user] + (-Cost[q.offer])
      BY <1>1, <1>2
    <2>2. /\ balance' = [balance EXCEPT ![q.user] = newBalance]
          /\ ledger' = [ledger EXCEPT ![q.user] =
                Append(@, [rid |-> r, delta |-> -Cost[q.offer], after |-> newBalance])]
      BY DEF Commit, Charge
    <2> HIDE DEF newBalance
    <2> QED BY <2>1, <2>2 DEF Atomic!Pay
  <1>4. Atomic!Record("redemption.succeeded", r)
    BY DEF Atomic!Record, Commit, enqueueSucceededEvent, Enqueue
  <1>5. \A x \in Atomic!Made : redemptions[x].user = q.user =>
           redemptions[x].key # q.key /\ redemptions[x].offer # q.offer
    BY <1>1 DEF Atomic!Made, KeyIsFree, OfferIsFree, Exists
  <1>6. Atomic!Redeem(q.user, q.journey, q.offer, q.key, r)
    BY <1>1, <1>2, <1>3, <1>4, <1>5 DEF Atomic!Redeem, Atomic!Made, Exists, Commit, Charge
  <1> QED BY <1>1, <1>2, <1>6 DEF Atomic!Next

(* Verify's Commit is the abstract Consume.                                 *)
LEMMA ConsumeStep ==
    ASSUME Inv, NEW p \in Procs, CommitVerify(p)
    PROVE  Atomic!Next
  <1> DEFINE r == req[p].rid
  <1>1. r \in Rids /\ Exists(r) /\ redemptions[r].status = "succeeded"
    BY DEF CommitVerify, Inv, KnowledgeIsStable, Knows, VerifySteps, VerifyRequests
  <1>2. Atomic!Consume(r)
    BY <1>1 DEF Atomic!Consume, Atomic!Made, Atomic!Record, Exists, CommitVerify,
       enqueueVerifiedEvent, Enqueue
  <1> QED BY <1>1, <1>2 DEF Atomic!Next

(* Every step of the service is an abstract step or leaves the tables       *)
(* alone.                                                                   *)
LEMMA StepRefines == Inv /\ NoAccount /\ [Next]_vars => [Atomic!Next]_(Atomic!tables)
  <1> SUFFICES ASSUME Inv, NoAccount, [Next]_vars
               PROVE  Atomic!Next \/ UNCHANGED Atomic!tables
    OBVIOUS
  <1>1. CASE UNCHANGED vars
    BY <1>1 DEF vars, tables, Atomic!tables
  <1>2. ASSUME NEW j \in Journeys, CreateEntryEvent(j) PROVE Atomic!Next
    BY <1>2, EnterStep
  <1>7. ASSUME NEW u \in Users, GetUserProfile(u) PROVE Atomic!Next
    BY <1>7, LookStep
  <1>3. ASSUME NEW o \in Offers, ChangeOffer(o) PROVE UNCHANGED Atomic!tables
    BY <1>3 DEF ChangeOffer, tables, Atomic!tables
  <1>4. ASSUME NEW p \in Procs, BeginCreate(p) \/ BeginVerify(p) PROVE UNCHANGED Atomic!tables
    BY <1>4 DEF BeginCreate, BeginVerify, Begin, tables, Atomic!tables
  <1>5. ASSUME NEW p \in Procs, Abort(p) PROVE UNCHANGED Atomic!tables
    BY <1>5, RefuseQuiet DEF Abort
  <1>6. ASSUME NEW p \in Procs, Step(p) PROVE Atomic!Next \/ UNCHANGED Atomic!tables
    <2>1. CASE Commit(p)
      BY <2>1, RedeemStep
    <2>2. CASE CommitVerify(p)
      BY <2>2, ConsumeStep
    <2>3. CASE LockUser(p) \/ CheckJourney(p) \/ CheckRedeemed(p) \/ CheckOffer(p) \/ LockInventory(p)
      BY <2>3, RefuseQuiet, GotoQuiet
         DEF LockUser, CheckJourney, CheckRedeemed, CheckOffer, LockInventory
    <2>4. CASE WriteRows(p)
      BY <2>4, RefuseQuiet, GotoQuiet DEF WriteRows
    <2>5. CASE CheckExisting(p)
      BY <2>5, RefuseQuiet, GotoQuiet DEF CheckExisting, tables, Atomic!tables
    <2>6. CASE LockRedemption(p)
      BY <2>6, RefuseQuiet, GotoQuiet DEF LockRedemption, tables, Atomic!tables
    <2> QED BY <1>6, <2>1, <2>2, <2>3, <2>4, <2>5, <2>6 DEF Step
  <1> QED BY <1>1, <1>2, <1>3, <1>4, <1>5, <1>6, <1>7 DEF Next

-----------------------------------------------------------------------------
(* Facts about the tables are proved of the atomic steps, where no handler, *)
(* lock or local variable is left.                                          *)

Tables ==
    /\ balance \in [Users -> Nat]
    /\ ledger \in [Users -> Seq(Entry)]
    /\ NoAccount
    /\ LedgerChain

(* The abstract Pay extends the chain of one user's ledger by one entry and *)
(* leaves the others alone.                                                 *)
LEMMA PayChain ==
    ASSUME Tables, NEW u \in Users, NEW r \in Rids \cup {None}, NEW d \in Int, Atomic!Pay(u, r, d)
    PROVE  LedgerChain' /\ ledger' \in [Users -> Seq(Entry)] /\ balance' \in [Users -> Nat]
  <1> DEFINE entry == [rid |-> r, delta |-> d, after |-> balance[u] + d]
             n == Len(ledger[u])
  <1>1. /\ balance' = [balance EXCEPT ![u] = balance[u] + d] /\ balance[u] + d >= 0
        /\ ledger' = [ledger EXCEPT ![u] = Append(ledger[u], entry)]
        /\ entry \in Entry /\ n \in Nat /\ ledger[u] \in Seq(Entry) /\ balance[u] \in Nat
    <2>1. n \in Nat /\ ledger[u] \in Seq(Entry) /\ balance[u] \in Nat
      BY DEF Tables
    <2>2. entry \in Entry
      BY <2>1 DEF Entry
    <2>3. /\ balance' = [balance EXCEPT ![u] = balance[u] + d] /\ balance[u] + d >= 0
          /\ ledger' = [ledger EXCEPT ![u] = Append(ledger[u], entry)]
      BY DEF Atomic!Pay
    <2> QED BY <2>1, <2>2, <2>3
  <1>2. ledger' \in [Users -> Seq(Entry)] /\ balance' \in [Users -> Nat]
    BY <1>1 DEF Tables
  <1>3. ASSUME NEW v \in Users
        PROVE  /\ \A i \in 1..Len(ledger'[v]) : ledger'[v][i].after =
                     (IF i = 1 THEN 0 ELSE ledger'[v][i-1].after) + ledger'[v][i].delta
               /\ balance'[v] = IF Len(ledger'[v]) = 0 THEN 0 ELSE ledger'[v][Len(ledger'[v])].after
    <2>1. CASE v # u
      BY <1>1, <2>1 DEF Tables, LedgerChain
    <2>2. CASE v = u
      <3>1. /\ ledger'[v] = Append(ledger[u], entry) /\ Len(ledger'[v]) = n + 1
            /\ ledger'[v][n + 1] = entry
            /\ \A i \in 1..n : ledger'[v][i] = ledger[u][i]
        BY <1>1, <2>2 DEF Tables
      <3>2. balance'[v] = ledger'[v][n + 1].after
        BY <1>1, <2>2, <3>1 DEF Tables
      <3>3. ASSUME NEW i \in 1..n
            PROVE  ledger'[v][i].after =
                     (IF i = 1 THEN 0 ELSE ledger'[v][i-1].after) + ledger'[v][i].delta
        <4>1. ledger[u][i].after =
                (IF i = 1 THEN 0 ELSE ledger[u][i-1].after) + ledger[u][i].delta
          BY DEF Tables, LedgerChain
        <4>2. i = 1 \/ i - 1 \in 1..n
          BY <1>1
        <4> QED BY <3>1, <4>1, <4>2
      <3>4. entry.after = (IF n + 1 = 1 THEN 0 ELSE ledger'[v][n].after) + entry.delta
        BY <1>1, <3>1 DEF Tables, LedgerChain
      <3> QED BY <1>1, <3>1, <3>2, <3>3, <3>4
    <2> QED BY <2>1, <2>2
  <1> QED BY <1>2, <1>3 DEF LedgerChain

(* The tables' own invariant holds of empty tables.                         *)
LEMMA TablesInit == Init => Tables
  BY DEF Init, Tables, NoAccount, LedgerChain

(* Every abstract step keeps it, so it need not be shown of the detailed    *)
(* ones.                                                                    *)
LEMMA TablesNext == Tables /\ [Atomic!Next]_(Atomic!tables) => Tables'
  <1> SUFFICES ASSUME Tables, [Atomic!Next]_(Atomic!tables) PROVE Tables'
    OBVIOUS
  <1> USE ConstantsAssumption
  <1>1. CASE UNCHANGED Atomic!tables
    BY <1>1 DEF Atomic!tables, Tables, NoAccount, LedgerChain
  <1>5. ASSUME NEW u \in Users, Atomic!Welcome(u) PROVE Tables'
    <2>1. CASE u \in registered
      <3>1. registered' = registered \cup {u} /\ balance' = balance /\ ledger' = ledger
        BY <1>5, <2>1 DEF Atomic!Welcome
      <3>2. NoAccount'
        BY <3>1 DEF Tables, NoAccount
      <3>3. LedgerChain'
        BY <3>1 DEF Tables, LedgerChain
      <3> QED BY <3>1, <3>2, <3>3 DEF Tables
    <2>2. CASE u \notin registered
      <3>1. Atomic!Pay(u, None, DemoPoints) /\ DemoPoints \in Int
        BY <1>5, <2>2 DEF Atomic!Welcome
      <3>2. LedgerChain' /\ ledger' \in [Users -> Seq(Entry)] /\ balance' \in [Users -> Nat]
        BY <3>1, PayChain
      <3>3. NoAccount'
        BY <1>5, <3>1 DEF Atomic!Welcome, Atomic!Pay, Tables, NoAccount
      <3> QED BY <3>2, <3>3 DEF Tables
    <2> QED BY <2>1, <2>2
  <1>2. ASSUME NEW j \in Journeys, Atomic!Enter(j) PROVE Tables'
    BY <1>2, <1>5 DEF Atomic!Enter
  <1>6. ASSUME NEW u \in Users, Atomic!Look(u) PROVE Tables'
    BY <1>5, <1>6 DEF Atomic!Look
  <1>3. ASSUME NEW u \in Users, NEW j \in Journeys, NEW o \in Offers, NEW k \in Keys,
               NEW r \in Rids, Atomic!Redeem(u, j, o, k, r)
        PROVE  Tables'
    <2>1. Atomic!Pay(u, r, -Cost[o]) /\ -Cost[o] \in Int /\ u \in registered
      BY <1>3 DEF Atomic!Redeem
    <2>2. LedgerChain' /\ ledger' \in [Users -> Seq(Entry)] /\ balance' \in [Users -> Nat]
      BY <2>1, PayChain
    <2>3. NoAccount'
      BY <1>3, <2>1 DEF Atomic!Redeem, Atomic!Pay, Tables, NoAccount
    <2> QED BY <2>2, <2>3 DEF Tables
  <1>4. ASSUME NEW r \in Rids, Atomic!Consume(r) PROVE Tables'
    BY <1>4 DEF Atomic!Consume, Tables, NoAccount, LedgerChain
  <1> QED BY <1>1, <1>2, <1>3, <1>4, <1>6 DEF Atomic!Next

(* Both invariants hold in every reachable state.                           *)
LEMMA TablesHold == Spec => [](Inv /\ Tables)
  <1>1. Init => Inv /\ Tables
    BY InitInv, TablesInit
  <1>2. Inv /\ Tables /\ [Next]_vars => (Inv /\ Tables)'
    BY NextInv, StepRefines, TablesNext DEF Tables
  <1> QED BY <1>1, <1>2, PTL DEF Spec

(* The ledger of a rider always adds up to the balance: no interleaving of  *)
(* Create calls loses an update of point_balance.                           *)
THEOREM LedgerAddsUp == Spec => []LedgerChain
  BY TablesHold, PTL DEF Tables

(* The service with its row locks, READ COMMITTED reads, aborts and retries *)
(* implements the one that executes every request alone.                    *)
THEOREM Serializability == Spec => Serializable
  <1>1. Inv /\ Tables /\ [Next]_vars => [Atomic!Next]_(Atomic!tables)
    BY StepRefines DEF Tables
  <1> QED BY <1>1, AtomicInit, TablesHold, PTL DEF Spec, Serializable, Atomic!Spec

-----------------------------------------------------------------------------
(* With positive costs, what the handler knows rules out each refusal of    *)
(* WriteRows.                                                               *)
LEMMA WriteNeverRefused ==
    ASSUME Inv, \A o \in Offers : Cost[o] > 0, NEW p \in Procs, WriteRows(p)
    PROVE  reply' = reply
  <1> DEFINE q == req[p]
  <1>1. /\ q \in CreateRequests /\ KeyIsFree(q) /\ OfferIsFree(q)
        /\ stock[q.offer] > 0 /\ seen[p] >= Cost[q.offer]
    BY DEF WriteRows, Inv, KnowledgeIsStable, Knows, CreateSteps, CreateBothLocks
  <1>2. q.offer \in Offers /\ Cost[q.offer] \in Nat /\ seen[p] \in Nat /\ stock[q.offer] \in Nat
    BY <1>1, ConstantsAssumption DEF CreateRequests, Inv, TypeOK
  <1>3. ~\E r \in Rids : Exists(r) /\ Collide(redemptions[r], q)
    BY <1>1 DEF KeyIsFree, OfferIsFree, Collide
  <1>4. ~(seen[p] < Cost[q.offer]) /\ stock[q.offer] # 0 /\ Cost[q.offer] # 0
    BY <1>1, <1>2
  <1> QED BY <1>3, <1>4 DEF WriteRows, Goto

(* When every offer costs something, what Create checks under its locks is  *)
(* all that the schema demands: no constraint ever refuses its writes.      *)
THEOREM ChecksSuffice ==
    ASSUME \A o \in Offers : Cost[o] > 0
    PROVE  Spec => []ConstraintsNeverFire
  <1>1. Init => ConstraintsNeverFire
    BY DEF Init, ConstraintsNeverFire
  <1>2. Inv /\ ConstraintsNeverFire /\ [Next]_vars => ConstraintsNeverFire'
    <2> SUFFICES ASSUME Inv, ConstraintsNeverFire, [Next]_vars PROVE ConstraintsNeverFire'
      OBVIOUS
    <2>1. ASSUME NEW p \in Procs, NEW a, End(p, a), a.out # "constraint"
          PROVE  ConstraintsNeverFire'
      BY <2>1 DEF End, ConstraintsNeverFire, Inv, TypeOK
    <2>2. ASSUME NEW p \in Procs, NEW why, Refuse(p, why), why # "constraint"
          PROVE  ConstraintsNeverFire'
      BY <2>1, <2>2 DEF Refuse
    <2>3. ASSUME reply' = reply PROVE ConstraintsNeverFire'
      BY <2>3 DEF ConstraintsNeverFire
    <2>4. ASSUME NEW p \in Procs, BeginCreate(p) \/ BeginVerify(p) PROVE ConstraintsNeverFire'
      BY <2>4 DEF BeginCreate, BeginVerify, Begin, ConstraintsNeverFire, Inv, TypeOK
    <2>5. ASSUME NEW p \in Procs, Abort(p) PROVE ConstraintsNeverFire'
      BY <2>2, <2>5 DEF Abort
    <2>6. ASSUME NEW p \in Procs, CheckExisting(p) PROVE ConstraintsNeverFire'
      <3>1. ASSUME NEW r \in Existing(req[p].user, req[p].key)
            PROVE  redemptions[r].status # "constraint"
        BY DEF Existing, Exists, Inv, TypeOK, Row
      <3> QED BY <2>1, <2>2, <2>3, <2>6, <3>1 DEF CheckExisting, Goto
    <2>7. ASSUME NEW p \in Procs, WriteRows(p) PROVE ConstraintsNeverFire'
      BY <2>3, <2>7, WriteNeverRefused
    <2>8. ASSUME NEW p \in Procs, LockUser(p) \/ CheckJourney(p) \/ CheckRedeemed(p)
                                    \/ CheckOffer(p) \/ LockInventory(p)
          PROVE  ConstraintsNeverFire'
      BY <2>2, <2>3, <2>8
         DEF LockUser, CheckJourney, CheckRedeemed, CheckOffer, LockInventory, Goto
    <2>9. ASSUME NEW p \in Procs, Commit(p) \/ LockRedemption(p) \/ CommitVerify(p)
          PROVE  ConstraintsNeverFire'
      BY <2>1, <2>2, <2>3, <2>9 DEF Commit, LockRedemption, CommitVerify, Acknowledged, Goto
    <2> QED BY <2>3, <2>4, <2>5, <2>6, <2>7, <2>8, <2>9
            DEF Next, Step, vars, GetUserProfile, CreateEntryEvent, ChangeOffer
  <1> QED BY <1>1, <1>2, InvHolds, PTL DEF Spec
-----------------------------------------------------------------------------
(* What the tables say of each other, again proved of the atomic steps.     *)

(* A key of a user belongs to one redemption at most.                       *)
KeysUnique ==
    \A r, s \in Rids :
        /\ Exists(r) /\ Exists(s)
        /\ redemptions[r].user = redemptions[s].user
        /\ redemptions[r].key = redemptions[s].key
        => r = s

(* Only users with a row have redemptions.                                  *)
RidersKnown == \A r \in Rids : Exists(r) => redemptions[r].user \in registered

Books == PaidOnce /\ EventsMatchRows /\ StockConserved /\ KeysUnique /\ RidersKnown

Entries(u, r) == {i \in DOMAIN ledger[u] : ledger[u][i].rid = r}

(* PaidOnce, by the name of its set of entries.                             *)
LEMMA PaidOnceEntries ==
    PaidOnce <=>
      \A r \in Rids : \A u \in Users :
        IF Exists(r) /\ redemptions[r].user = u
        THEN \E i \in DOMAIN ledger[u] :
                Entries(u, r) = {i} /\ ledger[u][i].delta = -Cost[redemptions[r].offer]
        ELSE Entries(u, r) = {}
  BY DEF PaidOnce, Entries

(* The abstract Pay adds its entry to the ledger of its user and leaves all *)
(* earlier entries in place.                                                *)
LEMMA PayEntries ==
    ASSUME Inv, NEW u \in Users, NEW r, NEW d, Atomic!Pay(u, r, d)
    PROVE  LET n == Len(ledger[u]) IN
           /\ \A v \in Users : \A i \in DOMAIN ledger[v] :
                 i \in DOMAIN ledger'[v] /\ ledger'[v][i] = ledger[v][i]
           /\ \A v \in Users : \A x : v # u \/ x # r => Entries(v, x)' = Entries(v, x)
           /\ Entries(u, r)' = Entries(u, r) \cup {n + 1}
           /\ n + 1 \in DOMAIN ledger'[u] /\ ledger'[u][n + 1].delta = d
  <1> DEFINE n == Len(ledger[u])
             entry == [rid |-> r, delta |-> d, after |-> balance[u] + d]
  <1>1. ledger' = [ledger EXCEPT ![u] = Append(ledger[u], entry)]
    BY DEF Atomic!Pay
  <1>2. ledger \in [Users -> Seq(Entry)] /\ ledger[u] \in Seq(Entry) /\ n \in Nat
    BY DEF Inv, TypeOK
  <1>3. /\ DOMAIN ledger[u] = 1..n /\ DOMAIN ledger'[u] = 1..(n + 1)
        /\ ledger'[u][n + 1] = entry
        /\ \A i \in 1..n : ledger'[u][i] = ledger[u][i]
    <2> HIDE DEF entry
    <2> QED BY <1>1, <1>2
  <1>4. \A v \in Users : v # u => ledger'[v] = ledger[v]
    BY <1>1, <1>2
  <1>5. entry.rid = r /\ entry.delta = d
    OBVIOUS
  <1> HIDE DEF entry
  <1>6. \A v \in Users : \A i \in DOMAIN ledger[v] :
           i \in DOMAIN ledger'[v] /\ ledger'[v][i] = ledger[v][i]
    BY <1>2, <1>3, <1>4
  <1>7. ASSUME NEW v \in Users, NEW x, v # u \/ x # r
        PROVE  Entries(v, x)' = Entries(v, x)
    <2>1. CASE v # u
      BY <1>4, <2>1 DEF Entries
    <2>2. CASE v = u /\ x # r
      BY <1>2, <1>3, <1>5, <2>2 DEF Entries
    <2> QED BY <1>7, <2>1, <2>2
  <1>8. Entries(u, r)' = Entries(u, r) \cup {n + 1}
    BY <1>2, <1>3, <1>5 DEF Entries
  <1> QED BY <1>2, <1>3, <1>5, <1>6, <1>7, <1>8

(* A payment for no redemption, and rows that stay as they are but for      *)
(* their status, leave every redemption paid once.                          *)
LEMMA PaidStays ==
    ASSUME PaidOnce,
           \A v \in Users : \A i \in DOMAIN ledger[v] :
              i \in DOMAIN ledger'[v] /\ ledger'[v][i] = ledger[v][i],
           NEW x \in Rids, NEW v \in Users, Entries(v, x)' = Entries(v, x),
           Exists(x)' = Exists(x),
           Exists(x) => /\ redemptions'[x].user = redemptions[x].user
                        /\ redemptions'[x].offer = redemptions[x].offer
    PROVE  IF Exists(x)' /\ redemptions'[x].user = v
           THEN \E i \in DOMAIN ledger'[v] :
                   Entries(v, x)' = {i} /\ ledger'[v][i].delta = -Cost[redemptions'[x].offer]
           ELSE Entries(v, x)' = {}
  <1>1. CASE Exists(x) /\ redemptions[x].user = v
    <2>1. PICK i \in DOMAIN ledger[v] :
             Entries(v, x) = {i} /\ ledger[v][i].delta = -Cost[redemptions[x].offer]
      BY <1>1, PaidOnceEntries
    <2> QED BY <1>1, <2>1
  <1>2. CASE ~(Exists(x) /\ redemptions[x].user = v)
    BY <1>2, PaidOnceEntries
  <1> QED BY <1>1, <1>2

(* Redeem's payment is the only one for its redemption.                     *)
LEMMA RedeemPaid ==
    ASSUME Inv, PaidOnce, NEW u \in Users, NEW j \in Journeys, NEW o \in Offers, NEW k \in Keys,
           NEW r \in Rids, Atomic!Redeem(u, j, o, k, r)
    PROVE  PaidOnce'
  <1> DEFINE new == [user |-> u, journey |-> j, offer |-> o, key |-> k, status |-> "succeeded"]
  <1>1. /\ ~Exists(r) /\ Atomic!Pay(u, r, -Cost[o])
        /\ redemptions' = [redemptions EXCEPT ![r] = new]
    BY DEF Atomic!Redeem, Atomic!Made, Exists
  <1>2. /\ Exists(r)' /\ redemptions'[r].user = u /\ redemptions'[r].offer = o
        /\ \A x \in Rids : x # r => redemptions'[x] = redemptions[x]
    <2>1. new \in Row /\ new # None /\ new.user = u /\ new.offer = o
      BY ConstantsAssumption DEF Row
    <2> HIDE DEF new
    <2> QED BY <1>1, <2>1 DEF Inv, TypeOK, Exists
  <1>3. ASSUME NEW x \in Rids, x # r, NEW v \in Users
        PROVE  IF Exists(x)' /\ redemptions'[x].user = v
               THEN \E i \in DOMAIN ledger'[v] :
                   Entries(v, x)' = {i} /\ ledger'[v][i].delta = -Cost[redemptions'[x].offer]
               ELSE Entries(v, x)' = {}
    <2>1. Exists(x)' = Exists(x) /\ redemptions'[x] = redemptions[x]
      BY <1>2, <1>3 DEF Exists
    <2>2. Entries(v, x)' = Entries(v, x)
      BY <1>1, <1>3, PayEntries
    <2> QED BY <1>1, <2>1, <2>2, PayEntries, PaidStays
  <1>4. ASSUME NEW v \in Users
        PROVE  IF Exists(r)' /\ redemptions'[r].user = v
               THEN \E i \in DOMAIN ledger'[v] :
                   Entries(v, r)' = {i} /\ ledger'[v][i].delta = -Cost[redemptions'[r].offer]
               ELSE Entries(v, r)' = {}
    <2>1. Entries(v, r) = {}
      BY <1>1, PaidOnceEntries
    <2>2. CASE v = u
      BY <1>1, <1>2, <2>1, <2>2, PayEntries
    <2>3. CASE v # u
      BY <1>1, <1>2, <2>1, <2>3, PayEntries
    <2> QED BY <2>2, <2>3
  <1>5. (\A x \in Rids : \A v \in Users :
           IF Exists(x) /\ redemptions[x].user = v
           THEN \E i \in DOMAIN ledger[v] :
                   Entries(v, x) = {i} /\ ledger[v][i].delta = -Cost[redemptions[x].offer]
           ELSE Entries(v, x) = {})'
    BY <1>3, <1>4
  <1> QED BY <1>5 DEF PaidOnce, Entries

(* The steps that touch no redemption: Look and Enter.                      *)
LEMMA WelcomePaid ==
    ASSUME Inv, PaidOnce, NEW u \in Users, Atomic!Welcome(u), UNCHANGED redemptions
    PROVE  PaidOnce'
  <1>1. CASE u \in registered
    BY <1>1 DEF Atomic!Welcome, PaidOnce, Exists
  <1>2. CASE u \notin registered
    <2>1. Atomic!Pay(u, None, DemoPoints) /\ \A x \in Rids : x # None
      BY <1>2, ConstantsAssumption DEF Atomic!Welcome
    <2>2. ASSUME NEW x \in Rids, NEW v \in Users
          PROVE  IF Exists(x)' /\ redemptions'[x].user = v
                 THEN \E i \in DOMAIN ledger'[v] :
                     Entries(v, x)' = {i} /\ ledger'[v][i].delta = -Cost[redemptions'[x].offer]
                 ELSE Entries(v, x)' = {}
      <3>1. Entries(v, x)' = Entries(v, x)
        BY <2>1, PayEntries
      <3>2. Exists(x)' = Exists(x)
        BY DEF Exists
      <3> QED BY <2>1, <3>1, <3>2, PayEntries, PaidStays
    <2>3. (\A x \in Rids : \A v \in Users :
             IF Exists(x) /\ redemptions[x].user = v
             THEN \E i \in DOMAIN ledger[v] :
                     Entries(v, x) = {i} /\ ledger[v][i].delta = -Cost[redemptions[x].offer]
             ELSE Entries(v, x) = {})'
      BY <2>2
    <2> QED BY <2>3 DEF PaidOnce, Entries
  <1> QED BY <1>1, <1>2

(* A redemption moves one unit from the shelf into the table.               *)
LEMMA RedeemStock ==
    ASSUME Inv, StockConserved, NEW o \in Offers, NEW r \in Rids, NEW new \in Row, ~Exists(r),
           new.offer = o, redemptions' = [redemptions EXCEPT ![r] = new],
           stock' = [stock EXCEPT ![o] = @ - 1]
    PROVE  StockConserved'
  <1> DEFINE Sold(x) == {y \in Rids : Exists(y) /\ redemptions[y].offer = x}
  <1>1. redemptions'[r] = new /\ Exists(r)' /\ \A y \in Rids : y # r => redemptions'[y] = redemptions[y]
    BY ConstantsAssumption DEF Inv, TypeOK, Exists
  <1>2. ASSUME NEW x \in Offers PROVE stock'[x] + Cardinality(Sold(x)') = InitStock[x]
    <2>1. /\ IsFiniteSet(Sold(x)) /\ Cardinality(Sold(x)) \in Nat
          /\ stock[x] + Cardinality(Sold(x)) = InitStock[x] /\ stock[x] \in Nat
      <3>1. IsFiniteSet(Sold(x))
        BY ConstantsAssumption, FS_Subset
      <3>2. Cardinality(Sold(x)) \in Nat
        BY <3>1, FS_CardinalityType
      <3> QED BY <3>1, <3>2 DEF StockConserved, Inv, TypeOK
    <2>2. CASE x = o
      <3>1. Sold(x)' = Sold(x) \cup {r} /\ r \notin Sold(x)
        BY <1>1, <2>2 DEF Exists
      <3>2. Cardinality(Sold(x)') = Cardinality(Sold(x)) + 1
        BY <2>1, <3>1, FS_AddElement
      <3>3. stock'[x] = stock[x] - 1
        BY <2>2 DEF Inv, TypeOK
      <3> HIDE DEF Sold
      <3> QED BY <2>1, <3>2, <3>3
    <2>3. CASE x # o
      <3>1. Sold(x)' = Sold(x) /\ stock'[x] = stock[x]
        BY <1>1, <2>3 DEF Exists, Inv, TypeOK
      <3> QED BY <2>1, <3>1
    <2> QED BY <2>2, <2>3
  <1> QED BY <1>2 DEF StockConserved

(* Every abstract step keeps the books.                                     *)
LEMMA RedeemBooks ==
    ASSUME Inv, Books, NEW u \in Users, NEW j \in Journeys, NEW o \in Offers, NEW k \in Keys,
           NEW r \in Rids, Atomic!Redeem(u, j, o, k, r)
    PROVE  Books'
  <1> DEFINE new == [user |-> u, journey |-> j, offer |-> o, key |-> k, status |-> "succeeded"]
  <1>1. /\ ~Exists(r) /\ redemptions' = [redemptions EXCEPT ![r] = new]
        /\ \A x \in Rids : Exists(x) /\ redemptions[x].user = u => redemptions[x].key # k
        /\ u \in registered /\ registered' = registered
        /\ stock' = [stock EXCEPT ![o] = @ - 1]
        /\ outbox' = [outbox EXCEPT ![[topic |-> "redemption.succeeded", id |-> r]] = @ + 1]
    BY DEF Atomic!Redeem, Atomic!Made, Atomic!Record, Exists
  <1>2. new \in Row /\ new.user = u /\ new.key = k /\ new.offer = o /\ new.status = "succeeded"
    BY DEF Row
  <1> HIDE DEF new
  <1>3. redemptions'[r] = new /\ Exists(r)'
        /\ \A x \in Rids : x # r => redemptions'[x] = redemptions[x] /\ Exists(x)' = Exists(x)
    BY <1>1, <1>2, ConstantsAssumption DEF Inv, TypeOK, Exists
  <1>4. PaidOnce' /\ StockConserved'
    BY <1>1, <1>2, RedeemPaid, RedeemStock DEF Books
  <1>5. KeysUnique'
    BY <1>1, <1>2, <1>3 DEF Books, KeysUnique
  <1>6. RidersKnown'
    BY <1>1, <1>2, <1>3 DEF Books, RidersKnown
  <1>7. EventsMatchRows'
    <2> DEFINE made(x) == [topic |-> "redemption.succeeded", id |-> x]
               used(x) == [topic |-> "merchant.verified", id |-> x]
    <2>1. \A x \in Rids : /\ made(x) \in Event /\ used(x) \in Event /\ used(x) # made(r)
                          /\ made(x) = made(r) => x = r
      BY DEF Event
    <2>2. outbox \in [Event -> Nat] /\ outbox' = [outbox EXCEPT ![made(r)] = @ + 1]
      BY <1>1 DEF Inv, TypeOK
    <2>3. \A x \in Rids : /\ outbox[made(x)] = IF Exists(x) THEN 1 ELSE 0
                          /\ outbox[used(x)] =
                                IF Exists(x) /\ redemptions[x].status = "verified" THEN 1 ELSE 0
      BY DEF Books, EventsMatchRows
    <2> HIDE DEF made, used
    <2>4. /\ outbox'[made(r)] = 1 /\ outbox'[used(r)] = 0
          /\ \A x \in Rids : x # r => outbox'[made(x)] = outbox[made(x)] /\ outbox'[used(x)] = outbox[used(x)]
      BY <1>1, <2>1, <2>2, <2>3
    <2>5. \A x \in Rids : /\ outbox'[made(x)] = IF Exists(x)' THEN 1 ELSE 0
                          /\ outbox'[used(x)] =
                                IF Exists(x)' /\ redemptions'[x].status = "verified" THEN 1 ELSE 0
      BY <1>2, <1>3, <2>3, <2>4
    <2> QED BY <2>5 DEF EventsMatchRows, made, used
  <1> QED BY <1>4, <1>5, <1>6, <1>7 DEF Books

(* A verification changes the status of one redemption, and tells it once.  *)
LEMMA ConsumeBooks ==
    ASSUME Inv, Books, NEW r \in Rids, Atomic!Consume(r)
    PROVE  Books'
  <1>1. /\ Exists(r) /\ redemptions[r] \in Row /\ redemptions[r].status = "succeeded"
        /\ redemptions' = [redemptions EXCEPT ![r] = [redemptions[r] EXCEPT !.status = "verified"]]
        /\ outbox' = [outbox EXCEPT ![[topic |-> "merchant.verified", id |-> r]] = @ + 1]
        /\ UNCHANGED <<registered, ledger, stock>>
    BY DEF Atomic!Consume, Atomic!Made, Atomic!Record, Exists, Inv, TypeOK
  <1>2. /\ redemptions'[r].status = "verified"
        /\ \A x \in Rids : x # r => redemptions'[x] = redemptions[x]
        /\ \A x \in Rids : /\ Exists(x)' = Exists(x)
                           /\ Exists(x) => /\ redemptions'[x].user = redemptions[x].user
                                           /\ redemptions'[x].key = redemptions[x].key
                                           /\ redemptions'[x].offer = redemptions[x].offer
    BY <1>1, ConstantsAssumption DEF Inv, TypeOK, Exists, Row
  <1>3. PaidOnce'
    BY <1>1, <1>2 DEF Books, PaidOnce
  <1>4. StockConserved'
    <2>1. ASSUME NEW o \in Offers
          PROVE  {x \in Rids : Exists(x) /\ redemptions[x].offer = o}'
                    = {x \in Rids : Exists(x) /\ redemptions[x].offer = o}
      BY <1>2
    <2> QED BY <1>1, <2>1 DEF Books, StockConserved
  <1>5. KeysUnique'
    BY <1>2 DEF Books, KeysUnique
  <1>6. RidersKnown'
    BY <1>1, <1>2 DEF Books, RidersKnown
  <1>7. EventsMatchRows'
    <2> DEFINE made(x) == [topic |-> "redemption.succeeded", id |-> x]
               used(x) == [topic |-> "merchant.verified", id |-> x]
    <2>1. \A x \in Rids : /\ made(x) \in Event /\ used(x) \in Event /\ made(x) # used(r)
                          /\ used(x) = used(r) => x = r
      BY DEF Event
    <2>2. outbox \in [Event -> Nat] /\ outbox' = [outbox EXCEPT ![used(r)] = @ + 1]
      BY <1>1 DEF Inv, TypeOK
    <2>3. \A x \in Rids : /\ outbox[made(x)] = IF Exists(x) THEN 1 ELSE 0
                          /\ outbox[used(x)] =
                                IF Exists(x) /\ redemptions[x].status = "verified" THEN 1 ELSE 0
      BY DEF Books, EventsMatchRows
    <2> HIDE DEF made, used
    <2>4. /\ outbox'[used(r)] = 1
          /\ \A x \in Rids : outbox'[made(x)] = outbox[made(x)]
          /\ \A x \in Rids : x # r => outbox'[used(x)] = outbox[used(x)]
      BY <1>1, <2>1, <2>2, <2>3
    <2>5. \A x \in Rids : /\ outbox'[made(x)] = IF Exists(x)' THEN 1 ELSE 0
                          /\ outbox'[used(x)] =
                                IF Exists(x)' /\ redemptions'[x].status = "verified" THEN 1 ELSE 0
      BY <1>1, <1>2, <2>3, <2>4
    <2> QED BY <2>5 DEF EventsMatchRows, made, used
  <1> QED BY <1>3, <1>4, <1>5, <1>6, <1>7 DEF Books

(* Look and Enter leave the redemptions and their events alone.             *)
LEMMA WelcomeBooks ==
    ASSUME Inv, Books, NEW u \in Users, Atomic!Welcome(u), UNCHANGED <<stock, redemptions>>,
           \A r \in Rids : \A topic \in {"redemption.succeeded", "merchant.verified"} :
              outbox'[[topic |-> topic, id |-> r]] = outbox[[topic |-> topic, id |-> r]]
    PROVE  Books'
  <1>1. \A x : Exists(x)' = Exists(x)
    BY DEF Exists
  <1>2. PaidOnce'
    BY WelcomePaid DEF Books
  <1>3. EventsMatchRows'
    BY <1>1 DEF Books, EventsMatchRows
  <1>4. StockConserved'
    BY DEF Books, StockConserved, Exists
  <1>5. KeysUnique'
    BY <1>1 DEF Books, KeysUnique
  <1>6. RidersKnown'
    BY <1>1 DEF Books, RidersKnown, Atomic!Welcome
  <1> QED BY <1>2, <1>3, <1>4, <1>5, <1>6 DEF Books

(* Every abstract step keeps the books.                                     *)
LEMMA BooksNext == Inv /\ Books /\ [Atomic!Next]_(Atomic!tables) => Books'
  <1> SUFFICES ASSUME Inv, Books, [Atomic!Next]_(Atomic!tables) PROVE Books'
    OBVIOUS
  <1>1. CASE UNCHANGED Atomic!tables
    <2>1. UNCHANGED <<registered, ledger, stock, redemptions, outbox>>
      BY <1>1 DEF Atomic!tables
    <2>2. PaidOnce' /\ EventsMatchRows'
      BY <2>1 DEF Books, PaidOnce, EventsMatchRows, Exists
    <2>3. StockConserved' /\ KeysUnique' /\ RidersKnown'
      BY <2>1 DEF Books, StockConserved, KeysUnique, RidersKnown, Exists
    <2> QED BY <2>2, <2>3 DEF Books
  <1>2. ASSUME NEW u \in Users, Atomic!Look(u) PROVE Books'
    BY <1>2, WelcomeBooks DEF Atomic!Look
  <1>3. ASSUME NEW j \in Journeys, Atomic!Enter(j) PROVE Books'
    <2>1. Owner[j] \in Users /\ Atomic!Welcome(Owner[j]) /\ UNCHANGED <<stock, redemptions>>
      BY <1>3, ConstantsAssumption DEF Atomic!Enter
    <2> DEFINE entered == [topic |-> "journey.entered", id |-> j]
    <2>2. outbox' = [outbox EXCEPT ![entered] = @ + 1]
      BY <1>3 DEF Atomic!Enter, Atomic!Record
    <2>3. ASSUME NEW r \in Rids, NEW topic \in {"redemption.succeeded", "merchant.verified"}
          PROVE  outbox'[[topic |-> topic, id |-> r]] = outbox[[topic |-> topic, id |-> r]]
      <3> DEFINE e == [topic |-> topic, id |-> r]
      <3>1. e \in Event /\ e # entered
        BY DEF Event
      <3> HIDE DEF e, entered
      <3>2. outbox'[e] = outbox[e]
        BY <2>2, <3>1 DEF Inv, TypeOK
      <3> QED BY <3>2 DEF e
    <2> QED BY <2>1, <2>3, WelcomeBooks
  <1>4. ASSUME NEW u \in Users, NEW j \in Journeys, NEW o \in Offers, NEW k \in Keys,
               NEW r \in Rids, Atomic!Redeem(u, j, o, k, r)
        PROVE  Books'
    BY <1>4, RedeemBooks
  <1>5. ASSUME NEW r \in Rids, Atomic!Consume(r) PROVE Books'
    BY <1>5, ConsumeBooks
  <1> QED BY <1>1, <1>2, <1>3, <1>4, <1>5 DEF Atomic!Next

(* Empty tables agree.                                                      *)
LEMMA BooksInit == Init => Books
  <1> SUFFICES ASSUME Init PROVE Books
    OBVIOUS
  <1>1. \A r \in Rids : ~Exists(r)
    BY DEF Init, Exists
  <1>2. PaidOnce
    BY <1>1 DEF Init, PaidOnce
  <1>3. EventsMatchRows
    BY <1>1 DEF Init, EventsMatchRows, Event
  <1>4. StockConserved
    <2>1. \A o \in Offers : {r \in Rids : Exists(r) /\ redemptions[r].offer = o} = {}
      BY <1>1
    <2>2. \A o \in Offers : stock[o] = InitStock[o] /\ stock[o] \in Nat
      BY ConstantsAssumption DEF Init
    <2> QED BY <2>1, <2>2, FS_EmptySet DEF StockConserved
  <1> QED BY <1>1, <1>2, <1>3, <1>4 DEF Books, KeysUnique, RidersKnown

(* The books are right in every reachable state.                            *)
LEMMA BooksHold == Spec => []Books
  <1>1. Inv /\ Tables /\ Books /\ [Next]_vars => Books'
    BY StepRefines, BooksNext DEF Tables
  <1> QED BY <1>1, BooksInit, TablesHold, PTL DEF Spec

(* A redemption costs its user exactly once, whatever is retried, aborted   *)
(* or run concurrently.                                                     *)
THEOREM ChargedOnce == Spec => []PaidOnce
  BY BooksHold, PTL DEF Books

(* The outbox tells of every redemption and every verification exactly      *)
(* once.                                                                    *)
THEOREM ToldOnce == Spec => []EventsMatchRows
  BY BooksHold, PTL DEF Books

(* Stock is neither oversold nor lost, for any number of handlers.          *)
THEOREM NothingOversold == Spec => []StockConserved
  BY BooksHold, PTL DEF Books

-----------------------------------------------------------------------------
(* The preference signals are not part of the atomic service; only Create's *)
(* Commit writes them.                                                      *)

(* Other steps leave the redemptions as they are, or change a status.       *)
SameRows ==
    \A r \in Rids : /\ Exists(r)' = Exists(r)
                    /\ Exists(r) => /\ redemptions'[r].user = redemptions[r].user
                                    /\ redemptions'[r].offer = redemptions[r].offer

LEMMA SignalsQuiet ==
    ASSUME Inv, [Next]_vars, \A p \in Procs : ~Commit(p)
    PROVE  prefs' = prefs /\ SameRows
  <1>1. ASSUME redemptions' = redemptions PROVE SameRows
    BY <1>1 DEF SameRows, Exists
  <1>2. CASE UNCHANGED vars
    BY <1>1, <1>2 DEF vars, tables
  <1>3. ASSUME NEW j \in Journeys, CreateEntryEvent(j) PROVE prefs' = prefs /\ SameRows
    BY <1>1, <1>3 DEF CreateEntryEvent
  <1>4. ASSUME NEW u \in Users, GetUserProfile(u) PROVE prefs' = prefs /\ SameRows
    BY <1>1, <1>4 DEF GetUserProfile
  <1>5. ASSUME NEW o \in Offers, ChangeOffer(o) PROVE prefs' = prefs /\ SameRows
    BY <1>1, <1>5 DEF ChangeOffer, tables
  <1>6. ASSUME NEW p \in Procs, BeginCreate(p) \/ BeginVerify(p) PROVE prefs' = prefs /\ SameRows
    BY <1>1, <1>6 DEF BeginCreate, BeginVerify, Begin, tables
  <1>7. ASSUME UNCHANGED tables PROVE prefs' = prefs /\ SameRows
    BY <1>1, <1>7 DEF tables
  <1>8. ASSUME NEW p \in Procs, Abort(p) PROVE prefs' = prefs /\ SameRows
    BY <1>7, <1>8 DEF Abort, Refuse
  <1>9. ASSUME NEW p \in Procs, Step(p) PROVE prefs' = prefs /\ SameRows
    <2>1. CASE CommitVerify(p)
      <3> DEFINE r == req[p].rid
      <3>1. r \in Rids /\ Exists(r) /\ redemptions[r] \in Row
        BY <2>1 DEF CommitVerify, Inv, KnowledgeIsStable, Knows, VerifySteps, VerifyRequests,
           TypeOK, Exists
      <3>2. /\ prefs' = prefs
            /\ redemptions' = [redemptions EXCEPT ![r] = [redemptions[r] EXCEPT !.status = "verified"]]
        BY <2>1 DEF CommitVerify
      <3> QED BY <3>1, <3>2, ConstantsAssumption DEF SameRows, Exists, Inv, TypeOK, Row
    <2>2. CASE LockUser(p) \/ CheckJourney(p) \/ CheckRedeemed(p) \/ CheckOffer(p) \/ LockInventory(p)
      BY <1>7, <2>2 DEF LockUser, CheckJourney, CheckRedeemed, CheckOffer, LockInventory, Goto, Refuse
    <2>3. CASE WriteRows(p)
      BY <1>7, <2>3 DEF WriteRows, Goto, Refuse
    <2>4. CASE CheckExisting(p)
      BY <1>7, <2>4 DEF CheckExisting, Goto, Refuse
    <2>5. CASE LockRedemption(p)
      BY <1>7, <2>5 DEF LockRedemption, Goto, Refuse
    <2> QED BY <1>9, <2>1, <2>2, <2>3, <2>4, <2>5 DEF Step
  <1> QED BY <1>2, <1>3, <1>4, <1>5, <1>6, <1>8, <1>9 DEF Next

Signalled(u, c) == {r \in Rids : /\ Exists(r)
                                 /\ redemptions[r].user = u
                                 /\ Category[redemptions[r].offer] = c}

(* A set of redemptions has a size.                                         *)
LEMMA SignalledSize == \A u, c : IsFiniteSet(Signalled(u, c)) /\ Cardinality(Signalled(u, c)) \in Nat
  <1> SUFFICES ASSUME NEW u, NEW c
               PROVE  IsFiniteSet(Signalled(u, c)) /\ Cardinality(Signalled(u, c)) \in Nat
    OBVIOUS
  <1>1. IsFiniteSet(Signalled(u, c))
    BY ConstantsAssumption, FS_Subset DEF Signalled
  <1> QED BY <1>1, FS_CardinalityType

(* Create's Commit counts its redemption in the category of its offer.      *)
LEMMA CommitSignals ==
    ASSUME Inv, SignalsMatchRows, NEW p \in Procs, Commit(p)
    PROVE  SignalsMatchRows'
  <1>1. PICK q \in CreateRequests, r \in Rids : q = req[p] /\ r = newId[p] /\ ~Exists(r)
    BY DEF Commit, Inv, KnowledgeIsStable, Knows, CreateSteps, CreateBothLocks
  <1> DEFINE new == [user |-> q.user, journey |-> q.journey, offer |-> q.offer,
                     key |-> q.key, status |-> "succeeded"]
  <1>2. /\ q.user \in Users /\ q.offer \in Offers /\ Category[q.offer] \in Categories
        /\ new \in Row /\ new.user = q.user /\ new.offer = q.offer
    BY ConstantsAssumption DEF CreateRequests, Row
  <1>3. redemptions' = [redemptions EXCEPT ![r] = new]
    BY <1>1 DEF Commit
  <1> DEFINE d == Category[q.offer]
  <1>4. prefs' = [prefs EXCEPT ![q.user][d] =
           [weight |-> Clamp(@.weight + RedemptionDelta), redemptions |-> @.redemptions + 1]]
    BY <1>1 DEF Commit, Charge, ApplyPreferenceFeedback
  <1> HIDE DEF new
  <1>5. redemptions'[r] = new /\ Exists(r)' /\ \A x \in Rids : x # r => redemptions'[x] = redemptions[x]
    BY <1>1, <1>2, <1>3, ConstantsAssumption DEF Exists, Inv, TypeOK
  <1>6. ASSUME NEW u \in Users, NEW c \in Categories
        PROVE  prefs'[u][c].redemptions = Cardinality(Signalled(u, c)')
    <2>1. prefs[u][c].redemptions = Cardinality(Signalled(u, c))
      BY DEF SignalsMatchRows, Signalled
    <2>2. CASE u = q.user /\ c = d
      <3>1. Signalled(u, c)' = Signalled(u, c) \cup {r} /\ r \notin Signalled(u, c)
        BY <1>1, <1>2, <1>5, <2>2 DEF Signalled, Exists
      <3>2. Cardinality(Signalled(u, c)') = Cardinality(Signalled(u, c)) + 1
        BY <3>1, SignalledSize, FS_AddElement
      <3>3. prefs'[u][c].redemptions = prefs[u][c].redemptions + 1
        BY <1>2, <1>4, <2>2 DEF Inv, TypeOK
      <3> QED BY <2>1, <3>2, <3>3
    <2>3. CASE ~(u = q.user /\ c = d)
      <3>1. Signalled(u, c)' = Signalled(u, c)
        BY <1>1, <1>2, <1>5, <2>3 DEF Signalled, Exists
      <3>2. prefs'[u][c] = prefs[u][c]
        BY <1>2, <1>4, <2>3 DEF Inv, TypeOK
      <3> QED BY <2>1, <3>1, <3>2
    <2> QED BY <2>2, <2>3
  <1> QED BY <1>6 DEF SignalsMatchRows, Signalled

(* "A successful event cannot lose its personalization update"              *)
(* (feedback.go): the signals of a category are its committed redemptions.  *)
THEOREM NoSignalLost == Spec => []SignalsMatchRows
  <1>1. Init => SignalsMatchRows
    <2> SUFFICES ASSUME Init PROVE SignalsMatchRows
      OBVIOUS
    <2>1. \A u \in Users, c \in Categories : Signalled(u, c) = {}
      BY DEF Init, Signalled, Exists
    <2>2. \A u \in Users, c \in Categories : prefs[u][c].redemptions = 0
      BY DEF Init
    <2> QED BY <2>1, <2>2, FS_EmptySet DEF SignalsMatchRows, Signalled
  <1>2. Inv /\ SignalsMatchRows /\ [Next]_vars => SignalsMatchRows'
    <2> SUFFICES ASSUME Inv, SignalsMatchRows, [Next]_vars PROVE SignalsMatchRows'
      OBVIOUS
    <2>1. CASE \E p \in Procs : Commit(p)
      BY <2>1, CommitSignals
    <2>2. CASE \A p \in Procs : ~Commit(p)
      <3>1. prefs' = prefs /\ SameRows
        BY <2>2, SignalsQuiet
      <3>2. \A u \in Users, c \in Categories : Signalled(u, c)' = Signalled(u, c)
        BY <3>1 DEF SameRows, Signalled
      <3> QED BY <3>1, <3>2 DEF SignalsMatchRows, Signalled
    <2> QED BY <2>1, <2>2
  <1> QED BY <1>1, <1>2, InvHolds, PTL DEF Spec

-----------------------------------------------------------------------------
(* What the handlers answer.                                                *)

(* Redemption r is what the Create request q asks for.                      *)
Match(r, q) ==
    /\ r \in Rids /\ Exists(r)
    /\ redemptions[r].user = q.user /\ redemptions[r].key = q.key
    /\ redemptions[r].journey = q.journey /\ redemptions[r].offer = q.offer

(* A successful answer to Create names a committed redemption of its        *)
(* request.                                                                 *)
AnswersMatch ==
    \A p \in Procs :
        req[p] \in CreateRequests /\ reply[p] # None /\ reply[p].rid # None
        => Match(reply[p].rid, req[p])

(* No step takes a redemption back or gives it to another request.          *)
LEMMA RowsKept ==
    ASSUME Inv, [Atomic!Next]_(Atomic!tables), NEW r, NEW q, Match(r, q)
    PROVE  Match(r, q)'
  <1>1. CASE UNCHANGED Atomic!tables
    BY <1>1 DEF Atomic!tables, Match, Exists
  <1>2. ASSUME NEW u \in Users, Atomic!Look(u) PROVE Match(r, q)'
    BY <1>2 DEF Atomic!Look, Match, Exists
  <1>3. ASSUME NEW j \in Journeys, Atomic!Enter(j) PROVE Match(r, q)'
    BY <1>3 DEF Atomic!Enter, Match, Exists
  <1>4. ASSUME NEW u \in Users, NEW j \in Journeys, NEW o \in Offers, NEW k \in Keys,
               NEW x \in Rids, Atomic!Redeem(u, j, o, k, x)
        PROVE  Match(r, q)'
    <2>1. x # r
      BY <1>4 DEF Atomic!Redeem, Atomic!Made, Match, Exists
    <2>2. redemptions'[r] = redemptions[r]
      BY <1>4, <2>1 DEF Atomic!Redeem, Match, Inv, TypeOK
    <2> QED BY <2>2 DEF Match, Exists
  <1>5. ASSUME NEW x \in Rids, Atomic!Consume(x) PROVE Match(r, q)'
    <2>1. redemptions[r] \in Row
      BY DEF Match, Exists, Inv, TypeOK
    <2>2. redemptions'[r] \in {redemptions[r], [redemptions[r] EXCEPT !.status = "verified"]}
      BY <1>5 DEF Atomic!Consume, Match, Inv, TypeOK
    <2>3. redemptions'[r] # None
      BY <2>1, <2>2, ConstantsAssumption DEF Row
    <2>4. /\ redemptions'[r].user = redemptions[r].user /\ redemptions'[r].key = redemptions[r].key
          /\ redemptions'[r].journey = redemptions[r].journey
          /\ redemptions'[r].offer = redemptions[r].offer
      BY <2>1, <2>2 DEF Row
    <2> QED BY <2>3, <2>4 DEF Match, Exists
  <1> QED BY <1>1, <1>2, <1>3, <1>4, <1>5 DEF Atomic!Next

(* The two kinds of request differ.                                         *)
LEMMA KindsDiffer == \A q \in VerifyRequests : q \notin CreateRequests
  BY DEF VerifyRequests, CreateRequests

(* Ending a transaction of p with an answer that is a refusal, that answers *)
(* a Verify, or that names what p's Create asked for, keeps AnswersMatch.   *)
LEMMA EndAnswers ==
    ASSUME Inv, AnswersMatch, [Atomic!Next]_(Atomic!tables), NEW p \in Procs, NEW a, End(p, a),
           a.rid = None \/ req[p] \in VerifyRequests \/ Match(a.rid, req[p])'
    PROVE  AnswersMatch'
  <1>1. /\ req' = req /\ req'[p] = req[p] /\ reply'[p] = a
        /\ \A x \in Procs \ {p} : reply'[x] = reply[x]
    BY DEF End, Inv, TypeOK
  <1>2. ASSUME NEW x \in Procs \ {p},
               req'[x] \in CreateRequests /\ reply'[x] # None /\ reply'[x].rid # None
        PROVE  Match(reply[x].rid, req[x])'
    <2>1. Match(reply[x].rid, req[x]) /\ reply'[x] = reply[x] /\ req'[x] = req[x]
      BY <1>1, <1>2 DEF AnswersMatch
    <2>2. \A r, q : Match(r, q) => Match(r, q)'
      BY RowsKept
    <2> QED BY <2>1, <2>2 DEF Match
  <1>3. ASSUME req'[p] \in CreateRequests /\ reply'[p] # None /\ reply'[p].rid # None
        PROVE  Match(reply[p].rid, req[p])'
    BY <1>1, <1>3, KindsDiffer DEF Match
  <1> QED BY <1>2, <1>3 DEF AnswersMatch

(* A step that answers nothing keeps it too.                                *)
LEMMA SilentAnswers ==
    ASSUME Inv, AnswersMatch, [Atomic!Next]_(Atomic!tables),
           \A p \in Procs : \/ reply'[p] = None
                            \/ reply'[p] = reply[p] /\ req'[p] = req[p]
    PROVE  AnswersMatch'
  <1>1. ASSUME NEW x \in Procs,
               req'[x] \in CreateRequests /\ reply'[x] # None /\ reply'[x].rid # None
        PROVE  Match(reply[x].rid, req[x])'
    <2>1. Match(reply[x].rid, req[x]) /\ reply'[x] = reply[x] /\ req'[x] = req[x]
      BY <1>1 DEF AnswersMatch
    <2>2. \A r, q : Match(r, q) => Match(r, q)'
      BY RowsKept
    <2> QED BY <2>1, <2>2 DEF Match
  <1> QED BY <1>1 DEF AnswersMatch

(* Every step keeps the answers right.                                      *)
LEMMA AnswersNext == Inv /\ Tables /\ AnswersMatch /\ [Next]_vars => AnswersMatch'
  <1> SUFFICES ASSUME Inv, Tables, AnswersMatch, [Next]_vars PROVE AnswersMatch'
    OBVIOUS
  <1>1. [Atomic!Next]_(Atomic!tables)
    BY StepRefines DEF Tables
  <1>2. ASSUME reply' = reply, req' = req PROVE AnswersMatch'
    BY <1>1, <1>2, SilentAnswers
  <1>3. ASSUME NEW p \in Procs, BeginCreate(p) \/ BeginVerify(p) PROVE AnswersMatch'
    <2>1. \A x \in Procs : reply'[x] = None \/ (reply'[x] = reply[x] /\ req'[x] = req[x])
      BY <1>3 DEF BeginCreate, BeginVerify, Begin, Inv, TypeOK
    <2> QED BY <1>1, <2>1, SilentAnswers
  <1>4. ASSUME NEW p \in Procs, NEW why, Refuse(p, why) PROVE AnswersMatch'
    <2> DEFINE a == [out |-> why, rid |-> None]
    <2>1. End(p, a) /\ a.rid = None
      BY <1>4 DEF Refuse
    <2> QED BY <1>1, <2>1, EndAnswers
  <1>5. ASSUME NEW p \in Procs, NEW step, Goto(p, step) PROVE AnswersMatch'
    BY <1>2, <1>5 DEF Goto
  <1>6. ASSUME NEW p \in Procs, CheckExisting(p) PROVE AnswersMatch'
    <2>1. ASSUME NEW r \in Existing(req[p].user, req[p].key),
                 redemptions[r].journey = req[p].journey /\ redemptions[r].offer = req[p].offer,
                 End(p, [out |-> redemptions[r].status, rid |-> r])
          PROVE  AnswersMatch'
      <3>1. PICK q : q = req[p]
        OBVIOUS
      <3>2. Match(r, q)
        BY <2>1, <3>1 DEF Match, Existing
      <3>3. Match(r, q)'
        BY <1>1, <3>2, RowsKept
      <3>4. req'[p] = q
        BY <2>1, <3>1 DEF End
      <3>5. Match(r, req[p])'
        BY <3>3, <3>4 DEF Match
      <3> DEFINE a == [out |-> redemptions[r].status, rid |-> r]
      <3>6. PICK b : b = a
        OBVIOUS
      <3>7. End(p, b) /\ b.rid = r
        BY <2>1, <3>6
      <3> QED BY <1>1, <3>5, <3>7, EndAnswers
    <2> QED BY <1>4, <1>5, <1>6, <2>1 DEF CheckExisting
  <1>7. ASSUME NEW p \in Procs, Commit(p) PROVE AnswersMatch'
    <2>1. PICK q \in CreateRequests, r \in Rids : q = req[p] /\ r = newId[p]
      BY <1>7 DEF Commit, Inv, KnowledgeIsStable, Knows, CreateSteps, CreateBothLocks
    <2> DEFINE new == [user |-> q.user, journey |-> q.journey, offer |-> q.offer,
                       key |-> q.key, status |-> "succeeded"]
    <2>2. redemptions' = [redemptions EXCEPT ![r] = new] /\ req'[p] = q
      BY <1>7, <2>1 DEF Commit, End
    <2>3. /\ new \in Row /\ new.user = q.user /\ new.key = q.key
          /\ new.journey = q.journey /\ new.offer = q.offer
      BY DEF Row, CreateRequests
    <2>4. new # None
      BY <2>3, ConstantsAssumption
    <2> HIDE DEF new
    <2>5. redemptions'[r] = new
      BY <2>2 DEF Inv, TypeOK
    <2>6. Match(r, req[p])'
      BY <2>2, <2>3, <2>4, <2>5 DEF Match, Exists
    <2>7. PICK a \in Acknowledged("succeeded", r) : End(p, a)
      BY <1>7, <2>1 DEF Commit
    <2>8. a.rid = None \/ a.rid = r
      BY <2>7 DEF Acknowledged
    <2> QED BY <1>1, <2>6, <2>7, <2>8, EndAnswers
  <1>8. ASSUME NEW p \in Procs, LockRedemption(p) \/ CommitVerify(p) PROVE AnswersMatch'
    <2>1. req[p] \in VerifyRequests
      BY <1>8 DEF LockRedemption, CommitVerify, Inv, KnowledgeIsStable, Knows, VerifySteps
    <2>2. ASSUME NEW a, End(p, a) PROVE AnswersMatch'
      BY <1>1, <2>1, <2>2, EndAnswers
    <2> QED BY <1>4, <1>5, <1>8, <2>2 DEF LockRedemption, CommitVerify
  <1>9. ASSUME NEW p \in Procs, LockUser(p) \/ CheckJourney(p) \/ CheckRedeemed(p)
                                   \/ CheckOffer(p) \/ LockInventory(p)
        PROVE  AnswersMatch'
    BY <1>4, <1>5, <1>9 DEF LockUser, CheckJourney, CheckRedeemed, CheckOffer, LockInventory
  <1>10. ASSUME NEW p \in Procs, WriteRows(p) PROVE AnswersMatch'
    BY <1>4, <1>5, <1>10 DEF WriteRows
  <1>11. ASSUME NEW p \in Procs, Abort(p) PROVE AnswersMatch'
    BY <1>4, <1>11 DEF Abort
  <1> QED BY <1>2, <1>3, <1>6, <1>7, <1>8, <1>9, <1>10, <1>11
          DEF Next, Step, vars, GetUserProfile, CreateEntryEvent, ChangeOffer

(* Two answers to the same key name rows with the same user and key, of     *)
(* which there is one.                                                      *)
LEMMA AnswersAgree == Books /\ AnswersMatch => SameAnswerPerKey
  <1> SUFFICES ASSUME Books, AnswersMatch, NEW p \in Procs, NEW q \in Procs,
                      req[p] \in CreateRequests, reply[p] # None, reply[p].rid # None,
                      req[q] \in CreateRequests, reply[q] # None, reply[q].rid # None,
                      req[p].user = req[q].user, req[p].key = req[q].key
               PROVE  reply[p].rid = reply[q].rid /\ req[p] = req[q]
    BY DEF SameAnswerPerKey
  <1>1. Match(reply[p].rid, req[p]) /\ Match(reply[q].rid, req[q])
    BY DEF AnswersMatch
  <1>2. reply[p].rid = reply[q].rid
    BY <1>1 DEF Match, Books, KeysUnique
  <1>3. req[p].journey = req[q].journey /\ req[p].offer = req[q].offer
    BY <1>1, <1>2 DEF Match
  <1> QED BY <1>2, <1>3 DEF CreateRequests

(* One key, one redemption, for any number of retries and handlers.         *)
THEOREM OneKeyOneAnswer == Spec => []SameAnswerPerKey
  <1>1. Init => AnswersMatch
    BY DEF Init, AnswersMatch
  <1> QED BY <1>1, AnswersNext, AnswersAgree, BooksHold, TablesHold, PTL DEF Spec

-----------------------------------------------------------------------------
(* A handler that ends its Create with a refusal has not overlooked a       *)
(* redemption of its request.                                               *)
LEMMA RefusedHasNone ==
    ASSUME Inv, Books, NEW p \in Procs, Step(p), pc'[p] = "idle", reply'[p].out \in Refusals,
           req[p] \in CreateRequests,
           NEW r \in Existing(req[p].user, req[p].key),
           redemptions[r].journey = req[p].journey, redemptions[r].offer = req[p].offer
    PROVE  FALSE
  <1>1. /\ Knows(p) /\ r \in Rids /\ Exists(r) /\ redemptions[r].user = req[p].user
        /\ redemptions[r].key = req[p].key
    BY DEF Inv, KnowledgeIsStable, Existing
  <1>2. ASSUME pc[p] \in {"journey", "redeemed", "offer", "stock", "write", "commit"} PROVE FALSE
    BY <1>1, <1>2 DEF Knows, KeyIsFree
  <1>3. pc[p] \notin VerifySteps
    BY <1>1, KindsDiffer DEF Knows
  <1>4. CASE LockUser(p)
    <2>1. req[p].user \in registered
      BY <1>1 DEF Books, RidersKnown
    <2>2. pc'[p] = "existing"
      BY <1>4, <2>1 DEF LockUser, Goto, Inv, TypeOK
    <2> QED BY <2>2
  <1>5. CASE CheckExisting(p)
    <2>1. pc'[p] # "journey"
      OBVIOUS
    <2>2. PICK x \in Existing(req[p].user, req[p].key) :
             \/ End(p, [out |-> redemptions[x].status, rid |-> x])
             \/ ~(redemptions[x].journey = req[p].journey /\ redemptions[x].offer = req[p].offer)
      BY <1>5, <2>1 DEF CheckExisting, Goto, Inv, TypeOK
    <2>3. x = r
      BY <1>1 DEF Books, KeysUnique, Existing
    <2>4. End(p, [out |-> redemptions[r].status, rid |-> r])
      BY <2>2, <2>3
    <2>5. reply'[p].out = redemptions[r].status /\ redemptions[r] \in Row
      BY <1>1, <2>4 DEF End, Inv, TypeOK, Exists
    <2> QED BY <2>5 DEF Row, Refusals
  <1>6. CASE CheckJourney(p) \/ CheckRedeemed(p) \/ CheckOffer(p) \/ LockInventory(p)
             \/ WriteRows(p) \/ Commit(p)
    BY <1>2, <1>6 DEF CheckJourney, CheckRedeemed, CheckOffer, LockInventory, WriteRows, Commit
  <1>7. CASE LockRedemption(p) \/ CommitVerify(p)
    BY <1>3, <1>7 DEF LockRedemption, CommitVerify, VerifySteps
  <1> QED BY <1>4, <1>5, <1>6, <1>7 DEF Step

(* A step of another handler, of a rider or of the clock ends no call of p. *)
LEMMA OnlyOwnStepEnds ==
    ASSUME Inv, [Next]_vars, NEW p \in Procs, pc[p] # "idle", pc'[p] = "idle",
           reply'[p].out \in Refusals
    PROVE  Step(p)
  <1>1. CASE UNCHANGED vars
    BY <1>1 DEF vars
  <1>2. CASE \/ \E u \in Users : GetUserProfile(u)
             \/ \E j \in Journeys : CreateEntryEvent(j)
             \/ \E o \in Offers : ChangeOffer(o)
    BY <1>2 DEF GetUserProfile, CreateEntryEvent, ChangeOffer
  <1>3. ASSUME NEW x \in Procs, BeginCreate(x) \/ BeginVerify(x) PROVE FALSE
    <2>1. x # p /\ \E step : pc' = [pc EXCEPT ![x] = step]
      BY <1>3 DEF BeginCreate, BeginVerify, Begin
    <2> QED BY <2>1 DEF Inv, TypeOK
  <1>4. ASSUME NEW x \in Procs, NEW step, pc' = [pc EXCEPT ![x] = step] PROVE x = p
    BY <1>4 DEF Inv, TypeOK
  <1>5. ASSUME NEW x \in Procs, NEW a, End(x, a) PROVE x = p
    BY <1>4, <1>5 DEF End
  <1>6. ASSUME NEW x \in Procs, NEW why, Refuse(x, why) PROVE x = p
    BY <1>5, <1>6 DEF Refuse
  <1>7. ASSUME NEW x \in Procs, Abort(x) PROVE FALSE
    <2>1. reply'[p].out = "error"
      BY <1>6, <1>7 DEF Abort, Refuse, End, Inv, TypeOK
    <2> QED BY <2>1 DEF Refusals
  <1>8. ASSUME NEW x \in Procs, NEW step, Goto(x, step) PROVE x = p
    BY <1>4, <1>8 DEF Goto
  <1>9. ASSUME NEW x \in Procs, Step(x) PROVE x = p
    <2>1. CASE LockUser(x) \/ CheckJourney(x) \/ CheckRedeemed(x) \/ CheckOffer(x) \/ LockInventory(x)
      BY <1>6, <1>8, <2>1 DEF LockUser, CheckJourney, CheckRedeemed, CheckOffer, LockInventory
    <2>2. CASE CheckExisting(x)
      BY <1>5, <1>6, <1>8, <2>2 DEF CheckExisting
    <2>3. CASE WriteRows(x)
      BY <1>6, <1>8, <2>3 DEF WriteRows
    <2>4. CASE Commit(x) \/ CommitVerify(x)
      BY <1>5, <2>4 DEF Commit, CommitVerify
    <2>5. CASE LockRedemption(x)
      BY <1>5, <1>6, <1>8, <2>5 DEF LockRedemption
    <2> QED BY <1>9, <2>1, <2>2, <2>3, <2>4, <2>5 DEF Step
  <1>10. ASSUME NEW x \in Procs, Step(x) PROVE Step(p)
    BY <1>9, <1>10
  <1> QED BY <1>1, <1>2, <1>3, <1>7, <1>10 DEF Next

(* A Create whose redemption is committed is never refused on a retry.      *)
THEOREM RetriesAreAnswered == Spec => RetryIsAnswered
  <1> DEFINE Answered(p) ==
          (req[p] \in CreateRequests /\ pc[p] # "idle" /\ pc'[p] = "idle"
             /\ reply'[p].out \in Refusals)
          => \A r \in Existing(req[p].user, req[p].key) :
                redemptions[r].journey # req[p].journey \/ redemptions[r].offer # req[p].offer
  <1>1. Inv /\ Books /\ [Next]_vars => \A p \in Procs : Answered(p)
    BY OnlyOwnStepEnds, RefusedHasNone
  <1>2. Inv /\ Books /\ [Next]_vars => [\A p \in Procs : Answered(p)]_vars
    BY <1>1
  <1> QED BY <1>2, InvHolds, BooksHold, PTL DEF Spec, RetryIsAnswered
=============================================================================

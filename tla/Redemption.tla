------------------------------ MODULE Redemption ------------------------------
(***************************************************************************)
(* The redemption service (internal/redemption/service.go): Create spends   *)
(* a rider's points and one unit of stock on an offer, Verify lets the      *)
(* merchant consume the redemption.  Each call is one PostgreSQL            *)
(* transaction at READ COMMITTED: every statement sees the rows committed   *)
(* when it starts, FOR UPDATE waits for the row and re-reads it, and the    *)
(* transaction's own writes become visible, all together, at Commit.        *)
(*                                                                          *)
(* A request handler is a process.  It takes one step per SQL statement     *)
(* that another transaction can disturb; the statements after the last      *)
(* lock is taken touch only rows this transaction has locked or inserted,   *)
(* so they form the single step WriteRows, and Commit publishes them.       *)
(***************************************************************************)
EXTENDS Integers, Sequences, FiniteSets

CONSTANTS
    Users,        \* rows of users, named by user_id_hash
    Journeys,     \* rows of journeys that may be created
    Offers,       \* rows of offers, each with its inventory row
    Keys,         \* idempotency keys that clients send
    Categories,   \* values of offers.category
    Procs,        \* request handlers in flight
    Rids,         \* uuids that Create may draw for a redemption
    None,         \* the absence of a row, of a lock holder or of an answer
    Owner,        \* journeys.user_id
    Cost,         \* offers.points_cost
    Category,     \* offers.category
    InitStock,    \* inventory.available_quantity when the offers are loaded
    DemoPoints    \* user.anonymousDemoInitialPoints

(* Create and Verify requests after the handlers' checks for empty fields.  *)
(* "authentic" abstracts whether the merchant id and the verification code  *)
(* of the request are the ones of the redemption.                           *)
CreateRequests == [user : Users, journey : Journeys, offer : Offers, key : Keys]
VerifyRequests == [rid : Rids, authentic : BOOLEAN]
Row == [user : Users, journey : Journeys, offer : Offers, key : Keys,
        status : {"succeeded", "verified"}]

(* The schema allows a cost of zero, and a stock of zero.                   *)
ASSUME ConstantsAssumption ==
    /\ Owner \in [Journeys -> Users]
    /\ Cost \in [Offers -> Nat]
    /\ Category \in [Offers -> Categories]
    /\ InitStock \in [Offers -> Nat]
    /\ DemoPoints \in Nat \ {0}
    /\ IsFiniteSet(Rids)
    /\ None \notin Procs \cup Rids
    /\ None \notin Row
    /\ None \notin CreateRequests \cup VerifyRequests

VARIABLES
    registered,   \* users that have a row
    journeys,     \* journeys that have a row
    balance,      \* users.point_balance
    ledger,       \* points_ledger, the entries of each user in commit order
    stock,        \* inventory.available_quantity
    active,       \* offers that are active and inside their time window
    redemptions,  \* the redemptions table
    prefs,        \* user_preference_weights (quarters of a point, count)
    outbox,       \* outbox_events, the number of rows for each event
    userLock,     \* holder of FOR UPDATE on each users row
    invLock,      \* holder of FOR UPDATE on each inventory row
    redLock,      \* holder of FOR UPDATE on each redemptions row
    pc,           \* the statement each handler is about to execute
    req,          \* the request each handler works on or last worked on
    seen,         \* Create's local variable balance
    newId,        \* the redemption inserted but not committed
    reply         \* the answer to the last request of each handler

tables == <<registered, journeys, balance, ledger, stock, redemptions, prefs, outbox>>
locks == <<userLock, invLock, redLock>>
vars == <<tables, active, locks, pc, req, seen, newId, reply>>

-----------------------------------------------------------------------------
(* Rows, events and answers.                                                *)

Entry == [rid : Rids \cup {None}, delta : Int, after : Int]
Event == [topic : {"journey.entered"}, id : Journeys]
         \cup [topic : {"redemption.succeeded", "merchant.verified"}, id : Rids]

Refusals == {"user_not_found", "key_conflict", "journey_not_found",
             "already_redeemed", "offer_unavailable", "insufficient_points",
             "redemption_not_found", "verification_failed"}
Answer == [out : {"succeeded", "verified"}, rid : Rids]
          \cup [out : Refusals \cup {"constraint", "error"}, rid : {None}]

(* The statements of Create and of Verify, by the locks held before them.   *)
CreateNoLock == {"lockUser"}
CreateUserLock == {"existing", "journey", "redeemed", "offer", "stock"}
CreateBothLocks == {"write", "commit"}
CreateSteps == CreateNoLock \cup CreateUserLock \cup CreateBothLocks
VerifySteps == {"lockRedemption", "verify"}

Exists(r) == redemptions[r] # None

(* The rows of the query in existingRedemption.                             *)
Existing(u, k) == {r \in Rids : Exists(r) /\ redemptions[r].user = u
                                          /\ redemptions[r].key = k}

(* Rows with status succeeded or verified; Create writes no other status.   *)
Redeemed(u, o) == {r \in Rids : Exists(r) /\ redemptions[r].user = u
                                          /\ redemptions[r].offer = o}

(* outbox.Enqueue; every call draws a new event id.                         *)
Enqueue(topic, id) == outbox' = [outbox EXCEPT ![[topic |-> topic, id |-> id]] = @ + 1]

enqueueSucceededEvent(r) == Enqueue("redemption.succeeded", r)
enqueueVerifiedEvent(r) == Enqueue("merchant.verified", r)

(* LEAST(5, GREATEST(-5, weight)) in quarters; a redemption counts 1.5.     *)
WeightCap == 20
RedemptionDelta == 6
Clamp(w) == IF w > WeightCap THEN WeightCap ELSE IF w < -WeightCap THEN -WeightCap ELSE w

(* ApplyPreferenceFeedback for a redemption: an upsert, where a missing row  *)
(* counts as zero.                                                          *)
ApplyPreferenceFeedback(u, o) ==
    prefs' = [prefs EXCEPT ![u][Category[o]] =
        [weight |-> Clamp(@.weight + RedemptionDelta), redemptions |-> @.redemptions + 1]]

(* UPDATE users (an absolute value), UPDATE inventory (a relative one),     *)
(* INSERT points_ledger and the preference upsert of a redemption r.        *)
Charge(q, r, newBalance) ==
    /\ balance' = [balance EXCEPT ![q.user] = newBalance]
    /\ stock' = [stock EXCEPT ![q.offer] = @ - 1]
    /\ ledger' = [ledger EXCEPT ![q.user] =
          Append(@, [rid |-> r, delta |-> -Cost[q.offer], after |-> newBalance])]
    /\ ApplyPreferenceFeedback(q.user, q.offer)

-----------------------------------------------------------------------------
(* The end of a transaction: COMMIT or ROLLBACK releases the row locks and   *)
(* the handler answers.                                                     *)
Without(lock, p) == [x \in DOMAIN lock |-> IF lock[x] = p THEN None ELSE lock[x]]

End(p, answer) ==
    /\ userLock' = Without(userLock, p)
    /\ invLock' = Without(invLock, p)
    /\ redLock' = Without(redLock, p)
    /\ pc' = [pc EXCEPT ![p] = "idle"]
    /\ seen' = [seen EXCEPT ![p] = 0]
    /\ newId' = [newId EXCEPT ![p] = None]
    /\ reply' = [reply EXCEPT ![p] = answer]
    /\ UNCHANGED <<req, active>>

(* What the handler may be told of a COMMIT that is in effect: PostgreSQL's *)
(* acknowledgement, or the error of a connection that died before it came.  *)
Acknowledged(out, r) == {[out |-> out, rid |-> r], [out |-> "error", rid |-> None]}

(* Fault: an early return without the deferred Rollback.                    *)
RefuseWithoutRollback(p, why) ==
    /\ pc' = [pc EXCEPT ![p] = "idle"]
    /\ reply' = [reply EXCEPT ![p] = [out |-> why, rid |-> None]]
    /\ UNCHANGED <<tables, active, locks, req, seen, newId>>

Refuse(p, why) == End(p, [out |-> why, rid |-> None]) /\ UNCHANGED tables

Goto(p, step) ==
    /\ pc' = [pc EXCEPT ![p] = step]
    /\ UNCHANGED <<tables, active, req, reply>>

-----------------------------------------------------------------------------
(* The world around the service.                                            *)

(* INSERT INTO users ... ON CONFLICT DO NOTHING, with the first ledger      *)
(* entry for a row that is new.                                             *)
EnsureDemoUser(u) ==
    /\ registered' = registered \cup {u}
    /\ IF u \in registered
       THEN UNCHANGED <<balance, ledger>>
       ELSE /\ balance' = [balance EXCEPT ![u] = DemoPoints]
            /\ ledger' = [ledger EXCEPT ![u] =
                  Append(@, [rid |-> None, delta |-> DemoPoints, after |-> DemoPoints])]

(* user.GetUserProfile: a first look at the profile provisions the user.    *)
GetUserProfile(u) ==
    /\ EnsureDemoUser(u)
    /\ UNCHANGED <<journeys, stock, redemptions, prefs, outbox, active, locks, pc, req,
                   seen, newId, reply>>

(* journey.CreateEntryEvent: one transaction that provisions the user on    *)
(* first use (EnsureDemoUser), inserts the journey and its event.  The      *)
(* handler reads nothing that another transaction could change; the foreign *)
(* key of journeys waits for a FOR UPDATE on the users row.                 *)
CreateEntryEvent(j) ==
    /\ j \notin journeys
    /\ userLock[Owner[j]] = None
    /\ EnsureDemoUser(Owner[j])
    /\ journeys' = journeys \cup {j}
    /\ Enqueue("journey.entered", j)
    /\ UNCHANGED <<stock, redemptions, prefs, active, locks, pc, req, seen, newId, reply>>

(* An offer's is_active flag changes or its time window opens or closes.    *)
(* Nothing in the repository writes offers after the migrations.            *)
ChangeOffer(o) ==
    /\ active' = IF o \in active THEN active \ {o} ELSE active \cup {o}
    /\ UNCHANGED <<tables, locks, pc, req, seen, newId, reply>>

(* A client sends a request, for the first time or again.                   *)
Begin(p, q, step) ==
    /\ pc[p] = "idle"
    /\ pc' = [pc EXCEPT ![p] = step]
    /\ req' = [req EXCEPT ![p] = q]
    /\ reply' = [reply EXCEPT ![p] = None]
    /\ UNCHANGED <<tables, active, locks, seen, newId>>

BeginCreate(p) == \E q \in CreateRequests : Begin(p, q, "lockUser")
BeginVerify(p) == \E q \in VerifyRequests : Begin(p, q, "lockRedemption")

(* Fault: the statements of Charge run on the pool, outside the transaction. *)
AbortAfterAutocommit(p) ==
    /\ pc[p] # "idle"
    /\ IF pc[p] = "commit"
       THEN Charge(req[p], newId[p], seen[p] - Cost[req[p].offer])
       ELSE UNCHANGED <<balance, stock, ledger, prefs>>
    /\ UNCHANGED <<registered, journeys, redemptions, outbox>>
    /\ End(p, [out |-> "error", rid |-> None])

(* The context is cancelled, the connection or the process dies, or the     *)
(* COMMIT does not reach PostgreSQL: it rolls the transaction back.         *)
Abort(p) == pc[p] # "idle" /\ Refuse(p, "error")

-----------------------------------------------------------------------------
(* Create.                                                                  *)

(* Fault: SELECT ... FROM users without FOR UPDATE.                         *)
LockUserNoWait(p) ==
    LET u == req[p].user IN
    /\ pc[p] = "lockUser"
    /\ IF u \notin registered
       THEN Refuse(p, "user_not_found")
       ELSE /\ seen' = [seen EXCEPT ![p] = balance[u]]
            /\ Goto(p, "existing")
            /\ UNCHANGED <<locks, newId>>

(* SELECT ... FROM users ... FOR UPDATE.                                    *)
LockUser(p) ==
    LET u == req[p].user IN
    /\ pc[p] = "lockUser"
    /\ \/ u \notin registered /\ Refuse(p, "user_not_found")
       \/ /\ u \in registered
          /\ userLock[u] = None
          /\ userLock' = [userLock EXCEPT ![u] = p]
          /\ seen' = [seen EXCEPT ![p] = balance[u]]
          /\ Goto(p, "existing")
          /\ UNCHANGED <<invLock, redLock, newId>>

(* Fault: the idempotency key is not looked up.                             *)
CheckExistingNever(p) ==
    pc[p] = "existing" /\ Goto(p, "journey") /\ UNCHANGED <<locks, seen, newId>>

(* Fault: a key found is replayed whatever the journey and the offer.       *)
CheckExistingKeyOnly(p) ==
    LET found == Existing(req[p].user, req[p].key) IN
    /\ pc[p] = "existing"
    /\ \/ found = {} /\ Goto(p, "journey") /\ UNCHANGED <<locks, seen, newId>>
       \/ \E r \in found :
            End(p, [out |-> redemptions[r].status, rid |-> r]) /\ UNCHANGED tables

(* existingRedemption, and the replay of a redemption already made.         *)
CheckExisting(p) ==
    LET q == req[p]
        found == Existing(q.user, q.key)
    IN
    /\ pc[p] = "existing"
    /\ \/ found = {} /\ Goto(p, "journey") /\ UNCHANGED <<locks, seen, newId>>
       \/ \E r \in found :
            IF redemptions[r].journey = q.journey /\ redemptions[r].offer = q.offer
            THEN End(p, [out |-> redemptions[r].status, rid |-> r]) /\ UNCHANGED tables
            ELSE Refuse(p, "key_conflict")

CheckJourney(p) ==
    /\ pc[p] = "journey"
    /\ IF req[p].journey \in journeys /\ Owner[req[p].journey] = req[p].user
       THEN Goto(p, "redeemed") /\ UNCHANGED <<locks, seen, newId>>
       ELSE Refuse(p, "journey_not_found")

CheckRedeemed(p) ==
    /\ pc[p] = "redeemed"
    /\ IF Redeemed(req[p].user, req[p].offer) = {}
       THEN Goto(p, "offer") /\ UNCHANGED <<locks, seen, newId>>
       ELSE Refuse(p, "already_redeemed")

(* The inventory statement starts: its snapshot decides whether the offer   *)
(* is active.  FOR UPDATE OF inventory re-reads only the inventory row      *)
(* after a wait, so a later change of the offer goes unnoticed.             *)
CheckOffer(p) ==
    /\ pc[p] = "offer"
    /\ IF req[p].offer \in active
       THEN Goto(p, "stock") /\ UNCHANGED <<locks, seen, newId>>
       ELSE Refuse(p, "offer_unavailable")

(* Fault: no FOR UPDATE OF inventory.                                       *)
LockInventoryNoWait(p) ==
    LET o == req[p].offer IN
    /\ pc[p] = "stock"
    /\ IF stock[o] = 0 \/ seen[p] < Cost[o]
       THEN Refuse(p, "offer_unavailable")
       ELSE Goto(p, "write") /\ UNCHANGED <<locks, seen, newId>>

(* The statement goes on with the inventory row it has locked.              *)
LockInventory(p) ==
    LET o == req[p].offer IN
    /\ pc[p] = "stock"
    /\ invLock[o] = None
    /\ \/ stock[o] = 0 /\ Refuse(p, "offer_unavailable")
       \/ stock[o] # 0 /\ seen[p] < Cost[o] /\ Refuse(p, "insufficient_points")
       \/ /\ stock[o] # 0
          /\ seen[p] >= Cost[o]
          /\ invLock' = [invLock EXCEPT ![o] = p]
          /\ Goto(p, "write")
          /\ UNCHANGED <<userLock, redLock, seen, newId>>

(* Two Create requests whose rows collide in UNIQUE (user_id,               *)
(* idempotency_key) or in the partial index on (user_id, offer_id).         *)
Collide(a, b) == a.user = b.user /\ (a.key = b.key \/ a.offer = b.offer)

(* INSERT redemptions, UPDATE users, UPDATE inventory, INSERT points_ledger, *)
(* the preference upsert and the outbox insert, with the constraints of the *)
(* schema: an insert that collides with an uncommitted row waits for that   *)
(* transaction; one that collides with a committed row, a negative balance  *)
(* or stock, or a ledger delta of zero is an error.                         *)
WriteRows(p) ==
    LET q == req[p] IN
    /\ pc[p] = "write"
    /\ \A x \in Procs \ {p} : pc[x] = "commit" => ~Collide(req[x], q)
    /\ IF \/ \E r \in Rids : Exists(r) /\ Collide(redemptions[r], q)
          \/ seen[p] < Cost[q.offer]
          \/ stock[q.offer] = 0
          \/ Cost[q.offer] = 0
       THEN Refuse(p, "constraint")
       ELSE \E r \in Rids :
              /\ ~Exists(r)
              /\ \A x \in Procs : newId[x] # r
              /\ newId' = [newId EXCEPT ![p] = r]
              /\ Goto(p, "commit")
              /\ UNCHANGED <<locks, seen>>

Commit(p) ==
    LET q == req[p]
        r == newId[p]
    IN
    /\ pc[p] = "commit"
    /\ redemptions' = [redemptions EXCEPT ![r] =
          [user |-> q.user, journey |-> q.journey, offer |-> q.offer,
           key |-> q.key, status |-> "succeeded"]]
    /\ Charge(q, r, seen[p] - Cost[q.offer])
    /\ enqueueSucceededEvent(r)
    /\ UNCHANGED <<registered, journeys>>
    /\ \E answer \in Acknowledged("succeeded", r) : End(p, answer)

-----------------------------------------------------------------------------
(* Verify.                                                                  *)

(* Fault: no FOR UPDATE OF r.                                               *)
LockRedemptionNoWait(p) ==
    LET q == req[p] IN
    /\ pc[p] = "lockRedemption"
    /\ IF ~Exists(q.rid) \/ ~q.authentic \/ redemptions[q.rid].status = "verified"
       THEN Refuse(p, "verification_failed")
       ELSE Goto(p, "verify") /\ UNCHANGED <<locks, seen, newId>>

(* SELECT ... FOR UPDATE OF r, then the checks on the row it returns.       *)
LockRedemption(p) ==
    LET q == req[p] IN
    /\ pc[p] = "lockRedemption"
    /\ \/ ~Exists(q.rid) /\ Refuse(p, "redemption_not_found")
       \/ /\ Exists(q.rid)
          /\ redLock[q.rid] = None
          /\ \/ ~q.authentic /\ Refuse(p, "verification_failed")
             \/ /\ q.authentic
                /\ redemptions[q.rid].status = "verified"
                /\ End(p, [out |-> "verified", rid |-> q.rid])
                /\ UNCHANGED tables
             \/ /\ q.authentic
                /\ redemptions[q.rid].status = "succeeded"
                /\ redLock' = [redLock EXCEPT ![q.rid] = p]
                /\ Goto(p, "verify")
                /\ UNCHANGED <<userLock, invLock, seen, newId>>

(* UPDATE redemptions, the outbox insert and Commit.                        *)
CommitVerify(p) ==
    LET r == req[p].rid IN
    /\ pc[p] = "verify"
    /\ redemptions' = [redemptions EXCEPT ![r].status = "verified"]
    /\ enqueueVerifiedEvent(r)
    /\ UNCHANGED <<registered, journeys, balance, ledger, stock, prefs>>
    /\ \E answer \in Acknowledged("verified", r) : End(p, answer)

-----------------------------------------------------------------------------
Init ==
    /\ registered = {}
    /\ journeys = {}
    /\ balance = [u \in Users |-> 0]
    /\ ledger = [u \in Users |-> <<>>]
    /\ stock = InitStock
    /\ active = Offers
    /\ redemptions = [r \in Rids |-> None]
    /\ prefs = [u \in Users |-> [c \in Categories |-> [weight |-> 0, redemptions |-> 0]]]
    /\ outbox = [e \in Event |-> 0]
    /\ userLock = [u \in Users |-> None]
    /\ invLock = [o \in Offers |-> None]
    /\ redLock = [r \in Rids |-> None]
    /\ pc = [p \in Procs |-> "idle"]
    /\ req = [p \in Procs |-> None]
    /\ seen = [p \in Procs |-> 0]
    /\ newId = [p \in Procs |-> None]
    /\ reply = [p \in Procs |-> None]

(* The statements a handler executes by itself.                             *)
Step(p) ==
    \/ LockUser(p) \/ CheckExisting(p) \/ CheckJourney(p) \/ CheckRedeemed(p)
    \/ CheckOffer(p) \/ LockInventory(p) \/ WriteRows(p) \/ Commit(p)
    \/ LockRedemption(p) \/ CommitVerify(p)

Next ==
    \/ \E u \in Users : GetUserProfile(u)
    \/ \E j \in Journeys : CreateEntryEvent(j)
    \/ \E o \in Offers : ChangeOffer(o)
    \/ \E p \in Procs : BeginCreate(p) \/ BeginVerify(p) \/ Abort(p) \/ Step(p)

Spec == Init /\ [][Next]_vars

(* A handler runs on its own goroutine, and PostgreSQL grants a row lock to  *)
(* its waiters in turn, so a handler that can repeatedly go on does go on.  *)
(* Nothing forces a client to send, an offer to change or a call to fail.   *)
FairSpec == Spec /\ \A p \in Procs : SF_vars(Step(p))

-----------------------------------------------------------------------------
(* Properties.                                                              *)

(* Every variable has its type (the columns' types and CHECK constraints:   *)
(* the balance and the stock are never negative).                           *)
TypeOK ==
    /\ registered \in SUBSET Users
    /\ journeys \in SUBSET Journeys
    /\ balance \in [Users -> Nat]
    /\ ledger \in [Users -> Seq(Entry)]
    /\ stock \in [Offers -> Nat]
    /\ active \in SUBSET Offers
    /\ redemptions \in [Rids -> Row \cup {None}]
    /\ prefs \in [Users -> [Categories -> [weight : Int, redemptions : Nat]]]
    /\ outbox \in [Event -> Nat]
    /\ userLock \in [Users -> Procs \cup {None}]
    /\ invLock \in [Offers -> Procs \cup {None}]
    /\ redLock \in [Rids -> Procs \cup {None}]
    /\ pc \in [Procs -> {"idle"} \cup CreateSteps \cup VerifySteps]
    /\ req \in [Procs -> CreateRequests \cup VerifyRequests \cup {None}]
    /\ seen \in [Procs -> Nat]
    /\ newId \in [Procs -> Rids \cup {None}]
    /\ reply \in [Procs -> Answer \cup {None}]

(* What a handler has established stays true for as long as it relies on it: *)
(* between the checks of Create and its Commit no other transaction changes *)
(* the balance it read, uses its key, redeems its offer for its user, takes *)
(* the last unit or draws its id; between the check of Verify and its       *)
(* Commit nobody else verifies the redemption.                              *)
KeyIsFree(q) == \A r \in Rids : Exists(r) =>
    ~(redemptions[r].user = q.user /\ redemptions[r].key = q.key)
OfferIsFree(q) == \A r \in Rids : Exists(r) =>
    ~(redemptions[r].user = q.user /\ redemptions[r].offer = q.offer)

Knows(p) ==
    LET q == req[p] IN
    /\ pc[p] \in CreateSteps => q \in CreateRequests
    /\ pc[p] \in VerifySteps => q \in VerifyRequests
    /\ pc[p] \in CreateUserLock \cup CreateBothLocks =>
          userLock[q.user] = p /\ q.user \in registered /\ seen[p] = balance[q.user]
    /\ pc[p] \in {"journey", "redeemed", "offer", "stock", "write", "commit"} => KeyIsFree(q)
    /\ pc[p] \in {"redeemed", "offer", "stock", "write", "commit"} =>
          q.journey \in journeys /\ Owner[q.journey] = q.user
    /\ pc[p] \in {"offer", "stock", "write", "commit"} => OfferIsFree(q)
    /\ pc[p] \in CreateBothLocks =>
          invLock[q.offer] = p /\ stock[q.offer] > 0 /\ seen[p] >= Cost[q.offer]
    /\ pc[p] = "commit" => newId[p] \in Rids /\ ~Exists(newId[p]) /\ Cost[q.offer] > 0
    /\ pc[p] = "verify" =>
          redLock[q.rid] = p /\ Exists(q.rid) /\ redemptions[q.rid].status = "succeeded"
    /\ newId[p] # None => pc[p] = "commit"

KnowledgeIsStable ==
    /\ \A p \in Procs : Knows(p)
    /\ \A p, q \in Procs : newId[p] = newId[q] /\ newId[p] # None => p = q

(* The ledger explains the balance: each entry starts from the balance the  *)
(* entry before it left, and the last one leaves the balance of the users   *)
(* row.  Create writes both as absolute values computed from a balance it   *)
(* read several statements earlier (service.go, newBalance), so a lost      *)
(* update breaks the chain.                                                 *)
LedgerChain ==
    \A u \in Users :
        LET n == Len(ledger[u]) IN
        /\ \A i \in 1..n :
              ledger[u][i].after =
                 (IF i = 1 THEN 0 ELSE ledger[u][i-1].after) + ledger[u][i].delta
        /\ balance[u] = IF n = 0 THEN 0 ELSE ledger[u][n].after

(* Every unit of stock is either on the shelf or in exactly one redemption: *)
(* concurrent Create calls for the last unit neither oversell it nor lose   *)
(* it (the relative UPDATE of inventory under FOR UPDATE OF inventory).     *)
StockConserved ==
    \A o \in Offers :
        stock[o] + Cardinality({r \in Rids : Exists(r) /\ redemptions[r].offer = o})
           = InitStock[o]

(* A redemption costs its user once: the ledger of the user has exactly one *)
(* entry for it, with the offer's cost, and no other ledger mentions it.    *)
PaidOnce ==
    \A r \in Rids : \A u \in Users :
        LET entries == {i \in DOMAIN ledger[u] : ledger[u][i].rid = r} IN
        IF Exists(r) /\ redemptions[r].user = u
        THEN \E i \in DOMAIN ledger[u] :
                /\ entries = {i}
                /\ ledger[u][i].delta = -Cost[redemptions[r].offer]
        ELSE entries = {}

(* The outbox tells of every redemption once, of every verification once,   *)
(* and of nothing else: two concurrent Verify calls, or a replayed Create,  *)
(* add no second event.                                                     *)
EventsMatchRows ==
    \A r \in Rids :
        /\ outbox[[topic |-> "redemption.succeeded", id |-> r]] = IF Exists(r) THEN 1 ELSE 0
        /\ outbox[[topic |-> "merchant.verified", id |-> r]] =
              IF Exists(r) /\ redemptions[r].status = "verified" THEN 1 ELSE 0

(* feedback.go: the category signal is recorded "in the same transaction as *)
(* its source event, so a successful event cannot lose its personalization  *)
(* update".  The redemption count of a category is the number of the user's *)
(* redemptions in it.                                                       *)
SignalsMatchRows ==
    \A u \in Users : \A c \in Categories :
        prefs[u][c].redemptions =
            Cardinality({r \in Rids : /\ Exists(r)
                                      /\ redemptions[r].user = u
                                      /\ Category[redemptions[r].offer] = c})

(* The checks of Create are complete: no statement of it is ever refused by *)
(* a constraint of the schema.  The user's row lock, taken before the       *)
(* checks, keeps them true until the inserts, so the unique indexes and the *)
(* CHECKs only repeat what the code has established.                        *)
ConstraintsNeverFire ==
    \A p \in Procs : reply[p] # None => reply[p].out # "constraint"

(* One key, one redemption: any two successful answers to Create for the    *)
(* same user and idempotency key name the same redemption, of the same      *)
(* offer and journey, whichever handlers gave them and in whatever order.   *)
SameAnswerPerKey ==
    \A p, q \in Procs :
        /\ req[p] \in CreateRequests /\ reply[p] # None /\ reply[p].rid # None
        /\ req[q] \in CreateRequests /\ reply[q] # None /\ reply[q].rid # None
        /\ req[p].user = req[q].user /\ req[p].key = req[q].key
        => reply[p].rid = reply[q].rid /\ req[p] = req[q]

(* A retry is answered with the redemption, never with a refusal: when a    *)
(* Create whose redemption is committed (its first reply was lost) is       *)
(* refused, that redemption belongs to another journey or offer.            *)
RetryIsAnswered ==
    [][\A p \in Procs :
          (req[p] \in CreateRequests /\ pc[p] # "idle" /\ pc'[p] = "idle"
             /\ reply'[p].out \in Refusals)
          => \A r \in Existing(req[p].user, req[p].key) :
                redemptions[r].journey # req[p].journey \/ redemptions[r].offer # req[p].offer
      ]_vars

(* Serializability: however the transactions interleave, abort and repeat,  *)
(* the committed tables go only through steps that a service executing each *)
(* request alone would take.                                                *)
Atomic == INSTANCE AtomicRedemption
Serializable == Atomic!Spec

(* Create and Verify never wait for each other for ever: the lock order     *)
(* users, inventory (and redemptions alone) has no cycle.                   *)
RequestEnds == \A p \in Procs : pc[p] # "idle" ~> pc[p] = "idle"
=============================================================================

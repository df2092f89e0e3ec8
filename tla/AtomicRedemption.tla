--------------------------- MODULE AtomicRedemption ---------------------------
(***************************************************************************)
(* What the redemption service promises: riders, journeys, points, stock    *)
(* and redemptions change as if every request were executed alone, in one   *)
(* step, on tables nobody else touches.  There are no locks, no local       *)
(* copies and no indexes here: a redemption checks everything it needs and  *)
(* changes everything it changes at once.  Module Redemption implements it. *)
(***************************************************************************)
EXTENDS Integers, Sequences

CONSTANTS Users, Journeys, Offers, Keys, Categories, Rids, None,
          Owner, Cost, Category, InitStock, DemoPoints

VARIABLES registered, journeys, balance, ledger, stock, redemptions, outbox

tables == <<registered, journeys, balance, ledger, stock, redemptions, outbox>>

Made == {r \in Rids : redemptions[r] # None}

Record(topic, id) == outbox' = [outbox EXCEPT ![[topic |-> topic, id |-> id]] = @ + 1]

Pay(u, r, delta) ==
    /\ balance[u] + delta >= 0
    /\ balance' = [balance EXCEPT ![u] = @ + delta]
    /\ ledger' = [ledger EXCEPT ![u] =
          Append(@, [rid |-> r, delta |-> delta, after |-> balance[u] + delta])]

(* A rider is known from the first request on, with a gift of points.       *)
Welcome(u) ==
    /\ registered' = registered \cup {u}
    /\ IF u \in registered
       THEN UNCHANGED <<balance, ledger>>
       ELSE Pay(u, None, DemoPoints)

(* A rider looks at the profile.                                            *)
Look(u) == Welcome(u) /\ UNCHANGED <<journeys, stock, redemptions, outbox>>

(* A rider starts a journey.                                                *)
Enter(j) ==
    /\ j \notin journeys
    /\ journeys' = journeys \cup {j}
    /\ Welcome(Owner[j])
    /\ Record("journey.entered", j)
    /\ UNCHANGED <<stock, redemptions>>

(* A rider on a journey redeems an offer not redeemed before, under a key   *)
(* not used before, with enough points and stock.                           *)
Redeem(u, j, o, k, r) ==
    /\ u \in registered /\ j \in journeys /\ Owner[j] = u
    /\ r \notin Made
    /\ \A x \in Made : redemptions[x].user = u =>
          redemptions[x].key # k /\ redemptions[x].offer # o
    /\ stock[o] > 0
    /\ stock' = [stock EXCEPT ![o] = @ - 1]
    /\ Cost[o] > 0 /\ Pay(u, r, -Cost[o])
    /\ redemptions' = [redemptions EXCEPT ![r] =
          [user |-> u, journey |-> j, offer |-> o, key |-> k, status |-> "succeeded"]]
    /\ Record("redemption.succeeded", r)
    /\ UNCHANGED <<registered, journeys>>

(* The merchant consumes a redemption, once.                                *)
Consume(r) ==
    /\ r \in Made
    /\ redemptions[r].status = "succeeded"
    /\ redemptions' = [redemptions EXCEPT ![r].status = "verified"]
    /\ Record("merchant.verified", r)
    /\ UNCHANGED <<registered, journeys, balance, ledger, stock>>

Init ==
    /\ registered = {}
    /\ journeys = {}
    /\ balance = [u \in Users |-> 0]
    /\ ledger = [u \in Users |-> <<>>]
    /\ stock = InitStock
    /\ redemptions = [r \in Rids |-> None]
    /\ \A e \in DOMAIN outbox : outbox[e] = 0

Next ==
    \/ \E u \in Users : Look(u)
    \/ \E j \in Journeys : Enter(j)
    \/ \E u \in Users, j \in Journeys, o \in Offers, k \in Keys, r \in Rids :
          Redeem(u, j, o, k, r)
    \/ \E r \in Rids : Consume(r)

Spec == Init /\ [][Next]_tables
=============================================================================

------------------------------- MODULE Feedback -------------------------------
(***************************************************************************)
(* The feedback loop of one rider: journey.RecordRecommendationEvent        *)
(* (internal/journey/service.go) records impressions, clicks and dismissals *)
(* of a recommendation, redemption.Create ends with the same preference     *)
(* upsert (internal/recommendation/feedback.go), and                        *)
(* GetLatestRecommendation shows what has not been dismissed.               *)
(*                                                                          *)
(* The two transactions lock rows in opposite orders.  An event locks the   *)
(* preference row of the category and then, through a foreign key, shares   *)
(* the users row (FOR KEY SHARE); a redemption locks the users row FOR      *)
(* UPDATE first and the preference row last.  Locks a transaction keeps to  *)
(* itself, and the checks that module Redemption has, are left out.         *)
(***************************************************************************)
EXTENDS Integers, Sequences, FiniteSets

CONSTANTS
    Recs,        \* the rider's recommendations
    Offers,
    Categories,
    Procs,       \* request handlers in flight
    None,        \* no lock holder, no preference row, no offer_id, no event
    Unlisted,    \* an offer that is no eligible candidate of any recommendation
    Category,    \* offers.category
    Candidates,  \* recommendations.candidate_summary: the ranked candidates
    Earlier,     \* the preference rows left by earlier journeys, or None
    ShowLimit    \* Service.recommendationCandidateLimit

Kinds == {"impressed", "clicked", "dismissed"}
EventIds == [kind : Kinds, rec : Recs, offer : Offers]
Requests == [kind : Kinds, rec : Recs, offer : Offers \cup {None, Unlisted}]
Redeems == [kind : {"redeemed"}, offer : Offers]

IsEligible(r, o) == \E i \in DOMAIN Candidates[r] :
    Candidates[r][i].offer = o /\ Candidates[r][i].eligible

(* recommendations.offer_id: Recommend stores the first eligible candidate, *)
(* and makes no recommendation when there is none.                          *)
Primary(r) ==
    LET first == CHOOSE i \in DOMAIN Candidates[r] :
            /\ Candidates[r][i].eligible
            /\ \A k \in 1..(i-1) : ~Candidates[r][k].eligible
    IN  Candidates[r][first].offer

ASSUME FeedbackAssumption ==
    /\ Category \in [Offers -> Categories]
    /\ Candidates \in [Recs -> Seq([offer : Offers, eligible : BOOLEAN, titled : BOOLEAN])]
    /\ \A r \in Recs : \E o \in Offers : IsEligible(r, o)
    /\ ShowLimit \in Nat \ {0}
    /\ None \notin Procs \cup Offers \cup EventIds \cup Redeems
    /\ Unlisted \notin Offers \cup {None}

VARIABLES
    processed,   \* processed_events of gateway-recommendation-feedback
    weights,     \* user_preference_weights, by category
    dismissals,  \* recommendation_dismissals
    outbox,      \* outbox_events for each feedback event
    redeemed,    \* offers redeemed
    weightLock,  \* holder of each preference row
    userLock,    \* holder of FOR UPDATE on the users row
    shares,      \* holders of FOR KEY SHARE on the users row
    pc,          \* the statement each handler is about to execute
    req,         \* the request of each handler
    ev           \* the event id it works on, or the redemption

tables == <<processed, weights, dismissals, outbox, redeemed>>
locks == <<weightLock, userLock, shares>>
vars == <<tables, locks, pc, req, ev>>

(* feedbackDelta, in quarters: the weight and which count goes up.          *)
Delta(kind) == CASE kind = "clicked" -> 2
                 [] kind = "dismissed" -> -3
                 [] kind = "redeemed" -> 6

Cap == 20

Signals == {"clicked", "dismissed", "redeemed"}
PreferenceRows == [weight : -Cap..Cap, counts : [Signals -> Nat]]

Clamp(w) == IF w > Cap THEN Cap ELSE IF w < -Cap THEN -Cap ELSE w

(* Until the signals of a row can have taken its weight to a bound, the     *)
(* weight is their sum.                                                     *)
SumsSignals(r) ==
    LET n == r.counts IN
    2 * n["clicked"] + 3 * n["dismissed"] + 6 * n["redeemed"] <= Cap =>
        r.weight = 2 * n["clicked"] - 3 * n["dismissed"] + 6 * n["redeemed"]

(* The same statement has written the earlier rows.                         *)
ASSUME EarlierAssumption ==
    /\ None \notin PreferenceRows
    /\ Earlier \in [Categories -> PreferenceRows \cup {None}]
    /\ \A c \in Categories : Earlier[c] # None => SumsSignals(Earlier[c])

ApplyPreferenceFeedback(c, kind) ==
    LET counts == IF weights[c] = None THEN [k \in Signals |-> 0]
                  ELSE weights[c].counts
        weight == IF weights[c] = None THEN 0 ELSE weights[c].weight
    IN  weights' = [weights EXCEPT ![c] =
            [weight |-> Clamp(weight + Delta(kind)), counts |-> [counts EXCEPT ![kind] = @ + 1]]]

-----------------------------------------------------------------------------
(* GetLatestRecommendation: of the ranked candidates, those that are        *)
(* eligible, have a title and are not dismissed ...                         *)
Left(r) ==
    {i \in DOMAIN Candidates[r] : /\ Candidates[r][i].eligible /\ Candidates[r][i].titled
                                  /\ <<r, Candidates[r][i].offer>> \notin dismissals}

(* ... and the first of them, up to the limit, are shown; the very first is *)
(* the offer selected.                                                      *)
Shown(r) == {i \in Left(r) : Cardinality({j \in Left(r) : j < i}) < ShowLimit}

-----------------------------------------------------------------------------
Begin(p) ==
    /\ pc[p] = "idle"
    /\ \E q \in Requests \cup Redeems :
          /\ req' = [req EXCEPT ![p] = q]
          /\ pc' = [pc EXCEPT ![p] = IF q.kind = "redeemed" THEN "lockUser" ELSE "lookup"]
    /\ UNCHANGED <<tables, locks, ev>>

(* COMMIT or ROLLBACK releases the locks and the handler answers.           *)
End(p) ==
    /\ weightLock' = [c \in Categories |-> IF weightLock[c] = p THEN None ELSE weightLock[c]]
    /\ userLock' = IF userLock = p THEN None ELSE userLock
    /\ shares' = shares \ {p}
    /\ pc' = [pc EXCEPT ![p] = "idle"]
    /\ req' = [req EXCEPT ![p] = None]
    /\ ev' = [ev EXCEPT ![p] = None]

(* Fault: an early return without the deferred Rollback.                    *)
RefuseWithoutRollback(p) ==
    /\ pc' = [pc EXCEPT ![p] = "idle"]
    /\ UNCHANGED <<tables, locks, req, ev>>

Refuse(p) == End(p) /\ UNCHANGED tables

Goto(p, step) == pc' = [pc EXCEPT ![p] = step] /\ UNCHANGED <<tables, req>>

(* The recommendation is read and the offer settled: the primary one, or an *)
(* eligible candidate the client names, with a title or without.            *)
Lookup(p) ==
    LET q == req[p]
        o == IF q.offer = None THEN Primary(q.rec) ELSE q.offer
    IN
    /\ pc[p] = "lookup"
    /\ \/ /\ o # Primary(q.rec) /\ ~IsEligible(q.rec, o)
          /\ Refuse(p)
       \/ /\ o = Primary(q.rec) \/ IsEligible(q.rec, o)
          /\ ev' = [ev EXCEPT ![p] = [kind |-> q.kind, rec |-> q.rec, offer |-> o]]
          /\ Goto(p, "claim")
          /\ UNCHANGED locks

Holds(x, e) == ev[x] = e /\ pc[x] \in {"weights", "share", "commit"}

(* Fault: processed_events is read, not inserted into, before the work.     *)
ClaimNoWait(p) ==
    /\ pc[p] = "claim"
    /\ IF ev[p] \in processed THEN Refuse(p)
       ELSE /\ Goto(p, IF ev[p].kind = "impressed" THEN "commit" ELSE "weights")
            /\ UNCHANGED <<locks, ev>>

(* INSERT INTO processed_events ... ON CONFLICT DO NOTHING waits for an     *)
(* uncommitted claim of the same event; a committed one ends the request.   *)
Claim(p) ==
    /\ pc[p] = "claim"
    /\ \A x \in Procs \ {p} : ~Holds(x, ev[p])
    /\ IF ev[p] \in processed THEN Refuse(p)
       ELSE /\ Goto(p, IF ev[p].kind = "impressed" THEN "commit" ELSE "weights")
            /\ UNCHANGED <<locks, ev>>

(* The upsert locks the preference row.  A row that is new checks its       *)
(* foreign key, and so does the row of recommendation_dismissals; for a     *)
(* redemption the users row is already its own.                             *)
Weights(p) ==
    LET c == Category[ev[p].offer] IN
    /\ pc[p] = "weights"
    /\ weightLock[c] = None
    /\ weightLock' = [weightLock EXCEPT ![c] = p]
    /\ Goto(p, IF ev[p].kind = "dismissed" \/ (ev[p].kind = "clicked" /\ weights[c] = None)
               THEN "share" ELSE "commit")
    /\ UNCHANGED <<userLock, shares, ev>>

Share(p) ==
    /\ pc[p] = "share"
    /\ userLock = None
    /\ shares' = shares \cup {p}
    /\ Goto(p, "commit")
    /\ UNCHANGED <<weightLock, userLock, ev>>

(* Fault: only a dismissal of the primary offer is remembered.              *)
CommitEventPrimaryOnly(p) ==
    LET e == ev[p] IN
    /\ pc[p] = "commit" /\ e \in EventIds
    /\ processed' = processed \cup {e}
    /\ IF e.kind = "impressed" THEN UNCHANGED weights
       ELSE ApplyPreferenceFeedback(Category[e.offer], e.kind)
    /\ dismissals' = IF e.kind = "dismissed" /\ e.offer = Primary(e.rec)
                     THEN dismissals \cup {<<e.rec, e.offer>>} ELSE dismissals
    /\ outbox' = [outbox EXCEPT ![e] = @ + 1]
    /\ End(p) /\ UNCHANGED redeemed

(* The claim, the signal, the dismissal and the outbox row of an event.     *)
CommitEvent(p) ==
    LET e == ev[p] IN
    /\ pc[p] = "commit" /\ e \in EventIds
    /\ processed' = processed \cup {e}
    /\ IF e.kind = "impressed" THEN UNCHANGED weights
       ELSE ApplyPreferenceFeedback(Category[e.offer], e.kind)
    /\ dismissals' = IF e.kind = "dismissed" THEN dismissals \cup {<<e.rec, e.offer>>}
                     ELSE dismissals
    /\ outbox' = [outbox EXCEPT ![e] = @ + 1]
    /\ End(p) /\ UNCHANGED redeemed

(* Fault: the users row is read FOR KEY SHARE and locked FOR UPDATE later.  *)
LockUserUpgrade(p) ==
    /\ pc[p] = "lockUser"
    /\ userLock = None
    /\ \/ /\ p \notin shares
          /\ shares' = shares \cup {p}
          /\ Goto(p, "lockUser") /\ UNCHANGED <<weightLock, userLock, ev>>
       \/ /\ shares = {p}
          /\ userLock' = p /\ shares' = {}
          /\ ev' = [ev EXCEPT ![p] = req[p]]
          /\ Goto(p, "weights") /\ UNCHANGED weightLock

(* redemption.Create: FOR UPDATE on the users row, the one-time check, the  *)
(* upsert (Weights) and Commit.                                             *)
LockUser(p) ==
    /\ pc[p] = "lockUser"
    /\ userLock = None /\ shares = {}
    /\ IF req[p].offer \in redeemed THEN Refuse(p)
       ELSE /\ userLock' = p
            /\ ev' = [ev EXCEPT ![p] = req[p]]
            /\ Goto(p, "weights")
            /\ UNCHANGED <<weightLock, shares>>

CommitRedemption(p) ==
    LET e == ev[p] IN
    /\ pc[p] = "commit" /\ e \in Redeems
    /\ redeemed' = redeemed \cup {e.offer}
    /\ ApplyPreferenceFeedback(Category[e.offer], "redeemed")
    /\ End(p) /\ UNCHANGED <<processed, dismissals, outbox>>

(* The request fails and its transaction is rolled back.                    *)
Abort(p) == pc[p] # "idle" /\ Refuse(p)

-----------------------------------------------------------------------------
(* PostgreSQL's deadlock detector: a transaction in a cycle of waits is     *)
(* refused.  Only redemptions wait while they hold the users row, so every  *)
(* cycle has two members.                                                   *)
WaitsFor(p, x) ==
    \/ pc[p] = "claim" /\ Holds(x, ev[p])
    \/ pc[p] = "weights" /\ weightLock[Category[ev[p].offer]] = x
    \/ pc[p] = "share" /\ userLock = x
    \/ pc[p] = "lockUser" /\ (userLock = x \/ x \in shares)

Detect(p) == /\ \E x \in Procs \ {p} : WaitsFor(p, x) /\ WaitsFor(x, p)
             /\ Refuse(p)

-----------------------------------------------------------------------------
Init ==
    /\ processed = {}
    /\ weights = Earlier
    /\ dismissals = {}
    /\ outbox = [e \in EventIds |-> 0]
    /\ redeemed = {}
    /\ weightLock = [c \in Categories |-> None]
    /\ userLock = None
    /\ shares = {}
    /\ pc = [p \in Procs |-> "idle"]
    /\ req = [p \in Procs |-> None]
    /\ ev = [p \in Procs |-> None]

Step(p) == \/ Lookup(p) \/ Claim(p) \/ Weights(p) \/ Share(p) \/ CommitEvent(p)
           \/ LockUser(p) \/ CommitRedemption(p)

Next == \E p \in Procs : Begin(p) \/ Step(p) \/ Abort(p) \/ Detect(p)

Spec == Init /\ [][Next]_vars

(* Row locks are granted in turn, and the detector runs whenever a wait     *)
(* lasts longer than deadlock_timeout.                                      *)
FairSpec == Spec /\ \A p \in Procs : SF_vars(Step(p)) /\ WF_vars(Detect(p))

-----------------------------------------------------------------------------
(* Properties.                                                              *)

(* Every variable has its type: weights stay within their bounds, a row     *)
(* lock is held by a handler in the middle of its transaction, and nobody   *)
(* shares the users row while another holds it FOR UPDATE.                  *)
TypeOK ==
    /\ processed \subseteq EventIds
    /\ weights \in [Categories -> PreferenceRows \cup {None}]
    /\ dismissals \subseteq Recs \X Offers
    /\ outbox \in [EventIds -> Nat]
    /\ redeemed \subseteq Offers
    /\ weightLock \in [Categories -> Procs \cup {None}]
    /\ userLock \in Procs \cup {None}
    /\ shares \subseteq Procs
    /\ pc \in [Procs -> {"idle", "lookup", "claim", "weights", "share", "commit", "lockUser"}]
    /\ req \in [Procs -> Requests \cup Redeems \cup {None}]
    /\ ev \in [Procs -> EventIds \cup Redeems \cup {None}]
    /\ \A c \in Categories : weightLock[c] # None => pc[weightLock[c]] \in {"share", "commit"}
    /\ userLock # None => pc[userLock] \in {"weights", "commit"} /\ shares = {}

(* How often a signal has been given, in earlier journeys and in this one.  *)
Count(kind, c) ==
    (IF Earlier[c] = None THEN 0 ELSE Earlier[c].counts[kind])
    + IF kind = "redeemed" THEN Cardinality({o \in redeemed : Category[o] = c})
      ELSE Cardinality({e \in processed : e.kind = kind /\ Category[e.offer] = c})

(* "Feedback event replays are idempotent per user, journey,                *)
(* recommendation, offer, and event type" (docs/demo-deployment.md): each   *)
(* count of a category is the number of different events and redemptions    *)
(* behind it, however often they are sent and whoever runs at the same      *)
(* time, and until the weight can have met its bound it is the sum of their *)
(* signals, and never beyond it.  Each event that counted is told to Kafka  *)
(* exactly once, and no other.                                              *)
SignalsCounted ==
    /\ TypeOK
    /\ \A e \in EventIds : outbox[e] = IF e \in processed THEN 1 ELSE 0
    /\ \A c \in Categories :
          LET n == [k \in Signals |-> Count(k, c)] IN
          IF weights[c] = None THEN \A k \in Signals : n[k] = 0
          ELSE weights[c].counts = n /\ SumsSignals(weights[c])

(* What the rider has dismissed is not shown again for that recommendation, *)
(* whether it was the primary offer or another candidate.                   *)
DismissedNotShown ==
    \A e \in processed : e.kind = "dismissed" =>
        \A i \in Shown(e.rec) : Candidates[e.rec][i].offer # e.offer

(* A wait that only the detector can end has a redemption on one side and a *)
(* feedback event on the other: two events, or two redemptions, never       *)
(* deadlock.                                                                *)
DeadlocksAreMixed ==
    \A p, x \in Procs :
        p # x /\ WaitsFor(p, x) /\ WaitsFor(x, p)
             => (ev[p] \in Redeems) # (ev[x] \in Redeems)

(* Every request ends, in spite of the opposite lock orders.                *)
RequestEnds == \A p \in Procs : pc[p] # "idle" ~> pc[p] = "idle"
=============================================================================

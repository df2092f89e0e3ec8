---------------------------- MODULE Recommendation ----------------------------
(***************************************************************************)
(* RecommendationService (internal/recommendation/recommendation.go): from  *)
(* an entry to a stored recommendation.  Recommend reads the preference,    *)
(* asks Qdrant for candidates, reads the rider's balance and the offers in  *)
(* PostgreSQL, ranks the candidates, writes the copy (module Copy) and      *)
(* commits the recommendation with its event.                               *)
(*                                                                          *)
(* Its statements run at READ COMMITTED, so redemptions and changes of      *)
(* offers fall between them.  Scores are in eightieths: a bonus of 0.05 is  *)
(* 4, and a quarter of a learned category weight is 1.                      *)
(***************************************************************************)
EXTENDS Integers, Sequences, FiniteSets, FiniteSetsExt, SequencesExt, Copy

CONSTANTS
    Offers,      \* offer ids, as naturals: ties are broken by their order
    Categories,  \* categories of offers and of learned weights, as they are stored
    Lower,       \* their trimmed lower-case forms
    None,        \* the category that is empty when it is trimmed
    OfferRows,   \* rows an offer may have: offers joined with inventory
    Preferences, \* what PreferenceStore.Get may return
    Scores,      \* vector scores
    Station,     \* name_zh of the station the rider entered
    Configured,  \* RECOMMENDATION_CANDIDATE_LIMIT
    StartBalance,
    MaxCalls,    \* bound: calls of Recommend for the journey
    MaxChanges   \* bound: redemptions and changes of offers

ASSUME RecommendationAssumption ==
    /\ Offers \subseteq Nat
    /\ None \notin Categories /\ Lower \in [Categories -> Categories]
    /\ OfferRows \subseteq [here : BOOLEAN, active : BOOLEAN, quantity : Nat, cost : Numbers,
                            category : Categories \cup {None}, title : Texts, description : Texts]
    /\ Preferences \subseteq [near : BOOLEAN, min : Nat, max : Nat,
                              categories : SUBSET Categories, weights : [Categories -> Int]]
    /\ Scores \subseteq Nat
    /\ Station \in Texts
    /\ Configured \in Int
    /\ StartBalance \in Nat /\ MaxCalls \in Nat /\ MaxChanges \in Nat

VARIABLES
    offers,      \* the offers and inventory tables
    balance,     \* users.point_balance of the rider
    redeemed,    \* offers the rider has a redemption of
    preference,  \* what Get returns for the rider
    recs,        \* the recommendations of the journey, in the order of their commits
    outbox,      \* the offers told of in recommendation.created events
    pc,          \* the statement Recommend is about to execute
    candidates,  \* the answer of Search
    points,      \* the balance Recommend has read
    found,       \* the offers Recommend has read
    before,      \* ghost: the offers redeemed, and the changes, when its transaction began
    outcome,     \* how the last call ended
    calls,
    changes

tables == <<offers, balance, redeemed, recs, outbox>>
vars == <<tables, preference, pc, candidates, points, found, before, outcome, calls, changes>>

(* WithCandidateLimit, and CandidateLimit's default.                        *)
CandidateLimit == IF Configured < 1 THEN 10 ELSE IF Configured > 50 THEN 50 ELSE Configured

(* What Search may answer: distinct offers, best first, at most the limit.  *)
Answers ==
    {s \in UNION {[1..n -> Offers \X Scores] : n \in 0..CandidateLimit} :
        \A i, j \in DOMAIN s : i < j => s[i][1] # s[j][1] /\ s[i][2] >= s[j][2]}

-----------------------------------------------------------------------------
(* The evaluation of one candidate against its row.                         *)

Rejections(row) ==
    (IF row.active THEN {} ELSE {"offer_inactive_or_expired"})
    \cup (IF row.quantity > 0 THEN {} ELSE {"out_of_stock"})
    \cup (IF row.cost <= points THEN {} ELSE {"insufficient_points"})

matchesPreferredCategory(row) ==
    row.category # None /\ \E c \in preference.categories : Lower[row.category] = Lower[c]

(* The weights are stored under the category as it is, but looked up under  *)
(* its lower-case form.                                                     *)
Weight(row) == IF row.category = None THEN 0 ELSE preference.weights[Lower[row.category]]

(* What each reason adds to the score; learned_category stands for the      *)
(* preference or the avoidance, by the sign of the weight.                  *)
Bonuses(row) ==
    [near_predicted_destination |-> IF preference.near THEN 16 ELSE 0,
     within_budget |-> IF row.cost \in preference.min..preference.max THEN 8 ELSE 0,
     inventory_urgency |-> IF row.quantity \in 1..5 THEN 4 ELSE 0,
     preferred_category |-> IF matchesPreferredCategory(row) THEN 8 ELSE 0,
     learned_category |-> Weight(row)]

Bonus(b) ==
    b.near_predicted_destination + b.within_budget + b.inventory_urgency
    + b.preferred_category + b.learned_category

Reasons(row) == Rejections(row) \cup {name \in DOMAIN Bonuses(row) : Bonuses(row)[name] # 0}

(* Fault: only the reasons for the score are looked at.                     *)
EvaluateWithoutRejections(c) ==
    IF c[1] \notin DOMAIN found
    THEN [offer |-> c[1], score |-> c[2], eligible |-> FALSE, reasons |-> {"stale_candidate"}]
    ELSE LET row == found[c[1]]
         IN  [offer |-> c[1],
              score |-> c[2] + Bonus(Bonuses(row)),
              eligible |-> row.active,
              reasons |-> Reasons(row)]

(* A candidate that is not among the rows found is stale.                   *)
Evaluate(c) ==
    IF c[1] \notin DOMAIN found
    THEN [offer |-> c[1], score |-> c[2], eligible |-> FALSE, reasons |-> {"stale_candidate"}]
    ELSE LET row == found[c[1]]
             eligible == Rejections(row) = {}
         IN  [offer |-> c[1],
              score |-> c[2] + Bonus(Bonuses(row)),
              eligible |-> eligible,
              reasons |-> Reasons(row) \cup (IF eligible THEN {"within_points"} ELSE {})]

(* The comparison of sort.SliceStable.                                      *)
Before(x, y) == x.score > y.score \/ (x.score = y.score /\ x.offer < y.offer)

(* Fault: the candidates keep the order of their vector scores.             *)
EvaluationsUnsorted == [i \in DOMAIN candidates |-> Evaluate(candidates[i])]

(* ... and the sort itself: equal elements keep their order, and at place k *)
(* is the one that k - 1 others precede.                                    *)
Precedes(s, i, j) == Before(s[i], s[j]) \/ (~Before(s[j], s[i]) /\ i < j)

SliceStable(s) ==
    IF s = <<>> THEN s ELSE
    [k \in DOMAIN s |->
        s[CHOOSE i \in DOMAIN s : Cardinality({j \in DOMAIN s : Precedes(s, j, i)}) = k - 1]]

Evaluations == SliceStable([i \in DOMAIN candidates |-> Evaluate(candidates[i])])

(* The position of the first eligible evaluation, or 0.                     *)
ChosenIndex(evaluations) ==
    LET eligible == {i \in DOMAIN evaluations : evaluations[i].eligible}
    IN  IF eligible = {} THEN 0 ELSE Min(eligible)

CopyFacts(o, reasons) ==
    [station |-> Station, offer |-> found[o].title, discount |-> found[o].description,
     cost |-> found[o].cost, labels |-> Min({Cardinality(reasons), 3})]

(* A list of offers is the set of their places among the evaluations, which *)
(* are stored in candidate_summary; it ends at the limit.                   *)
UpToLimit(places) == {k \in places : Cardinality({j \in places : j < k}) < CandidateLimit}

(* recommendation.Offers: the eligible evaluations.                         *)
Listed(evaluations) == UpToLimit({k \in DOMAIN evaluations : evaluations[k].eligible})

(* GetLatest: the offers read back from the stored candidate_summary, which *)
(* has the title of every offer that was found.                             *)
GetLatest(rec) ==
    UpToLimit({k \in DOMAIN rec.summary : rec.summary[k].eligible /\ rec.summary[k].title > 0})

-----------------------------------------------------------------------------
(* The world around the service.                                            *)

(* When redemption.Create succeeds for an offer at the rider's station.  A  *)
(* free one passes its checks, but its row of points_ledger is refused:     *)
(* CHECK (delta <> 0).                                                      *)
Redeemable(o) ==
    /\ o \notin redeemed
    /\ offers[o].here /\ offers[o].active /\ offers[o].quantity > 0
    /\ offers[o].cost <= balance
    /\ offers[o].cost > 0

(* redemption.Create (module Redemption) commits for this rider.            *)
Redeem(o) ==
    /\ changes < MaxChanges
    /\ Redeemable(o)
    /\ redeemed' = redeemed \cup {o}
    /\ balance' = balance - offers[o].cost
    /\ offers' = [offers EXCEPT ![o].quantity = @ - 1]
    /\ changes' = changes + 1
    /\ UNCHANGED <<preference, recs, outbox, pc, candidates, points, found, before, outcome, calls>>

(* The offer is deactivated or ends.                                        *)
Deactivate(o) ==
    /\ changes < MaxChanges
    /\ offers[o].active
    /\ offers' = [offers EXCEPT ![o].active = FALSE]
    /\ changes' = changes + 1
    /\ UNCHANGED <<balance, redeemed, preference, recs, outbox, pc, candidates, points, found,
                   before, outcome, calls>>

-----------------------------------------------------------------------------
(* Recommend.                                                               *)

NotFound == [o \in {} |-> None]

Refuse(error) ==
    /\ pc' = "idle"
    /\ outcome' = error
    /\ UNCHANGED <<tables, preference, candidates, points, found, before, changes>>

(* The embedder of the profile fails, in any of the ways of                 *)
(* NewHTTPEmbedder.                                                         *)
EmbeddingFails == Refuse("embedding")

(* The entry consumer first asks for the vector of the rider's profile.     *)
QueryVector ==
    /\ pc = "idle"
    /\ calls < MaxCalls
    /\ calls' = calls + 1
    /\ \/ EmbeddingFails
       \/ /\ pc' = "search" /\ outcome' = "pending"
          /\ UNCHANGED <<tables, preference, candidates, points, found, before, changes>>

(* Recommend reads the preference and asks Qdrant, which may fail or find   *)
(* nothing.                                                                 *)
Search ==
    /\ pc = "search"
    /\ UNCHANGED calls
    /\ \/ Refuse("recall")
       \/ \E s \in Answers :
             /\ candidates' = s
             /\ found' = NotFound
             /\ points' = 0
             /\ IF s = <<>> THEN pc' = "idle" /\ outcome' = "no_eligible_offer"
                ELSE pc' = "user" /\ UNCHANGED outcome
             /\ UNCHANGED <<tables, preference, before, changes>>

(* BEGIN and the first statements: the rider's balance, and the journey     *)
(* with its station.  A request for an unknown rider or journey, or for     *)
(* another station, is refused.                                             *)
ReadUser ==
    /\ pc = "user"
    /\ \/ /\ \E error \in {"user_not_found", "journey_not_found", "station_mismatch", "database"} :
                Refuse(error)
          /\ UNCHANGED calls
       \/ /\ points' = balance
          /\ before' = [redeemed |-> redeemed, changes |-> changes]
          /\ pc' = "offers"
          /\ UNCHANGED <<tables, preference, candidates, found, outcome, calls, changes>>

(* The offers statement: candidates of this station that the rider has not  *)
(* redeemed.  Without rows.Err() a failure before the last row goes         *)
(* unnoticed: Recommend goes on with those it has, in a broken transaction. *)
ReadOffers ==
    LET rows == {o \in Offers : /\ offers[o].here
                                /\ o \notin redeemed
                                /\ \E i \in DOMAIN candidates : candidates[i][1] = o}
    IN
    /\ pc = "offers"
    /\ UNCHANGED calls
    /\ \/ Refuse("database")
       \/ /\ \/ found' = [o \in rows |-> offers[o]] /\ pc' = "decide"
             \/ \E part \in SUBSET rows \ {rows} : found' = [o \in part |-> offers[o]] /\ pc' = "broken"
          /\ UNCHANGED <<tables, preference, candidates, points, before, outcome, changes>>

(* The row that Recommend inserts, with what it returns.                    *)
Row(evaluations, chosen, copy) ==
    [offer |-> chosen.offer, score |-> chosen.score,
     copy |-> copy, facts |-> CopyFacts(chosen.offer, chosen.reasons),
     summary |-> [i \in DOMAIN evaluations |->
        [offer |-> evaluations[i].offer, eligible |-> evaluations[i].eligible,
         title |-> IF evaluations[i].offer \in DOMAIN found
                   THEN found[evaluations[i].offer].title.len ELSE 0]],
     returned |-> Listed(evaluations),
     points |-> points, found |-> found, candidates |-> candidates, before |-> before]

(* Fault: the event tells of the best candidate, eligible or not.           *)
EnqueueFirst(o) == outbox' = Append(outbox, Evaluations[1].offer)

enqueueRecommendationEvent(o) == outbox' = Append(outbox, o)

(* Evaluation, choice and copy; then the INSERT, the outbox row and COMMIT, *)
(* any of which may fail and roll both back; in a broken transaction the    *)
(* first one does.                                                          *)
Decide ==
    LET evaluations == Evaluations
        index == ChosenIndex(evaluations)
        chosen == evaluations[index]
        facts == CopyFacts(chosen.offer, chosen.reasons)
    IN
    /\ pc \in {"decide", "broken"}
    /\ UNCHANGED calls
    /\ \/ index = 0 /\ Refuse("no_eligible_offer")
       \/ index > 0 /\ ~TemplateOK(facts) /\ Refuse("copy")
       \/ index > 0 /\ TemplateOK(facts) /\ Refuse("database")
       \/ /\ index > 0 /\ TemplateOK(facts) /\ pc = "decide"
          /\ \E answer \in GeneratorAnswers(facts) :
                recs' = Append(recs, Row(evaluations, chosen, GenerateCopy(facts, answer)))
          /\ enqueueRecommendationEvent(chosen.offer)
          /\ pc' = "idle"
          /\ outcome' = "made"
          /\ UNCHANGED <<offers, balance, redeemed, preference, candidates, points, found, before,
                         changes>>

-----------------------------------------------------------------------------
Init ==
    /\ offers \in [Offers -> OfferRows]
    /\ balance = StartBalance
    /\ redeemed = {}
    /\ preference \in Preferences
    /\ recs = <<>>
    /\ outbox = <<>>
    /\ pc = "idle"
    /\ candidates = <<>>
    /\ points = 0
    /\ found = NotFound
    /\ before = [redeemed |-> {}, changes |-> 0]
    /\ outcome = "none"
    /\ calls = 0
    /\ changes = 0

Recommend == QueryVector \/ Search \/ ReadUser \/ ReadOffers \/ Decide

Next == Recommend \/ \E o \in Offers : Redeem(o) \/ Deactivate(o)

Spec == Init /\ [][Next]_vars

-----------------------------------------------------------------------------
(* Properties.                                                              *)

(* Every variable has its type: the columns of the tables, which Redeem     *)
(* never takes below zero, and the local variables of Recommend.            *)
TypeOK ==
    /\ \A o \in Offers : offers[o].quantity \in Nat /\ offers[o].cost \in Nat
    /\ balance \in Nat
    /\ redeemed \subseteq Offers
    /\ preference \in Preferences
    /\ outbox \in Seq(Offers)
    /\ pc \in {"idle", "search", "user", "offers", "decide", "broken"}
    /\ Len(candidates) <= CandidateLimit
    /\ points \in Nat
    /\ DOMAIN found \subseteq Offers
    /\ outcome \in {"none", "pending", "embedding", "recall", "no_eligible_offer", "user_not_found",
                    "journey_not_found", "station_mismatch", "copy", "database", "made"}
    /\ calls \in 0..MaxCalls /\ changes \in 0..MaxChanges

(* The filters of docs/architecture.md 9 and the bonuses, without loop: an  *)
(* offer is eligible when it is in force, in stock and affordable, and its  *)
(* score is the vector score plus what each rule adds under preference p.   *)
IsEligible(c, rows, budget) ==
    /\ c[1] \in DOMAIN rows
    /\ rows[c[1]].active /\ rows[c[1]].quantity > 0 /\ rows[c[1]].cost <= budget

SameCategory(category) == {x \in Categories : category \in Categories /\ Lower[x] = Lower[category]}

RuleScore(p, c, row) ==
    c[2] + (IF p.near THEN 16 ELSE 0)
         + (IF p.min <= row.cost /\ row.cost <= p.max THEN 8 ELSE 0)
         + (IF row.quantity > 0 /\ row.quantity < 6 THEN 4 ELSE 0)
         + (IF \E x \in p.categories : x \in SameCategory(row.category) THEN 8 ELSE 0)
         + (IF row.category \in Categories THEN p.weights[Lower[row.category]] ELSE 0)

(* The recommended offer is the eligible candidate with the highest score,  *)
(* the smallest id among equals, whatever the order in which Qdrant answers *)
(* and whichever candidates are stale; and Recommend finds no eligible      *)
(* offer only if there is none among the rows it read.                      *)
BestOfferChosen ==
    /\ TypeOK
    /\ \A i \in DOMAIN recs :
          LET r == recs[i]
              eligible == {c \in ToSet(r.candidates) : IsEligible(c, r.found, r.points)}
          IN  \E best \in eligible :
                /\ r.offer = best[1] /\ r.score = RuleScore(preference, best, r.found[best[1]])
                /\ \A c \in eligible \ {best} :
                      LET score == RuleScore(preference, c, r.found[c[1]])
                      IN  score < r.score \/ (score = r.score /\ c[1] > r.offer)
    /\ outcome = "no_eligible_offer" =>
          \A c \in ToSet(candidates) : ~IsEligible(c, found, points)

(* Every offer of a recommendation can be redeemed, as redemption.Create    *)
(* decides it, unless something was redeemed or changed since the           *)
(* transaction of Recommend began: the rules of the two agree but for the   *)
(* one case that Create has no rule for, a free offer, which is recommended *)
(* and always fails.  Whatever happened since, an offer redeemed before it  *)
(* began is not listed (migration 000013: an offer is redeemed once),       *)
(* although Qdrant still returns it.                                        *)
RecommendedIsRedeemable ==
    \A i \in DOMAIN recs : \A k \in recs[i].returned :
        LET o == recs[i].summary[k].offer IN
        /\ o \notin recs[i].before.redeemed
        /\ recs[i].before.changes = changes => Redeemable(o) \/ offers[o].cost = 0

(* What GetLatest reads back from the stored row is what Recommend          *)
(* returned: the same offers, in the same order, except those without a     *)
(* title, and first of all the recommended one.                             *)
ReadBackAgrees ==
    \A i \in DOMAIN recs :
        LET r == recs[i] IN
        /\ GetLatest(r) = {k \in r.returned : r.found[r.summary[k].offer].title.len > 0}
        /\ r.summary[Min(GetLatest(r))].offer = r.offer
        /\ outbox[i] = r.offer

(* What keeps TemplateCopy from a copy: a text that is empty or too long, a *)
(* number in the name of the station, or one that a cut leaves a part of.   *)
CutsNumber(text, limit) ==
    text.number # NoNumber /\ text.at <= limit /\ text.at + Digits(text.number) - 1 > limit

NoTemplate(facts) ==
    \/ facts.station.len \notin 1..80 \/ facts.offer.len \notin 1..120 \/ facts.discount.len \notin 1..160
    \/ facts.station.number # NoNumber
    \/ CutsNumber(facts.offer, 40) \/ CutsNumber(facts.discount, 80)

(* A generated text adds nothing to the facts and never stands in the way   *)
(* of a recommendation (docs/architecture.md 9.1), whatever the generator   *)
(* returns and however the template is cut.  The stored copy repeats the offer and the discount and *)
(* has no number but theirs and the cost.  The template states the cost; a  *)
(* generated copy may leave it to a longer number of the offer or the       *)
(* discount (2 is found in 25), which is all that strings.Contains asks.    *)
(* And a rider goes without a recommendation for the sake of its copy only  *)
(* when the chosen offer leaves the template without one (NoTemplate):      *)
(* never because of the generator.                                          *)
CopyTellsFacts ==
    /\ \A i \in DOMAIN recs :
          LET r == recs[i]
              told == {r.facts.offer.number, r.facts.discount.number}
          IN
          /\ r.copy.output.mentions = TextFacts
          /\ r.copy.output.numbers \subseteq told \cup {r.facts.cost}
          /\ \/ r.facts.cost \in r.copy.output.numbers
             \/ r.copy.source = "llm" /\ \E n \in told \ {NoNumber} : DigitsContain(n, r.facts.cost)
    /\ outcome = "copy" =>
          LET chosen == Evaluations[ChosenIndex(Evaluations)]
          IN  NoTemplate(CopyFacts(chosen.offer, chosen.reasons))
===============================================================================

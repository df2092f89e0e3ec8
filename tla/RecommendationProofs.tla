------------------------ MODULE RecommendationProofs ------------------------
(***************************************************************************)
(* The recommendation service, for any number of offers, categories,        *)
(* preferences and calls: the offer that is recommended is the best one and *)
(* can be redeemed, it is read back as it was returned, and its copy tells  *)
(* only facts.  The second half is about the consumer that calls the        *)
(* service: for any number of consumers, journeys, messages and faults it   *)
(* passes a message over only by a failure of Recommend, one for each, and  *)
(* a journey gets no more recommendations than one for each consumer and    *)
(* one for each failed read.                                                *)
(*                                                                          *)
(* The properties of Recommendation speak of what is stored; the inductive  *)
(* invariant adds what Recommend has in hand before: what it has read is    *)
(* what the tables hold, unless they have changed since it began.  That the *)
(* first eligible evaluation is the best rests on the sort: each element    *)
(* has its place, the number of elements ahead of it, and no two share one. *)
(***************************************************************************)
EXTENDS Recommendation, EntryConsumer, FiniteSetTheorems, WellFoundedInduction, TLAPS

(* The limit of the candidates, whatever is configured.                     *)
LEMMA LimitType == CandidateLimit \in 1..50
  BY RecommendationAssumption DEF CandidateLimit

(* A set of naturals that is not empty has a smallest element.              *)
LEMMA MinOf ==
    ASSUME NEW S, S \subseteq Nat, S # {}
    PROVE  Min(S) \in S /\ \A x \in S : Min(S) <= x
  <1>1. PICK m \in S : \A x \in S : <<x, m>> \notin OpToRel(<, Nat)
    BY WFMin, NatLessThanWellFounded
  <1>2. \A x \in S : ~(x < m)
    BY <1>1 DEF OpToRel
  <1>3. \E x \in S : \A y \in S : x <= y
    BY <1>2
  <1> QED BY <1>3 DEF Min

-----------------------------------------------------------------------------
(* The sort.                                                                *)

(* What sort.SliceStable is given: evaluations with a score and an offer.   *)
Sortable(s, n) ==
    /\ n \in Nat /\ DOMAIN s = 1..n
    /\ s = [i \in 1..n |-> s[i]]
    /\ \A i \in 1..n : s[i].score \in Int /\ s[i].offer \in Nat

Ahead(s, i) == {j \in DOMAIN s : Precedes(s, j, i)}

(* Whatever the scores and ties are, the elements are in a strict order.    *)
LEMMA StrictOrder ==
    ASSUME NEW s, NEW n, Sortable(s, n), NEW i \in 1..n, NEW j \in 1..n, NEW k \in 1..n
    PROVE  /\ ~Precedes(s, i, i)
           /\ i # j => Precedes(s, i, j) \/ Precedes(s, j, i)
           /\ Precedes(s, i, j) => ~Before(s[j], s[i])
           /\ Precedes(s, i, j) /\ Precedes(s, j, k) => Precedes(s, i, k)
  <1>1. /\ s[i].score \in Int /\ s[i].offer \in Nat
        /\ s[j].score \in Int /\ s[j].offer \in Nat
        /\ s[k].score \in Int /\ s[k].offer \in Nat
        /\ i \in Nat /\ j \in Nat /\ k \in Nat
    BY DEF Sortable
  <1> QED BY <1>1 DEF Precedes, Before

(* The number of elements ahead of one is a place, and grows along the      *)
(* order.                                                                   *)
LEMMA PlaceType ==
    ASSUME NEW s, NEW n, Sortable(s, n), NEW i \in 1..n
    PROVE  IsFiniteSet(Ahead(s, i)) /\ Cardinality(Ahead(s, i)) \in 0..(n - 1)
  <1>1. n \in Nat /\ i \in Nat /\ 1 <= i /\ i <= n
    BY DEF Sortable
  <1>2. IsFiniteSet(1..n) /\ Cardinality(1..n) = n
    <2>1. 1 \in Int /\ n \in Int
      BY <1>1
    <2>2. IsFiniteSet(1..n) /\ Cardinality(1..n) = IF 1 > n THEN 0 ELSE n - 1 + 1
      BY <2>1, FS_Interval, Zenon
    <2> QED BY <1>1, <2>2
  <1>3. IsFiniteSet((1..n) \ {i}) /\ Cardinality((1..n) \ {i}) = n - 1
    BY <1>2, FS_RemoveElement
  <1>4. Ahead(s, i) \subseteq (1..n) \ {i}
    BY StrictOrder DEF Ahead, Sortable
  <1>5. IsFiniteSet(Ahead(s, i)) /\ Cardinality(Ahead(s, i)) <= n - 1
    BY <1>3, <1>4, FS_Subset
  <1>6. Cardinality(Ahead(s, i)) \in Nat
    BY <1>5, FS_CardinalityType
  <1> QED BY <1>1, <1>5, <1>6

LEMMA PlacesGrow ==
    ASSUME NEW s, NEW n, Sortable(s, n), NEW i \in 1..n, NEW j \in 1..n, Precedes(s, i, j)
    PROVE  Cardinality(Ahead(s, i)) < Cardinality(Ahead(s, j))
  <1>1. Ahead(s, i) \subseteq Ahead(s, j)
    BY StrictOrder DEF Ahead, Sortable
  <1>2. i \in Ahead(s, j) /\ i \notin Ahead(s, i)
    BY StrictOrder DEF Ahead, Sortable
  <1>3. IsFiniteSet(Ahead(s, j))
    BY PlaceType
  <1>4. /\ Cardinality(Ahead(s, i)) <= Cardinality(Ahead(s, j))
        /\ Cardinality(Ahead(s, i)) # Cardinality(Ahead(s, j))
    BY <1>1, <1>2, <1>3, FS_Subset
  <1>5. Cardinality(Ahead(s, i)) \in Int /\ Cardinality(Ahead(s, j)) \in Int
    BY PlaceType
  <1> QED BY <1>4, <1>5

(* Each place is taken by one element.                                      *)
LEMMA PlacesDiffer ==
    ASSUME NEW s, NEW n, Sortable(s, n), NEW i \in 1..n, NEW j \in 1..n,
           Cardinality(Ahead(s, i)) = Cardinality(Ahead(s, j))
    PROVE  i = j
  <1>1. Cardinality(Ahead(s, i)) \in Int /\ Cardinality(Ahead(s, j)) \in Int
    BY PlaceType
  <1>2. ~Precedes(s, i, j)
    BY <1>1, PlacesGrow
  <1>3. ~Precedes(s, j, i)
    BY <1>1, PlacesGrow
  <1> QED BY <1>2, <1>3, StrictOrder

LEMMA PlacesTaken ==
    ASSUME NEW s, NEW n, Sortable(s, n), NEW k \in 1..n
    PROVE  \E i \in 1..n : Cardinality(Ahead(s, i)) = k - 1
  <1> DEFINE f == [i \in 1..n |-> Cardinality(Ahead(s, i))]
  <1>1. n \in Nat /\ n >= 1
    BY DEF Sortable
  <1>2. f \in [1..n -> 0..(n - 1)]
    BY PlaceType
  <1>3. \A i, j \in 1..n : f[i] = f[j] => i = j
    BY PlacesDiffer
  <1>4. f \in Injection(1..n, 0..(n - 1))
    BY <1>2, <1>3 DEF Injection, IsInjective
  <1>5. /\ IsFiniteSet(1..n) /\ Cardinality(1..n) = n
        /\ IsFiniteSet(0..(n - 1)) /\ Cardinality(0..(n - 1)) = n
    <2>1. 1 \in Int /\ n \in Int /\ 0 \in Int /\ n - 1 \in Int
      BY <1>1
    <2>2. /\ IsFiniteSet(1..n) /\ Cardinality(1..n) = IF 1 > n THEN 0 ELSE n - 1 + 1
          /\ IsFiniteSet(0..(n - 1))
          /\ Cardinality(0..(n - 1)) = IF 0 > n - 1 THEN 0 ELSE (n - 1) - 0 + 1
      BY <2>1, FS_Interval, Zenon
    <2> QED BY <1>1, <2>2
  <1>6. f \in Surjection(1..n, 0..(n - 1))
    BY <1>4, <1>5, FS_Injection
  <1>7. k - 1 \in 0..(n - 1)
    BY <1>1
  <1>8. \E i \in 1..n : f[i] = k - 1
    BY <1>6, <1>7 DEF Surjection
  <1> QED BY <1>8

(* sort.SliceStable in Recommend: every element has a place, every place an *)
(* element, and none comes before one that is better.                       *)
THEOREM SortSorts ==
    ASSUME NEW s, NEW n, Sortable(s, n)
    PROVE  /\ DOMAIN SliceStable(s) = 1..n
           /\ \A k \in 1..n : \E i \in 1..n : SliceStable(s)[k] = s[i]
           /\ \A i \in 1..n : \E k \in 1..n : SliceStable(s)[k] = s[i]
           /\ \A k, l \in 1..n : k < l => ~Before(SliceStable(s)[l], SliceStable(s)[k])
  <1> DEFINE Chosen(k) == CHOOSE i \in DOMAIN s :
                             Cardinality({j \in DOMAIN s : Precedes(s, j, i)}) = k - 1
  <1>1. n \in Nat /\ DOMAIN s = 1..n
    BY DEF Sortable
  <1>2. CASE n = 0
    <2>1. s = <<>>
      BY <1>1, <1>2 DEF Sortable
    <2> QED BY <1>1, <1>2, <2>1 DEF SliceStable
  <1>3. CASE n # 0
    <2>1. s # <<>>
      BY <1>1, <1>3
    <2>2. SliceStable(s) = [k \in 1..n |-> s[Chosen(k)]]
      BY <1>1, <2>1 DEF SliceStable
    <2>3. ASSUME NEW k \in 1..n
          PROVE  Chosen(k) \in 1..n /\ Cardinality(Ahead(s, Chosen(k))) = k - 1
      <3>1. \E i \in DOMAIN s : Cardinality({j \in DOMAIN s : Precedes(s, j, i)}) = k - 1
        BY <1>1, PlacesTaken DEF Ahead
      <3> QED BY <1>1, <3>1 DEF Ahead
    <2> HIDE DEF Chosen
    <2>4. ASSUME NEW i \in 1..n PROVE \E k \in 1..n : SliceStable(s)[k] = s[i]
      <3>1. PICK k \in 1..n : k = Cardinality(Ahead(s, i)) + 1
        BY <1>1, PlaceType
      <3>2. Cardinality(Ahead(s, i)) = k - 1
        BY <3>1, PlaceType
      <3>3. Chosen(k) = i
        BY <2>3, <3>2, PlacesDiffer
      <3> QED BY <2>2, <3>3
    <2>5. ASSUME NEW k \in 1..n, NEW l \in 1..n, k < l
          PROVE  ~Before(SliceStable(s)[l], SliceStable(s)[k])
      <3>1. /\ Chosen(k) \in 1..n /\ Cardinality(Ahead(s, Chosen(k))) = k - 1
            /\ Chosen(l) \in 1..n /\ Cardinality(Ahead(s, Chosen(l))) = l - 1
        BY <2>3
      <3>2. Chosen(k) # Chosen(l) /\ ~Precedes(s, Chosen(l), Chosen(k))
        BY <2>5, <3>1, PlacesGrow
      <3>3. Precedes(s, Chosen(k), Chosen(l))
        BY <3>1, <3>2, StrictOrder
      <3>4. ~Before(s[Chosen(l)], s[Chosen(k)])
        BY <3>1, <3>3, StrictOrder
      <3> QED BY <2>2, <3>4
    <2> QED BY <2>2, <2>3, <2>4, <2>5
  <1> QED BY <1>2, <1>3

-----------------------------------------------------------------------------
(* The inductive invariant.                                                 *)

RowType == [here : BOOLEAN, active : BOOLEAN, quantity : Nat, cost : Numbers,
            category : Categories \cup {None}, title : Texts, description : Texts]

Tables ==
    /\ offers \in [Offers -> RowType] /\ balance \in Nat /\ redeemed \subseteq Offers
    /\ preference \in Preferences
    /\ outbox \in Seq(Offers) /\ Len(outbox) = Len(recs)
    /\ \E S : recs \in Seq(S)

Locals ==
    /\ pc \in {"idle", "search", "user", "offers", "decide", "broken"}
    /\ candidates \in Answers
    /\ points \in Nat
    /\ DOMAIN found \subseteq Offers /\ \A o \in DOMAIN found : found[o] \in RowType
    /\ outcome \in {"none", "pending", "embedding", "recall", "no_eligible_offer", "user_not_found",
                    "journey_not_found", "station_mismatch", "copy", "database", "made"}
    /\ calls \in 0..MaxCalls /\ changes \in 0..MaxChanges /\ before.changes \in 0..changes

(* The evaluation that is chosen, its facts, and the row that is stored.    *)
Picked == Evaluations[ChosenIndex(Evaluations)]
PickedFacts == CopyFacts(Picked.offer, Picked.reasons)
NewRow(answer) == Row(Evaluations, Picked, GenerateCopy(PickedFacts, answer))

(* A call that has not ended has no outcome; one that ended without an      *)
(* eligible offer, or without a copy, has still what it has read.           *)
Answered ==
    /\ pc # "idle" => outcome = "pending"
    /\ outcome = "no_eligible_offer" =>
          \A c \in ToSet(candidates) : ~IsEligible(c, found, points)
    /\ outcome = "copy" => NoTemplate(PickedFacts)

(* What Recommend has read is what the tables hold, unless they have        *)
(* changed since its transaction began.                                     *)
Snapshot ==
    /\ pc \in {"offers", "decide"} =>
          /\ before.redeemed \subseteq redeemed
          /\ before.changes = changes => points = balance
    /\ pc = "decide" => \A o \in DOMAIN found :
          /\ found[o].here /\ o \notin before.redeemed
          /\ before.changes = changes => found[o] = offers[o] /\ o \notin redeemed

(* What the properties say of one stored recommendation.                    *)
Best(p, r) ==
    \E best \in ToSet(r.candidates) :
        /\ IsEligible(best, r.found, r.points)
        /\ r.offer = best[1] /\ r.score = RuleScore(p, best, r.found[best[1]])
        /\ \A c \in ToSet(r.candidates) \ {best} : IsEligible(c, r.found, r.points) =>
              LET score == RuleScore(p, c, r.found[c[1]])
              IN  score < r.score \/ (score = r.score /\ c[1] > r.offer)

CanRedeem(r) ==
    /\ r.before.changes \in 0..changes
    /\ \A k \in r.returned :
          /\ r.summary[k].offer \notin r.before.redeemed
          /\ r.before.changes = changes =>
                Redeemable(r.summary[k].offer) \/ offers[r.summary[k].offer].cost = 0

ReadsBack(r) ==
    /\ GetLatest(r) = {k \in r.returned : r.found[r.summary[k].offer].title.len > 0}
    /\ r.summary[Min(GetLatest(r))].offer = r.offer

Told(facts) == {facts.offer.number, facts.discount.number}

TellsFacts(r) ==
    /\ r.copy.output.mentions = TextFacts
    /\ r.copy.output.numbers \subseteq Told(r.facts) \cup {r.facts.cost}
    /\ \/ r.facts.cost \in r.copy.output.numbers
       \/ r.copy.source = "llm" /\ \E n \in Told(r.facts) \ {NoNumber} : DigitsContain(n, r.facts.cost)

AllBest == \A i \in DOMAIN recs : Best(preference, recs[i])
AllRedeemable == \A i \in DOMAIN recs : CanRedeem(recs[i])
AllReadBack == \A i \in DOMAIN recs : ReadsBack(recs[i]) /\ outbox[i] = recs[i].offer
AllTellFacts == \A i \in DOMAIN recs : TellsFacts(recs[i])

Inv ==
    /\ Tables /\ Locals /\ Answered /\ Snapshot
    /\ AllBest /\ AllRedeemable /\ AllReadBack /\ AllTellFacts

-----------------------------------------------------------------------------
(* One call of Recommend: its evaluations, its choice and its lists.        *)

(* What Search answers: distinct offers, no more than the limit.            *)
LEMMA AnswerType ==
    ASSUME NEW s \in Answers
    PROVE  /\ s \in Seq(Offers \X Scores)
           /\ DOMAIN s = 1..Len(s) /\ Len(s) \in 0..CandidateLimit
           /\ \A i \in 1..Len(s) : s[i] \in Offers \X Scores
           /\ \A i, j \in 1..Len(s) : i # j => s[i][1] # s[j][1]
  <1>1. PICK n \in 0..CandidateLimit : s \in [1..n -> Offers \X Scores]
    BY DEF Answers
  <1>2. n \in Nat
    BY <1>1, LimitType
  <1>3. s \in Seq(Offers \X Scores) /\ Len(s) = n /\ DOMAIN s = 1..n
    BY <1>1, <1>2
  <1>4. \A i, j \in DOMAIN s : i < j => s[i][1] # s[j][1]
    BY DEF Answers
  <1>5. \A i, j \in 1..n : i # j => s[i][1] # s[j][1]
    BY <1>2, <1>3, <1>4
  <1> QED BY <1>1, <1>3, <1>5

(* The rules as the code applies them are those of IsEligible and           *)
(* RuleScore.                                                               *)
LEMMA RejectionsRule ==
    ASSUME points \in Nat, NEW row \in RowType
    PROVE  Rejections(row) = {} <=> row.active /\ row.quantity > 0 /\ row.cost <= points
  BY DEF Rejections, RowType, Numbers

LEMMA BonusRule ==
    ASSUME preference \in Preferences, NEW row \in RowType, NEW c \in Offers \X Scores
    PROVE  /\ c[2] + Bonus(Bonuses(row)) = RuleScore(preference, c, row)
           /\ RuleScore(preference, c, row) \in Int
  <1>1. /\ preference.near \in BOOLEAN /\ preference.min \in Nat /\ preference.max \in Nat
        /\ preference.categories \subseteq Categories
        /\ preference.weights \in [Categories -> Int]
        /\ None \notin Categories /\ Lower \in [Categories -> Categories]
    BY RecommendationAssumption
  <1>2. /\ row.cost \in Nat /\ row.quantity \in Nat /\ row.category \in Categories \cup {None}
        /\ c[2] \in Nat
    BY RecommendationAssumption DEF RowType, Numbers
  <1>3. row.cost \in preference.min..preference.max
           <=> preference.min <= row.cost /\ row.cost <= preference.max
    BY <1>1, <1>2
  <1>4. row.quantity \in 1..5 <=> row.quantity > 0 /\ row.quantity < 6
    BY <1>2
  <1>5. matchesPreferredCategory(row) <=>
           \E x \in preference.categories : x \in SameCategory(row.category)
    BY <1>1, <1>2 DEF matchesPreferredCategory, SameCategory
  <1>6. /\ Weight(row) = IF row.category \in Categories THEN preference.weights[Lower[row.category]]
                         ELSE 0
        /\ Weight(row) \in Int
    BY <1>1, <1>2 DEF Weight
  <1>7. Bonus(Bonuses(row)) =
           (IF preference.near THEN 16 ELSE 0)
           + (IF row.cost \in preference.min..preference.max THEN 8 ELSE 0)
           + (IF row.quantity \in 1..5 THEN 4 ELSE 0)
           + (IF matchesPreferredCategory(row) THEN 8 ELSE 0)
           + Weight(row)
    BY DEF Bonus, Bonuses
  <1>8. PICK a \in Int, b \in Int, d \in Int, e \in Int :
           /\ a = (IF preference.near THEN 16 ELSE 0)
           /\ b = (IF row.cost \in preference.min..preference.max THEN 8 ELSE 0)
           /\ d = (IF row.quantity \in 1..5 THEN 4 ELSE 0)
           /\ e = (IF matchesPreferredCategory(row) THEN 8 ELSE 0)
    OBVIOUS
  <1>9. RuleScore(preference, c, row) = c[2] + a + b + d + e + Weight(row)
    BY <1>3, <1>4, <1>5, <1>6, <1>8 DEF RuleScore
  <1>10. Bonus(Bonuses(row)) = a + b + d + e + Weight(row)
    BY <1>7, <1>8
  <1> QED BY <1>2, <1>6, <1>8, <1>9, <1>10

LEMMA EvaluateRule ==
    ASSUME Tables, Locals, NEW c \in Offers \X Scores
    PROVE  /\ Evaluate(c).offer = c[1] /\ Evaluate(c).score \in Int
           /\ Evaluate(c).eligible <=> IsEligible(c, found, points)
           /\ IsEligible(c, found, points) =>
                 Evaluate(c).score = RuleScore(preference, c, found[c[1]])
  <1>1. c[1] \in Offers /\ c[2] \in Int
    <2>1. c[1] \in Offers /\ c[2] \in Scores
      OBVIOUS
    <2>2. \A x \in Scores : x \in Int
      BY RecommendationAssumption
    <2> QED BY <2>1, <2>2
  <1>2. CASE c[1] \notin DOMAIN found
    <2>1. Evaluate(c) = [offer |-> c[1], score |-> c[2], eligible |-> FALSE,
                         reasons |-> {"stale_candidate"}]
      BY <1>2 DEF Evaluate
    <2> QED BY <1>1, <1>2, <2>1 DEF IsEligible
  <1>3. CASE c[1] \in DOMAIN found
    <2>1. PICK row \in RowType : row = found[c[1]]
      BY <1>3 DEF Locals
    <2>2. /\ Evaluate(c).offer = c[1]
          /\ Evaluate(c).score = c[2] + Bonus(Bonuses(row))
          /\ Evaluate(c).eligible = (Rejections(row) = {})
      BY <1>3, <2>1 DEF Evaluate
    <2>3. /\ c[2] + Bonus(Bonuses(row)) = RuleScore(preference, c, row)
          /\ RuleScore(preference, c, row) \in Int
      BY BonusRule DEF Tables
    <2>4. Rejections(row) = {} <=> row.active /\ row.quantity > 0 /\ row.cost <= points
      BY RejectionsRule DEF Locals
    <2>5. IsEligible(c, found, points) <=> row.active /\ row.quantity > 0 /\ row.cost <= points
      BY <1>3, <2>1 DEF IsEligible
    <2>6. Evaluate(c).eligible <=> IsEligible(c, found, points)
      BY <2>2, <2>4, <2>5
    <2>7. Evaluate(c).score = RuleScore(preference, c, found[c[1]])
      BY <2>1, <2>2, <2>3
    <2> QED BY <2>1, <2>2, <2>3, <2>6, <2>7
  <1> QED BY <1>2, <1>3

(* The evaluations are those of the candidates, best first.                 *)
LEMMA EvaluationsSorted ==
    ASSUME Tables, Locals
    PROVE  /\ Len(candidates) \in Nat /\ Len(candidates) <= CandidateLimit
           /\ DOMAIN Evaluations = 1..Len(candidates)
           /\ \A k \in 1..Len(candidates) : \E i \in 1..Len(candidates) :
                 Evaluations[k] = Evaluate(candidates[i])
           /\ \A i \in 1..Len(candidates) : \E k \in 1..Len(candidates) :
                 Evaluations[k] = Evaluate(candidates[i])
           /\ \A k, l \in 1..Len(candidates) : k < l => ~Before(Evaluations[l], Evaluations[k])
  <1>1. PICK n \in 0..CandidateLimit : n = Len(candidates)
    BY AnswerType DEF Locals
  <1>2. PICK s : s = [i \in 1..n |-> Evaluate(candidates[i])]
    OBVIOUS
  <1>3. n \in Nat /\ n <= CandidateLimit
    BY <1>1, LimitType
  <1>4. /\ DOMAIN candidates = 1..n
        /\ \A i \in 1..n : candidates[i] \in Offers \X Scores /\ candidates[i][1] \in Nat
    <2>1. DOMAIN candidates = 1..n /\ \A i \in 1..n : candidates[i] \in Offers \X Scores
      BY <1>1, AnswerType DEF Locals
    <2>2. \A i \in 1..n : candidates[i][1] \in Offers
      BY <2>1
    <2> QED BY <2>1, <2>2, RecommendationAssumption
  <1>5. \A i \in 1..n : s[i] = Evaluate(candidates[i])
    BY <1>2
  <1>6. \A i \in 1..n : s[i].score \in Int /\ s[i].offer \in Nat
    BY <1>4, <1>5, EvaluateRule
  <1>7. Sortable(s, n)
    BY <1>2, <1>3, <1>6 DEF Sortable
  <1>8. Evaluations = SliceStable(s)
    BY <1>2, <1>4 DEF Evaluations
  <1>9. /\ DOMAIN Evaluations = 1..n
        /\ \A k \in 1..n : \E i \in 1..n : Evaluations[k] = s[i]
        /\ \A i \in 1..n : \E k \in 1..n : Evaluations[k] = s[i]
        /\ \A k, l \in 1..n : k < l => ~Before(Evaluations[l], Evaluations[k])
    <2>1. /\ DOMAIN SliceStable(s) = 1..n
          /\ \A k \in 1..n : \E i \in 1..n : SliceStable(s)[k] = s[i]
          /\ \A i \in 1..n : \E k \in 1..n : SliceStable(s)[k] = s[i]
          /\ \A k, l \in 1..n : k < l => ~Before(SliceStable(s)[l], SliceStable(s)[k])
      BY <1>7, SortSorts, Zenon
    <2> QED BY <1>8, <2>1, Zenon
  <1>10. /\ \A k \in 1..n : \E i \in 1..n : Evaluations[k] = Evaluate(candidates[i])
         /\ \A i \in 1..n : \E k \in 1..n : Evaluations[k] = Evaluate(candidates[i])
    BY <1>5, <1>9
  <1> QED BY <1>1, <1>3, <1>9, <1>10

(* The loop that looks for the first eligible evaluation finds it, and      *)
(* nothing only when there is none.                                         *)
LEMMA ChoiceOf ==
    ASSUME Tables, Locals
    PROVE  /\ ChosenIndex(Evaluations) \in Nat
           /\ ChosenIndex(Evaluations) = 0 =>
                 \A c \in ToSet(candidates) : ~IsEligible(c, found, points)
           /\ ChosenIndex(Evaluations) > 0 =>
                 /\ ChosenIndex(Evaluations) \in 1..Len(candidates)
                 /\ Evaluations[ChosenIndex(Evaluations)].eligible
                 /\ \A k \in 1..Len(candidates) :
                       Evaluations[k].eligible => ChosenIndex(Evaluations) <= k
  <1>1. PICK good : good = {k \in DOMAIN Evaluations : Evaluations[k].eligible}
    OBVIOUS
  <1>2. ChosenIndex(Evaluations) = IF good = {} THEN 0 ELSE Min(good)
    BY <1>1 DEF ChosenIndex
  <1>3. Len(candidates) \in Nat /\ DOMAIN Evaluations = 1..Len(candidates)
    BY EvaluationsSorted
  <1>4. CASE good = {}
    <2>1. ASSUME NEW i \in DOMAIN candidates PROVE ~IsEligible(candidates[i], found, points)
      <3>1. i \in 1..Len(candidates) /\ candidates[i] \in Offers \X Scores
        BY AnswerType DEF Locals
      <3>2. PICK k \in 1..Len(candidates) : Evaluations[k] = Evaluate(candidates[i])
        BY <3>1, EvaluationsSorted
      <3>3. ~Evaluations[k].eligible
        BY <1>1, <1>3, <1>4
      <3> QED BY <3>1, <3>2, <3>3, EvaluateRule
    <2> QED BY <1>2, <1>4, <2>1 DEF ToSet
  <1>5. CASE good # {}
    <2>1. good \subseteq Nat
      BY <1>1, <1>3
    <2>2. Min(good) \in good /\ \A x \in good : Min(good) <= x
      BY <1>5, <2>1, MinOf
    <2> QED BY <1>1, <1>2, <1>3, <1>5, <2>2
  <1> QED BY <1>4, <1>5

(* Qdrant answers no more candidates than a list may have.                  *)
LEMMA NothingCut ==
    ASSUME NEW n \in Nat, n <= CandidateLimit, NEW P, P \subseteq 1..n
    PROVE  UpToLimit(P) = P
  <1>1. ASSUME NEW k \in P PROVE Cardinality({j \in P : j < k}) < CandidateLimit
    <2>1. k \in Nat /\ 1 <= k /\ k <= n /\ CandidateLimit \in Nat
      BY LimitType
    <2>2. {j \in P : j < k} \subseteq 1..(k - 1)
      <3>1. \A j \in P : j \in Nat /\ 1 <= j
        OBVIOUS
      <3>2. \A j \in P : j < k => j \in 1..(k - 1)
        BY <2>1, <3>1
      <3> QED BY <3>2
    <2>3. IsFiniteSet(1..(k - 1)) /\ Cardinality(1..(k - 1)) = k - 1
      <3>1. 1 \in Int /\ k - 1 \in Int
        BY <2>1
      <3>2. /\ IsFiniteSet(1..(k - 1))
            /\ Cardinality(1..(k - 1)) = IF 1 > k - 1 THEN 0 ELSE (k - 1) - 1 + 1
        BY <3>1, FS_Interval, Zenon
      <3> QED BY <2>1, <3>2
    <2>4. /\ IsFiniteSet({j \in P : j < k})
          /\ Cardinality({j \in P : j < k}) <= Cardinality(1..(k - 1))
      BY <2>2, <2>3, FS_Subset
    <2>5. Cardinality({j \in P : j < k}) \in Nat
      BY <2>4, FS_CardinalityType
    <2> QED BY <2>1, <2>3, <2>4, <2>5
  <1> QED BY <1>1 DEF UpToLimit

LEMMA RowFields ==
    ASSUME NEW answer, NEW r, r = NewRow(answer)
    PROVE  /\ r.offer = Picked.offer /\ r.score = Picked.score
           /\ r.candidates = candidates /\ r.found = found /\ r.points = points
           /\ r.before = before /\ r.returned = Listed(Evaluations)
           /\ r.copy = GenerateCopy(PickedFacts, answer) /\ r.facts = PickedFacts
           /\ DOMAIN r.summary = DOMAIN Evaluations
           /\ \A k \in DOMAIN Evaluations :
                 /\ r.summary[k].offer = Evaluations[k].offer
                 /\ r.summary[k].eligible = Evaluations[k].eligible
                 /\ r.summary[k].title = IF Evaluations[k].offer \in DOMAIN found
                                         THEN found[Evaluations[k].offer].title.len ELSE 0
  BY DEF NewRow, Row, PickedFacts

(* An eligible evaluation is that of a candidate whose row was found.       *)
LEMMA EligibleFound ==
    ASSUME Tables, Locals, NEW k \in 1..Len(candidates), Evaluations[k].eligible
    PROVE  \E i \in 1..Len(candidates) :
              /\ Evaluations[k].offer = candidates[i][1]
              /\ Evaluations[k].score =
                    RuleScore(preference, candidates[i], found[candidates[i][1]])
              /\ IsEligible(candidates[i], found, points)
              /\ Evaluations[k] = Evaluate(candidates[i])
  <1>1. PICK i \in 1..Len(candidates) : Evaluations[k] = Evaluate(candidates[i])
    BY EvaluationsSorted
  <1>2. candidates[i] \in Offers \X Scores
    BY AnswerType DEF Locals
  <1> QED BY <1>1, <1>2, EvaluateRule

LEMMA RowBest ==
    ASSUME Tables, Locals, ChosenIndex(Evaluations) > 0,
           NEW answer, NEW r, r = NewRow(answer)
    PROVE  Best(preference, r)
  <1>1. PICK index \in 1..Len(candidates) :
           /\ index = ChosenIndex(Evaluations) /\ Evaluations[index].eligible
           /\ \A k \in 1..Len(candidates) : Evaluations[k].eligible => index <= k
    BY ChoiceOf
  <1>2. PICK b \in 1..Len(candidates) :
           /\ Evaluations[index].offer = candidates[b][1]
           /\ Evaluations[index].score =
                 RuleScore(preference, candidates[b], found[candidates[b][1]])
           /\ IsEligible(candidates[b], found, points)
           /\ Evaluations[index] = Evaluate(candidates[b])
    BY <1>1, EligibleFound
  <1>3. /\ r.offer = candidates[b][1]
        /\ r.score = RuleScore(preference, candidates[b], found[candidates[b][1]])
        /\ r.candidates = candidates /\ r.found = found /\ r.points = points
    BY <1>1, <1>2, RowFields DEF Picked
  <1>4. /\ DOMAIN candidates = 1..Len(candidates) /\ Len(candidates) \in Nat
        /\ \A i \in 1..Len(candidates) :
              candidates[i] \in Offers \X Scores /\ candidates[i][1] \in Nat
        /\ \A i, j \in 1..Len(candidates) : i # j => candidates[i][1] # candidates[j][1]
    <2>1. /\ DOMAIN candidates = 1..Len(candidates)
          /\ \A i \in 1..Len(candidates) : candidates[i] \in Offers \X Scores
          /\ \A i, j \in 1..Len(candidates) : i # j => candidates[i][1] # candidates[j][1]
      BY AnswerType DEF Locals
    <2>2. \A i \in 1..Len(candidates) : candidates[i][1] \in Offers
      BY <2>1
    <2>3. Len(candidates) \in Nat
      BY EvaluationsSorted
    <2> QED BY <2>1, <2>2, <2>3, RecommendationAssumption
  <1>5. ASSUME NEW c \in ToSet(candidates) \ {candidates[b]}, IsEligible(c, found, points)
        PROVE  \/ RuleScore(preference, c, found[c[1]]) < r.score
               \/ RuleScore(preference, c, found[c[1]]) = r.score /\ c[1] > r.offer
    <2>1. PICK i \in 1..Len(candidates) : c = candidates[i] /\ i # b
      BY <1>4 DEF ToSet
    <2>2. c \in Offers \X Scores /\ c[1] \in Nat /\ c[1] # r.offer /\ r.offer \in Nat
      BY <1>3, <1>4, <2>1
    <2>3. PICK k \in 1..Len(candidates) : Evaluations[k] = Evaluate(c)
      BY <2>1, EvaluationsSorted
    <2>4. /\ Evaluations[k].eligible /\ Evaluations[k].offer = c[1]
          /\ Evaluations[k].score = RuleScore(preference, c, found[c[1]])
          /\ Evaluations[k].score \in Int
      BY <1>5, <2>2, <2>3, EvaluateRule
    <2>5. k # index
      BY <1>2, <1>3, <2>2, <2>4
    <2>6. index < k
      BY <1>1, <1>4, <2>4, <2>5
    <2>7. ~Before(Evaluations[k], Evaluations[index])
      BY <2>6, EvaluationsSorted
    <2>8. /\ Evaluations[index].score = r.score /\ r.score \in Int
          /\ Evaluations[index].offer = r.offer
      BY <1>2, <1>3, <1>4, EvaluateRule
    <2> QED BY <2>2, <2>4, <2>7, <2>8 DEF Before
  <1>6. candidates[b] \in ToSet(candidates)
    BY <1>4 DEF ToSet
  <1> QED BY <1>2, <1>3, <1>5, <1>6 DEF Best

(* The list that Recommend returns has every eligible evaluation.           *)
LEMMA ListedAll ==
    ASSUME Tables, Locals
    PROVE  Listed(Evaluations) = {k \in 1..Len(candidates) : Evaluations[k].eligible}
  <1>1. /\ Len(candidates) \in Nat /\ Len(candidates) <= CandidateLimit
        /\ DOMAIN Evaluations = 1..Len(candidates)
    BY EvaluationsSorted
  <1>2. UpToLimit({k \in 1..Len(candidates) : Evaluations[k].eligible})
        = {k \in 1..Len(candidates) : Evaluations[k].eligible}
    BY <1>1, NothingCut
  <1> QED BY <1>1, <1>2 DEF Listed

LEMMA RowRedeemable ==
    ASSUME Tables, Locals, Snapshot, pc = "decide", NEW answer, NEW r, r = NewRow(answer)
    PROVE  CanRedeem(r)
  <1>1. r.before = before /\ r.returned = {k \in 1..Len(candidates) : Evaluations[k].eligible}
    BY RowFields, ListedAll
  <1>2. ASSUME NEW k \in r.returned
        PROVE  /\ r.summary[k].offer \notin before.redeemed
               /\ before.changes = changes =>
                     Redeemable(r.summary[k].offer) \/ offers[r.summary[k].offer].cost = 0
    <2>1. k \in 1..Len(candidates) /\ Evaluations[k].eligible
      BY <1>1
    <2>2. PICK i \in 1..Len(candidates) :
             Evaluations[k].offer = candidates[i][1] /\ IsEligible(candidates[i], found, points)
      BY <2>1, EligibleFound
    <2>3. PICK o : o = candidates[i][1]
      OBVIOUS
    <2>4. r.summary[k].offer = o
      <3>1. k \in DOMAIN Evaluations
        BY <2>1, EvaluationsSorted
      <3>2. r.summary[k].offer = Evaluations[k].offer
        BY <3>1, RowFields
      <3> QED BY <2>2, <2>3, <3>2
    <2>5. o \in DOMAIN found /\ found[o].active /\ found[o].quantity > 0 /\ found[o].cost <= points
      BY <2>2, <2>3 DEF IsEligible
    <2>6. /\ found[o].here /\ o \notin before.redeemed
          /\ before.changes = changes =>
                found[o] = offers[o] /\ o \notin redeemed /\ points = balance
      BY <2>5 DEF Snapshot
    <2>7. found[o].cost = 0 \/ found[o].cost > 0
      BY <2>5 DEF Locals, RowType, Numbers
    <2> QED BY <2>4, <2>5, <2>6, <2>7 DEF Redeemable
  <1>3. r.before.changes \in 0..changes
    BY <1>1 DEF Locals
  <1> QED BY <1>1, <1>2, <1>3 DEF CanRedeem

(* The copy passes the validation, wherever it comes from.                  *)
LEMMA CopyValidated ==
    ASSUME NEW facts, NEW answer, TemplateOK(facts)
    PROVE  ValidateCopyOutput(facts, GenerateCopy(facts, answer).output)
  BY DEF GenerateCopy, TemplateOK

(* A number of at most 19 digits has a number of digits.                    *)
LEMMA DigitsType == ASSUME NEW n \in Numbers PROVE Digits(n) \in 1..MaxDigits
  <1>1. PICK S : S = {k \in 1..MaxDigits : n < 10^k}
    OBVIOUS
  <1>2. S # {} /\ S \subseteq Nat
    BY <1>1 DEF Numbers
  <1>3. Min(S) \in S /\ \A x \in S : Min(S) <= x
    BY <1>2, MinOf
  <1>4. PICK m \in 1..MaxDigits : n < 10^m /\ \A x \in S : m <= x
    BY <1>1, <1>3
  <1>5. \A j \in 1..(m - 1) : ~(n < 10^j)
    BY <1>1, <1>4 DEF MaxDigits
  <1> QED BY <1>4, <1>5 DEF Digits

(* TemplateCopy passes its own validation but for numbers: with valid facts *)
(* no cut at 20, 80, 40 or 140 runes loses a fact that ValidateCopyOutput   *)
(* looks for, and the cost is there whole, so it is refused only when the   *)
(* station has a number that no fact has, or a cut leaves part of one.      *)
THEOREM TemplateFailsByNumbers ==
    ASSUME NEW facts \in Facts, ValidateCopyFacts(facts)
    PROVE  /\ facts.cost \in Template(facts).numbers
           /\ TemplateOK(facts) <=> Template(facts).numbers \subseteq Allowed(facts)
  <1>1. /\ facts.station \in Texts /\ facts.offer \in Texts /\ facts.discount \in Texts
        /\ facts.cost \in Numbers
    BY DEF Facts
  <1>2. PICK s \in Nat, o \in Nat, d \in Nat :
           s = facts.station.len /\ o = facts.offer.len /\ d = facts.discount.len
    BY <1>1 DEF Texts
  <1>3. s >= 1 /\ o >= 1 /\ d >= 1
    <2>1. s \in 1..80 /\ o \in 1..120 /\ d \in 1..160
      BY <1>2 DEF ValidateCopyFacts
    <2> QED BY <2>1
  <1>4. PICK a \in Nat, b \in Nat, c \in Nat :
           /\ a = truncateRunes(facts.station, 20).len /\ a = IF s <= 20 THEN s ELSE 20
           /\ b = truncateRunes(facts.offer, 40).len /\ b = IF o <= 40 THEN o ELSE 40
           /\ c = truncateRunes(facts.discount, 80).len /\ c = IF d <= 80 THEN d ELSE 80
    BY <1>2 DEF truncateRunes
  <1>5. Digits(facts.cost) \in 1..19
    BY <1>1, DigitsType DEF MaxDigits
  <1>6. /\ b > 0
        /\ b >= factToken(facts.offer) /\ c >= factToken(facts.discount)
        /\ a + 1 + c + 4 + Digits(facts.cost) <= 140
        /\ a + 1 + factToken(facts.discount) <= 140
    BY <1>2, <1>3, <1>4, <1>5 DEF factToken
  <1>7. Template(facts).fits /\ Template(facts).mentions = TextFacts
    BY <1>4, <1>6 DEF Template, TextFacts
  <1>8. facts.cost \in Template(facts).numbers
    BY <1>4, <1>6 DEF Template
  <1>9. \E n \in Template(facts).numbers : DigitsContain(n, facts.cost)
    BY <1>8 DEF DigitsContain
  <1> QED BY <1>7, <1>8, <1>9 DEF TemplateOK, ValidateCopyOutput

(* A text whose number is not cut keeps it or loses it whole.               *)
LEMMA TokensUncut ==
    ASSUME NEW text \in Texts, NEW limit \in Nat, ~CutsNumber(text, limit)
    PROVE  numericTokens(truncateRunes(text, limit)) \subseteq numericTokens(text)
  <1>1. CASE text.len <= limit \/ text.number = NoNumber
    BY <1>1 DEF truncateRunes, numericTokens
  <1>2. CASE ~(text.len <= limit \/ text.number = NoNumber)
    <2>1. text.number \in Numbers /\ text.at \in Nat
      BY <1>2 DEF Texts
    <2>2. PICK d \in 1..MaxDigits : d = Digits(text.number)
      BY <2>1, DigitsType
    <2>3. text.at > limit \/ text.at + d - 1 <= limit
      BY <1>2, <2>1, <2>2 DEF CutsNumber, MaxDigits
    <2>4. truncateRunes(text, limit).number \in {NoNumber, text.number}
      BY <1>2, <2>2, <2>3 DEF truncateRunes
    <2> QED BY <2>4 DEF numericTokens
  <1> QED BY <1>1, <1>2

(* So the template is usable whenever no text is empty or too long, no      *)
(* number is cut and the station has none.                                  *)
LEMMA UncutIsUsable ==
    ASSUME NEW facts \in Facts, facts.labels \in 1..3, ~NoTemplate(facts)
    PROVE  TemplateOK(facts)
  <1>1. /\ facts.station \in Texts /\ facts.offer \in Texts /\ facts.discount \in Texts
        /\ facts.cost \in Nat
    BY DEF Facts, Numbers
  <1>2. ValidateCopyFacts(facts)
    BY <1>1 DEF NoTemplate, ValidateCopyFacts
  <1>3. /\ numericTokens(truncateRunes(facts.offer, 40)) \subseteq numericTokens(facts.offer)
        /\ numericTokens(truncateRunes(facts.discount, 80)) \subseteq numericTokens(facts.discount)
    BY <1>1, TokensUncut DEF NoTemplate
  <1>4. numericTokens(truncateRunes(facts.station, 20)) = {}
    BY DEF NoTemplate, truncateRunes, numericTokens
  <1>5. Template(facts).numbers \subseteq Allowed(facts)
    BY <1>3, <1>4 DEF Template, Allowed
  <1> QED BY <1>2, <1>5, TemplateFailsByNumbers

(* The facts of the offer that is chosen.                                   *)
LEMMA PickedFactsType ==
    ASSUME Tables, Locals, ChosenIndex(Evaluations) > 0
    PROVE  PickedFacts \in Facts /\ PickedFacts.labels \in 1..3
  <1>1. PICK index \in 1..Len(candidates) :
           index = ChosenIndex(Evaluations) /\ Evaluations[index].eligible
    BY ChoiceOf
  <1>2. PICK i \in 1..Len(candidates) :
           /\ Picked = Evaluate(candidates[i]) /\ Picked.offer = candidates[i][1]
           /\ IsEligible(candidates[i], found, points)
    BY <1>1, EligibleFound DEF Picked
  <1>3. PICK o : o = Picked.offer
    OBVIOUS
  <1>4. o \in DOMAIN found /\ found[o] \in RowType
    BY <1>2, <1>3 DEF IsEligible, Locals
  <1>5. PICK R : R = Picked.reasons
    OBVIOUS
  <1>6. "within_points" \in R /\ R \subseteq {"near_predicted_destination", "within_budget",
           "inventory_urgency", "preferred_category", "learned_category", "within_points"}
    <2>1. Picked = [offer |-> o, score |-> candidates[i][2] + Bonus(Bonuses(found[o])),
                    eligible |-> Rejections(found[o]) = {},
                    reasons |-> Reasons(found[o]) \cup (IF Rejections(found[o]) = {} THEN {"within_points"} ELSE {})]
      BY <1>2, <1>3, <1>4 DEF Evaluate
    <2>2. Rejections(found[o]) = {}
      BY <1>2, <1>3, <1>4, RejectionsRule DEF IsEligible, Locals
    <2>3. DOMAIN Bonuses(found[o]) = {"near_predicted_destination", "within_budget",
             "inventory_urgency", "preferred_category", "learned_category"}
      BY DEF Bonuses
    <2> QED BY <1>5, <2>1, <2>2, <2>3 DEF Reasons
  <1>7. IsFiniteSet(R)
    <2>1. PICK A, B, C :
             /\ A = {"near_predicted_destination"} \cup {"within_budget"}
             /\ B = {"inventory_urgency"} \cup {"preferred_category"}
             /\ C = {"learned_category"} \cup {"within_points"}
      OBVIOUS
    <2>2. IsFiniteSet(A) /\ IsFiniteSet(B) /\ IsFiniteSet(C)
      BY <2>1, FS_Singleton, FS_AddElement
    <2>3. IsFiniteSet(A \cup (B \cup C))
      <3>1. IsFiniteSet(B \cup C)
        BY <2>2, FS_Union
      <3> QED BY <2>2, <3>1, FS_Union
    <2>4. R \subseteq A \cup (B \cup C)
      BY <1>6, <2>1
    <2> QED BY <2>3, <2>4, FS_Subset
  <1>8. PICK n \in Nat : n = Cardinality(R) /\ n # 0
    BY <1>6, <1>7, FS_CardinalityType, FS_EmptySet
  <1>9. PickedFacts = [station |-> Station, offer |-> found[o].title, discount |-> found[o].description,
                       cost |-> found[o].cost, labels |-> Min({n, 3})]
    BY <1>3, <1>5, <1>8 DEF PickedFacts, CopyFacts
  <1>10. Min({n, 3}) \in 1..3
    <2>1. Min({n, 3}) \in {n, 3} /\ \A x \in {n, 3} : Min({n, 3}) <= x
      BY MinOf
    <2> QED BY <1>8, <2>1
  <1> QED BY <1>4, <1>9, <1>10, RecommendationAssumption DEF Facts, RowType

LEMMA RowTellsFacts ==
    ASSUME Tables, Locals, ChosenIndex(Evaluations) > 0, TemplateOK(PickedFacts),
           NEW answer, NEW r, r = NewRow(answer)
    PROVE  TellsFacts(r)
  <1>1. r.copy = GenerateCopy(PickedFacts, answer) /\ r.facts = PickedFacts
    BY RowFields
  <1>2. ValidateCopyOutput(r.facts, r.copy.output)
    BY <1>1, CopyValidated
  <1>3. /\ Allowed(r.facts) \subseteq Told(r.facts) \cup {r.facts.cost}
        /\ Allowed(r.facts) \ {r.facts.cost} \subseteq Told(r.facts) \ {NoNumber}
    BY DEF Allowed, numericTokens, Told
  <1>4. CASE r.copy.source = "llm"
    BY <1>2, <1>3, <1>4 DEF ValidateCopyOutput, TellsFacts
  <1>5. CASE r.copy.source # "llm"
    <2>1. r.copy.output = Template(r.facts)
      BY <1>1, <1>5 DEF GenerateCopy
    <2>2. r.facts \in Facts /\ ValidateCopyFacts(r.facts)
      BY <1>1, <1>2, PickedFactsType DEF ValidateCopyOutput
    <2>3. r.facts.cost \in r.copy.output.numbers
      BY <2>1, <2>2, TemplateFailsByNumbers
    <2> QED BY <1>2, <1>3, <2>3 DEF ValidateCopyOutput, TellsFacts
  <1> QED BY <1>4, <1>5

(* The first offer read back is the recommended one: its title is not       *)
(* empty, or its copy would have been refused.                              *)
LEMMA RowReadBack ==
    ASSUME Tables, Locals, ChosenIndex(Evaluations) > 0, TemplateOK(PickedFacts),
           NEW answer, NEW r, r = NewRow(answer)
    PROVE  ReadsBack(r)
  <1>1. PICK index \in 1..Len(candidates) :
           /\ index = ChosenIndex(Evaluations) /\ Evaluations[index].eligible
           /\ \A k \in 1..Len(candidates) : Evaluations[k].eligible => index <= k
    BY ChoiceOf
  <1>2. /\ Len(candidates) \in Nat /\ Len(candidates) <= CandidateLimit
        /\ DOMAIN Evaluations = 1..Len(candidates)
    BY EvaluationsSorted
  <1>3. ASSUME NEW k \in 1..Len(candidates), Evaluations[k].eligible
        PROVE  Evaluations[k].offer \in DOMAIN found
    BY <1>3, EligibleFound DEF IsEligible
  <1>4. PICK good :
           good = {k \in 1..Len(candidates) :
                      Evaluations[k].eligible /\ found[Evaluations[k].offer].title.len > 0}
    OBVIOUS
  <1>5. {k \in DOMAIN r.summary : r.summary[k].eligible /\ r.summary[k].title > 0} = good
    BY <1>2, <1>3, <1>4, RowFields
  <1>6. UpToLimit(good) = good
    BY <1>2, <1>4, NothingCut
  <1>7. GetLatest(r) = good
    BY <1>5, <1>6 DEF GetLatest
  <1>8. {k \in r.returned : r.found[r.summary[k].offer].title.len > 0} = good
    <2>1. r.returned = {k \in 1..Len(candidates) : Evaluations[k].eligible} /\ r.found = found
      BY RowFields, ListedAll
    <2>2. \A k \in 1..Len(candidates) : r.summary[k].offer = Evaluations[k].offer
      BY <1>2, RowFields
    <2> QED BY <1>4, <2>1, <2>2
  <1>9. index \in good
    <2>1. ValidateCopyFacts(PickedFacts)
      BY DEF TemplateOK
    <2>2. PickedFacts.offer = found[Evaluations[index].offer].title
      BY <1>1 DEF PickedFacts, Picked, CopyFacts
    <2>3. found[Evaluations[index].offer].title.len > 0
      <3>1. PickedFacts.offer.len \in 1..120
        BY <2>1 DEF ValidateCopyFacts
      <3>2. PICK m \in 1..120 : m = found[Evaluations[index].offer].title.len
        BY <2>2, <3>1
      <3>3. m > 0
        OBVIOUS
      <3> QED BY <3>2, <3>3
    <2> QED BY <1>1, <1>4, <2>3
  <1>10. Min(good) = index
    <2>1. good \subseteq Nat /\ good # {}
      BY <1>2, <1>4, <1>9
    <2>2. Min(good) \in good /\ \A x \in good : Min(good) <= x
      BY <2>1, MinOf
    <2>3. index <= Min(good)
      BY <1>1, <1>4, <2>2
    <2>4. Min(good) <= index /\ Min(good) \in Nat /\ index \in Nat
      BY <1>9, <2>1, <2>2
    <2> QED BY <2>3, <2>4
  <1>11. r.summary[index].offer = r.offer
    BY <1>1, <1>2, RowFields DEF Picked
  <1> QED BY <1>7, <1>8, <1>10, <1>11 DEF ReadsBack

-----------------------------------------------------------------------------
(* The invariant holds and is kept.                                         *)

LEMMA InitInv == Init => Inv
  <1> SUFFICES ASSUME Init PROVE Inv
    OBVIOUS
  <1>1. Tables
    <2>1. OfferRows \subseteq RowType
      BY RecommendationAssumption DEF RowType
    <2>2. offers \in [Offers -> RowType]
      BY <2>1 DEF Init
    <2>3. recs \in Seq({}) /\ outbox \in Seq(Offers) /\ Len(outbox) = Len(recs)
      BY DEF Init
    <2>4. StartBalance \in Nat
      BY RecommendationAssumption
    <2> QED BY <2>2, <2>3, <2>4 DEF Init, Tables
  <1>2. candidates = <<>> /\ candidates \in Answers
    <2>1. 0 \in 0..CandidateLimit
      BY LimitType
    <2>2. <<>> \in [1..0 -> Offers \X Scores]
      OBVIOUS
    <2>3. <<>> \in UNION {[1..n -> Offers \X Scores] : n \in 0..CandidateLimit}
      BY <2>1, <2>2
    <2> QED BY <2>3 DEF Init, Answers
  <1>3. DOMAIN found = {}
    BY DEF Init, NotFound
  <1>4. Locals
    <2>1. MaxCalls \in Nat /\ MaxChanges \in Nat
      BY RecommendationAssumption
    <2> QED BY <1>2, <1>3, <2>1 DEF Init, Locals
  <1>5. Answered /\ Snapshot
    BY DEF Init, Answered, Snapshot
  <1>6. AllBest /\ AllRedeemable /\ AllReadBack /\ AllTellFacts
    <2>1. DOMAIN recs = {}
      BY DEF Init
    <2> QED BY <2>1 DEF AllBest, AllRedeemable, AllReadBack, AllTellFacts
  <1> QED BY <1>1, <1>4, <1>5, <1>6 DEF Inv

(* The recommendations that are stored stay as they are, and what is said   *)
(* of them too while the tables do not change.                              *)
LEMMA RecsKept ==
    ASSUME Inv, UNCHANGED <<recs, outbox, preference>>
    PROVE  AllBest' /\ AllReadBack' /\ AllTellFacts'
  <1>1. AllBest'
    BY DEF Inv, AllBest
  <1>2. AllReadBack'
    <2>1. AllReadBack
      BY DEF Inv
    <2> QED BY <2>1 DEF AllReadBack
  <1>3. AllTellFacts'
    BY DEF Inv, AllTellFacts
  <1> QED BY <1>1, <1>2, <1>3

LEMMA TablesKept ==
    ASSUME Inv, UNCHANGED <<tables, preference, changes>>
    PROVE  Tables' /\ AllBest' /\ AllRedeemable' /\ AllReadBack' /\ AllTellFacts'
  <1>1. UNCHANGED <<offers, balance, redeemed, recs, outbox>>
    BY DEF tables
  <1>2. AllBest' /\ AllReadBack' /\ AllTellFacts'
    BY <1>1, RecsKept
  <1>3. AllRedeemable'
    BY <1>1 DEF Inv, AllRedeemable, CanRedeem, Redeemable
  <1>4. Tables'
    BY <1>1 DEF Inv, Tables
  <1> QED BY <1>2, <1>3, <1>4

(* The choice stays the same with what it is made from.                     *)
LEMMA FactsKept ==
    ASSUME UNCHANGED <<candidates, found, points, preference>>
    PROVE  PickedFacts' = PickedFacts
  BY DEF PickedFacts, Picked, Evaluations, Evaluate, Rejections, Reasons, Bonuses, Weight,
         matchesPreferredCategory, CopyFacts

(* A call that ends with an error leaves everything as it was.              *)
LEMMA RefuseInv ==
    ASSUME Inv, calls' \in 0..MaxCalls,
           NEW e \in {"embedding", "recall", "no_eligible_offer", "user_not_found",
                      "journey_not_found", "station_mismatch", "copy", "database"},
           Refuse(e),
           e = "no_eligible_offer" => \A c \in ToSet(candidates) : ~IsEligible(c, found, points),
           e = "copy" => NoTemplate(PickedFacts)
    PROVE  Inv'
  <1>1. /\ pc' = "idle" /\ outcome' = e
        /\ UNCHANGED <<tables, preference, candidates, points, found, before, changes>>
    BY DEF Refuse
  <1>2. Tables' /\ AllBest' /\ AllRedeemable' /\ AllReadBack' /\ AllTellFacts'
    BY <1>1, TablesKept
  <1>3. Locals'
    BY <1>1 DEF Inv, Locals, Answers, CandidateLimit
  <1>4. PickedFacts' = PickedFacts
    BY <1>1, FactsKept
  <1>5. Answered' /\ Snapshot'
    BY <1>1, <1>4 DEF Answered, Snapshot, IsEligible, ToSet, NoTemplate, CutsNumber
  <1> QED BY <1>2, <1>3, <1>5 DEF Inv

LEMMA QueryVectorInv == ASSUME Inv, QueryVector PROVE Inv'
  <1>1. calls' \in 0..MaxCalls
    BY RecommendationAssumption DEF QueryVector, Inv, Locals
  <1>2. CASE EmbeddingFails
    BY <1>1, <1>2, RefuseInv DEF EmbeddingFails
  <1>3. CASE /\ pc' = "search" /\ outcome' = "pending"
             /\ UNCHANGED <<tables, preference, candidates, points, found, before, changes>>
    <2>1. Tables' /\ AllBest' /\ AllRedeemable' /\ AllReadBack' /\ AllTellFacts'
      BY <1>3, TablesKept
    <2>2. Locals'
      BY <1>1, <1>3 DEF Inv, Locals, Answers
    <2>3. Answered' /\ Snapshot'
      BY <1>3 DEF Answered, Snapshot
    <2> QED BY <2>1, <2>2, <2>3 DEF Inv
  <1> QED BY <1>2, <1>3 DEF QueryVector

LEMMA SearchInv == ASSUME Inv, Search PROVE Inv'
  <1>1. calls' \in 0..MaxCalls /\ pc = "search" /\ outcome = "pending"
    BY DEF Search, Inv, Locals, Answered
  <1>2. CASE Refuse("recall")
    BY <1>1, <1>2, RefuseInv
  <1>3. ASSUME NEW s \in Answers, candidates' = s, found' = NotFound, points' = 0,
               IF s = <<>> THEN pc' = "idle" /\ outcome' = "no_eligible_offer"
               ELSE pc' = "user" /\ UNCHANGED outcome,
               UNCHANGED <<tables, preference, before, changes>>
        PROVE  Inv'
    <2>1. Tables' /\ AllBest' /\ AllRedeemable' /\ AllReadBack' /\ AllTellFacts'
      BY <1>3, TablesKept
    <2>2. DOMAIN found' = {}
      BY <1>3 DEF NotFound
    <2>3. Locals'
      BY <1>1, <1>3, <2>2 DEF Inv, Locals
    <2>4. Answered' /\ Snapshot'
      BY <1>1, <1>3, <2>2 DEF Answered, Snapshot, IsEligible
    <2> QED BY <2>1, <2>3, <2>4 DEF Inv
  <1> QED BY <1>2, <1>3 DEF Search

LEMMA ReadUserInv == ASSUME Inv, ReadUser PROVE Inv'
  <1>1. pc = "user" /\ outcome = "pending"
    BY DEF ReadUser, Inv, Answered
  <1>2. ASSUME NEW error \in {"user_not_found", "journey_not_found", "station_mismatch",
                             "database"},
               Refuse(error), UNCHANGED calls
        PROVE  Inv'
    <2>1. calls' \in 0..MaxCalls
      BY <1>2 DEF Inv, Locals
    <2> QED BY <1>2, <2>1, RefuseInv
  <1>3. CASE /\ points' = balance
             /\ before' = [redeemed |-> redeemed, changes |-> changes]
             /\ pc' = "offers"
             /\ UNCHANGED <<tables, preference, candidates, found, outcome, calls, changes>>
    <2>1. Tables' /\ AllBest' /\ AllRedeemable' /\ AllReadBack' /\ AllTellFacts'
      BY <1>3, TablesKept
    <2>2. UNCHANGED <<balance, redeemed, offers>>
      BY <1>3 DEF tables
    <2>3. Locals'
      BY <1>3 DEF Inv, Tables, Locals, Answers
    <2>4. Answered' /\ Snapshot'
      BY <1>1, <1>3, <2>2 DEF Answered, Snapshot
    <2> QED BY <2>1, <2>3, <2>4 DEF Inv
  <1> QED BY <1>2, <1>3 DEF ReadUser

LEMMA ReadOffersInv == ASSUME Inv, ReadOffers PROVE Inv'
  <1>1. pc = "offers" /\ outcome = "pending" /\ calls' \in 0..MaxCalls
    BY DEF ReadOffers, Inv, Answered, Locals
  <1>2. CASE Refuse("database")
    BY <1>1, <1>2, RefuseInv
  <1>3. ASSUME NEW part \in SUBSET {o \in Offers : offers[o].here /\ o \notin redeemed},
               found' = [o \in part |-> offers[o]], pc' \in {"decide", "broken"},
               UNCHANGED <<tables, preference, candidates, points, before, outcome, changes>>
        PROVE  Inv'
    <2>1. Tables' /\ AllBest' /\ AllRedeemable' /\ AllReadBack' /\ AllTellFacts'
      BY <1>3, TablesKept
    <2>2. UNCHANGED <<balance, redeemed, offers>>
      BY <1>3 DEF tables
    <2>3. /\ DOMAIN found' \subseteq Offers
          /\ \A o \in DOMAIN found' : found'[o] = offers[o] /\ offers[o].here /\ o \notin redeemed
      BY <1>3
    <2>4. Locals'
      BY <1>1, <1>3, <2>3 DEF Inv, Tables, Locals, Answers
    <2>5. Answered'
      BY <1>1, <1>3 DEF Answered
    <2>6. Snapshot'
      BY <1>1, <1>3, <2>2, <2>3 DEF Inv, Snapshot
    <2> QED BY <2>1, <2>4, <2>5, <2>6 DEF Inv
  <1> QED BY <1>2, <1>3 DEF ReadOffers

(* One more recommendation at the end.                                      *)
LEMMA AppendAny ==
    ASSUME NEW S, NEW q \in Seq(S), NEW r
    PROVE  /\ Append(q, r) \in Seq(S \cup {r})
           /\ Len(q) \in Nat /\ Len(Append(q, r)) = Len(q) + 1
           /\ DOMAIN Append(q, r) = 1..(Len(q) + 1)
           /\ \A i \in 1..Len(q) : i \in DOMAIN q /\ Append(q, r)[i] = q[i]
           /\ Append(q, r)[Len(q) + 1] = r
  <1>1. q \in Seq(S \cup {r}) /\ Len(q) \in Nat
    OBVIOUS
  <1> QED BY <1>1

(* The commit of a recommendation with its event.                           *)
LEMMA StoredInv ==
    ASSUME Inv, pc = "decide", ChosenIndex(Evaluations) > 0, TemplateOK(PickedFacts),
           NEW answer, recs' = Append(recs, NewRow(answer)), outbox' = Append(outbox, Picked.offer),
           pc' = "idle", outcome' = "made",
           UNCHANGED <<offers, balance, redeemed, preference, candidates, points, found, before,
                       calls, changes>>
    PROVE  Inv'
  <1>1. PICK r : r = NewRow(answer)
    OBVIOUS
  <1>2. PICK S : recs \in Seq(S)
    BY DEF Inv, Tables
  <1>3. /\ recs' \in Seq(S \cup {r}) /\ Len(recs) \in Nat /\ Len(recs') = Len(recs) + 1
        /\ DOMAIN recs' = 1..(Len(recs) + 1)
        /\ \A i \in 1..Len(recs) : i \in DOMAIN recs /\ recs'[i] = recs[i]
        /\ recs'[Len(recs) + 1] = r
    BY <1>1, <1>2, AppendAny
  <1>4. Picked.offer \in Offers /\ r.offer = Picked.offer
    <2>1. PICK index \in 1..Len(candidates) :
             index = ChosenIndex(Evaluations) /\ Evaluations[index].eligible
      BY ChoiceOf DEF Inv
    <2>2. PICK i \in 1..Len(candidates) : Evaluations[index].offer = candidates[i][1]
      BY <2>1, EligibleFound DEF Inv
    <2>3. candidates[i] \in Offers \X Scores
      BY AnswerType DEF Inv, Locals
    <2> QED BY <1>1, <2>1, <2>2, <2>3, RowFields DEF Picked
  <1>5. /\ outbox \in Seq(Offers) /\ outbox' \in Seq(Offers) /\ Len(outbox) = Len(recs)
        /\ Len(outbox') = Len(outbox) + 1
        /\ \A i \in 1..Len(outbox) : outbox'[i] = outbox[i]
        /\ outbox'[Len(outbox) + 1] = r.offer
    <2>1. outbox \in Seq(Offers) /\ Len(outbox) = Len(recs)
      BY DEF Inv, Tables
    <2> QED BY <1>4, <2>1
  <1>6. \A i \in DOMAIN recs' :
           \/ i \in DOMAIN recs /\ recs'[i] = recs[i] /\ outbox'[i] = outbox[i]
           \/ recs'[i] = r /\ outbox'[i] = r.offer
    BY <1>3, <1>5
  <1>7. Tables'
    <2>1. Len(outbox') = Len(recs')
      BY <1>3, <1>5
    <2> QED BY <1>3, <1>5, <2>1 DEF Inv, Tables
  <1>8. Locals'
    BY DEF Inv, Locals, Answers
  <1>9. Answered' /\ Snapshot'
    BY DEF Answered, Snapshot
  <1>10. AllBest'
    <2>1. Best(preference, r)
      BY <1>1, RowBest DEF Inv
    <2> QED BY <1>6, <2>1 DEF Inv, AllBest
  <1>11. AllRedeemable'
    <2>1. CanRedeem(r)
      BY <1>1, RowRedeemable DEF Inv
    <2> QED BY <1>6, <2>1 DEF Inv, AllRedeemable, CanRedeem, Redeemable
  <1>12. AllReadBack'
    <2>1. ReadsBack(r)
      BY <1>1, RowReadBack DEF Inv
    <2> QED BY <1>6, <2>1 DEF Inv, AllReadBack
  <1>13. AllTellFacts'
    <2>1. TellsFacts(r)
      BY <1>1, RowTellsFacts DEF Inv
    <2> QED BY <1>6, <2>1 DEF Inv, AllTellFacts
  <1> QED BY <1>7, <1>8, <1>9, <1>10, <1>11, <1>12, <1>13 DEF Inv

LEMMA DecideInv == ASSUME Inv, Decide PROVE Inv'
  <1>1. calls' \in 0..MaxCalls /\ UNCHANGED calls
    BY DEF Decide, Inv, Locals
  <1>2. CASE ChosenIndex(Evaluations) = 0 /\ Refuse("no_eligible_offer")
    <2>1. \A c \in ToSet(candidates) : ~IsEligible(c, found, points)
      BY <1>2, ChoiceOf DEF Inv
    <2> QED BY <1>1, <1>2, <2>1, RefuseInv
  <1>3. CASE Refuse("database")
    BY <1>1, <1>3, RefuseInv
  <1>4. CASE ChosenIndex(Evaluations) > 0 /\ ~TemplateOK(PickedFacts) /\ Refuse("copy")
    <2>1. NoTemplate(PickedFacts)
      BY <1>4, PickedFactsType, UncutIsUsable DEF Inv
    <2> QED BY <1>1, <1>4, <2>1, RefuseInv
  <1>5. CASE /\ ChosenIndex(Evaluations) > 0 /\ TemplateOK(PickedFacts) /\ pc = "decide"
             /\ \E answer \in GeneratorAnswers(PickedFacts) : recs' = Append(recs, NewRow(answer))
             /\ outbox' = Append(outbox, Picked.offer)
             /\ pc' = "idle"
             /\ outcome' = "made"
             /\ UNCHANGED <<offers, balance, redeemed, preference, candidates, points, found,
                            before, changes>>
    BY <1>1, <1>5, StoredInv
  <1> QED BY <1>2, <1>3, <1>4, <1>5
        DEF Decide, Picked, PickedFacts, NewRow, enqueueRecommendationEvent

(* A redemption or a change of an offer is counted: what was read before it *)
(* and what was recommended from that may be out of date from here on.      *)
LEMMA ChangeInv ==
    ASSUME Inv, offers' \in [Offers -> RowType], balance' \in Nat,
           redeemed \subseteq redeemed', redeemed' \subseteq Offers,
           changes < MaxChanges, changes' = changes + 1,
           UNCHANGED <<preference, recs, outbox, pc, candidates, points, found, before, outcome,
                       calls>>
    PROVE  Inv'
  <1>1. changes \in Nat /\ changes' \in 0..MaxChanges /\ before.changes \in 0..changes
    BY RecommendationAssumption DEF Inv, Locals
  <1>2. before.changes \in 0..changes' /\ before.changes # changes'
    BY <1>1
  <1>3. Tables'
    BY DEF Inv, Tables
  <1>4. Locals'
    BY <1>1, <1>2 DEF Inv, Locals, Answers
  <1>5. Answered'
    BY FactsKept DEF Inv, Answered, IsEligible, ToSet, NoTemplate, CutsNumber
  <1>6. Snapshot'
    BY <1>2 DEF Inv, Snapshot
  <1>7. AllBest' /\ AllReadBack' /\ AllTellFacts'
    BY RecsKept
  <1>8. AllRedeemable'
    <2>1. ASSUME NEW i \in DOMAIN recs
          PROVE  recs[i].before.changes \in 0..changes' /\ recs[i].before.changes # changes'
      <3>1. recs[i].before.changes \in 0..changes
        BY DEF Inv, AllRedeemable, CanRedeem
      <3> QED BY <1>1, <3>1
    <2> QED BY <2>1 DEF Inv, AllRedeemable, CanRedeem
  <1> QED BY <1>3, <1>4, <1>5, <1>6, <1>7, <1>8 DEF Inv

LEMMA RedeemInv == ASSUME Inv, NEW o \in Offers, Redeem(o) PROVE Inv'
  <1>1. /\ Redeemable(o) /\ changes < MaxChanges /\ changes' = changes + 1
        /\ redeemed' = redeemed \cup {o} /\ balance' = balance - offers[o].cost
        /\ offers' = [offers EXCEPT ![o].quantity = @ - 1]
        /\ UNCHANGED <<preference, recs, outbox, pc, candidates, points, found, before, outcome,
                       calls>>
    BY DEF Redeem
  <1>2. offers \in [Offers -> RowType] /\ balance \in Nat /\ redeemed \subseteq Offers
    BY DEF Inv, Tables
  <1>3. PICK row \in RowType : row = offers[o]
    BY <1>2
  <1>4. row.quantity \in Nat /\ row.cost \in Nat /\ row.quantity > 0 /\ row.cost <= balance
    BY <1>1, <1>3 DEF Redeemable, RowType, Numbers
  <1>5. row.quantity - 1 \in Nat /\ balance - row.cost \in Nat
    BY <1>2, <1>4
  <1>6. [row EXCEPT !.quantity = @ - 1] \in RowType
    BY <1>5 DEF RowType
  <1>7. offers' = [offers EXCEPT ![o] = [row EXCEPT !.quantity = @ - 1]]
    BY <1>1, <1>3
  <1>8. offers' \in [Offers -> RowType]
    BY <1>2, <1>6, <1>7
  <1> QED BY <1>1, <1>2, <1>3, <1>5, <1>8, ChangeInv

LEMMA DeactivateInv == ASSUME Inv, NEW o \in Offers, Deactivate(o) PROVE Inv'
  <1>1. /\ changes < MaxChanges /\ changes' = changes + 1
        /\ offers' = [offers EXCEPT ![o].active = FALSE]
        /\ UNCHANGED <<balance, redeemed, preference, recs, outbox, pc, candidates, points, found,
                       before, outcome, calls>>
    BY DEF Deactivate
  <1>2. offers \in [Offers -> RowType] /\ balance \in Nat /\ redeemed \subseteq Offers
    BY DEF Inv, Tables
  <1>3. PICK row \in RowType : row = offers[o]
    BY <1>2
  <1>4. [row EXCEPT !.active = FALSE] \in RowType
    BY DEF RowType
  <1>5. offers' = [offers EXCEPT ![o] = [row EXCEPT !.active = FALSE]]
    BY <1>1, <1>3
  <1>6. offers' \in [Offers -> RowType]
    BY <1>2, <1>4, <1>5
  <1> QED BY <1>1, <1>2, <1>6, ChangeInv

LEMMA NextInv == Inv /\ [Next]_vars => Inv'
  <1> SUFFICES ASSUME Inv, [Next]_vars PROVE Inv'
    OBVIOUS
  <1>1. CASE UNCHANGED vars
    <2>1. UNCHANGED <<tables, offers, balance, redeemed, recs, outbox, preference, pc, candidates,
                      points, found, before, outcome, calls, changes>>
      BY <1>1 DEF vars, tables
    <2>2. Tables' /\ AllBest' /\ AllRedeemable' /\ AllReadBack' /\ AllTellFacts'
      BY <2>1, TablesKept
    <2>3. Locals'
      BY <2>1 DEF Inv, Locals, Answers
    <2>4. Answered' /\ Snapshot'
      BY <2>1, FactsKept DEF Inv, Answered, Snapshot, IsEligible, ToSet, NoTemplate, CutsNumber
    <2> QED BY <2>2, <2>3, <2>4 DEF Inv
  <1>2. CASE Recommend
    BY <1>2, QueryVectorInv, SearchInv, ReadUserInv, ReadOffersInv, DecideInv DEF Recommend
  <1>3. ASSUME NEW o \in Offers, Redeem(o) \/ Deactivate(o) PROVE Inv'
    BY <1>3, RedeemInv, DeactivateInv
  <1> QED BY <1>1, <1>2, <1>3 DEF Next

(* In every reachable state.                                                *)
LEMMA AlwaysInv == Spec => []Inv
  BY InitInv, NextInv, PTL DEF Spec

(* The recommended offer is the eligible candidate with the highest score,  *)
(* the smallest id among equals, for any offers, preferences and vector     *)
(* scores, in whatever order Qdrant answers; and Recommend reports that no  *)
(* offer is eligible only when none is (Recommend's evaluation loop,        *)
(* sort.SliceStable and its choice of the first eligible evaluation).       *)
THEOREM BestIsChosen == Spec => []BestOfferChosen
  <1>1. Inv => BestOfferChosen
    <2> SUFFICES ASSUME Inv PROVE BestOfferChosen
      OBVIOUS
    <2>1. TypeOK
      <3>1. \A o \in Offers : offers[o].quantity \in Nat /\ offers[o].cost \in Nat
        BY DEF Inv, Tables, RowType, Numbers
      <3>2. Len(candidates) <= CandidateLimit
        BY EvaluationsSorted DEF Inv
      <3> QED BY <3>1, <3>2 DEF Inv, Tables, Locals, TypeOK
    <2>2. ASSUME NEW i \in DOMAIN recs, NEW r, r = recs[i]
          PROVE  LET eligible == {c \in ToSet(r.candidates) : IsEligible(c, r.found, r.points)}
                 IN  \E best \in eligible :
                       /\ r.offer = best[1]
                       /\ r.score = RuleScore(preference, best, r.found[best[1]])
                       /\ \A c \in eligible \ {best} :
                             LET score == RuleScore(preference, c, r.found[c[1]])
                             IN  score < r.score \/ (score = r.score /\ c[1] > r.offer)
      <3>1. Best(preference, r)
        BY <2>2 DEF Inv, AllBest
      <3> QED BY <3>1 DEF Best
    <2>3. outcome = "no_eligible_offer" =>
             \A c \in ToSet(candidates) : ~IsEligible(c, found, points)
      BY DEF Inv, Answered
    <2> QED BY <2>1, <2>2, <2>3 DEF BestOfferChosen
  <1> QED BY <1>1, AlwaysInv, PTL

(* Every offer of a recommendation can be redeemed until something changes, *)
(* unless it is free, which redemption.Create has no rule for and always    *)
(* fails; and none that was redeemed before the call began is listed,       *)
(* however redemptions and deactivations fall between the statements of     *)
(* Recommend (READ COMMITTED).                                              *)
THEOREM OffersCanBeRedeemed == Spec => []RecommendedIsRedeemable
  <1>1. Inv => RecommendedIsRedeemable
    BY DEF Inv, AllRedeemable, CanRedeem, RecommendedIsRedeemable
  <1> QED BY <1>1, AlwaysInv, PTL

(* GetLatest reads back from candidate_summary the offers that Recommend    *)
(* returned, except those without a title, the recommended one first, and   *)
(* the event of each recommendation names its offer.                        *)
THEOREM ReadBackIsSame == Spec => []ReadBackAgrees
  <1>1. Inv => ReadBackAgrees
    BY DEF Inv, AllReadBack, ReadsBack, ReadBackAgrees
  <1> QED BY <1>1, AlwaysInv, PTL

(* The stored copy repeats the offer and the discount and has no number but *)
(* theirs and the cost, for any texts, whatever the generator returns and   *)
(* wherever the template is cut; it states the cost, or a generated one     *)
(* leaves it to a longer number that contains it.  Recommend fails for the  *)
(* copy only when a text of the chosen offer is empty or too long, a number *)
(* is cut in two or the station has one (GenerateCopy, TemplateCopy,        *)
(* ValidateCopyOutput).                                                     *)
THEOREM CopyTellsOnlyFacts == Spec => []CopyTellsFacts
  <1>1. Inv => CopyTellsFacts
    BY DEF Inv, AllTellFacts, TellsFacts, Told, CopyTellsFacts, Answered, PickedFacts, Picked
  <1> QED BY <1>1, AlwaysInv, PTL

-----------------------------------------------------------------------------
(* The consumer of journey.entered, which calls the service.                *)
(*                                                                          *)
(* Neither of its bounds is inductive.  SkipsNeedFailures speaks of the     *)
(* messages below the committed offset, but they are passed over before,    *)
(* while the reader moves on: the invariant counts them below the reader's  *)
(* position.  RepeatsBounded does not know the consumers that have looked   *)
(* and have not yet stored: the invariant counts what they are about to     *)
(* store as well.                                                           *)

(* What ends a message is its recommendation, or that it is not valid.      *)
AcksAreEarned ==
    \A c \in Consumers :
        step[c] = "ack" => Current(c) \in Bad \/ made[Current(c)] > 0

EntryInv == EntryTypeOK /\ AcksAreEarned

(* Empty partitions satisfy the invariant.                                  *)
LEMMA EntryInitInv == EntryInit => EntryInv
  BY EntryAssumption DEF EntryInit, EntryInv, EntryTypeOK, AcksAreEarned

(* The message in hand is one of its partition.                             *)
LEMMA InHand ==
    ASSUME EntryTypeOK, NEW c \in Consumers, position[c] < Len(log[c])
    PROVE  /\ position[c] + 1 \in 1..Len(log[c])
           /\ Current(c) \in Journeys /\ made[Current(c)] \in Nat
  <1>1. log[c] \in Seq(Journeys) /\ position[c] \in Nat /\ Len(log[c]) \in Nat
    BY DEF EntryTypeOK
  <1>2. position[c] + 1 \in 1..Len(log[c])
    BY <1>1
  <1>3. Current(c) \in Journeys
    BY <1>1, <1>2 DEF Current
  <1> QED BY <1>2, <1>3 DEF EntryTypeOK

(* A partition only grows at its end.                                       *)
LEMMA ProduceKeeps ==
    ASSUME EntryTypeOK, NEW c \in Consumers, NEW j \in Journeys, Produce(c, j)
    PROVE  /\ log' \in [Consumers -> Seq(Journeys)]
           /\ \A d \in Consumers : /\ Len(log'[d]) >= Len(log[d])
                                   /\ \A i \in 1..Len(log[d]) : log'[d][i] = log[d][i]
  <1>1. log' = [log EXCEPT ![c] = Append(log[c], j)] /\ log \in [Consumers -> Seq(Journeys)]
    BY DEF Produce, EntryTypeOK
  <1>2. ASSUME NEW d \in Consumers
        PROVE  /\ log'[d] \in Seq(Journeys) /\ Len(log'[d]) >= Len(log[d])
               /\ \A i \in 1..Len(log[d]) : log'[d][i] = log[d][i]
    <2>1. log[d] \in Seq(Journeys) /\ Len(log[d]) \in Nat
      BY <1>1
    <2>2. CASE d = c
      BY <1>1, <2>1, <2>2
    <2>3. CASE d # c
      BY <1>1, <2>1, <2>3
    <2> QED BY <2>2, <2>3
  <1> QED BY <1>1, <1>2

(* A message in hand stays the same one.                                    *)
LEMMA ProduceInv ==
    ASSUME EntryInv, NEW c \in Consumers, NEW j \in Journeys, Produce(c, j)
    PROVE  /\ EntryInv'
           /\ \A d \in Consumers : step[d] # "fetch" => Current(d)' = Current(d)
  <1>1. UNCHANGED <<position, committed, made, step, crashes, failures, readErrors>>
    BY DEF Produce, faults
  <1>2. /\ log' \in [Consumers -> Seq(Journeys)]
        /\ \A d \in Consumers : /\ Len(log'[d]) >= Len(log[d])
                                /\ \A i \in 1..Len(log[d]) : log'[d][i] = log[d][i]
    BY ProduceKeeps DEF EntryInv
  <1>3. \A d \in Consumers : position[d] \in Nat /\ Len(log[d]) \in Nat /\ Len(log'[d]) \in Nat
    BY <1>2 DEF EntryInv, EntryTypeOK
  <1>4. EntryTypeOK'
    BY <1>1, <1>2, <1>3 DEF EntryInv, EntryTypeOK
  <1>5. ASSUME NEW d \in Consumers, step[d] # "fetch" PROVE Current(d)' = Current(d)
    <2>1. position[d] + 1 \in 1..Len(log[d])
      BY <1>5, InHand DEF EntryInv, EntryTypeOK
    <2> QED BY <1>1, <1>2, <2>1 DEF Current
  <1>6. AcksAreEarned'
    BY <1>1, <1>5 DEF EntryInv, AcksAreEarned
  <1> QED BY <1>4, <1>5, <1>6 DEF EntryInv

(* The steps of a consumer leave the logs alone, and no recommendation is   *)
(* taken back.                                                              *)
MadeGrows == made' \in [Journeys -> Nat] /\ \A j \in Journeys : made'[j] >= made[j]

(* So what another consumer has earned stays earned.                        *)
LEMMA OthersEarned ==
    ASSUME EntryInv, MadeGrows, UNCHANGED log, NEW c \in Consumers,
           \A d \in Consumers \ {c} : step'[d] = step[d] /\ position'[d] = position[d],
           step'[c] = "ack" => Current(c)' \in Bad \/ made'[Current(c)'] > 0
    PROVE  AcksAreEarned'
  <1>1. ASSUME NEW d \in Consumers \ {c}, step'[d] = "ack"
        PROVE  Current(d)' \in Bad \/ made'[Current(d)'] > 0
    <2>1. step[d] = "ack" /\ Current(d)' = Current(d)
      BY <1>1 DEF Current
    <2>2. Current(d) \in Journeys /\ made[Current(d)] \in Nat
      BY <2>1, InHand DEF EntryInv, EntryTypeOK
    <2> QED BY <2>1, <2>2 DEF EntryInv, AcksAreEarned, MadeGrows
  <1> QED BY <1>1 DEF AcksAreEarned

(* Whatever a consumer does, the invariant holds afterwards.                *)
LEMMA FetchInv == ASSUME EntryInv, NEW c \in Consumers, Fetch(c) PROVE EntryInv'
  <1>1. /\ step' = [step EXCEPT ![c] = IF Current(c) \in Bad THEN "ack" ELSE "latest"]
        /\ UNCHANGED <<log, position, committed, made, crashes, failures, readErrors>>
        /\ position[c] < Len(log[c])
    BY DEF Fetch, Goto, faults
  <1>2. EntryTypeOK'
    BY <1>1 DEF EntryInv, EntryTypeOK
  <1>3. MadeGrows
    BY <1>1 DEF EntryInv, EntryTypeOK, MadeGrows
  <1>4. step'[c] = "ack" => Current(c)' \in Bad \/ made'[Current(c)'] > 0
    BY <1>1 DEF EntryInv, EntryTypeOK, Current
  <1>5. \A d \in Consumers \ {c} : step'[d] = step[d] /\ position'[d] = position[d]
    BY <1>1 DEF EntryInv, EntryTypeOK
  <1> QED BY <1>1, <1>2, <1>3, <1>4, <1>5, OthersEarned DEF EntryInv

LEMMA GetLatestInv == ASSUME EntryInv, NEW c \in Consumers, CallGetLatest(c) PROVE EntryInv'
  <1>1. /\ step' = [step EXCEPT ![c] = IF made[Current(c)] > 0 THEN "ack" ELSE "recommend"]
        /\ UNCHANGED <<log, position, committed, made, crashes, failures, readErrors>>
        /\ step[c] = "latest"
    BY DEF CallGetLatest, Goto, faults
  <1>2. EntryTypeOK'
    BY <1>1 DEF EntryInv, EntryTypeOK
  <1>3. MadeGrows
    BY <1>1 DEF EntryInv, EntryTypeOK, MadeGrows
  <1>4. step'[c] = "ack" => Current(c)' \in Bad \/ made'[Current(c)'] > 0
    BY <1>1 DEF EntryInv, EntryTypeOK, Current
  <1>5. \A d \in Consumers \ {c} : step'[d] = step[d] /\ position'[d] = position[d]
    BY <1>1 DEF EntryInv, EntryTypeOK
  <1> QED BY <1>1, <1>2, <1>3, <1>4, <1>5, OthersEarned DEF EntryInv

LEMMA GetLatestFailsInv ==
    ASSUME EntryInv, NEW c \in Consumers, GetLatestFails(c) PROVE EntryInv'
  <1>1. /\ step' = [step EXCEPT ![c] = "recommend"]
        /\ readErrors < MaxReadErrors /\ readErrors' = readErrors + 1
        /\ UNCHANGED <<log, position, committed, made, crashes, failures>>
        /\ step[c] = "latest"
    BY DEF GetLatestFails, Goto
  <1>2. EntryTypeOK'
    <2>1. readErrors' \in 0..MaxReadErrors
      BY <1>1, EntryAssumption DEF EntryInv, EntryTypeOK
    <2> QED BY <1>1, <2>1 DEF EntryInv, EntryTypeOK
  <1>3. MadeGrows
    BY <1>1 DEF EntryInv, EntryTypeOK, MadeGrows
  <1>4. step'[c] # "ack"
    BY <1>1 DEF EntryInv, EntryTypeOK
  <1>5. \A d \in Consumers \ {c} : step'[d] = step[d] /\ position'[d] = position[d]
    BY <1>1 DEF EntryInv, EntryTypeOK
  <1> QED BY <1>1, <1>2, <1>3, <1>4, <1>5, OthersEarned DEF EntryInv

LEMMA RecommendInv ==
    ASSUME EntryInv, NEW c \in Consumers, CallRecommend(c) PROVE EntryInv' /\ MadeGrows
  <1>1. /\ step' = [step EXCEPT ![c] = "ack"]
        /\ made' = [made EXCEPT ![Current(c)] = @ + 1]
        /\ UNCHANGED <<log, position, committed, crashes, failures, readErrors>>
        /\ step[c] = "recommend"
    BY DEF CallRecommend, Goto, faults
  <1>2. /\ Current(c) \in Journeys /\ made[Current(c)] \in Nat
        /\ Current(c)' = Current(c)
    <2>1. position[c] < Len(log[c])
      BY <1>1 DEF EntryInv, EntryTypeOK
    <2> QED BY <1>1, <2>1, InHand DEF EntryInv, Current
  <1>3. MadeGrows
    BY <1>1, <1>2 DEF EntryInv, EntryTypeOK, MadeGrows
  <1>4. EntryTypeOK'
    BY <1>1, <1>3 DEF EntryInv, EntryTypeOK, MadeGrows
  <1>5. made'[Current(c)'] > 0
    BY <1>1, <1>2 DEF EntryInv, EntryTypeOK
  <1>6. \A d \in Consumers \ {c} : step'[d] = step[d] /\ position'[d] = position[d]
    BY <1>1 DEF EntryInv, EntryTypeOK
  <1> QED BY <1>1, <1>3, <1>4, <1>5, <1>6, OthersEarned DEF EntryInv

LEMMA RecommendFailsInv ==
    ASSUME EntryInv, NEW c \in Consumers, RecommendFails(c) PROVE EntryInv' /\ MadeGrows
  <1>1. /\ step' = [step EXCEPT ![c] = "fetch"]
        /\ position' = [position EXCEPT ![c] = @ + 1]
        /\ failures < MaxFailures /\ failures' = failures + 1
        /\ made' \in {made, [made EXCEPT ![Current(c)] = @ + 1]}
        /\ UNCHANGED <<log, committed, crashes, readErrors>>
        /\ step[c] = "recommend"
    BY DEF RecommendFails, Skip, Goto
  <1>2. /\ position[c] < Len(log[c])
        /\ Current(c) \in Journeys /\ made[Current(c)] \in Nat
    <2>1. position[c] < Len(log[c])
      BY <1>1 DEF EntryInv, EntryTypeOK
    <2> QED BY <2>1, InHand DEF EntryInv
  <1>3. MadeGrows
    <2>1. CASE made' = made
      BY <2>1 DEF EntryInv, EntryTypeOK, MadeGrows
    <2>2. CASE made' = [made EXCEPT ![Current(c)] = @ + 1]
      BY <1>2, <2>2 DEF EntryInv, EntryTypeOK, MadeGrows
    <2> QED BY <1>1, <2>1, <2>2
  <1>4. EntryTypeOK'
    <2>1. failures' \in 0..MaxFailures
      BY <1>1, EntryAssumption DEF EntryInv, EntryTypeOK
    <2>2. ASSUME NEW d \in Consumers
          PROVE  /\ position'[d] \in Nat
                 /\ committed'[d] <= position'[d]
                 /\ position'[d] <= Len(log'[d])
                 /\ step'[d] # "fetch" => position'[d] < Len(log'[d])
      <3>1. log[d] \in Seq(Journeys) /\ Len(log[d]) \in Nat /\ position[d] \in Nat
            /\ committed[d] \in Nat
        BY DEF EntryInv, EntryTypeOK
      <3>2. CASE d = c
        BY <1>1, <1>2, <3>1, <3>2 DEF EntryInv, EntryTypeOK
      <3>3. CASE d # c
        BY <1>1, <3>1, <3>3 DEF EntryInv, EntryTypeOK
      <3> QED BY <3>2, <3>3
    <2> QED BY <1>1, <1>3, <2>1, <2>2 DEF EntryInv, EntryTypeOK, MadeGrows
  <1>5. step'[c] # "ack"
    BY <1>1 DEF EntryInv, EntryTypeOK
  <1>6. \A d \in Consumers \ {c} : step'[d] = step[d] /\ position'[d] = position[d]
    BY <1>1 DEF EntryInv, EntryTypeOK
  <1> QED BY <1>1, <1>3, <1>4, <1>5, <1>6, OthersEarned DEF EntryInv

LEMMA AckInv == ASSUME EntryInv, NEW c \in Consumers, Ack(c) PROVE EntryInv'
  <1>1. /\ step' = [step EXCEPT ![c] = "fetch"]
        /\ position' = [position EXCEPT ![c] = @ + 1]
        /\ committed' = [committed EXCEPT ![c] = position[c] + 1]
        /\ UNCHANGED <<log, made, crashes, failures, readErrors>>
        /\ step[c] = "ack"
    BY DEF Ack, Skip, Goto, faults
  <1>2. EntryTypeOK'
    <2>1. position[c] < Len(log[c])
      BY <1>1 DEF EntryInv, EntryTypeOK
    <2>2. ASSUME NEW d \in Consumers
          PROVE  /\ position'[d] \in Nat /\ committed'[d] \in Nat
                 /\ committed'[d] <= position'[d]
                 /\ position'[d] <= Len(log'[d])
                 /\ step'[d] # "fetch" => position'[d] < Len(log'[d])
      <3>1. log[d] \in Seq(Journeys) /\ Len(log[d]) \in Nat /\ position[d] \in Nat
            /\ committed[d] \in Nat
        BY DEF EntryInv, EntryTypeOK
      <3>2. CASE d = c
        <4>1. position'[d] = position[d] + 1 /\ committed'[d] = position[d] + 1
              /\ step'[d] = "fetch" /\ log' = log
          BY <1>1, <3>2 DEF EntryInv, EntryTypeOK
        <4> QED BY <2>1, <3>1, <3>2, <4>1
      <3>3. CASE d # c
        BY <1>1, <3>1, <3>3 DEF EntryInv, EntryTypeOK
      <3> QED BY <3>2, <3>3
    <2> QED BY <1>1, <2>2 DEF EntryInv, EntryTypeOK
  <1>3. MadeGrows
    BY <1>1 DEF EntryInv, EntryTypeOK, MadeGrows
  <1>4. step'[c] # "ack"
    BY <1>1 DEF EntryInv, EntryTypeOK
  <1>5. \A d \in Consumers \ {c} : step'[d] = step[d] /\ position'[d] = position[d]
    BY <1>1 DEF EntryInv, EntryTypeOK
  <1> QED BY <1>1, <1>2, <1>3, <1>4, <1>5, OthersEarned DEF EntryInv

LEMMA CrashInv == ASSUME EntryInv, NEW c \in Consumers, Crash(c) PROVE EntryInv'
  <1>1. /\ step' = [step EXCEPT ![c] = "fetch"]
        /\ position' = [position EXCEPT ![c] = committed[c]]
        /\ crashes < MaxCrashes /\ crashes' = crashes + 1
        /\ UNCHANGED <<log, committed, made, failures, readErrors>>
    BY DEF Crash, Goto
  <1>2. EntryTypeOK'
    <2>1. crashes' \in 0..MaxCrashes
      BY <1>1, EntryAssumption DEF EntryInv, EntryTypeOK
    <2>2. ASSUME NEW d \in Consumers
          PROVE  /\ position'[d] \in Nat
                 /\ committed'[d] <= position'[d]
                 /\ position'[d] <= Len(log'[d])
                 /\ step'[d] # "fetch" => position'[d] < Len(log'[d])
      <3>1. log[d] \in Seq(Journeys) /\ Len(log[d]) \in Nat /\ position[d] \in Nat
            /\ committed[d] \in Nat
        BY DEF EntryInv, EntryTypeOK
      <3>2. CASE d = c
        BY <1>1, <3>1, <3>2 DEF EntryInv, EntryTypeOK
      <3>3. CASE d # c
        BY <1>1, <3>1, <3>3 DEF EntryInv, EntryTypeOK
      <3> QED BY <3>2, <3>3
    <2> QED BY <1>1, <2>1, <2>2 DEF EntryInv, EntryTypeOK
  <1>3. MadeGrows
    BY <1>1 DEF EntryInv, EntryTypeOK, MadeGrows
  <1>4. step'[c] # "ack"
    BY <1>1 DEF EntryInv, EntryTypeOK
  <1>5. \A d \in Consumers \ {c} : step'[d] = step[d] /\ position'[d] = position[d]
    BY <1>1 DEF EntryInv, EntryTypeOK
  <1> QED BY <1>1, <1>2, <1>3, <1>4, <1>5, OthersEarned DEF EntryInv

LEMMA EntryNextInv == EntryInv /\ [EntryNext]_entryVars => EntryInv'
  <1> SUFFICES ASSUME EntryInv, [EntryNext]_entryVars PROVE EntryInv'
    OBVIOUS
  <1>1. CASE UNCHANGED entryVars
    BY <1>1 DEF EntryInv, EntryTypeOK, AcksAreEarned, Current, entryVars, faults
  <1>2. ASSUME NEW c \in Consumers, NEW j \in Journeys, Produce(c, j) PROVE EntryInv'
    BY <1>2, ProduceInv
  <1>3. ASSUME NEW c \in Consumers,
               Fetch(c) \/ CallGetLatest(c) \/ GetLatestFails(c)
               \/ CallRecommend(c) \/ RecommendFails(c) \/ Ack(c) \/ Crash(c)
        PROVE  EntryInv'
    BY <1>3, FetchInv, GetLatestInv, GetLatestFailsInv, RecommendInv, RecommendFailsInv,
       AckInv, CrashInv
  <1> QED BY <1>1, <1>2, <1>3 DEF EntryNext

-----------------------------------------------------------------------------
(* Messages passed over.                                                    *)

(* The valid messages the reader is past whose journeys have nothing.       *)
Passed(c) == {i \in 1..position[c] : log[c][i] \notin Bad /\ made[log[c][i]] = 0}

FailuresPay == \A c \in Consumers : Cardinality(Passed(c)) <= failures

LEMMA PassedFinite ==
    ASSUME EntryTypeOK, NEW c \in Consumers
    PROVE  IsFiniteSet(Passed(c)) /\ Cardinality(Passed(c)) \in Nat
  <1>1. position[c] \in Nat
    BY DEF EntryTypeOK
  <1>2. IsFiniteSet(1..position[c])
    BY <1>1, FS_Interval
  <1>3. Passed(c) \subseteq 1..position[c]
    BY DEF Passed
  <1> QED BY <1>2, <1>3, FS_Subset, FS_CardinalityType

LEMMA PassedFiniteNext ==
    ASSUME EntryTypeOK', NEW c \in Consumers
    PROVE  IsFiniteSet(Passed(c)') /\ Cardinality(Passed(c)') \in Nat
  <1>1. position'[c] \in Nat
    BY DEF EntryTypeOK
  <1>2. IsFiniteSet(1..position'[c])
    BY <1>1, FS_Interval
  <1>3. Passed(c)' \subseteq 1..position'[c]
    BY DEF Passed
  <1> QED BY <1>2, <1>3, FS_Subset, FS_CardinalityType

(* The set shrinks when the reader does not pass a message unearned.        *)
LEMMA NonePassed ==
    ASSUME EntryInv, EntryInv', MadeGrows, UNCHANGED log, NEW c \in Consumers,
           \A i \in 1..position'[c] :
              i \in 1..position[c] \/ log[c][i] \in Bad \/ made'[log[c][i]] # 0
    PROVE  Cardinality(Passed(c)') <= Cardinality(Passed(c))
  <1>1. log[c] \in Seq(Journeys) /\ position[c] \in Nat /\ position'[c] \in Nat
        /\ position'[c] <= Len(log[c])
    BY DEF EntryInv, EntryTypeOK
  <1>2. \A i \in 1..position'[c] : log[c][i] \in Journeys
    BY <1>1
  <1>3. \A j \in Journeys : made'[j] = 0 => made[j] = 0
    BY DEF EntryInv, EntryTypeOK, MadeGrows
  <1>4. Passed(c)' \subseteq Passed(c)
    BY <1>2, <1>3 DEF Passed
  <1> QED BY <1>4, PassedFinite, FS_Subset DEF EntryInv

(* A failure of Recommend passes the message in hand, at most.              *)
LEMMA OnePassed ==
    ASSUME EntryInv, NEW c \in Consumers, RecommendFails(c)
    PROVE  /\ Cardinality(Passed(c)') <= Cardinality(Passed(c)) + 1
           /\ \A d \in Consumers \ {c} : Cardinality(Passed(d)') <= Cardinality(Passed(d))
  <1>1. EntryInv' /\ MadeGrows /\ UNCHANGED log
    BY RecommendFailsInv DEF RecommendFails
  <1>2. position' = [position EXCEPT ![c] = @ + 1]
    BY DEF RecommendFails, Skip
  <1>3. ASSUME NEW d \in Consumers \ {c} PROVE Cardinality(Passed(d)') <= Cardinality(Passed(d))
    BY <1>1, <1>2, NonePassed DEF EntryInv, EntryTypeOK
  <1>4. Passed(c)' \subseteq Passed(c) \cup {position[c] + 1}
    <2>1. log[c] \in Seq(Journeys) /\ position[c] \in Nat /\ position'[c] = position[c] + 1
          /\ position'[c] <= Len(log[c])
      BY <1>1, <1>2 DEF EntryInv, EntryTypeOK
    <2>2. \A i \in 1..position'[c] : log[c][i] \in Journeys
      BY <2>1
    <2>3. \A j \in Journeys : made'[j] = 0 => made[j] = 0
      BY <1>1 DEF EntryInv, EntryTypeOK, MadeGrows
    <2>4. \A i \in 1..position'[c] : i \in 1..position[c] \/ i = position[c] + 1
      BY <2>1
    <2> QED BY <1>1, <2>2, <2>3, <2>4 DEF Passed
  <1>5. /\ IsFiniteSet(Passed(c) \cup {position[c] + 1})
        /\ Cardinality(Passed(c) \cup {position[c] + 1}) <= Cardinality(Passed(c)) + 1
    <2>1. IsFiniteSet(Passed(c)) /\ Cardinality(Passed(c)) \in Nat
      BY PassedFinite DEF EntryInv
    <2>2. CASE position[c] + 1 \in Passed(c)
      <3>1. Passed(c) \cup {position[c] + 1} = Passed(c)
        BY <2>2
      <3>2. Cardinality(Passed(c)) <= Cardinality(Passed(c)) + 1
        BY <2>1
      <3> QED BY <2>1, <3>1, <3>2, Zenon
    <2>3. CASE position[c] + 1 \notin Passed(c)
      BY <2>1, <2>3, FS_AddElement
    <2> QED BY <2>2, <2>3
  <1>6. /\ Cardinality(Passed(c)') <= Cardinality(Passed(c) \cup {position[c] + 1})
        /\ Cardinality(Passed(c) \cup {position[c] + 1}) \in Nat
        /\ Cardinality(Passed(c)') \in Nat
    BY <1>1, <1>4, <1>5, FS_Subset, FS_CardinalityType
  <1> QED BY <1>3, <1>5, <1>6, PassedFinite DEF EntryInv

LEMMA FailuresPayNext ==
    EntryInv /\ EntryInv' /\ FailuresPay /\ [EntryNext]_entryVars => FailuresPay'
  <1> SUFFICES ASSUME EntryInv, EntryInv', FailuresPay, [EntryNext]_entryVars
               PROVE  FailuresPay'
    OBVIOUS
  <1>0. /\ failures \in Nat
        /\ \A c \in Consumers : /\ Cardinality(Passed(c)) \in Nat
                                /\ Cardinality(Passed(c)') \in Nat
                                /\ Cardinality(Passed(c)) <= failures
    <2>1. failures \in Nat
      BY DEF EntryInv, EntryTypeOK
    <2>2. EntryTypeOK /\ EntryTypeOK'
      BY DEF EntryInv
    <2> QED BY <2>1, <2>2, PassedFinite, PassedFiniteNext DEF FailuresPay
  <1>1. CASE UNCHANGED entryVars
    BY <1>1 DEF FailuresPay, Passed, entryVars, faults
  <1>2. ASSUME NEW c \in Consumers, NEW j \in Journeys, Produce(c, j) PROVE FailuresPay'
    <2>1. UNCHANGED <<position, made, failures>>
      BY <1>2 DEF Produce, faults
    <2>2. ASSUME NEW d \in Consumers PROVE Passed(d)' = Passed(d)
      <3>1. \A i \in 1..Len(log[d]) : log'[d][i] = log[d][i]
        BY <1>2, ProduceKeeps DEF EntryInv
      <3>2. position[d] \in Nat /\ Len(log[d]) \in Nat /\ position[d] <= Len(log[d])
        BY DEF EntryInv, EntryTypeOK
      <3>3. \A i \in 1..position[d] : log'[d][i] = log[d][i]
        BY <3>1, <3>2
      <3> QED BY <2>1, <3>3 DEF Passed
    <2> QED BY <2>1, <2>2 DEF FailuresPay
  <1>3. ASSUME NEW c \in Consumers, Fetch(c) \/ CallGetLatest(c) \/ GetLatestFails(c)
        PROVE  FailuresPay'
    <2>1. UNCHANGED <<log, position, made, failures>>
      BY <1>3 DEF Fetch, CallGetLatest, GetLatestFails, faults
    <2> QED BY <2>1 DEF FailuresPay, Passed
  <1>4. ASSUME NEW c \in Consumers, CallRecommend(c) PROVE FailuresPay'
    <2>1. UNCHANGED <<log, position, failures>> /\ MadeGrows
      BY <1>4, RecommendInv DEF CallRecommend, faults
    <2>2. \A d \in Consumers : Cardinality(Passed(d)') <= Cardinality(Passed(d))
      BY <2>1, NonePassed
    <2> QED BY <1>0, <2>1, <2>2 DEF FailuresPay
  <1>5. ASSUME NEW c \in Consumers, RecommendFails(c) PROVE FailuresPay'
    <2>1. failures' = failures + 1
      BY <1>5 DEF RecommendFails
    <2>2. \A d \in Consumers : Cardinality(Passed(d)') <= Cardinality(Passed(d)) + 1
      BY <1>0, <1>5, OnePassed
    <2> QED BY <1>0, <2>1, <2>2 DEF FailuresPay
  <1>6. ASSUME NEW c \in Consumers, Ack(c) PROVE FailuresPay'
    <2>1. /\ UNCHANGED <<log, made, failures>> /\ step[c] = "ack"
          /\ position' = [position EXCEPT ![c] = @ + 1]
      BY <1>6 DEF Ack, Skip, faults
    <2>2. MadeGrows
      BY <2>1 DEF EntryInv, EntryTypeOK, MadeGrows
    <2>3. Current(c) \in Bad \/ made'[Current(c)] # 0
      BY <2>1 DEF EntryInv, AcksAreEarned
    <2>4. ASSUME NEW d \in Consumers PROVE Cardinality(Passed(d)') <= Cardinality(Passed(d))
      <3>1. CASE d # c
        BY <2>1, <2>2, <3>1, NonePassed DEF EntryInv, EntryTypeOK
      <3>2. CASE d = c
        <4>1. position[c] \in Nat /\ position'[c] = position[c] + 1
          BY <2>1 DEF EntryInv, EntryTypeOK
        <4>2. \A i \in 1..position'[c] : i \in 1..position[c] \/ i = position[c] + 1
          BY <4>1
        <4> QED BY <2>1, <2>2, <2>3, <3>2, <4>2, NonePassed DEF Current
      <3> QED BY <3>1, <3>2
    <2> QED BY <1>0, <2>1, <2>4 DEF FailuresPay
  <1>7. ASSUME NEW c \in Consumers, Crash(c) PROVE FailuresPay'
    <2>1. /\ UNCHANGED <<log, made, failures>>
          /\ position' = [position EXCEPT ![c] = committed[c]]
      BY <1>7 DEF Crash
    <2>2. MadeGrows
      BY <2>1 DEF EntryInv, EntryTypeOK, MadeGrows
    <2>3. ASSUME NEW d \in Consumers PROVE position'[d] <= position[d] /\ position'[d] \in Nat
      BY <2>1 DEF EntryInv, EntryTypeOK
    <2>4. \A d \in Consumers : \A i \in 1..position'[d] : i \in 1..position[d]
      BY <2>3 DEF EntryInv, EntryTypeOK
    <2>5. \A d \in Consumers : Cardinality(Passed(d)') <= Cardinality(Passed(d))
      BY <2>1, <2>2, <2>4, NonePassed
    <2> QED BY <1>0, <2>1, <2>5 DEF FailuresPay
  <1> QED BY <1>1, <1>2, <1>3, <1>4, <1>5, <1>6, <1>7 DEF EntryNext

LEMMA FailuresPayEnough == EntryInv /\ FailuresPay => SkipsNeedFailures
  <1> SUFFICES ASSUME EntryInv, FailuresPay, NEW c \in Consumers
               PROVE  Cardinality(Skipped(c)) <= failures
    BY DEF SkipsNeedFailures, EntryInv
  <1>1. committed[c] \in Nat /\ position[c] \in Nat /\ committed[c] <= position[c]
        /\ failures \in Nat
    BY DEF EntryInv, EntryTypeOK
  <1>2. \A i \in 1..committed[c] : i \in 1..position[c]
    BY <1>1
  <1>3. Skipped(c) \subseteq Passed(c)
    BY <1>2 DEF Skipped, Passed
  <1>4. IsFiniteSet(Skipped(c)) /\ Cardinality(Skipped(c)) <= Cardinality(Passed(c))
    BY <1>3, PassedFinite, FS_Subset DEF EntryInv
  <1>5. Cardinality(Skipped(c)) \in Nat /\ Cardinality(Passed(c)) \in Nat
    BY <1>4, PassedFinite, FS_CardinalityType DEF EntryInv
  <1> QED BY <1>1, <1>4, <1>5 DEF FailuresPay

(* Below a committed offset no more valid messages are without their        *)
(* recommendation than Recommend has failed: Kafka's replays, restarts and  *)
(* undecodable neighbours skip none (RunEntryConsumer, whose loop continues *)
(* after a failed Recommend).                                               *)
THEOREM OnlyFailuresSkip == EntrySpec => []SkipsNeedFailures
  <1>1. EntryInit => EntryInv /\ FailuresPay
    <2> SUFFICES ASSUME EntryInit PROVE EntryInv /\ FailuresPay
      OBVIOUS
    <2>1. EntryInv
      BY EntryInitInv
    <2>2. \A c \in Consumers : Passed(c) = {}
      BY DEF EntryInit, Passed
    <2>3. failures = 0 /\ Cardinality({}) = 0
      BY FS_EmptySet DEF EntryInit
    <2> QED BY <2>1, <2>2, <2>3 DEF FailuresPay
  <1>2. EntryInv /\ FailuresPay /\ [EntryNext]_entryVars => EntryInv' /\ FailuresPay'
    BY EntryNextInv, FailuresPayNext
  <1> QED BY <1>1, <1>2, FailuresPayEnough, PTL DEF EntrySpec

-----------------------------------------------------------------------------
(* Recommendations made twice.                                              *)

(* The consumers that have looked for a recommendation of j, or failed to,  *)
(* and are about to store one.                                              *)
InFlight(j) == {c \in Consumers : step[c] = "recommend" /\ Current(c) = j}

LooksPay ==
    \A j \in Journeys :
        made[j] + Cardinality(InFlight(j)) <= Cardinality(Consumers) + readErrors

LEMMA InFlightFinite ==
    ASSUME NEW j
    PROVE  /\ IsFiniteSet(InFlight(j)) /\ IsFiniteSet(InFlight(j)')
           /\ Cardinality(InFlight(j)) \in Nat /\ Cardinality(InFlight(j)') \in Nat
           /\ Cardinality(Consumers) \in Nat
           /\ Cardinality(InFlight(j)) <= Cardinality(Consumers)
           /\ Cardinality(InFlight(j)') <= Cardinality(Consumers)
  <1>1. InFlight(j) \subseteq Consumers /\ InFlight(j)' \subseteq Consumers
    BY DEF InFlight
  <1>2. IsFiniteSet(Consumers)
    BY EntryAssumption
  <1>3. /\ IsFiniteSet(InFlight(j)) /\ Cardinality(InFlight(j)) <= Cardinality(Consumers)
        /\ IsFiniteSet(InFlight(j)') /\ Cardinality(InFlight(j)') <= Cardinality(Consumers)
    BY <1>1, <1>2, FS_Subset
  <1> QED BY <1>2, <1>3, FS_CardinalityType

(* A step that sends nobody to Recommend and stores nothing.                *)
LEMMA NobodyLooks ==
    ASSUME EntryInv, LooksPay, UNCHANGED <<made, readErrors>>,
           \A j \in Journeys : InFlight(j)' \subseteq InFlight(j)
    PROVE  LooksPay'
  <1>1. ASSUME NEW j \in Journeys
        PROVE  made'[j] + Cardinality(InFlight(j)') <= Cardinality(Consumers) + readErrors'
    <2>1. Cardinality(InFlight(j)') <= Cardinality(InFlight(j))
      BY InFlightFinite, FS_Subset
    <2>2. made[j] \in Nat /\ readErrors \in Nat
      BY DEF EntryInv, EntryTypeOK
    <2> QED BY <2>1, <2>2, InFlightFinite DEF LooksPay
  <1> QED BY <1>1 DEF LooksPay

(* Storing one more takes the consumer out of the set.                      *)
LEMMA StoreIsCounted ==
    ASSUME EntryInv, LooksPay, NEW c \in Consumers, step[c] = "recommend",
           made' \in {made, [made EXCEPT ![Current(c)] = @ + 1]},
           UNCHANGED <<log, readErrors>>,
           \A d \in Consumers \ {c} : step'[d] = step[d] /\ position'[d] = position[d],
           step'[c] # "recommend"
    PROVE  LooksPay'
  <1> SUFFICES ASSUME NEW j \in Journeys
               PROVE  made'[j] + Cardinality(InFlight(j)') <= Cardinality(Consumers) + readErrors'
    BY DEF LooksPay
  <1>1. made[j] \in Nat /\ readErrors \in Nat /\ Current(c) \in Journeys
    BY InHand DEF EntryInv, EntryTypeOK
  <1>2. InFlight(j)' = InFlight(j) \ {c}
    BY DEF InFlight, Current
  <1>3. CASE j = Current(c)
    <2>1. c \in InFlight(j)
      BY <1>3 DEF InFlight
    <2>2. Cardinality(InFlight(j)') = Cardinality(InFlight(j)) - 1
      BY <1>2, <2>1, InFlightFinite, FS_RemoveElement
    <2>3. made'[j] = made[j] \/ made'[j] = made[j] + 1
      BY <1>1, <1>3 DEF EntryInv, EntryTypeOK
    <2> QED BY <1>1, <2>2, <2>3, InFlightFinite DEF LooksPay
  <1>4. CASE j # Current(c)
    <2>1. made'[j] = made[j]
      BY <1>1, <1>4 DEF EntryInv, EntryTypeOK
    <2>2. InFlight(j)' \subseteq InFlight(j)
      BY <1>2
    <2>3. Cardinality(InFlight(j)') <= Cardinality(InFlight(j))
      BY <2>2, InFlightFinite, FS_Subset
    <2> QED BY <1>1, <2>1, <2>3, InFlightFinite DEF LooksPay
  <1> QED BY <1>3, <1>4

LEMMA LooksPayNext == EntryInv /\ LooksPay /\ [EntryNext]_entryVars => LooksPay'
  <1> SUFFICES ASSUME EntryInv, LooksPay, [EntryNext]_entryVars PROVE LooksPay'
    OBVIOUS
  <1>1. CASE UNCHANGED entryVars
    BY <1>1 DEF LooksPay, InFlight, Current, entryVars, faults
  <1>2. ASSUME NEW c \in Consumers, NEW j \in Journeys, Produce(c, j) PROVE LooksPay'
    <2>1. UNCHANGED <<made, step, readErrors>>
      BY <1>2 DEF Produce, faults
    <2>2. \A d \in Consumers : step[d] # "fetch" => Current(d)' = Current(d)
      BY <1>2, ProduceInv
    <2>3. \A i \in Journeys : InFlight(i)' \subseteq InFlight(i)
      BY <2>1, <2>2 DEF InFlight
    <2> QED BY <2>1, <2>3, NobodyLooks
  <1>3. ASSUME NEW c \in Consumers, Fetch(c) PROVE LooksPay'
    <2>1. /\ UNCHANGED <<log, position, made, readErrors>>
          /\ step' = [step EXCEPT ![c] = IF Current(c) \in Bad THEN "ack" ELSE "latest"]
      BY <1>3 DEF Fetch, Goto, faults
    <2>2. \A j \in Journeys : InFlight(j)' \subseteq InFlight(j)
      BY <2>1 DEF InFlight, Current, EntryInv, EntryTypeOK
    <2> QED BY <2>1, <2>2, NobodyLooks
  <1>4. ASSUME NEW c \in Consumers, CallGetLatest(c) PROVE LooksPay'
    <2>1. /\ UNCHANGED <<log, position, made, readErrors>>
          /\ step' = [step EXCEPT ![c] = IF made[Current(c)] > 0 THEN "ack" ELSE "recommend"]
      BY <1>4 DEF CallGetLatest, Goto, faults
    <2>2. CASE made[Current(c)] > 0
      <3>1. \A j \in Journeys : InFlight(j)' \subseteq InFlight(j)
        BY <2>1, <2>2 DEF InFlight, Current, EntryInv, EntryTypeOK
      <3> QED BY <2>1, <3>1, NobodyLooks
    <2>3. CASE ~(made[Current(c)] > 0)
      <3> SUFFICES ASSUME NEW j \in Journeys
                   PROVE  made[j] + Cardinality(InFlight(j)') <= Cardinality(Consumers) + readErrors
        BY <2>1 DEF LooksPay
      <3>1. made[j] \in Nat /\ readErrors \in Nat
        BY DEF EntryInv, EntryTypeOK
      <3>2. CASE j = Current(c)
        <4>1. made[j] = 0
          BY <2>3, <3>1, <3>2
        <4> QED BY <3>1, <4>1, InFlightFinite
      <3>3. CASE j # Current(c)
        <4>1. InFlight(j)' \subseteq InFlight(j)
          BY <2>1, <3>3 DEF InFlight, Current, EntryInv, EntryTypeOK
        <4>2. Cardinality(InFlight(j)') <= Cardinality(InFlight(j))
          BY <4>1, InFlightFinite, FS_Subset
        <4> QED BY <3>1, <4>2, InFlightFinite DEF LooksPay
      <3> QED BY <3>2, <3>3
    <2> QED BY <2>2, <2>3
  <1>5. ASSUME NEW c \in Consumers, GetLatestFails(c) PROVE LooksPay'
    <2>1. /\ UNCHANGED <<log, position, made>> /\ readErrors' = readErrors + 1
          /\ step' = [step EXCEPT ![c] = "recommend"] /\ step[c] = "latest"
      BY <1>5 DEF GetLatestFails, Goto
    <2> SUFFICES ASSUME NEW j \in Journeys
                 PROVE  made[j] + Cardinality(InFlight(j)')
                        <= Cardinality(Consumers) + (readErrors + 1)
      BY <2>1 DEF LooksPay
    <2>2. made[j] \in Nat /\ readErrors \in Nat
      BY DEF EntryInv, EntryTypeOK
    <2>3. InFlight(j)' \subseteq InFlight(j) \cup {c} /\ c \notin InFlight(j)
      BY <2>1 DEF InFlight, Current, EntryInv, EntryTypeOK
    <2>4. /\ IsFiniteSet(InFlight(j) \cup {c})
          /\ Cardinality(InFlight(j) \cup {c}) = Cardinality(InFlight(j)) + 1
      BY <2>3, InFlightFinite, FS_AddElement
    <2>5. Cardinality(InFlight(j)') <= Cardinality(InFlight(j)) + 1
      BY <2>3, <2>4, FS_Subset
    <2> QED BY <2>2, <2>5, InFlightFinite DEF LooksPay
  <1>6. ASSUME NEW c \in Consumers, CallRecommend(c) PROVE LooksPay'
    <2>1. /\ UNCHANGED <<log, position, readErrors>> /\ step[c] = "recommend"
          /\ step' = [step EXCEPT ![c] = "ack"]
          /\ made' = [made EXCEPT ![Current(c)] = @ + 1]
      BY <1>6 DEF CallRecommend, Goto, faults
    <2>2. step'[c] # "recommend" /\ \A d \in Consumers \ {c} : step'[d] = step[d]
      BY <2>1 DEF EntryInv, EntryTypeOK
    <2> QED BY <2>1, <2>2, StoreIsCounted
  <1>7. ASSUME NEW c \in Consumers, RecommendFails(c) PROVE LooksPay'
    <2>1. /\ UNCHANGED <<log, readErrors>> /\ step[c] = "recommend"
          /\ step' = [step EXCEPT ![c] = "fetch"]
          /\ position' = [position EXCEPT ![c] = @ + 1]
          /\ made' \in {made, [made EXCEPT ![Current(c)] = @ + 1]}
      BY <1>7 DEF RecommendFails, Skip, Goto
    <2>2. /\ step'[c] # "recommend"
          /\ \A d \in Consumers \ {c} : step'[d] = step[d] /\ position'[d] = position[d]
      BY <2>1 DEF EntryInv, EntryTypeOK
    <2> QED BY <2>1, <2>2, StoreIsCounted
  <1>8. ASSUME NEW c \in Consumers, Ack(c) \/ Crash(c) PROVE LooksPay'
    <2>1. /\ UNCHANGED <<log, made, readErrors>>
          /\ step' = [step EXCEPT ![c] = "fetch"]
          /\ \/ position' = [position EXCEPT ![c] = @ + 1]
             \/ position' = [position EXCEPT ![c] = committed[c]]
      BY <1>8 DEF Ack, Crash, Skip, Goto, faults
    <2>2. /\ step'[c] # "recommend"
          /\ \A d \in Consumers \ {c} : step'[d] = step[d] /\ position'[d] = position[d]
      BY <2>1 DEF EntryInv, EntryTypeOK
    <2>3. \A j \in Journeys : InFlight(j)' \subseteq InFlight(j)
      BY <2>1, <2>2 DEF InFlight, Current
    <2> QED BY <2>1, <2>3, NobodyLooks
  <1> QED BY <1>1, <1>2, <1>3, <1>4, <1>5, <1>6, <1>7, <1>8 DEF EntryNext

(* A journey gets at most one recommendation for each consumer of the group *)
(* and one for each failed read of GetLatest, however often its entry event *)
(* is written or replayed (RunEntryConsumer looks before it recommends and  *)
(* claims nothing).                                                         *)
THEOREM FewRecommendations == EntrySpec => []RepeatsBounded
  <1>1. EntryInit => EntryInv /\ LooksPay
    <2> SUFFICES ASSUME EntryInit PROVE EntryInv /\ LooksPay
      OBVIOUS
    <2>1. EntryInv
      BY EntryInitInv
    <2>2. \A j \in Journeys : InFlight(j) = {} /\ made[j] = 0
      BY DEF EntryInit, InFlight
    <2>3. readErrors = 0 /\ Cardinality({}) = 0
      BY FS_EmptySet DEF EntryInit
    <2>4. Cardinality(Consumers) \in Nat
      BY EntryAssumption, FS_CardinalityType
    <2>5. \A j \in Journeys : Cardinality(InFlight(j)) = 0
      BY <2>2, <2>3
    <2>6. \A j \in Journeys :
             made[j] + Cardinality(InFlight(j)) <= Cardinality(Consumers) + readErrors
      BY <2>2, <2>3, <2>4, <2>5
    <2> QED BY <2>1, <2>6 DEF LooksPay
  <1>2. EntryInv /\ LooksPay /\ [EntryNext]_entryVars => EntryInv' /\ LooksPay'
    BY EntryNextInv, LooksPayNext
  <1>3. EntryInv /\ LooksPay => RepeatsBounded
    <2> SUFFICES ASSUME EntryInv, LooksPay, NEW j \in Journeys
                 PROVE  made[j] <= Cardinality(Consumers) + readErrors
      BY DEF RepeatsBounded
    <2>1. made[j] \in Nat /\ readErrors \in Nat
      BY DEF EntryInv, EntryTypeOK
    <2> QED BY <2>1, InFlightFinite DEF LooksPay
  <1> QED BY <1>1, <1>2, <1>3, PTL DEF EntrySpec
=============================================================================

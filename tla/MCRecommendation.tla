--------------------------- MODULE MCRecommendation ---------------------------
(* A small instance of Recommendation: two offers, each with one of nine      *)
(* rows, one of them free, that cover every rule and every rejection alone,   *)
(* two preferences, and every answer of Search with two vector scores.        *)
EXTENDS Recommendation

CONSTANTS c1, c2, c3

Plain(n) == [len |-> n, at |-> 0, number |-> NoNumber]
With(n, at, number) == [len |-> n, at |-> at, number |-> number]

MCRow == [here |-> TRUE, active |-> TRUE, quantity |-> 6, cost |-> 2, category |-> c1,
          title |-> With(10, 4, 25), description |-> Plain(30)]

MCOfferRows ==
    { MCRow,
      [MCRow EXCEPT !.quantity = 5, !.cost = 0, !.category = c3, !.description = With(90, 78, 365)],
      [MCRow EXCEPT !.cost = 3, !.category = None, !.description = With(90, 80, 365)],
      [MCRow EXCEPT !.quantity = 1, !.title = Plain(0)],
      [MCRow EXCEPT !.quantity = 0],
      [MCRow EXCEPT !.active = FALSE],
      [MCRow EXCEPT !.cost = 4],
      [MCRow EXCEPT !.category = c2, !.title = With(50, 40, 25)],
      [MCRow EXCEPT !.here = FALSE] }

MCPreferences ==
    { [near |-> TRUE, min |-> 0, max |-> 2, categories |-> {c1},
       weights |-> [c \in Categories |-> 0]],
      [near |-> FALSE, min |-> 3, max |-> 9, categories |-> {},
       weights |-> [c \in Categories |-> IF c = c1 THEN -3 ELSE IF c = c2 THEN 2 ELSE 5]] }

(* c3 is c2 in capitals.                                                      *)
MCLower == [c \in Categories |-> IF c = c1 THEN c1 ELSE c2]

MCStation == Plain(8)
===============================================================================

------------------------------ MODULE MCFeedback ------------------------------
(* A small instance of Feedback: one recommendation with two eligible         *)
(* candidates.  The category of the first has a weight near its bound, left   *)
(* by a click and two redemptions of earlier journeys; that of the second has *)
(* no row yet.                                                                *)
EXTENDS Feedback, TLC

CONSTANTS r1, o1, o2, c1, c2

MCCategory == (o1 :> c1) @@ (o2 :> c2)
MCCandidates == r1 :> << [offer |-> o1, eligible |-> TRUE, titled |-> TRUE],
                         [offer |-> o2, eligible |-> TRUE, titled |-> TRUE] >>
MCEarlier == (c1 :> [weight |-> 14,
                     counts |-> [clicked |-> 1, dismissed |-> 0, redeemed |-> 2]])
             @@ (c2 :> None)
===============================================================================

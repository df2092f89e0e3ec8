----------------------------- MODULE MCRedemption -----------------------------
(* Small instances of Redemption for TLC: few riders, journeys and offers,    *)
(* with stock and points that run out.                                       *)
EXTENDS Redemption, TLC

CONSTANTS u1, u2, j1, j2, o1, o2, c1

(* One rider with two journeys, and points for either offer but not both.    *)
OneRider == (j1 :> u1) @@ (j2 :> u1)
(* Two riders, each with a journey, and points for both offers.              *)
TwoRiders == (j1 :> u1) @@ (j2 :> u2)

MCCost == (o1 :> 2) @@ (o2 :> 3)
MCCategory == (o1 :> c1) @@ (o2 :> c1)
OneEach == (o1 :> 1) @@ (o2 :> 1)

(* A single offer with a single unit, for the liveness run.                  *)
OneCost == o1 :> 2
OneCategory == o1 :> c1
OneUnit == o1 :> 1

MCSymmetry == Permutations(Procs) \cup Permutations(Rids) \cup Permutations(Keys)
=============================================================================

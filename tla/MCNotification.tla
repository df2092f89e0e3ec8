---------------------------- MODULE MCNotification ----------------------------
(* A small instance of Notification: two workers, an event that may be       *)
(* duplicated within and across partitions, one undecodable event.  One      *)
(* device is enough: a worker's turns for different devices touch disjoint   *)
(* parts of the state, and end together.                                     *)
EXTENDS Notification, TLC

CONSTANTS s1

MCCreatedAt == s1 :> 1
===============================================================================

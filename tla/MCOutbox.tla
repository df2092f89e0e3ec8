------------------------------- MODULE MCOutbox -------------------------------
(* The smallest instance in which order can be lost: two events of one      *)
(* rider, two publishers, nothing fails.                                    *)
EXTENDS Outbox, TLC

CONSTANTS e1, e2, k1

MCKeyOf == (e1 :> k1) @@ (e2 :> k1)
=============================================================================

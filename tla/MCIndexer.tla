------------------------------ MODULE MCIndexer ------------------------------
(* Two offers, two changes, a rejected event, a repeated one, two faults.   *)
EXTENDS Indexer
=============================================================================

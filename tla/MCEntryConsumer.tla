--------------------------- MODULE MCEntryConsumer ---------------------------
(* Small instances of EntryConsumer: two journeys whose events may be        *)
(* repeated, and one undecodable event.                                      *)
EXTENDS EntryConsumer, TLC

CONSTANTS j1, j2, bad

MCSymmetry == Permutations({j1, j2}) \cup Permutations(Consumers)
=============================================================================

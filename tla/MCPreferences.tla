---------------------------- MODULE MCPreferences ----------------------------
(* Two calls of Get at a time, one saved value, windows within a day,      *)
(* across midnight, of no length and missing, and every kind of refusal.    *)
EXTENDS Preferences

CONSTANTS v1

Sound == [value |-> v1, budget |-> "range", timezone |-> "known", lists |-> "named",
          enabled |-> TRUE, start |-> 3, end |-> 1]

MCRequests ==
    {Sound,
     [Sound EXCEPT !.start = 1, !.end = 3],
     [Sound EXCEPT !.start = 2, !.end = 2],
     [Sound EXCEPT !.lists = "empty"],
     [Sound EXCEPT !.start = None, !.end = None],
     [Sound EXCEPT !.start = None],
     [Sound EXCEPT !.end = Unparsable],
     [Sound EXCEPT !.budget = "reversed"],
     [Sound EXCEPT !.budget = "negative"],
     [Sound EXCEPT !.timezone = "unknown"],
     [Sound EXCEPT !.timezone = "blank"],
     [Sound EXCEPT !.lists = "long"],
     [Sound EXCEPT !.lists = "blank"]}
=============================================================================

----------------------------- MODULE Preferences -----------------------------
(***************************************************************************)
(* A rider's preferences.  The user service (internal/user/service.go)      *)
(* keeps them in the users row; PreferenceStore.Get                         *)
(* (internal/recommendation/preference.go) reads them for the ranking       *)
(* through a copy in Redis that no update invalidates; the notification     *)
(* worker reads the rest of the row, the window of internal/notification/   *)
(* service.go.                                                              *)
(*                                                                          *)
(* One rider, one row, one Redis key.  What the ranking uses of a row is a  *)
(* value; weights counts the changes of user_preference_weights (module     *)
(* Feedback), so that two readings can be compared.                         *)
(***************************************************************************)
EXTENDS Integers, FiniteSets

CONSTANTS
    Callers,     \* calls of PreferenceStore.Get running at the same time
    Values,      \* what a row may say to the ranking
    Requests,    \* UpdateUserPreferences requests
    None,
    Unparsable,  \* a notification time that is not HH:MM
    Day,         \* minutes of a day
    TTL,         \* life of the Redis copy, in ticks
    Slow,        \* bound: the ticks a Get may take
    MaxUpdates,  \* bound: updates and profile reads
    MaxWeights,  \* bound: changes of the weights
    MaxFaults    \* bound: failed statements and commands

Minutes == 0 .. Day - 1

(* DemoPreference of a rider, and the row of a rider just provisioned:      *)
(* empty lists and a budget of 0 to 0.                                      *)
Demo == "demo"
Empty == "empty"

Settings == [value : Values \cup {Empty}, timezone : {"known"}, enabled : BOOLEAN,
             start : Minutes \cup {None}, end : Minutes \cup {None}]

ASSUME PreferencesAssumption ==
    /\ Day \in Nat \ {0} /\ TTL \in Nat \ {0} /\ Slow \in Nat
    /\ MaxUpdates \in Nat /\ MaxWeights \in Nat /\ MaxFaults \in Nat
    /\ None \notin Minutes \cup Values /\ {Demo, Empty} \cap Values = {}
    /\ None \notin Settings
    /\ Requests \subseteq
          [value : Values, budget : {"range", "negative", "reversed"},
           timezone : {"known", "unknown", "blank"},
           lists : {"named", "empty", "long", "blank"}, enabled : BOOLEAN,
           start : Minutes \cup {None, Unparsable}, end : Minutes \cup {None, Unparsable}]

VARIABLES
    row,         \* the users row, None before it is provisioned
    weights,     \* changes of the rider's weights so far
    cache,       \* the Redis key: None, or a preference and its life
    pc,          \* what each Get does next
    got,         \* the preference each Get holds
    elapsed,     \* the ticks each Get has taken
    floor,       \* ghost: weights when the Get began
    held,        \* ghost: ticks since PostgreSQL last gave this value
    upc, request, updates,  \* the user service
    faults

get == <<pc, got, elapsed, floor>>
user == <<upc, request, updates>>
vars == <<row, weights, cache, get, held, user, faults>>

AllValues == Values \cup {Empty, Demo}

(* The fallback has no weights.                                             *)
Preference == [value : AllValues, weights : (0 .. MaxWeights) \cup {None}]

(* Longer ago than any answer may go back, or never.                        *)
LongAgo == TTL + 2 * Slow + 1

(* What a Get that finds no copy would answer now.                          *)
InForce == IF row = None THEN Demo ELSE row.value

Fault == faults < MaxFaults /\ faults' = faults + 1

-----------------------------------------------------------------------------
(* The notification window.                                                 *)

requiredWindow(s) == s.enabled => s.timezone # "blank" /\ s.start # None /\ s.end # None

(* Fault: a window across midnight is treated like one within a day.        *)
WithinOneDay(minutes, timezone, start, end) ==
    /\ start # None /\ end # None
    /\ start = end \/ (minutes >= start /\ minutes < end)

WithinNotificationWindow(minutes, timezone, start, end) ==
    /\ start # None /\ end # None
    /\ timezone = "known"
    /\ \/ start = end
       \/ start < end /\ minutes >= start /\ minutes < end
       \/ start > end /\ (minutes >= start \/ minutes < end)

(* What deliver asks of the settings it has loaded.                         *)
MayPush(s, minutes) ==
    /\ s.enabled
    /\ requiredWindow(s)
    /\ WithinNotificationWindow(minutes, s.timezone, s.start, s.end)

-----------------------------------------------------------------------------
(* The user service.                                                        *)

validatePreferences(r) ==
    /\ r.budget = "range"
    /\ r.timezone = "known"
    /\ r.lists \in {"named", "empty"}
    /\ (r.start = None) <=> (r.end = None)
    /\ Unparsable \notin {r.start, r.end}
    /\ r.enabled => r.start # None

(* A request arrives and is validated: GetUserProfile (None) or             *)
(* UpdateUserPreferences.                                                   *)
Receive(r) ==
    /\ upc = "idle" /\ updates < MaxUpdates
    /\ updates' = updates + 1
    /\ IF r = None \/ validatePreferences(r)
       THEN upc' = "ensure" /\ request' = r
       ELSE UNCHANGED <<upc, request>>
    /\ UNCHANGED <<row, weights, cache, get, held, faults>>

EnsureDemoUser ==
    /\ upc = "ensure"
    /\ row' = IF row # None THEN row
              ELSE [value |-> Empty, timezone |-> "known", enabled |-> FALSE,
                    start |-> None, end |-> None]
    /\ held' = [held EXCEPT ![IF row = None THEN Empty ELSE row.value] = 0]
    /\ upc' = IF request = None THEN "idle" ELSE "update"
    /\ UNCHANGED <<weights, cache, get, request, updates, faults>>

(* The UPDATE, a statement of its own.  An empty list of a request is       *)
(* marshalled to null, which the check constraints of the columns refuse.   *)
UpdateRow ==
    /\ upc = "update"
    /\ \/ /\ request.lists = "named"
          /\ row' = [f \in DOMAIN row |-> request[f]]
          /\ held' = [held EXCEPT ![request.value] = 0]
          /\ UNCHANGED faults
       \/ request.lists = "empty" /\ UNCHANGED <<row, held, faults>>
       \/ Fault /\ UNCHANGED <<row, held>>
    /\ upc' = "idle" /\ request' = None
    /\ UNCHANGED <<weights, cache, get, updates>>

(* Feedback of the rider changes a weight.                                  *)
ChangeWeights ==
    /\ weights < MaxWeights /\ row # None
    /\ weights' = weights + 1
    /\ UNCHANGED <<row, cache, get, held, user, faults>>

-----------------------------------------------------------------------------
(* PreferenceStore.Get.                                                     *)

Goto(c, step) == pc' = [pc EXCEPT ![c] = step]
Hold(c, v, w) == got' = [got EXCEPT ![c] = [value |-> v, weights |-> w]]

(* The call returns.                                                        *)
End(c) ==
    /\ Goto(c, "idle")
    /\ got' = [got EXCEPT ![c] = None]
    /\ floor' = [floor EXCEPT ![c] = 0]
    /\ elapsed' = [elapsed EXCEPT ![c] = 0]

Get(c) ==
    /\ pc[c] = "idle"
    /\ Goto(c, "redis")
    /\ floor' = [floor EXCEPT ![c] = weights]
    /\ UNCHANGED <<row, weights, cache, got, elapsed, held, user, faults>>

(* Fault: a hit renews the life of the copy.                                *)
ReadCacheRenews(c) ==
    /\ pc[c] = "redis"
    /\ \/ /\ cache # None
          /\ Hold(c, cache.value, cache.weights) /\ Goto(c, "reload")
          /\ cache' = [cache EXCEPT !.left = TTL]
       \/ cache = None /\ Goto(c, "row") /\ UNCHANGED <<got, cache>>
    /\ UNCHANGED <<row, weights, elapsed, floor, held, user, faults>>

(* A hit, a miss, or an error: "a temporary cache outage does not hide      *)
(* saved preferences".                                                      *)
ReadCache(c) ==
    /\ pc[c] = "redis"
    /\ \/ /\ cache # None
          /\ Hold(c, cache.value, cache.weights) /\ Goto(c, "reload")
          /\ UNCHANGED faults
       \/ cache = None /\ Goto(c, "row") /\ UNCHANGED <<got, faults>>
       \/ cache # None /\ Fault /\ Goto(c, "row") /\ UNCHANGED got
    /\ UNCHANGED <<row, weights, cache, elapsed, floor, held, user>>

(* The weights of a hit are read again; those of the copy stay when that    *)
(* fails, told apart by floor, which then asks nothing.                     *)
ReloadWeights(c) ==
    /\ pc[c] = "reload"
    /\ \/ Hold(c, got[c].value, weights) /\ UNCHANGED <<floor, faults>>
       \/ floor' = [floor EXCEPT ![c] = 0] /\ Fault /\ UNCHANGED got
    /\ Goto(c, "hit")
    /\ UNCHANGED <<row, weights, cache, elapsed, held, user>>

(* The row, or DemoPreference when there is none or it cannot be read.      *)
ReadRow(c) ==
    /\ pc[c] = "row"
    /\ \/ /\ row # None
          /\ Hold(c, row.value, None) /\ Goto(c, "weights")
          /\ UNCHANGED <<held, faults>>
       \/ /\ row = None
          /\ Hold(c, Demo, None) /\ Goto(c, "store")
          /\ UNCHANGED <<held, faults>>
       \/ /\ row # None /\ Fault
          /\ Hold(c, Demo, None) /\ Goto(c, "store")
          /\ held' = [held EXCEPT ![Demo] = 0]
    /\ UNCHANGED <<row, weights, cache, elapsed, floor, user>>

(* LoadPreferenceWeights; its error is the error of Get.                    *)
LoadPreferenceWeights(c) ==
    /\ pc[c] = "weights"
    /\ \/ Hold(c, got[c].value, weights) /\ Goto(c, "store") /\ UNCHANGED <<elapsed, floor, faults>>
       \/ End(c) /\ Fault
    /\ UNCHANGED <<row, weights, cache, held, user>>

(* SET with the TTL, whose error is ignored, and the answer.                *)
Store(c) ==
    /\ pc[c] = "store"
    /\ \/ /\ cache' = [value |-> got[c].value, weights |-> got[c].weights, left |-> TTL]
          /\ UNCHANGED faults
       \/ UNCHANGED cache /\ Fault
    /\ End(c)
    /\ UNCHANGED <<row, weights, held, user>>

(* A hit is returned with the weights it now has.                           *)
ReturnHit(c) ==
    /\ pc[c] = "hit"
    /\ End(c)
    /\ UNCHANGED <<row, weights, cache, held, user, faults>>

(* Time passes: the copy expires, and what is no longer in force ages.      *)
Tick ==
    /\ \A c \in Callers : pc[c] # "idle" => elapsed[c] < Slow
    /\ elapsed' = [c \in Callers |-> IF pc[c] = "idle" THEN 0 ELSE elapsed[c] + 1]
    /\ cache' = IF cache = None \/ cache.left = 1 THEN None
                ELSE [cache EXCEPT !.left = @ - 1]
    /\ held' = [v \in AllValues |-> IF v = InForce THEN 0
                                    ELSE IF held[v] = LongAgo THEN LongAgo ELSE held[v] + 1]
    /\ UNCHANGED <<row, weights, pc, got, floor, user, faults>>

-----------------------------------------------------------------------------
Init ==
    /\ row = None /\ weights = 0 /\ cache = None
    /\ pc = [c \in Callers |-> "idle"]
    /\ got = [c \in Callers |-> None]
    /\ elapsed = [c \in Callers |-> 0]
    /\ floor = [c \in Callers |-> 0]
    /\ held = [v \in AllValues |-> IF v = Demo THEN 0 ELSE LongAgo]
    /\ upc = "idle" /\ request = None /\ updates = 0
    /\ faults = 0

GetStep(c) == ReadCache(c) \/ ReloadWeights(c) \/ ReadRow(c) \/ LoadPreferenceWeights(c) \/ Store(c) \/ ReturnHit(c)

Next ==
    \/ \E r \in Requests \cup {None} : Receive(r)
    \/ EnsureDemoUser \/ UpdateRow \/ ChangeWeights \/ Tick
    \/ \E c \in Callers : Get(c) \/ GetStep(c)

Spec == Init /\ [][Next]_vars

(* Time passes, and a call that has begun goes on: every statement returns  *)
(* or fails within its context.  Nothing makes riders or callers come.      *)
FairSpec ==
    /\ Spec
    /\ WF_vars(Tick)
    /\ \A c \in Callers : WF_vars(GetStep(c))

-----------------------------------------------------------------------------
(* The stored copy has at most the life SET gives it (PreferenceStore.Get), *)
(* and every Get in progress holds what its next step needs.                *)
TypeOK ==
    /\ row \in Settings \cup {None}
    /\ weights \in 0 .. MaxWeights
    /\ cache = None \/ (cache.left \in 1 .. TTL /\ [value |-> cache.value, weights |-> cache.weights] \in Preference)
    /\ \A c \in Callers :
          /\ pc[c] \in {"idle", "redis", "reload", "row", "weights", "store", "hit"}
          /\ got[c] \in IF pc[c] \in {"reload", "weights", "store", "hit"} THEN Preference ELSE {None}
    /\ held \in [AllValues -> 0 .. LongAgo]
    /\ upc \in {"idle", "ensure", "update"}
    /\ request # None => upc # "idle" /\ validatePreferences(request)

(* No call of Get returns a preference that PostgreSQL gave up longer ago   *)
(* than the life of the Redis copy and the time two calls take, the one     *)
(* that stored it and the one that returns it, although updates leave the   *)
(* copy alone and a slow call stores what it read before an update.  The    *)
(* fallback of a failed read counts as given when the read failed.  The     *)
(* weights are not stale at all: hit or miss, they are at least those of    *)
(* the moment the call began, unless reading them failed.                   *)
StaleOnlyForTTL ==
    /\ TypeOK
    /\ \A c \in Callers :
          got[c] # None =>
              held[got[c].value] <= IF pc[c] \in {"reload", "hit"} THEN TTL + 2 * Slow ELSE Slow
    /\ \A c \in Callers :
          pc[c] \in {"hit", "store"} /\ got[c].weights # None => got[c].weights >= floor[c]

(* A rider who has notifications switched on can be reached, exactly in the *)
(* minutes from the start of the window to its end, going round midnight    *)
(* when the end comes first: whatever validatePreferences lets into the row *)
(* is a window WithinNotificationWindow can open.                           *)
SwitchedOnIsReachable ==
    row # None /\ row.enabled =>
        \A m \in Minutes :
            MayPush(row, m) <=>
                \/ (m - row.start) % Day < (row.end - row.start) % Day
                \/ row.start = row.end

(* Once updates and failures stop, the copy the ranking reads becomes what  *)
(* the row says and stays so, although nobody invalidates it.               *)
EventuallyFresh == <>[](cache # None => cache.value = InForce)
=============================================================================

--------------------------- MODULE PreferencesProofs ---------------------------
(***************************************************************************)
(* For any number of calls of PreferenceStore.Get, any life of the Redis    *)
(* copy and any duration of a call: how old the preference of an answer may *)
(* be; and for any length of the day, that a rider who has switched         *)
(* notifications on can be reached in the window.                           *)
(*                                                                          *)
(* The invariant bounds the age of what a call holds by the ticks it has    *)
(* taken, and the age of the copy by the time of the call that stored it    *)
(* and the part of its life that is over.                                   *)
(***************************************************************************)
EXTENDS Preferences, TLAPS

PCs == {"idle", "redis", "reload", "row", "weights", "store", "hit"}
Copies == [value : AllValues, weights : (0 .. MaxWeights) \cup {None}, left : 1 .. TTL]

Shapes ==
    /\ row \in Settings \cup {None}
    /\ weights \in 0 .. MaxWeights
    /\ cache \in Copies \cup {None}
    /\ pc \in [Callers -> PCs]
    /\ got \in [Callers -> Preference \cup {None}]
    /\ elapsed \in [Callers -> 0 .. Slow]
    /\ floor \in [Callers -> Nat]
    /\ held \in [AllValues -> 0 .. LongAgo]
    /\ upc \in {"idle", "ensure", "update"}

(* The user service: what it has validated, and the row it updates.         *)
Service ==
    /\ request # None => request \in Requests /\ validatePreferences(request) /\ upc # "idle"
    /\ upc = "update" => row # None /\ request # None
    /\ row # None /\ row.enabled => row.start \in Minutes /\ row.end \in Minutes

(* The age of what is in force, and of the copy.                            *)
Ages ==
    /\ held[InForce] = 0
    /\ cache # None => held[cache.value] + cache.left <= Slow + TTL

(* What a call holds, how old it is, and its weights.                       *)
InHand(c) ==
    /\ got[c] \in IF pc[c] \in {"reload", "weights", "store", "hit"} THEN Preference ELSE {None}
    /\ pc[c] \in {"weights", "store"} => held[got[c].value] <= elapsed[c]
    /\ pc[c] \in {"reload", "hit"} => held[got[c].value] <= Slow + TTL + elapsed[c]
    /\ floor[c] <= weights
    /\ pc[c] \in {"hit", "store"} /\ got[c].weights # None => got[c].weights >= floor[c]

Inv == Shapes /\ Service /\ Ages /\ \A c \in Callers : InHand(c)

-----------------------------------------------------------------------------
(* The notification window.                                                 *)

LEMMA ModIs ==
    ASSUME NEW n \in Nat \ {0}, NEW a \in Int, -n < a, a < n
    PROVE  a % n = IF a >= 0 THEN a ELSE a + n
  OBVIOUS

(* The window of the settings is the one counted round the clock.           *)
LEMMA RoundTheClock ==
    ASSUME NEW s \in Minutes, NEW e \in Minutes, NEW m \in Minutes
    PROVE  WithinNotificationWindow(m, "known", s, e) <=>
               (m - s) % Day < (e - s) % Day \/ s = e
  <1>1. Day \in Nat \ {0} /\ s # None /\ e # None
    BY PreferencesAssumption
  <1>2. s \in 0 .. Day - 1 /\ e \in 0 .. Day - 1 /\ m \in 0 .. Day - 1
    BY DEF Minutes
  <1>3. (m - s) % Day = IF m - s >= 0 THEN m - s ELSE m - s + Day
    <2>1. PICK d \in Int : d = m - s /\ -Day < d /\ d < Day
      BY <1>1, <1>2
    <2>2. d % Day = IF d >= 0 THEN d ELSE d + Day
      BY <1>1, <2>1, ModIs
    <2> QED BY <2>1, <2>2
  <1>4. (e - s) % Day = IF e - s >= 0 THEN e - s ELSE e - s + Day
    <2>1. PICK d \in Int : d = e - s /\ -Day < d /\ d < Day
      BY <1>1, <1>2
    <2>2. d % Day = IF d >= 0 THEN d ELSE d + Day
      BY <1>1, <2>1, ModIs
    <2> QED BY <2>1, <2>2
  <1>5. PICK a \in Int : a = (m - s) % Day
    BY <1>1, <1>2, <1>3
  <1>6. PICK b \in Int : b = (e - s) % Day
    BY <1>1, <1>2, <1>4
  <1>7. a < b \/ s = e <=> \/ s = e
                           \/ s < e /\ m >= s /\ m < e
                           \/ s > e /\ (m >= s \/ m < e)
    BY <1>1, <1>2, <1>3, <1>4, <1>5, <1>6
  <1> QED BY <1>1, <1>5, <1>6, <1>7 DEF WithinNotificationWindow

LEMMA InvReachable == Inv => SwitchedOnIsReachable
  <1> SUFFICES ASSUME Inv, row # None, row.enabled, NEW m \in Minutes
               PROVE  MayPush(row, m) <=>
                          \/ (m - row.start) % Day < (row.end - row.start) % Day
                          \/ row.start = row.end
    BY DEF SwitchedOnIsReachable
  <1>1. row.start \in Minutes /\ row.end \in Minutes
    BY DEF Inv, Service
  <1>2. row.start # None /\ row.end # None /\ row.timezone = "known"
    BY <1>1, PreferencesAssumption DEF Inv, Shapes, Settings
  <1>3. MayPush(row, m) <=> WithinNotificationWindow(m, "known", row.start, row.end)
    BY <1>2 DEF MayPush, requiredWindow
  <1> QED BY <1>1, <1>3, RoundTheClock

-----------------------------------------------------------------------------
LEMMA Numbers ==
    /\ TTL \in Nat \ {0} /\ Slow \in Nat /\ LongAgo \in Nat /\ MaxWeights \in Nat
    /\ 0 \in 0 .. LongAgo /\ 0 \in 0 .. Slow /\ TTL \in 1 .. TTL
  BY PreferencesAssumption DEF LongAgo

(* A step of others leaves a call what it has: ages only go down.           *)
LEMMA Untouched ==
    ASSUME Shapes, NEW d \in Callers, InHand(d),
           pc'[d] = pc[d], got'[d] = got[d], elapsed'[d] = elapsed[d], floor'[d] = floor[d],
           held' \in [AllValues -> 0 .. LongAgo], \A v \in AllValues : held'[v] <= held[v],
           weights' \in 0 .. MaxWeights, weights <= weights'
    PROVE  InHand(d)'
  <1>1. /\ elapsed[d] \in Int /\ floor[d] \in Int /\ weights \in Int /\ weights' \in Int
        /\ Slow + TTL \in Int
    BY Numbers DEF Shapes
  <1>2. ASSUME got[d] \in Preference
        PROVE  /\ got[d].value \in AllValues
               /\ held[got[d].value] \in Int /\ held'[got[d].value] \in Int
               /\ held'[got[d].value] <= held[got[d].value]
    BY <1>2 DEF Shapes, Preference
  <1> QED BY <1>1, <1>2 DEF InHand

(* Of the users row and the values.                                         *)
LEMMA InForceIsValue == ASSUME row \in Settings \cup {None} PROVE InForce \in AllValues
  BY DEF InForce, Settings, AllValues

LEMMA InitInv == Init => Inv
  <1> SUFFICES ASSUME Init PROVE Inv
    OBVIOUS
  <1>1. held \in [AllValues -> 0 .. LongAgo]
    BY Numbers DEF Init
  <1>2. Shapes
    BY <1>1, Numbers DEF Init, Shapes, PCs
  <1>3. Service
    BY DEF Init, Service
  <1>4. Ages
    BY DEF Init, Ages, InForce, AllValues
  <1>5. ASSUME NEW c \in Callers PROVE InHand(c)
    BY DEF Init, InHand
  <1> QED BY <1>2, <1>3, <1>4, <1>5 DEF Inv

-----------------------------------------------------------------------------
(* The user service.                                                        *)

LEMMA ReceiveInv ==
    ASSUME Inv, NEW r \in Requests \cup {None}, Receive(r) PROVE Inv'
  <1>1. UNCHANGED <<row, weights, cache, pc, got, elapsed, floor, held, faults>> /\ upc = "idle"
    BY DEF Receive, get
  <1>2. /\ upc' \in {"idle", "ensure"}
        /\ request' # None => request' \in Requests /\ validatePreferences(request') /\ upc' # "idle"
    <2>1. request = None
      BY <1>1 DEF Inv, Service
    <2> QED BY <1>1, <2>1 DEF Receive
  <1>3. Shapes' /\ Service' /\ Ages'
    BY <1>1, <1>2 DEF Inv, Shapes, Service, Ages, InForce
  <1>4. ASSUME NEW c \in Callers PROVE InHand(c)'
    BY <1>1 DEF Inv, InHand
  <1> QED BY <1>3, <1>4 DEF Inv

(* A value PostgreSQL gives now is of age 0.                                *)
LEMMA GivenNow ==
    ASSUME Shapes, NEW v \in AllValues, held' = [held EXCEPT ![v] = 0]
    PROVE  /\ held' \in [AllValues -> 0 .. LongAgo]
           /\ held'[v] = 0 /\ \A u \in AllValues : held'[u] <= held[u]
  <1>1. held \in [AllValues -> 0 .. LongAgo]
    BY DEF Shapes
  <1>2. /\ held' \in [AllValues -> 0 .. LongAgo] /\ held'[v] = 0
        /\ \A u \in AllValues : held'[u] = held[u] \/ held'[u] = 0
    BY <1>1, Numbers
  <1>3. ASSUME NEW u \in AllValues PROVE held'[u] <= held[u]
    <2>1. held[u] \in 0 .. LongAgo /\ held'[u] \in 0 .. LongAgo
      BY <1>1, <1>2
    <2> QED BY <1>2, <2>1, Numbers
  <1> QED BY <1>2, <1>3

(* A copy does not get older by it.                                         *)
LEMMA CopyAge ==
    ASSUME Shapes, Ages, cache # None, cache' = cache,
           held' \in [AllValues -> 0 .. LongAgo], \A u \in AllValues : held'[u] <= held[u]
    PROVE  held'[cache.value] + cache.left <= Slow + TTL
  <1>1. /\ cache.value \in AllValues /\ cache.left \in 1 .. TTL
        /\ held[cache.value] + cache.left <= Slow + TTL
    BY DEF Shapes, Copies, Ages
  <1>2. held[cache.value] \in 0 .. LongAgo /\ held'[cache.value] \in 0 .. LongAgo
        /\ held'[cache.value] <= held[cache.value]
    BY <1>1 DEF Shapes
  <1> QED BY <1>1, <1>2, Numbers

LEMMA RowInv ==
    ASSUME Inv, UNCHANGED <<weights, cache, pc, got, elapsed, floor>>,
           NEW v \in AllValues, held' = [held EXCEPT ![v] = 0] \/ held' = held,
           held'[InForce'] = 0, row' \in Settings \cup {None},
           upc' \in {"idle", "ensure", "update"}, Service'
    PROVE  Inv'
  <1>1. held' \in [AllValues -> 0 .. LongAgo] /\ \A u \in AllValues : held'[u] <= held[u]
    <2>1. CASE held' = held
      <3>1. \A u \in AllValues : held[u] \in 0 .. LongAgo
        BY DEF Inv, Shapes
      <3>2. \A u \in AllValues : held[u] <= held[u]
        BY <3>1, Numbers
      <3> QED BY <2>1, <3>2 DEF Inv, Shapes
    <2> QED BY <2>1, GivenNow DEF Inv
  <1>2. Shapes'
    BY <1>1 DEF Inv, Shapes
  <1>3. Ages'
    BY <1>1, CopyAge DEF Inv, Ages
  <1>4. weights' \in 0 .. MaxWeights /\ weights <= weights'
    <2>1. weights \in 0 .. MaxWeights
      BY DEF Inv, Shapes
    <2> QED BY <2>1, Numbers
  <1>5. ASSUME NEW c \in Callers PROVE InHand(c)'
    BY <1>1, <1>4, Untouched DEF Inv
  <1> QED BY <1>2, <1>3, <1>5 DEF Inv

LEMMA EnsureInv == ASSUME Inv, EnsureDemoUser PROVE Inv'
  <1>1. /\ upc = "ensure" /\ UNCHANGED <<weights, cache, pc, got, elapsed, floor, request>>
        /\ upc' = IF request = None THEN "idle" ELSE "update"
    BY DEF EnsureDemoUser, get
  <1>2. PICK n \in Settings : /\ n.value = Empty /\ n.enabled = FALSE
                              /\ row' = IF row # None THEN row ELSE n
    <2>1. [value |-> Empty, timezone |-> "known", enabled |-> FALSE, start |-> None, end |-> None]
             \in Settings
      BY DEF Settings
    <2> QED BY <2>1 DEF EnsureDemoUser
  <1>3. row' \in Settings /\ row' # None
    BY <1>2, PreferencesAssumption DEF Inv, Shapes
  <1>4. InForce' \in AllValues /\ held' = [held EXCEPT ![InForce'] = 0]
    <2>1. InForce' = IF row = None THEN Empty ELSE row.value
      BY <1>2, <1>3 DEF InForce
    <2>2. held' = [held EXCEPT ![IF row = None THEN Empty ELSE row.value] = 0]
      BY DEF EnsureDemoUser
    <2> QED BY <1>3, <2>1, <2>2 DEF InForce, Settings, AllValues
  <1>5. held'[InForce'] = 0
    BY <1>4, GivenNow DEF Inv
  <1>6. Service'
    <2>1. row'.enabled => row'.start \in Minutes /\ row'.end \in Minutes
      BY <1>2 DEF Inv, Service
    <2> QED BY <1>1, <1>3, <2>1 DEF Inv, Service
  <1> QED BY <1>1, <1>3, <1>4, <1>5, <1>6, RowInv

(* What validatePreferences lets through makes a row.                       *)
LEMMA RequestIsRow ==
    ASSUME NEW r \in Requests, validatePreferences(r), NEW old \in Settings
    PROVE  /\ [f \in DOMAIN old |-> r[f]] \in Settings
           /\ [f \in DOMAIN old |-> r[f]].value = r.value
           /\ [f \in DOMAIN old |-> r[f]].enabled =>
                 /\ [f \in DOMAIN old |-> r[f]].start \in Minutes
                 /\ [f \in DOMAIN old |-> r[f]].end \in Minutes
  <1>1. DOMAIN old = {"value", "timezone", "enabled", "start", "end"}
    BY DEF Settings
  <1>2. /\ r.value \in Values /\ r.enabled \in BOOLEAN
        /\ r.start \in Minutes \cup {None, Unparsable} /\ r.end \in Minutes \cup {None, Unparsable}
    BY PreferencesAssumption
  <1>3. /\ r.timezone = "known" /\ r.start # Unparsable /\ r.end # Unparsable
        /\ r.enabled => r.start # None /\ r.end # None
    BY DEF validatePreferences
  <1>4. [f \in DOMAIN old |-> r[f]]
           = [value |-> r.value, timezone |-> r.timezone, enabled |-> r.enabled,
              start |-> r.start, end |-> r.end]
    BY <1>1
  <1> QED BY <1>2, <1>3, <1>4 DEF Settings

LEMMA UpdateInv == ASSUME Inv, UpdateRow PROVE Inv'
  <1>1. /\ upc = "update" /\ UNCHANGED <<weights, cache, pc, got, elapsed, floor>>
        /\ upc' = "idle" /\ request' = None
    BY DEF UpdateRow, get
  <1>2. /\ row \in Settings /\ request \in Requests /\ validatePreferences(request)
        /\ request.value \in AllValues
    BY <1>1, PreferencesAssumption DEF Inv, Shapes, Service, AllValues
  <1>3. CASE row' = [f \in DOMAIN row |-> request[f]] /\ held' = [held EXCEPT ![request.value] = 0]
    <2>1. /\ row' \in Settings /\ row'.value = request.value
          /\ row'.enabled => row'.start \in Minutes /\ row'.end \in Minutes
      BY <1>2, <1>3, RequestIsRow
    <2>2. row' # None
      BY <2>1, PreferencesAssumption
    <2>3. InForce' = request.value
      BY <2>1, <2>2 DEF InForce
    <2>4. held'[InForce'] = 0
      BY <1>2, <1>3, <2>3, GivenNow DEF Inv
    <2>5. Service'
      BY <1>1, <2>1 DEF Service
    <2> QED BY <1>1, <1>2, <1>3, <2>1, <2>4, <2>5, RowInv
  <1>4. CASE UNCHANGED <<row, held>>
    <2>1. held'[InForce'] = 0
      BY <1>4 DEF Inv, Ages, InForce
    <2>2. Service'
      BY <1>1, <1>4 DEF Inv, Service
    <2> QED BY <1>1, <1>2, <1>4, <2>1, <2>2, RowInv
  <1> QED BY <1>3, <1>4 DEF UpdateRow

LEMMA ChangeWeightsInv == ASSUME Inv, ChangeWeights PROVE Inv'
  <1>1. /\ weights < MaxWeights /\ weights' = weights + 1
        /\ UNCHANGED <<row, cache, pc, got, elapsed, floor, held, upc, request>>
    BY DEF ChangeWeights, get, user
  <1>2. weights' \in 0 .. MaxWeights /\ weights <= weights'
    BY <1>1, Numbers DEF Inv, Shapes
  <1>3. Shapes' /\ Service' /\ Ages'
    BY <1>1, <1>2 DEF Inv, Shapes, Service, Ages, InForce
  <1>4. ASSUME NEW c \in Callers PROVE InHand(c)'
    <2>1. held' \in [AllValues -> 0 .. LongAgo]
      BY <1>1 DEF Inv, Shapes
    <2>2. \A u \in AllValues : held'[u] <= held[u]
      <3>1. \A u \in AllValues : held[u] \in 0 .. LongAgo
        BY DEF Inv, Shapes
      <3>2. \A u \in AllValues : held[u] <= held[u]
        BY <3>1, Numbers
      <3> QED BY <1>1, <3>2
    <2> QED BY <1>1, <1>2, <2>1, <2>2, Untouched DEF Inv
  <1> QED BY <1>3, <1>4 DEF Inv

-----------------------------------------------------------------------------
(* PreferenceStore.Get.                                                     *)

(* A step of a call that leaves the row, the copy and the ages alone.       *)
LEMMA CallInv ==
    ASSUME Inv, NEW c \in Callers, UNCHANGED <<row, weights, cache, held, upc, request>>,
           NEW step \in PCs, NEW g \in Preference \cup {None}, NEW e \in 0 .. Slow, NEW f \in Nat,
           pc' = [pc EXCEPT ![c] = step], got' = [got EXCEPT ![c] = g],
           elapsed' = [elapsed EXCEPT ![c] = e], floor' = [floor EXCEPT ![c] = f],
           g \in IF step \in {"reload", "weights", "store", "hit"} THEN Preference ELSE {None},
           step \in {"weights", "store"} => held[g.value] <= e,
           step \in {"reload", "hit"} => held[g.value] <= Slow + TTL + e,
           f <= weights,
           step \in {"hit", "store"} /\ g.weights # None => g.weights >= f
    PROVE  Inv'
  <1>1. Shapes'
    BY DEF Inv, Shapes
  <1>2. Service' /\ Ages'
    BY DEF Inv, Service, Ages, InForce
  <1>3. /\ pc'[c] = step /\ got'[c] = g /\ elapsed'[c] = e /\ floor'[c] = f
        /\ \A d \in Callers \ {c} : /\ pc'[d] = pc[d] /\ got'[d] = got[d]
                                    /\ elapsed'[d] = elapsed[d] /\ floor'[d] = floor[d]
    BY DEF Inv, Shapes
  <1>4. InHand(c)'
    BY <1>3 DEF InHand
  <1>5. ASSUME NEW d \in Callers \ {c} PROVE InHand(d)'
    BY <1>3 DEF Inv, InHand
  <1> QED BY <1>1, <1>2, <1>4, <1>5 DEF Inv

(* The same for what a call has before the step.                            *)
LEMMA CallHas ==
    ASSUME Inv, NEW c \in Callers
    PROVE  /\ pc[c] \in PCs /\ elapsed[c] \in 0 .. Slow /\ floor[c] \in Nat /\ floor[c] <= weights
           /\ pc = [pc EXCEPT ![c] = pc[c]] /\ got = [got EXCEPT ![c] = got[c]]
           /\ elapsed = [elapsed EXCEPT ![c] = elapsed[c]]
           /\ floor = [floor EXCEPT ![c] = floor[c]]
           /\ weights \in 0 .. MaxWeights /\ weights \in Nat /\ 0 <= weights /\ weights <= weights
           /\ pc[c] \in {"idle", "redis", "row"} => got[c] = None
           /\ pc[c] \in {"reload", "weights", "store", "hit"} =>
                 got[c] \in Preference /\ got[c].value \in AllValues
  <1>1. /\ pc[c] \in PCs /\ elapsed[c] \in 0 .. Slow /\ floor[c] \in Nat /\ floor[c] <= weights
        /\ pc = [pc EXCEPT ![c] = pc[c]] /\ got = [got EXCEPT ![c] = got[c]]
        /\ elapsed = [elapsed EXCEPT ![c] = elapsed[c]]
        /\ floor = [floor EXCEPT ![c] = floor[c]]
    BY DEF Inv, Shapes, InHand
  <1>2. weights \in 0 .. MaxWeights /\ weights \in Nat /\ 0 <= weights /\ weights <= weights
    BY Numbers DEF Inv, Shapes
  <1>3. /\ pc[c] \in {"idle", "redis", "row"} => got[c] = None
        /\ pc[c] \in {"reload", "weights", "store", "hit"} =>
              got[c] \in Preference /\ got[c].value \in AllValues
    BY DEF Inv, InHand, Preference
  <1> QED BY <1>1, <1>2, <1>3

LEMMA Held ==
    ASSUME NEW c \in Callers, NEW v \in AllValues, NEW w \in (0 .. MaxWeights) \cup {None},
           Hold(c, v, w)
    PROVE  \E g \in Preference : got' = [got EXCEPT ![c] = g] /\ g.value = v /\ g.weights = w
  <1>1. [value |-> v, weights |-> w] \in Preference
    BY DEF Preference
  <1>2. got' = [got EXCEPT ![c] = [value |-> v, weights |-> w]]
    BY DEF Hold
  <1> QED BY <1>1, <1>2

LEMMA EndInv ==
    ASSUME Inv, NEW c \in Callers, End(c), UNCHANGED <<row, weights, cache, held, upc, request>>
    PROVE  Inv'
  <1>1. /\ pc' = [pc EXCEPT ![c] = "idle"] /\ got' = [got EXCEPT ![c] = None]
        /\ elapsed' = [elapsed EXCEPT ![c] = 0] /\ floor' = [floor EXCEPT ![c] = 0]
    BY DEF End, Goto
  <1>2. "idle" \in PCs
    BY DEF PCs
  <1>3. 0 <= weights
    BY CallHas
  <1> QED BY <1>1, <1>2, <1>3, Numbers, CallInv

LEMMA GetInv == ASSUME Inv, NEW c \in Callers, Get(c) PROVE Inv'
  <1>1. /\ pc[c] = "idle" /\ pc' = [pc EXCEPT ![c] = "redis"]
        /\ floor' = [floor EXCEPT ![c] = weights]
        /\ UNCHANGED <<row, weights, cache, got, elapsed, held, upc, request>>
    BY DEF Get, Goto, user
  <1>2. "redis" \in PCs
    BY DEF PCs
  <1>3. got' = [got EXCEPT ![c] = None] /\ elapsed' = [elapsed EXCEPT ![c] = elapsed[c]]
    BY <1>1, CallHas
  <1>4. elapsed[c] \in 0 .. Slow /\ weights \in Nat /\ weights <= weights
    BY CallHas
  <1> QED BY <1>1, <1>2, <1>3, <1>4, CallInv

LEMMA ReadCacheInv == ASSUME Inv, NEW c \in Callers, ReadCache(c) PROVE Inv'
  <1>1. pc[c] = "redis" /\ UNCHANGED <<row, weights, cache, elapsed, floor, held, upc, request>>
    BY DEF ReadCache, user
  <1>2. /\ elapsed' = [elapsed EXCEPT ![c] = elapsed[c]] /\ floor' = [floor EXCEPT ![c] = floor[c]]
        /\ elapsed[c] \in 0 .. Slow /\ floor[c] \in Nat /\ floor[c] <= weights
    BY <1>1, CallHas
  <1>3. CASE Goto(c, "row") /\ UNCHANGED got
    <2>1. "row" \in PCs /\ pc' = [pc EXCEPT ![c] = "row"]
      BY <1>3 DEF PCs, Goto
    <2>2. got' = [got EXCEPT ![c] = None]
      BY <1>1, <1>3, CallHas
    <2> QED BY <1>1, <1>2, <2>1, <2>2, CallInv
  <1>4. CASE cache # None /\ Hold(c, cache.value, cache.weights) /\ Goto(c, "reload")
    <2>1. "reload" \in PCs /\ pc' = [pc EXCEPT ![c] = "reload"]
      BY <1>4 DEF PCs, Goto
    <2>2. /\ cache.value \in AllValues /\ cache.weights \in (0 .. MaxWeights) \cup {None}
          /\ cache.left \in 1 .. TTL
      BY <1>4 DEF Inv, Shapes, Copies
    <2>3. PICK g \in Preference :
             got' = [got EXCEPT ![c] = g] /\ g.value = cache.value /\ g.weights = cache.weights
      <3>1. [value |-> cache.value, weights |-> cache.weights] \in Preference
        BY <2>2 DEF Preference
      <3>2. got' = [got EXCEPT ![c] = [value |-> cache.value, weights |-> cache.weights]]
        BY <1>4 DEF Hold
      <3> QED BY <3>1, <3>2
    <2>4. held[g.value] <= Slow + TTL + elapsed[c]
      <3>1. held[cache.value] + cache.left <= Slow + TTL
        BY <1>4 DEF Inv, Ages
      <3>2. held[cache.value] \in 0 .. LongAgo
        BY <2>2 DEF Inv, Shapes
      <3> QED BY <1>2, <2>2, <2>3, <3>1, <3>2, Numbers
    <2> QED BY <1>1, <1>2, <2>1, <2>3, <2>4, CallInv
  <1> QED BY <1>3, <1>4 DEF ReadCache

LEMMA ReloadWeightsInv == ASSUME Inv, NEW c \in Callers, ReloadWeights(c) PROVE Inv'
  <1>1. /\ pc[c] = "reload" /\ UNCHANGED <<row, weights, cache, elapsed, held, upc, request>>
        /\ pc' = [pc EXCEPT ![c] = "hit"] /\ "hit" \in PCs
    BY DEF ReloadWeights, Goto, user, PCs
  <1>2. /\ elapsed' = [elapsed EXCEPT ![c] = elapsed[c]] /\ elapsed[c] \in 0 .. Slow
        /\ got[c] \in Preference /\ got[c].value \in AllValues
    BY <1>1, CallHas
  <1>3. held[got[c].value] <= Slow + TTL + elapsed[c]
    BY <1>1 DEF Inv, InHand
  <1>4. CASE Hold(c, got[c].value, weights) /\ UNCHANGED floor
    <2>1. PICK g \in Preference :
             got' = [got EXCEPT ![c] = g] /\ g.value = got[c].value /\ g.weights = weights
      BY <1>2, <1>4, CallHas, Held
    <2>2. floor' = [floor EXCEPT ![c] = floor[c]] /\ floor[c] \in Nat /\ floor[c] <= weights
      BY <1>4, CallHas
    <2>3. weights >= floor[c]
      BY <2>2, CallHas
    <2> QED BY <1>1, <1>2, <1>3, <2>1, <2>2, <2>3, CallInv
  <1>5. CASE floor' = [floor EXCEPT ![c] = 0] /\ UNCHANGED got
    <2>1. got' = [got EXCEPT ![c] = got[c]] /\ 0 <= weights
      BY <1>5, CallHas
    <2>2. got[c].weights # None => got[c].weights >= 0
      BY <1>2, Numbers DEF Preference
    <2> QED BY <1>1, <1>2, <1>3, <1>5, <2>1, <2>2, CallInv
  <1> QED BY <1>4, <1>5 DEF ReloadWeights

LEMMA LoadWeightsInv == ASSUME Inv, NEW c \in Callers, LoadPreferenceWeights(c) PROVE Inv'
  <1>1. pc[c] = "weights" /\ UNCHANGED <<row, weights, cache, held, upc, request>>
    BY DEF LoadPreferenceWeights, user
  <1>2. CASE End(c)
    BY <1>1, <1>2, EndInv
  <1>3. CASE Hold(c, got[c].value, weights) /\ Goto(c, "store") /\ UNCHANGED <<elapsed, floor>>
    <2>1. /\ pc' = [pc EXCEPT ![c] = "store"] /\ "store" \in PCs
          /\ elapsed' = [elapsed EXCEPT ![c] = elapsed[c]] /\ elapsed[c] \in 0 .. Slow
          /\ floor' = [floor EXCEPT ![c] = floor[c]] /\ floor[c] \in Nat /\ floor[c] <= weights
          /\ got[c] \in Preference /\ got[c].value \in AllValues
      BY <1>1, <1>3, CallHas DEF Goto, PCs
    <2>2. PICK g \in Preference :
             got' = [got EXCEPT ![c] = g] /\ g.value = got[c].value /\ g.weights = weights
      BY <1>3, <2>1, CallHas, Held
    <2>3. held[got[c].value] <= elapsed[c]
      BY <1>1 DEF Inv, InHand
    <2>4. weights >= floor[c]
      BY <2>1, CallHas
    <2> QED BY <1>1, <2>1, <2>2, <2>3, <2>4, CallInv
  <1> QED BY <1>2, <1>3 DEF LoadPreferenceWeights

(* What the row gives is in force; a failed read gives the fallback.        *)
LEMMA ReadRowInv == ASSUME Inv, NEW c \in Callers, ReadRow(c) PROVE Inv'
  <1>1. pc[c] = "row" /\ UNCHANGED <<row, weights, cache, elapsed, floor, upc, request>>
    BY DEF ReadRow, user
  <1>2. /\ elapsed' = [elapsed EXCEPT ![c] = elapsed[c]] /\ elapsed[c] \in 0 .. Slow
        /\ floor' = [floor EXCEPT ![c] = floor[c]] /\ floor[c] \in Nat /\ floor[c] <= weights
    BY <1>1, CallHas
  <1>3. "weights" \in PCs /\ "store" \in PCs
    BY DEF PCs
  <1>4. ASSUME NEW v \in AllValues, Hold(c, v, None)
        PROVE  \E g \in Preference :
                  got' = [got EXCEPT ![c] = g] /\ g.value = v /\ g.weights = None
    <2>1. [value |-> v, weights |-> None] \in Preference
      BY DEF Preference
    <2>2. got' = [got EXCEPT ![c] = [value |-> v, weights |-> None]]
      BY <1>4 DEF Hold
    <2> QED BY <2>1, <2>2
  <1>5. CASE /\ row # None
             /\ Hold(c, row.value, None) /\ Goto(c, "weights")
             /\ UNCHANGED held
    <2>1. row.value \in AllValues /\ held[row.value] = 0
      BY <1>5, InForceIsValue DEF Inv, Shapes, Ages, InForce
    <2>2. PICK g \in Preference :
             got' = [got EXCEPT ![c] = g] /\ g.value = row.value /\ g.weights = None
      BY <1>4, <1>5, <2>1
    <2>3. held[g.value] <= elapsed[c]
      BY <1>2, <2>1, <2>2, Numbers
    <2> QED BY <1>1, <1>2, <1>3, <1>5, <2>2, <2>3, CallInv DEF Goto
  <1>6. CASE /\ row = None
             /\ Hold(c, Demo, None) /\ Goto(c, "store")
             /\ UNCHANGED held
    <2>1. Demo \in AllValues /\ held[Demo] = 0
      BY <1>6 DEF Inv, Ages, InForce, AllValues
    <2>2. PICK g \in Preference :
             got' = [got EXCEPT ![c] = g] /\ g.value = Demo /\ g.weights = None
      BY <1>4, <1>6, <2>1
    <2>3. held[g.value] <= elapsed[c]
      BY <1>2, <2>1, <2>2, Numbers
    <2> QED BY <1>1, <1>2, <1>3, <1>6, <2>2, <2>3, CallInv DEF Goto
  <1>7. CASE /\ row # None
             /\ Hold(c, Demo, None) /\ Goto(c, "store")
             /\ held' = [held EXCEPT ![Demo] = 0]
    <2>1. Demo \in AllValues
      BY DEF AllValues
    <2>2. PICK g \in Preference :
             got' = [got EXCEPT ![c] = g] /\ g.value = Demo /\ g.weights = None
      BY <1>4, <1>7, <2>1
    <2>3. /\ held' \in [AllValues -> 0 .. LongAgo]
          /\ held'[Demo] = 0 /\ \A u \in AllValues : held'[u] <= held[u]
      BY <1>7, <2>1, GivenNow DEF Inv
    <2>4. /\ pc' \in [Callers -> PCs] /\ got' \in [Callers -> Preference \cup {None}]
          /\ pc'[c] = "store" /\ got'[c] = g
          /\ \A d \in Callers \ {c} : pc'[d] = pc[d] /\ got'[d] = got[d]
      BY <1>3, <1>7, <2>2 DEF Goto, Inv, Shapes
    <2>5. Shapes'
      BY <1>1, <2>3, <2>4 DEF Inv, Shapes
    <2>6. Service'
      BY <1>1 DEF Inv, Service
    <2>7. Ages'
      <3>1. InForce' = InForce /\ InForce \in AllValues
        BY <1>1, InForceIsValue DEF InForce, Inv, Shapes
      <3>2. held'[InForce] = 0
        BY <1>7, <3>1 DEF Inv, Shapes, Ages
      <3> QED BY <1>1, <2>3, <3>1, <3>2, CopyAge DEF Inv, Ages
    <2>8. InHand(c)'
      <3>1. elapsed'[c] = elapsed[c] /\ floor'[c] = floor[c] /\ weights' = weights
        BY <1>1
      <3>2. held'[g.value] <= elapsed[c]
        BY <1>2, <2>2, <2>3, Numbers
      <3> QED BY <1>2, <2>2, <2>4, <3>1, <3>2 DEF InHand
    <2>9. ASSUME NEW d \in Callers \ {c} PROVE InHand(d)'
      BY <1>1, <2>3, <2>4, CallHas, Untouched DEF Inv
    <2> QED BY <2>5, <2>6, <2>7, <2>8, <2>9 DEF Inv
  <1> QED BY <1>5, <1>6, <1>7 DEF ReadRow

(* The copy is as old as what the call read, at most Slow.                  *)
LEMMA StoreInv == ASSUME Inv, NEW c \in Callers, Store(c) PROVE Inv'
  <1>1. pc[c] = "store" /\ End(c) /\ UNCHANGED <<row, weights, held, upc, request>>
    BY DEF Store, user
  <1>2. CASE UNCHANGED cache
    BY <1>1, <1>2, EndInv
  <1>3. CASE cache' = [value |-> got[c].value, weights |-> got[c].weights, left |-> TTL]
    <2>1. got[c] \in Preference /\ got[c].value \in AllValues /\ elapsed[c] \in 0 .. Slow
      BY <1>1, CallHas
    <2>2. cache' \in Copies /\ cache'.value = got[c].value /\ cache'.left = TTL
      BY <1>3, <2>1, Numbers DEF Copies, Preference
    <2>3. held[got[c].value] + TTL <= Slow + TTL
      <3>1. held[got[c].value] <= elapsed[c] /\ held[got[c].value] \in 0 .. LongAgo
        BY <1>1, <2>1 DEF Inv, InHand, Shapes
      <3> QED BY <2>1, <3>1, Numbers
    <2>4. /\ pc' = [pc EXCEPT ![c] = "idle"] /\ got' = [got EXCEPT ![c] = None]
          /\ elapsed' = [elapsed EXCEPT ![c] = 0] /\ floor' = [floor EXCEPT ![c] = 0]
      BY <1>1 DEF End, Goto
    <2>5. /\ pc' \in [Callers -> PCs] /\ got' \in [Callers -> Preference \cup {None}]
          /\ elapsed' \in [Callers -> 0 .. Slow] /\ floor' \in [Callers -> Nat]
          /\ pc'[c] = "idle" /\ got'[c] = None /\ floor'[c] = 0
          /\ \A d \in Callers \ {c} : /\ pc'[d] = pc[d] /\ got'[d] = got[d]
                                      /\ elapsed'[d] = elapsed[d] /\ floor'[d] = floor[d]
      BY <2>4, Numbers DEF Inv, Shapes, PCs
    <2>6. Shapes'
      BY <1>1, <2>2, <2>5 DEF Inv, Shapes
    <2>7. Service'
      BY <1>1 DEF Inv, Service
    <2>8. Ages'
      BY <1>1, <2>2, <2>3 DEF Inv, Ages, InForce
    <2>9. InHand(c)'
      BY <1>1, <2>5, CallHas DEF InHand
    <2>10. ASSUME NEW d \in Callers \ {c} PROVE InHand(d)'
      BY <1>1, <2>5 DEF Inv, InHand
    <2> QED BY <2>6, <2>7, <2>8, <2>9, <2>10 DEF Inv
  <1> QED BY <1>2, <1>3 DEF Store

(* A tick makes everything older by one at most, and the copy and the calls *)
(* with it.                                                                 *)
LEMMA TickInv == ASSUME Inv, Tick PROVE Inv'
  <1>1. UNCHANGED <<row, weights, pc, got, floor, upc, request>>
    BY DEF Tick, user
  <1>2. /\ held' \in [AllValues -> 0 .. LongAgo]
        /\ \A v \in AllValues : held'[v] <= held[v] + 1 /\ held[v] \in 0 .. LongAgo
    <2>1. ASSUME NEW v \in AllValues
          PROVE  held'[v] \in 0 .. LongAgo /\ held'[v] <= held[v] + 1 /\ held[v] \in 0 .. LongAgo
      <3>1. held[v] \in 0 .. LongAgo
        BY DEF Inv, Shapes
      <3>2. held'[v] = IF v = InForce THEN 0
                       ELSE IF held[v] = LongAgo THEN LongAgo ELSE held[v] + 1
        BY DEF Tick
      <3> QED BY <3>1, <3>2, Numbers
    <2>2. DOMAIN held' = AllValues /\ held' = [v \in AllValues |-> held'[v]]
      BY DEF Tick
    <2> QED BY <2>1, <2>2
  <1>3. ASSUME NEW c \in Callers
        PROVE  /\ elapsed'[c] \in 0 .. Slow /\ elapsed[c] \in 0 .. Slow
               /\ elapsed'[c] = IF pc[c] = "idle" THEN 0 ELSE elapsed[c] + 1
    <2>1. elapsed[c] \in 0 .. Slow
      BY DEF Inv, Shapes
    <2>2. elapsed'[c] = IF pc[c] = "idle" THEN 0 ELSE elapsed[c] + 1
      BY DEF Tick
    <2>3. pc[c] # "idle" => elapsed[c] < Slow
      BY DEF Tick
    <2> QED BY <2>1, <2>2, <2>3, Numbers
  <1>4. elapsed' \in [Callers -> 0 .. Slow]
    <2>1. elapsed' = [c \in Callers |-> elapsed'[c]]
      BY DEF Tick
    <2> QED BY <1>3, <2>1
  <1>5. /\ cache' \in Copies \cup {None}
        /\ cache' # None => held'[cache'.value] + cache'.left <= Slow + TTL
    <2>1. CASE cache = None \/ cache.left = 1
      BY <2>1 DEF Tick
    <2>2. CASE ~(cache = None \/ cache.left = 1)
      <3>1. PICK k \in Copies : k = cache
        BY <2>2 DEF Inv, Shapes
      <3>2. /\ k.left \in 1 .. TTL /\ k.left # 1 /\ k.value \in AllValues
            /\ k.weights \in (0 .. MaxWeights) \cup {None}
        BY <2>2, <3>1 DEF Copies
      <3>3. cache' = [k EXCEPT !.left = @ - 1]
        BY <2>2, <3>1 DEF Tick
      <3>4. cache' = [value |-> k.value, weights |-> k.weights, left |-> k.left - 1]
        BY <3>1, <3>3 DEF Copies
      <3>5. k.left - 1 \in 1 .. TTL
        BY <3>2, Numbers
      <3>6. cache' \in Copies /\ cache'.value = k.value /\ cache'.left = k.left - 1
        BY <3>2, <3>4, <3>5 DEF Copies
      <3>7. held[k.value] + k.left <= Slow + TTL
        BY <2>2, <3>1 DEF Inv, Ages
      <3>8. held'[k.value] \in 0 .. LongAgo /\ held'[k.value] <= held[k.value] + 1
            /\ held[k.value] \in 0 .. LongAgo
        BY <1>2, <3>2
      <3>9. held'[k.value] + (k.left - 1) <= Slow + TTL
        BY <3>2, <3>7, <3>8, Numbers
      <3> QED BY <3>6, <3>9
    <2> QED BY <2>1, <2>2
  <1>6. Shapes'
    BY <1>1, <1>2, <1>4, <1>5 DEF Inv, Shapes
  <1>7. Service'
    BY <1>1 DEF Inv, Service
  <1>8. Ages'
    <2>1. InForce' = InForce /\ InForce \in AllValues
      BY <1>1, InForceIsValue DEF InForce, Inv, Shapes
    <2>2. held'[InForce] = 0
      BY <2>1 DEF Tick
    <2> QED BY <1>5, <2>1, <2>2 DEF Ages
  <1>9. ASSUME NEW c \in Callers PROVE InHand(c)'
    <2>1. CASE pc[c] \in {"reload", "weights", "store", "hit"}
      <3>1. got[c].value \in AllValues
        BY <2>1, CallHas
      <3>2. PICK h \in 0 .. LongAgo : h = held[got[c].value]
        BY <1>2, <3>1
      <3>3. PICK i \in 0 .. LongAgo : i = held'[got[c].value] /\ i <= h + 1
        BY <1>2, <3>1, <3>2
      <3>4. elapsed'[c] = elapsed[c] + 1 /\ elapsed[c] \in 0 .. Slow
        BY <1>3, <2>1
      <3>5. /\ h <= elapsed[c] => i <= elapsed[c] + 1
            /\ h <= Slow + TTL + elapsed[c] => i <= Slow + TTL + (elapsed[c] + 1)
        BY <3>2, <3>3, <3>4, Numbers
      <3> QED BY <1>1, <3>2, <3>3, <3>4, <3>5 DEF Inv, InHand
    <2>2. CASE pc[c] \notin {"reload", "weights", "store", "hit"}
      BY <1>1, <2>2 DEF Inv, InHand
    <2> QED BY <2>1, <2>2
  <1> QED BY <1>6, <1>7, <1>8, <1>9 DEF Inv

LEMMA NextInv == Inv /\ [Next]_vars => Inv'
  <1> SUFFICES ASSUME Inv, [Next]_vars PROVE Inv'
    OBVIOUS
  <1>1. CASE \E r \in Requests \cup {None} : Receive(r)
    BY <1>1, ReceiveInv
  <1>2. CASE EnsureDemoUser
    BY <1>2, EnsureInv
  <1>3. CASE UpdateRow
    BY <1>3, UpdateInv
  <1>4. CASE ChangeWeights
    BY <1>4, ChangeWeightsInv
  <1>5. CASE Tick
    BY <1>5, TickInv
  <1>6. ASSUME NEW c \in Callers, Get(c) \/ GetStep(c) PROVE Inv'
    <2>1. CASE Get(c)
      BY <2>1, GetInv
    <2>2. CASE ReadCache(c)
      BY <2>2, ReadCacheInv
    <2>3. CASE ReloadWeights(c)
      BY <2>3, ReloadWeightsInv
    <2>4. CASE ReadRow(c)
      BY <2>4, ReadRowInv
    <2>5. CASE LoadPreferenceWeights(c)
      BY <2>5, LoadWeightsInv
    <2>6. CASE Store(c)
      BY <2>6, StoreInv
    <2>7. CASE ReturnHit(c)
      <3>1. End(c) /\ UNCHANGED <<row, weights, cache, held, upc, request>>
        BY <2>7 DEF ReturnHit, user
      <3> QED BY <3>1, EndInv
    <2> QED BY <1>6, <2>1, <2>2, <2>3, <2>4, <2>5, <2>6, <2>7 DEF GetStep
  <1>7. CASE UNCHANGED vars
    <2>1. UNCHANGED <<row, weights, cache, pc, got, elapsed, floor, held, upc, request>>
      BY <1>7 DEF vars, get, user
    <2>2. Shapes' /\ Service' /\ Ages'
      BY <2>1 DEF Inv, Shapes, Service, Ages, InForce
    <2>3. ASSUME NEW c \in Callers PROVE InHand(c)'
      BY <2>1 DEF Inv, InHand
    <2> QED BY <2>2, <2>3 DEF Inv
  <1> QED BY <1>1, <1>2, <1>3, <1>4, <1>5, <1>6, <1>7 DEF Next

-----------------------------------------------------------------------------
(* No call of PreferenceStore.Get answers with a preference that PostgreSQL *)
(* gave up longer ago than the TTL and the time of two calls, though no     *)
(* update invalidates the Redis copy and a slow call stores what it read    *)
(* before one; and its weights are at least those of its beginning.         *)
THEOREM StaleForTTLOnly == Spec => []StaleOnlyForTTL
  <1>1. Inv => StaleOnlyForTTL
    <2> SUFFICES ASSUME Inv PROVE StaleOnlyForTTL
      OBVIOUS
    <2>1. TypeOK
      <3>1. cache = None \/ (cache.left \in 1 .. TTL
               /\ [value |-> cache.value, weights |-> cache.weights] \in Preference)
        BY DEF Inv, Shapes, Copies, Preference
      <3>2. \A c \in Callers :
              /\ pc[c] \in PCs
              /\ got[c] \in IF pc[c] \in {"reload", "weights", "store", "hit"} THEN Preference ELSE {None}
        BY DEF Inv, Shapes, InHand
      <3>3. request # None => upc # "idle" /\ validatePreferences(request)
        BY DEF Inv, Service
      <3> QED BY <3>1, <3>2, <3>3 DEF Inv, Shapes, TypeOK, PCs
    <2>2. ASSUME NEW c \in Callers, got[c] # None
          PROVE  held[got[c].value] <=
                     IF pc[c] \in {"reload", "hit"} THEN TTL + 2 * Slow ELSE Slow
      <3>1. pc[c] \in {"reload", "weights", "store", "hit"} /\ got[c].value \in AllValues
        BY <2>2, CallHas DEF PCs
      <3>2. PICK h \in 0 .. LongAgo : h = held[got[c].value]
        BY <3>1 DEF Inv, Shapes
      <3>3. elapsed[c] \in 0 .. Slow
        BY CallHas
      <3>4. CASE pc[c] \in {"weights", "store"}
        <4>1. h <= elapsed[c]
          BY <3>2, <3>4 DEF Inv, InHand
        <4> QED BY <3>2, <3>3, <3>4, <4>1, Numbers
      <3>5. CASE pc[c] \in {"reload", "hit"}
        <4>1. h <= Slow + TTL + elapsed[c]
          BY <3>2, <3>5 DEF Inv, InHand
        <4> QED BY <3>2, <3>3, <3>5, <4>1, Numbers
      <3> QED BY <3>1, <3>4, <3>5
    <2>3. \A c \in Callers :
            pc[c] \in {"hit", "store"} /\ got[c].weights # None => got[c].weights >= floor[c]
      BY DEF Inv, InHand
    <2> QED BY <2>1, <2>2, <2>3 DEF StaleOnlyForTTL
  <1> QED BY <1>1, InitInv, NextInv, PTL DEF Spec

(* Whatever validatePreferences lets into the users row, a rider with       *)
(* notifications switched on can be reached in exactly the minutes from the *)
(* start of the window to its end, round midnight if need be.               *)
THEOREM WindowOpens == Spec => []SwitchedOnIsReachable
  BY InvReachable, InitInv, NextInv, PTL DEF Spec
=============================================================================
